------------------------------ MODULE Initiator -----------------------------
(***************************************************************************)
(* A gateway program (firehose, em or cm: one main, three applications)    *)
(* from its first instruction to its last: static initialisation, the varz *)
(* server, the flags, the publishers and the connectors of SocketInitiator,*)
(* block(), and the signal handler OnTerminate that ends it.               *)
(*                                                                         *)
(* OnTerminate runs on whichever thread the signal is delivered to, on top *)
(* of what that thread was doing, and the thread goes on only when it      *)
(* returns, which it never does: it ends in exit().  SocketInitiator::stop *)
(* and VarzServer::stop lock a mutex that the interrupted code may hold.   *)
(* The first joins the event thread of every session, the second waits for *)
(* the threads of the server, and OnTerminate may be on one of them.       *)
(***************************************************************************)
EXTENDS Varz, Sequences, Integers

CONSTANTS Programs,   \* programs and their flags
          InUse,      \* addresses another process is bound to
          Signals     \* SIGINT and SIGTERM

\* How a program can end.
Exits == {"return", "exit", "died", "threw", "FATAL", "NULL", "dangling"}

\* Channel ids of --outbound; sessions of --connectors, which are the threads that count.
ASSUME InitiatorAssumption ==
  /\ \A p \in Programs :
       /\ p.connectors \in Seq(Threads \cup {None}) \* None: a spec that is malformed
       /\ \A c \in DOMAIN p.outbound : c \in Nat
       /\ p.publish \in BOOLEAN
       /\ \A v \in p.varzs : v.type \in Types
       /\ {p.maxSignals, p.maxEvents, p.maxPages} \subseteq Nat \* bounds
  /\ None \notin Nat \cup Exits
  /\ {"main", "varz", "other"} \cap Threads = {}

Main == 0 \* the holder of a lock: main, or the number of a handler

VARIABLES
  program,    \* what runs
  pc,         \* where main is
  channels,   \* of the outbound map, still to be configured
  sessions,   \* of the settings, still to be started
  outboundChannels, \* [channel -> endpoint]; a publisher's endpoint is its channel
  publishers, \* [address -> channel whose endpoint the publisher is bound to]
  connectors, \* connectors[s]: where the session s and its event thread are
  sockets,    \* sockets[s]: the channels that the event thread of s has sockets for
  running,    \* connectorsRunning_
  mutex,      \* SocketInitiator's: None, Main or a handler
  varzMutex,  \* VarzServer's
  handlers,   \* OnTerminate, once for each signal: [signal, thread, pc, at]
  exit        \* how the program ended, or None

lifeVars == <<program, pc, channels, sessions, outboundChannels, publishers, connectors,
              sockets, running, mutex, varzMutex, handlers, exit>>
vars == <<lifeVars, varzVars>>

\* "retried": connected after several attempts; "closing": being stopped, its event
\* thread about to end; "blocked": being stopped, its event thread never ends.
Places == {"none", "connected", "retried", "closing", "blocked", "stopped"}

\* Where main holds SocketInitiator's mutex, and VarzServer's.
HoldsMutex == {"publishing", "starting", "stuck", "checking"}
HoldsVarz  == {"varz starting", "varz destroying"}

TypeOK ==
  /\ VarzTypeOK
  /\ program \in Programs
  /\ channels \subseteq DOMAIN program.outbound
  /\ DOMAIN outboundChannels \subseteq DOMAIN program.outbound
  /\ \A a \in DOMAIN publishers : publishers[a] \in DOMAIN outboundChannels \cup channels
  /\ connectors \in [Threads -> Places]
  /\ running \in BOOLEAN
  /\ {mutex, varzMutex} \subseteq {None, Main} \cup DOMAIN handlers
  /\ mutex = Main <=> pc \in HoldsMutex
  /\ varzMutex = Main <=> pc \in HoldsVarz
  /\ exit \in {None} \cup Exits

Init ==
  /\ VarzInit
  /\ program \in Programs
  /\ pc = "static"
  /\ channels = DOMAIN program.outbound /\ sessions = program.connectors
  /\ outboundChannels = << >> /\ publishers = << >>
  /\ connectors = [s \in Threads |-> "none"] /\ sockets = [s \in Threads |-> {}]
  /\ running = FALSE /\ mutex = None /\ varzMutex = None
  /\ handlers = << >> /\ exit = None

----------------------------------------------------------------------------

\* The handlers that interrupted a thread.
On(thread) == {h \in DOMAIN handlers : /\ handlers[h].thread = thread
                                       /\ handlers[h].pc # "exited"}
OnMain     == On("main")

\* The code on a thread that runs: the latest handler, or what it interrupted.
\* "varz" and "other" are several threads.
Running(h) ==
  IF h = Main THEN OnMain = {}
  ELSE handlers[h].thread \in {"main"} \cup Threads =>
         \A g \in On(handlers[h].thread) : g <= h

\* A step of main from one place to another.
Goto(from, to) ==
  /\ exit = None /\ Running(Main)
  /\ pc = from /\ pc' = to
  /\ UNCHANGED <<program, handlers>>

configVars    == <<channels, outboundChannels, publishers>>
connectorVars == <<sessions, connectors, sockets>>

----------------------------------------------------------------------------
(* main *)

\* Global constructors, in an order the linker chooses.
Define ==
  /\ exit = None /\ pc = "static"
  /\ \E v \in program.varzs \ varzs :
       IF Taken(v) THEN exit' = "died" /\ UNCHANGED varzVars
                   ELSE exit' = exit /\ RegisterVarz(v)
  /\ UNCHANGED <<program, pc, configVars, connectorVars, running, mutex, varzMutex, handlers>>

\* Varz::initialize and the signal handlers.
Begin ==
  /\ Goto("static", "begin")
  /\ program.varzs \subseteq varzs
  /\ UNCHANGED <<configVars, connectorVars, running, mutex, varzMutex, exit, varzVars>>

\* varz.start(), in VarzServer's mutex; VARZ_INSTANCE is set.
LockVarz ==
  /\ Goto("begin", "varz starting")
  /\ varzMutex = None /\ varzMutex' = Main
  /\ UNCHANGED <<configVars, connectorVars, running, mutex, exit, varzVars>>

StartVarz ==
  /\ Goto("varz starting", "parse")
  /\ StartServer
  /\ varzMutex' = None
  /\ UNCHANGED <<configVars, connectorVars, running, mutex, exit>>
  /\ UNCHANGED <<varzs, values, actual, writers, held, page, pages>>

\* The flags: boost::lexical_cast throws on a spec that is malformed, and nothing
\* catches it.  The parsers never return false.
Parse ==
  /\ Goto("parse", "configure")
  /\ exit' = IF \E i \in DOMAIN program.connectors : program.connectors[i] = None
             THEN "threw" ELSE exit
  /\ UNCHANGED <<configVars, connectorVars, running, mutex, varzMutex, varzVars>>

\* Mutant: channels are configured from the highest to the lowest.
HighestFirst(c) == \A d \in channels : d <= c

\* The outbound map is a std::map: Configure takes the channels in their order.
NextChannel(c) == \A d \in channels : c <= d

\* publish(): the mutex is held until the publisher is ready.
LockPublish ==
  /\ Goto("configure", "publishing")
  /\ program.publish /\ channels # {}
  /\ mutex = None /\ mutex' = Main
  /\ UNCHANGED <<configVars, connectorVars, running, varzMutex, exit, varzVars>>

\* One publisher for each address.  The endpoint of another channel that shares
\* its address is never bound.
Publish ==
  /\ Goto("publishing", "configure")
  /\ \E c \in channels :
       LET address == program.outbound[c]
       IN  /\ NextChannel(c)
           /\ channels' = channels \ {c}
           /\ outboundChannels' = [d \in DOMAIN outboundChannels \cup {c} |-> d]
           /\ publishers' = IF address \in DOMAIN publishers THEN publishers
                            ELSE [a \in DOMAIN publishers \cup {address} |->
                                    IF a = address THEN c ELSE publishers[a]]
           /\ exit' = IF address \in InUse \ DOMAIN publishers THEN "FATAL" ELSE exit
  /\ mutex' = None
  /\ UNCHANGED <<connectorVars, running, varzMutex, varzVars>>

\* push(), without the mutex.
Push ==
  /\ Goto("configure", "configure")
  /\ ~ program.publish
  /\ \E c \in channels :
       /\ NextChannel(c)
       /\ channels' = channels \ {c}
       /\ outboundChannels' = [d \in DOMAIN outboundChannels \cup {c} |-> program.outbound[d]]
  /\ UNCHANGED <<publishers, connectorVars, running, mutex, varzMutex, exit, varzVars>>

\* Mutant: start() does not take the mutex.
StartUnlocked ==
  /\ Goto("configure", "starting")
  /\ channels = {}
  /\ UNCHANGED <<mutex, configVars, connectorVars, running, varzMutex, exit, varzVars>>

\* start() holds the mutex until every connector is connected.
LockStart ==
  /\ Goto("configure", "starting")
  /\ channels = {}
  /\ mutex = None /\ mutex' = Main
  /\ UNCHANGED <<configVars, connectorVars, running, varzMutex, exit, varzVars>>

\* onEventThreadStart, when s connects: a channel whose endpoint is not bound has no
\* socket, after five attempts.
Bound == {c \in DOMAIN outboundChannels :
            program.publish => \E a \in DOMAIN publishers : publishers[a] = c}

\* A session that exists already is skipped.  SocketConnector::connect reaches the
\* gateway, at once or after several attempts, or gives up, or waits for ever for the
\* mutex of the driver, which the event thread keeps while it reads the connection of
\* an earlier attempt.  The session's id is also its timeout, in seconds.
StartConnector ==
  /\ sessions # << >>
  /\ LET s == Head(sessions)
     IN  \/ /\ Goto("starting", "starting")
            /\ connectors[s] # "none"
            /\ sessions' = Tail(sessions)
            /\ UNCHANGED <<connectors, sockets, exit>>
         \/ /\ Goto("starting", "starting")
            /\ connectors[s] = "none"
            /\ sessions' = Tail(sessions)
            /\ \E place \in {"connected", "retried"} :
                 connectors' = [connectors EXCEPT ![s] = place]
            /\ sockets' = [sockets EXCEPT ![s] = Bound]
            /\ UNCHANGED exit
         \/ /\ Goto("starting", "starting")
            /\ connectors[s] = "none"
            /\ exit' = "FATAL"
            /\ UNCHANGED connectorVars
         \/ /\ Goto("starting", "stuck")
            /\ connectors[s] = "none"
            /\ UNCHANGED <<connectorVars, exit>>
  /\ UNCHANGED <<configVars, running, mutex, varzMutex, varzVars>>

Started ==
  /\ Goto("starting", "blocking")
  /\ sessions = << >>
  /\ running' = TRUE
  /\ mutex' = None
  /\ UNCHANGED <<configVars, connectorVars, varzMutex, exit, varzVars>>

\* block() takes the mutex,
LockBlock ==
  /\ Goto("blocking", "checking")
  /\ mutex = None /\ mutex' = Main
  /\ UNCHANGED <<configVars, connectorVars, running, varzMutex, exit, varzVars>>


\* and gives it up while it waits.
Wait ==
  /\ Goto("checking", IF running THEN "waiting" ELSE "returning")
  /\ mutex' = None
  /\ UNCHANGED <<configVars, connectorVars, running, varzMutex, exit, varzVars>>

\* notify_all, or a spurious wakeup.
Wake ==
  /\ Goto("waiting", "checking")
  /\ ~ running
  /\ mutex = None /\ mutex' = Main
  /\ UNCHANGED <<configVars, connectorVars, running, varzMutex, exit, varzVars>>

\* main returns: ~SocketInitiator calls stop(), which finds nothing running,
DestroyInitiator ==
  /\ Goto("returning", "destroying")
  /\ mutex = None
  /\ UNCHANGED <<configVars, connectorVars, running, mutex, varzMutex, exit, varzVars>>

\* then ~VarzServer stops the server, in its mutex: mg_stop waits for its threads.
LockVarzDestroy ==
  /\ Goto("destroying", "varz destroying")
  /\ varzMutex = None /\ varzMutex' = Main
  /\ UNCHANGED <<configVars, connectorVars, running, mutex, exit, varzVars>>

ServerThreadsEnd == server = "running" => On("varz") = {}

DestroyVarz ==
  /\ Goto("varz destroying", "destroyed")
  /\ ServerThreadsEnd /\ StopServer
  /\ varzMutex' = None
  /\ UNCHANGED <<configVars, connectorVars, running, mutex, exit>>
  /\ UNCHANGED <<varzs, values, actual, writers, held, page, pages>>

Return ==
  /\ Goto("destroyed", "returned")
  /\ exit' = "return"
  /\ UNCHANGED <<configVars, connectorVars, running, mutex, varzMutex, varzVars>>

MainStep ==
  \/ Define \/ Begin \/ LockVarz \/ StartVarz \/ Parse \/ LockPublish \/ Publish \/ Push
  \/ LockStart \/ StartConnector \/ Started \/ LockBlock \/ Wait \/ Wake
  \/ DestroyInitiator \/ LockVarzDestroy \/ DestroyVarz \/ Return

----------------------------------------------------------------------------
(* OnTerminate *)

\* The event thread of s: SocketConnector::connect starts it, and its end is joined.
EventThread(s) ==
  \/ connectors[s] \in {"connected", "retried", "closing", "blocked"}
  \/ /\ connectors[s] = "none" /\ pc \in {"starting", "stuck"}
     /\ sessions # << >> /\ Head(sessions) = s

\* The threads a signal may be delivered to: main, the server's, those of publishers
\* and reactors ("other"), and the event threads.
AllThreads == {"main", "varz", "other"} \cup Threads

Exists(thread) ==
  \/ thread = "main"
  \/ thread = "varz" /\ server = "running"
  \/ /\ thread = "other"
     /\ \/ publishers # << >>
        \/ pc \in {"starting", "stuck"} /\ sessions # << >>
        \/ \E s \in Threads : connectors[s] # "none"
  \/ thread \in Threads /\ EventThread(thread)

\* What a signal finds main doing: holding a mutex that it interrupts, not yet in
\* start(), or anything else.
Where(thread) ==
  CASE thread = "main" /\ pc \in HoldsMutex \cup HoldsVarz -> "locked"
    [] /\ thread # "main" /\ OnMain = {}
       /\ pc \in {"begin", "varz starting", "parse", "configure", "publishing"} -> "early"
    [] OTHER -> "free"

\* A thread runs one handler for a signal at a time: while it is in it, the same
\* signal goes to another thread.
Signal(sig, thread) ==
  /\ exit = None /\ pc # "static"
  /\ Len(handlers) < program.maxSignals
  /\ Exists(thread)
  /\ thread \in {"main"} \cup Threads => \A h \in On(thread) : handlers[h].signal # sig
  /\ handlers' = Append(handlers, [signal |-> sig, thread |-> thread, pc |-> "initiator",
                                   at |-> Where(thread)])
  /\ UNCHANGED <<program, pc, configVars, connectorVars, running, mutex, varzMutex, exit, varzVars>>

\* A step of handler h.
HandlerGoto(h, from, to) ==
  /\ exit = None /\ h \in DOMAIN handlers /\ Running(h)
  /\ handlers[h].pc = from
  /\ handlers' = [handlers EXCEPT ![h].pc = to]
  /\ UNCHANGED <<program, pc, configVars, sessions, sockets>>

\* INITIATOR_INSTANCE is set once the flags are parsed.
HasInitiator == pc \notin {"begin", "varz starting", "parse"}
HasVarz      == pc # "begin"

SkipInitiator(h) ==
  /\ HandlerGoto(h, "initiator", "varz")
  /\ ~ HasInitiator
  /\ UNCHANGED <<connectors, running, mutex, varzMutex, exit, varzVars>>

\* stop() of an object that main has destroyed.
Dangling(h) ==
  /\ exit = None /\ h \in DOMAIN handlers /\ Running(h)
  /\ \/ handlers[h].pc = "initiator" /\ pc \in {"destroying", "varz destroying", "destroyed"}
     \/ handlers[h].pc = "varz" /\ pc = "destroyed"
  /\ exit' = "dangling"
  /\ UNCHANGED <<program, pc, handlers, configVars, connectorVars, running, mutex, varzMutex,
                 varzVars>>

LockStop(h) ==
  /\ HandlerGoto(h, "initiator", "stopping")
  /\ HasInitiator /\ pc \notin {"destroying", "varz destroying", "destroyed"}
  /\ mutex = None /\ mutex' = h
  /\ UNCHANGED <<connectors, running, varzMutex, exit, varzVars>>

\* Sessions that stop() has still to disconnect.
Up == {s \in Threads : connectors[s] \in {"connected", "retried"}}

\* A session whose EClient is not connected any more, or whose socket fails to close:
\* SocketConnector::stop() returns without a join.
StopUnjoined(h) ==
  /\ HandlerGoto(h, "stopping", "stopping")
  /\ running
  /\ \E s \in Up : connectors' = [connectors EXCEPT ![s] = "stopped"]
  /\ UNCHANGED <<running, mutex, varzMutex, exit, varzVars>>

\* Disconnect() closes the socket and joins the event thread, which ends when it reads
\* that socket; one that is left reading the connection of an earlier attempt, or was
\* never told to run, does not.
Disconnect(h) ==
  /\ HandlerGoto(h, "stopping", "joining")
  /\ running
  /\ \E s \in Up : \/ connectors' = [connectors EXCEPT ![s] = "closing"]
                  \/ /\ connectors[s] = "retried"
                     /\ connectors' = [connectors EXCEPT ![s] = "blocked"]
  /\ UNCHANGED <<running, mutex, varzMutex, exit, varzVars>>

\* The event thread of s is done with its last event, and no handler is on it.
EventThreadEnds(s) == connectors[s] = "closing" /\ held[s] = None /\ On(s) = {}

Joined(h) ==
  /\ HandlerGoto(h, "joining", "stopping")
  /\ \E s \in Threads : /\ EventThreadEnds(s)
                        /\ connectors' = [connectors EXCEPT ![s] = "stopped"]
  /\ UNCHANGED <<running, mutex, varzMutex, exit, varzVars>>

\* Mutant: stop() returns after the first connector.
StopFirst(h) ==
  /\ HandlerGoto(h, "stopping", "varz")
  /\ running => \E s \in Threads : connectors[s] = "stopped"
  /\ running' = FALSE
  /\ mutex' = None
  /\ UNCHANGED <<connectors, varzMutex, exit, varzVars>>

Stopped(h) ==
  /\ HandlerGoto(h, "stopping", "varz")
  /\ running => \A s \in Threads : connectors[s] \in {"none", "stopped"}
  /\ running' = FALSE
  /\ mutex' = None
  /\ UNCHANGED <<connectors, varzMutex, exit, varzVars>>

LockVarzStop(h) ==
  /\ HandlerGoto(h, "varz", IF HasVarz THEN "varz stopping" ELSE "exit")
  /\ pc # "destroyed"
  /\ varzMutex = None /\ varzMutex' = IF HasVarz THEN h ELSE None
  /\ UNCHANGED <<connectors, running, mutex, exit, varzVars>>

\* mg_stop waits for the server's threads, also when the handler is on one of them.
StopVarz(h) ==
  /\ HandlerGoto(h, "varz stopping", "exit")
  /\ ServerThreadsEnd /\ StopServer
  /\ varzMutex' = None
  /\ UNCHANGED <<connectors, running, mutex, exit>>
  /\ UNCHANGED <<varzs, values, actual, writers, held, page, pages>>

\* Mutant: the handler returns, and main goes on.
HandlerReturns(h) ==
  /\ HandlerGoto(h, "exit", "exited")
  /\ UNCHANGED <<connectors, running, mutex, varzMutex, exit, varzVars>>

Exit(h) ==
  /\ HandlerGoto(h, "exit", "exited")
  /\ exit' = "exit"
  /\ UNCHANGED <<connectors, running, mutex, varzMutex, varzVars>>

HandlerStep(h) ==
  \/ SkipInitiator(h) \/ LockStop(h) \/ StopUnjoined(h) \/ Disconnect(h) \/ Joined(h)
  \/ Stopped(h) \/ LockVarzStop(h) \/ StopVarz(h) \/ Exit(h)

----------------------------------------------------------------------------
(* The event threads of the connectors, and the server's *)

\* The dispatcher publishes on channel 0, whatever channels there are, and does not
\* look whether it has a socket.  A socket that is closed may leave events to dispatch.
Event(s, n) ==
  /\ exit = None /\ On(s) = {}
  /\ connectors[s] \in {"connected", "retried", "closing"}
  /\ actual[n] < program.maxEvents
  /\ IF 0 \in sockets[s] THEN BeginCount(s, n) /\ UNCHANGED exit
                         ELSE exit' = "NULL" /\ UNCHANGED varzVars
  /\ UNCHANGED <<program, pc, configVars, connectorVars, running, mutex, varzMutex, handlers>>

Counted(s) ==
  /\ exit = None /\ On(s) = {}
  /\ EndCount(s)
  /\ UNCHANGED lifeVars

AskPage ==
  /\ exit = None
  /\ program.maxPages > 0
  /\ Request
  /\ UNCHANGED lifeVars

ServePage ==
  /\ exit = None
  /\ MakePage
  /\ UNCHANGED lifeVars

Next ==
  \/ MainStep
  \/ \E sig \in Signals, thread \in AllThreads : Signal(sig, thread)
  \/ \E h \in DOMAIN handlers : HandlerStep(h) \/ Dangling(h)
  \/ \E s \in Threads, n \in Counters : Event(s, n)
  \/ \E s \in Threads : Counted(s)
  \/ AskPage
  \/ ServePage

Spec == Init /\ [][Next]_vars

\* Threads that can run do; events and requests for pages need never come.
FairSpec == /\ Spec
            /\ WF_vars(MainStep)
            /\ \A h \in {1, 2} : WF_vars(HandlerStep(h))
            /\ \A s \in Threads : WF_vars(Counted(s))
            /\ WF_vars(ServePage)

----------------------------------------------------------------------------

\* Every program whose --outbound has channel 0 publishes: no event thread ever calls
\* a socket that is NULL, although channels that share an address share a publisher
\* and only one of them is bound (SocketInitiator.cpp:174-198, getOutboundSocket).
ChannelZeroSuffices == exit = "NULL" => 0 \notin DOMAIN program.outbound

\* Another thread handled a signal before main called start(), and main goes on.
Early == \E h \in DOMAIN handlers : handlers[h].at = "early"

\* A program that ends by itself or by a signal has stopped every session it
\* connected, wherever the signal found it (SocketInitiator::stop), unless another
\* thread took the signal before there was a connector to stop.
ExitLeavesNoConnection ==
  (exit \in {"return", "exit"} /\ ~ Early) =>
    \A s \in Threads : connectors[s] \in {"none", "stopped"}

\* OnTerminate touches an object that main has destroyed only when the signal was
\* handled by another thread: then main returns from block() meanwhile.
DanglingOnlyElsewhere ==
  exit = "dangling" => \E h \in DOMAIN handlers : handlers[h].thread # "main"

\* A program that ends leaves nothing behind and touches nothing that is gone, but for
\* the situations named (OnTerminate, SocketInitiator::stop).
ShutdownIsClean == ExitLeavesNoConnection /\ DanglingOnlyElsewhere

\* The handler is on the event thread that it joins (SocketInitiator.cpp:333,
\* AsioEClientDriver.cpp:189), or on a thread of the server that mg_stop waits for,
\* called by the handler itself or by main (VarzServer.cpp:183).
WaitsForItself(h) ==
  /\ h \in DOMAIN handlers
  /\ LET thread == handlers[h].thread
     IN  \/ /\ thread \in Threads /\ connectors[thread] = "closing"
            /\ handlers[h].pc = "joining"
         \/ /\ thread = "varz"
            /\ handlers[h].pc = "varz stopping" \/ pc = "varz destroying"

=============================================================================
