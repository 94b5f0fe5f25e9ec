--------------------------- MODULE SocketConnector ---------------------------
(***************************************************************************)
(* A connection to the IB gateway: SocketConnectorBase::connect and stop,  *)
(* the AsioEClientDriver they drive, and the three threads that share it.  *)
(*                                                                         *)
(*   main     runs connect() and stop()                                    *)
(*   event    the driver's thread: block() waits until the driver runs,    *)
(*            then reads messages, holding the driver's mutex_ throughout  *)
(*   reactor  waits until the driver is connected and then serves requests *)
(*            by calling the EClient, which sends on the driver's socket   *)
(*                                                                         *)
(* TCP connections are numbered.  A thread blocked in recv stays blocked   *)
(* on the connection it read from, even after the socket object was closed *)
(* or reopened, unless that connection was shut down or lost.              *)
(***************************************************************************)
EXTENDS Naturals, FiniteSets

CONSTANTS MaxAttempts,  \* connect()'s maxAttempts
          MaxCalls,     \* bound: calls of connect()
          MaxLinks,     \* bound: connections the gateway accepts
          MaxRequests,  \* bound: requests the reactor serves
          CloseErrors   \* TRUE if close() of a socket can fail

ASSUME SocketConnectorAssumption ==
  /\ MaxAttempts \in Nat \ {0}
  /\ MaxCalls \in Nat \ {0}
  /\ MaxLinks \in Nat \ {0}
  /\ MaxRequests \in Nat
  /\ CloseErrors \in BOOLEAN

Links == 1..MaxLinks
NoLink == 0

VARIABLES
  main,       \* program counter of the main thread
  calls,      \* number of calls of connect()
  attempts,   \* connect()'s loop counter
  driver,     \* driver_: "null" or "alive"
  leaked,     \* a close failed in Disconnect, which then skipped the join
  state,      \* the driver's state_
  socketOk,   \* the driver's socketOk_
  sock,       \* the connection of the driver's socket_, NoLink if it is not open
  opened,     \* number of connections opened so far
  link,       \* link[c]: what has become of connection c
  event,      \* program counter of the event thread
  reading,    \* the connection its recv was called on
  connected,  \* the EClient's flag: the gateway's acknowledgement was processed
  acked,      \* connections on which an acknowledgement was processed
  reactor,    \* program counter of the reactor thread
  requests    \* number of requests served

vars == <<main, calls, attempts, driver, leaked, state, socketOk, sock, opened,
          link, event, reading, connected, acked, reactor, requests>>

drv   == <<driver, leaked>>
flags == <<state, socketOk>>
net   == <<sock, opened, link>>
evt   == <<event, reading, acked>>
rct   == <<reactor, requests>>
conn  == <<calls, attempts>>

InConnect == {"attempt", "hello", "lock", "result", "spin", "reset"}
InStop    == {"disconnect", "stopping", "close", "join", "release"}
AtRest    == {"idle", "up", "gaveup", "stopped"}

\* block() holds the driver's mutex_ from the end of its wait to the end of
\* the thread.
HoldsMutex == {"loop", "call", "recv", "process", "failed", "closing", "exit"}

TypeOK ==
  /\ main \in InConnect \cup InStop \cup AtRest
  /\ calls \in 0..MaxCalls
  /\ attempts \in 0..MaxAttempts
  /\ driver \in {"null", "alive"}
  /\ leaked \in BOOLEAN
  /\ state \in {"STARTING", "RUNNING", "STOPPING", "STOPPED"}
  /\ socketOk \in BOOLEAN
  /\ sock \in Links \cup {NoLink}
  /\ opened \in 0..MaxLinks
  /\ link \in [Links -> {"unused", "silent", "open", "shut", "lost"}]
  /\ event \in HoldsMutex \cup {"none", "start", "want", "waiting", "dead"}
  /\ reading \in Links \cup {NoLink}
  /\ connected \in BOOLEAN
  /\ acked \subseteq Links
  /\ reactor \in {"respond", "check", "serving", "sending"}
  /\ requests \in 0..MaxRequests

Init ==
  /\ main = "idle"
  /\ calls = 0
  /\ attempts = 0
  /\ driver = "null"
  /\ leaked = FALSE
  /\ state = "STARTING"
  /\ socketOk = FALSE
  /\ sock = NoLink
  /\ opened = 0
  /\ link = [c \in Links |-> "unused"]
  /\ event = "none"
  /\ reading = NoLink
  /\ connected = FALSE
  /\ acked = {}
  /\ reactor = "respond"
  /\ requests = 0
-----------------------------------------------------------------------------
(***************************************************************************)
(* connect()                                                               *)
(***************************************************************************)

\* The call: returns at once if the EClient is connected, otherwise makes sure
\* there is a driver, whose constructor starts the event thread.  What follows
\* when the thread of a destroyed driver still runs is not modelled.
Connect ==
  /\ main \in AtRest
  /\ calls < MaxCalls
  /\ driver = "alive" \/ event \in {"none", "dead"}
  /\ calls' = calls + 1
  /\ IF driver = "alive" /\ connected
       THEN /\ main' = "up"
            /\ UNCHANGED <<attempts, driver, flags, sock, event, reading>>
       ELSE /\ main' = "attempt"
            /\ attempts' = 0
            /\ driver' = "alive"
            /\ IF driver = "alive"
                 THEN UNCHANGED <<flags, sock, event, reading>>
                 ELSE /\ state' = "STARTING"
                      /\ socketOk' = FALSE
                      /\ sock' = NoLink
                      /\ event' = "start"
                      /\ reading' = NoLink
  /\ UNCHANGED <<leaked, opened, link, connected, acked, rct>>

\* Driver::Connect, socket_.connect: it throws if the gateway refuses, and
\* also if socket_ is still connected from an earlier attempt.
ConnectThrows ==
  /\ main = "attempt"
  /\ socketOk' = FALSE
  /\ main' = "reset"
  /\ UNCHANGED <<conn, drv, state, net, evt, connected, rct>>

ConnectSocket ==
  /\ main = "attempt"
  /\ sock = NoLink
  /\ opened < MaxLinks
  /\ opened' = opened + 1
  /\ sock' = opened + 1
  /\ link' = [link EXCEPT ![opened + 1] = "silent"]
  /\ socketOk' = TRUE
  /\ main' = "hello"
  /\ UNCHANGED <<conn, drv, state, evt, connected, rct>>

\* OnConnect sends the client version; from then on the gateway may speak.
\* Send turns a failure into flags and lets Connect go on.
OnConnect ==
  /\ main = "hello"
  /\ IF sock # NoLink /\ link[sock] = "silent"
       THEN /\ link' = [link EXCEPT ![sock] = "open"]
            /\ UNCHANGED flags
       ELSE /\ socketOk' = FALSE
            /\ state' = "STOPPING"
            /\ UNCHANGED link
  /\ main' = "lock"
  /\ UNCHANGED <<conn, drv, sock, opened, evt, connected, rct>>

\* Mutant: state_ = RUNNING without notify_one.
SetRunningSilently ==
  /\ main = "lock"
  /\ event \notin HoldsMutex
  /\ state' = "RUNNING"
  /\ main' = "result"
  /\ UNCHANGED <<conn, drv, socketOk, net, evt, connected, rct>>

\* Under mutex_: state_ = RUNNING and notify_one.
SetRunning ==
  /\ main = "lock"
  /\ event \notin HoldsMutex
  /\ state' = "RUNNING"
  /\ event' = IF event = "waiting" THEN "want" ELSE event
  /\ main' = "result"
  /\ UNCHANGED <<conn, drv, socketOk, net, reading, acked, connected, rct>>

\* Connect returns socketOk_ && state_ == RUNNING.
ConnectReturns ==
  /\ main = "result"
  /\ main' = IF socketOk /\ state = "RUNNING" THEN "spin" ELSE "reset"
  /\ UNCHANGED <<conn, drv, flags, net, evt, connected, rct>>

\* Mutant: connect() returns as soon as the socket is connected.
ConnectedAtOnce ==
  /\ main = "spin"
  /\ main' = "up"
  /\ UNCHANGED <<conn, drv, flags, net, evt, connected, rct>>

\* The spin loop sees IsConnected() and connect() returns the client id.
Connected ==
  /\ main = "spin"
  /\ connected
  /\ main' = "up"
  /\ UNCHANGED <<conn, drv, flags, net, evt, connected, rct>>

\* The end of connect()'s for loop.
NextAttempt ==
  /\ attempts' = attempts + 1
  /\ main' = IF attempts + 1 < MaxAttempts THEN "attempt" ELSE "gaveup"
  /\ UNCHANGED calls

\* Mutant: the spin loop has no time limit.
SpinOn ==
  /\ main = "spin"
  /\ ~connected
  /\ UNCHANGED vars

\* The spin loop reaches its time limit: the socket stays as it is.
HandshakeTimeout ==
  /\ main = "spin"
  /\ ~connected
  /\ NextAttempt
  /\ UNCHANGED <<drv, flags, net, evt, connected, rct>>

\* reset() closes socket_ without shutting the connection down.
Reset ==
  /\ main = "reset"
  /\ \/ sock' = NoLink
     \/ CloseErrors /\ UNCHANGED sock
  /\ NextAttempt
  /\ UNCHANGED <<drv, flags, opened, link, evt, connected, rct>>
-----------------------------------------------------------------------------
(***************************************************************************)
(* stop()                                                                  *)
(***************************************************************************)

\* Mutant: closeSocket() closes without shutdown.
CloseWithoutShutdown(result) ==
  /\ \/ result = TRUE /\ sock' = NoLink
     \/ result = FALSE /\ CloseErrors /\ sock # NoLink /\ UNCHANGED sock
  /\ UNCHANGED <<link, opened>>

\* closeSocket(): shutdown, which ends every recv on the connection, then
\* close, which can fail.  The result is what closeSocket() returns.
CloseSocket(result) ==
  /\ link' = IF sock # NoLink /\ link[sock] # "lost"
               THEN [link EXCEPT ![sock] = "shut"] ELSE link
  /\ \/ result = TRUE /\ sock' = NoLink
     \/ result = FALSE /\ CloseErrors /\ sock # NoLink /\ UNCHANGED sock
  /\ UNCHANGED opened

Stop ==
  /\ main \in AtRest \ {"stopped"}
  /\ main' = IF driver = "alive" /\ connected THEN "disconnect" ELSE "stopped"
  /\ UNCHANGED <<conn, drv, flags, net, evt, connected, rct>>

\* Driver::Disconnect, OnDisconnect.
OnDisconnect ==
  /\ main = "disconnect"
  /\ connected' = FALSE
  /\ main' = "stopping"
  /\ UNCHANGED <<conn, drv, flags, net, evt, rct>>

SetStopping ==
  /\ main = "stopping"
  /\ state' = "STOPPING"
  /\ main' = "close"
  /\ UNCHANGED <<conn, drv, socketOk, net, evt, connected, rct>>

\* Mutant: Disconnect does not join the event thread.
DisconnectWithoutJoin ==
  /\ main = "close"
  /\ \E result \in BOOLEAN : CloseSocket(result)
  /\ main' = "release"
  /\ UNCHANGED <<conn, drv, flags, evt, connected, rct>>

\* if (closeSocket() && thread_) join
Disconnect ==
  /\ main = "close"
  /\ \/ CloseSocket(TRUE) /\ main' = "join" /\ UNCHANGED leaked
     \/ CloseSocket(FALSE) /\ main' = "release" /\ leaked' = TRUE
  /\ UNCHANGED <<conn, driver, flags, evt, connected, rct>>

Join ==
  /\ main = "join"
  /\ event = "dead"
  /\ main' = "release"
  /\ UNCHANGED <<conn, drv, flags, net, evt, connected, rct>>

\* state_ = STOPPED; stop() waits a bounded time for IsConnected() to become
\* false and destroys the driver.
Release ==
  /\ main = "release"
  /\ state' = "STOPPED"
  /\ driver' = "null"
  /\ main' = "stopped"
  /\ UNCHANGED <<conn, leaked, socketOk, net, evt, connected, rct>>
-----------------------------------------------------------------------------
(***************************************************************************)
(* The event thread: AsioEClientDriver::block                              *)
(***************************************************************************)

\* onEventThreadStart connects the outbound sockets.
ThreadStart ==
  /\ event = "start"
  /\ event' = "want"
  /\ UNCHANGED <<main, conn, drv, flags, net, reading, acked, connected, rct>>

\* The thread gets mutex_ and looks at state_: it waits or enters the loop.
AwaitRunning ==
  /\ event = "want"
  /\ event' = IF state = "RUNNING" THEN "loop" ELSE "waiting"
  /\ UNCHANGED <<main, conn, drv, flags, net, reading, acked, connected, rct>>

\* while (IsSocketOK() && processed)
CheckMessages ==
  /\ event = "loop"
  /\ event' = IF socketOk /\ state = "RUNNING" THEN "call" ELSE "exit"
  /\ UNCHANGED <<main, conn, drv, flags, net, reading, acked, connected, rct>>

\* recv is called on the socket as it is now; it fails at once on a closed one.
CallReceive ==
  /\ event = "call"
  /\ event' = IF sock = NoLink THEN "failed" ELSE "recv"
  /\ reading' = sock
  /\ UNCHANGED <<main, conn, drv, flags, net, acked, connected, rct>>

\* recv returns bytes the gateway sent.
ReceiveBytes ==
  /\ event = "recv"
  /\ link[reading] = "open"
  /\ event' = "process"
  /\ UNCHANGED <<main, conn, drv, flags, net, reading, acked, connected, rct>>

\* recv fails: the connection was shut down here or closed by the gateway.
ReceiveFails ==
  /\ event = "recv"
  /\ link[reading] \in {"shut", "lost"}
  /\ event' = "failed"
  /\ UNCHANGED <<main, conn, drv, flags, net, reading, acked, connected, rct>>

\* While the EClient is not connected, the first bytes of a connection are the
\* acknowledgement of the handshake, which is answered with the client id: a
\* Send on the socket as it is now.
ProcessAck ==
  /\ event = "process"
  /\ ~connected /\ reading \notin acked
  /\ connected' = TRUE
  /\ acked' = acked \cup {reading}
  /\ event' = "loop"
  /\ IF sock # NoLink /\ link[sock] = "open"
       THEN UNCHANGED flags
       ELSE socketOk' = FALSE /\ state' = "STOPPING"
  /\ UNCHANGED <<main, conn, drv, net, reading, rct>>

\* Other bytes are messages, published through the dispatcher.
ProcessMessage ==
  /\ event = "process"
  /\ connected \/ reading \in acked
  /\ event' = "loop"
  /\ UNCHANGED <<main, conn, drv, flags, net, reading, acked, connected, rct>>

\* A handler throws: OnError, then state_ = STOPPING and closeSocket().
ProcessThrows ==
  /\ event = "process"
  /\ connected \/ reading \in acked
  /\ state' = "STOPPING"
  /\ event' = "closing"
  /\ UNCHANGED <<main, conn, drv, socketOk, net, reading, acked, connected, rct>>

\* Receive's handler: the flags first ...
ReceiveError ==
  /\ event = "failed"
  /\ socketOk' = FALSE
  /\ state' = "STOPPING"
  /\ event' = "closing"
  /\ UNCHANGED <<main, conn, drv, net, reading, acked, connected, rct>>

\* ... then closeSocket(), on whatever socket_ is now; the loop ends.
EventCloses ==
  /\ event = "closing"
  /\ \E result \in BOOLEAN : CloseSocket(result)
  /\ event' = "exit"
  /\ UNCHANGED <<main, conn, drv, flags, reading, acked, connected, rct>>

\* onEventThreadStop closes the outbound sockets; mutex_ is released.
ThreadExit ==
  /\ event = "exit"
  /\ event' = "dead"
  /\ UNCHANGED <<main, conn, drv, flags, net, reading, acked, connected, rct>>
-----------------------------------------------------------------------------
(***************************************************************************)
(* The reactor thread                                                      *)
(***************************************************************************)

\* respond(): driver_.get() != 0 ...
Respond ==
  /\ reactor = "respond"
  /\ driver = "alive"
  /\ reactor' = "check"
  /\ UNCHANGED <<main, conn, drv, flags, net, evt, connected, requests>>

\* Mutant: respond() only looks for a driver.
CheckNothing ==
  /\ reactor = "check"
  /\ reactor' = "serving"
  /\ UNCHANGED <<main, conn, drv, flags, net, evt, connected, requests>>

\* ... && IsConnected(): the inbound loop starts and is never left again.
CheckDriver ==
  /\ reactor = "check"
  /\ reactor' = IF connected THEN "serving" ELSE "respond"
  /\ UNCHANGED <<main, conn, drv, flags, net, evt, connected, requests>>

\* callApi on a request: the EClient reports an error if it is not connected.
CallApi ==
  /\ reactor = "serving"
  /\ requests < MaxRequests
  /\ requests' = requests + 1
  /\ reactor' = IF connected THEN "sending" ELSE "serving"
  /\ UNCHANGED <<main, conn, drv, flags, net, evt, connected>>

\* Driver::Send, through the pointer the EClient holds to the driver.
Send ==
  /\ reactor = "sending"
  /\ reactor' = "serving"
  /\ IF driver = "alive" /\ (sock = NoLink \/ link[sock] # "open")
       THEN socketOk' = FALSE /\ state' = "STOPPING"
       ELSE UNCHANGED flags
  /\ UNCHANGED <<main, conn, drv, net, evt, connected, requests>>
-----------------------------------------------------------------------------
\* The gateway closes a connection, or it breaks.
LoseLink(c) ==
  /\ link[c] \in {"silent", "open"}
  /\ link' = [link EXCEPT ![c] = "lost"]
  /\ UNCHANGED <<main, conn, drv, flags, sock, opened, evt, connected, rct>>

MainStep ==
  \/ ConnectThrows \/ ConnectSocket \/ OnConnect \/ SetRunning \/ ConnectReturns
  \/ Connected \/ HandshakeTimeout \/ Reset
  \/ OnDisconnect \/ SetStopping \/ Disconnect \/ Join \/ Release

EventStep ==
  \/ ThreadStart \/ AwaitRunning \/ CheckMessages \/ CallReceive \/ ReceiveFails
  \/ ProcessAck \/ ProcessMessage \/ ProcessThrows \/ ReceiveError
  \/ EventCloses \/ ThreadExit

ReactorStep == Respond \/ CheckDriver \/ CallApi \/ Send

Next ==
  \/ Connect \/ Stop
  \/ MainStep
  \/ EventStep
  \/ ReceiveBytes
  \/ ReactorStep
  \/ \E c \in Links : LoseLink(c)

Spec == Init /\ [][Next]_vars

\* Both threads run whenever they can; the gateway and the callers of
\* connect() and stop() owe nothing.
FairSpec == Spec /\ WF_vars(MainStep) /\ WF_vars(EventStep)
-----------------------------------------------------------------------------
(***************************************************************************)
(* Properties                                                              *)
(***************************************************************************)

\* Disconnect, "Wait for the event thread to stop": the driver is destroyed
\* only when no event thread can use it any more, unless a socket could not be
\* closed while it stopped.
DriverOutlivesThread ==
  driver = "null" => event \in {"none", "dead"} \/ leaked

\* Connect's notify_one cannot be missed: once state_ is RUNNING the event
\* thread does not wait for it.
NoMissedNotify ==
  event = "waiting" => state # "RUNNING"

\* respond(), "don't read the messages from socket yet": no request is read
\* before the gateway acknowledged some connection.
RequestsWaitForHandshake ==
  requests > 0 => acked # {}

\* Only an attempt after the first one meets what an earlier one left behind.
Retried == attempts > 0 \/ calls > 1

\* connect(), "Spin until connected -- including the part where some handshake
\* occurs with the IB gateway": the first attempt leaves the spin loop as
\* connected only if the gateway acknowledged the connection it opened.
UpMeansHandshake ==
  [][main = "spin" /\ main' = "up" /\ ~Retried => opened \in acked]_vars

\* connect() returns, unless a later attempt waits for ever for the mutex_ that
\* the event thread took when an earlier attempt opened a connection.
ConnectCompletes ==
  \/ main \in InConnect ~> main \in AtRest
  \/ <>[](main = "lock" /\ event \in HoldsMutex /\ Retried)

\* stop() returns, unless there were several attempts and its join waits for an
\* event thread that is blocked reading another connection than the one stop()
\* shut down, or that was never told to run.
StopCompletes ==
  \/ main \in InStop ~> main = "stopped"
  \/ <>[](main = "join" /\ event \in {"recv", "waiting"} /\ Retried)

\* Both calls of a connector's owner return, but for the situations named
\* (SocketConnectorBase.hpp: connect, stop; AsioEClientDriver: Connect, Disconnect).
CallsComplete == ConnectCompletes /\ StopCompletes

\* After a successful Connect the event thread reads messages, unless it ended
\* or a failed send on the connection set state_ back before it woke up.
EventLoopStarts ==
  main = "spin" ~> event \in HoldsMutex \cup {"dead"} \/ state # "RUNNING"

\* SocketConnector.hpp, "Blocking connect, up to the timeout limit in seconds":
\* every call of connect() returns.
EveryConnectCompletes ==
  main \in InConnect ~> main \in AtRest
=============================================================================
