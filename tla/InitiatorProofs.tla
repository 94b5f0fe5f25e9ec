--------------------------- MODULE InitiatorProofs ---------------------------
(***************************************************************************)
(* Proofs about a gateway program's life, for any programs, sessions,      *)
(* channels, signals and counters.                                         *)
(***************************************************************************)
EXTENDS Initiator, FiniteSetTheorems, TLAPS

\* Where main can be: before start(), in it, and after it.
BeforeStart == {"static", "begin", "varz starting", "parse", "configure", "publishing"}
InStart     == {"starting", "stuck"}
Ended       == {"returning", "destroying", "varz destroying", "destroyed", "returned"}
AfterStart  == {"blocking", "checking", "waiting"} \cup Ended

HandlerPlaces == {"initiator", "stopping", "joining", "varz", "varz stopping", "exit", "exited"}

Handler == [signal : Signals, thread : AllThreads, pc : HandlerPlaces,
            at : {"locked", "early", "free"}]

PlacesOK ==
  /\ program \in Programs
  /\ pc \in BeforeStart \cup InStart \cup AfterStart
  /\ handlers \in Seq(Handler)

\* What a step of a handler does to the handlers.
LEMMA HandlerMoves ==
  ASSUME PlacesOK, NEW h \in DOMAIN handlers, NEW to \in HandlerPlaces,
         handlers' = [handlers EXCEPT ![h].pc = to]
  PROVE  /\ handlers' \in Seq(Handler)
         /\ Len(handlers') = Len(handlers)
         /\ DOMAIN handlers' = DOMAIN handlers
         /\ \A g \in DOMAIN handlers : /\ handlers'[g].thread = handlers[g].thread
                                       /\ handlers'[g].at = handlers[g].at
                                       /\ g # h => handlers'[g] = handlers[g]
         /\ handlers'[h].pc = to
<1> DEFINE r == [handlers[h] EXCEPT !.pc = to]
<1>1. handlers[h] \in Handler /\ DOMAIN handlers = 1..Len(handlers)
  BY DEF PlacesOK
<1>2. /\ r \in Handler /\ r.pc = to
      /\ r.thread = handlers[h].thread /\ r.at = handlers[h].at
  BY <1>1 DEF Handler
<1>3. handlers' = [handlers EXCEPT ![h] = r]
  OBVIOUS
<1> HIDE DEF r
<1>4. handlers' \in Seq(Handler) /\ Len(handlers') = Len(handlers)
  BY <1>1, <1>2, <1>3 DEF PlacesOK
<1> QED BY <1>1, <1>2, <1>3, <1>4 DEF PlacesOK

\* What a signal does to them.
LEMMA SignalAppends ==
  ASSUME PlacesOK, NEW sig \in Signals, NEW thread \in AllThreads, Signal(sig, thread)
  PROVE  /\ handlers' \in Seq(Handler)
         /\ Len(handlers') = Len(handlers) + 1
         /\ DOMAIN handlers' = DOMAIN handlers \cup {Len(handlers) + 1}
         /\ Len(handlers) + 1 \notin DOMAIN handlers
         /\ \A g \in DOMAIN handlers : handlers'[g] = handlers[g]
         /\ handlers'[Len(handlers) + 1] =
              [signal |-> sig, thread |-> thread, pc |-> "initiator", at |-> Where(thread)]
<1> DEFINE m == [signal |-> sig, thread |-> thread, pc |-> "initiator", at |-> Where(thread)]
<1>1. Where(thread) \in {"locked", "early", "free"}
  BY DEF Where
<1>2. m \in Handler
  BY <1>1 DEF Handler, HandlerPlaces
<1>3. handlers' = Append(handlers, m)
  BY DEF Signal
<1> HIDE DEF m
<1>4. handlers \in Seq(Handler) /\ DOMAIN handlers = 1..Len(handlers) /\ Len(handlers) \in Nat
  BY DEF PlacesOK
<1>5. /\ handlers' \in Seq(Handler) /\ Len(handlers') = Len(handlers) + 1
      /\ \A g \in 1..Len(handlers) : handlers'[g] = handlers[g]
      /\ handlers'[Len(handlers) + 1] = m
  BY <1>2, <1>3, <1>4
<1>6. DOMAIN handlers' = 1..(Len(handlers) + 1)
  BY <1>5
<1>7. DOMAIN handlers' = DOMAIN handlers \cup {Len(handlers) + 1}
      /\ Len(handlers) + 1 \notin DOMAIN handlers
  BY <1>4, <1>6
<1> QED BY <1>4, <1>5, <1>7 DEF m

\* None is none of the things that mutex and exit hold besides it.
LEMMA NoneIsNew ==
  ASSUME PlacesOK
  PROVE  /\ None # Main /\ None \notin DOMAIN handlers
         /\ \A h \in DOMAIN handlers : h # Main
         /\ None \notin {"return", "exit", "died", "threw", "FATAL", "NULL", "dangling"}
<1>1. None \notin Nat
  BY InitiatorAssumption
<1>2. None \notin {"return", "exit", "died", "threw", "FATAL", "NULL", "dangling"}
  BY InitiatorAssumption DEF Exits
<1>3. DOMAIN handlers \subseteq Nat \ {0}
  BY DEF PlacesOK
<1> QED BY <1>1, <1>2, <1>3 DEF Main

-----------------------------------------------------------------------------
(* Who holds which mutex *)

\* Main holds a mutex exactly where the code locks it, and a handler exactly while it
\* is in stop().
MutexInv ==
  /\ mutex \in {None, Main} \cup DOMAIN handlers
  /\ varzMutex \in {None, Main} \cup DOMAIN handlers
  /\ mutex = Main <=> pc \in HoldsMutex
  /\ varzMutex = Main <=> pc \in HoldsVarz
  /\ \A h \in DOMAIN handlers : /\ handlers[h].pc \in {"stopping", "joining"} <=> mutex = h
                                /\ handlers[h].pc = "varz stopping" <=> varzMutex = h

LEMMA MainStepMutex ==
  ASSUME PlacesOK, MutexInv, MainStep
  PROVE  PlacesOK' /\ MutexInv' /\ UNCHANGED <<program, handlers>>
<1> USE NoneIsNew DEF PlacesOK, MutexInv, HoldsMutex, HoldsVarz, BeforeStart, AfterStart, Ended, InStart
<1>1. CASE Define
  BY <1>1 DEF Define, Goto
<1>2. CASE Begin
  BY <1>2 DEF Begin, Goto
<1>3. CASE LockVarz
  BY <1>3 DEF LockVarz, Goto
<1>4. CASE StartVarz
  BY <1>4 DEF StartVarz, Goto
<1>5. CASE Parse
  BY <1>5 DEF Parse, Goto
<1>6. CASE LockPublish
  BY <1>6 DEF LockPublish, Goto
<1>7. CASE Publish
  BY <1>7 DEF Publish, Goto
<1>8. CASE Push
  BY <1>8 DEF Push, Goto
<1>9. CASE LockStart
  BY <1>9 DEF LockStart, Goto
<1>10. CASE StartConnector
  BY <1>10 DEF StartConnector, Goto
<1>11. CASE Started
  BY <1>11 DEF Started, Goto
<1>12. CASE LockBlock
  BY <1>12 DEF LockBlock, Goto
<1>13. CASE Wait
  BY <1>13 DEF Wait, Goto
<1>14. CASE Wake
  BY <1>14 DEF Wake, Goto
<1>15. CASE DestroyInitiator
  BY <1>15 DEF DestroyInitiator, Goto
<1>16. CASE DestroyVarz
  BY <1>16 DEF DestroyVarz, Goto
<1>18. CASE LockVarzDestroy
  BY <1>18 DEF LockVarzDestroy, Goto
<1>17. CASE Return
  BY <1>17 DEF Return, Goto
<1> QED BY <1>1, <1>2, <1>3, <1>4, <1>5, <1>6, <1>7, <1>8, <1>9, <1>10, <1>11, <1>12, <1>13,
      <1>14, <1>15, <1>16, <1>17, <1>18 DEF MainStep

\* A step of a handler moves that handler and nobody else.
LEMMA HandlerStepMoves ==
  ASSUME PlacesOK, NEW h \in DOMAIN handlers, HandlerStep(h)
  PROVE  /\ PlacesOK'
         /\ UNCHANGED <<program, pc, configVars, sessions, sockets>>
         /\ DOMAIN handlers' = DOMAIN handlers
         /\ Len(handlers') = Len(handlers)
         /\ \A g \in DOMAIN handlers : /\ handlers'[g].thread = handlers[g].thread
                                       /\ handlers'[g].at = handlers[g].at
                                       /\ g # h => handlers'[g] = handlers[g]
         /\ handlers'[h].pc # "exited" \/ exit' # None
<1>1. PICK to \in HandlerPlaces : handlers' = [handlers EXCEPT ![h].pc = to]
                                  /\ (to = "exited" => exit' = "exit")
  BY DEF HandlerStep, HandlerGoto, HandlerPlaces, SkipInitiator, LockStop, StopUnjoined, Disconnect, Joined,
       Stopped,
         LockVarzStop, StopVarz, Exit
<1>2. UNCHANGED <<program, pc, configVars, sessions, sockets>>
  BY DEF HandlerStep, HandlerGoto, SkipInitiator, LockStop, StopUnjoined, Disconnect, Joined, Stopped,
         LockVarzStop, StopVarz, Exit
<1>3. None # "exit"
  BY NoneIsNew
<1> QED BY <1>1, <1>2, <1>3, HandlerMoves DEF PlacesOK

LEMMA HandlerStepMutex ==
  ASSUME PlacesOK, MutexInv, NEW h \in DOMAIN handlers, HandlerStep(h)
  PROVE  MutexInv'
<1>h. /\ DOMAIN handlers' = DOMAIN handlers /\ pc' = pc
      /\ \A g \in DOMAIN handlers : g # h => handlers'[g] = handlers[g]
  BY HandlerStepMoves
<1>n. None # Main /\ None \notin DOMAIN handlers /\ Main \notin DOMAIN handlers
  BY NoneIsNew
<1> USE DEF MutexInv, HandlerPlaces
<1>1. CASE SkipInitiator(h)
  <2>1. handlers[h].pc = "initiator" /\ handlers'[h].pc = ("varz")
    BY <1>1, HandlerMoves DEF SkipInitiator, HandlerGoto
  <2> QED BY <1>1, <1>h, <1>n, <2>1 DEF SkipInitiator
<1>2. CASE LockStop(h)
  <2>1. handlers[h].pc = "initiator" /\ handlers'[h].pc = ("stopping")
    BY <1>2, HandlerMoves DEF LockStop, HandlerGoto
  <2> QED BY <1>2, <1>h, <1>n, <2>1 DEF LockStop
<1>3. CASE StopUnjoined(h)
  <2>1. handlers[h].pc = "stopping" /\ handlers'[h].pc = ("stopping")
    BY <1>3, HandlerMoves DEF StopUnjoined, HandlerGoto
  <2> QED BY <1>3, <1>h, <1>n, <2>1 DEF StopUnjoined
<1>8. CASE Disconnect(h)
  <2>1. handlers[h].pc = "stopping" /\ handlers'[h].pc = ("joining")
    BY <1>8, HandlerMoves DEF Disconnect, HandlerGoto
  <2> QED BY <1>8, <1>h, <1>n, <2>1 DEF Disconnect
<1>9. CASE Joined(h)
  <2>1. handlers[h].pc = "joining" /\ handlers'[h].pc = ("stopping")
    BY <1>9, HandlerMoves DEF Joined, HandlerGoto
  <2> QED BY <1>9, <1>h, <1>n, <2>1 DEF Joined
<1>4. CASE Stopped(h)
  <2>1. handlers[h].pc = "stopping" /\ handlers'[h].pc = ("varz")
    BY <1>4, HandlerMoves DEF Stopped, HandlerGoto
  <2> QED BY <1>4, <1>h, <1>n, <2>1 DEF Stopped
<1>5. CASE LockVarzStop(h)
  <2>1. handlers[h].pc = "varz" /\ handlers'[h].pc = (IF HasVarz THEN "varz stopping" ELSE "exit")
    BY <1>5, HandlerMoves DEF LockVarzStop, HandlerGoto
  <2> QED BY <1>5, <1>h, <1>n, <2>1 DEF LockVarzStop
<1>6. CASE StopVarz(h)
  <2>1. handlers[h].pc = "varz stopping" /\ handlers'[h].pc = ("exit")
    BY <1>6, HandlerMoves DEF StopVarz, HandlerGoto
  <2> QED BY <1>6, <1>h, <1>n, <2>1 DEF StopVarz
<1>7. CASE Exit(h)
  <2>1. handlers[h].pc = "exit" /\ handlers'[h].pc = ("exited")
    BY <1>7, HandlerMoves DEF Exit, HandlerGoto
  <2> QED BY <1>7, <1>h, <1>n, <2>1 DEF Exit
<1> QED BY <1>1, <1>2, <1>3, <1>4, <1>5, <1>6, <1>7, <1>8, <1>9 DEF HandlerStep

-----------------------------------------------------------------------------
(* How a program ends *)

NoConnection == \A s \in Threads : connectors[s] \in {"none", "stopped"}

Elsewhere == \E h \in DOMAIN handlers : handlers[h].thread # "main"

Past(h) == handlers[h].pc \in {"varz", "varz stopping", "exit", "exited"}

\* Sessions are connected by start() only and disconnected before connectorsRunning_ is
\* reset.
ConnectorInv ==
  /\ connectors \in [Threads -> Places]
  /\ running \in BOOLEAN
  /\ pc \in BeforeStart => NoConnection
  /\ running => pc \in AfterStart \ Ended
  /\ pc \in AfterStart /\ ~ running => NoConnection

\* Main has stopped for good, or it has no session left to connect.
Settled == pc \in AfterStart \/ OnMain # {} \/ exit # None

\* Main leaves block() only after a handler on another thread has stopped the connectors.
BlockInv ==
  /\ pc \in AfterStart /\ ~ running => Elsewhere \/ OnMain # {} \/ exit # None
  /\ pc \in Ended => Elsewhere
  /\ exit = "dangling" => Elsewhere

\* A handler that is past the connectors leaves none connected, and none will be.
HandlerInv ==
  /\ \A h \in DOMAIN handlers :
       handlers[h].thread # "main" /\ handlers[h].at # "early" /\ pc \in BeforeStart => Settled
  /\ Early \/ \A h \in DOMAIN handlers : Past(h) => NoConnection /\ Settled
  /\ exit = "exit" => \E h \in DOMAIN handlers : handlers[h].pc = "exited"
  /\ exit = "return" => pc = "returned"

EndInv == PlacesOK /\ MutexInv /\ ConnectorInv /\ BlockInv /\ HandlerInv

LEMMA MainStepConnector ==
  ASSUME PlacesOK, ConnectorInv, MainStep
  PROVE  ConnectorInv'
<1> USE DEF ConnectorInv, NoConnection, BeforeStart, AfterStart, Ended, InStart, connectorVars,
      configVars
<1>1. CASE Define
  BY <1>1 DEF Define, Goto
<1>2. CASE Begin
  BY <1>2 DEF Begin, Goto
<1>3. CASE LockVarz
  BY <1>3 DEF LockVarz, Goto
<1>4. CASE StartVarz
  BY <1>4 DEF StartVarz, Goto
<1>5. CASE Parse
  BY <1>5 DEF Parse, Goto
<1>6. CASE LockPublish
  BY <1>6 DEF LockPublish, Goto
<1>7. CASE Publish
  BY <1>7 DEF Publish, Goto
<1>8. CASE Push
  BY <1>8 DEF Push, Goto
<1>9. CASE LockStart
  BY <1>9 DEF LockStart, Goto
<1>10. CASE StartConnector
  BY <1>10 DEF StartConnector, Goto, Places
<1>11. CASE Started
  BY <1>11 DEF Started, Goto
<1>12. CASE LockBlock
  BY <1>12 DEF LockBlock, Goto
<1>13. CASE Wait
  BY <1>13 DEF Wait, Goto
<1>14. CASE Wake
  BY <1>14 DEF Wake, Goto
<1>15. CASE DestroyInitiator
  BY <1>15 DEF DestroyInitiator, Goto
<1>16. CASE DestroyVarz
  BY <1>16 DEF DestroyVarz, Goto
<1>18. CASE LockVarzDestroy
  BY <1>18 DEF LockVarzDestroy, Goto
<1>17. CASE Return
  BY <1>17 DEF Return, Goto
<1> QED BY <1>1, <1>2, <1>3, <1>4, <1>5, <1>6, <1>7, <1>8, <1>9, <1>10, <1>11, <1>12, <1>13,
      <1>14, <1>15, <1>16, <1>17, <1>18 DEF MainStep

LEMMA HandlerStepConnector ==
  ASSUME PlacesOK, MutexInv, ConnectorInv, NEW h \in DOMAIN handlers, HandlerStep(h)
  PROVE  ConnectorInv'
<1> USE DEF ConnectorInv, NoConnection, BeforeStart, AfterStart, Ended, InStart
<1>1. CASE SkipInitiator(h)
  BY <1>1 DEF SkipInitiator, HandlerGoto, MutexInv
<1>2. CASE LockStop(h)
  BY <1>2 DEF LockStop, HandlerGoto, MutexInv
<1>3. CASE StopUnjoined(h)
  BY <1>3 DEF StopUnjoined, Up, Places, HandlerGoto, MutexInv
<1>8. CASE Disconnect(h)
  BY <1>8 DEF Disconnect, Up, Places, HandlerGoto, MutexInv
<1>9. CASE Joined(h)
  BY <1>9 DEF Joined, EventThreadEnds, Places, HandlerGoto, MutexInv
<1>4. CASE Stopped(h)
  BY <1>4 DEF Stopped, HandlerGoto, MutexInv
<1>5. CASE LockVarzStop(h)
  BY <1>5 DEF LockVarzStop, HandlerGoto, MutexInv
<1>6. CASE StopVarz(h)
  BY <1>6 DEF StopVarz, HandlerGoto, MutexInv
<1>7. CASE Exit(h)
  BY <1>7 DEF Exit, HandlerGoto, MutexInv
<1> QED BY <1>1, <1>2, <1>3, <1>4, <1>5, <1>6, <1>7, <1>8, <1>9 DEF HandlerStep

LEMMA MainStepEnd ==
  ASSUME PlacesOK, ConnectorInv, BlockInv, HandlerInv, MainStep
  PROVE  BlockInv' /\ HandlerInv'
<1>1. handlers' = handlers /\ exit = None
  BY DEF MainStep, Goto, Define, Begin, LockVarz, StartVarz, Parse, LockPublish, Publish,
       Push, LockStart, StartConnector, Started, LockBlock, Wait, Wake, DestroyInitiator,
       LockVarzDestroy, DestroyVarz, Return
<1>2. OnMain' = OnMain /\ Elsewhere' = Elsewhere /\ Early' = Early
      /\ \A h \in DOMAIN handlers : Past(h)' = Past(h)
  BY <1>1 DEF OnMain, On, Elsewhere, Early, Past
<1>a. Running(Main) => OnMain = {}
  <2>1. Main \notin OnMain
    BY NoneIsNew DEF OnMain, On
  <2> QED BY <2>1, Zenon DEF Running
<1>3. Define \/ OnMain = {}
  BY <1>a DEF MainStep, Goto, Begin, LockVarz, StartVarz, Parse, LockPublish, Publish, Push,
     LockStart, StartConnector, Started, LockBlock, Wait, Wake, DestroyInitiator, LockVarzDestroy, DestroyVarz,
           Return
<1> USE NoneIsNew DEF BlockInv, HandlerInv, Settled, BeforeStart, AfterStart, Ended, InStart
<1>4. CASE Define
  BY <1>1, <1>2, <1>4 DEF Define, connectorVars, NoConnection, RegisterVarz, varzVars
<1>5. CASE Begin
  BY <1>1, <1>2, <1>3, <1>5 DEF Begin, Goto, connectorVars, NoConnection, varzVars, ConnectorInv
<1>6. CASE LockVarz
  BY <1>1, <1>2, <1>3, <1>6 DEF LockVarz, Goto, connectorVars, NoConnection, varzVars,
       ConnectorInv
<1>7. CASE StartVarz
  BY <1>1, <1>2, <1>3, <1>7 DEF StartVarz, Goto, connectorVars, NoConnection, varzVars,
       ConnectorInv
<1>8. CASE Parse
  BY <1>1, <1>2, <1>3, <1>8 DEF Parse, Goto, connectorVars, NoConnection, varzVars, ConnectorInv
<1>9. CASE LockPublish
  BY <1>1, <1>2, <1>3, <1>9 DEF LockPublish, Goto, connectorVars, NoConnection, varzVars,
       ConnectorInv
<1>10. CASE Publish
  BY <1>1, <1>2, <1>3, <1>10 DEF Publish, Goto, connectorVars, NoConnection, varzVars,
       ConnectorInv
<1>11. CASE Push
  BY <1>1, <1>2, <1>3, <1>11 DEF Push, Goto, connectorVars, NoConnection, varzVars, ConnectorInv
<1>12. CASE LockStart
  BY <1>1, <1>2, <1>3, <1>12 DEF LockStart, Goto, connectorVars, NoConnection, varzVars,
       ConnectorInv
<1>13. CASE StartConnector
  <2>1. pc = "starting" /\ pc' \in InStart /\ OnMain = {} /\ running' = running
        /\ exit' \in {None, "FATAL"}
    BY <1>1, <1>3, <1>13 DEF StartConnector, Define, Goto
  <2>2. Early \/ \A h \in DOMAIN handlers : ~ Past(h)
    BY <1>1, <2>1
  <2>3. \A h \in DOMAIN handlers : Past(h)' = Past(h)
    BY <1>2
  <2> QED BY <1>1, <1>2, <2>1, <2>2, <2>3
<1>14. CASE Started
  BY <1>1, <1>2, <1>3, <1>14 DEF Started, Goto, connectorVars, NoConnection, varzVars,
       ConnectorInv
<1>15. CASE LockBlock
  BY <1>1, <1>2, <1>3, <1>15 DEF LockBlock, Goto, connectorVars, NoConnection, varzVars,
       ConnectorInv
<1>16. CASE Wait
  <2>1. pc = "checking" /\ OnMain = {} /\ UNCHANGED <<running, exit, connectors, server>>
    BY <1>3, <1>16 DEF Wait, Define, Goto, connectorVars, varzVars
  <2>2. (running /\ pc' = "waiting") \/ (~ running /\ pc' = "returning")
    BY <1>16, Zenon DEF Wait, Goto, ConnectorInv
  <2>3. NoConnection' = NoConnection
    BY <2>1 DEF NoConnection
  <2> QED BY <1>1, <1>2, <2>1, <2>2, <2>3
<1>17. CASE Wake
  BY <1>1, <1>2, <1>3, <1>17 DEF Wake, Goto, connectorVars, NoConnection, varzVars, ConnectorInv
<1>18. CASE DestroyInitiator
  BY <1>1, <1>2, <1>3, <1>18 DEF DestroyInitiator, Goto, connectorVars, NoConnection,
       varzVars, ConnectorInv
<1>19. CASE DestroyVarz
  BY <1>1, <1>2, <1>3, <1>19 DEF DestroyVarz, Goto, connectorVars, NoConnection, varzVars,
       ConnectorInv
<1>21. CASE LockVarzDestroy
  BY <1>1, <1>2, <1>3, <1>21 DEF LockVarzDestroy, Goto, connectorVars, NoConnection, varzVars,
       ConnectorInv
<1>20. CASE Return
  BY <1>1, <1>2, <1>3, <1>20 DEF Return, Goto, connectorVars, NoConnection, varzVars,
       ConnectorInv
<1> QED BY <1>4, <1>5, <1>6, <1>7, <1>8, <1>9, <1>10, <1>11, <1>12, <1>13, <1>14, <1>15,
      <1>16, <1>17, <1>18, <1>19, <1>20, <1>21 DEF MainStep

LEMMA HandlerStepEnd ==
  ASSUME EndInv, NEW h \in DOMAIN handlers, HandlerStep(h)
  PROVE  BlockInv' /\ HandlerInv'
<1> USE DEF EndInv
<1>1. /\ DOMAIN handlers' = DOMAIN handlers /\ pc' = pc
      /\ \A g \in DOMAIN handlers : /\ handlers'[g].thread = handlers[g].thread
                                    /\ handlers'[g].at = handlers[g].at
                                    /\ g # h => handlers'[g] = handlers[g]
      /\ handlers'[h].pc # "exited" \/ exit' # None
  BY HandlerStepMoves
<1>2. Elsewhere' = Elsewhere /\ Early' = Early
  BY <1>1 DEF Elsewhere, Early
<1>3. OnMain # {} => OnMain' # {} \/ exit' # None
  BY <1>1 DEF OnMain, On
<1>4. exit = None /\ handlers[h].pc # "exited"
  BY DEF HandlerStep, HandlerGoto, SkipInitiator, LockStop, StopUnjoined, Disconnect, Joined, Stopped,
         LockVarzStop, StopVarz, Exit
<1>5. handlers[h].thread # "main" \/ h \in OnMain
  <2>1. handlers[h] \in Handler
    BY DEF PlacesOK
  <2> QED BY <1>4, <2>1 DEF Handler, OnMain, On
<1>6. \A g \in DOMAIN handlers : g # h => Past(g)' = Past(g)
  BY <1>1 DEF Past
<1>7. Elsewhere \/ OnMain # {}
  BY <1>5 DEF Elsewhere
<1>8. Settled => Settled'
  BY <1>1, <1>3, <1>4 DEF Settled
<1>9. /\ exit' \in {None, "exit"}
      /\ exit' = "exit" => handlers'[h].pc = "exited"
  <2>1. CASE Exit(h)
    BY <2>1, HandlerMoves DEF Exit, HandlerGoto, HandlerPlaces, varzVars
  <2>2. CASE StopVarz(h)
    BY <2>2, <1>4, NoneIsNew DEF StopVarz, StopServer
  <2> QED BY <2>1, <2>2, <1>4, NoneIsNew
       DEF HandlerStep, SkipInitiator, LockStop, StopUnjoined, Disconnect, Joined, Stopped, LockVarzStop, varzVars
<1>10. NoConnection => NoConnection'
  BY DEF NoConnection, ConnectorInv, Up, EventThreadEnds, HandlerStep, SkipInitiator, LockStop,
       StopUnjoined, Disconnect, Joined,
       Stopped,
         LockVarzStop, StopVarz, Exit
<1>11. ASSUME ~ Early, ~ Past(h), Past(h)'
       PROVE  NoConnection /\ Settled
  <2>1. pc \in BeforeStart => Settled
    <3>1. CASE h \in OnMain
      BY <3>1 DEF Settled
    <3>2. CASE handlers[h].thread # "main"
      BY <3>2, <1>11 DEF HandlerInv, Early
    <3> QED BY <3>1, <3>2, <1>5
  <2>2. CASE SkipInitiator(h)
    BY <2>1, <2>2 DEF SkipInitiator, HasInitiator, ConnectorInv, BeforeStart, PlacesOK
  <2>3. CASE Stopped(h)
    <3>1. mutex = h /\ mutex # Main
      BY <2>3, NoneIsNew DEF Stopped, HandlerGoto, MutexInv
    <3>2. pc \notin InStart
      BY <3>1 DEF MutexInv, HoldsMutex, InStart
    <3>3. CASE running
      BY <2>3, <3>3 DEF Stopped, NoConnection, ConnectorInv, Settled
    <3>4. CASE ~ running
      BY <2>1, <3>2, <3>4 DEF ConnectorInv, Settled, PlacesOK
    <3> QED BY <3>3, <3>4
  <2>4. SkipInitiator(h) \/ Stopped(h)
    BY <1>11, HandlerMoves DEF HandlerStep, HandlerGoto, HandlerPlaces, Past, LockStop,
         StopUnjoined, Disconnect, Joined,
       LockVarzStop, StopVarz, Exit
  <2> QED BY <2>2, <2>3, <2>4
<1>12. BlockInv'
  BY <1>1, <1>2, <1>3, <1>7, <1>9, NoneIsNew DEF BlockInv
<1>13. Early \/ \A g \in DOMAIN handlers : Past(g)' => NoConnection' /\ Settled'
  BY <1>6, <1>8, <1>10, <1>11 DEF HandlerInv
<1> QED BY <1>1, <1>2, <1>8, <1>9, <1>12, <1>13, NoneIsNew DEF HandlerInv

LEMMA SignalEnd ==
  ASSUME EndInv, NEW sig \in Signals, NEW thread \in AllThreads, Signal(sig, thread)
  PROVE  EndInv'
<1> USE DEF EndInv
<1>0. PICK n \in Nat : n = Len(handlers) + 1
  BY DEF PlacesOK
<1>1. /\ DOMAIN handlers' = DOMAIN handlers \cup {n} /\ n \notin DOMAIN handlers
      /\ \A g \in DOMAIN handlers : handlers'[g] = handlers[g]
      /\ handlers'[n] = [signal |-> sig, thread |-> thread, pc |-> "initiator",
                         at |-> Where(thread)]
  BY <1>0, SignalAppends
<1>2. PlacesOK'
  BY SignalAppends DEF PlacesOK, Signal
<1>3. /\ UNCHANGED <<pc, connectors, running, mutex, varzMutex, exit, server>> /\ exit = None
      /\ pc # "static"
  BY DEF Signal, connectorVars, varzVars
<1>n. n # None /\ n # Main
  BY <1>0, InitiatorAssumption DEF PlacesOK, Main
<1>r. /\ handlers'[n].pc = "initiator" /\ handlers'[n].thread = thread
      /\ handlers'[n].at = Where(thread)
  BY <1>1
<1>4. MutexInv'
  <2>1. mutex # n /\ varzMutex # n
    BY <1>1, <1>n DEF MutexInv
  <2>2. \A g \in DOMAIN handlers' : /\ handlers'[g].pc \in {"stopping", "joining"} <=> mutex = g
                                    /\ handlers'[g].pc = "varz stopping" <=> varzMutex = g
    BY <1>1, <1>r, <2>1 DEF MutexInv
  <2> QED BY <1>1, <1>3, <2>2 DEF MutexInv
<1>5. ConnectorInv' /\ (NoConnection' = NoConnection)
  BY <1>3 DEF ConnectorInv, NoConnection
<1>6. (OnMain # {} => OnMain' # {}) /\ (Settled => Settled')
  BY <1>1, <1>3 DEF OnMain, On, Settled
<1>7. (Elsewhere => Elsewhere') /\ (Early => Early')
  BY <1>1 DEF Elsewhere, Early
<1>8. BlockInv'
  BY <1>3, <1>6, <1>7 DEF BlockInv
<1>9. \A g \in DOMAIN handlers : Past(g)' = Past(g)
  BY <1>1 DEF Past
<1>10. ~ Past(n)'
  BY <1>1 DEF Past
<1>11. ASSUME thread # "main", Where(thread) # "early", pc \in BeforeStart
       PROVE  Settled'
  <2>1. pc \in {"begin", "varz starting", "parse", "configure", "publishing"}
    BY <1>3, <1>11 DEF BeforeStart
  <2>2. OnMain # {}
    BY <1>11, <2>1, Zenon DEF Where
  <2> QED BY <1>6, <2>2 DEF Settled
<1>12. \A g \in DOMAIN handlers' :
         handlers'[g].thread # "main" /\ handlers'[g].at # "early" /\ pc' \in BeforeStart => Settled'
  <2> SUFFICES ASSUME NEW g \in DOMAIN handlers', handlers'[g].thread # "main",
                      handlers'[g].at # "early", pc' \in BeforeStart
               PROVE  Settled'
    OBVIOUS
  <2>1. CASE g = n
    BY <1>3, <1>r, <1>11, <2>1
  <2>2. CASE g \in DOMAIN handlers
    BY <1>1, <1>3, <1>6, <2>2 DEF HandlerInv
  <2> QED BY <1>1, <2>1, <2>2
<1>13. Early' \/ \A g \in DOMAIN handlers' : Past(g)' => NoConnection' /\ Settled'
  BY <1>1, <1>5, <1>6, <1>7, <1>9, <1>10 DEF HandlerInv
<1>14. HandlerInv'
  BY <1>1, <1>3, <1>12, <1>13, NoneIsNew DEF HandlerInv
<1> QED BY <1>2, <1>4, <1>5, <1>8, <1>14

\* The steps of the event threads, of the server and of a handler that finds its object gone.
LEMMA OtherStepEnd ==
  ASSUME EndInv,
         \/ \E h \in DOMAIN handlers : Dangling(h)
         \/ \E s \in Threads, n \in Counters : Event(s, n)
         \/ \E s \in Threads : Counted(s)
         \/ AskPage \/ ServePage
         \/ UNCHANGED vars
  PROVE  EndInv'
<1> USE DEF EndInv
<1>1. UNCHANGED <<program, pc, handlers, connectors, running, mutex, varzMutex, server>>
  BY DEF Dangling, Event, Counted, AskPage, ServePage, vars, lifeVars, varzVars, configVars,
       connectorVars,
         BeginCount, EndCount, MakePage, Request, GetAllVarzs, SendPage
<1>2. exit' = exit \/ exit' = "NULL" \/ (exit' = "dangling" /\ pc \in Ended)
  BY DEF Dangling, Event, Counted, AskPage, ServePage, vars, lifeVars, Ended
<1>3. exit' # None \/ exit = None
  BY <1>2, NoneIsNew
<1>4. PlacesOK' /\ MutexInv' /\ ConnectorInv' /\ NoConnection' = NoConnection
  BY <1>1 DEF PlacesOK, MutexInv, ConnectorInv, NoConnection
<1>5. OnMain' = OnMain /\ Elsewhere' = Elsewhere /\ Early' = Early
      /\ \A h \in DOMAIN handlers : Past(h)' = Past(h)
  BY <1>1 DEF OnMain, On, Elsewhere, Early, Past
<1>6. Settled => Settled'
  BY <1>1, <1>3, <1>5 DEF Settled
<1>7. BlockInv'
  BY <1>1, <1>2, <1>3, <1>5 DEF BlockInv
<1>8. HandlerInv'
  BY <1>1, <1>2, <1>4, <1>5, <1>6 DEF HandlerInv
<1> QED BY <1>4, <1>7, <1>8

LEMMA EndStep ==
  ASSUME EndInv, [Next]_vars
  PROVE  EndInv'
<1> USE DEF EndInv
<1>1. CASE MainStep
  BY <1>1, MainStepMutex, MainStepConnector, MainStepEnd
<1>2. ASSUME NEW h \in DOMAIN handlers, HandlerStep(h) PROVE EndInv'
  BY <1>2, HandlerStepMoves, HandlerStepMutex, HandlerStepConnector, HandlerStepEnd
<1>3. ASSUME NEW sig \in Signals, NEW thread \in AllThreads, Signal(sig, thread)
      PROVE  EndInv'
  BY <1>3, SignalEnd
<1> QED BY <1>1, <1>2, <1>3, OtherStepEnd DEF Next

LEMMA EndInitially ==
  ASSUME Init
  PROVE  EndInv
<1> USE DEF Init, VarzInit
<1>1. PlacesOK
  BY DEF PlacesOK, BeforeStart
<1>2. DOMAIN handlers = {}
  OBVIOUS
<1>3. None # Main
  BY <1>1, NoneIsNew
<1>4. MutexInv
  BY <1>2, <1>3 DEF MutexInv, HoldsMutex, HoldsVarz
<1>5. ConnectorInv
  BY DEF ConnectorInv, Places, NoConnection, BeforeStart, AfterStart, Ended, InStart
<1>6. BlockInv /\ HandlerInv
  BY <1>1, <1>2, NoneIsNew DEF BlockInv, HandlerInv, AfterStart, Ended, InStart
<1> QED BY <1>1, <1>4, <1>5, <1>6 DEF EndInv

\* A program that ends has disconnected every session, wherever the signal found it, and
\* touches no destroyed object, but for the situations ShutdownIsClean names.
THEOREM CleanShutdown == Spec => []ShutdownIsClean
<1>1. EndInv => ShutdownIsClean
  <2> SUFFICES ASSUME EndInv PROVE ShutdownIsClean
    OBVIOUS
  <2> USE DEF EndInv
  <2>1. ASSUME exit = "exit", ~ Early PROVE NoConnection
    BY <2>1 DEF HandlerInv, Past
  <2>2. ASSUME exit = "return" PROVE NoConnection
    BY <2>2 DEF HandlerInv, ConnectorInv, Ended, AfterStart
  <2> QED BY <2>1, <2>2 DEF ShutdownIsClean, ExitLeavesNoConnection, DanglingOnlyElsewhere,
                            NoConnection, BlockInv, Elsewhere
<1> QED BY <1>1, EndInitially, EndStep, PTL DEF Spec

-----------------------------------------------------------------------------
(* The channels and their sockets *)

\* Channels are configured in their order, so channel 0 is the first to be bound, and
\* all are before a session starts.
ChannelInv ==
  /\ channels \subseteq DOMAIN program.outbound
  /\ DOMAIN outboundChannels = DOMAIN program.outbound \ channels
  /\ \A a \in DOMAIN publishers : publishers[a] \in DOMAIN outboundChannels
  /\ 0 \in channels => DOMAIN publishers = {}
  /\ program.publish /\ 0 \in DOMAIN outboundChannels =>
       \E a \in DOMAIN publishers : publishers[a] = 0
  /\ pc \in InStart \cup AfterStart => channels = {}

\* A session that was connected has a socket for channel 0, if there is one.
SocketInv ==
  /\ sockets \in [Threads -> SUBSET DOMAIN program.outbound]
  /\ 0 \in DOMAIN program.outbound =>
       \A s \in Threads : connectors[s] # "none" => 0 \in sockets[s]
  /\ exit = "NULL" => 0 \notin DOMAIN program.outbound

LEMMA PublishChannel ==
  ASSUME PlacesOK, ChannelInv, Publish
  PROVE  ChannelInv'
<1>1. PICK c \in channels :
        LET address == program.outbound[c]
        IN  /\ NextChannel(c)
            /\ channels' = channels \ {c}
            /\ outboundChannels' = [d \in DOMAIN outboundChannels \cup {c} |-> d]
            /\ publishers' = IF address \in DOMAIN publishers THEN publishers
                             ELSE [a \in DOMAIN publishers \cup {address} |->
                                     IF a = address THEN c ELSE publishers[a]]
  BY DEF Publish
<1>2. pc = "publishing" /\ pc' = "configure" /\ program' = program
  BY DEF Publish, Goto
<1>3. channels \subseteq Nat
  BY InitiatorAssumption DEF PlacesOK, ChannelInv
<1>4. 0 \in channels => c = 0
  BY <1>1, <1>3 DEF NextChannel
<1>5. channels' \subseteq channels /\ DOMAIN outboundChannels' = DOMAIN outboundChannels \cup {c}
      /\ DOMAIN outboundChannels' = DOMAIN program'.outbound \ channels'
  BY <1>1, <1>2 DEF ChannelInv
<1>6. 0 \notin channels'
  BY <1>1, <1>4
<1>7. CASE program.outbound[c] \in DOMAIN publishers
  <2>1. publishers' = publishers /\ 0 \notin channels
    BY <1>1, <1>7 DEF ChannelInv
  <2> QED BY <1>1, <1>2, <1>5, <1>6, <2>1 DEF ChannelInv, AfterStart, Ended, InStart
<1>8. CASE program.outbound[c] \notin DOMAIN publishers
  <2>1. /\ DOMAIN publishers' = DOMAIN publishers \cup {program.outbound[c]}
        /\ publishers'[program.outbound[c]] = c
        /\ \A a \in DOMAIN publishers : publishers'[a] = publishers[a]
    BY <1>1, <1>8
  <2> QED BY <1>1, <1>2, <1>4, <1>5, <1>6, <2>1 DEF ChannelInv, AfterStart, Ended, InStart
<1> QED BY <1>7, <1>8

LEMMA MainStepChannel ==
  ASSUME PlacesOK, ChannelInv, SocketInv, ConnectorInv, MainStep
  PROVE  ChannelInv' /\ SocketInv'
<1> USE DEF ChannelInv, SocketInv
<1>0. /\ None \notin {"return", "exit", "died", "threw", "FATAL", "NULL", "dangling"}
      /\ UNCHANGED program
  BY NoneIsNew DEF MainStep, Goto, Define, Begin, LockVarz, StartVarz, Parse, LockPublish,
       Publish, Push, LockStart, StartConnector, Started, LockBlock, Wait, Wake,
       DestroyInitiator, LockVarzDestroy, DestroyVarz, Return
<1>1. CASE Publish
  BY <1>0, <1>1, PublishChannel DEF Publish, connectorVars
<1>2. CASE Push
  <2>1. channels \subseteq Nat
    BY InitiatorAssumption DEF PlacesOK
  <2>2. PICK c \in channels : NextChannel(c) /\ channels' = channels \ {c}
                              /\ DOMAIN outboundChannels' = DOMAIN outboundChannels \cup {c}
    BY <1>2 DEF Push
  <2> QED BY <1>0, <1>2, <2>1, <2>2 DEF Push, Goto, NextChannel, AfterStart, Ended, InStart,
        connectorVars
<1>3. CASE StartConnector
  <2>1. ChannelInv' /\ channels = {}
    BY <1>3 DEF StartConnector, Goto, configVars, AfterStart, Ended, InStart
  <2>2. 0 \in DOMAIN program.outbound => 0 \in Bound
    BY <2>1, Zenon DEF Bound
  <2>3. Bound \subseteq DOMAIN program.outbound
    BY DEF Bound
  <2>4. PICK place \in {"connected", "retried"} :
          \/ sockets' = sockets /\ connectors' = connectors /\ exit' # "NULL"
          \/ /\ sockets' = [sockets EXCEPT ![Head(sessions)] = Bound]
             /\ connectors' = [connectors EXCEPT ![Head(sessions)] = place]
             /\ exit' # "NULL"
    BY <1>0, <1>3 DEF StartConnector, Goto, connectorVars
  <2> HIDE DEF ChannelInv
  <2> QED BY <1>0, <2>1, <2>2, <2>3, <2>4 DEF ConnectorInv
<1>4. CASE Define
  BY <1>0, <1>4 DEF Define, Goto, AfterStart, Ended, InStart, configVars, connectorVars
<1>5. CASE Begin
  BY <1>0, <1>5 DEF Begin, Goto, AfterStart, Ended, InStart, configVars, connectorVars
<1>6. CASE LockVarz
  BY <1>0, <1>6 DEF LockVarz, Goto, AfterStart, Ended, InStart, configVars, connectorVars
<1>7. CASE StartVarz
  BY <1>0, <1>7 DEF StartVarz, Goto, AfterStart, Ended, InStart, configVars, connectorVars
<1>8. CASE Parse
  BY <1>0, <1>8 DEF Parse, Goto, AfterStart, Ended, InStart, configVars, connectorVars
<1>9. CASE LockPublish
  BY <1>0, <1>9 DEF LockPublish, Goto, AfterStart, Ended, InStart, configVars, connectorVars
<1>10. CASE LockStart
  BY <1>0, <1>10 DEF LockStart, Goto, AfterStart, Ended, InStart, configVars, connectorVars
<1>11. CASE Started
  BY <1>0, <1>11 DEF Started, Goto, AfterStart, Ended, InStart, configVars, connectorVars
<1>12. CASE LockBlock
  BY <1>0, <1>12 DEF LockBlock, Goto, AfterStart, Ended, InStart, configVars, connectorVars
<1>13. CASE Wait
  BY <1>0, <1>13 DEF Wait, Goto, AfterStart, Ended, InStart, configVars, connectorVars
<1>14. CASE Wake
  BY <1>0, <1>14 DEF Wake, Goto, AfterStart, Ended, InStart, configVars, connectorVars
<1>15. CASE DestroyInitiator
  BY <1>0, <1>15 DEF DestroyInitiator, Goto, AfterStart, Ended, InStart, configVars, connectorVars
<1>18. CASE LockVarzDestroy
  BY <1>0, <1>18 DEF LockVarzDestroy, Goto, AfterStart, Ended, InStart, configVars, connectorVars
<1>16. CASE DestroyVarz
  BY <1>0, <1>16 DEF DestroyVarz, Goto, AfterStart, Ended, InStart, configVars, connectorVars
<1>17. CASE Return
  BY <1>0, <1>17 DEF Return, Goto, AfterStart, Ended, InStart, configVars, connectorVars
<1> QED BY <1>1, <1>2, <1>3, <1>4, <1>5, <1>6, <1>7, <1>8, <1>9, <1>10, <1>11, <1>12, <1>13,
      <1>14, <1>15, <1>16, <1>17, <1>18 DEF MainStep

LEMMA ChannelStep ==
  ASSUME PlacesOK, ConnectorInv, ChannelInv, SocketInv, [Next]_vars
  PROVE  ChannelInv' /\ SocketInv'
<1>1. CASE MainStep
  BY <1>1, MainStepChannel
<1>2. ASSUME NEW h \in DOMAIN handlers, HandlerStep(h) PROVE ChannelInv' /\ SocketInv'
  <2>1. UNCHANGED <<program, pc, configVars, sockets>>
    BY <1>2, HandlerStepMoves
  <2>2. \A s \in Threads : connectors'[s] # "none" => connectors[s] # "none"
    BY <1>2 DEF HandlerStep, SkipInitiator, LockStop, StopUnjoined, Disconnect, Joined, Stopped, LockVarzStop,
                StopVarz, Exit, ConnectorInv, Up, EventThreadEnds
  <2>3. exit' \in {exit, "exit"}
    BY <1>2 DEF HandlerStep, SkipInitiator, LockStop, StopUnjoined, Disconnect, Joined, Stopped, LockVarzStop,
                StopVarz, Exit
  <2> QED BY <2>1, <2>2, <2>3 DEF configVars, ChannelInv, SocketInv
<1>3. ASSUME NEW s \in Threads, NEW n \in Counters, Event(s, n) PROVE ChannelInv' /\ SocketInv'
  <2>1. UNCHANGED <<program, pc, configVars, connectorVars>>
    BY <1>3 DEF Event
  <2>2. exit' = exit \/ (0 \notin sockets[s] /\ connectors[s] # "none")
    BY <1>3 DEF Event
  <2> QED BY <2>1, <2>2 DEF configVars, connectorVars, ChannelInv, SocketInv
<1>4. ASSUME \/ \E sig \in Signals, thread \in AllThreads : Signal(sig, thread)
             \/ \E h \in DOMAIN handlers : Dangling(h)
             \/ \E s \in Threads : Counted(s)
             \/ AskPage \/ ServePage
             \/ UNCHANGED vars
      PROVE  ChannelInv' /\ SocketInv'
  <2>1. UNCHANGED <<program, pc, configVars, sockets, connectors>> /\ exit' \in {exit, "dangling"}
    BY <1>4 DEF Signal, Dangling, Counted, AskPage, ServePage, vars, lifeVars, configVars, connectorVars
  <2> QED BY <2>1 DEF configVars, ChannelInv, SocketInv
<1> QED BY <1>1, <1>2, <1>3, <1>4 DEF Next

LEMMA ChannelInitially ==
  ASSUME Init
  PROVE  ChannelInv /\ SocketInv
<1>1. PlacesOK
  BY EndInitially DEF EndInv
<1> QED BY <1>1, NoneIsNew DEF Init, ChannelInv, SocketInv, AfterStart, Ended, InStart

\* Every program with a channel 0 has a socket for it in every session that it connects,
\* whichever channels share an address: no event thread publishes on a NULL socket.
THEOREM ChannelZeroAlwaysSuffices == Spec => []ChannelZeroSuffices
<1>1. SocketInv => ChannelZeroSuffices
  BY DEF SocketInv, ChannelZeroSuffices
<1> QED BY <1>1, ChannelInitially, ChannelStep, EndInitially, EndStep, PTL DEF Spec, EndInv

-----------------------------------------------------------------------------
(* The counters and their page *)

Holds(t, n) == held[t] # None /\ held[t].name = n

Single(n) == \A t, u \in writers[n] : t = u

\* A counter that one thread counts lags by the count in progress.  What the page shows
\* was read since the page was asked for.
CountInv ==
  /\ \A t \in Threads : held[t] # None => t \in writers[held[t].name]
  /\ \A n \in Counters : Single(n) =>
       /\ actual[n] <= values[n] + 1
       /\ \A t \in Threads : Holds(t, n) => held[t].value = values[n] /\ actual[n] = values[n] + 1
       /\ (\A t \in Threads : ~ Holds(t, n)) => actual[n] = values[n]

PageInv ==
  /\ page = [rest |-> page.rest, shown |-> page.shown, since |-> page.since]
  /\ DOMAIN page.shown \subseteq Counters
  /\ page.rest \cup DOMAIN page.shown # {} =>
       /\ page.since \in [Counters -> Nat]
       /\ \A n \in Counters : page.since[n] <= actual[n]
  /\ \A n \in DOMAIN page.shown :
       /\ page.shown[n] \in Nat
       /\ Single(n) => page.shown[n] + 1 >= page.since[n] /\ page.shown[n] <= actual[n]

VarzInv ==
  /\ VarzTypeOK
  /\ held \in [Threads -> {None} \cup [name : Counters, value : Nat]]
  /\ CountInv
  /\ PageInv

\* At most one writer: Cardinality, without counting.
LEMMA AloneIsSingle ==
  ASSUME VarzTypeOK, NEW n \in Counters
  PROVE  Alone(n) <=> Single(n)
<1>1. IsFiniteSet(writers[n])
  BY VarzAssumption, FS_Subset DEF VarzTypeOK
<1>2. Cardinality(writers[n]) \in Nat
  BY <1>1, FS_CardinalityType
<1>3. ASSUME Single(n) PROVE Alone(n)
  <2>1. CASE writers[n] = {}
    BY <2>1, FS_EmptySet DEF Alone
  <2>2. ASSUME NEW t \in writers[n] PROVE Alone(n)
    <3>1. writers[n] = {t}
      BY <1>3, <2>2 DEF Single
    <3> QED BY <3>1, FS_Singleton DEF Alone
  <2> QED BY <2>1, <2>2
<1>4. ASSUME Alone(n), NEW t \in writers[n], NEW u \in writers[n] PROVE t = u
  <2> SUFFICES ASSUME t # u PROVE FALSE
    OBVIOUS
  <2>1. /\ {t, u} \subseteq writers[n] /\ IsFiniteSet({t, u}) /\ Cardinality({t, u}) = 2
    <3>1. IsFiniteSet({t}) /\ Cardinality({t}) = 1
      BY FS_Singleton
    <3>2. {t, u} = {t} \cup {u} /\ u \notin {t}
      OBVIOUS
    <3> QED BY <3>1, <3>2, FS_AddElement
  <2>2. 2 <= Cardinality(writers[n])
    BY <1>1, <2>1, FS_Subset
  <2> QED BY <1>2, <1>4, <2>2 DEF Alone
<1> QED BY <1>3, <1>4 DEF Single

LEMMA BeginCountVarz ==
  ASSUME VarzInv, NEW t \in Threads, NEW n \in Counters, BeginCount(t, n)
  PROVE  VarzInv'
<1> USE DEF VarzInv
<1>1. /\ held[t] = None
      /\ held' = [held EXCEPT ![t] = [name |-> n, value |-> values[n]]]
      /\ actual' = [actual EXCEPT ![n] = @ + 1]
      /\ writers' = [writers EXCEPT ![n] = @ \cup {t}]
      /\ UNCHANGED <<varzs, values, server, page, pages>>
  BY DEF BeginCount
<1>2. VarzTypeOK' /\ held' \in [Threads -> {None} \cup [name : Counters, value : Nat]]
  BY <1>1 DEF VarzTypeOK
<1>3. \A m \in Counters : Single(m)' => Single(m)
  BY <1>1 DEF Single, VarzTypeOK
<1>4. \A m \in Counters : actual[m] <= actual'[m] /\ actual[m] \in Nat /\ actual'[m] \in Nat
  BY <1>1 DEF VarzTypeOK
<1>5. /\ held'[t] = [name |-> n, value |-> values[n]] /\ held'[t] # None
      /\ \A u \in Threads : u # t => held'[u] = held[u]
  BY <1>1, VarzAssumption DEF VarzTypeOK
<1>6. CountInv'
  <2>1. \A u \in Threads : held'[u] # None => u \in writers'[held'[u].name]
    BY <1>1, <1>5 DEF CountInv, VarzTypeOK
  <2>2. ASSUME NEW m \in Counters, Single(m)'
        PROVE  /\ actual'[m] <= values'[m] + 1
               /\ \A u \in Threads : Holds(u, m)' => held'[u].value = values'[m]
                                                     /\ actual'[m] = values'[m] + 1
               /\ (\A u \in Threads : ~ Holds(u, m)') => actual'[m] = values'[m]
    <3>1. CASE m # n
      <4>1. actual'[m] = actual[m] /\ \A u \in Threads : Holds(u, m)' <=> Holds(u, m)
        BY <1>1, <1>5, <3>1 DEF VarzTypeOK, Holds
      <4>2. \A u \in Threads : Holds(u, m) => held'[u] = held[u]
        BY <1>1, <1>5 DEF Holds
      <4> QED BY <1>1, <1>3, <2>2, <4>1, <4>2 DEF CountInv
    <3>2. CASE m = n
      <4>1. t \in writers'[n] /\ Holds(t, n)'
        BY <1>1, <1>5 DEF VarzTypeOK, Holds
      <4>2. \A u \in Threads : u # t => ~ Holds(u, n)
        BY <1>1, <2>2, <3>2, <4>1 DEF CountInv, Holds, Single, VarzTypeOK
      <4>3. \A u \in Threads : ~ Holds(u, n)
        BY <1>1, <4>2 DEF Holds
      <4>4. actual[n] = values[n]
        BY <1>3, <2>2, <3>2, <4>3 DEF CountInv
      <4>5. actual'[n] = values'[n] + 1
        BY <1>1, <4>4 DEF VarzTypeOK
      <4>6. \A u \in Threads : Holds(u, n)' => u = t
        BY <1>5, <4>2 DEF Holds
      <4> QED BY <1>1, <1>5, <3>2, <4>1, <4>5, <4>6 DEF VarzTypeOK
    <3> QED BY <3>1, <3>2
  <2> QED BY <2>1, <2>2 DEF CountInv
<1>7. PageInv'
  <2>1. page' = page
    BY <1>1
  <2>2. \A m \in DOMAIN page.shown : m \in Counters
    BY DEF PageInv
  <2> QED BY <1>3, <1>4, <2>1, <2>2 DEF PageInv
<1> QED BY <1>2, <1>6, <1>7

LEMMA EndCountVarz ==
  ASSUME VarzInv, NEW t \in Threads, EndCount(t)
  PROVE  VarzInv'
<1> USE DEF VarzInv
<1> DEFINE n == held[t].name
<1>1. /\ held[t] # None /\ n \in Counters /\ held[t].value \in Nat
      /\ held' = [held EXCEPT ![t] = None]
      /\ values' = [values EXCEPT ![n] = held[t].value + 1]
      /\ UNCHANGED <<varzs, actual, writers, server, page, pages>>
  BY DEF EndCount, VarzTypeOK
<1>2. VarzTypeOK' /\ held' \in [Threads -> {None} \cup [name : Counters, value : Nat]]
  BY <1>1 DEF VarzTypeOK
<1>3. held'[t] = None /\ \A u \in Threads : u # t => held'[u] = held[u]
  BY <1>1
<1>4. \A m \in Counters : Single(m)' = Single(m)
  BY <1>1 DEF Single
<1>5. t \in writers[n]
  BY <1>1 DEF CountInv
<1>6. CountInv'
  <2>1. \A u \in Threads : held'[u] # None => u \in writers'[held'[u].name]
    BY <1>1, <1>3 DEF CountInv
  <2>2. ASSUME NEW m \in Counters, Single(m)
        PROVE  /\ actual'[m] <= values'[m] + 1
               /\ \A u \in Threads : Holds(u, m)' => held'[u].value = values'[m]
                                                     /\ actual'[m] = values'[m] + 1
               /\ (\A u \in Threads : ~ Holds(u, m)') => actual'[m] = values'[m]
    <3>1. CASE m # n
      <4>1. values'[m] = values[m] /\ \A u \in Threads : Holds(u, m)' <=> Holds(u, m)
        BY <1>1, <1>3, <3>1 DEF VarzTypeOK, Holds
      <4>2. \A u \in Threads : Holds(u, m) => held'[u] = held[u]
        BY <1>1, <1>3, <3>1 DEF Holds
      <4> QED BY <1>1, <2>2, <4>1, <4>2 DEF CountInv
    <3>2. CASE m = n
      <4>1. Holds(t, m) /\ values'[m] = held[t].value + 1
        BY <1>1, <3>2 DEF VarzTypeOK, Holds
      <4>2. held[t].value = values[m] /\ actual[m] = values[m] + 1
        BY <2>2, <4>1 DEF CountInv
      <4>3. \A u \in Threads : ~ Holds(u, m)'
        BY <1>1, <1>3, <1>5, <2>2, <3>2 DEF CountInv, Holds, Single
      <4> QED BY <1>1, <4>1, <4>2, <4>3 DEF VarzTypeOK
    <3> QED BY <3>1, <3>2
  <2> QED BY <1>4, <2>1, <2>2 DEF CountInv
<1>7. PageInv'
  BY <1>1, <1>4 DEF PageInv
<1> QED BY <1>2, <1>6, <1>7

LEMMA ServerStepVarz ==
  ASSUME VarzInv, Request \/ MakePage
  PROVE  VarzInv'
<1> USE DEF VarzInv
<1>1. UNCHANGED <<varzs, values, actual, writers, held, server>>
  BY DEF MakePage, Request, GetAllVarzs, SendPage
<1>2. CountInv' /\ \A n : Single(n)' = Single(n)
  BY <1>1 DEF CountInv, Holds, Single
<1>3. CASE Request
  <2>1. page' = [rest |-> {v.name : v \in varzs} \cap Counters, shown |-> << >>, since |-> actual]
        /\ pages' = pages + 1 /\ pages < MaxPages
    BY <1>3 DEF Request
  <2>2. VarzTypeOK'
    BY <1>1, <2>1, VarzAssumption DEF VarzTypeOK
  <2>3. PageInv'
    BY <1>1, <2>1 DEF PageInv, VarzTypeOK
  <2> QED BY <1>1, <1>2, <2>2, <2>3
<1>4. CASE GetAllVarzs
  <2>1. PICK n \in page.rest :
          page' = [page EXCEPT !.rest = @ \ {n}, !.shown = FillVarzInfo(n)]
    BY <1>4 DEF GetAllVarzs
  <2>2. pages' = pages
    BY <1>4 DEF GetAllVarzs
  <2>3. /\ page'.rest = page.rest \ {n} /\ page'.since = page.since
        /\ page'.shown = FillVarzInfo(n)
        /\ page' = [rest |-> page'.rest, shown |-> page'.shown, since |-> page'.since]
    BY <2>1 DEF PageInv
  <2>4. /\ DOMAIN page'.shown = DOMAIN page.shown \cup {n} /\ page'.shown[n] = values[n]
        /\ \A m \in DOMAIN page.shown : m # n => page'.shown[m] = page.shown[m]
    BY <2>3 DEF FillVarzInfo
  <2>5. n \in Counters /\ values[n] \in Nat /\ actual[n] \in Nat
    BY DEF VarzTypeOK
  <2>6. page.since \in [Counters -> Nat] /\ \A m \in Counters : page.since[m] <= actual[m]
    BY DEF PageInv
  <2>7. Single(n) => values[n] <= actual[n] /\ actual[n] <= values[n] + 1
    BY <2>5 DEF CountInv
  <2>8. Single(n) => values[n] + 1 >= page.since[n]
    BY <2>5, <2>6, <2>7
  <2>9. VarzTypeOK'
    BY <1>1, <2>2, <2>3 DEF VarzTypeOK
  <2>10. PageInv'
    BY <1>1, <1>2, <2>3, <2>4, <2>5, <2>6, <2>7, <2>8 DEF PageInv
  <2> QED BY <1>1, <1>2, <2>9, <2>10
<1>5. CASE SendPage
  <2>1. page' = [rest |-> {}, shown |-> << >>, since |-> << >>] /\ pages' = pages
    BY <1>5 DEF SendPage, NoPage
  <2> QED BY <1>1, <1>2, <2>1 DEF PageInv, VarzTypeOK
<1> QED BY <1>3, <1>4, <1>5 DEF MakePage

\* A step that only registers a counter, or starts or stops the server.
LEMMA QuietStepVarz ==
  ASSUME VarzInv, UNCHANGED <<values, actual, writers, held, page, pages>>,
         \A v \in varzs' : v.type \in Types, server' \in {"new", "running", "stopped"}
  PROVE  VarzInv'
BY DEF VarzInv, VarzTypeOK, CountInv, PageInv, Holds, Single

LEMMA VarzStep ==
  ASSUME PlacesOK, VarzInv, [Next]_vars
  PROVE  VarzInv'
<1>0. (\A v \in varzs : v.type \in Types) /\ server \in {"new", "running", "stopped"}
  BY DEF VarzInv, VarzTypeOK
<1>1. ASSUME UNCHANGED varzVars PROVE VarzInv'
  BY <1>0, <1>1, QuietStepVarz DEF varzVars
<1>2. CASE MainStep
  <2>1. CASE Define
    <3>1. \A v \in program.varzs : v.type \in Types
      BY InitiatorAssumption DEF PlacesOK
    <3> QED BY <1>0, <1>1, <2>1, <3>1, QuietStepVarz DEF Define, RegisterVarz
  <2>2. CASE StartVarz
    BY <1>0, <2>2, QuietStepVarz DEF StartVarz, StartServer
  <2>3. CASE DestroyVarz
    BY <1>0, <2>3, QuietStepVarz DEF DestroyVarz, StopServer
  <2> QED BY <1>1, <1>2, <2>1, <2>2, <2>3
       DEF MainStep, Begin, LockVarz, Parse, LockPublish, Publish, Push, LockStart,
           StartConnector, Started, LockBlock, Wait, Wake, DestroyInitiator,
           LockVarzDestroy, Return
<1>3. ASSUME NEW h \in DOMAIN handlers, HandlerStep(h) \/ Dangling(h) PROVE VarzInv'
  <2>1. CASE StopVarz(h)
    BY <1>0, <2>1, QuietStepVarz DEF StopVarz, StopServer
  <2> QED BY <1>1, <1>3, <2>1
       DEF HandlerStep, SkipInitiator, LockStop, StopUnjoined, Disconnect, Joined, Stopped, LockVarzStop, Exit,
             Dangling
<1>4. ASSUME NEW s \in Threads, NEW n \in Counters, Event(s, n) PROVE VarzInv'
  BY <1>1, <1>4, BeginCountVarz DEF Event
<1>5. ASSUME NEW s \in Threads, Counted(s) PROVE VarzInv'
  BY <1>5, EndCountVarz DEF Counted
<1>6. CASE AskPage \/ ServePage
  BY <1>6, ServerStepVarz DEF AskPage, ServePage
<1>7. ASSUME NEW sig \in Signals, NEW thread \in AllThreads, Signal(sig, thread)
      PROVE  VarzInv'
  BY <1>1, <1>7 DEF Signal
<1>8. CASE UNCHANGED vars
  BY <1>1, <1>8 DEF vars
<1> QED BY <1>2, <1>3, <1>4, <1>5, <1>6, <1>7, <1>8 DEF Next

LEMMA VarzInitially ==
  ASSUME Init
  PROVE  VarzInv
<1> USE DEF Init, VarzInit
<1>1. VarzTypeOK
  BY VarzAssumption DEF VarzTypeOK, NoPage
<1>2. CountInv
  BY DEF CountInv, Holds
<1>3. PageInv
  BY DEF PageInv, NoPage
<1> QED BY <1>1, <1>2, <1>3 DEF VarzInv

\* A counter that one thread counts is shown with a value of the time the page was made.
THEOREM PageAlwaysCurrent == Spec => []PageIsCurrent
<1>1. VarzInv => PageIsCurrent
  BY AloneIsSingle DEF VarzInv, PageInv, PageIsCurrent
<1> QED BY <1>1, VarzInitially, VarzStep, EndInitially, EndStep, PTL DEF Spec, EndInv

-----------------------------------------------------------------------------
ExitOK == exit \in {None} \cup Exits

\* Every variable keeps its type, main and the handlers hold the mutexes where the code
\* locks them, and the publishers belong to configured channels.
THEOREM TypeCorrect == Spec => []TypeOK
<1>1. ASSUME EndInv, VarzInv, ChannelInv, ExitOK PROVE TypeOK
  <2>1. /\ mutex = Main <=> (pc \in HoldsMutex)
        /\ varzMutex = Main <=> (pc \in HoldsVarz)
    BY <1>1, Zenon DEF EndInv, MutexInv
  <2>2. {mutex, varzMutex} \subseteq {None, Main} \cup DOMAIN handlers
    BY <1>1 DEF EndInv, MutexInv
  <2>3. /\ program \in Programs /\ running \in BOOLEAN
        /\ connectors \in [Threads -> Places]
    BY <1>1, Zenon DEF EndInv, PlacesOK, ConnectorInv
  <2>4. /\ channels \subseteq DOMAIN program.outbound
        /\ DOMAIN outboundChannels \subseteq DOMAIN program.outbound
        /\ \A a \in DOMAIN publishers : publishers[a] \in DOMAIN outboundChannels \cup channels
    BY <1>1 DEF ChannelInv
  <2>5. VarzTypeOK
    BY <1>1 DEF VarzInv
  <2> QED BY <1>1, <2>1, <2>2, <2>3, <2>4, <2>5, Zenon DEF TypeOK, ExitOK
<1>2. Init => ExitOK
  BY DEF Init, ExitOK
<1>3. ASSUME ExitOK, [Next]_vars PROVE ExitOK'
  BY <1>3 DEF ExitOK, Exits, Next, MainStep, Define, Begin, LockVarz, StartVarz, Parse,
       LockPublish, Publish,
       Push, LockStart, StartConnector, Started, LockBlock, Wait, Wake, DestroyInitiator,
       LockVarzDestroy, DestroyVarz, Return, HandlerStep, SkipInitiator, LockStop, StopUnjoined, Disconnect, Joined, Stopped,
       LockVarzStop, StopVarz, Exit, Dangling, Event, Counted, AskPage, ServePage, Signal, vars, lifeVars
<1> QED BY <1>1, <1>2, <1>3, EndInitially, EndStep, VarzInitially, VarzStep, ChannelInitially,
        ChannelStep, PTL DEF Spec, EndInv
=============================================================================
