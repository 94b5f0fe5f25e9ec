------------------------ MODULE SocketConnectorProofs ------------------------
(***************************************************************************)
(* Proofs about the connection's threads, for any number of attempts,      *)
(* calls, connections and requests.                                        *)
(***************************************************************************)
EXTENDS SocketConnector, TLAPS

USE SocketConnectorAssumption

\* connect() has attempts left while it runs.
AttemptInv ==
  main \in InConnect => attempts < MaxAttempts

\* The event thread reads from a connection, never from a closed socket.
ReadInv ==
  event \in {"recv", "process"} => reading \in Links

\* The flag the reactor trusts stands for an acknowledgement.
AckInv ==
  /\ connected => acked # {}
  /\ reactor \in {"serving", "sending"} => acked # {}

TInv == TypeOK /\ AttemptInv /\ ReadInv

\* One step of any thread keeps the state well typed, and connect() within its
\* attempts.
LEMMA TypeStep ==
  ASSUME TInv, [Next]_vars
  PROVE  TypeOK'
<1> USE DEF TInv, TypeOK, AttemptInv, InConnect, InStop, AtRest, HoldsMutex, Links, NoLink,
            drv, flags, net, evt, rct, conn
<1>1. CASE Connect
  <2>1. socketOk' \in BOOLEAN /\ connected' \in BOOLEAN /\ leaked' \in BOOLEAN
    BY <1>1, Zenon DEF Connect
  <2> QED BY <1>1, <2>1 DEF Connect
<1>2. CASE Stop
  BY <1>2 DEF Stop
<1>3. CASE ConnectThrows
  <2>1. socketOk' \in BOOLEAN /\ connected' \in BOOLEAN /\ leaked' \in BOOLEAN
    BY <1>3, Zenon DEF ConnectThrows
  <2> QED BY <1>3, <2>1 DEF ConnectThrows
<1>4. CASE ConnectSocket
  <2>1. socketOk' \in BOOLEAN /\ connected' \in BOOLEAN /\ leaked' \in BOOLEAN
    BY <1>4, Zenon DEF ConnectSocket
  <2> QED BY <1>4, <2>1 DEF ConnectSocket
<1>5. CASE OnConnect
  <2>1. socketOk' \in BOOLEAN /\ connected' \in BOOLEAN /\ leaked' \in BOOLEAN
    BY <1>5, Zenon DEF OnConnect
  <2> QED BY <1>5, <2>1 DEF OnConnect
<1>6. CASE SetRunning
  BY <1>6 DEF SetRunning
<1>7. CASE ConnectReturns
  BY <1>7 DEF ConnectReturns
<1>8. CASE Connected
  BY <1>8 DEF Connected
<1>9. CASE HandshakeTimeout
  BY <1>9 DEF NextAttempt, HandshakeTimeout
<1>10. CASE Reset
  BY <1>10 DEF NextAttempt, Reset
<1>11. CASE OnDisconnect
  <2>1. socketOk' \in BOOLEAN /\ connected' \in BOOLEAN /\ leaked' \in BOOLEAN
    BY <1>11, Zenon DEF OnDisconnect
  <2> QED BY <1>11, <2>1 DEF OnDisconnect
<1>12. CASE SetStopping
  BY <1>12 DEF SetStopping
<1>13. CASE Disconnect
  <2>1. leaked' \in BOOLEAN
    BY <1>13, Zenon DEF Disconnect
  <2> QED BY <1>13, <2>1 DEF CloseSocket, Disconnect
<1>14. CASE Join
  BY <1>14 DEF Join
<1>15. CASE Release
  BY <1>15 DEF Release
<1>16. CASE ThreadStart
  BY <1>16 DEF ThreadStart
<1>17. CASE AwaitRunning
  BY <1>17 DEF AwaitRunning
<1>18. CASE CheckMessages
  BY <1>18 DEF CheckMessages
<1>19. CASE CallReceive
  BY <1>19 DEF CallReceive
<1>20. CASE ReceiveFails
  BY <1>20 DEF ReceiveFails
<1>21. CASE ProcessAck
  <2>1. socketOk' \in BOOLEAN /\ connected' \in BOOLEAN /\ leaked' \in BOOLEAN
    BY <1>21, Zenon DEF ProcessAck
  <2>2. event' = "loop" /\ acked' = acked \cup {reading}
    BY <1>21, Zenon DEF ProcessAck
  <2>3. state' \in {"STARTING", "RUNNING", "STOPPING", "STOPPED"}
    BY <1>21, Zenon DEF ProcessAck
  <2>4. UNCHANGED <<main, conn, drv, net, reading, rct>>
    BY <1>21, Zenon DEF ProcessAck
  <2>5. reading \in Links
    BY <1>21 DEF ProcessAck, ReadInv
  <2> QED BY <2>1, <2>2, <2>3, <2>4, <2>5
<1>22. CASE ProcessMessage
  BY <1>22 DEF ProcessMessage
<1>23. CASE ProcessThrows
  BY <1>23 DEF ProcessThrows
<1>24. CASE ReceiveError
  <2>1. socketOk' \in BOOLEAN /\ connected' \in BOOLEAN /\ leaked' \in BOOLEAN
    BY <1>24, Zenon DEF ReceiveError
  <2> QED BY <1>24, <2>1 DEF ReceiveError
<1>25. CASE EventCloses
  <2>1. socketOk' \in BOOLEAN /\ connected' \in BOOLEAN /\ leaked' \in BOOLEAN
    BY <1>25, Zenon DEF CloseSocket, EventCloses
  <2> QED BY <1>25, <2>1 DEF CloseSocket, EventCloses
<1>26. CASE ThreadExit
  BY <1>26 DEF ThreadExit
<1>27. CASE ReceiveBytes
  BY <1>27 DEF ReceiveBytes
<1>28. CASE Respond
  BY <1>28 DEF Respond
<1>29. CASE CheckDriver
  BY <1>29 DEF CheckDriver
<1>30. CASE CallApi
  BY <1>30 DEF CallApi
<1>31. CASE Send
  <2>1. socketOk' \in BOOLEAN /\ connected' \in BOOLEAN /\ leaked' \in BOOLEAN
    BY <1>31, Zenon DEF Send
  <2> QED BY <1>31, <2>1 DEF Send
<1>32. ASSUME NEW c \in Links, LoseLink(c) PROVE TypeOK'
  BY <1>32 DEF LoseLink
<1>33. CASE UNCHANGED vars
  BY <1>33 DEF vars
<1> QED
  BY <1>1, <1>2, <1>3, <1>4, <1>5, <1>6, <1>7, <1>8, <1>9, <1>10, <1>11, <1>12, <1>13, <1>14, <1>15, <1>16, <1>17, <1>18, <1>19, <1>20, <1>21, <1>22, <1>23, <1>24, <1>25, <1>26, <1>27, <1>28, <1>29, <1>30, <1>31, <1>32, <1>33
  DEF Next, MainStep, EventStep, ReactorStep

\* The loop counter stays below maxAttempts and recv is called on connections.
LEMMA AttemptStep ==
  ASSUME TInv, [Next]_vars
  PROVE  AttemptInv' /\ ReadInv'
<1> USE DEF TInv, TypeOK, AttemptInv, ReadInv, InConnect, InStop, AtRest, NoLink,
            drv, flags, net, evt, rct, conn
<1>1. CASE Connect
  BY <1>1 DEF Connect
<1>2. CASE Stop
  BY <1>2 DEF Stop
<1>3. CASE ConnectThrows
  BY <1>3 DEF ConnectThrows
<1>4. CASE ConnectSocket
  BY <1>4 DEF ConnectSocket
<1>5. CASE OnConnect
  BY <1>5 DEF OnConnect
<1>6. CASE SetRunning
  BY <1>6 DEF SetRunning
<1>7. CASE ConnectReturns
  BY <1>7 DEF ConnectReturns
<1>8. CASE Connected
  BY <1>8 DEF Connected
<1>9. CASE HandshakeTimeout
  BY <1>9 DEF HandshakeTimeout, NextAttempt
<1>10. CASE Reset
  BY <1>10 DEF Reset, NextAttempt
<1>11. CASE OnDisconnect
  BY <1>11 DEF OnDisconnect
<1>12. CASE SetStopping
  BY <1>12 DEF SetStopping
<1>13. CASE Disconnect
  BY <1>13 DEF Disconnect, CloseSocket
<1>14. CASE Join
  BY <1>14 DEF Join
<1>15. CASE Release
  BY <1>15 DEF Release
<1>16. CASE ThreadStart \/ AwaitRunning \/ CheckMessages \/ CallReceive
  BY <1>16 DEF ThreadStart, AwaitRunning, CheckMessages, CallReceive
<1>17. CASE ReceiveFails \/ ProcessAck \/ ProcessMessage \/ ProcessThrows
  BY <1>17 DEF ReceiveFails, ProcessAck, ProcessMessage, ProcessThrows
<1>18. CASE ReceiveError \/ EventCloses \/ ThreadExit \/ ReceiveBytes
  BY <1>18 DEF ReceiveError, EventCloses, CloseSocket, ThreadExit, ReceiveBytes
<1>19. CASE Respond \/ CheckDriver \/ CallApi \/ Send
  BY <1>19 DEF Respond, CheckDriver, CallApi, Send
<1>20. CASE (\E c \in Links : LoseLink(c)) \/ UNCHANGED vars
  BY <1>20 DEF LoseLink, vars
<1> QED
  BY <1>1, <1>2, <1>3, <1>4, <1>5, <1>6, <1>7, <1>8, <1>9, <1>10, <1>11, <1>12, <1>13, <1>14, <1>15, <1>16, <1>17, <1>18, <1>19, <1>20
  DEF Next, MainStep, EventStep, ReactorStep

\* The threads start in their types.
LEMMA InitTInv == Init => TInv
<1> SUFFICES ASSUME Init PROVE TInv
  OBVIOUS
<1>1. socketOk \in BOOLEAN /\ connected \in BOOLEAN /\ leaked \in BOOLEAN
  BY Zenon DEF Init
<1>2. /\ main = "idle" /\ calls = 0 /\ attempts = 0 /\ driver = "null"
      /\ state = "STARTING" /\ sock = 0 /\ opened = 0
      /\ link = [c \in Links |-> "unused"]
      /\ event = "none" /\ reading = 0 /\ acked = {}
      /\ reactor = "respond" /\ requests = 0
  BY Zenon DEF Init, NoLink
<1> QED
  BY <1>1, <1>2 DEF TInv, TypeOK, AttemptInv, ReadInv, InConnect, AtRest, NoLink

\* Every step of the three threads keeps the state well typed: connect() makes
\* at most maxAttempts attempts and acknowledgements belong to connections.
THEOREM TypeCorrect == Spec => []TypeOK
<1>1. Init => TInv
  BY InitTInv
<1>2. ASSUME TInv, [Next]_vars PROVE TInv'
  BY <1>2, TypeStep, AttemptStep DEF TInv
<1>3. TInv => TypeOK
  BY DEF TInv
<1> QED BY <1>1, <1>2, <1>3, PTL DEF Spec
-----------------------------------------------------------------------------
\* Connect sets RUNNING and notifies under the mutex that the event thread
\* holds whenever it looks at state_: the notification cannot be missed.
THEOREM NotifyIsNeverMissed == Spec => []NoMissedNotify
<1>1. Init => NoMissedNotify
  BY DEF Init, NoMissedNotify
<1>2. ASSUME NoMissedNotify, [Next]_vars PROVE NoMissedNotify'
  <2> USE <1>2 DEF NoMissedNotify, drv, flags, net, evt, rct, conn
  <2>1. CASE Connect
    BY <2>1 DEF Connect
  <2>2. CASE Stop
    BY <2>2 DEF Stop
  <2>3. CASE ConnectThrows
    BY <2>3 DEF ConnectThrows
  <2>4. CASE ConnectSocket
    BY <2>4 DEF ConnectSocket
  <2>5. CASE OnConnect
    BY <2>5 DEF OnConnect
  <2>6. CASE SetRunning
    BY <2>6 DEF SetRunning
  <2>7. CASE ConnectReturns
    BY <2>7 DEF ConnectReturns
  <2>8. CASE Connected
    BY <2>8 DEF Connected
  <2>9. CASE HandshakeTimeout
    BY <2>9 DEF HandshakeTimeout, NextAttempt
  <2>10. CASE Reset
    BY <2>10 DEF Reset, NextAttempt
  <2>11. CASE OnDisconnect
    BY <2>11 DEF OnDisconnect
  <2>12. CASE SetStopping
    BY <2>12 DEF SetStopping
  <2>13. CASE Disconnect
    BY <2>13 DEF Disconnect, CloseSocket
  <2>14. CASE Join
    BY <2>14 DEF Join
  <2>15. CASE Release
    BY <2>15 DEF Release
  <2>16. CASE ThreadStart \/ AwaitRunning
    BY <2>16 DEF ThreadStart, AwaitRunning
  <2>17. CASE CheckMessages \/ CallReceive \/ ReceiveFails
    BY <2>17 DEF CheckMessages, CallReceive, ReceiveFails
  <2>18. CASE ProcessAck \/ ProcessMessage \/ ProcessThrows
    BY <2>18 DEF ProcessAck, ProcessMessage, ProcessThrows
  <2>19. CASE ReceiveError \/ EventCloses \/ ThreadExit \/ ReceiveBytes
    BY <2>19 DEF ReceiveError, EventCloses, CloseSocket, ThreadExit, ReceiveBytes
  <2>20. CASE Respond \/ CheckDriver \/ CallApi \/ Send
    BY <2>20 DEF Respond, CheckDriver, CallApi, Send
  <2>21. CASE (\E c \in Links : LoseLink(c)) \/ UNCHANGED vars
    BY <2>21 DEF LoseLink, vars
  <2> QED
    BY <2>1, <2>2, <2>3, <2>4, <2>5, <2>6, <2>7, <2>8, <2>9, <2>10, <2>11, <2>12, <2>13, <2>14, <2>15, <2>16, <2>17, <2>18, <2>19, <2>20, <2>21
    DEF Next, MainStep, EventStep, ReactorStep
<1> QED BY <1>1, <1>2, PTL DEF Spec
-----------------------------------------------------------------------------
\* What the reactor relies on when it starts to serve.
HandshakeInv == AckInv /\ RequestsWaitForHandshake

\* Whoever sets the EClient's flag has processed an acknowledgement.
LEMMA HandshakeHolds == Spec => []HandshakeInv
<1>1. Init => HandshakeInv
  <2> SUFFICES ASSUME Init PROVE HandshakeInv
    OBVIOUS
  <2>1. ~connected /\ reactor = "respond" /\ requests = 0
    BY Zenon DEF Init
  <2> QED BY <2>1 DEF HandshakeInv, AckInv, RequestsWaitForHandshake
<1>2. ASSUME HandshakeInv, [Next]_vars PROVE HandshakeInv'
  <2> USE <1>2 DEF HandshakeInv, AckInv, RequestsWaitForHandshake, drv, flags, net, evt, rct, conn
  <2>1. CASE Connect
    BY <2>1 DEF Connect
  <2>2. CASE Stop
    BY <2>2 DEF Stop
  <2>3. CASE ConnectThrows \/ ConnectSocket \/ OnConnect \/ SetRunning
    BY <2>3 DEF ConnectThrows, ConnectSocket, OnConnect, SetRunning
  <2>4. CASE ConnectReturns \/ Connected \/ HandshakeTimeout \/ Reset
    BY <2>4 DEF ConnectReturns, Connected, HandshakeTimeout, NextAttempt, Reset
  <2>5. CASE OnDisconnect \/ SetStopping \/ Disconnect \/ Join \/ Release
    BY <2>5 DEF OnDisconnect, SetStopping, Disconnect, CloseSocket, Join, Release
  <2>6. CASE ThreadStart \/ AwaitRunning \/ CheckMessages \/ CallReceive \/ ReceiveFails
    BY <2>6 DEF ThreadStart, AwaitRunning, CheckMessages, CallReceive, ReceiveFails
  <2>7. CASE ProcessAck
    BY <2>7 DEF ProcessAck
  <2>8. CASE ProcessMessage \/ ProcessThrows \/ ReceiveError \/ EventCloses \/ ThreadExit \/ ReceiveBytes
    BY <2>8 DEF ProcessMessage, ProcessThrows, ReceiveError, EventCloses, CloseSocket, ThreadExit, ReceiveBytes
  <2>9. CASE Respond
    BY <2>9 DEF Respond
  <2>10. CASE CheckDriver
    BY <2>10 DEF CheckDriver
  <2>11. CASE CallApi
    BY <2>11 DEF CallApi
  <2>12. CASE Send
    BY <2>12 DEF Send
  <2>13. CASE (\E c \in Links : LoseLink(c)) \/ UNCHANGED vars
    BY <2>13 DEF LoseLink, vars
  <2> QED
    BY <2>1, <2>2, <2>3, <2>4, <2>5, <2>6, <2>7, <2>8, <2>9, <2>10, <2>11, <2>12, <2>13
    DEF Next, MainStep, EventStep, ReactorStep
<1> QED BY <1>1, <1>2, PTL DEF Spec

\* The flag the reactor trusts is only set together with an acknowledgement, so
\* no request is read from the reactor's socket before a handshake.
THEOREM RequestsFollowHandshake == Spec => []RequestsWaitForHandshake
<1>1. HandshakeInv => RequestsWaitForHandshake
  BY DEF HandshakeInv
<1> QED BY <1>1, HandshakeHolds, PTL
-----------------------------------------------------------------------------
\* stop() has a driver until it releases it, which it does past the join.
ReleaseInv ==
  /\ main \in InConnect \cup InStop => driver = "alive"
  /\ main = "release" => event = "dead" \/ leaked

\* stop() destroys the driver only after the event thread has ended, unless a
\* close that failed made it skip the join.
THEOREM DriverIsReleasedLast == Spec => []DriverOutlivesThread
<1> DEFINE Inv == ReleaseInv /\ DriverOutlivesThread
<1>1. Init => Inv
  BY DEF Init, ReleaseInv, DriverOutlivesThread, InConnect, InStop
<1>2. ASSUME Inv, [Next]_vars PROVE Inv'
  <2> USE <1>2 DEF ReleaseInv, DriverOutlivesThread, InConnect, InStop, AtRest,
                   drv, flags, net, evt, rct, conn
  <2>1. CASE Connect
    BY <2>1 DEF Connect
  <2>2. CASE Stop
    BY <2>2 DEF Stop
  <2>3. CASE ConnectThrows
    BY <2>3 DEF ConnectThrows
  <2>4. CASE ConnectSocket
    BY <2>4 DEF ConnectSocket
  <2>5. CASE OnConnect
    BY <2>5 DEF OnConnect
  <2>6. CASE SetRunning
    BY <2>6 DEF SetRunning
  <2>7. CASE ConnectReturns
    BY <2>7 DEF ConnectReturns
  <2>8. CASE Connected
    BY <2>8 DEF Connected
  <2>9. CASE HandshakeTimeout
    BY <2>9 DEF HandshakeTimeout, NextAttempt
  <2>10. CASE Reset
    BY <2>10 DEF Reset, NextAttempt
  <2>11. CASE OnDisconnect
    BY <2>11 DEF OnDisconnect
  <2>12. CASE SetStopping
    BY <2>12 DEF SetStopping
  <2>13. CASE Disconnect
    BY <2>13 DEF Disconnect, CloseSocket
  <2>14. CASE Join
    BY <2>14 DEF Join
  <2>15. CASE Release
    BY <2>15 DEF Release
  <2>16. CASE ThreadStart \/ AwaitRunning
    BY <2>16 DEF ThreadStart, AwaitRunning
  <2>17. CASE CheckMessages \/ CallReceive \/ ReceiveFails
    BY <2>17 DEF CheckMessages, CallReceive, ReceiveFails
  <2>18. CASE ProcessAck \/ ProcessMessage \/ ProcessThrows
    BY <2>18 DEF ProcessAck, ProcessMessage, ProcessThrows
  <2>19. CASE ReceiveError \/ EventCloses \/ ThreadExit \/ ReceiveBytes
    BY <2>19 DEF ReceiveError, EventCloses, CloseSocket, ThreadExit, ReceiveBytes
  <2>20. CASE Respond \/ CheckDriver \/ CallApi \/ Send
    BY <2>20 DEF Respond, CheckDriver, CallApi, Send
  <2>21. CASE (\E c \in Links : LoseLink(c)) \/ UNCHANGED vars
    BY <2>21 DEF LoseLink, vars
  <2> QED
    BY <2>1, <2>2, <2>3, <2>4, <2>5, <2>6, <2>7, <2>8, <2>9, <2>10, <2>11, <2>12, <2>13, <2>14, <2>15, <2>16, <2>17, <2>18, <2>19, <2>20, <2>21
    DEF Next, MainStep, EventStep, ReactorStep
<1>3. Inv => DriverOutlivesThread
  OBVIOUS
<1> QED BY <1>1, <1>2, <1>3, PTL DEF Spec
-----------------------------------------------------------------------------
\* Connections are numbered in the order they are opened, nobody knows of one
\* that is not open yet, and the first attempt opens one at most.
FirstInv ==
  /\ calls = 0 => opened = 0 /\ main \notin InConnect
  /\ main = "attempt" /\ ~Retried => opened = 0
  /\ ~Retried => opened <= 1
  /\ sock <= opened /\ reading <= opened
  /\ \A c \in acked : c <= opened

\* Every step of the three threads keeps FirstInv.
LEMMA FirstStep ==
  ASSUME TInv, FirstInv, [Next]_vars
  PROVE  FirstInv'
<1> USE DEF TInv, TypeOK, FirstInv, Retried, ReadInv, Links, NoLink, InConnect, InStop, AtRest,
            drv, flags, net, evt, rct, conn
<1>1. CASE Connect
  BY <1>1 DEF Connect
<1>2. CASE Stop
  BY <1>2 DEF Stop
<1>3. CASE ConnectThrows
  BY <1>3 DEF ConnectThrows
<1>4. CASE ConnectSocket
  BY <1>4 DEF ConnectSocket
<1>5. CASE OnConnect
  BY <1>5 DEF OnConnect
<1>6. CASE SetRunning
  BY <1>6 DEF SetRunning
<1>7. CASE ConnectReturns
  BY <1>7 DEF ConnectReturns
<1>8. CASE Connected
  BY <1>8 DEF Connected
<1>9. CASE HandshakeTimeout
  BY <1>9 DEF HandshakeTimeout, NextAttempt
<1>10. CASE Reset
  BY <1>10 DEF Reset, NextAttempt
<1>11. CASE OnDisconnect
  BY <1>11 DEF OnDisconnect
<1>12. CASE SetStopping
  BY <1>12 DEF SetStopping
<1>13. CASE Disconnect
  BY <1>13 DEF Disconnect, CloseSocket
<1>14. CASE Join
  BY <1>14 DEF Join
<1>15. CASE Release
  BY <1>15 DEF Release
<1>16. CASE ThreadStart \/ AwaitRunning \/ CheckMessages \/ CallReceive
  BY <1>16 DEF ThreadStart, AwaitRunning, CheckMessages, CallReceive
<1>17. CASE ReceiveFails \/ ProcessMessage \/ ProcessThrows
  BY <1>17 DEF ReceiveFails, ProcessMessage, ProcessThrows
<1>18. CASE ProcessAck
  BY <1>18 DEF ProcessAck
<1>19. CASE ReceiveError \/ EventCloses \/ ThreadExit \/ ReceiveBytes
  <2>1. /\ sock' = sock \/ sock' = NoLink
        /\ UNCHANGED <<main, calls, attempts, opened, reading, acked>>
    BY <1>19 DEF ReceiveError, EventCloses, ThreadExit, ReceiveBytes, CloseSocket
  <2> QED BY <2>1
<1>20. CASE Respond \/ CheckDriver \/ CallApi \/ Send
  BY <1>20 DEF Respond, CheckDriver, CallApi, Send
<1>21. CASE (\E c \in Links : LoseLink(c)) \/ UNCHANGED vars
  BY <1>21 DEF LoseLink, vars
<1> QED
  BY <1>1, <1>2, <1>3, <1>4, <1>5, <1>6, <1>7, <1>8, <1>9, <1>10, <1>11, <1>12, <1>13, <1>14, <1>15, <1>16, <1>17, <1>18, <1>19, <1>20, <1>21
  DEF Next, MainStep, EventStep, ReactorStep

\* The first attempt of the first connect() reports a connection only if the
\* gateway acknowledged the very connection the attempt opened.
THEOREM FirstAttemptIsAcknowledged == Spec => UpMeansHandshake
<1>1. Init => TInv /\ FirstInv
  <2> SUFFICES ASSUME Init PROVE TInv /\ FirstInv
    OBVIOUS
  <2>1. TInv
    BY InitTInv
  <2>2. main = "idle" /\ opened = 0 /\ sock = 0 /\ reading = 0 /\ acked = {}
    BY Zenon DEF Init, NoLink
  <2> QED
    BY <2>1, <2>2 DEF FirstInv, InConnect
<1>2. TInv /\ FirstInv /\ [Next]_vars => (TInv /\ FirstInv)'
  BY TypeStep, AttemptStep, FirstStep DEF TInv
<1>3. ASSUME TInv, FirstInv, HandshakeInv, [Next]_vars
      PROVE  [main = "spin" /\ main' = "up" /\ ~Retried => opened \in acked]_vars
  <2> SUFFICES ASSUME main = "spin", main' = "up", ~Retried, [Next]_vars
               PROVE  opened \in acked
    BY <1>3
  <2>1. connected
    BY DEF Next, MainStep, EventStep, ReactorStep, Connect, AtRest, Stop, ConnectThrows,
           ConnectSocket, OnConnect, SetRunning, ConnectReturns, Connected,
           HandshakeTimeout, NextAttempt, Reset, OnDisconnect, SetStopping, Disconnect,
           Join, Release, ThreadStart, AwaitRunning, CheckMessages, CallReceive,
           ReceiveFails, ProcessAck, ProcessMessage, ProcessThrows, ReceiveError,
           EventCloses, ThreadExit, ReceiveBytes, Respond, CheckDriver, CallApi, Send,
           LoseLink, vars
  <2>2. PICK c \in acked : TRUE
    BY <1>3, <2>1 DEF HandshakeInv, AckInv
  <2>3. c \in 1..MaxLinks /\ c <= opened /\ opened <= 1 /\ opened \in Nat
    BY <1>3, <2>2 DEF FirstInv, TInv, TypeOK, Links
  <2> QED
    BY <2>2, <2>3
<1> QED BY <1>1, <1>2, <1>3, HandshakeHolds, PTL DEF Spec, UpMeansHandshake
=============================================================================
