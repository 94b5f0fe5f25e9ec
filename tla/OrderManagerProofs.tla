------------------------- MODULE OrderManagerProofs -------------------------
(***************************************************************************)
(* Proofs that the OrderManager keeps its invariants and implements the    *)
(* order board, for every set of requests and orders and every bound.      *)
(***************************************************************************)
EXTENDS OrderManager, TLAPS

USE OrderManagerAssumption

\* A message of the inbox is a status with an order and a number, or noise.
LEMMA MessageShape ==
  ASSUME NEW msg \in Messages, msg.kind = "status"
  PROVE  msg.order \in Orders /\ msg.n \in 1..MaxStatus
BY DEF Messages, Statuses, NoiseKinds

\* A published status is a message.
LEMMA StatusIsMessage ==
  ASSUME NEW o \in Orders, NEW n \in 1..MaxStatus
  PROVE  /\ Status(o, n) \in Messages
         /\ Status(o, n).kind = "status"
         /\ Status(o, n).order = o
         /\ Status(o, n).n = n
BY DEF Messages, Statuses, Status

\* One step of any thread keeps the state well typed.
LEMMA TypeStep ==
  ASSUME TypeOK, [Next]_vars
  PROVE  TypeOK'
<1> USE DEF TypeOK
<1>1. ASSUME NEW r \in Requests, Send(r) PROVE TypeOK'
  <2>1. pipe' = Append(pipe, r) \/ pipe' = pipe
    BY <1>1, Zenon DEF Send
  <2>2. Append(pipe, r) \in Seq(Requests)
    OBVIOUS
  <2>5. pipe' \in Seq(Requests)
    BY <2>1, <2>2, Zenon
  <2>3. pc' = [pc EXCEPT ![r] = "sent"]
    BY <1>1 DEF Send
  <2>4. UNCHANGED <<em, inbox, pendingOrders, result, listener, waiter>>
    BY <1>1, Zenon DEF Send
  <2> QED BY <2>3, <2>4, <2>5 DEF em
<1>2. ASSUME NEW r \in Requests, Register(r) PROVE TypeOK'
  BY <1>2 DEF Register, em
<1>3. ASSUME NEW r \in Requests, WakeUp(r) PROVE TypeOK'
  BY <1>3 DEF WakeUp, client, em
<1>4. ASSUME NEW r \in Requests, Return(r) PROVE TypeOK'
  BY <1>4 DEF Return, client, em
<1>5. ASSUME NEW r \in Requests, Get(r) PROVE TypeOK'
  BY <1>5 DEF Get, client, em
<1>6. CASE Receive
  BY <1>6 DEF Receive
<1>7. ASSUME NEW o \in Orders, Publish(o) PROVE TypeOK'
  <2>1. published[o] + 1 \in 1..MaxStatus
    BY <1>7 DEF Publish
  <2>2. Append(inbox, Status(o, published[o] + 1)) \in Seq(Messages)
    BY <2>1, StatusIsMessage
  <2>3. inbox' \in Seq(Messages)
    BY <1>7, <2>2 DEF Publish
  <2> QED BY <1>7, <2>1, <2>3 DEF Publish, client
<1>8. ASSUME NEW k \in Noise, PublishNoise(k) PROVE TypeOK'
  <2>1. [kind |-> k] \in Messages
    BY DEF Messages
  <2>2. inbox' \in Seq(Messages)
    BY <1>8, <2>1 DEF PublishNoise
  <2> QED BY <1>8, <2>2 DEF PublishNoise, client
<1>9. CASE Listen
  <2>1. ASSUME HandleOrderStatus PROVE TypeOK'
    <3>1. Head(inbox) \in Messages /\ Tail(inbox) \in Seq(Messages)
      BY <2>1 DEF HandleOrderStatus
    <3>2. Head(inbox).n \in 0..MaxStatus
      BY <3>1, <2>1, MessageShape DEF HandleOrderStatus
    <3> QED BY <2>1, <3>1, <3>2 DEF HandleOrderStatus, SetResponse, client, em
  <2>2. ASSUME DropMessage PROVE TypeOK'
    BY <2>2 DEF DropMessage, client, em
  <2>3. ASSUME StopListener PROVE TypeOK'
    BY <2>3 DEF StopListener, client, em
  <2> QED BY <1>9, <2>1, <2>2, <2>3 DEF Listen
<1>10. CASE UNCHANGED vars
  BY <1>10 DEF vars
<1> QED BY <1>1, <1>2, <1>3, <1>4, <1>5, <1>6, <1>7, <1>8, <1>9, <1>10 DEF Next

\* Every step of every thread keeps the state well typed: in particular the
\* futures hold NULL or a published status number.
THEOREM TypeCorrect == Spec => []TypeOK
<1>1. Init => TypeOK
  BY DEF Init, TypeOK
<1> QED BY <1>1, TypeStep, PTL DEF Spec
-----------------------------------------------------------------------------
(***************************************************************************)
(* The inductive invariant.  QueueIsFresh and AnswerIsGenuine support each *)
(* other: a newly published status is newer than every queued and every    *)
(* delivered one because the delivered ones are genuine.  Registered ties  *)
(* pendingOrders_ to the requests: an entry was put there by a finished    *)
(* send() for that key, and nothing reaches a future before that.          *)
(***************************************************************************)
Registered ==
  /\ \A o \in Orders : pendingOrders[o] \in Requests =>
       OrderOf[pendingOrders[o]] = o /\ pc[pendingOrders[o]] = "done"
  /\ \A r \in Requests : pc[r] # "done" => result[r] = 0

IInv == TypeOK /\ Registered /\ QueueIsFresh /\ AnswerIsGenuine

\* The head of a queue and the place its tail keeps in it.
LEMMA HeadAndTail ==
  ASSUME inbox \in Seq(Messages), inbox # << >>
  PROVE  /\ Len(inbox) \in Nat \ {0}
         /\ Head(inbox) = inbox[1]
         /\ Tail(inbox) \in Seq(Messages)
         /\ Len(Tail(inbox)) = Len(inbox) - 1
         /\ \A i \in 1..Len(Tail(inbox)) :
              i + 1 \in 1..Len(inbox) /\ Tail(inbox)[i] = inbox[i + 1]
OBVIOUS

\* A freshness requirement on the queue is kept when its head is removed and
\* nothing else changes.
LEMMA TailIsFresh ==
  ASSUME IInv, inbox # << >>, inbox' = Tail(inbox),
         UNCHANGED <<published, result>>
  PROVE  QueueIsFresh'
BY HeadAndTail DEF IInv, TypeOK, QueueIsFresh, FreshAt

\* A message that is no status may be appended to the queue.
LEMMA NoiseIsFresh ==
  ASSUME IInv, NEW k \in Noise, inbox' = Append(inbox, [kind |-> k]),
         UNCHANGED <<published, result>>
  PROVE  QueueIsFresh'
<1>1. k # "status"
  BY DEF NoiseKinds
<1> QED BY <1>1 DEF IInv, TypeOK, QueueIsFresh, FreshAt

\* A step that leaves the queue, the published statuses and the results alone
\* keeps the queue fresh and the answers genuine.
LEMMA FrameIsFresh ==
  ASSUME IInv, UNCHANGED <<inbox, published, result>>
  PROVE  QueueIsFresh' /\ AnswerIsGenuine'
BY DEF IInv, QueueIsFresh, FreshAt, AnswerIsGenuine

\* The next status of an order is newer than all that was published before.
LEMMA PublishIsFresh ==
  ASSUME IInv, NEW o \in Orders, Publish(o)
  PROVE  QueueIsFresh' /\ AnswerIsGenuine'
<1> DEFINE n == published[o] + 1
<1> USE DEF IInv, TypeOK
<1>1. /\ n \in 1..MaxStatus
      /\ published' = [published EXCEPT ![o] = n]
      /\ result' = result
  BY DEF Publish
<1>2. inbox' = Append(inbox, Status(o, n)) \/ inbox' = inbox
  BY Zenon DEF Publish
<1>3. AnswerIsGenuine'
  BY <1>1 DEF AnswerIsGenuine
<1>4. CASE inbox' = inbox
  <2> SUFFICES ASSUME NEW i \in 1..Len(inbox), inbox[i].kind = "status"
               PROVE  FreshAt(i)'
    BY <1>3, <1>4 DEF QueueIsFresh
  <2>1. inbox[i].order \in Orders /\ inbox[i].n \in 1..MaxStatus
    BY MessageShape
  <2> QED BY <1>1, <1>4, <2>1 DEF QueueIsFresh, FreshAt
<1>5. CASE inbox' = Append(inbox, Status(o, n))
  <2>1. /\ Status(o, n).kind = "status"
        /\ Status(o, n).order = o
        /\ Status(o, n).n = n
    BY <1>1, StatusIsMessage
  <2>2. /\ Len(inbox') = Len(inbox) + 1
        /\ inbox'[Len(inbox) + 1] = Status(o, n)
        /\ \A i \in 1..Len(inbox) : inbox'[i] = inbox[i]
    BY <1>5
  <2> SUFFICES ASSUME NEW i \in 1..Len(inbox'), inbox'[i].kind = "status"
               PROVE  FreshAt(i)'
    BY <1>3 DEF QueueIsFresh
  <2>3. CASE i \in 1..Len(inbox)
    <3>1. inbox'[i] = inbox[i] /\ inbox[i] \in Messages
      BY <2>2, <2>3
    <3>2. inbox[i].order \in Orders /\ inbox[i].n \in 1..MaxStatus
      BY <3>1, MessageShape
    <3>3. \A j \in 1..(i - 1) : inbox'[j] = inbox[j]
      BY <2>2, <2>3
    <3>4. FreshAt(i)
      BY <2>3, <3>1 DEF QueueIsFresh
    <3>5. inbox'[i].n <= published'[inbox'[i].order]
      BY <1>1, <3>1, <3>2, <3>4 DEF FreshAt
    <3>6. \A r \in Requests : OrderOf[r] = inbox'[i].order => result'[r] < inbox'[i].n
      BY <1>1, <3>1, <3>4 DEF FreshAt
    <3>7. \A j \in 1..(i - 1) :
             inbox'[j].kind = "status" /\ inbox'[j].order = inbox'[i].order
               => inbox'[j].n < inbox'[i].n
      BY <3>1, <3>3, <3>4, Zenon DEF FreshAt
    <3> QED BY <3>5, <3>6, <3>7, Zenon DEF FreshAt
  <2>4. CASE i = Len(inbox) + 1
    <3>1. inbox'[i] = Status(o, n)
      BY <2>2, <2>4
    <3>2. \A r \in Requests : OrderOf[r] = o => result[r] < n
      BY DEF AnswerIsGenuine
    <3>3. ASSUME NEW j \in 1..Len(inbox), inbox[j].kind = "status", inbox[j].order = o
          PROVE  inbox[j].n < n
      <4>1. inbox[j] \in Messages
        OBVIOUS
      <4>2. inbox[j].n \in 1..MaxStatus
        BY <4>1, <3>3, MessageShape
      <4>3. inbox[j].n <= published[o]
        BY <3>3 DEF QueueIsFresh, FreshAt
      <4> QED BY <4>2, <4>3
    <3>4. \A j \in 1..(i - 1) :
             inbox'[j].kind = "status" /\ inbox'[j].order = o => inbox'[j].n < n
      <4>1. i - 1 = Len(inbox)
        BY <2>4
      <4> QED BY <2>2, <3>3, <4>1
    <3> inbox'[i].order = o /\ inbox'[i].n = n
      BY <2>1, <3>1, Zenon
    <3> HIDE DEF n
    <3>5. inbox'[i].n <= published'[inbox'[i].order]
      BY <1>1
    <3>6. \A r \in Requests : OrderOf[r] = inbox'[i].order => result'[r] < inbox'[i].n
      BY <1>1, <3>2, Zenon
    <3>7. \A j \in 1..(i - 1) :
             inbox'[j].kind = "status" /\ inbox'[j].order = inbox'[i].order
               => inbox'[j].n < inbox'[i].n
      BY <3>4, Zenon
    <3> QED BY <3>5, <3>6, <3>7, Zenon DEF FreshAt
  <2> QED BY <2>2, <2>3, <2>4
<1> QED BY <1>2, <1>3, <1>4, <1>5

\* Delivering the head of the queue leaves only newer statuses behind it.
LEMMA DeliveryIsFresh ==
  ASSUME IInv, HandleOrderStatus
  PROVE  QueueIsFresh' /\ AnswerIsGenuine' /\ Registered'
<1> USE DEF IInv, TypeOK
<1> DEFINE h == Head(inbox)
           o == h.order
           r == pendingOrders[o]
<1>1. /\ inbox # << >>
      /\ inbox' = Tail(inbox)
      /\ h \in Messages
      /\ h.kind = "status"
      /\ UNCHANGED <<pc, published, pendingOrders>>
  BY DEF HandleOrderStatus, client, em
<1>2. o \in Orders /\ h.n \in 1..MaxStatus
  BY <1>1, MessageShape
<1>3. CASE r \notin Requests
  <2>1. result' = result
    BY <1>3 DEF HandleOrderStatus
  <2> QED BY <1>1, <2>1, TailIsFresh DEF AnswerIsGenuine, Registered
<1>4. CASE r \in Requests
  <2>1. result' = [result EXCEPT ![r] = h.n]
    BY <1>4 DEF HandleOrderStatus, SetResponse
  <2>2. OrderOf[r] = o /\ pc[r] = "done"
    BY <1>2, <1>4 DEF Registered
  <2>3. h = inbox[1] /\ 1 \in 1..Len(inbox)
    BY <1>1, HeadAndTail
  <2>4. h.n <= published[o]
    BY <1>1, <2>3 DEF QueueIsFresh, FreshAt
  <2>5. AnswerIsGenuine'
    BY <1>1, <1>2, <1>4, <2>1, <2>2, <2>4 DEF AnswerIsGenuine
  <2>6. Registered'
    BY <1>1, <1>4, <2>1, <2>2 DEF Registered
  <2>7. QueueIsFresh'
    <3> SUFFICES ASSUME NEW i \in 1..Len(inbox'), inbox'[i].kind = "status"
                 PROVE  FreshAt(i)'
      BY DEF QueueIsFresh
    <3>1. /\ i + 1 \in 1..Len(inbox)
          /\ inbox'[i] = inbox[i + 1]
          /\ \A j \in 1..(i - 1) : j + 1 \in 1..i /\ inbox'[j] = inbox[j + 1]
      BY <1>1, HeadAndTail
    <3>2. FreshAt(i + 1)
      BY <3>1 DEF QueueIsFresh
    <3>3. inbox[i + 1].order = o => h.n < inbox[i + 1].n
      <4>1. 1 \in 1..((i + 1) - 1)
        BY <3>1
      <4>2. inbox[1].kind = "status" /\ inbox[1].order = inbox[i + 1].order
              => inbox[1].n < inbox[i + 1].n
        BY <3>2, <4>1, Zenon DEF FreshAt
      <4> QED BY <1>1, <2>3, <4>2
    <3> QED BY <1>1, <1>4, <2>1, <2>2, <3>1, <3>2, <3>3 DEF FreshAt
  <2> QED BY <2>5, <2>6, <2>7
<1> QED BY <1>3, <1>4

\* One step of any thread keeps the inductive invariant.
LEMMA InvariantStep ==
  ASSUME IInv, [Next]_vars
  PROVE  IInv'
<1>1. TypeOK'
  BY TypeStep DEF IInv
<1>2. Registered' /\ QueueIsFresh' /\ AnswerIsGenuine'
  <2> USE DEF IInv, TypeOK
  <2>1. ASSUME NEW r \in Requests, Send(r) PROVE Registered' /\ QueueIsFresh' /\ AnswerIsGenuine'
    <3>1. pc' = [pc EXCEPT ![r] = "sent"] /\ pc[r] = "new"
      BY <2>1, Zenon DEF Send
    <3>2. UNCHANGED <<inbox, published, pendingOrders, result>>
      BY <2>1, Zenon DEF Send, em
    <3>3. Registered'
      BY <3>1, <3>2 DEF Registered
    <3> QED BY <3>2, <3>3, FrameIsFresh
  <2>2. ASSUME NEW r \in Requests, Register(r) PROVE Registered' /\ QueueIsFresh' /\ AnswerIsGenuine'
    <3>1. UNCHANGED <<inbox, published, result>>
      BY <2>2 DEF Register, em
    <3>2. Registered'
      BY <2>2, <3>1 DEF Register, Registered
    <3> QED BY <3>1, <3>2, FrameIsFresh
  <2>3. ASSUME UNCHANGED <<pc, inbox, published, pendingOrders, result>>
        PROVE  Registered' /\ QueueIsFresh' /\ AnswerIsGenuine'
    BY <2>3, FrameIsFresh DEF Registered
  <2>4. ASSUME NEW r \in Requests, WakeUp(r) \/ Return(r)
        PROVE  Registered' /\ QueueIsFresh' /\ AnswerIsGenuine'
    BY <2>3, <2>4 DEF WakeUp, Return, client, em
  <2>5. ASSUME NEW r \in Requests, Get(r)
        PROVE  Registered' /\ QueueIsFresh' /\ AnswerIsGenuine'
    BY <2>3, <2>5 DEF Get, client, em
  <2>6. CASE Receive
    BY <2>3, <2>6 DEF Receive
  <2>7. ASSUME NEW o \in Orders, Publish(o) PROVE Registered' /\ QueueIsFresh' /\ AnswerIsGenuine'
    <3>1. Registered'
      BY <2>7 DEF Publish, client, Registered
    <3> QED BY <2>7, <3>1, PublishIsFresh
  <2>8. ASSUME NEW k \in Noise, PublishNoise(k) PROVE Registered' /\ QueueIsFresh' /\ AnswerIsGenuine'
    <3>1. UNCHANGED <<pc, published, pendingOrders, result>>
      BY <2>8 DEF PublishNoise, client
    <3>2. QueueIsFresh'
      BY <2>8, <3>1, NoiseIsFresh DEF PublishNoise
    <3> QED BY <3>1, <3>2 DEF Registered, AnswerIsGenuine
  <2>9. CASE HandleOrderStatus
    BY <2>9, DeliveryIsFresh
  <2>10. CASE DropMessage \/ StopListener
    <3>1. /\ inbox # << >>
          /\ inbox' = Tail(inbox)
          /\ UNCHANGED <<pc, published, pendingOrders, result>>
      BY <2>10 DEF DropMessage, StopListener, client, em
    <3> QED BY <3>1, TailIsFresh DEF Registered, AnswerIsGenuine
  <2>11. CASE UNCHANGED vars
    BY <2>3, <2>11 DEF vars
  <2> QED BY <2>1, <2>2, <2>4, <2>5, <2>6, <2>7, <2>8, <2>9, <2>10, <2>11 DEF Next, Listen
<1> QED BY <1>1, <1>2 DEF IInv

\* The inductive invariant holds initially.
LEMMA InvariantInit == Init => IInv
BY DEF Init, IInv, TypeOK, Registered, QueueIsFresh, AnswerIsGenuine

\* Queued statuses are always newer than delivered ones: set_response never
\* replaces a status by an older one.
THEOREM QueueAlwaysFresh == Spec => []QueueIsFresh
<1>1. IInv => QueueIsFresh
  BY DEF IInv
<1> QED BY <1>1, InvariantInit, InvariantStep, PTL DEF Spec

\* A future only ever holds a status the execution manager published for the
\* order the future was registered under.
THEOREM AnswersAlwaysGenuine == Spec => []AnswerIsGenuine
<1>1. IInv => AnswerIsGenuine
  BY DEF IInv
<1> QED BY <1>1, InvariantInit, InvariantStep, PTL DEF Spec
-----------------------------------------------------------------------------
\* set_response and get() exclude each other on the future's mutex, and
\* set_response notifies: no thread waits on a future that has a status.
THEOREM NoWakeupIsLost == Spec => []NoLostWakeup
<1> DEFINE Inv == TypeOK /\ NoLostWakeup
<1>1. Init => Inv
  BY DEF Init, TypeOK, NoLostWakeup
<1>2. ASSUME Inv, [Next]_vars PROVE Inv'
  <2>1. TypeOK'
    BY <1>2, TypeStep
  <2> SUFFICES NoLostWakeup'
    BY <2>1
  <2> USE <1>2 DEF TypeOK, NoLostWakeup
  <2>2. ASSUME UNCHANGED <<waiter, result>> PROVE NoLostWakeup'
    BY <2>2
  <2>3. ASSUME NEW r \in Requests, Send(r) \/ Register(r) PROVE NoLostWakeup'
    <3>1. UNCHANGED <<waiter, result>>
      BY <2>3, Zenon DEF Send, Register
    <3> QED BY <3>1, <2>2
  <2>4. ASSUME NEW r \in Requests, WakeUp(r) PROVE NoLostWakeup'
    BY <2>4 DEF WakeUp
  <2>5. ASSUME NEW r \in Requests, Return(r) PROVE NoLostWakeup'
    BY <2>5 DEF Return
  <2>6. ASSUME NEW r \in Requests, Get(r) PROVE NoLostWakeup'
    BY <2>6 DEF Get
  <2>7. CASE Receive
    BY <2>2, <2>7 DEF Receive
  <2>8. ASSUME NEW o \in Orders, Publish(o) PROVE NoLostWakeup'
    <3>1. UNCHANGED <<waiter, result>>
      BY <2>8, Zenon DEF Publish
    <3> QED BY <3>1, <2>2
  <2>9. ASSUME NEW k \in Noise, PublishNoise(k) PROVE NoLostWakeup'
    BY <2>2, <2>9 DEF PublishNoise
  <2>10. CASE HandleOrderStatus
    <3> DEFINE q == pendingOrders[Head(inbox).order]
    <3>1. CASE q \notin Requests
      BY <2>2, <2>10, <3>1 DEF HandleOrderStatus
    <3>2. CASE q \in Requests
      <4>1. /\ result' = [result EXCEPT ![q] = Head(inbox).n]
            /\ waiter' = [waiter EXCEPT ![q] = IF @ = "waiting" THEN "woken" ELSE @]
        BY <2>10, <3>2, Zenon DEF HandleOrderStatus, SetResponse
      <4>2. waiter'[q] # "waiting"
        BY <3>2, <4>1
      <4>3. \A r \in Requests : r # q => waiter'[r] = waiter[r] /\ result'[r] = result[r]
        BY <4>1
      <4> QED BY <4>2, <4>3
    <3> QED BY <3>1, <3>2
  <2>11. CASE DropMessage \/ StopListener
    <3>1. UNCHANGED <<waiter, result>>
      BY <2>11, Zenon DEF DropMessage, StopListener
    <3> QED BY <3>1, <2>2
  <2>12. CASE UNCHANGED vars
    BY <2>2, <2>12 DEF vars
  <2> QED
    BY <2>3, <2>4, <2>5, <2>6, <2>7, <2>8, <2>9, <2>10, <2>11, <2>12 DEF Next, Listen
<1>3. Inv => NoLostWakeup
  OBVIOUS
<1> QED BY <1>1, <1>2, <1>3, PTL DEF Spec
-----------------------------------------------------------------------------
\* Registering a request is the board's Ask: the request did not hold its
\* order id, and nothing has reached its future.
LEMMA RegisterIsAsk ==
  ASSUME IInv, NEW r \in Requests, Register(r)
  PROVE  Board!Ask(r)
<1>1. OrderOf[r] \in Orders /\ pendingOrders[OrderOf[r]] # r
  BY DEF IInv, Registered, Register
<1>2. result[r] = 0
  BY DEF IInv, Registered, Register
<1> QED BY <1>1, <1>2 DEF Register, Board!Ask

\* Handling a status is the board's Post, or changes nothing on the board.
LEMMA HandleIsPost ==
  ASSUME IInv, HandleOrderStatus
  PROVE  [Board!Next]_Board!vars
<1> USE DEF IInv, TypeOK
<1> DEFINE h == Head(inbox)
           o == h.order
           r == pendingOrders[o]
<1>1. /\ inbox # << >>
      /\ h \in Messages
      /\ h.kind = "status"
      /\ pendingOrders' = pendingOrders
  BY DEF HandleOrderStatus
<1>2. o \in Orders /\ h.n \in 1..MaxStatus
  BY <1>1, MessageShape
<1>3. CASE r \notin Requests
  BY <1>1, <1>3 DEF HandleOrderStatus, Board!vars
<1>4. CASE r \in Requests
  <2>1. result' = [result EXCEPT ![r] = h.n]
    BY <1>4 DEF HandleOrderStatus, SetResponse
  <2>2. OrderOf[r] = o
    BY <1>2, <1>4 DEF Registered
  <2>3. h = inbox[1] /\ 1 \in 1..Len(inbox)
    BY <1>1, HeadAndTail
  <2>4. result[r] < h.n
    BY <1>1, <1>4, <2>2, <2>3 DEF QueueIsFresh, FreshAt
  <2>5. Board!Post(o, h.n)
    BY <1>1, <1>2, <1>4, <2>1, <2>4 DEF Board!Post
  <2> QED BY <1>2, <2>5 DEF Board!Next
<1> QED BY <1>3, <1>4

\* OrderManager implements OrderBoard: a status reaches only the last request
\* registered for its order, in publication order, and a request that lost
\* its order id keeps what it has.
THEOREM Refinement == Spec => ImplementsBoard
<1>1. Init => Board!Init
  BY DEF Init, Board!Init
<1>2. ASSUME IInv, [Next]_vars PROVE [Board!Next]_Board!vars
  <2> USE <1>2
  <2>1. ASSUME UNCHANGED <<pendingOrders, result>> PROVE [Board!Next]_Board!vars
    BY <2>1 DEF Board!vars
  <2>2. ASSUME NEW r \in Requests, Register(r) PROVE [Board!Next]_Board!vars
    BY <2>2, RegisterIsAsk DEF Board!Next
  <2>3. CASE HandleOrderStatus
    BY <2>3, HandleIsPost
  <2>4. ASSUME NEW r \in Requests, Send(r) \/ WakeUp(r) \/ Return(r)
        PROVE  [Board!Next]_Board!vars
    <3>1. UNCHANGED <<pendingOrders, result>>
      BY <2>4, Zenon DEF Send, WakeUp, Return
    <3> QED BY <2>1, <3>1
  <2>5. ASSUME NEW r \in Requests, Get(r)
        PROVE  [Board!Next]_Board!vars
    BY <2>1, <2>5 DEF Get
  <2>6. CASE Receive
    BY <2>1, <2>6 DEF Receive
  <2>7. ASSUME NEW o \in Orders, Publish(o) PROVE [Board!Next]_Board!vars
    <3>1. UNCHANGED <<pendingOrders, result>>
      BY <2>7, Zenon DEF Publish
    <3> QED BY <2>1, <3>1
  <2>8. ASSUME NEW k \in Noise, PublishNoise(k) PROVE [Board!Next]_Board!vars
    BY <2>1, <2>8 DEF PublishNoise
  <2>9. CASE DropMessage \/ StopListener
    BY <2>1, <2>9 DEF DropMessage, StopListener
  <2>10. CASE UNCHANGED vars
    BY <2>1, <2>10 DEF vars
  <2> QED
    BY <2>2, <2>3, <2>4, <2>5, <2>6, <2>7, <2>8, <2>9, <2>10 DEF Next, Listen
<1> QED
  BY <1>1, <1>2, InvariantInit, InvariantStep, PTL DEF Spec, ImplementsBoard, Board!Spec
=============================================================================
