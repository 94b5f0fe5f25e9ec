---------------------------- MODULE OrderManager ----------------------------
(***************************************************************************)
(* The OrderManager of service/OrderManager.cpp: a client thread sends     *)
(* orders and cancels over a ZMQ PUSH socket and gets a future             *)
(* (async_response) for each; a listener thread (message_processor)        *)
(* receives OrderStatus messages from the execution manager and completes  *)
(* the future that pendingOrders_ holds for the order id.  Threads that    *)
(* call get() on a future wait on its condition variable.                  *)
(*                                                                         *)
(* The execution manager and the sockets are the environment: the PUSH     *)
(* pipe and the subscription are FIFO queues, and a subscription may drop. *)
(***************************************************************************)
EXTENDS Naturals, Sequences, FiniteSets

CONSTANTS Requests,   \* calls of OrderManager::send the clients make
          Orders,     \* order ids
          OrderOf,    \* OrderOf[r]: the key send() registers r under; a cancel
                      \* has the key of the order it cancels
          NoRequest,  \* a key that pendingOrders_ does not hold
          MaxStatus,  \* bound: statuses the execution manager publishes per order
          Noise,      \* other messages the subscription lets through
          MaxNoise,   \* bound: how many of them arrive
          Lossy       \* TRUE if sends can fail and subscriptions can drop

NoiseKinds == {"garbage", "stop", "unknown", "frames"}

ASSUME OrderManagerAssumption ==
  /\ OrderOf \in [Requests -> Orders]
  /\ NoRequest \notin Requests
  /\ MaxStatus \in Nat \ {0}
  /\ MaxNoise \in Nat
  /\ Noise \subseteq NoiseKinds
  /\ Lossy \in BOOLEAN

VARIABLES
  pc,             \* progress of the call send(r)
  pipe,           \* messages in the PUSH socket to the execution manager
  working,        \* orders the execution manager has received, at first those
                  \* of other clients, whose statuses it publishes as well
  published,      \* published[o]: number of statuses published for o
  inbox,          \* messages queued at the listener's SUB socket
  noise,          \* number of noise messages so far
  pendingOrders,  \* pendingOrders_
  result,         \* result_ of r's future: the number of a status, 0 for NULL
  listener,       \* the message_processor thread
  waiter          \* the thread in get() of r's future

vars == <<pc, pipe, working, published, inbox, noise, pendingOrders, result,
          listener, waiter>>

client == <<pc, pipe>>
em     == <<working, published, noise>>

Statuses == [kind : {"status"}, order : Orders, n : 1..MaxStatus]
Messages == Statuses \cup [kind : Noise]

Status(o, n) == [kind |-> "status", order |-> o, n |-> n]

TypeOK ==
  /\ pc \in [Requests -> {"new", "sent", "done"}]
  /\ pipe \in Seq(Requests)
  /\ working \subseteq Orders
  /\ published \in [Orders -> 0..MaxStatus]
  /\ inbox \in Seq(Messages)
  /\ noise \in 0..MaxNoise
  /\ pendingOrders \in [Orders -> Requests \cup {NoRequest}]
  /\ result \in [Requests -> 0..MaxStatus]
  /\ listener \in {"running", "stopped"}
  /\ waiter \in [Requests -> {"idle", "waiting", "woken", "returned"}]

Init ==
  /\ pc = [r \in Requests |-> "new"]
  /\ pipe = << >>
  /\ working = Orders \ {OrderOf[r] : r \in Requests}
  /\ published = [o \in Orders |-> 0]
  /\ inbox = << >>
  /\ noise = 0
  /\ pendingOrders = [o \in Orders |-> NoRequest]
  /\ result = [r \in Requests |-> 0]
  /\ listener = "running"
  /\ waiter = [r \in Requests |-> "idle"]
-----------------------------------------------------------------------------
(***************************************************************************)
(* The client's thread.  em_socket_ is not thread safe, so one thread makes*)
(* all the calls: no send() starts while another is under way.             *)
(***************************************************************************)

\* atp::send of the order; a zmq error is caught there and the call goes on.
Send(r) ==
  /\ \A q \in Requests : pc[q] # "sent"
  /\ pc[r] = "new"
  /\ pc' = [pc EXCEPT ![r] = "sent"]
  /\ \/ pipe' = Append(pipe, r)
     \/ Lossy /\ UNCHANGED pipe
  /\ UNCHANGED <<em, inbox, pendingOrders, result, listener, waiter>>

\* Under the unique lock: pendingOrders_[key] = status, and the call returns.
Register(r) ==
  /\ pc[r] = "sent"
  /\ pc' = [pc EXCEPT ![r] = "done"]
  /\ pendingOrders' = [pendingOrders EXCEPT ![OrderOf[r]] = r]
  /\ UNCHANGED <<pipe, em, inbox, result, listener, waiter>>
-----------------------------------------------------------------------------
(***************************************************************************)
(* The execution manager, as this component sees it.                       *)
(***************************************************************************)

\* The reactor takes a request from the pipe and passes it to the gateway.
Receive ==
  /\ pipe # << >>
  /\ pipe' = Tail(pipe)
  /\ working' = working \cup {OrderOf[Head(pipe)]}
  /\ UNCHANGED <<pc, published, noise, inbox, pendingOrders, result, listener, waiter>>

\* EWrapper::orderStatus publishes the next status of an order it works on.
Publish(o) ==
  /\ o \in working
  /\ published[o] < MaxStatus
  /\ published' = [published EXCEPT ![o] = @ + 1]
  /\ \/ inbox' = Append(inbox, Status(o, published[o] + 1))
     \/ Lossy /\ UNCHANGED inbox
  /\ UNCHANGED <<client, working, noise, pendingOrders, result, listener, waiter>>

\* Any other message that matches one of the subscriptions.
PublishNoise(k) ==
  /\ noise < MaxNoise
  /\ noise' = noise + 1
  /\ inbox' = Append(inbox, [kind |-> k])
  /\ UNCHANGED <<client, working, published, pendingOrders, result, listener, waiter>>
-----------------------------------------------------------------------------
(***************************************************************************)
(* The listener thread: one turn of message_processor's loop each.         *)
(***************************************************************************)

\* Mutant: set_response without notify_all.
SetResponseSilently(r, n) ==
  /\ result' = [result EXCEPT ![r] = n]
  /\ UNCHANGED waiter

\* async_response::set_response, with its notify_all.
SetResponse(r, n) ==
  /\ result' = [result EXCEPT ![r] = n]
  /\ waiter' = [waiter EXCEPT ![r] = IF @ = "waiting" THEN "woken" ELSE @]

\* Mutant: the entry is erased from pendingOrders_ once a status was delivered.
HandleOrderStatusErasing ==
  /\ listener = "running"
  /\ inbox # << >>
  /\ Head(inbox).kind = "status"
  /\ inbox' = Tail(inbox)
  /\ LET o == Head(inbox).order
     IN  IF pendingOrders[o] \in Requests
           THEN /\ SetResponse(pendingOrders[o], Head(inbox).n)
                /\ pendingOrders' = [pendingOrders EXCEPT ![o] = NoRequest]
           ELSE UNCHANGED <<result, waiter, pendingOrders>>
  /\ UNCHANGED <<client, em, listener>>

\* Mutant: the status completes a pending future without comparing order ids.
HandleOrderStatusAnyKey ==
  /\ listener = "running"
  /\ inbox # << >>
  /\ Head(inbox).kind = "status"
  /\ inbox' = Tail(inbox)
  /\ \E o \in Orders :
       LET r == pendingOrders[o]
       IN  IF r \in Requests
             THEN SetResponse(r, Head(inbox).n)
             ELSE UNCHANGED <<result, waiter>>
  /\ UNCHANGED <<client, em, pendingOrders, listener>>

\* A status is delivered to the future registered for its order, if there is one.
HandleOrderStatus ==
  /\ listener = "running"
  /\ inbox # << >>
  /\ Head(inbox).kind = "status"
  /\ inbox' = Tail(inbox)
  /\ LET r == pendingOrders[Head(inbox).order]
     IN  IF r \in Requests
           THEN SetResponse(r, Head(inbox).n)
           ELSE UNCHANGED <<result, waiter>>
  /\ UNCHANGED <<client, em, pendingOrders, listener>>

\* A payload that does not parse, or a message that is not two frames, is dropped.
DropMessage ==
  /\ listener = "running"
  /\ inbox # << >>
  /\ Head(inbox).kind \in {"garbage", "frames"}
  /\ inbox' = Tail(inbox)
  /\ UNCHANGED <<client, em, pendingOrders, result, listener, waiter>>

\* handleStop, and a topic that only has a handler's key as a prefix, end the loop.
StopListener ==
  /\ listener = "running"
  /\ inbox # << >>
  /\ Head(inbox).kind \in {"stop", "unknown"}
  /\ inbox' = Tail(inbox)
  /\ listener' = "stopped"
  /\ UNCHANGED <<client, em, pendingOrders, result, waiter>>
-----------------------------------------------------------------------------
(***************************************************************************)
(* Threads that hold a future: async_response::get.                        *)
(***************************************************************************)

\* get() of a ready future returns at once, otherwise it waits.
Get(r) ==
  /\ pc[r] = "done"
  /\ waiter[r] = "idle"
  /\ waiter' = [waiter EXCEPT ![r] = IF result[r] # 0 THEN "returned" ELSE "waiting"]
  /\ UNCHANGED <<client, em, inbox, pendingOrders, result, listener>>

\* The wait ends without a notification: timed_wait's timeout, or a spurious
\* wakeup.
WakeUp(r) ==
  /\ waiter[r] = "waiting"
  /\ waiter' = [waiter EXCEPT ![r] = "woken"]
  /\ UNCHANGED <<client, em, inbox, pendingOrders, result, listener>>

\* The waiter has the lock again and returns *result_, whatever it is: there is
\* no second look at is_ready().
Return(r) ==
  /\ waiter[r] = "woken"
  /\ waiter' = [waiter EXCEPT ![r] = "returned"]
  /\ UNCHANGED <<client, em, inbox, pendingOrders, result, listener>>
-----------------------------------------------------------------------------
Listen == HandleOrderStatus \/ DropMessage \/ StopListener

Next ==
  \/ \E r \in Requests : \/ Send(r) \/ Register(r)
                         \/ Get(r) \/ WakeUp(r) \/ Return(r)
  \/ Receive
  \/ \E o \in Orders : Publish(o)
  \/ \E k \in Noise : PublishNoise(k)
  \/ Listen

Spec == Init /\ [][Next]_vars

(***************************************************************************)
(* Threads that can run do run: a started send() finishes, the listener    *)
(* keeps reading, a woken waiter gets the lock.  Nothing makes clients     *)
(* call send() or get(), and nothing makes noise arrive.                   *)
(***************************************************************************)
ThreadFairness ==
  /\ WF_vars(Listen)
  /\ \A r \in Requests : WF_vars(Register(r)) /\ WF_vars(Return(r))

FairSpec == Spec /\ ThreadFairness

(***************************************************************************)
(* An execution manager that takes every request and answers it.           *)
(***************************************************************************)
AnsweringSpec ==
  /\ FairSpec
  /\ WF_vars(Receive)
  /\ \A o \in Orders : WF_vars(Publish(o))
-----------------------------------------------------------------------------
(***************************************************************************)
(* Properties                                                              *)
(***************************************************************************)

\* r's future is the one pendingOrders_ holds for its order id.
Holds(r) == pendingOrders[OrderOf[r]] = r

\* A status of r's order waits at the listener's socket.
StatusQueued(r) ==
  \E i \in 1..Len(inbox) :
    inbox[i].kind = "status" /\ inbox[i].order = OrderOf[r]

\* set_response and get() cannot miss each other: no thread waits on a future
\* that already holds a status.
NoLostWakeup ==
  \A r \in Requests : waiter[r] = "waiting" => result[r] = 0

\* The i-th queued message, a status, was published, is newer than what the
\* futures of its order hold and than the statuses queued before it.
FreshAt(i) ==
  /\ inbox[i].n <= published[inbox[i].order]
  /\ \A r \in Requests : OrderOf[r] = inbox[i].order => result[r] < inbox[i].n
  /\ \A j \in 1..(i - 1) :
       inbox[j].kind = "status" /\ inbox[j].order = inbox[i].order
         => inbox[j].n < inbox[i].n

\* Statuses still queued for an order are newer than the one its future holds,
\* and are queued in the order the execution manager published them, so that
\* overwriting result_ never replaces a status by an older one.
QueueIsFresh ==
  \A i \in 1..Len(inbox) : inbox[i].kind = "status" => FreshAt(i)

\* A future holds a status that the execution manager published for the
\* future's own order.
AnswerIsGenuine ==
  \A r \in Requests : result[r] <= published[OrderOf[r]]

\* The component implements the board: statuses reach only the last request
\* registered for their order, in publication order.
Board == INSTANCE OrderBoard WITH holder <- pendingOrders, answer <- result
ImplementsBoard == Board!Spec

\* A get() on a registered future for which a status is queued returns, unless
\* the listener stops or another request takes the order id first.
QueuedStatusEndsGet ==
  \A r \in Requests :
    waiter[r] = "waiting" /\ Holds(r) /\ StatusQueued(r)
      ~> waiter[r] = "returned" \/ listener = "stopped" \/ ~Holds(r)

\* OrderManagerTest: after a send() that the execution manager answers, the
\* future becomes ready.
AnsweredRequestIsReady ==
  \A r \in Requests : pc[r] = "sent" ~> result[r] # 0
=============================================================================
