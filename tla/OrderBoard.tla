----------------------------- MODULE OrderBoard -----------------------------
(***************************************************************************)
(* What the OrderManager promises its clients, without threads, sockets or *)
(* locks.  Each order id has at most one holder: the last request made for *)
(* it.  Statuses of an order, numbered in the order the execution manager  *)
(* published them, may be posted to the holder's future; later statuses    *)
(* overwrite earlier ones and a request that lost its order id is never    *)
(* answered again.                                                         *)
(***************************************************************************)
EXTENDS Naturals

CONSTANTS Requests,   \* calls of OrderManager::send
          Orders,     \* order ids
          OrderOf,    \* the order id a request is keyed by
          MaxStatus,  \* statuses published per order
          NoRequest   \* stands for "no holder"

VARIABLES holder,     \* holder[o]: the request that owns order id o
          answer      \* answer[r]: number of the status held by r's future, 0 if NULL

vars == <<holder, answer>>

Init ==
  /\ holder = [o \in Orders |-> NoRequest]
  /\ answer = [r \in Requests |-> 0]

\* A request takes over its order id.
Ask(r) ==
  /\ holder[OrderOf[r]] # r
  /\ answer[r] = 0
  /\ holder' = [holder EXCEPT ![OrderOf[r]] = r]
  /\ UNCHANGED answer

\* A newer status of o is posted to the holder of o.
Post(o, n) ==
  /\ holder[o] \in Requests
  /\ n > answer[holder[o]]
  /\ answer' = [answer EXCEPT ![holder[o]] = n]
  /\ UNCHANGED holder

Next ==
  \/ \E r \in Requests : Ask(r)
  \/ \E o \in Orders, n \in 1..MaxStatus : Post(o, n)

Spec == Init /\ [][Next]_vars
=============================================================================
