--------------------------- MODULE MCOrderManager ---------------------------
(* Instances of OrderManager for TLC. *)
EXTENDS OrderManager, TLC

CONSTANTS r1, r2, o1

\* An order and its cancel; o2, if there is one, is another client's order.
CancelKeys == (r1 :> o1) @@ (r2 :> o1)

\* One order.
OneKey == (r1 :> o1)
=============================================================================
