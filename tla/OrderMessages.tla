---------------------------- MODULE OrderMessages ----------------------------
(***************************************************************************)
(* The order messages a reactor's body frame can hold and the gateway      *)
(* calls they turn into: the conversions of ib/api966/marshall_order.cpp   *)
(* and the handlers of ib/api966/ApiMessages.hpp.  RequestReactor sees a   *)
(* message only as one of the body frames "good", "refused" and "bad";     *)
(* Body says which.                                                        *)
(*                                                                         *)
(* A message is a function on the fields that are set in it, a gateway     *)
(* order a record.                                                         *)
(***************************************************************************)
EXTENDS Naturals, Functions

\* The kinds of order message, and the type their handler gives the order.
OrderType == [MarketOrder |-> "MKT", LimitOrder |-> "LMT", StopLimitOrder |-> "STPLMT"]
Kinds     == DOMAIN OrderType

Actions     == {"BUY", "SELL", "SSHORT"}
TimeInForce == {"DAY", "GTC", "IOC"}

\* The prices that a kind carries, in both directions.
Prices(kind) ==
  CASE kind = "MarketOrder"    -> {}
    [] kind = "LimitOrder"     -> {"limit_price"}
    [] kind = "StopLimitOrder" -> {"limit_price", "stop_price"}

\* The message's required fields, and those it may leave out.
RequiredPrices == [MarketOrder    |-> {},
                   LimitOrder     |-> {"limit_price"},
                   StopLimitOrder |-> {"limit_price", "stop_price"}]
Required(kind) == {"id", "action", "contract", "quantity"} \cup RequiredPrices[kind]
Optional       == {"all_or_none", "min_quantity", "outside_rth", "time_in_force"}

IsInitialized(kind, m) == Required(kind) \subseteq DOMAIN m

\* The order as the gateway's library constructs it.
NewOrder ==
  [orderId |-> 0, action |-> "", totalQuantity |-> 0, allOrNone |-> FALSE,
   minQty |-> 0, outsideRth |-> FALSE, tif |-> "", lmtPrice |-> 0, auxPrice |-> 0,
   orderType |-> ""]

\* A field of the message if it is set there, else what is there already.
Or(m, f, value) == IF f \in DOMAIN m THEN m[f] ELSE value

\* Mutant: all_or_none is copied whether it is set or not, and the message's
\* default for it is true.
OrderWithDefaults(kind, m) ==
  [NewOrder EXCEPT
     !.orderId = m["id"], !.action = m["action"], !.totalQuantity = m["quantity"],
     !.allOrNone = Or(m, "all_or_none", TRUE),
     !.minQty = Or(m, "min_quantity", @), !.outsideRth = Or(m, "outside_rth", @),
     !.tif = Or(m, "time_in_force", "IOC"),
     !.lmtPrice = IF "limit_price" \in Prices(kind) THEN m["limit_price"] ELSE @,
     !.auxPrice = IF "stop_price" \in Prices(kind) THEN m["stop_price"] ELSE @]

\* Order << proto::ib::Order.  The optional fields are copied only if they are
\* set, time_in_force always: one left out is the message's default.
ToOrder(kind, m) ==
  [NewOrder EXCEPT
     !.orderId = m["id"], !.action = m["action"], !.totalQuantity = m["quantity"],
     !.allOrNone = Or(m, "all_or_none", @),
     !.minQty = Or(m, "min_quantity", @), !.outsideRth = Or(m, "outside_rth", @),
     !.tif = Or(m, "time_in_force", "IOC"),
     !.lmtPrice = IF "limit_price" \in Prices(kind) THEN m["limit_price"] ELSE @,
     !.auxPrice = IF "stop_price" \in Prices(kind) THEN m["stop_price"] ELSE @]

\* proto::ib::Order << Order.  An action or a time in force that the message has
\* no word for stays unset; the contract is for the caller to add.
FromOrder(kind, o) ==
  LET value == [id |-> o.orderId, action |-> o.action, quantity |-> o.totalQuantity,
                all_or_none |-> o.allOrNone, min_quantity |-> o.minQty,
                outside_rth |-> o.outsideRth, time_in_force |-> o.tif,
                limit_price |-> o.lmtPrice, stop_price |-> o.auxPrice]
      unset == (IF o.action \in Actions THEN {} ELSE {"action"})
               \cup (IF o.tif \in TimeInForce THEN {} ELSE {"time_in_force"})
               \cup ({"limit_price", "stop_price"} \ Prices(kind))
  IN  Restrict(value, DOMAIN value \ unset)

\* R's order list to a message: only what is not the gateway's default is set, a
\* minimal quantity (the empty string, here 0) and the flags included; the prices
\* are added by the caller.
FromList(kind, o) ==
  LET m     == FromOrder(kind, o)
      unset == (IF o.allOrNone THEN {} ELSE {"all_or_none"})
               \cup (IF o.minQty # 0 THEN {} ELSE {"min_quantity"})
               \cup (IF o.outsideRth THEN {} ELSE {"outside_rth"})
  IN  Restrict(m, DOMAIN m \ unset)

\* Contract << proto::ib::Contract as far as an order sees it: it fails for a
\* known option that lacks one of its terms (ContractManager has the details).
Converts(contract) == contract # "bare_option"

\* callApi of the three order messages: the calls of placeOrder it makes.
Placed(kind, m) ==
  IF IsInitialized(kind, m) /\ Converts(m["contract"])
    THEN {[ToOrder(kind, m) EXCEPT !.orderType = OrderType[kind]]}
    ELSE {}

\* callApi of CancelOrder: the ids cancelOrder is called with, none refused.
Cancelled(m) == {m["id"]}

\* The body frame that a message is to the reactor.
Body(kind, m) ==
  CASE ~IsInitialized(kind, m)                                   -> "bad"
    [] IsInitialized(kind, m) /\ Placed(kind, m) = {}            -> "refused"
    [] OTHER                                                     -> "good"
CancelBody(m) == IF "id" \in DOMAIN m /\ Cancelled(m) # {} THEN "good" ELSE "bad"
-----------------------------------------------------------------------------
(***************************************************************************)
(* Instances: all orders and messages over small sets of values.           *)
(***************************************************************************)
Orders ==
  [orderId : {1}, action : Actions \cup {""}, totalQuantity : {100}, allOrNone : BOOLEAN,
   minQty : {0, 50}, outsideRth : BOOLEAN, tif : TimeInForce \cup {"", "GTD"},
   lmtPrice : {0, 7}, auxPrice : {0, 8}, orderType : {""}]

\* Messages that leave out some optional fields, or one required field.
Messages(kind) ==
  LET full == [id |-> 1, action |-> "SELL", contract |-> "stock", quantity |-> 100,
               all_or_none |-> FALSE, min_quantity |-> 50, outside_rth |-> TRUE,
               time_in_force |-> "GTC", limit_price |-> 7, stop_price |-> 8]
      fields == Required(kind) \cup Optional
      left   == {fields \ S : S \in SUBSET Optional} \cup {fields \ {f} : f \in fields}
      sparse == {Restrict(full, D) : D \in left}
  IN  sparse \cup {[Restrict(full, fields) EXCEPT !["contract"] = "bare_option"],
                   [Restrict(full, fields) EXCEPT !["all_or_none"] = TRUE],
                   [Restrict(full, fields) EXCEPT !["time_in_force"] = "DAY"]}

\* The requests these messages are to the reactor.
OrderShapes ==
  UNION {{<<"order", Body(kind, m)>> : m \in Messages(kind)} : kind \in Kinds}
CancelShapes == {<<"order", CancelBody(m)>> : m \in {[id |-> 1], [quantity |-> 1]}}

\* An order, the gateway's or R's, converted to a message and placed is the order it
\* was, with the type of its kind and without the prices its kind does not carry; a
\* time in force without a word in the message is IOC when it arrives, and an unknown
\* action makes a message nobody accepts.
OrderArrives(kind, o) ==
  \A converted \in {FromOrder(kind, o), FromList(kind, o)} :
    LET m == [f \in DOMAIN converted \cup {"contract"} |->
                IF f = "contract" THEN "stock" ELSE converted[f]]
    IN  IF o.action \in Actions
          THEN Placed(kind, m) =
                 {[o EXCEPT !.orderType = OrderType[kind],
                            !.tif = IF @ \in TimeInForce THEN @ ELSE "IOC",
                            !.lmtPrice = IF kind = "MarketOrder" THEN 0 ELSE @,
                            !.auxPrice = IF kind = "StopLimitOrder" THEN @ ELSE 0]}
          ELSE Body(kind, m) = "bad"

\* What a message sets is what is placed, and what it leaves out is the gateway's
\* default, not the message's (all_or_none), time_in_force excepted.
MessageIsPlaced(kind, m) ==
  \A o \in Placed(kind, m) :
    LET back    == FromOrder(kind, o)
        default == FromOrder(kind, [NewOrder EXCEPT !.tif = "IOC"])
    IN  /\ \A f \in DOMAIN m \ {"contract"} : back[f] = m[f]
        /\ \A f \in Optional \ DOMAIN m : back[f] = default[f]

\* What the conversions promise each other.
ConversionsAgree ==
  \A kind \in Kinds : /\ \A o \in Orders : OrderArrives(kind, o)
                      /\ \A m \in Messages(kind) : MessageIsPlaced(kind, m)
=============================================================================
