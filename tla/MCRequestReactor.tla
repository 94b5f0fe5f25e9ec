-------------------------- MODULE MCRequestReactor --------------------------
(* Instances of RequestReactor for TLC. *)
EXTENDS RequestReactor, OrderMessages

\* What clients send, the order messages in all their forms and a body without a
\* key included, then what any other ZMQ peer can: requests with more than two
\* frames, of a type createMessage does not know, with an empty frame.
RegularShapes ==
  OrderShapes \cup CancelShapes \cup
  {<<"order">>, <<"other">>, <<"good">>, <<"other", "good">>, <<"other", "order", "good">>}
LongShapes    == {<<"order", "good", "bad">>, <<"order", "bad", "order", "good">>}
UnknownShapes == {<<"unknown", "good">>}
EmptyShapes   == {<<"order", "empty">>, <<"empty", "order", "good">>}

AllShapes == RegularShapes \cup LongShapes \cup UnknownShapes \cup EmptyShapes

\* Keys of a reactor whose application supports a type createMessage lacks.
SupportedKeys == {"order", "unknown"}
OrderKeys     == {"order"}

\* An order survives its message: when the loop calls the API with a body that it
\* takes, whichever order message that is, the order placed is the one that was
\* sent, field by field, and where the message is silent the gateway's default
\* (ApiMessages.hpp's callApi over marshall_order.cpp's conversions).
OrderSurvives == pc = "call" /\ body = "good" => ConversionsAgree
=============================================================================
