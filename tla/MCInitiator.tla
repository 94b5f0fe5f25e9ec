---------------------------- MODULE MCInitiator -----------------------------
(* Programs for Initiator: their sessions, outbound channels and varzs. *)
EXTENDS Initiator, TLC

Varz(name, file) == [name |-> name, type |-> "int64", file |-> file]

Ok == {Varz("publish_count", "MarketEventDispatcher.cpp")}

\* Two sessions that count together, and one signal; or two signals.
Busy == [maxEvents |-> 2, maxPages |-> 1, maxSignals |-> 1]
Idle == [maxEvents |-> 1, maxPages |-> 0, maxSignals |-> 2]

MCPrograms ==
  {Busy @@ [connectors |-> <<"100", "101">>, outbound |-> [c \in {0, 1} |-> "tcp:7700"],
            publish |-> TRUE, varzs |-> Ok],
   Idle @@ [connectors |-> <<"100">>, outbound |-> [c \in {0, 1} |-> "tcp:7700"],
            publish |-> TRUE, varzs |-> Ok],
   Idle @@ [connectors |-> <<"100", "100">>, outbound |-> [c \in {0} |-> "tcp:7701"],
            publish |-> FALSE, varzs |-> Ok],
   Busy @@ [connectors |-> <<"100">>, outbound |-> [c \in {1} |-> "tcp:7700"],
            publish |-> TRUE, varzs |-> Ok],
   Busy @@ [connectors |-> <<"100">>, publish |-> TRUE, varzs |-> Ok,
            outbound |-> [c \in {0, 1} |-> IF c = 0 THEN "tcp:7700" ELSE "tcp:80"]],
   Idle @@ [connectors |-> <<None>>, outbound |-> [c \in {0} |-> "tcp:7700"],
            publish |-> TRUE, varzs |-> Ok \cup {Varz("publish_count", "copy.cpp")}],
   Idle @@ [connectors |-> <<"100", None>>, outbound |-> [c \in {0} |-> "tcp:7700"],
            publish |-> TRUE, varzs |-> Ok]}
=============================================================================
