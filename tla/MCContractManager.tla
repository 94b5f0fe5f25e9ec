-------------------------- MODULE MCContractManager -------------------------
(* Contracts, and clients with the symbols and flags they are started with. *)
EXTENDS ContractManager, TLC

Spy == <<"SPY", "STK">>
Goog == <<"GOOG", "STK">>
Spx == <<"SPX", "IND">>
Call == <<"SPY", "OPT", "20121216", "130", "C">>

MCKnown ==
  {Contract(1, "SPY", "STK", "", "0", "", "USD"),
   Contract(2, "GOOG", "STK", "", "0", "", "CAD"),
   Contract(3, "SPX", "IND", "", "0", "", "USD"),
   Contract(4, "SPX", "IND", "", "0", "", "EUR"),
   Contract(5, "SPY", "OPT", "20121216", "130", "C", "USD")}

Flags == [subscribe |-> TRUE, unsubscribe |-> FALSE, depth |-> FALSE, optionChain |-> FALSE]

Alone(symbols) == [clients |-> {"ds1"}, symbols |-> [c \in Clients |-> symbols]]

MCScenarios ==
  \* two clients whose requests have the same numbers
  {[clients |-> Clients, timed |-> timed, subscribe |-> ~timed,
    symbols |-> [c \in Clients |-> IF c = "ds1" THEN <<Spy>> ELSE <<Spx>>]] @@ Flags :
     timed \in BOOLEAN}
  \* a chain, which has the option that comes next
  \cup {("optionChain" :> TRUE) @@ ("depth" :> TRUE) @@ ("timed" :> timed)
          @@ Alone(<<Spy, Call>>) @@ Flags : timed \in BOOLEAN}
  \* symbols that are not known, or not understood
  \cup {("unsubscribe" :> TRUE) @@ ("timed" :> FALSE)
          @@ Alone(<<Goog, Call, <<"SPY", "OPT", "130", "C", "20121216">>, <<"SPY">>, Spy>>) @@ Flags,
        ("subscribe" :> FALSE) @@ ("timed" :> TRUE) @@ Alone(<<Spx, Spx>>) @@ Flags}
=============================================================================
