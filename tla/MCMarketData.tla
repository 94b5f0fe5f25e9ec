---------------------------- MODULE MCMarketData ----------------------------
(* Scenarios for MarketData: who takes part, what is asked for, and the bounds. *)
EXTENDS MarketData

Contract(id, symbol, secType, strike) ==
  [id |-> id, symbol |-> symbol, secType |-> secType, strike |-> strike]

Stock == Contract(2, "SPY", "STK", "0")
Nameless == Contract(0, "GOOG", "STK", "0")
Option == Contract(1, "SPY", "OPT", "130")
Future == Contract(3, "GOOG", "FUT", "0")
Incomplete == Contract(4, "SPY", "OPT", "")
Asked == {Stock, Nameless, Option, Future, Incomplete}
MCContracts == {RContract(c) : c \in Asked}

MCTopics == {<<"SPY", "STK">>}
MCAgentId == [a \in {"mds", "hz"} |-> IF a = "mds" THEN <<"admin:", "mds">> ELSE <<"hz">>]

None_ == [sessions |-> {100}, listeners |-> {}, topics |-> {}, symbols |-> {}, requests |-> {}, ticks |-> {},
          commands |-> {}, ignoreInterrupt |-> TRUE, replay |-> FALSE, changes |-> FALSE,
          callback |-> TRUE, maxRequests |-> 1, maxTicks |-> 0, maxInterrupts |-> 0,
          maxCommands |-> 0]

Data(c) == [feed |-> "data", contract |-> c]

\* Two sessions register contracts while ticks come in.
Registering ==
  ("requests" :> ({Data(c) : c \in Asked} \cup {[feed |-> "depth", contract |-> Stock]}))
  @@ ("sessions" :> {100, 101}) @@ ("ticks" :> {<<"BID", 1>>}) @@ ("maxRequests" :> 4)
  @@ ("maxTicks" :> 2) @@ None_

\* An R process is interrupted, gets data and depth, and commands.
Agent1 ==
  ("requests" :> {Data(Stock), [feed |-> "depth", contract |-> Stock]})
  @@ ("listeners" :> {"mds"}) @@ ("topics" :> {<< >>})
  @@ ("ticks" :> {<<"BID", 1>>}) @@ ("maxRequests" :> 2) @@ ("maxTicks" :> 3)
  @@ ("maxInterrupts" :> 2) @@ None_

Agent2 ==
  ("requests" :> {Data(Stock)}) @@ ("listeners" :> {"mds"})
  @@ ("commands" :> {<<<<"admin:", "mds">>, <<v>>, <<"SPY", "STK">>>> :
                      v \in {"subscribe", "unsubscribe", "stop"}})
  @@ ("ticks" :> {<<"BID", 1>>}) @@ ("maxTicks" :> 2) @@ ("maxInterrupts" :> 1)
  @@ ("maxCommands" :> 2) @@ ("changes" :> TRUE) @@ ("callback" :> FALSE)
  @@ ("ignoreInterrupt" :> FALSE) @@ None_

Agent3 ==
  ("requests" :> {Data(Stock)}) @@ ("listeners" :> {"hz"}) @@ ("topics" :> {<< >>})
  @@ ("commands" :> {<<<<"hz">>, <<"stop">>, << >>>>})
  @@ ("ticks" :> {<<"BID", 1>>}) @@ ("maxTicks" :> 2) @@ ("maxInterrupts" :> 1)
  @@ ("maxCommands" :> 2) @@ None_

\* A watcher of a symbol, and of a prefix of one.
Watcher1 ==
  ("requests" :> {Data(Stock)}) @@ ("listeners" :> {"watcher"})
  @@ ("symbols" :> {<<"SPY", "STK">>}) @@ ("replay" :> TRUE)
  @@ ("ticks" :> {<<"BID", 0>>, <<"BID", 1>>, <<"LAST", 1>>, <<"LAST", 2>>})
  @@ ("maxTicks" :> 3) @@ None_

Watcher2 ==
  ("ticks" :> {<<"BID", 1>>, <<"ASK", 2>>, <<"BID_SIZE", 2>>, <<"LAST_TIMESTAMP", 1>>})
  @@ ("maxTicks" :> 2) @@ ("maxInterrupts" :> 1) @@ Watcher1

Watcher3 ==
  ("symbols" :> {<<"SPY">>}) @@ ("maxTicks" :> 1) @@ Watcher1

MCScenarios == {Registering, Agent1, Agent2, Agent3, Watcher1, Watcher2, Watcher3}
=============================================================================
