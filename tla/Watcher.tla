------------------------------- MODULE Watcher ------------------------------
(***************************************************************************)
(* The watcher program: message_processor's listener thread, the map of    *)
(* handlers by topic, marketdata_handler's dispatch by event and type, and *)
(* the state that the program prints.                                      *)
(*                                                                         *)
(* The listener is started by the constructor's initialisers, before the   *)
(* mutex and the condition that the two threads share are constructed.     *)
(***************************************************************************)
EXTENDS PubSub

CONSTANTS Watchers,   \* those of Listeners that are watchers
          maxLapse    \* --max_time_lapse_millis

ASSUME WatcherAssumption ==
  /\ Watchers \subseteq Listeners
  /\ \A s \in Scenarios : \A t \in s.ticks : t[2] \in Int

VARIABLES
  main,     \* main[w]: where the constructor is
  listener, \* listener[w]: where the listener thread is
  ready,    \* ready[w]: ready_
  early,    \* early[w]: the listener took the mutex before it was constructed
  state,    \* state[w][symbol]: state_t
  seen      \* seen[w]: the messages that process_raw_message was called with (history)

watcherVars == <<main, listener, ready, early, state, seen>>

DATA_END == <<"__DATA_END__">>

Events == {"BID", "ASK", "LAST", "BID_SIZE", "ASK_SIZE", "LAST_SIZE", "LAST_TIMESTAMP"}

\* What main() binds for each event; the gateway sends LAST_TIMESTAMP as a string.
BoundType(event) ==
  CASE event \in {"BID", "ASK", "LAST"} -> "DOUBLE"
    [] event \in {"BID_SIZE", "ASK_SIZE", "LAST_SIZE"} -> "INT"
    [] event = "LAST_TIMESTAMP" -> "TIMESTAMP"

state_t == [var |-> [e \in Events |-> 0], prev_last |-> 0, spread |-> 0, sum |-> 0,
            balance |-> 0, ct |-> 0, count_time_lapse |-> 0]

Keys == scenario.symbols \cup {DATA_END}

WatcherInit ==
  /\ main = [w \in Watchers |-> "constructing"]
  /\ listener = [w \in Watchers |-> "starting"]
  /\ ready = [w \in Watchers |-> FALSE]
  /\ early = [w \in Watchers |-> FALSE]
  /\ state = [w \in Watchers |-> [k \in scenario.symbols |-> state_t]]
  /\ seen = [w \in Watchers |-> << >>]

At(w, m, m2) == main[w] = m /\ main' = [main EXCEPT ![w] = m2]
ListenerAt(w, l, l2) == listener[w] = l /\ listener' = [listener EXCEPT ![w] = l2]

\* The constructor: the mutex and the condition, then the wait until ready_.
Construct(w) ==
  /\ w \in scenario.listeners
  /\ At(w, "constructing", "constructed")
  /\ UNCHANGED <<pubVars, listener, ready, early, state, seen>>

\* main holds the mutex from the check until it waits, unless the listener does.
CheckReady(w) ==
  /\ listener[w] = "locked" => early[w]
  /\ At(w, "constructed", IF ready[w] THEN "running" ELSE "checked")
  /\ UNCHANGED <<pubVars, listener, ready, early, state, seen>>

WaitReady(w) ==
  /\ At(w, "checked", "waiting")
  /\ UNCHANGED <<pubVars, listener, ready, early, state, seen>>

\* The listener: connects, subscribes by the keys of the handlers, says that it is ready.
Listen(w) ==
  /\ w \in scenario.listeners
  /\ ListenerAt(w, "starting", "subscribed")
  /\ subs' = [subs EXCEPT ![w] = Keys]
  /\ UNCHANGED <<scenario, inbound, publisher, pipes, part, taken, interrupts, main, ready,
                 early, state, seen>>

\* Mutant: the mutex is not taken.
NoLockReady(w) ==
  /\ ListenerAt(w, "subscribed", "locked")
  /\ UNCHANGED <<pubVars, main, ready, early, state, seen>>

\* A mutex that is not constructed yet excludes nobody.
LockReady(w) ==
  /\ ListenerAt(w, "subscribed", "locked")
  /\ main[w] # "checked"
  /\ early' = [early EXCEPT ![w] = main[w] = "constructing"]
  /\ UNCHANGED <<pubVars, main, ready, state, seen>>

SetReady(w) ==
  /\ ListenerAt(w, "locked", "notifying")
  /\ ready' = [ready EXCEPT ![w] = TRUE]
  /\ UNCHANGED <<pubVars, main, early, state, seen>>

NotifyReady(w) ==
  /\ ListenerAt(w, "notifying", "running")
  /\ main' = [main EXCEPT ![w] = IF @ = "waiting" THEN "running" ELSE @]
  /\ UNCHANGED <<pubVars, ready, early, state, seen>>

-----------------------------------------------------------------------------
\* Mutant: not only a trade moves it.
prev_last_always(s, tick) == s.var["LAST"]

prev_last(s, tick) == IF tick.event = "LAST" THEN s.var["LAST"] ELSE s.prev_last

\* update<V>: a zero is no news.
update(s, tick, t) ==
  IF tick.value = 0 THEN s
  ELSE LET var == [s.var EXCEPT ![tick.event] = tick.value]
           top == var["BID_SIZE"] + var["ASK_SIZE"]
       IN  [var |-> var,
            prev_last |-> prev_last(s, tick),
            spread |-> var["ASK"] - var["BID"],
            sum |-> var["ASK"] + var["BID"],
            balance |-> IF top = 0 THEN 0
                        ELSE (100 * (var["BID_SIZE"] - var["ASK_SIZE"])) \div top,
            ct |-> t,
            count_time_lapse |-> s.count_time_lapse
                                 + (IF s.ct # 0 /\ t - s.ct > maxLapse THEN 1 ELSE 0)]

\* The events that a callback for values of this type is bound for.
typed_dispatcher(type) == {e \in Events : BoundType(e) = type}

\* By the type of the value that came.
value_updater(s, tick, t) ==
  IF tick.event \in typed_dispatcher(tick.type) THEN update(s, tick, t) ELSE s

process_event(s, frame) == IF frame.kind = "data" THEN value_updater(s, frame.tick, frame.n) ELSE s

\* The colours: of the quotes by where the last trade lies, of the trade by how it moved, of
\* the balance by its sign.  The colour meant for crossed quotes is never reached.
print(s) ==
  LET v == s.var
      Sign(x) == IF x = 0 THEN "WHITE" ELSE IF x > 0 THEN "GREEN" ELSE "RED"
  IN  [quotes |-> IF v["LAST"] >= v["ASK"] THEN "GREEN"
                  ELSE IF v["LAST"] <= v["BID"] THEN "RED"
                  ELSE IF 2 * v["LAST"] > s.sum THEN "CYAN"
                  ELSE IF 2 * v["LAST"] = s.sum THEN "WHITE" ELSE "YELLOW",
       trade |-> Sign(v["LAST"] - s.prev_last),
       balance |-> Sign(s.balance)]

\* process_raw_message: a topic without a handler, and the handler of DATA_END, end the loop.
process_raw_message(w, topic, frame) ==
  IF topic \in scenario.symbols
  THEN /\ state' = [state EXCEPT ![w][topic] = process_event(@, frame)]
       /\ seen' = [seen EXCEPT ![w] = Append(@, <<topic, frame>>)]
       /\ listener' = listener
  ELSE /\ listener' = [listener EXCEPT ![w] = "stopped"]
       /\ UNCHANGED <<state, seen>>

\* All messages of this endpoint have two frames; the loop would log any other.
ReceiveMessage(w) ==
  /\ listener[w] = "running"
  /\ CanReceive(w)
  /\ process_raw_message(w, Incoming(w)[1].topic, Incoming(w)[2])
  /\ Receive(w, 2)
  /\ UNCHANGED <<scenario, inbound, publisher, subs, interrupts, main, ready, early>>

InterruptWatcher(w) ==
  /\ listener[w] = "running"
  /\ ~CanReceive(w)
  /\ MayInterrupt(w)
  /\ UNCHANGED <<scenario, inbound, publisher, pipes, part, subs, taken, watcherVars>>

\* A log that is replayed ends with DATA_END, as its topic and as its body.
EndOfData ==
  /\ scenario.replay /\ inbound = << >>
  /\ \A l \in Listeners : \A m \in Range(pipes[l]) : m[1].topic # DATA_END
  /\ \E l \in Listeners : DATA_END \in subs[l]
  /\ \A l \in Listeners : DATA_END \notin {m[1].topic : m \in Range(taken[l])}
  /\ pipes' = Publish(pipes, <<Frame("topic", DATA_END, NoTick, 0),
                               Frame("word", DATA_END, NoTick, 0)>>)
  /\ UNCHANGED <<scenario, inbound, publisher, part, subs, taken, interrupts, watcherVars>>

-----------------------------------------------------------------------------
\* Those of the messages q that have news of an event of a symbol: a zero is none.
News(q, symbol, event) ==
  {i \in DOMAIN q : /\ q[i][1] = symbol /\ q[i][2].kind = "data"
                    /\ q[i][2].tick.event = event /\ q[i][2].tick.value # 0}

\* The value in the last of the messages S of q, and those before it.
LastOf(q, S) == IF S = {} THEN 0 ELSE q[Max(S)][2].tick.value
ButLast(S) == {i \in S : \E j \in S : i < j}

\* What is printed agrees with itself and with the feed (watcher_main.cpp:102-262): the
\* prices are the last ones sent, spread and midpoint follow from the prices next to them,
\* and a trade is green or red as it went up or down from the trade before it, whatever
\* order ticks come in.
WatcherFollows ==
  \A w \in Watchers : \A k \in scenario.symbols :
     LET s == state[w][k]
         q == seen[w]
         trades == News(q, k, "LAST")
     IN  /\ \A e \in {"BID", "ASK", "LAST", "BID_SIZE"} : s.var[e] = LastOf(q, News(q, k, e))
         /\ LET move == LastOf(q, trades) - LastOf(q, ButLast(trades))
            IN  /\ print(s).trade = "GREEN" <=> move > 0
                /\ print(s).trade = "RED" <=> move < 0
         /\ print(s).quotes \in {"CYAN", "WHITE", "YELLOW"} => s.spread > 0
         /\ s.spread = s.var["ASK"] - s.var["BID"]

\* The listener ends only on the end of the data, or when a symbol it was asked to watch is
\* a proper prefix of a topic (message_processor.cpp:97-116): no signal ends it.
StopsOnlyAtEnd ==
  \A w \in Watchers : listener[w] = "stopped" =>
     \E m \in Range(taken[w]) : m[1].topic \notin scenario.symbols

\* The constructor misses its wakeup only if the listener was as far as the mutex before the
\* mutex was constructed (message_processor.cpp:39-42).
MissesWakeupOnlyEarly ==
  \A w \in Watchers : main[w] = "waiting" /\ listener[w] = "running" => early[w]

\* The listener runs, and the constructor learns of it, but for the situations named.
ListenerLives == StopsOnlyAtEnd /\ MissesWakeupOnlyEarly
=============================================================================
