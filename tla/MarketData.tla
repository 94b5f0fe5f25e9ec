----------------------------- MODULE MarketData -----------------------------
(* The market data path: firehose, publisher, agents and watchers together. *)
EXTENDS MarketFeed, MarketDataSubscriber, Watcher

\* The first words of topics tell data, depth and commands apart, and no watcher is sent
\* commands.
ASSUME MarketDataAssumption ==
  /\ Agents \cap Watchers = {}
  /\ \A c \in Contracts : c.symbol \notin {"depth", "admin:"}
  /\ \A s \in Scenarios : \A c \in s.commands : \A k \in s.symbols \cup {DATA_END} :
       ~ IsPrefix(k, c[1])

vars == <<pubVars, tickerVars, feedVars, agentVars, watcherVars>>

restOfFeed == <<scenario, publisher, pipes, part, subs, taken, interrupts>>

TypeOK ==
  /\ publisher \in {"running", "stopped"}
  /\ DOMAIN idSymbol \subseteq Nat \ {0}
  /\ \A id \in DOMAIN idSymbol : idSymbol[id] \in Symbols
  /\ \A k \in DOMAIN symbolId : idSymbol[symbolId[k]] = k
  /\ inserting # None <=> \E s \in Sessions : asking[s] # None
  /\ \A a \in Agents : agent[a].pc \in {"idle", "topic", "body"}
  /\ \A l \in Listeners : Len(part[l]) <= 2

Init ==
  /\ PubInit
  /\ FeedInit
  /\ AgentInit
  /\ WatcherInit

Feed ==
  /\ \/ /\ \E s \in scenario.sessions :
             \/ \E r \in scenario.requests :
                  \/ r.feed = "data" /\ api_request_marketdata(s, r.contract)
                  \/ r.feed = "depth" /\ api_request_marketdepth(s, r.contract)
             \/ InsertAndAsk(s)
             \/ \E g \in gateway :
                  \/ g.feed = "data" /\ api_cancel_marketdata(s, g.contract)
                  \/ g.feed = "depth" /\ api_cancel_marketdepth(s, g.contract)
        /\ UNCHANGED inbound
     \/ \E g \in gateway : \E t \in scenario.ticks : PublishTick(g, Tick(t[1], t[2]))
  /\ UNCHANGED <<restOfFeed, agentVars, watcherVars>>

Agent(a) ==
  /\ \/ Initialize(a)
     \/ Start(a)
     \/ ReceiveTopic(a)
     \/ InterruptTopic(a)
     \/ AdminMessage(a)
     \/ Body(a)
     \/ InterruptBody(a)
     \/ \E t \in Topics : Subscribe(a, t)
  /\ UNCHANGED <<tickerVars, feedVars, watcherVars>>

Watch(w) ==
  /\ \/ Construct(w)
     \/ CheckReady(w)
     \/ WaitReady(w)
     \/ Listen(w)
     \/ LockReady(w)
     \/ SetReady(w)
     \/ NotifyReady(w)
     \/ ReceiveMessage(w)
     \/ InterruptWatcher(w)
  /\ UNCHANGED <<tickerVars, feedVars, agentVars>>

Others ==
  \/ (Forward \/ InterruptPublisher) /\ UNCHANGED <<tickerVars, feedVars, agentVars, watcherVars>>
  \/ EndOfData /\ UNCHANGED <<tickerVars, feedVars, agentVars>>
  \/ /\ \E c \in scenario.commands : Command(c[1], c[2], c[3])
     /\ UNCHANGED <<tickerVars, feedVars, watcherVars>>

Next ==
  \/ Feed
  \/ \E a \in Agents : Agent(a)
  \/ \E w \in Watchers : Watch(w)
  \/ Others

\* The loops take what has arrived: their threads run and 0MQ hands it over.
Fairness ==
  /\ WF_vars(Forward /\ UNCHANGED <<tickerVars, feedVars, agentVars, watcherVars>>)
  /\ \A s \in Sessions : WF_vars(InsertAndAsk(s) /\ UNCHANGED <<inbound, restOfFeed, agentVars, watcherVars>>)
  /\ \A a \in Agents : WF_vars((ReceiveTopic(a) \/ AdminMessage(a) \/ Body(a))
                               /\ UNCHANGED <<tickerVars, feedVars, watcherVars>>)
  /\ \A w \in Watchers : WF_vars((LockReady(w) \/ SetReady(w) \/ NotifyReady(w)
                                  \/ WaitReady(w) \/ ReceiveMessage(w))
                                 /\ UNCHANGED <<tickerVars, feedVars, agentVars>>)

Spec == Init /\ [][Next]_vars
FairSpec == Spec /\ Fairness

-----------------------------------------------------------------------------
\* Everything that is published is taken off the sockets again, unless the publisher or the
\* loop that would take it has ended (Publisher.cpp:112-153,
\* MarketDataSubscriber.hpp:181-344, message_processor.cpp:92-116): a frame that is out of
\* step never leaves a loop waiting for one that does not come while others do.
EverythingIsTaken ==
  /\ (inbound # << >> /\ publisher = "running") ~> (inbound = << >> \/ publisher = "stopped")
  /\ \A a \in Agents : (CanReceive(a) /\ agent[a].pc # "idle")
                         ~> (~CanReceive(a) \/ agent[a].pc = "idle")
  /\ \A w \in Watchers : (CanReceive(w) /\ listener[w] = "running")
                         ~> (~CanReceive(w) \/ listener[w] = "stopped")
=============================================================================
