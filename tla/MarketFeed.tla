----------------------------- MODULE MarketFeed -----------------------------
(***************************************************************************)
(* The firehose: each session's reactor asks the gateway for the market     *)
(* data or depth of a contract, after it has registered the contract with  *)
(* TickerMap; each session's event thread publishes what the gateway sends *)
(* under the symbol that TickerMap has for the id.                         *)
(***************************************************************************)
EXTENDS TickerMap, PubSub

CONSTANTS Sessions

\* The requests of the R package: a type that it does not know is left out, which makes the
\* contract a stock.
RContract(c) == IF c.secType \in {"STK", "IND", "OPT"} THEN c ELSE [c EXCEPT !.secType = "STK"]

ASSUME MarketFeedAssumption ==
  /\ \A s \in Scenarios : /\ s.sessions \subseteq Sessions
                          /\ \A r \in s.requests : RContract(r.contract) \in Contracts
  /\ None \notin [feed : {"data", "depth"}, contract : Contracts]

VARIABLES
  asking,     \* asking[s]: the request whose contract s is registering, or None
  requests,   \* requests taken so far
  refused,    \* contracts whose request was answered with an error
  gateway,    \* the feeds that it sends: [session, feed, id, contract]
  ticks,      \* messages sent so far by the gateway
  unresolved  \* ids of the ticks that no topic was found for: [id, race]

feedVars == <<asking, requests, refused, gateway, ticks, unresolved>>

FeedInit ==
  /\ TickerInit
  /\ asking = [s \in Sessions |-> None]
  /\ requests = 0
  /\ refused = {}
  /\ gateway = {}
  /\ ticks = 0
  /\ unresolved = {}

\* The gateway (external) keeps the first feed that was asked for under an id.
Ask(s, feed, c) ==
  gateway \cup (IF \E g \in gateway : g.session = s /\ g.feed = feed /\ g.id = c.id THEN {}
                ELSE {[session |-> s, feed |-> feed, id |-> c.id, contract |-> c]})

\* Mutant: the gateway is asked before the contract is registered.
AskFirst(s, feed, c) ==
  /\ asking[s] = None
  /\ inserting = None
  /\ ~Refused(c)
  /\ requests < scenario.maxRequests
  /\ requests' = requests + 1
  /\ gateway' = Ask(s, feed, c)
  /\ IF TickerIdOf(c) \in DOMAIN idSymbol
     THEN UNCHANGED <<asking, tickerVars>>
     ELSE /\ BeginInsert(c)
          /\ asking' = [asking EXCEPT ![s] = [feed |-> feed, contract |-> c]]
  /\ UNCHANGED <<refused, ticks, unresolved>>

\* RequestMarketData and RequestMarketDepth: the feed is asked for under the contract's own
\* id, whatever id it is registered under.
Request(s, feed, c) ==
  /\ asking[s] = None
  /\ inserting = None
  /\ requests < scenario.maxRequests
  /\ requests' = requests + 1
  /\ \/ /\ Registered(c)
        /\ gateway' = Ask(s, feed, c)
        /\ UNCHANGED <<asking, refused, tickerVars>>
     \/ /\ Refused(c)
        /\ refused' = refused \cup {c}
        /\ UNCHANGED <<asking, gateway, tickerVars>>
     \/ /\ BeginInsert(c)
        /\ asking' = [asking EXCEPT ![s] = [feed |-> feed, contract |-> c]]
        /\ UNCHANGED <<refused, gateway>>
  /\ UNCHANGED <<ticks, unresolved>>

InsertAndAsk(s) ==
  /\ asking[s] # None
  /\ EndInsert
  /\ gateway' = Ask(s, asking[s].feed, asking[s].contract)
  /\ asking' = [asking EXCEPT ![s] = None]
  /\ UNCHANGED <<requests, refused, ticks, unresolved>>

Cancel(s, feed, id) ==
  /\ asking[s] = None
  /\ requests < scenario.maxRequests
  /\ requests' = requests + 1
  /\ gateway' = {g \in gateway : ~(g.session = s /\ g.feed = feed /\ g.id = id)}
  /\ UNCHANGED <<asking, refused, ticks, unresolved, tickerVars>>

\* An option that would not marshal is not sent.
RSends(c) == c.secType = "OPT" /\ c.id # 0 => c.strike # ""

api_request_marketdata(s, c)  == RSends(c) /\ Request(s, "data", RContract(c))
api_request_marketdepth(s, c) == RSends(c) /\ Request(s, "depth", RContract(c))
api_cancel_marketdata(s, c)   == RSends(c) /\ Cancel(s, "data", c.id)
api_cancel_marketdepth(s, c)  == RSends(c) /\ Cancel(s, "depth", c.id)

\* A message is a topic and a body; a depth message says so in its topic.
FeedTopic(feed, symbol) == IF feed = "depth" THEN <<"depth">> \o symbol ELSE symbol

Message(feed, symbol, tick, n) ==
  <<Frame("topic", FeedTopic(feed, symbol), NoTick, n), Frame(feed, symbol, tick, n)>>

\* tickPrice and tickGeneric carry a double, tickSize an int, tickString a string.
TypeOf(event) ==
  CASE event \in {"BID", "ASK", "LAST"} -> "DOUBLE"
    [] event \in {"BID_SIZE", "ASK_SIZE", "LAST_SIZE"} -> "INT"
    [] OTHER -> "STRING"

Tick(event, value) == [event |-> event, type |-> TypeOf(event), value |-> value]

InsertsAnother(id) == IF inserting = None THEN FALSE ELSE inserting.id # id

\* publish and publishDepth, for one callback of the event thread.
PublishTick(g, tick) ==
  /\ g \in gateway
  /\ ticks < scenario.maxTicks
  /\ ticks' = ticks + 1
  /\ \E topic \in getSubscriptionKeyFromId(g.id) :
       IF topic = << >>
       THEN /\ unresolved' = unresolved \cup {[id |-> g.id, race |-> InsertsAnother(g.id)]}
            /\ inbound' = inbound
       ELSE /\ inbound' = Append(inbound, Message(g.feed, topic, tick, ticks'))
            /\ unresolved' = unresolved
  /\ UNCHANGED <<asking, requests, refused, gateway, tickerVars>>

-----------------------------------------------------------------------------
\* What is published for a feed carries the symbol of the contract that was asked for
\* under its id (ApiMessages.hpp:48-69, TickerMap.cpp:113-149), whichever sessions
\* registered what before.
TicksUnderOwnSymbol ==
  \A g \in gateway : g.id \in DOMAIN idSymbol =>
     idSymbol[g.id] = symbol_from_contract(g.contract)

\* A request is refused only because of an id that was made up (TickerMap.cpp:119-121): its
\* contract has none and got another's, or has one that was given to a contract without.
\* Two contracts with ids of their own never get in each other's way.
RefusedOnlyByGuess ==
  \A c \in refused :
     c.id = 0 \/ \E d \in Contracts : d.id = 0 /\ symbol_from_contract(d) = idSymbol[c.id]

\* A tick goes unpublished only when its feed was asked for under id 0, or when its lookup
\* raced the insertion of another id (MarketEventDispatcher.hpp:50, TickerMap.cpp:151).
UnresolvedOnlyByRace == \A u \in unresolved : u.id = 0 \/ u.race

\* A feed that was asked for fails only by an id that was made up or by the race of the
\* lookup with an insertion.
FailsOnlyByGuessOrRace == RefusedOnlyByGuess /\ UnresolvedOnlyByRace
=============================================================================
