-------------------------- MODULE MarketDataProofs --------------------------
(***************************************************************************)
(* Proofs about the market data path, for any contracts, sessions,         *)
(* listeners and scenarios.                                                *)
(***************************************************************************)
EXTENDS MarketData, FiniteSetTheorems, TLAPS

-----------------------------------------------------------------------------
(* The ticker map *)

\* An entry is a contract's symbol, under the contract's own id or under one made up for a
\* contract without.
Origin(id, symbol) ==
  \E d \in Contracts : symbol_from_contract(d) = symbol /\ d.id \in {0, id}

MapInv ==
  /\ IsFiniteSet(DOMAIN idSymbol)
  /\ DOMAIN idSymbol \subseteq Nat \ {0}
  /\ \A id \in DOMAIN idSymbol : Origin(id, idSymbol[id])
  /\ \A k \in DOMAIN symbolId : symbolId[k] \in DOMAIN idSymbol /\ idSymbol[symbolId[k]] = k

\* The entry that is being inserted is new.
InsertInv ==
  inserting # None =>
    /\ inserting \in [id : Nat \ {0}, symbol : Symbols]
    /\ inserting.id \notin DOMAIN idSymbol
    /\ Origin(inserting.id, inserting.symbol)

LEMMA TickerIdIsPositive ==
  ASSUME MapInv, NEW c \in Contracts
  PROVE  /\ TickerIdOf(c) \in Nat \ {0}
         /\ c.id # 0 => TickerIdOf(c) = c.id
<1>1. c.id \in Nat
  BY TickerMapAssumption
<1>2. Cardinality(DOMAIN idSymbol) \in Nat
  BY FS_CardinalityType DEF MapInv
<1> QED BY <1>1, <1>2 DEF TickerIdOf

LEMMA InsertAdds ==
  ASSUME MapInv, InsertInv, EndInsert
  PROVE  /\ DOMAIN idSymbol' = DOMAIN idSymbol \cup {inserting.id}
         /\ idSymbol'[inserting.id] = inserting.symbol
         /\ \A id \in DOMAIN idSymbol : idSymbol'[id] = idSymbol[id]
         /\ MapInv'
<1>0. /\ inserting.id \in Nat \ {0} /\ inserting.id \notin DOMAIN idSymbol
      /\ Origin(inserting.id, inserting.symbol)
  BY DEF InsertInv, EndInsert
<1>1. /\ DOMAIN idSymbol' = DOMAIN idSymbol \cup {inserting.id}
      /\ idSymbol'[inserting.id] = inserting.symbol
      /\ \A id \in DOMAIN idSymbol : idSymbol'[id] = idSymbol[id]
  BY <1>0 DEF EndInsert, Assign
<1>2. /\ DOMAIN symbolId' = DOMAIN symbolId \cup {inserting.symbol}
      /\ symbolId'[inserting.symbol] = inserting.id
      /\ \A k \in DOMAIN symbolId \ {inserting.symbol} : symbolId'[k] = symbolId[k]
  BY DEF EndInsert, Assign
<1>3. IsFiniteSet(DOMAIN idSymbol')
  BY <1>1, FS_AddElement DEF MapInv
<1>4. \A id \in DOMAIN idSymbol' : Origin(id, idSymbol'[id])
  BY <1>0, <1>1 DEF MapInv
<1>5. \A k \in DOMAIN symbolId' : symbolId'[k] \in DOMAIN idSymbol' /\ idSymbol'[symbolId'[k]] = k
  BY <1>0, <1>1, <1>2 DEF MapInv
<1> QED BY <1>0, <1>1, <1>3, <1>4, <1>5 DEF MapInv, Origin

-----------------------------------------------------------------------------
(* The firehose *)

AskingRecords == [feed : {"data", "depth"}, contract : Contracts]

\* One session at a time inserts, what it is asking for.
AskingInv ==
  /\ scenario \in Scenarios
  /\ asking \in [Sessions -> {None} \cup AskingRecords]
  /\ \A s, t \in Sessions : asking[s] # None /\ asking[t] # None => s = t
  /\ inserting # None <=> \E s \in Sessions : asking[s] # None
  /\ \A s \in Sessions : asking[s] # None =>
       /\ inserting.symbol = symbol_from_contract(asking[s].contract)
       /\ asking[s].contract.id # 0 => inserting.id = asking[s].contract.id

\* A feed was registered under its id, and so was what got in the way of a refused contract.
GatewayInv ==
  /\ \A g \in gateway :
       /\ g.feed \in {"data", "depth"} /\ g.contract \in Contracts /\ g.id = g.contract.id
       /\ g.id # 0 => g.id \in DOMAIN idSymbol /\ idSymbol[g.id] = symbol_from_contract(g.contract)
  /\ \A c \in refused :
       c.id = 0 \/ /\ c.id \in DOMAIN idSymbol
                   /\ \E d \in Contracts : d.id = 0 /\ symbol_from_contract(d) = idSymbol[c.id]
  /\ UnresolvedOnlyByRace

FeedInv == MapInv /\ InsertInv /\ AskingInv /\ GatewayInv

LEMMA AskKeeps ==
  ASSUME GatewayInv, NEW s, NEW feed \in {"data", "depth"}, NEW c \in Contracts,
         c.id # 0 => c.id \in DOMAIN idSymbol' /\ idSymbol'[c.id] = symbol_from_contract(c),
         \A id \in DOMAIN idSymbol : id \in DOMAIN idSymbol' /\ idSymbol'[id] = idSymbol[id],
         gateway' = Ask(s, feed, c), UNCHANGED <<refused, unresolved>>
  PROVE  GatewayInv'
<1>1. gateway' \subseteq gateway \cup {[session |-> s, feed |-> feed, id |-> c.id, contract |-> c]}
  BY DEF Ask
<1>2. \A g \in gateway' :
       /\ g.feed \in {"data", "depth"} /\ g.contract \in Contracts /\ g.id = g.contract.id
       /\ g.id # 0 => g.id \in DOMAIN idSymbol' /\ idSymbol'[g.id] = symbol_from_contract(g.contract)
  BY <1>1 DEF GatewayInv
<1> QED BY <1>2 DEF GatewayInv, UnresolvedOnlyByRace

LEMMA RequestFeed ==
  ASSUME FeedInv, NEW s \in Sessions, NEW feed \in {"data", "depth"}, NEW c \in Contracts,
         Request(s, feed, c), scenario' = scenario
  PROVE  FeedInv'
<1> USE DEF FeedInv
<1>1. asking[s] = None /\ inserting = None /\ unresolved' = unresolved
  BY DEF Request
<1>2. TickerIdOf(c) \in Nat \ {0} /\ (c.id # 0 => TickerIdOf(c) = c.id)
  BY TickerIdIsPositive
<1>3. CASE Registered(c) /\ gateway' = Ask(s, feed, c) /\ UNCHANGED <<asking, refused, tickerVars>>
  <2>1. GatewayInv'
    BY <1>1, <1>2, <1>3, AskKeeps DEF Registered, tickerVars
  <2>2. MapInv' /\ InsertInv' /\ AskingInv'
    BY <1>3 DEF MapInv, InsertInv, AskingInv, tickerVars
  <2> QED BY <2>1, <2>2
<1>4. CASE Refused(c) /\ refused' = refused \cup {c} /\ UNCHANGED <<asking, gateway, tickerVars>>
  <2>1. MapInv' /\ InsertInv' /\ AskingInv'
    BY <1>4 DEF MapInv, InsertInv, AskingInv, tickerVars
  <2>2. ASSUME c.id # 0
        PROVE  /\ c.id \in DOMAIN idSymbol
               /\ \E d \in Contracts : d.id = 0 /\ symbol_from_contract(d) = idSymbol[c.id]
    <3>1. c.id \in DOMAIN idSymbol /\ idSymbol[c.id] # symbol_from_contract(c)
      BY <1>2, <1>4, <2>2 DEF Refused
    <3>2. PICK d \in Contracts : symbol_from_contract(d) = idSymbol[c.id] /\ d.id \in {0, c.id}
      BY <3>1 DEF MapInv, Origin
    <3>3. d.id = 0
      BY <2>2, <3>1, <3>2, TickerMapAssumption
    <3> QED BY <3>1, <3>2, <3>3
  <2>3. GatewayInv'
    BY <1>1, <1>4, <2>2 DEF GatewayInv, UnresolvedOnlyByRace, tickerVars
  <2> QED BY <2>1, <2>3
<1>5. CASE /\ BeginInsert(c)
           /\ asking' = [asking EXCEPT ![s] = [feed |-> feed, contract |-> c]]
           /\ UNCHANGED <<refused, gateway>>
  <2>1. /\ inserting' = [id |-> TickerIdOf(c), symbol |-> symbol_from_contract(c)]
        /\ TickerIdOf(c) \notin DOMAIN idSymbol /\ UNCHANGED <<idSymbol, symbolId>>
    BY <1>5 DEF BeginInsert
  <2>2. symbol_from_contract(c) \in Symbols
    BY DEF Symbols
  <2>3. inserting' \in [id : Nat \ {0}, symbol : Symbols] /\ inserting' # None
    BY <1>2, <2>1, <2>2, TickerMapAssumption
  <2>4. \A t \in Sessions : asking[t] = None
    BY <1>1 DEF AskingInv
  <2>5. /\ asking'[s] = [feed |-> feed, contract |-> c] /\ asking'[s] # None
        /\ \A t \in Sessions : t # s => asking'[t] = None
        /\ asking' \in [Sessions -> {None} \cup AskingRecords]
    BY <1>5, <2>4, MarketFeedAssumption DEF AskingInv, AskingRecords
  <2>6. AskingInv'
    BY <1>2, <2>1, <2>3, <2>5 DEF AskingInv
  <2>7. Origin(inserting'.id, inserting'.symbol)
    BY <1>2, <2>1, TickerMapAssumption DEF Origin
  <2>8. MapInv' /\ InsertInv'
    BY <2>1, <2>3, <2>7 DEF MapInv, InsertInv, Origin
  <2>9. GatewayInv'
    BY <1>1, <1>5, <2>1 DEF GatewayInv, UnresolvedOnlyByRace
  <2> QED BY <2>6, <2>8, <2>9
<1> QED BY <1>3, <1>4, <1>5 DEF Request

LEMMA InsertFeed ==
  ASSUME FeedInv, NEW s \in Sessions, InsertAndAsk(s), scenario' = scenario
  PROVE  FeedInv'
<1> USE DEF FeedInv
<1>1. /\ asking[s] # None /\ EndInsert
      /\ gateway' = Ask(s, asking[s].feed, asking[s].contract)
      /\ asking' = [asking EXCEPT ![s] = None] /\ UNCHANGED <<refused, unresolved>>
  BY DEF InsertAndAsk
<1>2. asking[s] \in AskingRecords
  BY <1>1 DEF AskingInv
<1> DEFINE c == asking[s].contract
<1>3. c \in Contracts /\ inserting.symbol = symbol_from_contract(c)
      /\ (c.id # 0 => inserting.id = c.id)
  BY <1>1, <1>2 DEF AskingInv, AskingRecords
<1>4. /\ DOMAIN idSymbol' = DOMAIN idSymbol \cup {inserting.id}
      /\ idSymbol'[inserting.id] = inserting.symbol
      /\ \A id \in DOMAIN idSymbol : idSymbol'[id] = idSymbol[id]
      /\ MapInv'
  BY <1>1, InsertAdds
<1>5. inserting' = None
  BY <1>1 DEF EndInsert
<1>6. \A t \in Sessions : asking'[t] = None
  BY <1>1 DEF AskingInv
<1>7. AskingInv' /\ InsertInv'
  BY <1>1, <1>5, <1>6 DEF AskingInv, InsertInv
<1>8. GatewayInv'
  <2>1. asking[s].feed \in {"data", "depth"}
    BY <1>2 DEF AskingRecords
  <2> QED BY <1>1, <1>3, <1>4, <2>1, AskKeeps
<1> QED BY <1>4, <1>7, <1>8

LEMMA CancelFeed ==
  ASSUME FeedInv, NEW s, NEW feed, NEW id, Cancel(s, feed, id), scenario' = scenario
  PROVE  FeedInv'
<1>1. gateway' \subseteq gateway /\ UNCHANGED <<asking, refused, unresolved, idSymbol, symbolId, inserting>>
  BY DEF Cancel, tickerVars
<1> QED BY <1>1 DEF FeedInv, MapInv, InsertInv, AskingInv, GatewayInv, UnresolvedOnlyByRace

LEMMA TickFeed ==
  ASSUME FeedInv, NEW g, NEW tick, PublishTick(g, tick), scenario' = scenario
  PROVE  FeedInv'
<1> USE DEF FeedInv
<1>1. g \in gateway /\ UNCHANGED <<asking, refused, gateway, idSymbol, symbolId, inserting>>
  BY DEF PublishTick, tickerVars
<1>2. MapInv' /\ InsertInv' /\ AskingInv'
  BY <1>1 DEF MapInv, InsertInv, AskingInv
<1>3. PICK topic \in getSubscriptionKeyFromId(g.id) :
        IF topic = << >>
        THEN unresolved' = unresolved \cup {[id |-> g.id, race |-> InsertsAnother(g.id)]}
        ELSE unresolved' = unresolved
  BY DEF PublishTick
<1>4. ASSUME topic = << >>, g.id # 0 PROVE InsertsAnother(g.id)
  <2>1. g.id \in DOMAIN idSymbol /\ idSymbol[g.id] = symbol_from_contract(g.contract)
    BY <1>1, <1>4 DEF GatewayInv
  <2>2. idSymbol[g.id] # << >>
    BY <2>1 DEF symbol_from_contract
  <2>3. inserting # None
    BY <1>3, <1>4, <2>1, <2>2 DEF getSubscriptionKeyFromId
  <2>4. inserting.id # g.id
    BY <2>1, <2>3 DEF InsertInv
  <2> QED BY <2>3, <2>4 DEF InsertsAnother
<1>5. UnresolvedOnlyByRace'
  BY <1>3, <1>4 DEF GatewayInv, UnresolvedOnlyByRace
<1> QED BY <1>1, <1>2, <1>5 DEF GatewayInv

LEMMA FeedStep ==
  ASSUME FeedInv, [Next]_vars
  PROVE  FeedInv'
<1> USE DEF FeedInv
<1>1. ASSUME UNCHANGED <<tickerVars, feedVars, scenario>> PROVE FeedInv'
  BY <1>1 DEF MapInv, InsertInv, AskingInv, GatewayInv, UnresolvedOnlyByRace, tickerVars, feedVars
<1>2. CASE Feed
  <2>1. scenario' = scenario /\ scenario \in Scenarios
    BY <1>2 DEF Feed, restOfFeed, AskingInv
  <2>2. /\ scenario.sessions \subseteq Sessions
        /\ \A r \in scenario.requests : RContract(r.contract) \in Contracts
    BY <2>1, MarketFeedAssumption
  <2>3. ASSUME NEW s \in scenario.sessions, NEW r \in scenario.requests,
               \/ r.feed = "data" /\ api_request_marketdata(s, r.contract)
               \/ r.feed = "depth" /\ api_request_marketdepth(s, r.contract)
        PROVE  FeedInv'
    BY <2>1, <2>2, <2>3, RequestFeed DEF api_request_marketdata, api_request_marketdepth
  <2>4. ASSUME NEW s \in scenario.sessions, InsertAndAsk(s) PROVE FeedInv'
    BY <2>1, <2>2, <2>4, InsertFeed
  <2>5. ASSUME NEW s \in scenario.sessions, NEW g \in gateway,
               \/ g.feed = "data" /\ api_cancel_marketdata(s, g.contract)
               \/ g.feed = "depth" /\ api_cancel_marketdepth(s, g.contract)
        PROVE  FeedInv'
    BY <2>1, <2>5, CancelFeed DEF api_cancel_marketdata, api_cancel_marketdepth
  <2>6. ASSUME NEW g \in gateway, NEW t \in scenario.ticks, PublishTick(g, Tick(t[1], t[2]))
        PROVE  FeedInv'
    BY <2>1, <2>6, TickFeed
  <2> QED BY <1>2, <2>3, <2>4, <2>5, <2>6 DEF Feed
<1>3. ASSUME NEW a \in Agents, Agent(a) PROVE FeedInv'
  BY <1>1, <1>3 DEF Agent, Initialize, Start, ReceiveTopic, InterruptTopic, AdminMessage, Body,
     InterruptBody, Subscribe, pubVars
<1>4. ASSUME NEW w \in Watchers, Watch(w) PROVE FeedInv'
  BY <1>1, <1>4 DEF Watch, Construct, CheckReady, WaitReady, Listen, LockReady, SetReady,
     NotifyReady, ReceiveMessage, InterruptWatcher, pubVars
<1>5. CASE Others
  BY <1>1, <1>5 DEF Others, Forward, InterruptPublisher, EndOfData, Command
<1>6. CASE UNCHANGED vars
  BY <1>1, <1>6 DEF vars, pubVars
<1> QED BY <1>2, <1>3, <1>4, <1>5, <1>6 DEF Next

LEMMA FeedInitially ==
  ASSUME Init
  PROVE  FeedInv
<1> USE DEF Init, FeedInit, TickerInit, PubInit
<1>1. DOMAIN idSymbol = {} /\ DOMAIN symbolId = {}
  OBVIOUS
<1>2. MapInv /\ InsertInv
  BY <1>1, FS_EmptySet DEF MapInv, InsertInv
<1>3. AskingInv
  BY DEF AskingInv
<1> QED BY <1>2, <1>3 DEF FeedInv, GatewayInv, UnresolvedOnlyByRace

\* What is published for a feed carries the symbol of the contract that was asked for.
THEOREM TicksAlwaysUnderOwnSymbol == Spec => []TicksUnderOwnSymbol
<1>1. FeedInv => TicksUnderOwnSymbol
  BY DEF FeedInv, MapInv, GatewayInv, TicksUnderOwnSymbol
<1> QED BY <1>1, FeedInitially, FeedStep, PTL DEF Spec

\* A request is refused, and a tick dropped, only in the situations FailsOnlyByGuessOrRace
\* names.
THEOREM FeedsFailOnlyByGuessOrRace == Spec => []FailsOnlyByGuessOrRace
<1>1. FeedInv => FailsOnlyByGuessOrRace
  BY DEF FeedInv, GatewayInv, FailsOnlyByGuessOrRace, RefusedOnlyByGuess
<1> QED BY <1>1, FeedInitially, FeedStep, PTL DEF Spec

-----------------------------------------------------------------------------
(* Messages *)

FeedMessages(sc) ==
  {Message(feed, k, Tick(t[1], t[2]), n) :
     feed \in {"data", "depth"}, k \in Symbols, t \in sc.ticks, n \in Nat}

CommandMessage(c, n) ==
  <<Frame("topic", c[1], NoTick, n), Frame("word", c[2], NoTick, n), Frame("word", c[3], NoTick, n)>>

CommandMessages(sc) == {CommandMessage(c, n) : c \in sc.commands, n \in Nat}

EndMessage == <<Frame("topic", DATA_END, NoTick, 0), Frame("word", DATA_END, NoTick, 0)>>

Messages(sc) == FeedMessages(sc) \cup CommandMessages(sc) \cup {EndMessage}

\* What is sent to watchers.
Pairs(sc) == FeedMessages(sc) \cup {EndMessage}

Under(word, frame) == frame.topic # << >> /\ frame.topic[1] = word

FeedShape(m) ==
  /\ m = <<m[1], m[2]>> /\ m[1].kind = "topic" /\ m[2].kind \in {"data", "depth"}
  /\ m[1].n = m[2].n
  /\ ~ Under("admin:", m[1]) /\ ~ Under("admin:", m[2])
  /\ Under("depth", m[1]) <=> m[2].kind = "depth"

CommandShape(m) ==
  /\ m = <<m[1], m[2], m[3]>> /\ m[1].kind = "topic" /\ m[2].kind = "word" /\ m[3].kind = "word"
  /\ ~ Under("admin:", m[2]) /\ ~ Under("admin:", m[3])

EndShape(m) ==
  /\ m = <<m[1], m[2]>> /\ m[1].kind = "topic" /\ m[2].kind = "word"
  /\ ~ Under("admin:", m[1]) /\ ~ Under("admin:", m[2])

LEMMA FeedMessageShape ==
  ASSUME NEW sc, NEW m \in FeedMessages(sc)
  PROVE  FeedShape(m)
<1>1. PICK feed \in {"data", "depth"}, k \in Symbols, t \in sc.ticks, n \in Nat :
        m = Message(feed, k, Tick(t[1], t[2]), n)
  BY DEF FeedMessages
<1>2. PICK c \in Contracts : k = symbol_from_contract(c)
  BY DEF Symbols
<1>3. c.symbol # "admin:" /\ c.symbol # "depth"
  BY MarketDataAssumption
<1>4. /\ m = <<m[1], m[2]>> /\ m[1].kind = "topic" /\ m[2].kind = feed /\ m[1].n = n /\ m[2].n = n
      /\ m[1].topic = FeedTopic(feed, k) /\ m[2].topic = k
  BY <1>1 DEF Message, Frame
<1>5. \/ k = <<c.symbol, c.secType, c.strike>>
      \/ k = <<c.symbol, c.secType>>
  BY <1>2 DEF symbol_from_contract
<1>6. k # << >> /\ k[1] = c.symbol
  BY <1>5
<1>7. (<<"depth">> \o k)[1] = "depth" /\ <<"depth">> \o k # << >>
  BY <1>5
<1>8. FeedTopic(feed, k)[1] = IF feed = "depth" THEN "depth" ELSE c.symbol
  BY <1>6, <1>7 DEF FeedTopic
<1>9. FeedTopic(feed, k) # << >>
  BY <1>6, <1>7 DEF FeedTopic
<1>10. Under("depth", m[1]) <=> m[2].kind = "depth"
  BY <1>3, <1>4, <1>8, <1>9 DEF Under
<1>11. ~ Under("admin:", m[1]) /\ ~ Under("admin:", m[2])
  BY <1>3, <1>4, <1>6, <1>8 DEF Under
<1> QED BY <1>4, <1>10, <1>11 DEF FeedShape

LEMMA MessageShape ==
  ASSUME NEW sc \in Scenarios, NEW m \in Messages(sc)
  PROVE  FeedShape(m) \/ CommandShape(m) \/ EndShape(m)
<1>1. CASE m \in FeedMessages(sc)
  BY <1>1, FeedMessageShape
<1>2. CASE m \in CommandMessages(sc)
  <2>1. PICK c \in sc.commands, n \in Nat : m = CommandMessage(c, n)
    BY <1>2 DEF CommandMessages
  <2>2. \A i \in {2, 3} : c[i] # << >> => c[i][1] # "admin:"
    BY MarketDataSubscriberAssumption
  <2>3. /\ m = <<m[1], m[2], m[3]>> /\ m[1].kind = "topic" /\ m[2].kind = "word"
        /\ m[3].kind = "word" /\ m[2].topic = c[2] /\ m[3].topic = c[3]
    BY <2>1 DEF CommandMessage, Frame
  <2> QED BY <2>2, <2>3 DEF CommandShape, Under
<1>3. CASE m = EndMessage
  BY <1>3 DEF EndMessage, EndShape, Under, Frame, DATA_END
<1> QED BY <1>1, <1>2, <1>3 DEF Messages

-----------------------------------------------------------------------------
(* The queues *)

\* A watcher is only sent pairs, and takes them whole.
QueueInv ==
  /\ scenario \in Scenarios
  /\ ticks \in Nat /\ commands \in Nat
  /\ inbound \in Seq(FeedMessages(scenario))
  /\ pipes \in [Listeners -> Seq(Messages(scenario))]
  /\ taken \in [Listeners -> Seq(Messages(scenario))]
  /\ part = [l \in Listeners |-> part[l]] /\ subs = [l \in Listeners |-> subs[l]]
  /\ \A l \in Listeners \ Agents : part[l] = << >>
  /\ \A w \in Watchers : subs[w] \in {{}, Keys} /\ pipes[w] \in Seq(Pairs(scenario))

queueVars == <<scenario, ticks, commands, inbound, pipes, taken, part, subs>>

LEMMA QueueUnchanged ==
  ASSUME QueueInv, UNCHANGED queueVars
  PROVE  QueueInv'
BY DEF QueueInv, queueVars, Keys

\* The publisher's and the coordinator's messages are appended to the pipes.
LEMMA PublishQueue ==
  ASSUME QueueInv, NEW m \in Messages(scenario), pipes' = Publish(pipes, m),
         \/ m \in Pairs(scenario)
         \/ \A k \in Keys : ~ IsPrefix(k, m[1].topic)
  PROVE  /\ pipes' \in [Listeners -> Seq(Messages(scenario))]
         /\ \A w \in Watchers : pipes'[w] \in Seq(Pairs(scenario))
<1>1. pipes' \in [Listeners -> Seq(Messages(scenario))]
  BY DEF QueueInv, Publish
<1>2. ASSUME NEW w \in Watchers PROVE pipes'[w] \in Seq(Pairs(scenario))
  <2>1. w \in Listeners /\ pipes[w] \in Seq(Pairs(scenario)) /\ subs[w] \in {{}, Keys}
    BY WatcherAssumption DEF QueueInv
  <2>2. CASE \E k \in subs[w] : IsPrefix(k, m[1].topic)
    <3>1. m \in Pairs(scenario)
      BY <2>1, <2>2
    <3> QED BY <2>1, <2>2, <3>1 DEF Publish
  <2>3. CASE ~ \E k \in subs[w] : IsPrefix(k, m[1].topic)
    BY <2>1, <2>3 DEF Publish
  <2> QED BY <2>2, <2>3
<1> QED BY <1>1, <1>2

\* The frames of the pipes are taken in their order.
LEMMA ReceiveQueue ==
  ASSUME QueueInv, NEW l \in Listeners, NEW count, CanReceive(l), Receive(l, count)
  PROVE  /\ pipes' \in [Listeners -> Seq(Messages(scenario))]
         /\ taken' \in [Listeners -> Seq(Messages(scenario))]
         /\ \A w \in Watchers : pipes'[w] \in Seq(Pairs(scenario))
         /\ part' = [k \in Listeners |-> part'[k]]
         /\ \A k \in Listeners \ {l} : part'[k] = part[k] /\ taken'[k] = taken[k]
         /\ part'[l] = SubSeq(Incoming(l), count + 1, Len(Incoming(l)))
         /\ part[l] # << >> => taken' = taken /\ Incoming(l) = part[l]
         /\ part[l] = << >> => /\ Incoming(l) \in Messages(scenario)
                               /\ l \in Watchers => Incoming(l) \in Pairs(scenario)
                               /\ taken'[l] = Append(taken[l], Incoming(l))
<1>1. part' = [part EXCEPT ![l] = SubSeq(Incoming(l), count + 1, Len(Incoming(l)))]
  BY DEF Receive
<1>2. CASE part[l] # << >>
  BY <1>1, <1>2 DEF Receive, QueueInv, Incoming
<1>3. CASE part[l] = << >>
  <2>1. pipes[l] # << >> /\ Incoming(l) = Head(pipes[l])
    BY <1>3 DEF CanReceive, Incoming
  <2>2. /\ pipes' = [pipes EXCEPT ![l] = Tail(@)]
        /\ taken' = [taken EXCEPT ![l] = Append(@, Head(pipes[l]))]
    BY <1>3 DEF Receive
  <2>3. Head(pipes[l]) \in Messages(scenario) /\ Tail(pipes[l]) \in Seq(Messages(scenario))
    BY <2>1 DEF QueueInv
  <2>4. l \in Watchers => Head(pipes[l]) \in Pairs(scenario) /\ Tail(pipes[l]) \in Seq(Pairs(scenario))
    <3>1. l \in Watchers => pipes[l] \in Seq(Pairs(scenario))
      BY DEF QueueInv
    <3> QED BY <2>1, <3>1
  <2>5. pipes' \in [Listeners -> Seq(Messages(scenario))] /\ taken' \in [Listeners -> Seq(Messages(scenario))]
    BY <2>2, <2>3 DEF QueueInv
  <2>6. \A w \in Watchers : pipes'[w] \in Seq(Pairs(scenario))
    BY <2>2, <2>4, WatcherAssumption DEF QueueInv
  <2> QED BY <1>1, <1>3, <2>1, <2>2, <2>3, <2>4, <2>5, <2>6 DEF QueueInv
<1> QED BY <1>2, <1>3

LEMMA TickQueue ==
  ASSUME QueueInv, FeedInv, Feed
  PROVE  QueueInv'
<1>1. UNCHANGED <<scenario, pipes, taken, part, subs, commands>>
  BY DEF Feed, restOfFeed, agentVars
<1>2. ASSUME UNCHANGED <<inbound, ticks>> PROVE QueueInv'
  BY <1>1, <1>2, QueueUnchanged DEF queueVars
<1>3. ASSUME NEW g \in gateway, NEW t \in scenario.ticks, PublishTick(g, Tick(t[1], t[2]))
      PROVE  QueueInv'
  <2>1. ticks' = ticks + 1
    BY <1>3 DEF PublishTick
  <2>2. g.feed \in {"data", "depth"}
    BY DEF FeedInv, GatewayInv
  <2>3. PICK topic \in getSubscriptionKeyFromId(g.id) :
          \/ topic = << >> /\ inbound' = inbound
          \/ topic # << >> /\ inbound' = Append(inbound, Message(g.feed, topic, Tick(t[1], t[2]), ticks'))
    BY <1>3 DEF PublishTick
  <2>4. \A id \in DOMAIN idSymbol : idSymbol[id] \in Symbols
    BY DEF FeedInv, MapInv, Origin, Symbols
  <2>5. topic # << >> => topic \in Symbols
    BY <2>4 DEF getSubscriptionKeyFromId, Assign, FeedInv, InsertInv
  <2>6. ticks' \in Nat
    BY <2>1 DEF QueueInv
  <2>7. topic # << >> => Message(g.feed, topic, Tick(t[1], t[2]), ticks') \in FeedMessages(scenario)
    BY <2>2, <2>5, <2>6 DEF FeedMessages
  <2>8. inbound' \in Seq(FeedMessages(scenario))
    <3>1. inbound \in Seq(FeedMessages(scenario))
      BY DEF QueueInv
    <3>2. CASE topic = << >>
      BY <2>3, <3>1, <3>2
    <3>3. CASE topic # << >>
      BY <2>3, <2>7, <3>1, <3>3
    <3> QED BY <3>2, <3>3
  <2> QED BY <1>1, <2>6, <2>8 DEF QueueInv, Keys
<1> QED BY <1>2, <1>3 DEF Feed, api_request_marketdata, api_request_marketdepth, Request, InsertAndAsk,
        api_cancel_marketdata, api_cancel_marketdepth, Cancel

LEMMA AgentStepQueue ==
  ASSUME QueueInv, NEW a \in Agents, Agent(a)
  PROVE  QueueInv'
<1>0. a \in Listeners /\ a \notin Watchers
  BY MarketDataAssumption, MarketDataSubscriberAssumption
<1>1. UNCHANGED <<scenario, ticks, commands, inbound>>
  BY DEF Agent, Initialize, Start, ReceiveTopic, InterruptTopic, AdminMessage, Body, InterruptBody,
     Subscribe, agentVars, feedVars, pubVars
<1>2. subs' = subs \/ \E x : subs' = [subs EXCEPT ![a] = x]
  BY DEF Agent, Initialize, Start, ReceiveTopic, InterruptTopic, AdminMessage, Body, InterruptBody,
     Subscribe, pubVars
<1>3. \/ UNCHANGED <<pipes, taken, part>>
      \/ CanReceive(a) /\ \E count \in {1, 2} : Receive(a, count)
  BY DEF Agent, Initialize, Start, ReceiveTopic, InterruptTopic, AdminMessage, Body, InterruptBody,
     Subscribe, pubVars
<1>4. subs' = [l \in Listeners |-> subs'[l]] /\ \A w \in Watchers : subs'[w] = subs[w]
  BY <1>0, <1>2, WatcherAssumption DEF QueueInv
<1>5. /\ pipes' \in [Listeners -> Seq(Messages(scenario))]
      /\ taken' \in [Listeners -> Seq(Messages(scenario))]
      /\ \A w \in Watchers : pipes'[w] \in Seq(Pairs(scenario))
      /\ part' = [k \in Listeners |-> part'[k]]
      /\ \A l \in Listeners \ Agents : part'[l] = << >>
  <2>1. CASE UNCHANGED <<pipes, taken, part>>
    BY <2>1 DEF QueueInv
  <2>2. ASSUME CanReceive(a), NEW count \in {1, 2}, Receive(a, count)
        PROVE  /\ pipes' \in [Listeners -> Seq(Messages(scenario))]
               /\ taken' \in [Listeners -> Seq(Messages(scenario))]
               /\ \A w \in Watchers : pipes'[w] \in Seq(Pairs(scenario))
               /\ part' = [k \in Listeners |-> part'[k]]
               /\ \A k \in Listeners \ {a} : part'[k] = part[k]
    BY <1>0, <2>2, ReceiveQueue
  <2> QED BY <1>3, <2>1, <2>2 DEF QueueInv
<1> QED BY <1>1, <1>4, <1>5 DEF QueueInv, Keys

\* A pair is taken at once.
LEMMA WatcherReceives ==
  ASSUME QueueInv, NEW w \in Watchers, ReceiveMessage(w)
  PROVE  /\ Incoming(w) \in Pairs(scenario)
         /\ taken'[w] = Append(taken[w], Incoming(w))
         /\ part'[w] = << >>
<1>0. w \in Listeners /\ w \notin Agents /\ part[w] = << >>
  BY MarketDataAssumption, WatcherAssumption DEF QueueInv
<1>a. CanReceive(w) /\ Receive(w, 2)
  BY DEF ReceiveMessage
<1>b. /\ Incoming(w) \in Pairs(scenario) /\ taken'[w] = Append(taken[w], Incoming(w))
      /\ part'[w] = SubSeq(Incoming(w), 2 + 1, Len(Incoming(w)))
  BY <1>0, <1>a, ReceiveQueue
<1>1. /\ Incoming(w) \in Pairs(scenario) /\ taken'[w] = Append(taken[w], Incoming(w))
      /\ part'[w] = SubSeq(Incoming(w), 3, Len(Incoming(w)))
  BY <1>b
<1>2. PICK x, y : Incoming(w) = <<x, y>>
  BY <1>1, FeedMessageShape DEF Pairs, EndMessage, FeedShape
<1>3. SubSeq(<<x, y>>, 3, 2) = << >>
  OBVIOUS
<1> QED BY <1>1, <1>2, <1>3

LEMMA WatcherStepQueue ==
  ASSUME QueueInv, NEW w \in Watchers, Watch(w)
  PROVE  QueueInv'
<1>0. w \in Listeners /\ w \notin Agents
  BY MarketDataAssumption, WatcherAssumption
<1>1. UNCHANGED <<scenario, ticks, commands, inbound>>
  BY DEF Watch, Construct, CheckReady, WaitReady, Listen, LockReady, SetReady, NotifyReady,
     ReceiveMessage, InterruptWatcher, feedVars, agentVars, pubVars
<1>2. CASE ReceiveMessage(w)
  <2>1. subs' = subs
    BY <1>2 DEF ReceiveMessage
  <2>2. /\ pipes' \in [Listeners -> Seq(Messages(scenario))]
        /\ taken' \in [Listeners -> Seq(Messages(scenario))]
        /\ \A v \in Watchers : pipes'[v] \in Seq(Pairs(scenario))
        /\ part' = [k \in Listeners |-> part'[k]]
        /\ \A k \in Listeners \ {w} : part'[k] = part[k]
    BY <1>0, <1>2, ReceiveQueue DEF ReceiveMessage
  <2>3. part'[w] = << >>
    BY <1>2, WatcherReceives
  <2> QED BY <1>1, <2>1, <2>2, <2>3 DEF QueueInv, Keys
<1>3. CASE Listen(w)
  <2>1. subs' = [subs EXCEPT ![w] = Keys] /\ UNCHANGED <<pipes, taken, part>> /\ Keys' = Keys
    BY <1>1, <1>3 DEF Listen, Keys
  <2>2. subs' = [l \in Listeners |-> subs'[l]] /\ \A v \in Watchers : subs'[v] \in {{}, Keys}
    BY <1>0, <2>1, WatcherAssumption DEF QueueInv
  <2> QED BY <1>1, <2>1, <2>2 DEF QueueInv
<1>4. CASE ~ ReceiveMessage(w) /\ ~ Listen(w)
  <2>1. UNCHANGED queueVars
    BY <1>1, <1>4 DEF queueVars, Watch, Construct, CheckReady, WaitReady, LockReady, SetReady,
       NotifyReady, InterruptWatcher, pubVars
  <2> QED BY <2>1, QueueUnchanged
<1> QED BY <1>2, <1>3, <1>4

LEMMA OtherStepQueue ==
  ASSUME QueueInv, Others
  PROVE  QueueInv'
<1>1. CASE Forward /\ UNCHANGED <<tickerVars, feedVars, agentVars, watcherVars>>
  <2>1. /\ inbound # << >> /\ pipes' = Publish(pipes, Head(inbound)) /\ inbound' = Tail(inbound)
        /\ UNCHANGED <<scenario, ticks, commands, taken, part, subs>>
    BY <1>1 DEF Forward, feedVars, agentVars
  <2>2. Head(inbound) \in FeedMessages(scenario) /\ Tail(inbound) \in Seq(FeedMessages(scenario))
    BY <2>1 DEF QueueInv
  <2>3. /\ pipes' \in [Listeners -> Seq(Messages(scenario))]
        /\ \A w \in Watchers : pipes'[w] \in Seq(Pairs(scenario))
    BY <2>1, <2>2, PublishQueue DEF Messages, Pairs
  <2> QED BY <2>1, <2>2, <2>3 DEF QueueInv, Keys
<1>2. CASE InterruptPublisher /\ UNCHANGED <<tickerVars, feedVars, agentVars, watcherVars>>
  BY <1>2, QueueUnchanged DEF queueVars, InterruptPublisher, feedVars, agentVars
<1>3. CASE EndOfData /\ UNCHANGED <<tickerVars, feedVars, agentVars>>
  <2>1. pipes' = Publish(pipes, EndMessage) /\ UNCHANGED <<scenario, ticks, commands, inbound, taken, part, subs>>
    BY <1>3 DEF EndOfData, EndMessage, feedVars, agentVars
  <2>2. /\ pipes' \in [Listeners -> Seq(Messages(scenario))]
        /\ \A w \in Watchers : pipes'[w] \in Seq(Pairs(scenario))
    BY <2>1, PublishQueue DEF Messages, Pairs
  <2> QED BY <2>1, <2>2 DEF QueueInv, Keys
<1>4. ASSUME NEW c \in scenario.commands, Command(c[1], c[2], c[3]),
             UNCHANGED <<tickerVars, feedVars, watcherVars>>
      PROVE  QueueInv'
  <2> DEFINE n == scenario.maxTicks + 1 + commands'
  <2>1. /\ commands' = commands + 1 /\ pipes' = Publish(pipes, CommandMessage(c, n))
        /\ UNCHANGED <<scenario, ticks, inbound, taken, part, subs>>
    BY <1>4 DEF Command, CommandMessage, feedVars
  <2>2. commands' \in Nat /\ n \in Nat
    BY <2>1, PubSubAssumption DEF QueueInv
  <2>3. CommandMessage(c, n) \in Messages(scenario)
    BY <2>2 DEF Messages, CommandMessages
  <2>4. \A k \in Keys : ~ IsPrefix(k, CommandMessage(c, n)[1].topic)
    BY MarketDataAssumption DEF QueueInv, Keys, CommandMessage, Frame
  <2>5. /\ pipes' \in [Listeners -> Seq(Messages(scenario))]
        /\ \A w \in Watchers : pipes'[w] \in Seq(Pairs(scenario))
    BY <2>1, <2>3, <2>4, PublishQueue
  <2> QED BY <2>1, <2>2, <2>5 DEF QueueInv, Keys
<1> QED BY <1>1, <1>2, <1>3, <1>4 DEF Others

LEMMA QueueStep ==
  ASSUME FeedInv, QueueInv, [Next]_vars
  PROVE  QueueInv'
<1>1. CASE UNCHANGED vars
  BY <1>1, QueueUnchanged DEF vars, queueVars, pubVars, feedVars, agentVars
<1> QED BY <1>1, TickQueue, AgentStepQueue, WatcherStepQueue, OtherStepQueue DEF Next

LEMMA QueueInitially ==
  ASSUME Init
  PROVE  QueueInv
<1> USE DEF Init, PubInit, FeedInit, AgentInit
<1>1. /\ scenario \in Scenarios /\ ticks \in Nat /\ commands \in Nat
      /\ inbound \in Seq(FeedMessages(scenario))
  OBVIOUS
<1>2. /\ pipes \in [Listeners -> Seq(Messages(scenario))]
      /\ taken \in [Listeners -> Seq(Messages(scenario))]
      /\ part = [l \in Listeners |-> part[l]] /\ subs = [l \in Listeners |-> subs[l]]
      /\ \A l \in Listeners \ Agents : part[l] = << >>
  OBVIOUS
<1>3. \A w \in Watchers : subs[w] \in {{}, Keys} /\ pipes[w] \in Seq(Pairs(scenario))
  BY WatcherAssumption
<1> QED BY <1>1, <1>2, <1>3 DEF QueueInv
-----------------------------------------------------------------------------
(* The watchers *)

LEMMA RangeOfAppend ==
  ASSUME NEW S, NEW s \in Seq(S), NEW x \in S
  PROVE  Range(Append(s, x)) = Range(s) \cup {x}
<1> DEFINE t == Append(s, x)
<1>1. t \in Seq(S) /\ Len(t) = Len(s) + 1 /\ t[Len(s) + 1] = x /\ \A i \in 1 .. Len(s) : t[i] = s[i]
  OBVIOUS
<1>2. DOMAIN t = 1 .. Len(s) + 1 /\ DOMAIN s = 1 .. Len(s) /\ Len(s) \in Nat
  BY <1>1
<1> HIDE DEF t
<1>3. DOMAIN t = DOMAIN s \cup {Len(s) + 1}
  BY <1>2
<1> QED BY <1>1, <1>2, <1>3 DEF Range

\* The constructor waits for what has not been said, or was warned: the listener took the
\* mutex before there was one.
WakeInv ==
  \A w \in Watchers :
    /\ ready[w] <=> listener[w] \in {"notifying", "running", "stopped"}
    /\ main[w] = "checked" /\ listener[w] \in {"locked", "notifying", "running"} => early[w]
    /\ main[w] = "waiting" /\ listener[w] = "running" => early[w]

\* The threads of one watcher are its own.
WatchShape ==
  /\ main = [w \in Watchers |-> main[w]]
  /\ listener = [w \in Watchers |-> listener[w]]
  /\ ready = [w \in Watchers |-> ready[w]]
  /\ early = [w \in Watchers |-> early[w]]

WatchInv == WatchShape /\ WakeInv /\ StopsOnlyAtEnd

LEMMA WakeStep ==
  ASSUME WatchInv, NEW w \in Watchers, Watch(w)
  PROVE  WatchShape' /\ WakeInv'
<1> USE DEF WatchInv, WatchShape, WakeInv, At, ListenerAt
<1>1. CASE Construct(w)
  BY <1>1 DEF Construct
<1>2. CASE CheckReady(w)
  BY <1>2 DEF CheckReady
<1>3. CASE WaitReady(w)
  BY <1>3 DEF WaitReady
<1>4. CASE Listen(w)
  BY <1>4 DEF Listen
<1>5. CASE LockReady(w)
  BY <1>5 DEF LockReady
<1>6. CASE SetReady(w)
  BY <1>6 DEF SetReady
<1>7. CASE NotifyReady(w)
  BY <1>7 DEF NotifyReady
<1>8. CASE ReceiveMessage(w)
  BY <1>8 DEF ReceiveMessage, process_raw_message
<1>9. CASE InterruptWatcher(w)
  BY <1>9 DEF InterruptWatcher, watcherVars
<1> QED BY <1>1, <1>2, <1>3, <1>4, <1>5, <1>6, <1>7, <1>8, <1>9 DEF Watch

\* What was taken stays taken.
LEMMA TakenGrows ==
  ASSUME QueueInv, [Next]_vars, NEW l \in Listeners
  PROVE  Range(taken[l]) \subseteq Range(taken[l])'
<1>1. CASE UNCHANGED taken
  BY <1>1
<1>2. ASSUME NEW k \in Listeners, NEW count, CanReceive(k), Receive(k, count)
      PROVE  Range(taken[l]) \subseteq Range(taken[l])'
  <2>1. CASE part[k] # << >>
    BY <1>2, <2>1 DEF Receive
  <2>2. CASE part[k] = << >>
    <3>1. /\ Incoming(k) \in Messages(scenario) /\ taken'[k] = Append(taken[k], Incoming(k))
          /\ \A j \in Listeners \ {k} : taken'[j] = taken[j]
      BY <1>2, <2>2, ReceiveQueue
    <3>2. taken[k] \in Seq(Messages(scenario))
      BY DEF QueueInv
    <3>3. Range(taken'[k]) = Range(taken[k]) \cup {Incoming(k)}
      BY <3>1, <3>2, RangeOfAppend
    <3> QED BY <3>1, <3>3
  <2> QED BY <2>1, <2>2
<1>3. CASE UNCHANGED vars
  BY <1>3 DEF vars, pubVars
<1>4. CASE Feed
  BY <1>4 DEF Feed, restOfFeed
<1>5. ASSUME NEW a \in Agents, Agent(a) PROVE Range(taken[l]) \subseteq Range(taken[l])'
  <2>1. a \in Listeners
    BY MarketDataSubscriberAssumption
  <2>2. UNCHANGED taken \/ (CanReceive(a) /\ \E count \in {1, 2} : Receive(a, count))
    BY <1>5 DEF Agent, Initialize, Start, ReceiveTopic, InterruptTopic, AdminMessage, Body, InterruptBody,
       Subscribe, pubVars
  <2> QED BY <1>1, <1>2, <2>1, <2>2
<1>6. ASSUME NEW w \in Watchers, Watch(w) PROVE Range(taken[l]) \subseteq Range(taken[l])'
  <2>1. w \in Listeners
    BY WatcherAssumption
  <2>2. UNCHANGED taken \/ (CanReceive(w) /\ Receive(w, 2))
    BY <1>6 DEF Watch, Construct, CheckReady, WaitReady, Listen, LockReady, SetReady, NotifyReady,
       ReceiveMessage, InterruptWatcher, pubVars
  <2> QED BY <1>1, <1>2, <2>1, <2>2
<1>7. CASE Others
  BY <1>7 DEF Others, Forward, InterruptPublisher, EndOfData, Command
<1> QED BY <1>3, <1>4, <1>5, <1>6, <1>7 DEF Next

LEMMA ScenarioStays ==
  ASSUME [Next]_vars
  PROVE  scenario' = scenario
<1>1. CASE UNCHANGED vars
  BY <1>1 DEF vars, pubVars
<1>2. CASE Feed
  BY <1>2 DEF Feed, restOfFeed
<1>3. ASSUME NEW a \in Agents, Agent(a) PROVE scenario' = scenario
  BY <1>3 DEF Agent, Initialize, Start, ReceiveTopic, InterruptTopic, AdminMessage, Body, InterruptBody,
     Subscribe, pubVars
<1>4. ASSUME NEW w \in Watchers, Watch(w) PROVE scenario' = scenario
  BY <1>4 DEF Watch, Construct, CheckReady, WaitReady, Listen, LockReady, SetReady, NotifyReady,
     ReceiveMessage, InterruptWatcher, pubVars
<1>5. CASE Others
  BY <1>5 DEF Others, Forward, InterruptPublisher, EndOfData, Command
<1> QED BY <1>1, <1>2, <1>3, <1>4, <1>5 DEF Next

LEMMA StopsStep ==
  ASSUME QueueInv, WatchInv, [Next]_vars
  PROVE  StopsOnlyAtEnd'
<1>1. SUFFICES ASSUME NEW w \in Watchers, listener'[w] = "stopped"
               PROVE  \E m \in Range(taken[w])' : m[1].topic \notin scenario'.symbols
  BY DEF StopsOnlyAtEnd
<1>2. w \in Listeners
  BY WatcherAssumption
<1>3. Range(taken[w]) \subseteq Range(taken[w])'
  BY <1>2, TakenGrows
<1>4. scenario' = scenario
  BY ScenarioStays
<1>5. CASE listener[w] = "stopped"
  BY <1>3, <1>4, <1>5 DEF WatchInv, StopsOnlyAtEnd
<1>6. CASE listener[w] # "stopped"
  <2>1. ReceiveMessage(w)
    <3>1. \E v \in Watchers : Watch(v)
      BY <1>1, <1>6 DEF Next, vars, watcherVars, Feed, Agent, Others, EndOfData
    <3>2. PICK v \in Watchers : Watch(v)
      BY <3>1
    <3> QED BY <1>1, <1>6, <3>2 DEF Watch, Construct, CheckReady, WaitReady, Listen, LockReady, SetReady,
         NotifyReady, ReceiveMessage, InterruptWatcher, process_raw_message, At, ListenerAt, watcherVars,
         WatchInv, WatchShape
  <2>2. /\ Incoming(w) \in Pairs(scenario) /\ taken'[w] = Append(taken[w], Incoming(w))
        /\ taken[w] \in Seq(Messages(scenario)) /\ Incoming(w) \in Messages(scenario)
    BY <1>2, <2>1, WatcherReceives DEF QueueInv, Pairs, Messages
  <2>3. Incoming(w) \in Range(taken'[w])
    BY <2>2, RangeOfAppend
  <2>4. Incoming(w)[1].topic \notin scenario.symbols
    BY <1>1, <1>6, <2>1 DEF ReceiveMessage, process_raw_message
  <2> QED BY <1>4, <2>3, <2>4
<1> QED BY <1>5, <1>6

LEMMA WatchStep ==
  ASSUME QueueInv, WatchInv, [Next]_vars
  PROVE  WatchInv'
<1>1. CASE UNCHANGED <<main, listener, ready, early>>
  BY <1>1, StopsStep DEF WatchInv, WatchShape, WakeInv
<1>2. CASE \E w \in Watchers : Watch(w)
  BY <1>2, WakeStep, StopsStep DEF WatchInv
<1>3. UNCHANGED <<main, listener, ready, early>> \/ \E w \in Watchers : Watch(w)
  BY DEF Next, vars, watcherVars, Feed, Agent, Others, EndOfData
<1> QED BY <1>1, <1>2, <1>3

LEMMA WatchInitially ==
  ASSUME Init
  PROVE  WatchInv
BY DEF Init, WatcherInit, WatchInv, WatchShape, WakeInv, StopsOnlyAtEnd

\* A watcher's listener ends only on the end of the data or on a topic that its symbols are
\* a proper prefix of, and the constructor misses its wakeup only if the listener took the
\* mutex before it was constructed, for any feed and any interleaving of the two threads
\* (message_processor.cpp:39-116).
THEOREM ListenersLive == Spec => []ListenerLives
<1>1. Init => FeedInv /\ QueueInv /\ WatchInv
  BY FeedInitially, QueueInitially, WatchInitially
<1>2. FeedInv /\ QueueInv /\ WatchInv /\ [Next]_vars => (FeedInv /\ QueueInv /\ WatchInv)'
  BY FeedStep, QueueStep, WatchStep
<1>3. WatchInv => ListenerLives
  BY DEF WatchInv, WakeInv, ListenerLives, MissesWakeupOnlyEarly
<1> QED BY <1>1, <1>2, <1>3, PTL DEF Spec
-----------------------------------------------------------------------------
(* The agents *)

Must(m) == m[2].kind # "word" \/ Under("admin:", m[1])

\* What an agent has taken and neither processed nor obeyed.
Owed(a) == ({m[1].n : m \in Expected(a)} \ Numbers(heard[a])) \ obeyed[a]

AtMost(S, k) == IsFiniteSet(S) /\ Cardinality(S) <= k

\* Between two messages.
InStep(a) ==
  /\ agent[a].pc \in {"idle", "topic"} /\ part[a] = << >>
  /\ AtMost(Owed(a), interrupts[a])

\* The first frame of m has been received.
Fed(a, m) ==
  /\ agent[a].pc = "body" /\ agent[a].frame1 = m[1] /\ agent[a].more
  /\ part[a] = IF CommandShape(m) THEN <<m[2], m[3]>> ELSE <<m[2]>>
  /\ AtMost(IF Must(m) THEN Owed(a) \ {m[1].n} ELSE Owed(a), interrupts[a])

\* The wait for a first frame was interrupted: that of the next message will be lost.
Interrupted(a) ==
  /\ agent[a].pc = "body" /\ agent[a].frame1 = Empty /\ agent[a].more /\ part[a] = << >>
  /\ \E k \in Nat : AtMost(Owed(a), k) /\ k + 1 <= interrupts[a]

\* The rest of a message, one frame or two, is next.
Shifted(a) ==
  /\ agent[a].pc = "topic"
  /\ \E x, y : /\ part[a] \in {<<x>>, <<x, y>>}
               /\ ~ Under("admin:", x) /\ y.kind = "word"
  /\ AtMost(Owed(a), interrupts[a])

\* The first frame of that rest was received as a topic.
Ending(a) ==
  /\ agent[a].pc = "body" /\ ~ Under("admin:", agent[a].frame1)
  /\ \/ agent[a].more /\ \E y : part[a] = <<y>> /\ y.kind = "word"
     \/ ~ agent[a].more /\ part[a] = << >>
  /\ AtMost(Owed(a), interrupts[a])

Phase(a) ==
  \/ InStep(a)
  \/ \E m \in Range(taken[a]) : Fed(a, m)
  \/ Interrupted(a)
  \/ Shifted(a)
  \/ Ending(a)

\* The pairs that process() may get.
Whole(sc) == {m \in Messages(sc) : FeedShape(m)}

AgentShape ==
  /\ agent = [a \in Agents |-> agent[a]]
  /\ obeyed = [a \in Agents |-> obeyed[a]]
  /\ interrupts \in [Waiters -> Nat]
  /\ heard \in [Agents -> Seq(Whole(scenario))]

AgentInv == AgentShape /\ \A a \in Agents : Phase(a)

LEMMA AtMostSubset ==
  ASSUME NEW S, NEW k \in Nat, AtMost(S, k), NEW j \in Nat, k <= j, NEW T \in SUBSET S
  PROVE  AtMost(T, j)
<1>1. IsFiniteSet(T) /\ Cardinality(T) <= Cardinality(S)
  BY FS_Subset DEF AtMost
<1>2. Cardinality(S) \in Nat /\ Cardinality(T) \in Nat
  BY <1>1, FS_CardinalityType DEF AtMost
<1> QED BY <1>1, <1>2 DEF AtMost

LEMMA AtMostAdded ==
  ASSUME NEW S, NEW k \in Nat, AtMost(S, k), NEW x, NEW j \in Nat, k + 1 <= j
  PROVE  AtMost(S \cup {x}, j)
<1>1. /\ IsFiniteSet(S \cup {x})
      /\ Cardinality(S \cup {x}) = Cardinality(S) \/ Cardinality(S \cup {x}) = Cardinality(S) + 1
  BY FS_AddElement DEF AtMost
<1>2. Cardinality(S) \in Nat
  BY FS_CardinalityType DEF AtMost
<1> QED BY <1>1, <1>2 DEF AtMost

LEMMA SubSeqPair ==
  ASSUME NEW x, NEW y
  PROVE  SubSeq(<<x, y>>, 2, 2) = <<y>>
<1> DEFINE s == SubSeq(<<x, y>>, 2, 2)
<1>1. s \in Seq({x, y}) /\ Len(s) = 1 /\ s[1] = y
  OBVIOUS
<1> HIDE DEF s
<1>2. s = <<y>>
  BY <1>1
<1> QED BY <1>2 DEF s

LEMMA SubSeqTriple ==
  ASSUME NEW x, NEW y, NEW z
  PROVE  SubSeq(<<x, y, z>>, 2, 3) = <<y, z>>
<1> DEFINE s == SubSeq(<<x, y, z>>, 2, 3)
<1>1. s \in Seq({x, y, z}) /\ Len(s) = 2 /\ s[1] = y /\ s[2] = z
  OBVIOUS
<1> HIDE DEF s
<1>2. s = <<y, z>>
  BY <1>1
<1> QED BY <1>2 DEF s

\* What is left of a message after its first frame.
LEMMA RestOfMessage ==
  ASSUME NEW m, FeedShape(m) \/ CommandShape(m) \/ EndShape(m)
  PROVE  /\ Head(m) = m[1] /\ Len(m) > 1
         /\ SubSeq(m, 2, Len(m)) = IF CommandShape(m) THEN <<m[2], m[3]>> ELSE <<m[2]>>
<1>1. CASE CommandShape(m)
  <2>1. m = <<m[1], m[2], m[3]>>
    BY <1>1 DEF CommandShape
  <2>2. Head(m) = m[1] /\ Len(m) = 3
    BY <2>1
  <2>3. SubSeq(m, 2, 3) = <<m[2], m[3]>>
    BY <2>1, SubSeqTriple
  <2> QED BY <1>1, <2>2, <2>3
<1>2. CASE ~ CommandShape(m)
  <2>1. m = <<m[1], m[2]>>
    BY <1>2 DEF FeedShape, EndShape
  <2>2. Head(m) = m[1] /\ Len(m) = 2
    BY <2>1
  <2>3. SubSeq(m, 2, 2) = <<m[2]>>
    BY <2>1, SubSeqPair
  <2> QED BY <1>2, <2>2, <2>3
<1> QED BY <1>1, <1>2

\* A message that is taken is owed, if at all, by its number.
LEMMA TakingOwes ==
  ASSUME QueueInv, NEW a \in Agents, NEW m \in Messages(scenario),
         taken'[a] = Append(taken[a], m), heard'[a] = heard[a], obeyed'[a] = obeyed[a]
  PROVE  /\ m \in Range(taken'[a])
         /\ Owed(a)' \subseteq Owed(a) \cup {m[1].n}
         /\ ~ Must(m) => Owed(a)' \subseteq Owed(a)
<1>1. taken[a] \in Seq(Messages(scenario))
  BY MarketDataSubscriberAssumption DEF QueueInv
<1>2. Range(taken'[a]) = Range(taken[a]) \cup {m}
  BY <1>1, RangeOfAppend
<1>3. Expected(a)' \subseteq Expected(a) \cup {m} /\ (~ Must(m) => Expected(a)' \subseteq Expected(a))
  BY <1>2 DEF Expected, Must, Under
<1> QED BY <1>2, <1>3 DEF Owed, Numbers

\* What an agent is not concerned with.
LEMMA PhaseStays ==
  ASSUME NEW a \in Agents, Phase(a), interrupts[a] \in Nat, interrupts'[a] \in Nat,
         interrupts[a] <= interrupts'[a],
         UNCHANGED <<agent[a], heard[a], obeyed[a], part[a], taken[a]>>
  PROVE  Phase(a)'
<1>1. Owed(a)' = Owed(a) /\ Range(taken[a])' = Range(taken[a])
  BY DEF Owed, Expected, Numbers
<1>2. AtMost(Owed(a), interrupts[a]) => AtMost(Owed(a)', interrupts'[a])
  BY <1>1, AtMostSubset
<1>3. CASE InStep(a)
  BY <1>2, <1>3 DEF InStep, Phase
<1>4. ASSUME NEW m \in Range(taken[a]), Fed(a, m) PROVE Phase(a)'
  <2>1. AtMost(IF Must(m) THEN Owed(a) \ {m[1].n} ELSE Owed(a), interrupts'[a])
    BY <1>4, AtMostSubset DEF Fed
  <2>2. Fed(a, m)'
    BY <1>1, <1>4, <2>1 DEF Fed
  <2> QED BY <1>1, <2>2 DEF Phase
<1>5. CASE Interrupted(a)
  <2>1. PICK k \in Nat : AtMost(Owed(a), k) /\ k + 1 <= interrupts[a]
    BY <1>5 DEF Interrupted
  <2>2. k + 1 <= interrupts'[a]
    BY <2>1
  <2> QED BY <1>1, <1>5, <2>1, <2>2 DEF Interrupted, Phase
<1>6. CASE Shifted(a)
  BY <1>2, <1>6 DEF Shifted, Phase
<1>7. CASE Ending(a)
  BY <1>2, <1>7 DEF Ending, Phase
<1> QED BY <1>3, <1>4, <1>5, <1>6, <1>7 DEF Phase

LEMMA TopicPhase ==
  ASSUME QueueInv, AgentInv, NEW a \in Agents, ReceiveTopic(a)
  PROVE  Phase(a)'
<1>0. a \in Listeners /\ interrupts[a] \in Nat /\ interrupts'[a] = interrupts[a]
  BY MarketDataSubscriberAssumption DEF AgentInv, AgentShape, Waiters, ReceiveTopic
<1>1. /\ agent[a].pc = "topic" /\ CanReceive(a) /\ Receive(a, 1)
      /\ heard'[a] = heard[a] /\ obeyed'[a] = obeyed[a]
      /\ agent'[a] = [pc |-> "body", frame1 |-> Head(Incoming(a)), more |-> Len(Incoming(a)) > 1]
  BY DEF ReceiveTopic, AgentInv, AgentShape
<1>2. InStep(a) \/ Shifted(a)
  BY <1>1 DEF AgentInv, Phase, Fed, Interrupted, Ending
<1>3. PICK m : m = Incoming(a)
  OBVIOUS
<1>a. agent'[a].pc = "body" /\ agent'[a].frame1 = Head(m)
  BY <1>1, <1>3
<1>b. agent'[a].more <=> Len(m) > 1
  <2>1. agent'[a].more = (Len(m) > 1)
    BY <1>1, <1>3
  <2> QED BY <2>1
<1>4. part'[a] = SubSeq(m, 1 + 1, Len(m))
  BY <1>0, <1>1, <1>3, ReceiveQueue
<1>5. part'[a] = SubSeq(m, 2, Len(m))
  BY <1>4
<1>6. CASE InStep(a)
  <2>1. part[a] = << >>
    BY <1>6 DEF InStep
  <2>2. m \in Messages(scenario) /\ taken'[a] = Append(taken[a], m)
    BY <1>0, <1>1, <1>3, <2>1, ReceiveQueue
  <2>3. FeedShape(m) \/ CommandShape(m) \/ EndShape(m)
    BY <2>2, MessageShape DEF QueueInv
  <2>4. /\ m \in Range(taken'[a]) /\ Owed(a)' \subseteq Owed(a) \cup {m[1].n}
        /\ ~ Must(m) => Owed(a)' \subseteq Owed(a)
    BY <1>1, <2>2, TakingOwes
  <2>5. AtMost(IF Must(m) THEN Owed(a)' \ {m[1].n} ELSE Owed(a)', interrupts'[a])
    BY <1>0, <1>6, <2>4, AtMostSubset DEF InStep
  <2>6. /\ Head(m) = m[1] /\ Len(m) > 1
        /\ SubSeq(m, 2, Len(m)) = IF CommandShape(m) THEN <<m[2], m[3]>> ELSE <<m[2]>>
    BY <2>3, RestOfMessage
  <2>7. agent'[a].pc = "body" /\ agent'[a].frame1 = m[1] /\ agent'[a].more
    BY <1>a, <1>b, <2>6
  <2>8. Fed(a, m)'
    BY <1>5, <2>5, <2>6, <2>7 DEF Fed
  <2> QED BY <2>4, <2>8 DEF Phase
<1>7. CASE Shifted(a)
  <2>1. PICK x, y : part[a] \in {<<x>>, <<x, y>>} /\ ~ Under("admin:", x) /\ y.kind = "word"
    BY <1>7 DEF Shifted
  <2>2. part[a] # << >>
    BY <2>1
  <2>3. m = part[a] /\ taken'[a] = taken[a]
    BY <1>0, <1>1, <1>3, <2>2, ReceiveQueue
  <2>4. AtMost(Owed(a)', interrupts'[a])
    <3>1. Owed(a)' = Owed(a)
      BY <1>1, <2>3 DEF Owed, Expected, Numbers
    <3> QED BY <1>0, <1>7, <3>1 DEF Shifted
  <2>5. CASE part[a] = <<x>>
    <3>1. Head(m) = x /\ Len(m) = 1
      BY <2>3, <2>5
    <3>2. SubSeq(<<x>>, 2, 1) = << >>
      OBVIOUS
    <3>3. part'[a] = << >>
      BY <1>5, <2>3, <2>5, <3>1, <3>2
    <3>4. agent'[a].pc = "body" /\ agent'[a].frame1 = x /\ ~ agent'[a].more
      BY <1>a, <1>b, <3>1
    <3>5. Ending(a)'
      BY <2>1, <2>4, <3>3, <3>4 DEF Ending
    <3> QED BY <3>5 DEF Phase
  <2>6. CASE part[a] = <<x, y>>
    <3>1. Head(m) = x /\ Len(m) = 2
      BY <2>3, <2>6
    <3>2. part'[a] = <<y>>
      BY <1>5, <2>3, <2>6, <3>1, SubSeqPair
    <3>3. agent'[a].pc = "body" /\ agent'[a].frame1 = x /\ agent'[a].more
      BY <1>a, <1>b, <3>1
    <3>4. Ending(a)'
      BY <2>1, <2>4, <3>2, <3>3 DEF Ending
    <3> QED BY <3>4 DEF Phase
  <2> QED BY <2>1, <2>5, <2>6
<1> QED BY <1>2, <1>6, <1>7

LEMMA AdminPhase ==
  ASSUME QueueInv, AgentInv, NEW a \in Agents, AdminMessage(a)
  PROVE  Phase(a)'
<1>0. a \in Listeners /\ interrupts[a] \in Nat /\ interrupts'[a] = interrupts[a]
  BY MarketDataSubscriberAssumption DEF AgentInv, AgentShape, Waiters, AdminMessage
<1>1. /\ agent[a].pc = "body" /\ CanReceive(a) /\ Receive(a, 2) /\ Under("admin:", agent[a].frame1)
      /\ heard'[a] = heard[a] /\ obeyed'[a] = obeyed[a] \cup {agent[a].frame1.n}
      /\ agent'[a].pc \in {"idle", "topic"}
  BY DEF AdminMessage, IsAdmin, Under, After, Idle, AgentInv, AgentShape
<1>2. PICK m \in Range(taken[a]) : Fed(a, m)
  BY <1>1 DEF AgentInv, Phase, InStep, Interrupted, Shifted, Ending, Under, Empty, Frame
<1>3. m \in Messages(scenario)
  <2>1. taken[a] \in Seq(Messages(scenario))
    BY <1>0 DEF QueueInv
  <2> QED BY <2>1 DEF Range
<1>4. CommandShape(m) /\ Must(m)
  <2>1. Under("admin:", m[1])
    BY <1>1, <1>2 DEF Fed
  <2>2. FeedShape(m) \/ CommandShape(m) \/ EndShape(m)
    BY <1>3, MessageShape DEF QueueInv
  <2> QED BY <2>1, <2>2 DEF FeedShape, EndShape, Must
<1>5. part[a] = <<m[2], m[3]>> /\ part[a] # << >>
  BY <1>2, <1>4 DEF Fed
<1>6. part'[a] = SubSeq(part[a], 2 + 1, Len(part[a])) /\ taken'[a] = taken[a]
  <2>1. Incoming(a) = part[a] /\ taken' = taken
    BY <1>0, <1>1, <1>5, ReceiveQueue
  <2>2. part'[a] = SubSeq(Incoming(a), 2 + 1, Len(Incoming(a)))
    BY <1>0, <1>1, ReceiveQueue
  <2> QED BY <2>1, <2>2
<1>7. part'[a] = << >>
  <2>1. SubSeq(<<m[2], m[3]>>, 3, 2) = << >>
    OBVIOUS
  <2> QED BY <1>5, <1>6, <2>1
<1>8. Owed(a)' = Owed(a) \ {m[1].n}
  BY <1>1, <1>2, <1>6 DEF Owed, Expected, Numbers, Fed
<1>9. AtMost(Owed(a)', interrupts'[a])
  BY <1>0, <1>2, <1>4, <1>8 DEF Fed
<1> QED BY <1>1, <1>7, <1>9 DEF Phase, InStep
\* A wait for the second frame, or none: what the agent goes on from.
LEMMA BodyPhase ==
  ASSUME QueueInv, AgentInv, NEW a \in Agents, Body(a)
  PROVE  /\ Phase(a)'
         /\ heard' \in [Agents -> Seq(Whole(scenario))]
         /\ \A b \in Agents \ {a} : heard'[b] = heard[b]
<1>0. /\ a \in Listeners /\ interrupts[a] \in Nat /\ interrupts'[a] = interrupts[a]
      /\ obeyed'[a] = obeyed[a] /\ heard \in [Agents -> Seq(Whole(scenario))]
  BY MarketDataSubscriberAssumption DEF AgentInv, AgentShape, Waiters, Body
<1>1. agent[a].pc = "body" /\ ~ Under("admin:", agent[a].frame1)
  BY DEF Body, IsAdmin, Under
<1>2. agent'[a].pc \in {"idle", "topic"} /\ (heard' = heard => agent'[a].pc = "topic")
  <2>1. agent = [b \in Agents |-> agent[b]]
    BY DEF AgentInv, AgentShape
  <2>2. CASE Unparsed(a)
    BY <2>1, <2>2 DEF Unparsed, After, Idle
  <2>3. ASSUME heard' = [heard EXCEPT ![a] = Append(@, <<agent[a].frame1, Head(Incoming(a))>>)],
               NEW go, agent' = [agent EXCEPT ![a] = After(a, go)]
        PROVE  agent'[a].pc \in {"idle", "topic"} /\ (heard' = heard => agent'[a].pc = "topic")
    <3>1. agent'[a].pc \in {"idle", "topic"}
      BY <2>1, <2>3 DEF After, Idle
    <3>2. heard'[a] = Append(heard[a], <<agent[a].frame1, Head(Incoming(a))>>)
      BY <1>0, <2>3
    <3>3. heard'[a] # heard[a]
      <4> DEFINE x == <<agent[a].frame1, Head(Incoming(a))>>
      <4>1. heard[a] \in Seq(Whole(scenario) \cup {x})
        BY <1>0
      <4>2. Len(Append(heard[a], x)) = Len(heard[a]) + 1 /\ Len(heard[a]) \in Nat
        BY <4>1
      <4> QED BY <3>2, <4>2
    <3> QED BY <3>1, <3>3
  <2> QED BY <2>2, <2>3 DEF Body, Process
<1>3. ASSUME NEW m \in Range(taken[a]), Fed(a, m)
      PROVE  /\ Phase(a)'
             /\ heard' \in [Agents -> Seq(Whole(scenario))]
             /\ \A b \in Agents \ {a} : heard'[b] = heard[b]
  <2>1. m \in Messages(scenario)
    <3>1. taken[a] \in Seq(Messages(scenario))
      BY <1>0 DEF QueueInv
    <3> QED BY <3>1 DEF Range
  <2>2. /\ agent[a].frame1 = m[1] /\ agent[a].more /\ ~ Under("admin:", m[1])
        /\ part[a] = IF CommandShape(m) THEN <<m[2], m[3]>> ELSE <<m[2]>>
    BY <1>1, <1>3 DEF Fed
  <2>3. part[a] # << >> /\ Head(part[a]) = m[2]
    BY <2>2
  <2>4. CanReceive(a) /\ Process(a, Head(Incoming(a)), Kind(a)) /\ Receive(a, 1)
    BY <2>2 DEF Body
  <2>5. Incoming(a) = part[a] /\ taken' = taken
    BY <1>0, <2>3, <2>4, ReceiveQueue
  <2>6. part'[a] = SubSeq(Incoming(a), 1 + 1, Len(Incoming(a)))
    BY <1>0, <2>4, ReceiveQueue
  <2>7. part'[a] = SubSeq(part[a], 2, Len(part[a])) /\ Process(a, m[2], Kind(a))
    BY <2>3, <2>4, <2>5, <2>6
  <2>8. Kind(a) = IF Under("depth", m[1]) THEN "depth" ELSE "data"
    BY <2>2 DEF Kind, IsDepth, Under
  <2>9. CASE FeedShape(m)
    <3>1. m[2].kind = Kind(a) /\ Must(m) /\ ~ CommandShape(m) /\ m = <<m[1], m[2]>>
      BY <2>8, <2>9 DEF FeedShape, Must, CommandShape
    <3>2. heard' = [heard EXCEPT ![a] = Append(@, m)]
      BY <2>2, <2>7, <3>1 DEF Process, ParsesAs
    <3>3. m \in Whole(scenario)
      BY <2>1, <2>9 DEF Whole
    <3>4. /\ heard' \in [Agents -> Seq(Whole(scenario))] /\ heard'[a] = Append(heard[a], m)
          /\ \A b \in Agents \ {a} : heard'[b] = heard[b]
      BY <1>0, <3>2, <3>3
    <3>5. part'[a] = << >>
      <4>1. SubSeq(<<m[2]>>, 2, 1) = << >> /\ Len(<<m[2]>>) = 1
        OBVIOUS
      <4> QED BY <2>2, <2>7, <3>1, <4>1
    <3>6. Range(heard'[a]) = Range(heard[a]) \cup {m}
      BY <1>0, <3>3, <3>4, RangeOfAppend
    <3>7. Owed(a)' = Owed(a) \ {m[1].n}
      BY <1>0, <2>5, <3>6 DEF Owed, Expected, Numbers
    <3>8. AtMost(Owed(a)', interrupts'[a])
      BY <1>0, <1>3, <3>1, <3>7 DEF Fed
    <3>9. InStep(a)'
      BY <1>2, <3>5, <3>8 DEF InStep
    <3> QED BY <3>4, <3>9 DEF Phase
  <2>10. CASE ~ FeedShape(m)
    <3>1. CommandShape(m) \/ EndShape(m)
      BY <2>1, <2>10, MessageShape DEF QueueInv
    <3>2. m[2].kind = "word" /\ ~ Must(m)
      BY <2>2, <3>1 DEF CommandShape, EndShape, Must
    <3>3. heard' = heard
      BY <2>7, <2>8, <3>2 DEF Process, ParsesAs, Unparsed
    <3>4. agent'[a].pc = "topic"
      BY <1>2, <3>3
    <3>5. AtMost(Owed(a)', interrupts'[a])
      <4>1. Owed(a)' = Owed(a)
        BY <1>0, <2>5, <3>3 DEF Owed, Expected, Numbers
      <4> QED BY <1>0, <1>3, <3>2, <4>1 DEF Fed
    <3>6. CASE CommandShape(m)
      <4>1. Len(<<m[2], m[3]>>) = 2
        OBVIOUS
      <4>2. part'[a] = <<m[3]>>
        BY <2>2, <2>7, <3>6, <4>1, SubSeqPair
      <4>3. ~ Under("admin:", m[3]) /\ m[3].kind = "word"
        BY <3>6 DEF CommandShape
      <4>4. Shifted(a)'
        BY <3>4, <3>5, <4>2, <4>3 DEF Shifted
      <4> QED BY <1>0, <3>3, <4>4 DEF Phase
    <3>7. CASE ~ CommandShape(m)
      <4>1. SubSeq(<<m[2]>>, 2, 1) = << >> /\ Len(<<m[2]>>) = 1
        OBVIOUS
      <4>2. part'[a] = << >>
        BY <2>2, <2>7, <3>7, <4>1
      <4>3. InStep(a)'
        BY <3>4, <3>5, <4>2 DEF InStep
      <4> QED BY <1>0, <3>3, <4>3 DEF Phase
    <3> QED BY <3>6, <3>7
  <2> QED BY <2>9, <2>10
<1>4. CASE Interrupted(a)
  <2>1. agent[a].frame1 = Empty /\ agent[a].more /\ part[a] = << >>
    BY <1>4 DEF Interrupted
  <2>2. CanReceive(a) /\ Process(a, Head(Incoming(a)), Kind(a)) /\ Receive(a, 1)
    BY <2>1 DEF Body
  <2>3. PICK m : m = Incoming(a)
    OBVIOUS
  <2>4. m \in Messages(scenario) /\ taken'[a] = Append(taken[a], m)
    BY <1>0, <2>1, <2>2, <2>3, ReceiveQueue
  <2>5. FeedShape(m) \/ CommandShape(m) \/ EndShape(m)
    BY <2>4, MessageShape DEF QueueInv
  <2>6. part'[a] = SubSeq(m, 1 + 1, Len(m))
    BY <1>0, <2>2, <2>3, ReceiveQueue
  <2>7. part'[a] = SubSeq(m, 2, Len(m))
    BY <2>6
  <2>8. /\ Head(m) = m[1]
        /\ part'[a] = IF CommandShape(m) THEN <<m[2], m[3]>> ELSE <<m[2]>>
    BY <2>5, <2>7, RestOfMessage
  <2>9. m[1].kind = "topic" /\ ~ Under("admin:", m[2]) /\ (CommandShape(m) => m[3].kind = "word")
    BY <2>5 DEF FeedShape, CommandShape, EndShape
  <2>10. heard' = heard
    <3>1. Kind(a) = "data"
      BY <2>1 DEF Kind, IsDepth, Empty, Frame
    <3> QED BY <2>2, <2>3, <2>8, <2>9, <3>1 DEF Process, ParsesAs, Unparsed
  <2>11. Owed(a)' \subseteq Owed(a) \cup {m[1].n}
    BY <1>0, <2>4, <2>10, TakingOwes
  <2>12. AtMost(Owed(a)', interrupts'[a])
    <3>1. PICK k \in Nat : AtMost(Owed(a), k) /\ k + 1 <= interrupts[a]
      BY <1>4 DEF Interrupted
    <3>2. AtMost(Owed(a) \cup {m[1].n}, interrupts[a])
      BY <1>0, <3>1, AtMostAdded
    <3> QED BY <1>0, <2>11, <3>2, AtMostSubset
  <2>13. \E x, y : /\ part'[a] \in {<<x>>, <<x, y>>}
                   /\ ~ Under("admin:", x) /\ y.kind = "word"
    <3>1. CASE CommandShape(m)
      BY <2>8, <2>9, <3>1
    <3>2. CASE ~ CommandShape(m)
      <4>1. EndMessage[2].kind = "word"
        BY DEF EndMessage, Frame
      <4> QED BY <2>8, <2>9, <3>2, <4>1
    <3> QED BY <3>1, <3>2
  <2>14. Shifted(a)'
    BY <1>2, <2>10, <2>12, <2>13 DEF Shifted
  <2> QED BY <1>0, <2>10, <2>14 DEF Phase
<1>5. CASE Ending(a)
  <2>1. heard' = heard /\ part'[a] = << >> /\ taken'[a] = taken[a]
    <3>1. CASE ~ agent[a].more
      BY <1>5, <3>1 DEF Ending, Body, Unparsed
    <3>2. CASE agent[a].more
      <4>1. PICK y : part[a] = <<y>> /\ y.kind = "word"
        BY <1>5, <3>2 DEF Ending
      <4>2. CanReceive(a) /\ Process(a, Head(Incoming(a)), Kind(a)) /\ Receive(a, 1)
        BY <3>2 DEF Body
      <4>3. part[a] # << >> /\ Head(<<y>>) = y /\ SubSeq(<<y>>, 2, 1) = << >> /\ Len(<<y>>) = 1
        BY <4>1
      <4>4. Incoming(a) = part[a] /\ taken' = taken
        BY <1>0, <4>2, <4>3, ReceiveQueue
      <4>5. part'[a] = SubSeq(Incoming(a), 1 + 1, Len(Incoming(a)))
        BY <1>0, <4>2, ReceiveQueue
      <4>6. part'[a] = << >>
        BY <4>1, <4>3, <4>4, <4>5
      <4>7. Process(a, y, Kind(a)) /\ Kind(a) # "word"
        BY <4>1, <4>2, <4>3, <4>4 DEF Kind
      <4> QED BY <4>1, <4>4, <4>6, <4>7 DEF Process, ParsesAs, Unparsed
    <3> QED BY <3>1, <3>2
  <2>2. AtMost(Owed(a)', interrupts'[a])
    <3>1. Owed(a)' = Owed(a)
      BY <1>0, <2>1 DEF Owed, Expected, Numbers
    <3> QED BY <1>0, <1>5, <3>1 DEF Ending
  <2>3. InStep(a)'
    BY <1>2, <2>1, <2>2 DEF InStep
  <2> QED BY <1>0, <2>1, <2>3 DEF Phase
<1> QED BY <1>1, <1>3, <1>4, <1>5 DEF AgentInv, Phase, InStep, Shifted
LEMMA InterruptPhase ==
  ASSUME AgentInv, NEW a \in Agents, InterruptTopic(a) \/ InterruptBody(a)
  PROVE  Phase(a)'
<1>0. /\ interrupts[a] \in Nat /\ interrupts'[a] = interrupts[a] + 1 /\ part[a] = << >>
      /\ part' = part /\ taken' = taken /\ obeyed' = obeyed /\ heard' = heard
  BY MarketDataSubscriberAssumption DEF AgentInv, AgentShape, Waiters, InterruptTopic, InterruptBody,
     MayInterrupt, CanReceive, Incoming, Unparsed
<1>1. Owed(a)' = Owed(a)
  BY <1>0 DEF Owed, Expected, Numbers
<1>2. agent = [b \in Agents |-> agent[b]]
  BY DEF AgentInv, AgentShape
<1>a. ~ Shifted(a)
  BY <1>0 DEF Shifted
<1>b. ASSUME NEW m PROVE ~ Fed(a, m)
  <2>1. <<m[2], m[3]>> # << >> /\ <<m[2]>> # << >>
    OBVIOUS
  <2> QED BY <1>0, <2>1 DEF Fed
<1>c. ~ (agent[a].more /\ Ending(a))
  BY <1>0 DEF Ending
<1>3. CASE InterruptTopic(a)
  <2>1. agent'[a] = [pc |-> "body", frame1 |-> Empty, more |-> TRUE] /\ agent[a].pc = "topic"
    BY <1>2, <1>3 DEF InterruptTopic
  <2>2. InStep(a)
    BY <1>a, <1>b, <2>1 DEF AgentInv, Phase, Interrupted, Ending
  <2>3. AtMost(Owed(a)', interrupts[a]) /\ interrupts[a] + 1 <= interrupts'[a]
    BY <1>0, <1>1, <2>2 DEF InStep
  <2>4. Interrupted(a)'
    BY <1>0, <2>1, <2>3 DEF Interrupted
  <2> QED BY <2>4 DEF Phase
<1>4. CASE InterruptBody(a)
  <2>1. agent'[a].pc = "topic" /\ agent[a].pc = "body" /\ agent[a].more
    BY <1>2, <1>4 DEF InterruptBody, Unparsed, After, Idle
  <2>2. Interrupted(a)
    BY <1>a, <1>b, <1>c, <2>1 DEF AgentInv, Phase, InStep
  <2>3. PICK k \in Nat : AtMost(Owed(a), k) /\ k + 1 <= interrupts[a]
    BY <2>2 DEF Interrupted
  <2>4. AtMost(Owed(a)', interrupts'[a])
    <3>1. k <= interrupts'[a] /\ interrupts'[a] \in Nat
      BY <1>0, <2>3
    <3> QED BY <1>1, <2>3, <3>1, AtMostSubset
  <2>5. InStep(a)'
    BY <1>0, <2>1, <2>4 DEF InStep
  <2> QED BY <2>5 DEF Phase
<1> QED BY <1>3, <1>4

LEMMA StartPhase ==
  ASSUME AgentInv, NEW a \in Agents, Start(a)
  PROVE  Phase(a)'
<1>1. /\ agent[a].pc = "idle" /\ agent'[a].pc = "topic"
      /\ UNCHANGED <<part, taken, interrupts, heard, obeyed>>
  <2> DEFINE r == [agent[a] EXCEPT !.pc = "topic"]
  <2>1. agent = [b \in Agents |-> agent[b]] /\ agent' = [agent EXCEPT ![a] = r]
    BY DEF AgentInv, AgentShape, Start
  <2>2. agent[a].pc = "idle" /\ UNCHANGED <<part, taken, interrupts, heard, obeyed>>
    BY DEF Start, pubVars
  <2>3. agent'[a] = r
    <3> HIDE DEF r
    <3> QED BY <2>1
  <2> QED BY <2>2, <2>3
<1>2. InStep(a)
  BY <1>1 DEF AgentInv, Phase, Fed, Interrupted, Shifted, Ending
<1>3. Owed(a)' = Owed(a)
  BY <1>1 DEF Owed, Expected, Numbers
<1>4. InStep(a)'
  BY <1>1, <1>2, <1>3 DEF InStep
<1> QED BY <1>4 DEF Phase

LEMMA AgentOwnStep ==
  ASSUME QueueInv, AgentInv, NEW a \in Agents, Agent(a)
  PROVE  AgentInv'
<1>0. a \in Listeners /\ a \in Waiters /\ agent = [b \in Agents |-> agent[b]]
      /\ obeyed = [b \in Agents |-> obeyed[b]] /\ scenario' = scenario
      /\ interrupts \in [Waiters -> Nat] /\ heard \in [Agents -> Seq(Whole(scenario))]
  BY MarketDataSubscriberAssumption DEF AgentInv, AgentShape, Waiters, Agent, Initialize, Start,
     ReceiveTopic, InterruptTopic, AdminMessage, Body, InterruptBody, Subscribe, pubVars
<1>1. agent' = agent \/ \E r : agent' = [agent EXCEPT ![a] = r]
  <2>1. CASE Start(a)
    <3>1. agent' = [agent EXCEPT ![a] = [agent[a] EXCEPT !.pc = "topic"]]
      BY <2>1 DEF Start
    <3> QED BY <3>1
  <2>2. CASE Body(a)
    BY <2>2 DEF Body, Process, Unparsed
  <2> QED BY <2>1, <2>2 DEF Agent, Initialize, ReceiveTopic, InterruptTopic, AdminMessage, InterruptBody,
       Subscribe, Unparsed, agentVars
<1>2. obeyed' = obeyed \/ \E r : obeyed' = [obeyed EXCEPT ![a] = r]
  BY DEF Agent, Initialize, Start, ReceiveTopic, InterruptTopic, AdminMessage, Body, InterruptBody,
     Subscribe, agentVars
<1>3. interrupts' = interrupts \/ interrupts' = [interrupts EXCEPT ![a] = @ + 1]
  BY DEF Agent, Initialize, Start, ReceiveTopic, InterruptTopic, AdminMessage, Body, InterruptBody,
     Subscribe, MayInterrupt, pubVars
<1>4. /\ heard' \in [Agents -> Seq(Whole(scenario))]
      /\ \A b \in Agents \ {a} : heard'[b] = heard[b]
  <2>1. CASE Body(a)
    BY <2>1, BodyPhase
  <2>2. CASE ~ Body(a)
    <3>1. heard' = heard
      BY <2>2 DEF Agent, Initialize, Start, ReceiveTopic, InterruptTopic, AdminMessage, InterruptBody,
         Subscribe, Unparsed, agentVars
    <3> QED BY <1>0, <3>1
  <2> QED BY <2>1, <2>2
<1>5. AgentShape'
  <2>1. agent' = [b \in Agents |-> agent'[b]]
    BY <1>0, <1>1
  <2>2. obeyed' = [b \in Agents |-> obeyed'[b]]
    BY <1>0, <1>2
  <2>3. interrupts' \in [Waiters -> Nat]
    BY <1>0, <1>3
  <2> QED BY <1>0, <1>4, <2>1, <2>2, <2>3 DEF AgentShape, Waiters
<1>6. ASSUME NEW b \in Agents, b # a PROVE Phase(b)'
  <2>1. b \in Listeners /\ b \in Waiters
    BY MarketDataSubscriberAssumption DEF Waiters
  <2>2. agent'[b] = agent[b] /\ obeyed'[b] = obeyed[b] /\ interrupts'[b] = interrupts[b]
    BY <1>0, <1>1, <1>2, <1>3, <1>6, <2>1
  <2>3. \/ UNCHANGED <<part, taken>>
        \/ CanReceive(a) /\ \E count \in {1, 2} : Receive(a, count)
    BY DEF Agent, Initialize, Start, ReceiveTopic, InterruptTopic, AdminMessage, Body, InterruptBody,
       Subscribe, pubVars
  <2>4. part'[b] = part[b] /\ taken'[b] = taken[b]
    <3>1. ASSUME CanReceive(a), NEW count \in {1, 2}, Receive(a, count)
          PROVE  part'[b] = part[b] /\ taken'[b] = taken[b]
      BY <1>0, <1>6, <2>1, <3>1, ReceiveQueue
    <3> QED BY <2>3, <3>1
  <2>5. interrupts[b] \in Nat /\ Phase(b)
    BY <1>0, <2>1 DEF AgentInv
  <2> QED BY <1>4, <1>6, <2>2, <2>4, <2>5, PhaseStays
<1>7. Phase(a)'
  <2>1. CASE Initialize(a) \/ \E t \in Topics : Subscribe(a, t)
    <3>1. UNCHANGED <<agent, heard, obeyed, part, taken, interrupts>>
      BY <2>1 DEF Initialize, Subscribe, agentVars
    <3>2. interrupts[a] \in Nat /\ Phase(a)
      BY <1>0 DEF AgentInv
    <3>3. interrupts'[a] = interrupts[a] /\ interrupts[a] <= interrupts[a]
      BY <3>1, <3>2
    <3> QED BY <3>1, <3>2, <3>3, PhaseStays
  <2> QED BY <2>1, TopicPhase, AdminPhase, BodyPhase, InterruptPhase, StartPhase DEF Agent
<1> QED BY <1>5, <1>6, <1>7 DEF AgentInv

LEMMA AgentElsewhere ==
  ASSUME QueueInv, AgentInv, [Next]_vars, ~ \E a \in Agents : Agent(a)
  PROVE  AgentInv'
<1>0. scenario' = scenario
  BY ScenarioStays
<1>1. agent' = agent /\ heard' = heard /\ obeyed' = obeyed
  BY DEF Next, vars, Feed, Watch, Others, Command, agentVars
<1>2. interrupts' = interrupts \/ \E x \in Waiters : interrupts' = [interrupts EXCEPT ![x] = @ + 1]
  <2>1. CASE UNCHANGED vars \/ Feed
    BY <2>1 DEF vars, pubVars, Feed, restOfFeed
  <2>2. ASSUME NEW w \in Watchers, Watch(w)
        PROVE  interrupts' = interrupts \/ interrupts' = [interrupts EXCEPT ![w] = @ + 1]
    BY <2>2 DEF Watch, Construct, CheckReady, WaitReady, Listen, LockReady, SetReady, NotifyReady,
       ReceiveMessage, InterruptWatcher, MayInterrupt, pubVars
  <2>3. CASE Others
    BY <2>3 DEF Others, Forward, InterruptPublisher, EndOfData, Command, MayInterrupt, Waiters
  <2> QED BY <2>1, <2>2, <2>3, WatcherAssumption DEF Next, Waiters
<1>3. interrupts' \in [Waiters -> Nat] /\ \A x \in Waiters : interrupts[x] <= interrupts'[x]
  <2>1. interrupts \in [Waiters -> Nat]
    BY DEF AgentInv, AgentShape
  <2> QED BY <1>2, <2>1
<1>4. ASSUME NEW a \in Agents PROVE part'[a] = part[a] /\ taken'[a] = taken[a]
  <2>0. a \in Listeners /\ a \notin Watchers
    BY MarketDataAssumption, MarketDataSubscriberAssumption
  <2>1. CASE UNCHANGED vars \/ Feed
    BY <2>1 DEF vars, pubVars, Feed, restOfFeed
  <2>2. ASSUME NEW w \in Watchers, Watch(w) PROVE part'[a] = part[a] /\ taken'[a] = taken[a]
    <3>1. UNCHANGED <<part, taken>> \/ (CanReceive(w) /\ Receive(w, 2))
      BY <2>2 DEF Watch, Construct, CheckReady, WaitReady, Listen, LockReady, SetReady, NotifyReady,
         ReceiveMessage, InterruptWatcher, pubVars
    <3>2. w \in Listeners /\ w # a
      BY <2>0, <2>2, WatcherAssumption
    <3> QED BY <2>0, <3>1, <3>2, ReceiveQueue
  <2>3. CASE Others
    BY <2>3 DEF Others, Forward, InterruptPublisher, EndOfData, Command
  <2> QED BY <2>1, <2>2, <2>3 DEF Next
<1>5. ASSUME NEW a \in Agents PROVE Phase(a)'
  <2>1. a \in Waiters /\ interrupts[a] \in Nat /\ interrupts'[a] \in Nat
    BY <1>3, MarketDataSubscriberAssumption DEF AgentInv, AgentShape, Waiters
  <2>2. interrupts[a] <= interrupts'[a] /\ Phase(a)
    BY <1>3, <2>1 DEF AgentInv
  <2> QED BY <1>1, <1>4, <2>1, <2>2, PhaseStays
<1>6. AgentShape'
  BY <1>0, <1>1, <1>3 DEF AgentInv, AgentShape, Waiters
<1> QED BY <1>5, <1>6 DEF AgentInv

LEMMA AgentStep ==
  ASSUME QueueInv, AgentInv, [Next]_vars
  PROVE  AgentInv'
BY AgentOwnStep, AgentElsewhere

LEMMA AgentInitially ==
  ASSUME Init
  PROVE  AgentInv
<1> USE DEF Init, PubInit, AgentInit
<1>1. AgentShape
  BY DEF AgentShape
<1>2. ASSUME NEW a \in Agents PROVE Phase(a)
  <2>1. a \in Listeners /\ a \in Waiters
    BY MarketDataSubscriberAssumption DEF Waiters
  <2>2. taken[a] = << >> /\ part[a] = << >> /\ agent[a].pc = "idle" /\ interrupts[a] = 0
    BY <2>1 DEF Idle
  <2>3. Range(<< >>) = {}
    BY DEF Range
  <2>4. Owed(a) = {}
    BY <2>2, <2>3 DEF Owed, Expected
  <2>5. AtMost({}, 0)
    BY FS_EmptySet DEF AtMost
  <2>6. InStep(a)
    BY <2>2, <2>4, <2>5 DEF InStep
  <2> QED BY <2>6 DEF Phase
<1> QED BY <1>1, <1>2 DEF AgentInv

LEMMA AgentInvSuffices ==
  ASSUME QueueInv, AgentInv
  PROVE  AgentInStep
<1>1. DeliveredTogether
  <2>1. SUFFICES ASSUME NEW a \in Agents, NEW pair \in Range(heard[a])
                 PROVE  /\ pair[1].kind = "topic" /\ pair[2].kind \in {"data", "depth"}
                        /\ pair[1].n = pair[2].n
    BY DEF DeliveredTogether
  <2>2. heard[a] \in Seq(Whole(scenario))
    BY DEF AgentInv, AgentShape
  <2>3. pair \in Whole(scenario)
    BY <2>1, <2>2 DEF Range
  <2> QED BY <2>3 DEF Whole, FeedShape
<1>2. RestartsInStep
  BY DEF AgentInv, Phase, InStep, Fed, Interrupted, Shifted, Ending, RestartsInStep
<1>3. LossBounded
  <2>1. SUFFICES ASSUME NEW a \in Agents
                 PROVE  Cardinality(Owed(a) \ Current(a)) <= interrupts[a]
    BY DEF LossBounded, Owed
  <2>2. interrupts[a] \in Nat /\ Phase(a)
    BY MarketDataSubscriberAssumption DEF AgentInv, AgentShape, Waiters
  <2>3. ASSUME AtMost(Owed(a), interrupts[a])
        PROVE  Cardinality(Owed(a) \ Current(a)) <= interrupts[a]
    <3>1. AtMost(Owed(a) \ Current(a), interrupts[a])
      BY <2>2, <2>3, AtMostSubset
    <3> QED BY <3>1 DEF AtMost
  <2>4. ASSUME NEW m, Fed(a, m), Must(m)
        PROVE  Cardinality(Owed(a) \ Current(a)) <= interrupts[a]
    <3>1. AtMost(Owed(a) \ {m[1].n}, interrupts[a]) /\ m[1].n \in Current(a)
      BY <2>4 DEF Fed, Current
    <3>2. AtMost(Owed(a) \ Current(a), interrupts[a])
      BY <2>2, <3>1, AtMostSubset
    <3> QED BY <3>2 DEF AtMost
  <2>5. Interrupted(a) => AtMost(Owed(a), interrupts[a])
    <3>1. SUFFICES ASSUME NEW k \in Nat, AtMost(Owed(a), k), k + 1 <= interrupts[a]
                   PROVE  AtMost(Owed(a), interrupts[a])
      BY DEF Interrupted
    <3>2. k <= interrupts[a]
      BY <2>2, <3>1
    <3> QED BY <2>2, <3>1, <3>2, AtMostSubset
  <2> QED BY <2>2, <2>3, <2>4, <2>5 DEF Phase, InStep, Fed, Shifted, Ending
<1> QED BY <1>1, <1>2, <1>3 DEF AgentInStep

\* An agent's loop stays in step with the frames, or is so again after one message, for any
\* commands, subscriptions, interruptions and feeds (MarketDataSubscriber.hpp:181-344): what
\* process() gets was published together, each interrupted wait costs one message at most,
\* and a loop that has ended leaves no frames behind.
THEOREM AgentsStayInStep == Spec => []AgentInStep
<1>1. Init => FeedInv /\ QueueInv /\ AgentInv
  BY FeedInitially, QueueInitially, AgentInitially
<1>2. FeedInv /\ QueueInv /\ AgentInv /\ [Next]_vars => (FeedInv /\ QueueInv /\ AgentInv)'
  BY FeedStep, QueueStep, AgentStep
<1>3. QueueInv /\ AgentInv => AgentInStep
  BY AgentInvSuffices
<1> QED BY <1>1, <1>2, <1>3, PTL DEF Spec
-----------------------------------------------------------------------------
(* Types *)

PublisherInv == publisher \in {"running", "stopped"}

LEMMA PublisherStep ==
  ASSUME PublisherInv, [Next]_vars
  PROVE  PublisherInv'
<1>1. CASE UNCHANGED vars \/ Feed
  BY <1>1 DEF PublisherInv, vars, pubVars, Feed, restOfFeed
<1>2. ASSUME NEW a \in Agents, Agent(a) PROVE publisher' = publisher
  BY <1>2 DEF Agent, Initialize, Start, ReceiveTopic, InterruptTopic, AdminMessage, Body, InterruptBody,
     Subscribe, pubVars
<1>3. ASSUME NEW w \in Watchers, Watch(w) PROVE publisher' = publisher
  BY <1>3 DEF Watch, Construct, CheckReady, WaitReady, Listen, LockReady, SetReady, NotifyReady,
     ReceiveMessage, InterruptWatcher, pubVars
<1>4. CASE Others
  BY <1>4 DEF PublisherInv, Others, Forward, InterruptPublisher, EndOfData, Command
<1> QED BY <1>1, <1>2, <1>3, <1>4 DEF Next, PublisherInv

LEMMA TypesFollow ==
  ASSUME FeedInv, QueueInv, AgentInv, PublisherInv
  PROVE  TypeOK
<1>1. /\ DOMAIN idSymbol \subseteq Nat \ {0}
      /\ \A id \in DOMAIN idSymbol : idSymbol[id] \in Symbols
      /\ \A k \in DOMAIN symbolId : idSymbol[symbolId[k]] = k
  BY DEF FeedInv, MapInv, Origin, Symbols
<1>2. inserting # None <=> \E s \in Sessions : asking[s] # None
  BY DEF FeedInv, AskingInv
<1>3. \A a \in Agents : agent[a].pc \in {"idle", "topic", "body"}
  BY DEF AgentInv, Phase, InStep, Fed, Interrupted, Shifted, Ending
<1>4. ASSUME NEW l \in Listeners PROVE Len(part[l]) <= 2
  <2>0. \A x, y : Len(<< >>) <= 2 /\ Len(<<x>>) <= 2 /\ Len(<<x, y>>) <= 2
    OBVIOUS
  <2>1. CASE l \notin Agents
    BY <2>0, <2>1 DEF QueueInv
  <2>2. CASE l \in Agents
    <3>1. \/ part[l] = << >>
          \/ \E x : part[l] = <<x>>
          \/ \E x, y : part[l] = <<x, y>>
      BY <2>2 DEF AgentInv, Phase, InStep, Fed, Interrupted, Shifted, Ending
    <3> QED BY <2>0, <3>1
  <2> QED BY <2>1, <2>2
<1> QED BY <1>1, <1>2, <1>3, <1>4 DEF TypeOK, PublisherInv

\* The types of the market data path: the two maps of TickerMap agree, an entry is being
\* inserted just while a session asks, and no more than two frames of a message are left in
\* a socket.
THEOREM TypeCorrect == Spec => []TypeOK
<1>1. Init => FeedInv /\ QueueInv /\ AgentInv /\ PublisherInv
  BY FeedInitially, QueueInitially, AgentInitially DEF Init, PubInit, PublisherInv
<1>2. FeedInv /\ QueueInv /\ AgentInv /\ PublisherInv /\ [Next]_vars
        => (FeedInv /\ QueueInv /\ AgentInv /\ PublisherInv)'
  BY FeedStep, QueueStep, AgentStep, PublisherStep
<1>3. FeedInv /\ QueueInv /\ AgentInv /\ PublisherInv => TypeOK
  BY TypesFollow
<1> QED BY <1>1, <1>2, <1>3, PTL DEF Spec
-----------------------------------------------------------------------------
(* What a watcher prints *)

\* The greatest element of a set is its Max.
LEMMA MaxIs ==
  ASSUME NEW S \in SUBSET Int, NEW m \in S, \A y \in S : y <= m
  PROVE  Max(S) = m
<1>1. \A x \in S : (\A y \in S : x >= y) => x = m
  OBVIOUS
<1>2. \A y \in S : m >= y
  OBVIOUS
<1> QED BY <1>1, <1>2 DEF Max

\* x is the value of the last of the messages S of q, which there is if there are any.
TopIs(q, S, x) ==
  \/ S = {} /\ x = 0
  \/ \E j \in S : (\A i \in S : i <= j) /\ x = q[j][2].tick.value

Prices == {"BID", "ASK", "LAST", "BID_SIZE"}

\* The state s of symbol k follows from the messages q.
Tells(q, k, s) ==
  /\ s.var = [e \in Events |-> s.var[e]]
  /\ \A e \in Prices : s.var[e] \in Int /\ TopIs(q, News(q, k, e), s.var[e])
  /\ s.prev_last \in Int /\ TopIs(q, ButLast(News(q, k, "LAST")), s.prev_last)
  /\ s.spread = s.var["ASK"] - s.var["BID"]

\* A frame of the feed, or one that is no data.
Known(frame) ==
  frame.kind = "data" =>
    /\ frame.tick.value \in Int
    /\ frame.tick.type = TypeOf(frame.tick.event)

LEMMA TopIsLast ==
  ASSUME NEW q, NEW S \in SUBSET Int, NEW x, TopIs(q, S, x)
  PROVE  LastOf(q, S) = x
<1>1. CASE S = {} /\ x = 0
  BY <1>1 DEF LastOf
<1>2. ASSUME NEW j \in S, \A i \in S : i <= j, x = q[j][2].tick.value
      PROVE  LastOf(q, S) = x
  <2>1. Max(S) = j
    BY <1>2, MaxIs
  <2> QED BY <1>2, <2>1 DEF LastOf
<1> QED BY <1>1, <1>2 DEF TopIs

\* An added message is news of its symbol and event, unless it has none.
LEMMA NewsGrows ==
  ASSUME NEW S, NEW q \in Seq(S), NEW m \in S, NEW k, NEW e
  PROVE  /\ News(q, k, e) \in SUBSET (1 .. Len(q))
         /\ News(Append(q, m), k, e) =
              IF m[1] = k /\ m[2].kind = "data" /\ m[2].tick.event = e /\ m[2].tick.value # 0
              THEN News(q, k, e) \cup {Len(q) + 1} ELSE News(q, k, e)
<1> DEFINE t == Append(q, m)
<1>1. /\ Len(q) \in Nat /\ DOMAIN q = 1 .. Len(q) /\ DOMAIN t = 1 .. Len(q) + 1
      /\ t[Len(q) + 1] = m /\ \A i \in 1 .. Len(q) : t[i] = q[i]
  OBVIOUS
<1> HIDE DEF t
<1>2. DOMAIN t = DOMAIN q \cup {Len(q) + 1} /\ Len(q) + 1 \notin DOMAIN q
  BY <1>1
<1>3. News(t, k, e) =
        IF m[1] = k /\ m[2].kind = "data" /\ m[2].tick.event = e /\ m[2].tick.value # 0
        THEN News(q, k, e) \cup {Len(q) + 1} ELSE News(q, k, e)
  BY <1>1, <1>2 DEF News
<1>4. News(q, k, e) \in SUBSET (1 .. Len(q))
  BY <1>1 DEF News
<1> QED BY <1>3, <1>4 DEF t

\* What was last stays last as long as there is no news.
LEMMA TopStays ==
  ASSUME NEW M, NEW q \in Seq(M), NEW m \in M, NEW S \in SUBSET (1 .. Len(q)), NEW x,
         TopIs(q, S, x)
  PROVE  TopIs(Append(q, m), S, x)
<1>1. \A i \in S : Append(q, m)[i] = q[i]
  OBVIOUS
<1> QED BY <1>1 DEF TopIs

\* What is added is last, and what was last is the one before.
LEMMA TopMoves ==
  ASSUME NEW M, NEW q \in Seq(M), NEW m \in M, NEW S \in SUBSET (1 .. Len(q))
  PROVE  /\ TopIs(Append(q, m), S \cup {Len(q) + 1}, m[2].tick.value)
         /\ ButLast(S \cup {Len(q) + 1}) = S
<1>1. Append(q, m)[Len(q) + 1] = m /\ Len(q) \in Nat
  OBVIOUS
<1>2. \A i \in S : i < Len(q) + 1 /\ i <= Len(q) + 1 /\ i \in Nat
  BY <1>1
<1>3. \A i \in S \cup {Len(q) + 1} : i <= Len(q) + 1
  BY <1>1, <1>2
<1>4. ~(Len(q) + 1 < Len(q) + 1) /\ \A i \in S : ~(Len(q) + 1 < i)
  BY <1>1, <1>2
<1> QED BY <1>1, <1>2, <1>3, <1>4 DEF TopIs, ButLast

\* A message changes the state of its symbol as the news demands.
LEMMA TellsStep ==
  ASSUME NEW M, NEW q \in Seq(M), NEW m \in M, Known(m[2]), NEW k, NEW s, Tells(q, k, s)
  PROVE  Tells(Append(q, m), k, IF m[1] = k THEN process_event(s, m[2]) ELSE s)
<1> DEFINE t == Append(q, m)
           tick == m[2].tick
           news == m[1] = k /\ m[2].kind = "data" /\ tick.value # 0
<1>1. \A e \in Prices : News(q, k, e) \in SUBSET (1 .. Len(q))
  BY NewsGrows
<1>2. \A e \in Prices : News(t, k, e) = IF news /\ tick.event = e
                                        THEN News(q, k, e) \cup {Len(q) + 1} ELSE News(q, k, e)
  BY NewsGrows
<1>3. ButLast(News(q, k, "LAST")) \in SUBSET (1 .. Len(q)) /\ "LAST" \in Prices
  BY <1>1 DEF ButLast, Prices
<1>4. /\ \A e \in Prices : TopIs(t, News(q, k, e), s.var[e])
      /\ TopIs(t, ButLast(News(q, k, "LAST")), s.prev_last)
  BY <1>1, <1>3, TopStays DEF Tells
<1>5. /\ \A e \in Prices : TopIs(t, News(q, k, e) \cup {Len(q) + 1}, tick.value)
      /\ ButLast(News(q, k, "LAST") \cup {Len(q) + 1}) = News(q, k, "LAST")
  BY <1>1, <1>3, TopMoves
<1> HIDE DEF t
<1>6. CASE ~ news \/ tick.event \notin Prices
  <2>1. \A e \in Prices : News(t, k, e) = News(q, k, e)
    BY <1>2, <1>6
  <2>2. Tells(t, k, s)
    BY <1>3, <1>4, <2>1 DEF Tells
  <2>3. CASE ~ news
    <3>1. (IF m[1] = k THEN process_event(s, m[2]) ELSE s) = s
      BY <2>3 DEF process_event, value_updater, update
    <3> QED BY <2>2, <3>1 DEF t
  <2>4. CASE news /\ tick.event \notin Prices
    <3>1. CASE tick.event \notin typed_dispatcher(tick.type)
      <4>1. (IF m[1] = k THEN process_event(s, m[2]) ELSE s) = s
        BY <2>4, <3>1 DEF process_event, value_updater
      <4> QED BY <2>2, <4>1 DEF t
    <3>2. CASE tick.event \in typed_dispatcher(tick.type)
      <4> DEFINE u == update(s, tick, m[2].n)
      <4>1. (IF m[1] = k THEN process_event(s, m[2]) ELSE s) = u
        BY <2>4, <3>2 DEF process_event, value_updater
      <4>2. /\ u.var = [s.var EXCEPT ![tick.event] = tick.value]
            /\ u.prev_last = s.prev_last
            /\ u.spread = u.var["ASK"] - u.var["BID"]
        BY <2>4 DEF update, prev_last, Prices
      <4> HIDE DEF u
      <4>3. \A e \in Prices : u.var[e] = s.var[e]
        BY <2>4, <4>2 DEF Tells, Prices, Events
      <4>4. u.var = [e \in Events |-> u.var[e]]
        BY <4>2 DEF Tells
      <4>5. Tells(t, k, u)
        BY <2>2, <4>2, <4>3, <4>4 DEF Tells
      <4> QED BY <4>1, <4>5 DEF t
    <3> QED BY <3>1, <3>2
  <2> QED BY <1>6, <2>3, <2>4
<1>7. CASE news /\ tick.event \in Prices
  <2> DEFINE u == update(s, tick, m[2].n)
  <2>0. tick.value \in Int /\ tick.type = TypeOf(tick.event)
    BY <1>7 DEF Known
  <2>1. tick.event \in typed_dispatcher(tick.type)
    BY <1>7, <2>0 DEF typed_dispatcher, BoundType, TypeOf, Prices, Events
  <2>2. (IF m[1] = k THEN process_event(s, m[2]) ELSE s) = u
    BY <1>7, <2>1 DEF process_event, value_updater
  <2>3. /\ u.var = [s.var EXCEPT ![tick.event] = tick.value]
        /\ u.prev_last = IF tick.event = "LAST" THEN s.var["LAST"] ELSE s.prev_last
        /\ u.spread = u.var["ASK"] - u.var["BID"]
    BY <1>7 DEF update, prev_last
  <2> HIDE DEF u
  <2>4. \A e \in Prices : u.var[e] = IF e = tick.event THEN tick.value ELSE s.var[e]
    BY <1>7, <2>3 DEF Tells, Prices, Events
  <2>5. u.var = [e \in Events |-> u.var[e]]
    BY <2>3 DEF Tells
  <2>6. \A e \in Prices : u.var[e] \in Int /\ TopIs(t, News(t, k, e), u.var[e])
    BY <1>2, <1>4, <1>5, <1>7, <2>0, <2>4 DEF Tells
  <2>7. u.prev_last \in Int /\ TopIs(t, ButLast(News(t, k, "LAST")), u.prev_last)
    <3>1. CASE tick.event = "LAST"
      <4>1. News(t, k, "LAST") = News(q, k, "LAST") \cup {Len(q) + 1}
        BY <1>2, <1>3, <1>7, <3>1
      <4>2. ButLast(News(t, k, "LAST")) = News(q, k, "LAST")
        BY <1>5, <4>1
      <4>3. s.var["LAST"] \in Int /\ TopIs(t, News(q, k, "LAST"), s.var["LAST"])
        BY <1>3, <1>4 DEF Tells
      <4> QED BY <2>3, <3>1, <4>2, <4>3
    <3>2. CASE tick.event # "LAST"
      BY <1>2, <1>3, <1>4, <1>7, <2>3, <3>2 DEF Tells
    <3> QED BY <3>1, <3>2
  <2>8. Tells(t, k, u)
    BY <2>3, <2>5, <2>6, <2>7 DEF Tells
  <2> QED BY <2>2, <2>8 DEF t
<1> QED BY <1>6, <1>7

\* What process_raw_message is called with.
Items(sc) == {<<m[1].topic, m[2]>> : m \in Pairs(sc)}

\* Every watcher's state follows from what it was sent.
StateInv ==
  /\ seen \in [Watchers -> Seq(Items(scenario))]
  /\ state = [w \in Watchers |-> [k \in scenario.symbols |-> state[w][k]]]
  /\ \A w \in Watchers : \A k \in scenario.symbols : Tells(seen[w], k, state[w][k])

LEMMA ItemsKnown ==
  ASSUME NEW sc \in Scenarios, NEW m \in Pairs(sc)
  PROVE  Known(m[2])
<1>1. CASE m = EndMessage
  BY <1>1 DEF EndMessage, Frame, Known
<1>2. CASE m \in FeedMessages(sc)
  <2>1. PICK feed \in {"data", "depth"}, k \in Symbols, t \in sc.ticks, n \in Nat :
          m = Message(feed, k, Tick(t[1], t[2]), n)
    BY <1>2 DEF FeedMessages
  <2>2. m[2].tick = Tick(t[1], t[2])
    BY <2>1 DEF Message, Frame
  <2>3. t[2] \in Int
    BY WatcherAssumption
  <2> QED BY <2>2, <2>3 DEF Known, Tick
<1> QED BY <1>1, <1>2 DEF Pairs

\* A table of tables, and one of which an entry is replaced.
Table(f, W, K) == f = [v \in W |-> [k \in K |-> f[v][k]]]

Replaces(g, f, W, K, w, c, e) ==
  /\ Table(g, W, K)
  /\ g[w][c] = e
  /\ \A k \in K \ {c} : g[w][k] = f[w][k]
  /\ \A v \in W \ {w} : g[v] = f[v]

LEMMA ReplaceEntry ==
  ASSUME NEW W, NEW K, NEW f, Table(f, W, K),
         NEW w \in W, NEW c \in K, NEW e, NEW g, g = [f EXCEPT ![w][c] = e]
  PROVE  Replaces(g, f, W, K, w, c, e)
<1>1. DOMAIN f = W /\ \A v \in W : f[v] = [k \in K |-> f[v][k]]
  BY DEF Table
<1>2. PICK h : h = [f[w] EXCEPT ![c] = e]
  OBVIOUS
<1>3. h = [k \in K |-> h[k]] /\ h[c] = e /\ \A k \in K \ {c} : h[k] = f[w][k]
  BY <1>1, <1>2
<1>4. g = [v \in W |-> IF v = w THEN h ELSE f[v]]
  BY <1>1, <1>2
<1>5. g[w] = h /\ \A v \in W \ {w} : g[v] = f[v]
  BY <1>4
<1>6. \A v \in W : g[v] = [k \in K |-> g[v][k]]
  BY <1>1, <1>3, <1>5
<1>7. g = [v \in W |-> g[v]]
  BY <1>4
<1> QED BY <1>3, <1>5, <1>6, <1>7 DEF Replaces, Table

LEMMA StateReceives ==
  ASSUME QueueInv, StateInv, NEW w \in Watchers, ReceiveMessage(w)
  PROVE  StateInv'
<1>1. scenario' = scenario /\ scenario \in Scenarios
  BY DEF ReceiveMessage, QueueInv
<1>2. PICK m : m = Incoming(w)
  OBVIOUS
<1>3. m \in Pairs(scenario)
  BY <1>2, WatcherReceives
<1>4. process_raw_message(w, m[1].topic, m[2])
  BY <1>2 DEF ReceiveMessage
<1>5. CASE m[1].topic \notin scenario.symbols
  BY <1>1, <1>4, <1>5 DEF process_raw_message, StateInv
<1>6. CASE m[1].topic \in scenario.symbols
  <2>1. PICK i, q, c : /\ i = <<m[1].topic, m[2]>> /\ q = seen[w] /\ c = m[1].topic
    OBVIOUS
  <2>2. i \in Items(scenario) /\ q \in Seq(Items(scenario)) /\ i[1] = c /\ i[2] = m[2]
    BY <1>3, <2>1 DEF Items, StateInv
  <2>3. /\ seen' = [seen EXCEPT ![w] = Append(q, i)]
        /\ state' = [state EXCEPT ![w][c] = process_event(state[w][c], m[2])]
        /\ c \in scenario.symbols
    BY <1>4, <1>6, <2>1 DEF process_raw_message
  <2>4. Append(q, i) \in Seq(Items(scenario))
    BY <2>2
  <2>5. /\ seen' \in [Watchers -> Seq(Items(scenario))]
        /\ seen'[w] = Append(q, i) /\ \A v \in Watchers \ {w} : seen'[v] = seen[v]
    BY <2>3, <2>4 DEF StateInv
  <2>6. /\ state' = [v \in Watchers |-> [k \in scenario.symbols |-> state'[v][k]]]
        /\ \A k \in scenario.symbols :
             state'[w][k] = IF i[1] = k THEN process_event(state[w][k], i[2]) ELSE state[w][k]
        /\ \A v \in Watchers \ {w} : state'[v] = state[v]
    <3>1. PICK g, f, e, K : /\ g = state' /\ f = state /\ K = scenario.symbols
                            /\ e = process_event(state[w][c], m[2])
      OBVIOUS
    <3>2. Table(f, Watchers, K) /\ c \in K
      BY <2>3, <3>1 DEF StateInv, Table
    <3>3. g = [f EXCEPT ![w][c] = e]
      BY <2>3, <3>1
    <3>4. Replaces(g, f, Watchers, K, w, c, e)
      BY <3>2, <3>3, ReplaceEntry
    <3> QED BY <2>2, <3>1, <3>4 DEF Replaces, Table
  <2>7. Known(i[2])
    BY <1>1, <1>3, <2>2, ItemsKnown
  <2>8. ASSUME NEW k \in scenario.symbols
        PROVE  Tells(Append(q, i), k, state'[w][k])
    <3>1. PICK s : s = state[w][k] /\ Tells(q, k, s)
      BY <2>1 DEF StateInv
    <3>2. Tells(Append(q, i), k, IF i[1] = k THEN process_event(s, i[2]) ELSE s)
      BY <2>2, <2>7, <3>1, TellsStep
    <3> QED BY <2>6, <3>1, <3>2
  <2>9. ASSUME NEW v \in Watchers, NEW k \in scenario.symbols
        PROVE  Tells(seen'[v], k, state'[v][k])
    <3>1. CASE v = w
      BY <2>5, <2>8, <3>1
    <3>2. CASE v # w
      <4>1. Tells(seen[v], k, state[v][k])
        BY DEF StateInv
      <4> QED BY <2>5, <2>6, <3>2, <4>1
    <3> QED BY <3>1, <3>2
  <2>10. \A v \in Watchers : \A k \in scenario.symbols : Tells(seen'[v], k, state'[v][k])
    BY <2>9
  <2> QED BY <1>1, <2>5, <2>6, <2>10 DEF StateInv
<1> QED BY <1>5, <1>6

LEMMA StateStep ==
  ASSUME QueueInv, StateInv, [Next]_vars
  PROVE  StateInv'
<1>1. scenario' = scenario
  BY ScenarioStays
<1>2. CASE UNCHANGED <<state, seen>>
  BY <1>1, <1>2 DEF StateInv
<1>3. CASE \E w \in Watchers : ReceiveMessage(w)
  BY <1>3, StateReceives
<1>4. UNCHANGED <<state, seen>> \/ \E w \in Watchers : ReceiveMessage(w)
  <2>1. UNCHANGED <<state, seen>> \/ \E w \in Watchers : Watch(w)
    BY DEF Next, vars, watcherVars, Feed, Agent, Others, EndOfData
  <2>2. ASSUME NEW w \in Watchers, Watch(w)
        PROVE  UNCHANGED <<state, seen>> \/ ReceiveMessage(w)
    BY <2>2 DEF Watch, Construct, CheckReady, WaitReady, Listen, LockReady, SetReady, NotifyReady,
       InterruptWatcher, watcherVars
  <2> QED BY <2>1, <2>2
<1> QED BY <1>2, <1>3, <1>4

LEMMA StateInitially ==
  ASSUME Init
  PROVE  StateInv
<1>1. seen = [w \in Watchers |-> << >>]
      /\ state = [w \in Watchers |-> [k \in scenario.symbols |-> state_t]]
  BY DEF Init, WatcherInit
<1>2. ASSUME NEW k PROVE Tells(<< >>, k, state_t)
  <2>1. \A e : News(<< >>, k, e) = {}
    BY DEF News
  <2>2. ButLast({}) = {}
    BY DEF ButLast
  <2>3. /\ state_t.var = [e \in Events |-> 0]
        /\ state_t.prev_last = 0 /\ state_t.spread = 0
    BY DEF state_t
  <2>4. \A e \in Prices : state_t.var[e] = 0
    BY <2>3 DEF Prices, Events
  <2>5. \A e \in Prices : state_t.var[e] \in Int /\ TopIs(<< >>, News(<< >>, k, e), state_t.var[e])
    BY <2>1, <2>4 DEF TopIs
  <2>6. state_t.prev_last \in Int
        /\ TopIs(<< >>, ButLast(News(<< >>, k, "LAST")), state_t.prev_last)
    <3>1. ButLast(News(<< >>, k, "LAST")) = {}
      BY <2>1, <2>2
    <3> QED BY <3>1, <2>3 DEF TopIs
  <2>7. state_t.spread = state_t.var["ASK"] - state_t.var["BID"]
    BY <2>3, <2>4 DEF Prices
  <2>8. state_t.var = [e \in Events |-> state_t.var[e]]
    BY <2>3
  <2> QED BY <2>5, <2>6, <2>7, <2>8 DEF Tells
<1>3. << >> \in Seq(Items(scenario))
  OBVIOUS
<1> QED BY <1>1, <1>2, <1>3 DEF StateInv

\* The invariant is what the property says, the last of the news being their Max.
LEMMA StateSuffices ==
  ASSUME StateInv
  PROVE  WatcherFollows
<1> SUFFICES ASSUME NEW w \in Watchers, NEW k \in scenario.symbols
    PROVE  LET s == state[w][k]
               q == seen[w]
               trades == News(q, k, "LAST")
           IN  /\ \A e \in Prices : s.var[e] = LastOf(q, News(q, k, e))
               /\ LET move == LastOf(q, trades) - LastOf(q, ButLast(trades))
                  IN  /\ print(s).trade = "GREEN" <=> move > 0
                      /\ print(s).trade = "RED" <=> move < 0
               /\ print(s).quotes \in {"CYAN", "WHITE", "YELLOW"} => s.spread > 0
               /\ s.spread = s.var["ASK"] - s.var["BID"]
  BY Zenon DEF WatcherFollows, Prices
<1>1. PICK s, q : s = state[w][k] /\ q = seen[w] /\ Tells(q, k, s) /\ q \in Seq(Items(scenario))
  BY DEF StateInv
<1>2. \A e : News(q, k, e) \in SUBSET Int
  BY <1>1 DEF News
<1>3. ButLast(News(q, k, "LAST")) \in SUBSET Int
  BY <1>2 DEF ButLast
<1>4. \A e \in Prices : s.var[e] = LastOf(q, News(q, k, e)) /\ s.var[e] \in Int
  BY <1>1, <1>2, TopIsLast DEF Tells
<1>5. s.prev_last = LastOf(q, ButLast(News(q, k, "LAST"))) /\ s.prev_last \in Int
  BY <1>1, <1>3, TopIsLast DEF Tells
<1>6. s.spread = s.var["ASK"] - s.var["BID"]
  BY <1>1 DEF Tells
<1>7. PICK last, ask, bid, prev : /\ last = s.var["LAST"] /\ ask = s.var["ASK"]
                                  /\ bid = s.var["BID"] /\ prev = s.prev_last
  OBVIOUS
<1>8. last \in Int /\ ask \in Int /\ bid \in Int /\ prev \in Int
  BY <1>4, <1>5, <1>7 DEF Prices
<1>9. /\ print(s).trade = IF last - prev = 0 THEN "WHITE" ELSE IF last - prev > 0 THEN "GREEN" ELSE "RED"
      /\ print(s).quotes \in {"CYAN", "WHITE", "YELLOW"} => ~(last >= ask) /\ ~(last <= bid)
  BY <1>7 DEF print
<1>10. /\ print(s).trade = "GREEN" <=> last - prev > 0
       /\ print(s).trade = "RED" <=> last - prev < 0
  BY <1>8, <1>9
<1>11. print(s).quotes \in {"CYAN", "WHITE", "YELLOW"} => ask - bid > 0
  BY <1>8, <1>9
<1>12. last = LastOf(q, News(q, k, "LAST"))
  BY <1>4, <1>7 DEF Prices
<1> QED BY Zenon, <1>1, <1>4, <1>5, <1>6, <1>7, <1>10, <1>11, <1>12

\* What a watcher prints agrees with itself and with the feed (watcher_main.cpp:102-262):
\* prices are the last ones sent, the direction of a trade is that from the trade before it,
\* and spread and midpoint fit the prices next to them, for any symbols, ticks and order of
\* arrival.
THEOREM WatchersAlwaysFollow == Spec => []WatcherFollows
<1>1. Init => FeedInv /\ QueueInv /\ StateInv
  BY FeedInitially, QueueInitially, StateInitially
<1>2. FeedInv /\ QueueInv /\ StateInv /\ [Next]_vars => (FeedInv /\ QueueInv /\ StateInv)'
  BY FeedStep, QueueStep, StateStep
<1>3. StateInv => WatcherFollows
  BY StateSuffices
<1> QED BY <1>1, <1>2, <1>3, PTL DEF Spec
=============================================================================
