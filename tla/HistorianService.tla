-------------------------- MODULE HistorianService --------------------------
(***************************************************************************)
(* The historian as a service: the program hz answers queries over ZMQ     *)
(* (DbReactorStrategy) while its subscriber writes market data to the same *)
(* store, and clients (DbReactorClient: hzc, the R package hzc) ask.  A    *)
(* query is a request and a reply with a response id; the records then     *)
(* come on the client's callback socket, each with the id, and a last      *)
(* message says that they are complete.  Two programs, hdb and the R       *)
(* package raptor, open the store themselves.                              *)
(*                                                                         *)
(* The callback socket of a client outlives its queries: what a query      *)
(* leaves unread, the next one reads.                                      *)
(***************************************************************************)
EXTENDS HistorianDb

CONSTANTS Clients,     \* programs that ask, see QueriesOf
          Unreachable, \* clients to whose callback endpoint hz may fail to connect
          ResponseIds, \* now_micros() % 1000000: 0 is one of them
          Stamps,      \* timestamps of records
          Overwrite,   \* --overwrite
          MaxWrites, MaxQueries, MaxStarts, \* bounds
          Nil

ASSUME HistorianServiceAssumption ==
  /\ Clients \subseteq {"hzc", "r", "api", "hdb", "raptor"}
  /\ Unreachable \subseteq Clients
  /\ ResponseIds \subseteq Nat
  /\ Stamps \subseteq Nat
  /\ Overwrite \in BOOLEAN
  /\ {MaxWrites, MaxQueries, MaxStarts} \subseteq Nat
  /\ Nil \notin ResponseIds
  /\ Nil \notin {"complete", "error", "stopped", "refused"}

Symbol   == "AAPL.STK"
Complete == [code |-> 200]   \* the body of the last message

Asks(types) == [type : types, first : {1}, last : {3}]

\* What the programs ask for: hzc without --event leaves the type out; "api" is
\* another user of DbReactorClient, or of the socket, who may send something that
\* is not a Query.
hzc_main_query == Asks({"INDEXED_VALUE", "none"})
hzc_query      == Asks({"INDEXED_VALUE"})
hdb_query      == Asks({"INDEXED_VALUE", "IB_MARKET_DATA", "range"})
raptor_query   == Asks({"INDEXED_VALUE"})

QueriesOf ==
  [hzc |-> hzc_main_query, r |-> hzc_query, hdb |-> hdb_query, raptor |-> raptor_query,
   api |-> Asks({"IB_MARKET_DATA", "range", "garbage"})]

Queries == UNION {QueriesOf[c] : c \in Clients}

\* The records their visitors take; they pass over the others.
hzc_main_visitor(record) == as("INDEXED_VALUE", record) \/ as("IB_MARKET_DATA", record)
hzc_visitor(record)      == as("INDEXED_VALUE", record)
raptor_visitor(record)   == as("INDEXED_VALUE", record)
hdb_visitor(record)      == \E type \in DOMAIN Entity : as(type, record)

Takes(c, record) ==
  CASE c = "hzc"    -> hzc_main_visitor(record)
    [] c = "r"      -> hzc_visitor(record)
    [] c = "raptor" -> raptor_visitor(record)
    [] OTHER        -> hdb_visitor(record)

Local == {"hdb", "raptor"}

VARIABLES
  levelDb,  \* the store, which outlives hz
  hz,       \* "down", "opened", "null" (levelDb_ is NULL) or "writing"
  server,   \* the reactor: "listen", "connect", "stream" or "stopped"
  requests, \* the requests that wait: client and query
  job,      \* the query being answered: client, query, response id, records to send
  reply,    \* reply[c]: the response id on its way to c, or Nil
  pull,     \* pull[c]: what c's callback socket holds
  state,    \* state[c]: "idle", "sent" or "reading"
  query,    \* query[c]: what c asked last
  responseId, \* responseId[c]: the response id c expects
  got,      \* got[c]: what its visitor took
  result,   \* result[c]: how the last query ended, or Nil
  before,   \* before[c]: the keys of the store when c asked
  upset,    \* clients that saw response id 0, a NULL database or a dead server
  writes, queries, starts \* how many there were

serviceVars == <<levelDb, hz, server, requests, job, reply, pull, state, query, responseId,
                 got, result, before, upset, writes, queries, starts>>

NoJob == [client |-> Nil, query |-> Nil, id |-> Nil, rest |-> << >>]

ServiceTypeOK ==
  /\ hz \in {"down", "opened", "null", "writing"}
  /\ server \in {"listen", "connect", "stream", "stopped"}
  /\ requests \in Seq([client : Clients, query : Queries])
  /\ job.client \in Clients \cup {Nil} /\ job.id \in ResponseIds \cup {Nil}
  /\ \A c \in Clients :
       /\ reply[c] \in ResponseIds \cup {Nil}
       /\ \A i \in DOMAIN pull[c] : pull[c][i].id \in ResponseIds
       /\ state[c] \in {"idle", "sent", "reading"}
       /\ query[c] \in Queries \cup {Nil}
       /\ responseId[c] \in ResponseIds \cup {Nil}
       /\ result[c] \in {Nil, "complete", "error", "stopped", "refused"}
  /\ upset \subseteq Clients
  /\ writes \in 0..MaxWrites /\ queries \in 0..MaxQueries /\ starts \in 0..MaxStarts

ServiceInit ==
  /\ levelDb = Empty
  /\ hz = "down" /\ server = "stopped" /\ requests = << >> /\ job = NoJob
  /\ reply  = [c \in Clients |-> Nil]
  /\ pull   = [c \in Clients |-> << >>]
  /\ state  = [c \in Clients |-> "idle"]
  /\ query  = [c \in Clients |-> Nil]
  /\ responseId = [c \in Clients |-> Nil]
  /\ got    = [c \in Clients |-> << >>]
  /\ result = [c \in Clients |-> Nil]
  /\ before = [c \in Clients |-> {}]
  /\ upset = {}
  /\ writes = 0 /\ queries = 0 /\ starts = 0

clientVars == <<state, query, responseId, got, result, before, queries>>

\* Db::Query of a range of keys, here from depth to ticks, or by symbol.
Matching(q) ==
  IF q.type = "range"
  THEN QueryByRange(levelDb, MarketDepthKey(Symbol, q.first), MarketDataKey(Symbol, q.last))
  ELSE QueryBySymbol(levelDb, q.type, Symbol, "BID", q.first, q.last)

----------------------------------------------------------------------------
(* The program hz *)

\* Db::Open, then the reactor's thread.
StartHz ==
  /\ hz = "down" /\ starts < MaxStarts
  /\ hz' = "opened" /\ server' = "listen"
  /\ starts' = starts + 1
  /\ UNCHANGED <<levelDb, requests, job, reply, pull, clientVars, upset, writes>>

\* subscriber.isReady() opens the same Db again, while the reactor answers.  LevelDB
\* may allow it, or refuse because of its own lock: then levelDb_ is NULL.
OpenAgain ==
  /\ hz = "opened"
  /\ hz' \in {"writing", "null"}
  /\ UNCHANGED <<levelDb, server, requests, job, reply, pull, clientVars, upset, writes, starts>>

\* DbWriterSubscriber::process, for ticks and for depth.
Process ==
  /\ hz = "writing" /\ writes < MaxWrites
  /\ writes' = writes + 1
  /\ \E ts \in Stamps :
       levelDb' \in {WriteMarketData(levelDb, Symbol, "BID", ts, writes, Overwrite),
                WriteRecord(levelDb, MarketDepthKey(Symbol, ts),
                            wrap("IB_MARKET_DEPTH", [value |-> writes]), Overwrite)}
  /\ UNCHANGED <<hz, server, requests, job, reply, pull, clientVars, upset, starts>>

\* OnTerminate, or the LOG(FATAL) of a subscriber that is not ready.  What waits
\* in the sockets of hz is lost; clients that wait for an answer wait on.
Exit ==
  /\ hz # "down"
  /\ hz' = "down" /\ server' = "stopped" /\ requests' = << >> /\ job' = NoJob
  /\ upset' = upset \cup {c \in Clients : state[c] # "idle"}
  /\ UNCHANGED <<levelDb, reply, pull, clientVars, writes, starts>>

----------------------------------------------------------------------------
(* DbReactorStrategy::respond, in the reactor's thread *)

\* A request that is not a Query: no reply, and respond returns false, which ends
\* the reactor.
RespondToGarbage ==
  /\ server = "listen" /\ requests # << >>
  /\ Head(requests).query.type = "garbage"
  /\ server' = "stopped"
  /\ requests' = Tail(requests)
  /\ UNCHANGED <<levelDb, hz, job, reply, pull, clientVars, upset, writes, starts>>

replyDataReady(c, i) == reply' = [reply EXCEPT ![c] = i]

Respond ==
  /\ server = "listen" /\ requests # << >>
  /\ Head(requests).query.type # "garbage"
  /\ \E i \in ResponseIds :
       /\ replyDataReady(Head(requests).client, i)
       /\ job' = [client |-> Head(requests).client, query |-> Head(requests).query,
                  id |-> i, rest |-> << >>]
  /\ server' = "connect"
  /\ requests' = Tail(requests)
  /\ UNCHANGED <<levelDb, hz, pull, clientVars, upset, writes, starts>>

\* CallbackStreamer: the iterator reads the store as it is now.
Connect ==
  /\ server = "connect"
  /\ LET c == job.client
     IN  \/ c \in Unreachable /\ server' = "listen" /\ job' = NoJob /\ UNCHANGED upset
         \/ /\ server' = "stream"
            /\ job' = [job EXCEPT !.rest = IF hz = "null" THEN << >>
                                           ELSE Records(levelDb, Matching(job.query))]
            /\ upset' = IF hz = "null" THEN upset \cup {c} ELSE upset
  /\ UNCHANGED <<levelDb, hz, requests, reply, pull, clientVars, writes, starts>>

Push(c, message) == pull' = [pull EXCEPT ![c] = Append(@, message)]

\* DbVisitor.
SendRecord ==
  /\ server = "stream" /\ job.rest # << >>
  /\ Push(job.client, [id |-> job.id, body |-> Head(job.rest)])
  /\ job' = [job EXCEPT !.rest = Tail(@)]
  /\ UNCHANGED <<levelDb, hz, server, requests, reply, clientVars, upset, writes, starts>>

\* Mutant: a query without records is not completed.
CompleteIfAny ==
  /\ server = "stream" /\ job.rest = << >>
  /\ IF Matching(job.query) = {} THEN UNCHANGED pull
     ELSE Push(job.client, [id |-> job.id, body |-> Complete])
  /\ server' = "listen" /\ job' = NoJob
  /\ UNCHANGED <<levelDb, hz, requests, reply, clientVars, upset, writes, starts>>

SendComplete ==
  /\ server = "stream" /\ job.rest = << >>
  /\ Push(job.client, [id |-> job.id, body |-> Complete])
  /\ server' = "listen" /\ job' = NoJob
  /\ UNCHANGED <<levelDb, hz, requests, reply, clientVars, upset, writes, starts>>

----------------------------------------------------------------------------
(* DbReactorClient::Query *)

\* send: an envelope without the query's required type is not sent.
Ask(c, q) ==
  /\ c \notin Local
  /\ state[c] = "idle" /\ queries < MaxQueries /\ hz # "down" /\ server # "stopped"
  /\ queries' = queries + 1
  /\ query'  = [query EXCEPT ![c] = q]
  /\ got'    = [got EXCEPT ![c] = << >>]
  /\ before' = [before EXCEPT ![c] = DOMAIN levelDb]
  /\ IF q.type = "none"
     THEN result' = [result EXCEPT ![c] = "error"] /\ UNCHANGED <<state, requests>>
     ELSE /\ result' = [result EXCEPT ![c] = Nil]
          /\ state'  = [state EXCEPT ![c] = "sent"]
          /\ requests' = Append(requests, [client |-> c, query |-> q])
  /\ UNCHANGED <<levelDb, hz, server, job, reply, pull, responseId, upset, writes, starts>>

\* The query returns 0.
Fail(c) == /\ state'  = [state EXCEPT ![c] = "idle"]
           /\ result' = [result EXCEPT ![c] = "error"]

processQueryResponse(c) ==
  /\ state[c] = "sent" /\ reply[c] # Nil
  /\ reply' = [reply EXCEPT ![c] = Nil]
  /\ responseId' = [responseId EXCEPT ![c] = reply[c]]
  /\ IF reply[c] = 0
     THEN Fail(c) /\ upset' = upset \cup {c}
     ELSE state' = [state EXCEPT ![c] = "reading"] /\ UNCHANGED <<result, upset>>
  /\ UNCHANGED <<levelDb, hz, server, requests, job, pull, query, got, before, writes,
                 queries, starts>>

\* Mutant: the visitor can end the query.
StopWhenVisitorDoes(c) ==
  /\ state[c] = "reading" /\ pull[c] # << >>
  /\ pull' = [pull EXCEPT ![c] = Tail(@)]
  /\ \/ state' = [state EXCEPT ![c] = "idle"] /\ UNCHANGED <<result, got>>
     \/ /\ Head(pull[c]).body # Complete
        /\ got' = [got EXCEPT ![c] = Append(@, Head(pull[c]).body)]
        /\ UNCHANGED <<state, result>>
  /\ UNCHANGED <<levelDb, hz, server, requests, job, reply, query, responseId, before, upset,
                 writes, queries, starts>>

\* One message of the callback socket.
processCallback(c) ==
  /\ state[c] = "reading" /\ pull[c] # << >>
  /\ pull' = [pull EXCEPT ![c] = Tail(@)]
  /\ LET message == Head(pull[c])
     IN  \/ message.id # responseId[c] /\ Fail(c) /\ UNCHANGED got
         \/ /\ message.id = responseId[c] /\ message.body # Complete
            /\ got' = IF Takes(c, message.body.record)
                      THEN [got EXCEPT ![c] = Append(@, message.body)] ELSE got
            /\ UNCHANGED <<state, result>>
         \/ /\ message.id = responseId[c] /\ message.body = Complete
            /\ state' = [state EXCEPT ![c] = "idle"]
            /\ result' = [result EXCEPT ![c] = "complete"]
            /\ UNCHANGED got
  /\ UNCHANGED <<levelDb, hz, server, requests, job, reply, query, responseId, before, upset,
                 writes, queries, starts>>

----------------------------------------------------------------------------

\* hdb and raptor open the store, which LevelDB lets only one process do at a time,
\* and query it; raptor's callback may end the iteration.
LocalQuery(c, q) ==
  /\ c \in Local /\ queries < MaxQueries
  /\ queries' = queries + 1
  /\ query'  = [query EXCEPT ![c] = q]
  /\ before' = [before EXCEPT ![c] = DOMAIN levelDb]
  /\ LET records == Records(levelDb, {k \in Matching(q) : Takes(c, levelDb[k])})
     IN  \/ /\ hz # "down"
            /\ got'    = [got EXCEPT ![c] = << >>]
            /\ result' = [result EXCEPT ![c] = "refused"]
         \/ /\ hz = "down"
            /\ got'    = [got EXCEPT ![c] = records]
            /\ result' = [result EXCEPT ![c] = "complete"]
         \/ /\ hz = "down" /\ c = "raptor"
            /\ \E n \in 1..Len(records) : got' = [got EXCEPT ![c] = SubSeq(records, 1, n)]
            /\ result' = [result EXCEPT ![c] = "stopped"]
  /\ UNCHANGED <<levelDb, hz, server, requests, job, reply, pull, state, responseId, upset,
                 writes, starts>>

----------------------------------------------------------------------------

Serve == RespondToGarbage \/ Respond \/ Connect \/ SendRecord \/ SendComplete

Receive(c) == processQueryResponse(c) \/ processCallback(c)

ServiceNext ==
  \/ StartHz \/ OpenAgain \/ Process \/ Exit \/ Serve
  \/ \E c \in Clients : Receive(c) \/ \E q \in QueriesOf[c] : Ask(c, q) \/ LocalQuery(c, q)

ServiceSpec == ServiceInit /\ [][ServiceNext]_serviceVars

\* The reactor's thread and the clients run; nobody has to ask, write or stop.
FairSpec == ServiceSpec /\ WF_serviceVars(Serve) /\ \A c \in Clients : WF_serviceVars(Receive(c))

----------------------------------------------------------------------------

\* The keys that a query asks for.
Asked(q, k) ==
  IF q.type = "range"
  THEN (k[1] = "depth" /\ k[3] >= q.first) \/ (k[1] = "mkt" /\ k[3] < q.last)
  ELSE k[1] = Entity[q.type] /\ q.first <= Stamp(k) /\ Stamp(k) < q.last

\* A query that completes has every record that was there when it was asked and
\* matches it, and nothing but such records, in the order of their keys: the
\* visitor of each program takes the type of record that its queries find.
\* Response id 0, a database that was NULL and a server that died are excluded.
CompleteMeansAll ==
  \A c \in Clients \ upset : result[c] = "complete" =>
    LET keys == {got[c][i].key : i \in DOMAIN got[c]}
    IN  /\ {k \in before[c] : Asked(query[c], k)} \subseteq keys
        /\ \A k \in keys : k \in DOMAIN levelDb /\ Asked(query[c], k)
        /\ \A i, j \in DOMAIN got[c] : i < j => Before(got[c][i].key, got[c][j].key)

\* No query leaves messages behind: what the callback socket of a client holds
\* belongs to the query it is waiting for.
NothingLeftUnread ==
  \A c \in Clients \ upset :
    pull[c] # << >> =>
      /\ state[c] # "idle"
      /\ \A i \in DOMAIN pull[c] :
           pull[c][i].id = IF state[c] = "reading" THEN responseId[c] ELSE reply[c]

\* Clients never get "Bad response id" unless one of the excluded things happened.
OnlyUpsetClientsFail ==
  \A c \in Clients \ upset : result[c] = "error" => query[c].type = "none"

\* The messages of one query never reach another (DbReactorClient.cpp: what
\* processQueryResponse and processCallback take is what their query was sent).
QueriesDoNotMix == ServiceTypeOK /\ NothingLeftUnread /\ OnlyUpsetClientsFail

\* A query returns, if hz lives, can reach the client, and was never sent something
\* that is not a query.
QueryReturns ==
  \A c \in Clients : state[c] = "sent" ~>
    (state[c] = "idle" \/ server = "stopped" \/ c \in upset \cup Unreachable)
=============================================================================
