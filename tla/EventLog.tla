------------------------------ MODULE EventLog ------------------------------
(***************************************************************************)
(* What LoggingEWrapper and LoggingEClientSocket (ib/api966/ApiImpl.cpp)   *)
(* write to the log: one line of name=value pairs for each event of the    *)
(* gateway, and two for each request, before and after the call.  The log  *)
(* is the only record of the market data, and LogReader and the historian  *)
(* loader are the programs that read it back.                              *)
(*                                                                         *)
(* Lines are read one at a time and never again, so the log is its next    *)
(* unread line.  Values are left out unless a reader uses them; the names  *)
(* of the pairs are kept, because the readers look the values up by name.  *)
(***************************************************************************)
EXTENDS Integers, Sequences, SequencesExt, TickerId

CONSTANTS Ids,       \* ticker ids
          Contracts, \* contracts clients ask market data for
          Times,     \* moments, in minutes of the day, US eastern time
          Called,    \* requests that clients make
          Received,  \* events that the gateway sends
          TickFields, \* the tick types it sends with each tick event
          MaxLines,  \* bound: lines the log has
          None       \* no value

\* The names that operator<< of a Contract prints.
ContractFields == {"conId", "symbol", "secType", "right", "strike", "currency",
                   "multiplier", "expiry", "localSymbol"}

TickTypeNames ==
  <<"BID_SIZE", "BID", "ASK", "ASK_SIZE", "LAST", "LAST_SIZE", "HIGH", "LOW", "VOLUME", "CLOSE",
    "BID_OPTION_COMPUTATION", "ASK_OPTION_COMPUTATION", "LAST_OPTION_COMPUTATION", "MODEL_OPTION",
    "OPEN", "LOW_13_WEEK", "HIGH_13_WEEK", "LOW_26_WEEK", "HIGH_26_WEEK", "LOW_52_WEEK",
    "HIGH_52_WEEK", "AVG_VOLUME", "OPEN_INTEREST", "OPTION_HISTORICAL_VOL", "OPTION_IMPLIED_VOL",
    "OPTION_BID_EXCH", "OPTION_ASK_EXCH", "OPTION_CALL_OPEN_INTEREST", "OPTION_PUT_OPEN_INTEREST",
    "OPTION_CALL_VOLUME", "OPTION_PUT_VOLUME", "INDEX_FUTURE_PREMIUM", "BID_EXCH", "ASK_EXCH",
    "AUCTION_VOLUME", "AUCTION_PRICE", "AUCTION_IMBALANCE", "MARK_PRICE", "BID_EFP_COMPUTATION",
    "ASK_EFP_COMPUTATION", "LAST_EFP_COMPUTATION", "OPEN_EFP_COMPUTATION", "HIGH_EFP_COMPUTATION",
    "LOW_EFP_COMPUTATION", "CLOSE_EFP_COMPUTATION", "LAST_TIMESTAMP", "SHORTABLE",
    "FUNDAMENTAL_RATIOS", "RT_VOLUME", "HALTED", "BID_YIELD", "ASK_YIELD", "LAST_YIELD",
    "CUST_OPTION_COMPUTATION", "TRADE_COUNT", "TRADE_RATE", "VOLUME_RATE", "LAST_RTH_TRADE",
    "NOT_SET">>

\* The names symbol_from_contract looks for; it fails when one is missing.
SymbolFields == {"symbol", "secType", "expiry", "strike", "right"}

\* An option's symbol has its expiry, strike and right, here one value.
symbol_from_contract(c) ==
  IF c.secType = "OPT" THEN <<c.symbol, c.secType, c.expiry>> ELSE <<c.symbol, c.secType>>

\* The values each callback writes after "cid", "ts_utc" and "event".
TickEvents ==
  [tickPrice             |-> {"tickerId", "field", "price", "canAutoExecute"},
   tickSize              |-> {"tickerId", "field", "size"},
   tickOptionComputation |-> {"tickerId", "field", "impliedVol", "delta", "optPrice",
                              "pvDividend", "gamma", "vega", "theta", "undPrice"},
   tickGeneric           |-> {"tickerId", "field", "value"},
   tickString            |-> {"tickerId", "field", "value"},
   tickEFP               |-> {"tickerId", "field", "basisPoints", "formattedBasisPoints",
                              "totalDividends", "holdDays", "futureExpiry",
                              "dividendImpact", "dividendsToExpiry"}]

OrderAndAccountEvents ==
  [openOrder           |-> {"orderId", "contract", "order", "orderState"},
   openOrderEnd        |-> {},
   winError            |-> {"str", "lastError"},
   connectionClosed    |-> {},
   updateAccountValue  |-> {"key", "val", "currency", "accountName"},
   updatePortfolio     |-> {"&contract", "position", "marketPrice", "marketValue",
                            "averageCost", "unrealizedPNL", "realizedPNL", "accountName"},
   updateAccountTime   |-> {"timeStamp"},
   accountDownloadEnd  |-> {"accountName"},
   contractDetails     |-> {"reqId", "&contractDetails", "contract"},
   bondContractDetails |-> {"reqId", "&contractDetails", "contract"},
   contractDetailsEnd  |-> {"reqId"},
   execDetails         |-> {"reqId", "contract", "execution"},
   execDetailsEnd      |-> {"reqId"}]

DepthEvents ==
  [updateMktDepth   |-> {"id", "position", "operation", "side", "price", "size"},
   updateMktDepthL2 |-> {"id", "position", "marketMaker", "operation", "side", "price", "size"}]

OtherEvents ==
  [updateNewsBulletin |-> {"msgId", "msgType", "newsMessage", "originExch"},
   managedAccounts    |-> {"accountsList"},
   receiveFA          |-> {"pFaDataType", "cxml"},
   historicalData     |-> {"reqId", "date", "open", "high", "low", "close", "volume",
                           "barCount", "WAP", "hasGaps"},
   scannerParameters  |-> {"xml"},
   scannerData        |-> {"reqId", "rank", "&contractDetails", "distance", "benchmark",
                           "projection", "legsStr"},
   scannerDataEnd     |-> {"reqId"},
   realtimeBar        |-> {"reqId", "time", "open", "high", "low", "close", "volume",
                           "wap", "count"},
   fundamentalData    |-> {"reqId", "data"},
   deltaNeutralValidation |-> {"reqId", "&underComp"},
   tickSnapshotEnd    |-> {"reqId"},
   marketDataType     |-> {"reqId", "marketDataType"},
   orderStatus        |-> {"orderId", "status", "filled", "remaining", "avgFillPrice",
                           "permId", "parentId", "lastFillPrice", "clientId", "whyHeld"},
   nextValidId        |-> {"orderId"},
   currentTime        |-> {"time"},
   error              |-> {"id", "errorCode", "errorString"}]

\* The values each request writes after "cid", "ts", "ts_utc" and "action".
TradingRequests ==
  [serverVersion |-> {}, TwsConnectionTime |-> {},
   reqMktData         |-> {"id", "&contract", "genericTicks", "snapshot", "contract"},
   cancelMktData      |-> {},
   placeOrder         |-> {"id", "&contract", "order"},
   cancelOrder        |-> {"id"},
   reqOpenOrders      |-> {},
   reqAccountUpdates  |-> {"subscribe", "acctCode"},
   reqExecutions      |-> {"reqId", "&filter"},
   reqIds             |-> {"numIds"},
   reqContractDetails |-> {"reqId", "&contract", "contract"},
   reqMktDepth        |-> {"id", "&contract", "numRows", "contract"},
   cancelMktDepth     |-> {"id"},
   reqNewsBulletins   |-> {"allMsgs"}, cancelNewsBulletins |-> {},
   setServerLogLevel  |-> {"level"}, reqAutoOpenOrders |-> {"bAutoBind"},
   reqAllOpenOrders   |-> {}, reqManagedAccts |-> {}]

DataRequests ==
  [requestFA |-> {"pFaDataType"}, replaceFA |-> {"pFaDataType", "cxml"},
   reqHistoricalData |-> {"id", "&contract", "endDateTime", "durationStr", "barSizeSetting",
                          "whatToShow", "useRTH", "formatDate", "contract"},
   exerciseOptions   |-> {"id", "&contract", "exerciseAction", "exerciseQuantity",
                          "account", "override"},
   cancelHistoricalData |-> {"tickerId"},
   reqRealTimeBars   |-> {"id", "&contract", "barSize", "whatToShow", "useRTH", "contract"},
   cancelRealTimeBars |-> {"tickerId"}, cancelScannerSubscription |-> {"tickerId"},
   reqScannerParameters |-> {}, reqScannerSubscription |-> {"tickerId", "&subscription"},
   reqCurrentTime    |-> {}, reqFundamentalData |-> {"reqId", "&contract", "reportType"},
   cancelFundamentalData |-> {"reqId"},
   calculateImpliedVolatility |-> {"reqId", "&contract", "optionPrice", "underPrice"},
   calculateOptionPrice |-> {"reqId", "&contract", "volatility", "underPrice"},
   cancelCalculateImpliedVolatility |-> {"reqId"}, cancelCalculateOptionPrice |-> {"reqId"},
   reqGlobalCancel   |-> {}, reqMarketDataType |-> {"marketDataType"}]

Joined(f, g) == [x \in DOMAIN f \cup DOMAIN g |-> IF x \in DOMAIN f THEN f[x] ELSE g[x]]

Events   == Joined(Joined(TickEvents, OrderAndAccountEvents), Joined(DepthEvents, OtherEvents))
Requests == Joined(TradingRequests, DataRequests)

\* Requests whose line says which contract the id stands for.
WithContract == {call \in DOMAIN Requests : {"id", "contract"} \subseteq Requests[call]}

\* The lines, as far as a reader can tell them apart.
Lines == [kind : {"event", "action", "end"}, name : DOMAIN Events \cup DOMAIN Requests,
          ts : Times, id : Ids \cup {None}, contract : Contracts \cup {None},
          field : ToSet(TickTypeNames) \cup {None}]

ASSUME EventLogAssumption ==
  /\ Ids \subseteq Nat
  /\ Contracts \subseteq [symbol : Seq(1..26), secType : {"STK", "IND", "OPT", "FUT"},
                          expiry : Nat]
  /\ Times \subseteq 0..1439
  /\ Called \subseteq DOMAIN Requests /\ Received \subseteq DOMAIN Events
  /\ TickFields \in [DOMAIN TickEvents -> SUBSET ToSet(TickTypeNames)]
  /\ MaxLines \in Nat
  /\ SymbolFields \subseteq ContractFields
  /\ None \notin Times \cup Ids /\ None \notin Contracts /\ None \notin Lines
  /\ None \notin {symbol_from_contract(c) : c \in Contracts}

\* Trading hours, extended and regular.
checkEXT(t) == 4 * 60 <= t /\ t < 20 * 60
checkRTH(t) == 9 * 60 + 30 <= t /\ t < 16 * 60

VARIABLES
  line,    \* the line of the log to be read next, or None
  asked,   \* asked[id]: what was asked for under id, pairs of request and contract
  calling, \* the request between its two lines, or None
  clock,   \* the time of the last line
  lines,   \* how many lines were written
  missed   \* ids asked for in lines of files that are not read

logVars == <<line, asked, calling, clock, lines, missed>>

\* What is written about each kind of call; a request's second line has its
\* name and how long it took.
Names(l) == CASE l.kind = "event"  -> {"ts_utc", "event"} \cup Events[l.name]
              [] l.kind = "action" -> {"ts_utc", "action"} \cup Requests[l.name]
              [] l.kind = "end"    -> {"action", "elapsed"}

LogTypeOK ==
  /\ line \in Lines \cup {None}
  /\ asked \in [Ids -> SUBSET (WithContract \X Contracts)]
  /\ calling \in DOMAIN Requests \cup {None}
  /\ clock \in Times
  /\ lines \in 0..MaxLines
  /\ missed \subseteq Ids

LogInit ==
  /\ line = None
  /\ asked = [id \in Ids |-> {}]
  /\ calling = None
  /\ clock \in {t \in Times : \A u \in Times : t <= u}
  /\ lines = 0
  /\ missed = {}

Append_(kind, name, id, contract, field) ==
  /\ line = None
  /\ lines < MaxLines
  /\ lines' = lines + 1
  /\ UNCHANGED missed
  /\ \E t \in Times : /\ t >= clock
                      /\ clock' = t
                      /\ line' = [kind |-> kind, name |-> name, ts |-> t, id |-> id,
                                  contract |-> contract, field |-> field]

\* A request: LOG_START, then the call.  Those that subscribe to market data of
\* a contract are the ones whose answers carry its id.
LogStart(call, id, contract) ==
  /\ calling = None
  /\ calling' = call
  /\ Append_("action", call, id, contract, None)
  /\ asked' = IF contract = None THEN asked
              ELSE [asked EXCEPT ![id] = @ \cup {<<call, contract>>}]

\* LOG_END.
LogEnd ==
  /\ calling # None
  /\ calling' = None
  /\ Append_("end", calling, None, None, None)
  /\ UNCHANGED asked

\* An event of the gateway.
LogEvent(event, id, field) ==
  /\ Append_("event", event, id, None, field)
  /\ UNCHANGED <<asked, calling>>

\* The ids under which a request was made, and the symbols an id may stand for.
IdsOf(call)   == {id \in Ids : \E c \in Contracts : <<call, c>> \in asked[id]}
SymbolsOf(id) == {symbol_from_contract(a[2]) : a \in asked[id]}

LogNext ==
  \/ \E call \in Called \cap WithContract, id \in Ids, c \in Contracts : LogStart(call, id, c)
  \/ \E call \in Called \ WithContract : LogStart(call, None, None)
  \/ LogEnd
  \/ \E id \in IdsOf("reqMktData"), event \in Received \cap DOMAIN TickEvents :
       \E field \in TickFields[event] : LogEvent(event, id, field)
  \/ \E id \in IdsOf("reqMktDepth"), event \in Received \cap DOMAIN DepthEvents :
       LogEvent(event, id, None)
  \/ \E event \in Received \ (DOMAIN TickEvents \cup DOMAIN DepthEvents) :
       LogEvent(event, None, None)

\* A line of a file that is not read: glog starts a new file when one is full.
OtherFile ==
  /\ line # None
  /\ line' = None
  /\ missed' = IF line.kind = "action" /\ line.id # None THEN missed \cup {line.id} ELSE missed
  /\ UNCHANGED <<asked, calling, clock, lines>>

\* A reader takes the next line.
NextLine == line' = None /\ UNCHANGED <<asked, calling, clock, lines, missed>>
=============================================================================
