---------------------------- MODULE HistorianDb -----------------------------
(***************************************************************************)
(* The historian's LevelDB store (historian/Db.cpp and internal.hpp) as a  *)
(* function from keys to records.  A key is the text                       *)
(* entity:symbol:timestamp; here it is the tuple of its parts, which sort  *)
(* the way the texts do as long as timestamps have the same number of      *)
(* digits.                                                                 *)
(***************************************************************************)
EXTENDS Integers, Sequences, FiniteSets

MarketDataKey(symbol, ts)       == <<"mkt", symbol, ts>>
MarketDepthKey(symbol, ts)      == <<"depth", symbol, ts>>
SessionLogKey(symbol, from, to) == <<"sessionlog", symbol, from, to>>
IndexKey(symbol, event, ts)     == <<"x/event-value", symbol, event, ts>>

\* The entity of each type of record; entities in the order of their keys.
Entity == [IB_MARKET_DATA |-> "mkt", IB_MARKET_DEPTH |-> "depth",
           SESSION_LOG |-> "sessionlog", INDEXED_VALUE |-> "x/event-value"]

KeyOrder == <<"depth", "mkt", "sessionlog", "x/event-value">>

\* A Record carries one value and says of which type it is; as reads it as a
\* value of a type only if it is one.
wrap(type, value) == [f \in DOMAIN value \cup {"type"} |-> IF f = "type" THEN type ELSE value[f]]

as(type, record) == record.type = type

Empty == << >>

Put(db, key, value) == [k \in DOMAIN db \cup {key} |-> IF k = key THEN value ELSE db[k]]

\* write_batch and write_db: unless it may overwrite, a key is written once.
OkToWrite(db, key, overwrite) == overwrite \/ key \notin DOMAIN db

\* Writer<V> and its specialisations for MarketDepth and SessionLog.
WriteRecord(db, key, value, overwrite) ==
  IF OkToWrite(db, key, overwrite) THEN Put(db, key, value) ELSE db

\* Mutant: the index decides whether the batch is written.
WriteIfNotIndexed(db, symbol, event, ts, value, overwrite) ==
  IF OkToWrite(db, IndexKey(symbol, event, ts), overwrite)
  THEN Put(Put(db, MarketDataKey(symbol, ts), wrap("IB_MARKET_DATA", [event |-> event, value |-> value])),
           IndexKey(symbol, event, ts), wrap("INDEXED_VALUE", [value |-> value]))
  ELSE db

\* Writer<MarketData>: the record and its entry in the index by event are one
\* batch, and the record decides whether the batch is written.
WriteMarketData(db, symbol, event, ts, value, overwrite) ==
  LET key == MarketDataKey(symbol, ts)
  IN  IF OkToWrite(db, key, overwrite)
      THEN Put(Put(db, key, wrap("IB_MARKET_DATA", [event |-> event, value |-> value])),
               IndexKey(symbol, event, ts), wrap("INDEXED_VALUE", [value |-> value]))
      ELSE db

\* The order of the keys of one symbol, for the index also of one event.
Stamp(k) == IF k[1] = "x/event-value" THEN k[4] ELSE k[3]

Before(j, k) ==
  LET place(e) == CHOOSE i \in DOMAIN KeyOrder : KeyOrder[i] = e
  IN  place(j[1]) < place(k[1]) \/ (j[1] = k[1] /\ Stamp(j) < Stamp(k))

\* The keys of [first, last), of one symbol.
QueryByRange(db, first, last) ==
  {k \in DOMAIN db : k[2] = first[2] /\ ~ Before(k, first) /\ Before(k, last)}

\* Mutant: the first key of the range is left out.
QueryAfterFirst(db, type, symbol, event, first, last) ==
  {k \in DOMAIN db :
    /\ k[1] = Entity[type] /\ k[2] = symbol
    /\ type = "INDEXED_VALUE" => k[3] = event
    /\ first < Stamp(k) /\ Stamp(k) < last}

\* The keys of a query by symbol: session logs by the start of the session; an
\* index query needs the event to be given.
QueryBySymbol(db, type, symbol, event, first, last) ==
  {k \in DOMAIN db :
    /\ k[1] = Entity[type] /\ k[2] = symbol
    /\ type = "INDEXED_VALUE" => k[3] = event
    /\ first <= Stamp(k) /\ Stamp(k) < last}

\* The records an iterator over the keys returns, in their order: the i-th key has
\* i - 1 keys before it.
Records(db, keys) ==
  LET place(i) == CHOOSE k \in keys : Cardinality({j \in keys : Before(j, k)}) = i - 1
  IN  [i \in 1..Cardinality(keys) |-> [key |-> place(i), record |-> db[place(i)]]]

\* Each tick of the store is in the index under its event, with the same value.
IndexFollows(db) ==
  \A k \in DOMAIN db : k[1] = "mkt" =>
    LET x == IndexKey(k[2], db[k].event, k[3])
    IN  x \in DOMAIN db /\ db[x].value = db[k].value
=============================================================================
