----------------------------- MODULE LogReader ------------------------------
(***************************************************************************)
(* atp::log_reader::LogReader::Process and the programs that publish what  *)
(* it delivers (DispatchEvents, lp_main): a file of the event log is read  *)
(* line by line, requests teach the reader which symbol an id stands for,  *)
(* supported ticks within the hours and the duration asked for go to the   *)
(* market data visitor, and DATA_END follows the last of them.             *)
(*                                                                         *)
(* A file may start anywhere in the log, because glog starts a new file    *)
(* when one is full: lines written before the file is opened are missed.   *)
(***************************************************************************)
EXTENDS EventLog

CONSTANTS Rth,      \* rth_: regular trading hours only
          Start,    \* where to start, a minute of the day
          Duration  \* how many minutes to scan

ASSUME LogReaderAssumption == Rth \in BOOLEAN /\ Start \in Nat /\ Duration \in Nat

VARIABLES
  mode,      \* of the reader: "closed", "reading", "ended" or "aborted"
  symbols,   \* ticker_id_symbol_map
  firstLog,  \* first_log_t
  published  \* what the visitors sent, in order

readerVars == <<mode, symbols, firstLog, published>>
vars == <<logVars, readerVars>>

Record  == [id : Ids, symbol : {symbol_from_contract(c) : c \in Contracts}, ts : Times]
DataEnd == [id |-> None, symbol |-> None, ts |-> None]

TypeOK ==
  /\ LogTypeOK
  /\ mode \in {"closed", "reading", "ended", "aborted"}
  /\ symbols \in [Ids -> {symbol_from_contract(c) : c \in Contracts} \cup {None}]
  /\ firstLog \in Times \cup {None}
  /\ published \in Seq(Record \cup {DataEnd})

Init ==
  /\ LogInit
  /\ mode = "closed"
  /\ symbols = [id \in Ids |-> None]
  /\ firstLog = None
  /\ published = << >>

----------------------------------------------------------------------------

action_map == {"reqMktData", "reqMktDepth", "reqRealTimeBars", "reqHistoricalData"}

event_value_map ==
  [tickPrice |-> {"CLOSE", "BID", "ASK", "LAST"},
   tickSize |-> {"BID_SIZE", "ASK_SIZE", "LAST_SIZE"},
   tickString |-> {"LAST_TIMESTAMP"}]

\* The field that holds the value, which converts to the value's type.
event_value_field == [tickPrice |-> "price", tickSize |-> "size", tickString |-> "value"]

\* Every supported event is written with the fields it is read by; Process ends
\* the program when one is missing.
ASSUME FieldsAreWritten ==
  \A e \in DOMAIN event_value_map : {"tickerId", "field", event_value_field[e]} \subseteq Events[e]

get_field(l, names) == names \subseteq Names(l)

is_action(l) == "action" \in Names(l) /\ l.name \in action_map

\* The line a request writes before the call; the one after it has no id.
MapsId(l) == is_action(l) /\ get_field(l, {"id", "contract"})

is_supported(l) == l.kind = "event" /\ l.name \in DOMAIN event_value_map

check_time(l) == checkEXT(l.ts) /\ (Rth => checkRTH(l.ts))

\* operator<< of a MarketData: the tick types listed with the event's name, and
\* a value under the name the table gives it.
Converts(l) ==
  /\ get_field(l, {"ts_utc", "tickerId", "field", event_value_field[l.name]})
  /\ l.field \in event_value_map[l.name]

\* operator<< of a MarketDepth, which an event of the supported ones has to be:
\* it needs an "id".
ConvertsToDepth(l) ==
  get_field(l, {"ts_utc", "id", "side", "operation", "position", "price", "size"})

\* first_log_t is set by the first line considered after one record was delivered.
FirstLog(l) == IF firstLog = None /\ Len(published) = 1 THEN l.ts ELSE firstLog

\* A line that passes the checks on its kind, its time and the start.
Considered(l) == is_supported(l) /\ check_time(l) /\ l.ts >= Start

InScan(l) == IF FirstLog(l) = None THEN TRUE ELSE l.ts - FirstLog(l) <= Duration

\* The visitors send a record under its symbol as topic; what becomes of it then
\* is not looked at.
Dispatch(record) == published' = Append(published, record)

Reading == mode = "reading" /\ line # None

----------------------------------------------------------------------------

Miss == mode = "closed" /\ OtherFile /\ UNCHANGED readerVars

Open ==
  /\ mode = "closed" /\ line = None
  /\ mode' = "reading"
  /\ UNCHANGED <<logVars, symbols, firstLog, published>>

\* Mutant: a request gives an id another symbol.
RemapId ==
  /\ Reading
  /\ MapsId(line)
  /\ symbols' = [symbols EXCEPT ![line.id] = symbol_from_contract(line.contract)]
  /\ NextLine
  /\ UNCHANGED <<mode, firstLog, published>>

\* map_id_to_symbols: the id gets its symbol, or has it, or has another one,
\* which ends the program.
MapIdToSymbols ==
  /\ Reading
  /\ MapsId(line)
  /\ LET symbol == symbol_from_contract(line.contract)
     IN  IF symbols[line.id] \in {None, symbol}
         THEN symbols' = [symbols EXCEPT ![line.id] = symbol] /\ mode' = mode
         ELSE symbols' = symbols /\ mode' = "aborted"
  /\ NextLine
  /\ UNCHANGED <<firstLog, published>>

\* Lines that are neither requests nor considered, and ticks of other types.
Skip ==
  /\ Reading
  /\ ~ MapsId(line) /\ ~ Considered(line)
  /\ NextLine
  /\ UNCHANGED <<mode, symbols, firstLog, published>>

\* The scan is longer than asked for: the loop ends.
StopScan ==
  /\ Reading
  /\ Considered(line) /\ ~ InScan(line)
  /\ mode' = "ended"
  /\ firstLog' = FirstLog(line)
  /\ NextLine
  /\ UNCHANGED <<symbols, published>>

\* A tick whose id has no symbol ends the program (LOG(FATAL)).
UnknownId ==
  /\ Reading
  /\ Considered(line) /\ InScan(line) /\ "tickerId" \in Names(line)
  /\ symbols[line.id] = None
  /\ mode' = "aborted"
  /\ NextLine
  /\ UNCHANGED <<symbols, firstLog, published>>

\* The visitor is called and whether it could send is ignored.  A tick that is
\* not a market data record is not a depth record either, and is skipped.
Deliver ==
  /\ Reading
  /\ Considered(line) /\ InScan(line)
  /\ symbols[line.id] # None
  /\ firstLog' = FirstLog(line)
  /\ IF Converts(line) \/ ConvertsToDepth(line)
     THEN Dispatch([id |-> line.id, symbol |-> symbols[line.id], ts |-> line.ts])
     ELSE UNCHANGED published
  /\ NextLine
  /\ UNCHANGED <<mode, symbols>>

\* The end of the file.
EndOfFile ==
  /\ mode = "reading" /\ line = None
  /\ mode' = "ended"
  /\ UNCHANGED <<logVars, symbols, firstLog, published>>

\* Mutant: the stop message follows data only.
DataEndAfterData ==
  /\ mode = "ended"
  /\ published # << >> /\ published[Len(published)] # DataEnd
  /\ Dispatch(DataEnd)
  /\ UNCHANGED <<logVars, mode, symbols, firstLog>>

\* After Process, DispatchEvents and lp_main send the stop message.
SendDataEnd ==
  /\ mode = "ended"
  /\ \A i \in DOMAIN published : published[i] # DataEnd
  /\ Dispatch(DataEnd)
  /\ UNCHANGED <<logVars, mode, symbols, firstLog>>

Write == LogNext /\ mode \in {"closed", "reading"} /\ UNCHANGED readerVars

Read == MapIdToSymbols \/ Skip \/ StopScan \/ UnknownId \/ Deliver \/ EndOfFile \/ SendDataEnd

Next == Write \/ Miss \/ Open \/ Read

Spec == Init /\ [][Next]_vars

\* The loop runs until the file ends.
Fairness == WF_vars(Read)

----------------------------------------------------------------------------

\* What is published under an id has a symbol that was asked for under that id,
\* and one file never gives an id two symbols, although ids are reused.
SymbolsAreRight ==
  \A i, j \in DOMAIN published :
    published[i] # DataEnd =>
      /\ published[i].symbol \in SymbolsOf(published[i].id)
      /\ published[j] # DataEnd /\ published[j].id = published[i].id
           => published[j].symbol = published[i].symbol

\* Process gives up on a file (LOG(FATAL)) only when requests were written to an
\* earlier file or an id was used for two symbols.
CompleteFileIsRead ==
  mode = "aborted" => missed # {} \/ \E id \in Ids : \E s, t \in SymbolsOf(id) : s # t

\* Records are sent in the order of the log, from the hours and the start asked
\* for, and from the second record on span no more than the duration asked for.
ScanWindow ==
  \A i, j \in {k \in DOMAIN published : published[k] # DataEnd} :
    /\ published[i].ts >= Start /\ checkEXT(published[i].ts)
    /\ Rth => checkRTH(published[i].ts)
    /\ i <= j => published[i].ts <= published[j].ts
    /\ 2 <= i /\ i <= j => published[j].ts - published[i].ts <= Duration

\* What Process delivers is right: the symbols, the files it gives up on and the
\* window it keeps to.
ScanIsRight == TypeOK /\ SymbolsAreRight /\ CompleteFileIsRead /\ ScanWindow

\* A scan that starts ends: subscribers get DATA_END, unless the program died.
EveryScanEnds ==
  mode = "reading" ~>
    (mode = "aborted" \/ (published # << >> /\ published[Len(published)] = DataEnd))
=============================================================================
