-------------------------- MODULE HistorianLoader ---------------------------
(***************************************************************************)
(* main/historian_loader_main.cpp: it reads files of the event log into    *)
(* the historian's store, a record for each tick and depth event, and one  *)
(* session log for each symbol and stretch of time without a gap, so that  *)
(* a reader of the store can tell what data it has.  The maps of ids and   *)
(* sessions are kept from one file to the next.                            *)
(***************************************************************************)
EXTENDS EventLog, HistorianDb

CONSTANTS RthOnly,      \* --rth
          GapInMinutes, \* --gapInMinutes
          MaxFiles      \* bound: files in --logfile

\* GetSymbol's guess for an id no request was seen for.
GuessedSymbol(id) == <<SymbolFromTickerId(id), "STK">>

LoadedSymbols == {symbol_from_contract(c) : c \in Contracts} \cup {GuessedSymbol(id) : id \in Ids}

ASSUME HistorianLoaderAssumption ==
  /\ RthOnly \in BOOLEAN /\ GapInMinutes \in Nat /\ MaxFiles \in Nat \ {0}
  /\ None \notin LoadedSymbols

VARIABLES
  loading,   \* "closed", "reading", "done" or "aborted"
  files,     \* how many files --logfile lists
  file,      \* the one being read
  canOverWrite, \* ! --checkDuplicate
  tickerIdSymbol, \* TickerIdSymbolMap
  sessionLogs,    \* SymbolSessionLogs: symbol to [start, stop]
  db         \* the store

loaderVars == <<loading, files, file, canOverWrite, tickerIdSymbol, sessionLogs, db>>

LoaderTypeOK ==
  /\ loading \in {"closed", "reading", "done", "aborted"}
  /\ files \in 1..MaxFiles /\ file \in 1..files
  /\ canOverWrite \in BOOLEAN
  /\ tickerIdSymbol \in [Ids -> LoadedSymbols \cup {None}]
  /\ DOMAIN sessionLogs \subseteq LoadedSymbols
  /\ \A s \in DOMAIN sessionLogs : sessionLogs[s] \in [start : Times, stop : Times \cup {0}]
  /\ \A k \in DOMAIN db : k[1] \in {"mkt", "depth", "sessionlog", "x/event-value"}
                          /\ k[2] \in LoadedSymbols

LoaderInit ==
  /\ loading = "closed"
  /\ files \in 1..MaxFiles /\ file = 1
  /\ canOverWrite \in BOOLEAN
  /\ tickerIdSymbol = [id \in Ids |-> None]
  /\ sessionLogs = << >>
  /\ db = Empty

----------------------------------------------------------------------------

ACTION_SET == {"reqMktData", "reqMktDepth", "reqRealTimeBars", "reqHistoricalData"}
EVENT_MAP  == [tickPrice |-> "price", tickSize |-> "size", tickGeneric |-> "value"]

\* ParseMap makes a map of the pairs in a line, GetField looks names up in it.
GetField(l, names) == names \subseteq Names(l)

checkEvent(l)     == l.kind = "event" /\ l.name \in DOMAIN EVENT_MAP
checkBookEvent(l) == l.kind = "event" /\ l.name \in {"updateMktDepth", "updateMktDepthL2"}
checkAction(l)    == "action" \in Names(l) /\ l.name \in ACTION_SET

\* Convert, for ticks of every type and for depth.
ConvertsTick(l) ==
  checkEvent(l) /\ GetField(l, {"ts_utc", "tickerId", "field", EVENT_MAP[l.name]})
ConvertsBook(l) ==
  /\ checkBookEvent(l)
  /\ GetField(l, {"ts_utc", "id", "side", "operation", "position", "price", "size"})

InHours(l) == checkEXT(l.ts) /\ (RthOnly => checkRTH(l.ts))

\* What GetSymbol returns, having registered its guess if it had to guess.
GetSymbol(id) == IF tickerIdSymbol[id] = None THEN GuessedSymbol(id) ELSE tickerIdSymbol[id]

\* updateSessionLog: a session that has a second record ends when the next one is
\* more than GapInMinutes later, of which time_duration::minutes() has the
\* minutes of the hour only.
Minutes(d) == d % 60

EndsSession(s, ts) ==
  /\ s \in DOMAIN sessionLogs
  /\ sessionLogs[s].stop > 0
  /\ Minutes(ts - sessionLogs[s].stop) > GapInMinutes

UpdatedSession(s, ts) ==
  IF s \notin DOMAIN sessionLogs
  THEN [start |-> ts, stop |-> 0]
  ELSE [start |-> IF EndsSession(s, ts) THEN ts ELSE sessionLogs[s].start, stop |-> ts]

\* Mutant: the session that ended is not stored.
SessionForgotten(s, ts) == db

\* The session that ended is stored with the name of the last file of --logfile.
StoredSession(s, ts) ==
  IF EndsSession(s, ts)
  THEN Put(db, SessionLogKey(s, sessionLogs[s].start, sessionLogs[s].stop), wrap("SESSION_LOG", [source |-> files]))
  ELSE db

Loading == loading = "reading" /\ line # None

----------------------------------------------------------------------------

PassOver == loading = "closed" /\ OtherFile /\ UNCHANGED loaderVars

OpenFiles ==
  /\ loading = "closed" /\ line = None
  /\ loading' = "reading"
  /\ UNCHANGED <<logVars, files, file, canOverWrite, tickerIdSymbol, sessionLogs, db>>

\* A tick or a depth event: WriteDb.
Load ==
  /\ Loading
  /\ ConvertsTick(line) \/ ConvertsBook(line)
  /\ LET s == GetSymbol(line.id)
     IN  /\ tickerIdSymbol' = [tickerIdSymbol EXCEPT ![line.id] = s]
         /\ IF InHours(line)
            THEN /\ sessionLogs' = Put(sessionLogs, s, UpdatedSession(s, line.ts))
                 /\ db' = IF ConvertsTick(line)
                          THEN WriteMarketData(StoredSession(s, line.ts), s, line.field,
                                               line.ts, [id |-> line.id, nth |-> lines], canOverWrite)
                          ELSE WriteRecord(StoredSession(s, line.ts),
                                           MarketDepthKey(s, line.ts),
                                           wrap("IB_MARKET_DEPTH", [value |-> [id |-> line.id, nth |-> lines]]),
                                           canOverWrite)
            ELSE UNCHANGED <<sessionLogs, db>>
  /\ NextLine
  /\ UNCHANGED <<loading, files, file, canOverWrite>>

\* MapActions.  A request that gives an id another symbol than it has, be it a
\* guessed one, ends the program.
MapActions ==
  /\ Loading
  /\ checkAction(line) /\ GetField(line, {"id", "contract"})
  /\ LET s == symbol_from_contract(line.contract)
     IN  IF tickerIdSymbol[line.id] \in {None, s}
         THEN tickerIdSymbol' = [tickerIdSymbol EXCEPT ![line.id] = s] /\ UNCHANGED loading
         ELSE UNCHANGED tickerIdSymbol /\ loading' = "aborted"
  /\ NextLine
  /\ UNCHANGED <<files, file, canOverWrite, sessionLogs, db>>

Ignore ==
  /\ Loading
  /\ ~ ConvertsTick(line) /\ ~ ConvertsBook(line)
  /\ ~ (checkAction(line) /\ GetField(line, {"id", "contract"}))
  /\ NextLine
  /\ UNCHANGED <<loaderVars>>

\* All sessions, at the end of each file, with that file as the source.
WriteSessionLogs ==
  LET key(s) == SessionLogKey(s, sessionLogs[s].start, sessionLogs[s].stop)
      written == {key(s) : s \in {t \in DOMAIN sessionLogs : OkToWrite(db, key(t), canOverWrite)}}
  IN  [k \in DOMAIN db \cup written |->
         IF k \in written THEN wrap("SESSION_LOG", [source |-> file]) ELSE db[k]]

EndFile ==
  /\ loading = "reading" /\ line = None
  /\ db' = WriteSessionLogs
  /\ IF file < files THEN file' = file + 1 /\ UNCHANGED loading
                     ELSE loading' = "done" /\ UNCHANGED file
  /\ UNCHANGED <<logVars, files, canOverWrite, tickerIdSymbol, sessionLogs>>

LoaderNext == PassOver \/ OpenFiles \/ Load \/ MapActions \/ Ignore \/ EndFile

----------------------------------------------------------------------------

Primary(k) == k[1] \in {"mkt", "depth"}

\* A tick in the store is in the index under its event, with the same value,
\* also when it replaced another event of the same moment.
IndexFollowsRecords == IndexFollows(db)

\* When the loader is done every record lies in a session log of its symbol; a
\* session of a single record has no stop time.
SessionsCoverRecords ==
  loading = "done" =>
    \A k \in DOMAIN db : Primary(k) =>
      \E log \in DOMAIN db :
        /\ log[1] = "sessionlog" /\ log[2] = k[2] /\ log[3] <= k[3]
        /\ k[3] <= log[4] \/ (log[4] = 0 /\ log[3] = k[3])

\* A record is stored under a symbol its id was asked for, unless the request was
\* in a file that is not loaded; and only such a request, or an id used for two
\* symbols, makes the loader give up.
LoadedUnderOwnSymbol ==
  /\ \A k \in DOMAIN db : Primary(k) =>
       db[k].value.id \in missed \/ k[2] \in SymbolsOf(db[k].value.id)
  /\ loading = "aborted" =>
       missed # {} \/ \E id \in Ids : \E s, t \in SymbolsOf(id) : s # t

\* What the loader leaves in the store is right: index, sessions and symbols.
StoreIsRight ==
  LoaderTypeOK /\ IndexFollowsRecords /\ SessionsCoverRecords /\ LoadedUnderOwnSymbol

\* With --checkDuplicate no record and no entry of the index is ever replaced.
NeverReplaced ==
  [][~ canOverWrite =>
       \A k \in DOMAIN db : k[1] # "sessionlog" => k \in DOMAIN db' /\ db'[k] = db[k]
    ]_<<logVars, loaderVars>>

\* Comment at historian_loader_main.cpp:433: a session has no gap of more than
\* GapInMinutes between two records.  The gap after the first record, which the
\* code does not look at, is left out.
NoGapInsideSession ==
  \A log \in {k \in DOMAIN db : k[1] = "sessionlog"} :
    LET inside == {k[3] : k \in {r \in DOMAIN db : Primary(r) /\ r[2] = log[2]
                                                    /\ log[3] < r[3] /\ r[3] <= log[4]}}
    IN  \A t \in inside :
          (\E u \in inside : u > t) => \E u \in inside : t < u /\ u - t <= GapInMinutes
=============================================================================
