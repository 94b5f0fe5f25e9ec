-------------------------- MODULE HistorianProofs ---------------------------
(***************************************************************************)
(* Proofs about the historian: the two readers of the event log, of which  *)
(* one fills the store, for any log, contracts, times and flags; and the   *)
(* service that answers queries from the store, for any clients, response  *)
(* ids and times.                                                          *)
(***************************************************************************)
EXTENDS MCEventLog, HistorianService, FiniteSetTheorems, TLAPS


-----------------------------------------------------------------------------
(* What is written *)

\* Somebody asked for the data of an id.
Subscribed(id) == \E a \in asked[id] : a[1] \in action_map

\* The line to be read says which contract the id stands for.
Pending(id) ==
  line # None /\ line.kind = "action" /\ line.name \in WithContract \cap action_map /\ line.id = id

\* A line has the time of the clock, its request is among those asked, and data comes only
\* for ids that somebody asked for.
LineInv ==
  line # None =>
    /\ line.ts = clock
    /\ line.kind = "action" => line.name \in DOMAIN Requests
    /\ line.kind = "event" => line.name \in DOMAIN Events
    /\ line.kind = "action" /\ line.name \in WithContract =>
         /\ line.id \in Ids /\ line.contract \in Contracts
         /\ <<line.name, line.contract>> \in asked[line.id]
    /\ line.kind = "event" /\ line.name \in DOMAIN TickEvents \cup DOMAIN DepthEvents =>
         line.id \in Ids /\ Subscribed(line.id)

LogInv == LogTypeOK /\ LineInv

\* The names of the tables that the readers look for.
LEMMA Tables ==
  /\ DOMAIN Events \cap action_map = {}
  /\ ACTION_SET = action_map
  /\ DOMAIN event_value_map \subseteq DOMAIN TickEvents
  /\ DOMAIN EVENT_MAP \subseteq DOMAIN TickEvents
  /\ {"updateMktDepth", "updateMktDepthL2"} \subseteq DOMAIN DepthEvents
  /\ {"reqMktData", "reqMktDepth"} \subseteq action_map
<1>1. DOMAIN Events = (DOMAIN TickEvents \cup DOMAIN OrderAndAccountEvents)
                        \cup (DOMAIN DepthEvents \cup DOMAIN OtherEvents)
  BY DEF Events, Joined
<1>2. DOMAIN TickEvents \cap action_map = {}
  BY DEF TickEvents, action_map
<1>3. DOMAIN OrderAndAccountEvents \cap action_map = {}
  BY DEF OrderAndAccountEvents, action_map
<1>4. DOMAIN DepthEvents \cap action_map = {}
  BY DEF DepthEvents, action_map
<1>5. DOMAIN OtherEvents \cap action_map = {}
  BY DEF OtherEvents, action_map
<1>6. DOMAIN Events \cap action_map = {}
  BY <1>1, <1>2, <1>3, <1>4, <1>5
<1>7. ACTION_SET = action_map /\ {"reqMktData", "reqMktDepth"} \subseteq action_map
  BY DEF ACTION_SET, action_map
<1>8. DOMAIN event_value_map \subseteq DOMAIN TickEvents
  BY DEF event_value_map, TickEvents
<1>9. DOMAIN EVENT_MAP \subseteq DOMAIN TickEvents
  BY DEF EVENT_MAP, TickEvents
<1>10. {"updateMktDepth", "updateMktDepthL2"} \subseteq DOMAIN DepthEvents
  BY DEF DepthEvents
<1> QED BY <1>6, <1>7, <1>8, <1>9, <1>10

\* The lines that teach a reader a symbol, to both readers.
LEMMA MapsIdMeans ==
  ASSUME LogInv, line # None
  PROVE  MapsId(line) <=> (line.kind = "action" /\ line.name \in WithContract \cap action_map)
<1>0. line.kind \in {"event", "action", "end"}
  BY DEF LogInv, LogTypeOK, Lines
<1>1. CASE line.kind = "action"
  <2>1. Names(line) = {"ts_utc", "action"} \cup Requests[line.name]
    BY <1>1 DEF Names
  <2>2. line.name \in DOMAIN Requests
    BY <1>1 DEF LogInv, LineInv
  <2>3. {"id", "contract"} \subseteq Names(line) <=> {"id", "contract"} \subseteq Requests[line.name]
    BY <2>1
  <2> QED BY <1>1, <2>1, <2>2, <2>3 DEF MapsId, is_action, get_field, WithContract
<1>2. CASE line.kind = "event"
  <2>1. line.name \notin action_map
    BY <1>2, Tables DEF LogInv, LineInv
  <2> QED BY <1>2, <2>1 DEF MapsId, is_action
<1>3. CASE line.kind = "end"
  <2>1. Names(line) = {"action", "elapsed"}
    BY <1>3 DEF Names
  <2> QED BY <1>3, <2>1 DEF MapsId, get_field
<1> QED BY <1>0, <1>1, <1>2, <1>3

LEMMA MapsIdOfBoth ==
  checkAction(line) /\ GetField(line, {"id", "contract"}) <=> MapsId(line)
BY Tables DEF checkAction, GetField, MapsId, is_action, get_field

\* A line is written after what was written before.
LEMMA AppendEffect ==
  ASSUME LogTypeOK, NEW kind \in {"event", "action", "end"}, NEW name \in DOMAIN Events \cup DOMAIN Requests,
         NEW id \in Ids \cup {None}, NEW contract \in Contracts \cup {None},
         NEW field \in ToSet(TickTypeNames) \cup {None}, Append_(kind, name, id, contract, field)
  PROVE  /\ line = None /\ line' \in Lines /\ line' # None
         /\ line'.kind = kind /\ line'.name = name /\ line'.id = id /\ line'.contract = contract
         /\ line'.ts = clock' /\ clock' \in Times /\ clock <= clock'
         /\ lines' \in 0 .. MaxLines /\ missed' = missed
<1>1. PICK t \in Times : /\ t >= clock /\ clock' = t
                         /\ line' = [kind |-> kind, name |-> name, ts |-> t, id |-> id,
                                     contract |-> contract, field |-> field]
  BY DEF Append_
<1>2. line' \in Lines /\ line' # None
  <2>1. line' \in Lines
    BY <1>1 DEF Lines
  <2> QED BY <2>1, EventLogAssumption
<1>3. clock \in Int /\ t \in Int
  BY EventLogAssumption DEF LogTypeOK
<1>4. lines' \in 0 .. MaxLines /\ missed' = missed /\ line = None
  BY EventLogAssumption DEF Append_, LogTypeOK
<1> QED BY <1>1, <1>2, <1>3, <1>4

\* What a step of the log does: the request that is added to asked is on the line.
Grows ==
  /\ \A id \in Ids : asked[id] \subseteq asked'[id]
  /\ \A id \in Ids : \A a \in asked'[id] \ asked[id] :
       line' # None /\ line'.kind = "action" /\ line'.id = id /\ line'.name = a[1] /\ a[1] \in WithContract

LEMMA LogWrites ==
  ASSUME LogInv, LogNext
  PROVE  /\ LogInv' /\ Grows
         /\ line = None /\ missed' = missed /\ clock <= clock'
<1>0. LogTypeOK /\ WithContract \subseteq DOMAIN Requests
  BY DEF LogInv, WithContract
<1>1. ASSUME NEW call \in Called \cap WithContract, NEW id \in Ids, NEW c \in Contracts, LogStart(call, id, c)
      PROVE  /\ LogInv' /\ Grows /\ line = None /\ missed' = missed /\ clock <= clock'
  <2>1. /\ line = None /\ line' \in Lines /\ line' # None
        /\ line'.kind = "action" /\ line'.name = call /\ line'.id = id /\ line'.contract = c
        /\ line'.ts = clock' /\ clock' \in Times /\ clock <= clock'
        /\ lines' \in 0 .. MaxLines /\ missed' = missed
    BY <1>0, <1>1, AppendEffect DEF LogStart
  <2>2. asked' = [asked EXCEPT ![id] = @ \cup {<<call, c>>}] /\ calling' = call
    BY <1>1, EventLogAssumption DEF LogStart
  <2>3. asked \in [Ids -> SUBSET (WithContract \X Contracts)]
    BY <1>0 DEF LogTypeOK
  <2>4. PICK a \in WithContract \X Contracts : a = <<call, c>> /\ a[1] = call
    <3>1. <<call, c>> \in WithContract \X Contracts
      OBVIOUS
    <3>2. <<call, c>>[1] = call
      OBVIOUS
    <3> QED BY <3>1, <3>2
  <2>5. asked' = [asked EXCEPT ![id] = @ \cup {a}]
    BY <2>2, <2>4
  <2>6. /\ asked' \in [Ids -> SUBSET (WithContract \X Contracts)]
        /\ asked'[id] = asked[id] \cup {a}
        /\ \A d \in Ids \ {id} : asked'[d] = asked[d]
    BY <2>3, <2>5
  <2>7. LogTypeOK'
    BY <1>0, <2>1, <2>2, <2>6 DEF LogTypeOK
  <2>8. LineInv'
    BY <1>0, <2>1, <2>4, <2>6 DEF LineInv
  <2>9. Grows
    BY <2>1, <2>4, <2>6 DEF Grows
  <2> QED BY <2>1, <2>7, <2>8, <2>9 DEF LogInv
<1>2. ASSUME NEW call \in Called \ WithContract, LogStart(call, None, None)
      PROVE  /\ LogInv' /\ Grows /\ line = None /\ missed' = missed /\ clock <= clock'
  <2>0. call \in DOMAIN Requests
    BY EventLogAssumption
  <2>1. /\ line = None /\ line' \in Lines /\ line' # None
        /\ line'.kind = "action" /\ line'.name = call
        /\ line'.ts = clock' /\ clock' \in Times /\ clock <= clock'
        /\ lines' \in 0 .. MaxLines /\ missed' = missed
    BY <1>0, <1>2, <2>0, AppendEffect DEF LogStart
  <2>2. asked' = asked /\ calling' = call
    BY <1>2 DEF LogStart
  <2>3. LogTypeOK'
    BY <1>0, <2>0, <2>1, <2>2 DEF LogTypeOK
  <2>4. LineInv'
    BY <2>0, <2>1 DEF LineInv
  <2> QED BY <2>1, <2>2, <2>3, <2>4 DEF LogInv, Grows
<1>3. CASE LogEnd
  <2>0. calling \in DOMAIN Requests
    BY <1>0, <1>3 DEF LogEnd, LogTypeOK
  <2>1. /\ line = None /\ line' \in Lines /\ line' # None /\ line'.kind = "end"
        /\ line'.ts = clock' /\ clock' \in Times /\ clock <= clock'
        /\ lines' \in 0 .. MaxLines /\ missed' = missed
    BY <1>0, <1>3, <2>0, AppendEffect DEF LogEnd
  <2>2. asked' = asked /\ calling' = None
    BY <1>3 DEF LogEnd
  <2>3. LogTypeOK'
    BY <1>0, <2>1, <2>2 DEF LogTypeOK
  <2>4. LineInv'
    BY <2>1 DEF LineInv
  <2> QED BY <2>1, <2>2, <2>3, <2>4 DEF LogInv, Grows
<1>4. ASSUME NEW event \in Received, NEW id \in Ids \cup {None},
             NEW field \in ToSet(TickTypeNames) \cup {None}, LogEvent(event, id, field),
             event \in DOMAIN TickEvents \cup DOMAIN DepthEvents => id \in Ids /\ Subscribed(id)
      PROVE  /\ LogInv' /\ Grows /\ line = None /\ missed' = missed /\ clock <= clock'
  <2>0. event \in DOMAIN Events
    BY EventLogAssumption
  <2>1. /\ line = None /\ line' \in Lines /\ line' # None
        /\ line'.kind = "event" /\ line'.name = event /\ line'.id = id
        /\ line'.ts = clock' /\ clock' \in Times /\ clock <= clock'
        /\ lines' \in 0 .. MaxLines /\ missed' = missed
    BY <1>0, <1>4, <2>0, AppendEffect DEF LogEvent
  <2>2. asked' = asked /\ calling' = calling
    BY <1>4 DEF LogEvent
  <2>3. LogTypeOK'
    BY <1>0, <2>1, <2>2 DEF LogTypeOK
  <2>4. Subscribed(id) => Subscribed(id)'
    BY <2>2 DEF Subscribed
  <2>5. LineInv'
    BY <1>4, <2>0, <2>1, <2>2, <2>4 DEF LineInv
  <2> QED BY <2>1, <2>2, <2>3, <2>5 DEF LogInv, Grows
<1>5. \A call \in {"reqMktData", "reqMktDepth"} : \A id \in IdsOf(call) : id \in Ids /\ Subscribed(id)
  BY Tables DEF IdsOf, Subscribed
<1>6. ASSUME NEW id \in IdsOf("reqMktData"), NEW event \in Received \cap DOMAIN TickEvents,
             NEW field \in TickFields[event], LogEvent(event, id, field)
      PROVE  /\ LogInv' /\ Grows /\ line = None /\ missed' = missed /\ clock <= clock'
  <2>1. field \in ToSet(TickTypeNames)
    BY EventLogAssumption
  <2>2. id \in Ids /\ Subscribed(id)
    BY <1>5
  <2> QED BY <1>4, <1>6, <2>1, <2>2
<1>7. ASSUME NEW id \in IdsOf("reqMktDepth"), NEW event \in Received \cap DOMAIN DepthEvents,
             LogEvent(event, id, None)
      PROVE  /\ LogInv' /\ Grows /\ line = None /\ missed' = missed /\ clock <= clock'
  <2>2. id \in Ids /\ Subscribed(id)
    BY <1>5
  <2> QED BY <1>4, <1>7, <2>2
<1>8. ASSUME NEW event \in Received \ (DOMAIN TickEvents \cup DOMAIN DepthEvents), LogEvent(event, None, None)
      PROVE  /\ LogInv' /\ Grows /\ line = None /\ missed' = missed /\ clock <= clock'
  BY <1>4, <1>8
<1> QED BY <1>1, <1>2, <1>3, <1>6, <1>7, <1>8 DEF LogNext

\* A line is taken, or passed over in a file that is not read.
LEMMA LogIsRead ==
  ASSUME LogInv, NextLine \/ OtherFile \/ UNCHANGED logVars
  PROVE  /\ LogInv' /\ asked' = asked /\ clock' = clock
         /\ missed \subseteq missed'
         /\ \A id \in Ids : OtherFile /\ Pending(id) => id \in missed'
<1>0. LogTypeOK /\ LineInv
  BY DEF LogInv
<1>1. CASE NextLine
  <2>1. line' = None /\ UNCHANGED <<asked, calling, clock, lines, missed>>
    BY <1>1 DEF NextLine
  <2>2. ~ OtherFile \/ missed' = missed
    BY <2>1
  <2>3. LogTypeOK' /\ LineInv'
    BY <1>0, <2>1 DEF LogTypeOK, LineInv
  <2>4. \A id \in Ids : OtherFile /\ Pending(id) => id \in missed'
    BY EventLogAssumption DEF OtherFile, Pending
  <2> QED BY <2>1, <2>3, <2>4 DEF LogInv
<1>2. CASE OtherFile
  <2>1. line' = None /\ UNCHANGED <<asked, calling, clock, lines>> /\ line # None
    BY <1>2 DEF OtherFile
  <2>2. line.id \in Ids \cup {None}
    BY <1>0, <2>1 DEF LogTypeOK, Lines
  <2>3. missed' \subseteq Ids /\ missed \subseteq missed'
    BY <1>0, <1>2, <2>2 DEF OtherFile, LogTypeOK
  <2>4. LogTypeOK' /\ LineInv'
    BY <1>0, <2>1, <2>3 DEF LogTypeOK, LineInv
  <2>5. \A id \in Ids : OtherFile /\ Pending(id) => id \in missed'
    BY EventLogAssumption DEF OtherFile, Pending
  <2> QED BY <2>1, <2>3, <2>4, <2>5 DEF LogInv
<1>3. CASE UNCHANGED logVars
  <2>1. LogTypeOK' /\ LineInv' /\ UNCHANGED <<line, asked, clock, missed>>
    BY <1>0, <1>3 DEF LogTypeOK, LineInv, logVars, Subscribed
  <2>2. \A id \in Ids : OtherFile /\ Pending(id) => id \in missed'
    BY EventLogAssumption DEF OtherFile, Pending
  <2> QED BY <2>1, <2>2 DEF LogInv
<1> QED BY <1>1, <1>2, <1>3

-----------------------------------------------------------------------------
(* The invariant of the readers *)

\* Only one of the programs reads; until it starts it knows nothing.
OneReader ==
  /\ mode = "closed" \/ loading = "closed"
  /\ mode = "closed" => published = << >>

\* The reader knows each id that somebody asked for, unless the request is in another file
\* or on the line to be read.
Heard(map) == \A id \in Ids : Subscribed(id) => id \in missed \/ map[id] # None \/ Pending(id)

TwoSymbols == \E id \in Ids : \E s, t \in SymbolsOf(id) : s # t

ReaderTypeOK ==
  /\ mode \in {"closed", "reading", "ended", "aborted"}
  /\ symbols \in [Ids -> {symbol_from_contract(c) : c \in Contracts} \cup {None}]
  /\ firstLog \in Times \cup {None}
  /\ published \in Seq(Record \cup {DataEnd})

SymbolsInv ==
  /\ loading = "closed" /\ mode \in {"closed", "reading"} => Heard(symbols)
  /\ \A id \in Ids : symbols[id] # None => symbols[id] \in SymbolsOf(id)
  /\ mode = "aborted" => missed # {} \/ TwoSymbols

\* What makes a record one to be sent, from the i-th on.
Sent(i) ==
  /\ published[i] \in Record
  /\ published[i].symbol = symbols[published[i].id]
  /\ Start <= published[i].ts /\ published[i].ts <= clock
  /\ checkEXT(published[i].ts) /\ (Rth => checkRTH(published[i].ts))
  /\ 2 <= i => /\ firstLog # None
               /\ firstLog <= published[i].ts /\ published[i].ts - firstLog <= Duration

PublishedInv ==
  /\ firstLog # None => firstLog <= clock
  /\ \A i \in DOMAIN published : published[i] # DataEnd => Sent(i)
  /\ \A i, j \in DOMAIN published :
       published[i] # DataEnd /\ published[j] # DataEnd /\ i <= j => published[i].ts <= published[j].ts
  /\ mode \in {"closed", "reading"} => \A i \in DOMAIN published : published[i] # DataEnd

ReaderInv == OneReader /\ ReaderTypeOK /\ SymbolsInv /\ PublishedInv

\* The loader's knowledge of ids: an id it guessed the symbol of was asked for in another file.
TickerInv ==
  /\ mode = "closed" /\ loading \in {"closed", "reading"} => Heard(tickerIdSymbol)
  /\ \A id \in Ids : tickerIdSymbol[id] # None => id \in missed \/ tickerIdSymbol[id] \in SymbolsOf(id)
  /\ loading = "aborted" => missed # {} \/ TwoSymbols

\* Keys are made by the four functions that make keys.
KeysOK(d) ==
  \A k \in DOMAIN d :
    /\ k[1] \in {"mkt", "depth", "sessionlog", "x/event-value"} /\ k[2] \in LoadedSymbols
    /\ k[1] = "mkt" => k = MarketDataKey(k[2], k[3]) /\ k[3] \in Times
    /\ k[1] = "depth" => k = MarketDepthKey(k[2], k[3]) /\ k[3] \in Times
    /\ k[1] = "x/event-value" => k = IndexKey(k[2], k[3], k[4])

\* The index has the ticks, and nothing that is not a tick.
IndexOK(d) ==
  /\ IndexFollows(d)
  /\ \A k \in DOMAIN d : k[1] = "x/event-value" => MarketDataKey(k[2], k[4]) \in DOMAIN d

StoreOK(d) == KeysOK(d) /\ IndexOK(d)

RecordsInv ==
  \A k \in DOMAIN db : Primary(k) =>
    /\ db[k].value.id \in Ids
    /\ db[k].value.id \in missed \/ k[2] \in SymbolsOf(db[k].value.id)

\* A time lies in a session, or in a session of the store.
Within(t, start, stop) == start <= t /\ (t <= stop \/ (stop = 0 /\ start = t))

Stored(k) ==
  \E log \in DOMAIN db : log[1] = "sessionlog" /\ log[2] = k[2] /\ Within(k[3], log[3], log[4])

\* A record that no session of the store has is in the session of its symbol.
CoverInv ==
  /\ \A s \in DOMAIN sessionLogs : sessionLogs[s].start <= clock /\ sessionLogs[s].stop <= clock
  /\ \A k \in DOMAIN db : Primary(k) =>
       \/ Stored(k)
       \/ /\ k[2] \in DOMAIN sessionLogs
          /\ Within(k[3], sessionLogs[k[2]].start, sessionLogs[k[2]].stop)
  /\ loading = "done" => \A k \in DOMAIN db : Primary(k) => Stored(k)

LoaderInv == LoaderTypeOK /\ TickerInv /\ StoreOK(db) /\ RecordsInv /\ CoverInv

-----------------------------------------------------------------------------
(* The log and what the readers know *)

\* The log only grows, and requests are not taken back.
Onward ==
  /\ \A id \in Ids : asked[id] \subseteq asked'[id]
  /\ missed \subseteq missed' /\ clock <= clock' /\ clock \in Times /\ clock' \in Times

LEMMA LogIsOnward ==
  ASSUME LogInv, LogNext \/ NextLine \/ OtherFile \/ UNCHANGED logVars
  PROVE  LogInv' /\ Onward
<1>0. clock \in Times
  BY DEF LogInv, LogTypeOK
<1>1. CASE LogNext
  <2>1. LogInv' /\ Grows /\ missed' = missed /\ clock <= clock'
    BY <1>1, LogWrites
  <2> QED BY <1>0, <2>1 DEF Onward, Grows, LogInv, LogTypeOK
<1>2. CASE NextLine \/ OtherFile \/ UNCHANGED logVars
  <2>1. LogInv' /\ asked' = asked /\ clock' = clock /\ missed \subseteq missed'
    BY <1>2, LogIsRead
  <2>2. clock <= clock
    <3>1. clock \in Int
      BY <1>0, EventLogAssumption
    <3> QED BY <3>1
  <2> QED BY <1>0, <2>1, <2>2 DEF Onward
<1> QED BY <1>1, <1>2

LEMMA SymbolsGrow ==
  ASSUME Onward
  PROVE  /\ \A id \in Ids : SymbolsOf(id) \subseteq SymbolsOf(id)'
         /\ (missed # {} \/ TwoSymbols) => (missed # {} \/ TwoSymbols)'
<1>1. \A id \in Ids : SymbolsOf(id) \subseteq SymbolsOf(id)'
  BY DEF Onward, SymbolsOf
<1>2. TwoSymbols => TwoSymbols'
  BY <1>1 DEF TwoSymbols
<1> QED BY <1>1, <1>2 DEF Onward

\* Who is asked for after a line is written was asked for before or is on the line.
LEMMA SubscribedByLine ==
  ASSUME LogInv, LogNext, NEW id \in Ids, Subscribed(id)'
  PROVE  (Subscribed(id) /\ ~ Pending(id)) \/ Pending(id)'
<1>1. Grows /\ line = None
  BY LogWrites
<1>2. PICK a \in asked'[id] : a[1] \in action_map
  BY DEF Subscribed
<1>3. CASE a \in asked[id]
  BY <1>1, <1>2, <1>3 DEF Subscribed, Pending
<1>4. CASE a \notin asked[id]
  BY <1>1, <1>2, <1>4 DEF Grows, Pending
<1> QED BY <1>3, <1>4

\* A line that is pending and then read by nobody is missed.
LEMMA SubscribedByReading ==
  ASSUME LogInv, NextLine \/ OtherFile \/ UNCHANGED logVars, NEW id \in Ids, Subscribed(id)'
  PROVE  /\ Subscribed(id)
         /\ OtherFile /\ Pending(id) => id \in missed'
         /\ UNCHANGED logVars /\ Pending(id) => Pending(id)'
<1>1. asked' = asked /\ (OtherFile /\ Pending(id) => id \in missed')
  BY LogIsRead
<1>2. Subscribed(id)
  BY <1>1 DEF Subscribed
<1>3. UNCHANGED logVars /\ Pending(id) => Pending(id)'
  BY DEF logVars, Pending
<1> QED BY <1>1, <1>2, <1>3

\* The contract on a line gives the id one of its symbols.
LEMMA SymbolOfLine ==
  ASSUME LogInv, line # None, MapsId(line)
  PROVE  /\ line.id \in Ids /\ line.contract \in Contracts
         /\ symbol_from_contract(line.contract) \in SymbolsOf(line.id)
         /\ \A id \in Ids : Pending(id) => id = line.id
<1>1. line.kind = "action" /\ line.name \in WithContract
  BY MapsIdMeans
<1>2. line.id \in Ids /\ line.contract \in Contracts /\ <<line.name, line.contract>> \in asked[line.id]
  BY <1>1 DEF LogInv, LineInv
<1>3. PICK a \in asked[line.id] : a = <<line.name, line.contract>>
  BY <1>2
<1>4. a[2] = line.contract
  BY <1>3
<1>5. symbol_from_contract(line.contract) \in SymbolsOf(line.id)
  BY <1>3, <1>4 DEF SymbolsOf
<1> QED BY <1>2, <1>5 DEF Pending

\* Pending lines are the ones that map ids.
LEMMA PendingMaps ==
  ASSUME LogInv, NEW id \in Ids, Pending(id)
  PROVE  MapsId(line)
BY MapsIdMeans DEF Pending

\* A tick or a depth event is of an id that somebody asked for.
LEMMA DataIsAskedFor ==
  ASSUME LogInv, line # None, line.kind = "event",
         line.name \in DOMAIN TickEvents \cup DOMAIN DepthEvents
  PROVE  line.id \in Ids /\ Subscribed(line.id) /\ ~ Pending(line.id) /\ ~ MapsId(line)
<1>1. line.id \in Ids /\ Subscribed(line.id)
  BY DEF LogInv, LineInv
<1>2. ~ MapsId(line)
  BY MapsIdMeans
<1> QED BY <1>1, <1>2 DEF Pending

-----------------------------------------------------------------------------
(* LogReader *)

LEMMA Moments == Times \subseteq Int /\ Start \in Int /\ Duration \in Int /\ None \notin Times
BY EventLogAssumption, LogReaderAssumption

LEMMA RecordsAndEnd ==
  /\ DataEnd \notin Record
  /\ \A r \in Record : r.id \in Ids /\ r.symbol # None /\ r.ts \in Times
<1>1. \A r \in Record : r.id \in Ids /\ r.symbol # None /\ r.ts \in Times
  BY EventLogAssumption DEF Record
<1>2. DataEnd.ts = None
  BY DEF DataEnd
<1> QED BY <1>1, <1>2, Moments

\* Symbols are given once, and first_log_t is set once.
Settled ==
  /\ \A id \in Ids : symbols[id] # None => symbols'[id] = symbols[id]
  /\ firstLog # None => firstLog' = firstLog
  /\ firstLog = None => firstLog' \in {None, clock}

\* A record that was sent stays one that was to be sent.
LEMMA SentStays ==
  ASSUME Onward, Settled, NEW i \in DOMAIN published, Sent(i), published'[i] = published[i]
  PROVE  Sent(i)'
<1> DEFINE r == published[i]
<1>1. r \in Record /\ r.id \in Ids /\ r.symbol # None /\ r.ts \in Times
  BY RecordsAndEnd DEF Sent
<1>2. r.symbol = symbols[r.id] /\ Start <= r.ts /\ r.ts <= clock
      /\ checkEXT(r.ts) /\ (Rth => checkRTH(r.ts))
      /\ (2 <= i => firstLog # None /\ firstLog <= r.ts /\ r.ts - firstLog <= Duration)
  BY DEF Sent
<1>3. published'[i] = r
  OBVIOUS
<1> HIDE DEF r
<1>4. symbols'[r.id] = r.symbol
  BY <1>1, <1>2 DEF Settled
<1>5. r.ts <= clock'
  <2>1. r.ts \in Int /\ clock \in Int /\ clock' \in Int /\ clock <= clock'
    BY <1>1, Moments DEF Onward
  <2> QED BY <1>2, <2>1
<1>6. 2 <= i => firstLog' # None /\ firstLog' <= r.ts /\ r.ts - firstLog' <= Duration
  BY <1>2 DEF Settled
<1> QED BY <1>1, <1>2, <1>3, <1>4, <1>5, <1>6 DEF Sent

\* A step that sends nothing.
LEMMA PublishedKept ==
  ASSUME PublishedInv, ReaderTypeOK, Onward, Settled, published' = published,
         mode' \in {"closed", "reading"} => mode \in {"closed", "reading"}
  PROVE  PublishedInv'
<1>1. firstLog' # None => firstLog' <= clock'
  <2>1. clock \in Int /\ clock' \in Int /\ clock <= clock' /\ (firstLog # None => firstLog \in Int)
    BY Moments DEF Onward, ReaderTypeOK
  <2> QED BY <2>1 DEF PublishedInv, Settled
<1>2. \A i \in DOMAIN published : published[i] # DataEnd => Sent(i)'
  <2> SUFFICES ASSUME NEW i \in DOMAIN published, published[i] # DataEnd PROVE Sent(i)'
    OBVIOUS
  <2>1. Sent(i) /\ published'[i] = published[i]
    BY DEF PublishedInv
  <2> QED BY <2>1, SentStays
<1> QED BY <1>1, <1>2 DEF PublishedInv

\* A step that sends one record.
LEMMA PublishedMore ==
  ASSUME PublishedInv, ReaderTypeOK, Onward, Settled, NEW r \in Record \cup {DataEnd},
         NEW n \in Nat, n = Len(published), published' = Append(published, r), mode' = mode,
         r # DataEnd => mode = "reading" /\ Sent(n + 1)' /\ r.ts = clock,
         r = DataEnd => mode = "ended",
         firstLog' # None => firstLog' <= clock'
  PROVE  PublishedInv' /\ published' \in Seq(Record \cup {DataEnd})
<1>1. /\ published \in Seq(Record \cup {DataEnd}) /\ DOMAIN published = 1 .. n
      /\ published' \in Seq(Record \cup {DataEnd}) /\ DOMAIN published' = 1 .. n + 1
      /\ published'[n + 1] = r /\ \A i \in 1 .. n : published'[i] = published[i]
  BY DEF ReaderTypeOK
<1>2. \A i \in 1 .. n : published[i] # DataEnd => Sent(i) /\ Sent(i)'
  <2> SUFFICES ASSUME NEW i \in 1 .. n, published[i] # DataEnd PROVE Sent(i) /\ Sent(i)'
    OBVIOUS
  <2>1. i \in DOMAIN published /\ Sent(i) /\ published'[i] = published[i]
    BY <1>1 DEF PublishedInv
  <2> QED BY <2>1, SentStays
<1>3. \A i \in DOMAIN published' : published'[i] # DataEnd => Sent(i)'
  <2> SUFFICES ASSUME NEW i \in 1 .. n + 1, published'[i] # DataEnd PROVE Sent(i)'
    BY <1>1
  <2>1. CASE i \in 1 .. n
    BY <1>1, <1>2, <2>1
  <2>2. CASE i = n + 1
    BY <1>1, <2>2
  <2> QED BY <1>1, <2>1, <2>2
<1>4. ASSUME NEW i \in DOMAIN published', NEW j \in DOMAIN published',
             published'[i] # DataEnd, published'[j] # DataEnd, i <= j
      PROVE  published'[i].ts <= published'[j].ts
  <2>0. i \in 1 .. n + 1 /\ j \in 1 .. n + 1
    BY <1>1
  <2>1. CASE j \in 1 .. n
    <3>1. i \in 1 .. n
      BY <1>1, <1>4, <2>0, <2>1
    <3>2. i \in DOMAIN published /\ j \in DOMAIN published
          /\ published'[i] = published[i] /\ published'[j] = published[j]
      BY <1>1, <2>1, <3>1
    <3> QED BY <1>4, <3>2 DEF PublishedInv
  <2>2. CASE j = n + 1 /\ i \in 1 .. n
    <3>1. published'[j] = r /\ r # DataEnd /\ r.ts = clock
      BY <1>1, <1>4, <2>2
    <3>2. published'[i] = published[i] /\ Sent(i)
      BY <1>1, <1>2, <1>4, <2>2
    <3>3. published[i].ts <= clock
      BY <3>2 DEF Sent
    <3> QED BY <3>1, <3>2, <3>3
  <2>3. CASE j = n + 1 /\ i = n + 1
    <3>1. published'[j] = r /\ published'[i] = r /\ r # DataEnd /\ r.ts = clock
      BY <1>1, <1>4, <2>3
    <3>2. clock \in Int
      BY Moments DEF Onward
    <3>3. clock <= clock
      BY <3>2
    <3> QED BY <3>1, <3>3
  <2> QED BY <1>1, <2>0, <2>1, <2>2, <2>3
<1>5. mode' \in {"closed", "reading"} => \A i \in DOMAIN published' : published'[i] # DataEnd
  <2> SUFFICES ASSUME mode \in {"closed", "reading"}, NEW i \in 1 .. n + 1 PROVE published'[i] # DataEnd
    BY <1>1
  <2>1. r # DataEnd
    OBVIOUS
  <2>2. CASE i \in 1 .. n
    BY <1>1, <2>2 DEF PublishedInv
  <2>3. CASE i = n + 1
    BY <1>1, <2>1, <2>3
  <2> QED BY <1>1, <2>2, <2>3
<1> QED BY <1>1, <1>3, <1>4, <1>5 DEF PublishedInv

LEMMA StillHeard ==
  ASSUME LogInv, NEW id \in Ids, NEW known \in BOOLEAN, Subscribed(id)',
         LogNext \/ OtherFile \/ (NextLine /\ ~ Pending(id)) \/ UNCHANGED logVars,
         Subscribed(id) => id \in missed \/ known \/ Pending(id)
  PROVE  id \in missed' \/ known \/ Pending(id)'
<1>1. Onward
  BY LogIsOnward
<1>2. CASE LogNext
  BY <1>1, <1>2, SubscribedByLine DEF Onward
<1>3. CASE OtherFile
  BY <1>1, <1>3, SubscribedByReading DEF Onward
<1>4. CASE NextLine /\ ~ Pending(id)
  BY <1>1, <1>4, SubscribedByReading DEF Onward
<1>5. CASE UNCHANGED logVars
  BY <1>1, <1>5, SubscribedByReading DEF Onward
<1> QED BY <1>2, <1>3, <1>4, <1>5

\* A step of the log, or of the other program.
LEMMA ReaderRests ==
  ASSUME LogInv, ReaderInv, UNCHANGED readerVars,
         \/ loading' = loading /\ (LogNext \/ OtherFile \/ UNCHANGED logVars)
         \/ loading' = loading /\ NextLine /\ line # None /\ ~ MapsId(line)
         \/ mode = "closed" /\ loading' # "closed" /\ (NextLine \/ OtherFile \/ UNCHANGED logVars)
  PROVE  ReaderInv'
<1>0. UNCHANGED <<mode, symbols, firstLog, published>>
  BY DEF readerVars
<1>1. Onward
  BY LogIsOnward
<1>2. OneReader' /\ ReaderTypeOK'
  BY <1>0 DEF ReaderInv, OneReader, ReaderTypeOK
<1>3. PublishedInv'
  <2>1. Settled
    BY <1>0 DEF Settled
  <2> QED BY <1>0, <1>1, <2>1, PublishedKept DEF ReaderInv
<1>4. loading' = "closed" /\ mode' \in {"closed", "reading"} => Heard(symbols)'
  <2> SUFFICES ASSUME loading' = "closed", mode \in {"closed", "reading"}, NEW id \in Ids, Subscribed(id)'
               PROVE  id \in missed' \/ symbols[id] # None \/ Pending(id)'
    BY <1>0 DEF Heard
  <2>1. LogNext \/ OtherFile \/ (NextLine /\ ~ Pending(id)) \/ UNCHANGED logVars
    BY PendingMaps
  <2>2. Subscribed(id) => id \in missed \/ symbols[id] # None \/ Pending(id)
    BY DEF ReaderInv, SymbolsInv, Heard
  <2> DEFINE known == symbols[id] # None
  <2>3. known \in BOOLEAN /\ (Subscribed(id) => id \in missed \/ known \/ Pending(id))
    BY <2>2
  <2> HIDE DEF known
  <2>4. id \in missed' \/ known \/ Pending(id)'
    BY <2>1, <2>3, StillHeard
  <2> QED BY <2>4 DEF known
<1>5. \A id \in Ids : symbols'[id] # None => symbols'[id] \in SymbolsOf(id)'
  BY <1>0, <1>1, SymbolsGrow DEF ReaderInv, SymbolsInv
<1>6. mode' = "aborted" => (missed # {} \/ TwoSymbols)'
  BY <1>0, <1>1, SymbolsGrow DEF ReaderInv, SymbolsInv
<1> QED BY <1>2, <1>3, <1>4, <1>5, <1>6 DEF ReaderInv, SymbolsInv

LEMMA ReaderOpens ==
  ASSUME LogInv, ReaderInv, loading = "closed", loading' = loading, Open \/ EndOfFile
  PROVE  ReaderInv'
<1>0. UNCHANGED <<symbols, firstLog, published>> /\ UNCHANGED logVars
      /\ mode' \in {"reading", "ended"} /\ mode \in {"closed", "reading"}
  BY DEF Open, EndOfFile
<1>1. Onward
  BY <1>0, LogIsOnward
<1>2. OneReader' /\ ReaderTypeOK'
  BY <1>0 DEF ReaderInv, OneReader, ReaderTypeOK
<1>3. PublishedInv'
  <2>1. Settled
    BY <1>0 DEF Settled
  <2> QED BY <1>0, <1>1, <2>1, PublishedKept DEF ReaderInv
<1>4. Heard(symbols)'
  BY <1>0 DEF ReaderInv, SymbolsInv, Heard, Subscribed, Pending, logVars
<1>5. \A id \in Ids : symbols'[id] # None => symbols'[id] \in SymbolsOf(id)'
  BY <1>0, <1>1, SymbolsGrow DEF ReaderInv, SymbolsInv
<1> QED BY <1>0, <1>2, <1>3, <1>4, <1>5 DEF ReaderInv, SymbolsInv

\* The end of the scan: nothing is sent, and nothing is learnt.
LEMMA ReaderStops ==
  ASSUME LogInv, ReaderInv, loading = "closed", loading' = loading, StopScan
  PROVE  ReaderInv'
<1>0. UNCHANGED <<symbols, published>> /\ NextLine /\ mode = "reading" /\ mode' = "ended"
      /\ line # None /\ firstLog' = FirstLog(line)
  BY DEF StopScan, Reading
<1>1. Onward
  BY <1>0, LogIsOnward
<1>2. line.ts = clock /\ clock \in Times
  BY <1>0 DEF LogInv, LineInv, LogTypeOK
<1>3. Settled
  BY <1>0, <1>2 DEF Settled, FirstLog
<1>4. OneReader' /\ ReaderTypeOK'
  BY <1>0, <1>2 DEF ReaderInv, OneReader, ReaderTypeOK, FirstLog
<1>5. PublishedInv'
  BY <1>0, <1>1, <1>3, PublishedKept DEF ReaderInv
<1>6. \A id \in Ids : symbols'[id] # None => symbols'[id] \in SymbolsOf(id)'
  BY <1>0, <1>1, SymbolsGrow DEF ReaderInv, SymbolsInv
<1> QED BY <1>0, <1>4, <1>5, <1>6 DEF ReaderInv, SymbolsInv

\* A tick of an id the reader does not know: its request is in another file.
LEMMA ReaderGivesUp ==
  ASSUME LogInv, ReaderInv, loading = "closed", loading' = loading, UnknownId
  PROVE  ReaderInv'
<1>0. UNCHANGED <<symbols, firstLog, published>> /\ NextLine /\ mode = "reading" /\ mode' = "aborted"
      /\ line # None /\ symbols[line.id] = None /\ is_supported(line)
  BY DEF UnknownId, Reading, Considered
<1>1. Onward
  BY <1>0, LogIsOnward
<1>2. line.id \in Ids /\ Subscribed(line.id) /\ ~ Pending(line.id)
  BY <1>0, Tables, DataIsAskedFor DEF is_supported
<1>3. line.id \in missed
  BY <1>0, <1>2 DEF ReaderInv, SymbolsInv, Heard
<1>4. missed' # {}
  BY <1>1, <1>3 DEF Onward
<1>5. OneReader' /\ ReaderTypeOK'
  BY <1>0 DEF ReaderInv, OneReader, ReaderTypeOK
<1>6. PublishedInv'
  <2>1. Settled
    BY <1>0 DEF Settled
  <2> QED BY <1>0, <1>1, <2>1, PublishedKept DEF ReaderInv
<1>7. \A id \in Ids : symbols'[id] # None => symbols'[id] \in SymbolsOf(id)'
  BY <1>0, <1>1, SymbolsGrow DEF ReaderInv, SymbolsInv
<1> QED BY <1>0, <1>4, <1>5, <1>6, <1>7 DEF ReaderInv, SymbolsInv

\* A request teaches the reader a symbol of the id, or the id has two.
LEMMA ReaderLearns ==
  ASSUME LogInv, ReaderInv, loading = "closed", loading' = loading, MapIdToSymbols
  PROVE  ReaderInv'
<1> DEFINE s == symbol_from_contract(line.contract)
<1>0. UNCHANGED <<firstLog, published>> /\ NextLine /\ mode = "reading" /\ line # None /\ MapsId(line)
  BY DEF MapIdToSymbols, Reading
<1>1. Onward
  BY <1>0, LogIsOnward
<1>2. /\ line.id \in Ids /\ line.contract \in Contracts /\ s \in SymbolsOf(line.id)
      /\ \A id \in Ids : Pending(id) => id = line.id
  BY <1>0, SymbolOfLine
<1>3. s # None /\ s \in {symbol_from_contract(c) : c \in Contracts}
  BY <1>2, EventLogAssumption
<1>4. \/ /\ symbols[line.id] \in {None, s} /\ mode' = "reading"
         /\ symbols' = [symbols EXCEPT ![line.id] = s]
      \/ /\ symbols[line.id] \notin {None, s} /\ mode' = "aborted" /\ symbols' = symbols
  BY <1>0 DEF MapIdToSymbols
<1> HIDE DEF s
<1>5. symbols \in [Ids -> {symbol_from_contract(c) : c \in Contracts} \cup {None}]
  BY DEF ReaderInv, ReaderTypeOK
<1>6. /\ symbols' \in [Ids -> {symbol_from_contract(c) : c \in Contracts} \cup {None}]
      /\ \A id \in Ids \ {line.id} : symbols'[id] = symbols[id]
      /\ mode' = "reading" => symbols'[line.id] = s
  BY <1>2, <1>3, <1>4, <1>5
<1>7. Settled
  BY <1>0, <1>2, <1>4, <1>5, <1>6 DEF Settled
<1>8. OneReader' /\ ReaderTypeOK'
  BY <1>0, <1>4, <1>6 DEF ReaderInv, OneReader, ReaderTypeOK
<1>9. PublishedInv'
  BY <1>0, <1>1, <1>4, <1>7, PublishedKept DEF ReaderInv
<1>10. mode' = "reading" => Heard(symbols)'
  <2> SUFFICES ASSUME mode' = "reading", NEW id \in Ids, Subscribed(id)'
               PROVE  id \in missed' \/ symbols'[id] # None \/ Pending(id)'
    BY DEF Heard
  <2>1. CASE id = line.id
    BY <1>3, <1>6, <2>1
  <2>2. CASE id # line.id
    <3>1. Subscribed(id) /\ ~ Pending(id)
      BY <1>0, <1>2, <2>2, SubscribedByReading
    <3>2. id \in missed \/ symbols[id] # None
      BY <1>0, <3>1 DEF ReaderInv, SymbolsInv, Heard
    <3> QED BY <1>1, <1>6, <2>2, <3>2 DEF Onward
  <2> QED BY <2>1, <2>2
<1>11. \A id \in Ids : symbols'[id] # None => symbols'[id] \in SymbolsOf(id)'
  <2> SUFFICES ASSUME NEW id \in Ids, symbols'[id] # None PROVE symbols'[id] \in SymbolsOf(id)'
    OBVIOUS
  <2>1. symbols'[id] = symbols[id] \/ (id = line.id /\ symbols'[id] = s)
    BY <1>4, <1>6
  <2>2. symbols'[id] \in SymbolsOf(id)
    BY <1>2, <2>1 DEF ReaderInv, SymbolsInv
  <2> QED BY <1>1, <2>2, SymbolsGrow
<1>12. mode' = "aborted" => (missed # {} \/ TwoSymbols)'
  <2> SUFFICES ASSUME mode' = "aborted" PROVE TwoSymbols
    BY <1>1, SymbolsGrow
  <2>1. symbols[line.id] # None /\ symbols[line.id] # s
    BY <1>4
  <2>2. symbols[line.id] \in SymbolsOf(line.id)
    BY <1>2, <2>1 DEF ReaderInv, SymbolsInv
  <2> QED BY <1>2, <2>1, <2>2 DEF TwoSymbols
<1> QED BY <1>0, <1>4, <1>8, <1>9, <1>10, <1>11, <1>12 DEF ReaderInv, SymbolsInv

\* A tick goes to the visitor, under the symbol of its id and within the window.
LEMMA ReaderDelivers ==
  ASSUME LogInv, ReaderInv, loading = "closed", loading' = loading, Deliver
  PROVE  ReaderInv'
<1> DEFINE r == [id |-> line.id, symbol |-> symbols[line.id], ts |-> line.ts]
<1>0. /\ UNCHANGED <<mode, symbols>> /\ NextLine /\ mode = "reading" /\ line # None
      /\ firstLog' = FirstLog(line) /\ symbols[line.id] # None
      /\ is_supported(line) /\ check_time(line) /\ line.ts >= Start /\ InScan(line)
      /\ published' = published \/ published' = Append(published, r)
  BY DEF Deliver, Reading, Considered, Dispatch
<1>1. Onward
  BY <1>0, LogIsOnward
<1>2. line.ts = clock /\ clock \in Times /\ clock' = clock
  BY <1>0 DEF LogInv, LineInv, LogTypeOK, NextLine
<1>3. line.id \in Ids /\ Subscribed(line.id) /\ ~ Pending(line.id) /\ ~ MapsId(line)
  BY <1>0, Tables, DataIsAskedFor DEF is_supported
<1>4. Settled
  BY <1>0, <1>2 DEF Settled, FirstLog
<1>5. r \in Record /\ r.id = line.id /\ r.symbol = symbols[line.id] /\ r.ts = clock
  BY <1>0, <1>2, <1>3 DEF ReaderInv, ReaderTypeOK, Record
<1>6. /\ firstLog' \in Times \cup {None}
      /\ firstLog' # None => firstLog' <= clock /\ clock - firstLog' <= Duration
  <2>1. firstLog' \in Times \cup {None}
    BY <1>0, <1>2 DEF FirstLog, ReaderInv, ReaderTypeOK
  <2>2. firstLog' # None => clock - firstLog' <= Duration
    BY <1>0, <1>2 DEF InScan
  <2>3. firstLog' # None => firstLog' = clock \/ firstLog' = firstLog
    BY <1>0, <1>2 DEF FirstLog
  <2>4. clock <= clock
    <3>1. clock \in Int
      BY <1>2, Moments
    <3> QED BY <3>1
  <2> QED BY <2>1, <2>2, <2>3, <2>4 DEF ReaderInv, PublishedInv
<1>7. r # DataEnd
  BY <1>5, RecordsAndEnd
<1> HIDE DEF r
<1>8. PublishedInv' /\ published' \in Seq(Record \cup {DataEnd})
  <2>1. CASE published' = published
    BY <1>0, <1>1, <1>4, <2>1, PublishedKept DEF ReaderInv, ReaderTypeOK
  <2>2. CASE published' = Append(published, r)
    <3>1. PICK n \in Nat : n = Len(published)
      BY DEF ReaderInv, ReaderTypeOK
    <3>2. published'[n + 1] = r /\ DOMAIN published = 1 .. n
      BY <2>2, <3>1 DEF ReaderInv, ReaderTypeOK
    <3>3. 2 <= n + 1 => firstLog' # None
      <4> SUFFICES ASSUME 1 <= n PROVE firstLog' # None
        BY <3>1
      <4>1. CASE n = 1
        BY <1>0, <1>2, <3>1, <4>1, Moments DEF FirstLog
      <4>2. CASE 2 <= n
        <5>1. 2 \in DOMAIN published
          BY <3>1, <3>2, <4>2
        <5>2. published[2] # DataEnd
          BY <1>0, <5>1 DEF ReaderInv, PublishedInv
        <5>3. Sent(2)
          BY <5>1, <5>2 DEF ReaderInv, PublishedInv
        <5>4. firstLog # None
          BY <5>3 DEF Sent
        <5> QED BY <1>4, <5>4 DEF Settled
      <4> QED BY <3>1, <4>1, <4>2
    <3>4. clock <= clock' /\ Start <= clock /\ clock \in Int
      BY <1>0, <1>1, <1>2, Moments DEF Onward
    <3>5. checkEXT(clock) /\ (Rth => checkRTH(clock))
      BY <1>0, <1>2 DEF check_time
    <3>6. Sent(n + 1)'
      <4>1. published'[n + 1].symbol = symbols'[published'[n + 1].id]
        BY <1>0, <1>5, <3>2
      <4>2. published'[n + 1].ts = clock
        BY <1>5, <3>2
      <4> QED BY <1>2, <1>5, <1>6, <3>2, <3>3, <3>4, <3>5, <4>1, <4>2 DEF Sent
    <3> QED BY <1>0, <1>1, <1>2, <1>4, <1>5, <1>6, <1>7, <2>2, <3>1, <3>6, PublishedMore DEF ReaderInv
  <2> QED BY <1>0, <2>1, <2>2
<1>9. OneReader' /\ ReaderTypeOK'
  BY <1>0, <1>6, <1>8 DEF ReaderInv, OneReader, ReaderTypeOK
<1>10. Heard(symbols)'
  <2> SUFFICES ASSUME NEW id \in Ids, Subscribed(id)' PROVE id \in missed' \/ symbols[id] # None
    BY <1>0 DEF Heard
  <2>1. Subscribed(id)
    BY <1>0, SubscribedByReading
  <2>2. ~ Pending(id)
    BY <1>3, PendingMaps
  <2> QED BY <1>0, <1>1, <2>1, <2>2 DEF ReaderInv, SymbolsInv, Heard, Onward
<1>11. \A id \in Ids : symbols'[id] # None => symbols'[id] \in SymbolsOf(id)'
  BY <1>0, <1>1, SymbolsGrow DEF ReaderInv, SymbolsInv
<1> QED BY <1>0, <1>8, <1>9, <1>10, <1>11 DEF ReaderInv, SymbolsInv

LEMMA ReaderEnds ==
  ASSUME LogInv, ReaderInv, loading = "closed", loading' = loading, SendDataEnd
  PROVE  ReaderInv'
<1>0. /\ UNCHANGED logVars /\ UNCHANGED <<mode, symbols, firstLog>> /\ mode = "ended"
      /\ published' = Append(published, DataEnd)
  BY DEF SendDataEnd, Dispatch
<1>1. Onward
  BY <1>0, LogIsOnward
<1>2. Settled
  BY <1>0 DEF Settled
<1>3. PICK n \in Nat : n = Len(published)
  BY DEF ReaderInv, ReaderTypeOK
<1>4. firstLog' # None => firstLog' <= clock'
  BY <1>0 DEF ReaderInv, PublishedInv, logVars
<1>5. PublishedInv' /\ published' \in Seq(Record \cup {DataEnd})
  BY <1>0, <1>1, <1>2, <1>3, <1>4, PublishedMore DEF ReaderInv
<1>6. OneReader' /\ ReaderTypeOK'
  BY <1>0, <1>5 DEF ReaderInv, OneReader, ReaderTypeOK
<1>7. \A id \in Ids : symbols'[id] # None => symbols'[id] \in SymbolsOf(id)'
  BY <1>0, <1>1, SymbolsGrow DEF ReaderInv, SymbolsInv
<1> QED BY <1>0, <1>5, <1>6, <1>7 DEF ReaderInv, SymbolsInv

\* What was sent is right.
LEMMA ReaderIsRight ==
  ASSUME LogInv, ReaderInv
  PROVE  ScanIsRight
<1>1. TypeOK
  BY DEF LogInv, ReaderInv, ReaderTypeOK, TypeOK
<1>2. SymbolsAreRight
  <2> SUFFICES ASSUME NEW i \in DOMAIN published, NEW j \in DOMAIN published, published[i] # DataEnd
               PROVE  /\ published[i].symbol \in SymbolsOf(published[i].id)
                      /\ published[j] # DataEnd /\ published[j].id = published[i].id
                           => published[j].symbol = published[i].symbol
    BY DEF SymbolsAreRight
  <2>1. Sent(i) /\ (published[j] # DataEnd => Sent(j))
    BY DEF ReaderInv, PublishedInv
  <2>2. published[i].id \in Ids /\ published[i].symbol # None
        /\ published[i].symbol = symbols[published[i].id]
    BY <2>1, RecordsAndEnd DEF Sent
  <2>3. published[i].symbol \in SymbolsOf(published[i].id)
    BY <2>2 DEF ReaderInv, SymbolsInv
  <2>4. published[j] # DataEnd => published[j].symbol = symbols[published[j].id]
    BY <2>1 DEF Sent
  <2> QED BY <2>2, <2>3, <2>4
<1>3. CompleteFileIsRead
  BY DEF ReaderInv, SymbolsInv, CompleteFileIsRead, TwoSymbols
<1>4. ScanWindow
  <2> SUFFICES ASSUME NEW i \in DOMAIN published, NEW j \in DOMAIN published,
                      published[i] # DataEnd, published[j] # DataEnd
               PROVE  /\ published[i].ts >= Start /\ checkEXT(published[i].ts)
                      /\ Rth => checkRTH(published[i].ts)
                      /\ i <= j => published[i].ts <= published[j].ts
                      /\ 2 <= i /\ i <= j => published[j].ts - published[i].ts <= Duration
    BY DEF ScanWindow
  <2>1. Sent(i) /\ Sent(j)
    BY DEF ReaderInv, PublishedInv
  <2>2. i <= j => published[i].ts <= published[j].ts
    BY DEF ReaderInv, PublishedInv
  <2>3. i \in Int /\ j \in Int
    BY DEF ReaderInv, ReaderTypeOK
  <2>4. published[i].ts \in Int /\ published[j].ts \in Int /\ (firstLog # None => firstLog \in Int)
    BY <2>1, RecordsAndEnd, Moments DEF Sent, ReaderInv, ReaderTypeOK
  <2>5. /\ Start <= published[i].ts /\ checkEXT(published[i].ts) /\ (Rth => checkRTH(published[i].ts))
        /\ 2 <= i => firstLog # None /\ firstLog <= published[i].ts
        /\ 2 <= j => firstLog # None /\ published[j].ts - firstLog <= Duration
    BY <2>1 DEF Sent
  <2>6. published[i].ts >= Start
    BY <2>4, <2>5, Moments
  <2>7. 2 <= i /\ i <= j => published[j].ts - published[i].ts <= Duration
    BY <2>3, <2>4, <2>5, Moments
  <2> QED BY <2>2, <2>5, <2>6, <2>7
<1> QED BY <1>1, <1>2, <1>3, <1>4 DEF ScanIsRight

-----------------------------------------------------------------------------
(* The store *)

LEMMA PutEffect ==
  ASSUME NEW d, NEW key, NEW v
  PROVE  /\ DOMAIN Put(d, key, v) = DOMAIN d \cup {key}
         /\ Put(d, key, v)[key] = v
         /\ \A k \in DOMAIN d : k # key => Put(d, key, v)[k] = d[k]
BY DEF Put

\* The parts of keys and of the records under them.
LEMMA KeyParts ==
  /\ \A s, t : /\ MarketDataKey(s, t)[1] = "mkt" /\ MarketDataKey(s, t)[2] = s
               /\ MarketDataKey(s, t)[3] = t
  /\ \A s, t : /\ MarketDepthKey(s, t)[1] = "depth" /\ MarketDepthKey(s, t)[2] = s
               /\ MarketDepthKey(s, t)[3] = t
  /\ \A s, a, b : /\ SessionLogKey(s, a, b)[1] = "sessionlog" /\ SessionLogKey(s, a, b)[2] = s
                  /\ SessionLogKey(s, a, b)[3] = a /\ SessionLogKey(s, a, b)[4] = b
  /\ \A s, e, t : /\ IndexKey(s, e, t)[1] = "x/event-value" /\ IndexKey(s, e, t)[2] = s
                  /\ IndexKey(s, e, t)[3] = e /\ IndexKey(s, e, t)[4] = t
<1>1. \A s, t : /\ MarketDataKey(s, t)[1] = "mkt" /\ MarketDataKey(s, t)[2] = s
                /\ MarketDataKey(s, t)[3] = t
  BY DEF MarketDataKey
<1>2. \A s, t : /\ MarketDepthKey(s, t)[1] = "depth" /\ MarketDepthKey(s, t)[2] = s
                /\ MarketDepthKey(s, t)[3] = t
  BY DEF MarketDepthKey
<1>3. \A s, a, b : /\ SessionLogKey(s, a, b)[1] = "sessionlog" /\ SessionLogKey(s, a, b)[2] = s
                   /\ SessionLogKey(s, a, b)[3] = a /\ SessionLogKey(s, a, b)[4] = b
  BY DEF SessionLogKey
<1>4. \A s, e, t : /\ IndexKey(s, e, t)[1] = "x/event-value" /\ IndexKey(s, e, t)[2] = s
                   /\ IndexKey(s, e, t)[3] = e /\ IndexKey(s, e, t)[4] = t
  BY DEF IndexKey
<1> QED BY <1>1, <1>2, <1>3, <1>4

LEMMA WrapParts ==
  ASSUME NEW e, NEW v
  PROVE  /\ wrap("IB_MARKET_DATA", [event |-> e, value |-> v]).event = e
         /\ wrap("IB_MARKET_DATA", [event |-> e, value |-> v]).value = v
         /\ wrap("INDEXED_VALUE", [value |-> v]).value = v
         /\ wrap("IB_MARKET_DEPTH", [value |-> v]).value = v
BY DEF wrap

\* More keys, of session logs and depth.
Aside(d, d2, more) ==
  /\ DOMAIN d2 = DOMAIN d \cup more
  /\ \A k \in DOMAIN d : k[1] \in {"mkt", "x/event-value"} => d2[k] = d[k]
  /\ \A k \in more :
       /\ k[1] \in {"sessionlog", "depth"} /\ k[2] \in LoadedSymbols
       /\ k[1] = "depth" => k = MarketDepthKey(k[2], k[3]) /\ k[3] \in Times

\* Session logs and depth records leave ticks and index alone.
LEMMA StoreAside ==
  ASSUME NEW d, StoreOK(d), NEW more, NEW d2, Aside(d, d2, more)
  PROVE  StoreOK(d2)
<1>0. /\ DOMAIN d2 = DOMAIN d \cup more
      /\ \A k \in DOMAIN d : k[1] \in {"mkt", "x/event-value"} => d2[k] = d[k]
      /\ \A k \in more :
           /\ k[1] \in {"sessionlog", "depth"} /\ k[2] \in LoadedSymbols
           /\ k[1] = "depth" => k = MarketDepthKey(k[2], k[3]) /\ k[3] \in Times
  BY DEF Aside
<1>1. KeysOK(d2)
  BY <1>0 DEF StoreOK, KeysOK
<1>2. ASSUME NEW k \in DOMAIN d2, k[1] = "mkt"
      PROVE  IndexKey(k[2], d2[k].event, k[3]) \in DOMAIN d2
             /\ d2[IndexKey(k[2], d2[k].event, k[3])].value = d2[k].value
  <2>1. k \in DOMAIN d /\ d2[k] = d[k]
    BY <1>0, <1>2
  <2>2. PICK x : x = IndexKey(k[2], d[k].event, k[3])
    OBVIOUS
  <2>3. x \in DOMAIN d /\ d[x].value = d[k].value
    BY <1>2, <2>1, <2>2 DEF StoreOK, IndexOK, IndexFollows
  <2>4. x[1] = "x/event-value"
    BY <2>2, KeyParts
  <2>5. x \in DOMAIN d2 /\ d2[x] = d[x]
    BY <1>0, <2>3, <2>4
  <2> QED BY <2>1, <2>2, <2>3, <2>5
<1>3. IndexFollows(d2)
  BY <1>2 DEF IndexFollows
<1>4. \A k \in DOMAIN d2 : k[1] = "x/event-value" => MarketDataKey(k[2], k[4]) \in DOMAIN d2
  BY <1>0 DEF StoreOK, IndexOK
<1> QED BY <1>1, <1>3, <1>4 DEF StoreOK, IndexOK

\* A tick and its entry in the index are one batch.
LEMMA StoreTick ==
  ASSUME NEW d, StoreOK(d), NEW s \in LoadedSymbols, NEW e, NEW t \in Times, NEW rec, NEW entry,
         rec.event = e, rec.value = entry.value, NEW d2,
         d2 = Put(Put(d, MarketDataKey(s, t), rec), IndexKey(s, e, t), entry)
  PROVE  StoreOK(d2)
<1>1. PICK key : key = MarketDataKey(s, t)
  OBVIOUS
<1>2. PICK x : x = IndexKey(s, e, t)
  OBVIOUS
<1>3. /\ key[1] = "mkt" /\ key[2] = s /\ key[3] = t
      /\ x[1] = "x/event-value" /\ x[2] = s /\ x[3] = e /\ x[4] = t /\ key # x
  BY <1>1, <1>2, KeyParts
<1>4. /\ DOMAIN d2 = DOMAIN d \cup {key, x} /\ d2[key] = rec /\ d2[x] = entry
      /\ \A k \in DOMAIN d : k # key /\ k # x => d2[k] = d[k]
  <2>1. d2 = Put(Put(d, key, rec), x, entry)
    BY <1>1, <1>2
  <2>2. key # x
    BY <1>3
  <2> QED BY ONLY <2>1, <2>2 DEF Put
<1>5. KeysOK(d2)
  BY <1>1, <1>2, <1>3, <1>4 DEF StoreOK, KeysOK
<1>6. ASSUME NEW k \in DOMAIN d2, k[1] = "mkt"
      PROVE  IndexKey(k[2], d2[k].event, k[3]) \in DOMAIN d2
             /\ d2[IndexKey(k[2], d2[k].event, k[3])].value = d2[k].value
  <2>1. CASE k = key
    BY <1>2, <1>3, <1>4, <2>1
  <2>2. CASE k # key
    <3>1. k # x /\ k \in DOMAIN d /\ d2[k] = d[k]
      BY <1>3, <1>4, <1>6, <2>2
    <3>2. PICK y : y = IndexKey(k[2], d[k].event, k[3])
      OBVIOUS
    <3>3. y \in DOMAIN d /\ d[y].value = d[k].value
      BY <1>6, <3>1, <3>2 DEF StoreOK, IndexOK, IndexFollows
    <3>4. k = MarketDataKey(k[2], k[3])
      BY <1>6, <3>1 DEF StoreOK, KeysOK
    <3>5. k[2] # s \/ k[3] # t
      BY <1>1, <2>2, <3>4
    <3>6. y[1] = "x/event-value" /\ y[2] = k[2] /\ y[4] = k[3]
      BY <3>2, KeyParts
    <3>7. y # x /\ y # key
      BY <1>3, <3>5, <3>6
    <3>8. d2[y] = d[y] /\ y \in DOMAIN d2
      BY <1>4, <3>3, <3>7
    <3> QED BY <3>1, <3>2, <3>3, <3>8
  <2> QED BY <2>1, <2>2
<1>7. IndexFollows(d2)
  BY <1>6 DEF IndexFollows
<1>8. \A k \in DOMAIN d2 : k[1] = "x/event-value" => MarketDataKey(k[2], k[4]) \in DOMAIN d2
  BY <1>1, <1>3, <1>4 DEF StoreOK, IndexOK
<1> QED BY <1>5, <1>7, <1>8 DEF StoreOK, IndexOK

\* The session that ended is stored, and nothing else changes.
LEMMA SessionStored ==
  ASSUME StoreOK(db), NEW s \in LoadedSymbols, NEW t, NEW d, d = StoredSession(s, t)
  PROVE  /\ StoreOK(d) /\ DOMAIN db \subseteq DOMAIN d
         /\ \A k \in DOMAIN d : k[1] # "sessionlog" => k \in DOMAIN db /\ d[k] = db[k]
         /\ EndsSession(s, t) =>
              SessionLogKey(s, sessionLogs[s].start, sessionLogs[s].stop) \in DOMAIN d
<1>1. CASE ~ EndsSession(s, t)
  BY <1>1 DEF StoredSession
<1>2. CASE EndsSession(s, t)
  <2>1. PICK key : key = SessionLogKey(s, sessionLogs[s].start, sessionLogs[s].stop)
    OBVIOUS
  <2>2. PICK v : v = wrap("SESSION_LOG", [source |-> files])
    OBVIOUS
  <2>3. d = Put(db, key, v)
    BY <1>2, <2>1, <2>2 DEF StoredSession
  <2>4. /\ DOMAIN d = DOMAIN db \cup {key}
        /\ \A k \in DOMAIN db : k # key => d[k] = db[k]
    BY ONLY <2>3 DEF Put
  <2>5. key[1] = "sessionlog" /\ key[2] = s
    BY <2>1, KeyParts
  <2>6. StoreOK(d)
    <3>1. Aside(db, d, {key})
      BY <2>4, <2>5 DEF Aside
    <3> QED BY <3>1, StoreAside
  <2> QED BY <2>1, <2>4, <2>5, <2>6
<1> QED BY <1>1, <1>2

\* Writer: the record of a tick or of depth; without --checkDuplicate it may replace one.
Writes(d, d2, s, e, t, v, over) ==
  \/ d2 = WriteMarketData(d, s, e, t, v, over)
  \/ d2 = WriteRecord(d, MarketDepthKey(s, t), wrap("IB_MARKET_DEPTH", [value |-> v]), over)

Recorded(d, d2, s, t, v, over) ==
  /\ StoreOK(d2) /\ DOMAIN d \subseteq DOMAIN d2
  /\ \A k \in DOMAIN d2 : Primary(k) =>
       \/ k \in DOMAIN d /\ d2[k] = d[k]
       \/ k[2] = s /\ k[3] = t /\ d2[k].value = v
  /\ ~ over => \A k \in DOMAIN d : d2[k] = d[k]

LEMMA RecordStored ==
  ASSUME NEW d, StoreOK(d), NEW s \in LoadedSymbols, NEW t \in Times, NEW e, NEW v,
         NEW over \in BOOLEAN, NEW d2, Writes(d, d2, s, e, t, v, over)
  PROVE  Recorded(d, d2, s, t, v, over)
<1> USE DEF Writes
<1>1. CASE d2 = d
  BY <1>1 DEF Recorded
<1>2. CASE d2 # d /\ d2 = WriteMarketData(d, s, e, t, v, over)
  <2>1. PICK key : key = MarketDataKey(s, t)
    OBVIOUS
  <2>2. PICK x : x = IndexKey(s, e, t)
    OBVIOUS
  <2>3. PICK rec : rec = wrap("IB_MARKET_DATA", [event |-> e, value |-> v])
    OBVIOUS
  <2>4. PICK entry : entry = wrap("INDEXED_VALUE", [value |-> v])
    OBVIOUS
  <2>5. rec.event = e /\ rec.value = v /\ entry.value = v
    BY <2>3, <2>4, WrapParts
  <2>6. OkToWrite(d, key, over) /\ d2 = Put(Put(d, key, rec), x, entry)
    BY <1>2, <2>1, <2>2, <2>3, <2>4 DEF WriteMarketData
  <2>7. d2 = Put(Put(d, MarketDataKey(s, t), rec), IndexKey(s, e, t), entry)
    BY <2>1, <2>2, <2>6
  <2>8. StoreOK(d2)
    BY <2>5, <2>7, StoreTick
  <2>9. /\ key[1] = "mkt" /\ key[2] = s /\ key[3] = t
        /\ x[1] = "x/event-value" /\ x[2] = s /\ x[4] = t
    BY <2>1, <2>2, KeyParts
  <2>10. key # x
    BY <2>9
  <2>11. /\ DOMAIN d2 = DOMAIN d \cup {key, x} /\ d2[key] = rec /\ d2[x] = entry
         /\ \A k \in DOMAIN d : k # key /\ k # x => d2[k] = d[k]
    <3>1. d2 = Put(Put(d, key, rec), x, entry)
      BY <2>6
    <3> QED BY ONLY <2>10, <3>1 DEF Put
  <2>12. \A k \in DOMAIN d2 : Primary(k) =>
           \/ k \in DOMAIN d /\ d2[k] = d[k]
           \/ k[2] = s /\ k[3] = t /\ d2[k].value = v
    BY <2>5, <2>9, <2>11 DEF Primary
  <2>13. ~ over => key \notin DOMAIN d
    BY <2>6 DEF OkToWrite
  <2>14. x \in DOMAIN d => key \in DOMAIN d
    BY <2>1, <2>9 DEF StoreOK, IndexOK
  <2> QED BY <2>8, <2>11, <2>12, <2>13, <2>14 DEF Recorded
<1>3. CASE /\ d2 # d
           /\ d2 = WriteRecord(d, MarketDepthKey(s, t), wrap("IB_MARKET_DEPTH", [value |-> v]), over)
  <2>1. PICK key : key = MarketDepthKey(s, t)
    OBVIOUS
  <2>2. PICK rec : rec = wrap("IB_MARKET_DEPTH", [value |-> v])
    OBVIOUS
  <2>3. rec.value = v
    BY <2>2, WrapParts
  <2>4. OkToWrite(d, key, over) /\ d2 = Put(d, key, rec)
    BY <1>3, <2>1, <2>2 DEF WriteRecord
  <2>5. key[1] = "depth" /\ key[2] = s /\ key[3] = t
    BY <2>1, KeyParts
  <2>6. /\ DOMAIN d2 = DOMAIN d \cup {key} /\ d2[key] = rec
        /\ \A k \in DOMAIN d : k # key => d2[k] = d[k]
    <3>1. d2 = Put(d, key, rec)
      BY <2>4
    <3> QED BY ONLY <3>1 DEF Put
  <2>7. StoreOK(d2)
    <3>1. Aside(d, d2, {key})
      BY <2>1, <2>5, <2>6 DEF Aside
    <3> QED BY <3>1, StoreAside
  <2>8. ~ over => key \notin DOMAIN d
    BY <2>4 DEF OkToWrite
  <2> QED BY <2>3, <2>5, <2>6, <2>7, <2>8 DEF Recorded
<1> QED BY <1>1, <1>2, <1>3

-----------------------------------------------------------------------------
(* HistorianLoader *)

\* What the loader writes for a record of the symbol s at the time t.
Wrote(s, t) ==
  /\ StoreOK(db') /\ DOMAIN db \subseteq DOMAIN db'
  /\ \A k \in DOMAIN db' : Primary(k) =>
       \/ k \in DOMAIN db /\ db'[k] = db[k]
       \/ k[2] = s /\ k[3] = t /\ db'[k].value.id = line.id
  /\ EndsSession(s, t) =>
       SessionLogKey(s, sessionLogs[s].start, sessionLogs[s].stop) \in DOMAIN db'
  /\ ~ canOverWrite => \A k \in DOMAIN db : k[1] # "sessionlog" => db'[k] = db[k]

LEMMA LoadDoes ==
  ASSUME LogInv, LoaderInv, Load
  PROVE  /\ line # None /\ line.kind = "event" /\ loading = "reading"
         /\ line.name \in DOMAIN TickEvents \cup DOMAIN DepthEvents
         /\ NextLine /\ UNCHANGED <<loading, files, file, canOverWrite>>
         /\ \E s \in LoadedSymbols :
              /\ s = GetSymbol(line.id)
              /\ tickerIdSymbol' = [tickerIdSymbol EXCEPT ![line.id] = s]
              /\ \/ UNCHANGED <<sessionLogs, db>>
                 \/ /\ sessionLogs' = Put(sessionLogs, s, UpdatedSession(s, line.ts))
                    /\ Wrote(s, line.ts)
<1>1. /\ line # None /\ line.kind = "event" /\ loading = "reading"
      /\ line.name \in DOMAIN TickEvents \cup DOMAIN DepthEvents
      /\ NextLine /\ UNCHANGED <<loading, files, file, canOverWrite>>
  BY Tables DEF Load, Loading, ConvertsTick, ConvertsBook, checkEvent, checkBookEvent
<1>2. line.id \in Ids /\ line.ts \in Times
  BY <1>1, DataIsAskedFor DEF LogInv, LogTypeOK, Lines
<1>3. PICK s : s = GetSymbol(line.id)
  OBVIOUS
<1>4. s \in LoadedSymbols
  BY <1>2, <1>3 DEF GetSymbol, LoadedSymbols, LoaderInv, LoaderTypeOK
<1>5. tickerIdSymbol' = [tickerIdSymbol EXCEPT ![line.id] = s]
  BY <1>3 DEF Load
<1>6. CASE ~ InHours(line)
  <2>1. UNCHANGED <<sessionLogs, db>>
    BY <1>6 DEF Load
  <2> QED BY <1>1, <1>3, <1>4, <1>5, <2>1
<1>7. CASE InHours(line)
  <2>1. PICK d : d = StoredSession(s, line.ts)
    OBVIOUS
  <2>2. PICK v : v = [id |-> line.id, nth |-> lines]
    OBVIOUS
  <2>3. v.id = line.id
    BY <2>2
  <2>4. /\ sessionLogs' = Put(sessionLogs, s, UpdatedSession(s, line.ts))
        /\ Writes(d, db', s, line.field, line.ts, v, canOverWrite)
    BY <1>3, <1>7, <2>1, <2>2 DEF Load, Writes
  <2>5. /\ StoreOK(d) /\ DOMAIN db \subseteq DOMAIN d
        /\ \A k \in DOMAIN d : k[1] # "sessionlog" => k \in DOMAIN db /\ d[k] = db[k]
        /\ EndsSession(s, line.ts) =>
             SessionLogKey(s, sessionLogs[s].start, sessionLogs[s].stop) \in DOMAIN d
    BY <1>4, <2>1, SessionStored DEF LoaderInv
  <2>6. canOverWrite \in BOOLEAN
    BY DEF LoaderInv, LoaderTypeOK
  <2>7. /\ StoreOK(db') /\ DOMAIN d \subseteq DOMAIN db'
        /\ \A k \in DOMAIN db' : Primary(k) =>
             \/ k \in DOMAIN d /\ db'[k] = d[k]
             \/ k[2] = s /\ k[3] = line.ts /\ db'[k].value = v
        /\ ~ canOverWrite => \A k \in DOMAIN d : db'[k] = d[k]
    <3>1. Recorded(d, db', s, line.ts, v, canOverWrite)
      BY <1>2, <1>4, <2>4, <2>5, <2>6, RecordStored
    <3> QED BY <3>1 DEF Recorded
  <2>8. Wrote(s, line.ts)
    BY <2>3, <2>5, <2>7 DEF Wrote, Primary
  <2> QED BY <1>1, <1>3, <1>4, <1>5, <2>4, <2>8
<1> QED BY <1>6, <1>7

LEMMA NoEarlierThanMidnight == \A m \in Times \cup {0} : m \in Int /\ 0 <= m /\ m <= m
<1>1. Times \subseteq 0 .. 1439
  BY EventLogAssumption
<1> QED BY <1>1

\* The parts of the invariant that are about the store and the sessions, when both stay.
LEMMA StoreKept ==
  ASSUME LogInv, LoaderInv, Onward, UNCHANGED <<sessionLogs, db>>,
         loading' = "done" => loading = "done"
  PROVE  StoreOK(db)' /\ RecordsInv' /\ CoverInv'
<1>1. StoreOK(db)'
  BY DEF LoaderInv, StoreOK, KeysOK, IndexOK, IndexFollows
<1>2. RecordsInv'
  <2> SUFFICES ASSUME NEW k \in DOMAIN db, Primary(k)
               PROVE  /\ db[k].value.id \in Ids
                      /\ db[k].value.id \in missed' \/ k[2] \in SymbolsOf(db[k].value.id)'
    BY DEF RecordsInv, Primary
  <2>1. PICK id : id = db[k].value.id
    OBVIOUS
  <2>2. id \in Ids /\ (id \in missed \/ k[2] \in SymbolsOf(id))
    BY <2>1 DEF LoaderInv, RecordsInv
  <2>3. id \in missed' \/ k[2] \in SymbolsOf(id)'
    BY <2>2, SymbolsGrow DEF Onward
  <2> QED BY <2>1, <2>2, <2>3 DEF SymbolsOf
<1>3. CoverInv'
  <2>1. \A s \in DOMAIN sessionLogs : sessionLogs[s].start <= clock' /\ sessionLogs[s].stop <= clock'
    <3> SUFFICES ASSUME NEW s \in DOMAIN sessionLogs
                 PROVE  sessionLogs[s].start <= clock' /\ sessionLogs[s].stop <= clock'
      OBVIOUS
    <3>1. PICK r \in [start : Times, stop : Times \cup {0}] : r = sessionLogs[s]
      BY DEF LoaderInv, LoaderTypeOK
    <3>2. r.start <= clock /\ r.stop <= clock
      BY <3>1 DEF LoaderInv, CoverInv
    <3>3. r.start \in Int /\ r.stop \in Int /\ clock \in Int /\ clock' \in Int /\ clock <= clock'
      <4>1. r.start \in Times /\ r.stop \in Times \cup {0}
        OBVIOUS
      <4>2. r.start \in Int /\ r.stop \in Int
        BY <4>1, NoEarlierThanMidnight
      <4> QED BY <4>2, Moments DEF Onward
    <3>4. r.start <= clock' /\ r.stop <= clock'
      BY <3>2, <3>3
    <3> QED BY <3>1, <3>4
  <2> QED BY <2>1 DEF LoaderInv, CoverInv, Stored
<1> QED BY <1>1, <1>2, <1>3

\* A step of the log or of the other program, or a line that the loader ignores.
LEMMA LoaderRests ==
  ASSUME LogInv, LoaderInv, UNCHANGED loaderVars,
         \/ mode' = mode /\ (LogNext \/ OtherFile \/ UNCHANGED logVars)
         \/ mode' = mode /\ NextLine /\ line # None /\ ~ MapsId(line)
         \/ mode' # "closed" /\ (NextLine \/ UNCHANGED logVars)
  PROVE  LoaderInv'
<1>0. UNCHANGED <<loading, files, file, canOverWrite, tickerIdSymbol, sessionLogs, db>>
  BY DEF loaderVars
<1>1. Onward
  BY LogIsOnward
<1>2. LoaderTypeOK'
  BY <1>0 DEF LoaderInv, LoaderTypeOK
<1>3. StoreOK(db)' /\ RecordsInv' /\ CoverInv'
  BY <1>0, <1>1, StoreKept
<1>4. mode' = "closed" /\ loading' \in {"closed", "reading"} => Heard(tickerIdSymbol)'
  <2> SUFFICES ASSUME mode' = "closed", loading \in {"closed", "reading"}, NEW id \in Ids, Subscribed(id)'
               PROVE  id \in missed' \/ tickerIdSymbol[id] # None \/ Pending(id)'
    BY <1>0 DEF Heard
  <2>1. mode = "closed" /\ (LogNext \/ OtherFile \/ (NextLine /\ ~ Pending(id)) \/ UNCHANGED logVars)
    BY PendingMaps
  <2> DEFINE known == tickerIdSymbol[id] # None
  <2>2. known \in BOOLEAN /\ (Subscribed(id) => id \in missed \/ known \/ Pending(id))
    BY <2>1 DEF LoaderInv, TickerInv, Heard
  <2> HIDE DEF known
  <2>3. id \in missed' \/ known \/ Pending(id)'
    BY <2>1, <2>2, StillHeard
  <2> QED BY <2>3 DEF known
<1>5. \A id \in Ids : tickerIdSymbol'[id] # None => id \in missed' \/ tickerIdSymbol'[id] \in SymbolsOf(id)'
  BY <1>0, <1>1, SymbolsGrow DEF LoaderInv, TickerInv, Onward
<1>6. loading' = "aborted" => (missed # {} \/ TwoSymbols)'
  BY <1>0, <1>1, SymbolsGrow DEF LoaderInv, TickerInv
<1> QED BY <1>2, <1>3, <1>4, <1>5, <1>6 DEF LoaderInv, TickerInv

LEMMA LoaderOpens ==
  ASSUME LogInv, LoaderInv, mode = "closed", mode' = mode, OpenFiles
  PROVE  LoaderInv'
<1>0. /\ UNCHANGED <<files, file, canOverWrite, tickerIdSymbol, sessionLogs, db>> /\ UNCHANGED logVars
      /\ loading = "closed" /\ loading' = "reading"
  BY DEF OpenFiles
<1>1. Onward
  BY <1>0, LogIsOnward
<1>2. LoaderTypeOK'
  BY <1>0 DEF LoaderInv, LoaderTypeOK
<1>3. StoreOK(db)' /\ RecordsInv' /\ CoverInv'
  BY <1>0, <1>1, StoreKept
<1>4. Heard(tickerIdSymbol)'
  BY <1>0 DEF LoaderInv, TickerInv, Heard, Subscribed, Pending, logVars
<1>5. \A id \in Ids : tickerIdSymbol'[id] # None => id \in missed' \/ tickerIdSymbol'[id] \in SymbolsOf(id)'
  BY <1>0, <1>1, SymbolsGrow DEF LoaderInv, TickerInv, Onward
<1> QED BY <1>0, <1>2, <1>3, <1>4, <1>5 DEF LoaderInv, TickerInv

\* A request teaches the loader a symbol; the id had another, or a guess.
LEMMA LoaderLearns ==
  ASSUME LogInv, LoaderInv, mode = "closed", mode' = mode, MapActions
  PROVE  LoaderInv'
<1> DEFINE s == symbol_from_contract(line.contract)
<1>0. /\ UNCHANGED <<files, file, canOverWrite, sessionLogs, db>> /\ NextLine /\ line # None
      /\ loading = "reading" /\ MapsId(line)
  BY MapsIdOfBoth DEF MapActions, Loading
<1>1. Onward
  BY <1>0, LogIsOnward
<1>2. /\ line.id \in Ids /\ line.contract \in Contracts /\ s \in SymbolsOf(line.id)
      /\ \A id \in Ids : Pending(id) => id = line.id
  BY <1>0, SymbolOfLine
<1>3. s # None /\ s \in LoadedSymbols
  BY <1>2, EventLogAssumption DEF LoadedSymbols
<1>4. \/ /\ tickerIdSymbol[line.id] \in {None, s} /\ loading' = "reading"
         /\ tickerIdSymbol' = [tickerIdSymbol EXCEPT ![line.id] = s]
      \/ /\ tickerIdSymbol[line.id] \notin {None, s} /\ loading' = "aborted"
         /\ tickerIdSymbol' = tickerIdSymbol
  BY <1>0 DEF MapActions
<1> HIDE DEF s
<1>5. tickerIdSymbol \in [Ids -> LoadedSymbols \cup {None}]
  BY DEF LoaderInv, LoaderTypeOK
<1>6. /\ tickerIdSymbol' \in [Ids -> LoadedSymbols \cup {None}]
      /\ \A id \in Ids \ {line.id} : tickerIdSymbol'[id] = tickerIdSymbol[id]
      /\ loading' = "reading" => tickerIdSymbol'[line.id] = s
  BY <1>2, <1>3, <1>4, <1>5
<1>7. LoaderTypeOK'
  BY <1>0, <1>4, <1>6 DEF LoaderInv, LoaderTypeOK
<1>8. StoreOK(db)' /\ RecordsInv' /\ CoverInv'
  BY <1>0, <1>1, <1>4, StoreKept
<1>9. loading' = "reading" => Heard(tickerIdSymbol)'
  <2> SUFFICES ASSUME loading' = "reading", NEW id \in Ids, Subscribed(id)'
               PROVE  id \in missed' \/ tickerIdSymbol'[id] # None \/ Pending(id)'
    BY DEF Heard
  <2>1. CASE id = line.id
    BY <1>3, <1>6, <2>1
  <2>2. CASE id # line.id
    <3>1. Subscribed(id) /\ ~ Pending(id)
      BY <1>0, <1>2, <2>2, SubscribedByReading
    <3>2. id \in missed \/ tickerIdSymbol[id] # None
      BY <1>0, <3>1 DEF LoaderInv, TickerInv, Heard
    <3> QED BY <1>1, <1>6, <2>2, <3>2 DEF Onward
  <2> QED BY <2>1, <2>2
<1>10. \A id \in Ids : tickerIdSymbol'[id] # None => id \in missed' \/ tickerIdSymbol'[id] \in SymbolsOf(id)'
  <2> SUFFICES ASSUME NEW id \in Ids, tickerIdSymbol'[id] # None
               PROVE  id \in missed' \/ tickerIdSymbol'[id] \in SymbolsOf(id)'
    OBVIOUS
  <2>1. tickerIdSymbol'[id] = tickerIdSymbol[id] \/ (id = line.id /\ tickerIdSymbol'[id] = s)
    BY <1>4, <1>6
  <2>2. id \in missed \/ tickerIdSymbol'[id] \in SymbolsOf(id)
    BY <1>2, <2>1 DEF LoaderInv, TickerInv
  <2> QED BY <1>1, <2>2, SymbolsGrow DEF Onward
<1>11. loading' = "aborted" => (missed # {} \/ TwoSymbols)'
  <2> SUFFICES ASSUME loading' = "aborted" PROVE missed # {} \/ TwoSymbols
    BY <1>1, SymbolsGrow
  <2>1. tickerIdSymbol[line.id] # None /\ tickerIdSymbol[line.id] # s
    BY <1>4
  <2>2. line.id \in missed \/ tickerIdSymbol[line.id] \in SymbolsOf(line.id)
    BY <1>2, <2>1 DEF LoaderInv, TickerInv
  <2> QED BY <1>2, <2>1, <2>2 DEF TwoSymbols
<1> QED BY <1>4, <1>7, <1>8, <1>9, <1>10, <1>11 DEF LoaderInv, TickerInv

\* updateSessionLog: the session has the new record, and the ones it had unless it was stored.
LEMMA SessionUpdated ==
  ASSUME LogInv, LoaderInv, NEW s \in LoadedSymbols, NEW t \in Times, t = clock,
         NEW u, u = UpdatedSession(s, t)
  PROVE  /\ u \in [start : Times, stop : Times \cup {0}]
         /\ u.start <= t /\ u.stop <= t /\ Within(t, u.start, u.stop)
         /\ s \in DOMAIN sessionLogs /\ ~ EndsSession(s, t) =>
              \A m \in Times : Within(m, sessionLogs[s].start, sessionLogs[s].stop)
                                 => Within(m, u.start, u.stop)
<1>0. t \in Int /\ 0 <= t /\ t <= t
  BY NoEarlierThanMidnight
<1>1. CASE s \notin DOMAIN sessionLogs
  <2>1. u = [start |-> t, stop |-> 0]
    BY <1>1 DEF UpdatedSession
  <2>2. u.start = t /\ u.stop = 0 /\ u \in [start : Times, stop : Times \cup {0}]
    BY <2>1
  <2> QED BY <1>0, <1>1, <2>2 DEF Within
<1>2. CASE s \in DOMAIN sessionLogs
  <2>1. PICK r \in [start : Times, stop : Times \cup {0}] : r = sessionLogs[s]
    BY <1>2 DEF LoaderInv, LoaderTypeOK
  <2>2. r.start <= t /\ r.stop <= t
    BY <1>2, <2>1 DEF LoaderInv, CoverInv
  <2>3. r.start \in Times /\ r.stop \in Times \cup {0}
    OBVIOUS
  <2>4. r.start \in Int /\ r.stop \in Int
    BY <2>3, NoEarlierThanMidnight
  <2>5. u = [start |-> IF EndsSession(s, t) THEN t ELSE r.start, stop |-> t]
    BY <1>2, <2>1 DEF UpdatedSession
  <2>6. u.start = (IF EndsSession(s, t) THEN t ELSE r.start) /\ u.stop = t
    BY <2>5
  <2>7. u.start \in Times /\ u \in [start : Times, stop : Times \cup {0}]
    BY <2>3, <2>5
  <2>8. u.start <= t
    BY <1>0, <2>2, <2>6
  <2>9. ASSUME ~ EndsSession(s, t), NEW m \in Times, Within(m, r.start, r.stop)
        PROVE  Within(m, u.start, u.stop)
    <3>1. u.start = r.start /\ u.stop = t /\ m \in Int
      BY <2>6, <2>9, Moments
    <3>2. r.start <= m /\ (m <= r.stop \/ r.start = m)
      BY <2>9 DEF Within
    <3>3. m <= t
      BY <1>0, <2>2, <2>4, <3>1, <3>2
    <3> QED BY <3>1, <3>2, <3>3 DEF Within
  <2> QED BY <1>0, <2>1, <2>6, <2>7, <2>8, <2>9 DEF Within
<1> QED BY <1>1, <1>2

\* A tick or a depth event.
LEMMA LoaderLoads ==
  ASSUME LogInv, LoaderInv, mode = "closed", mode' = mode, Load
  PROVE  LoaderInv'
<1>1. /\ line # None /\ line.kind = "event" /\ loading = "reading"
      /\ line.name \in DOMAIN TickEvents \cup DOMAIN DepthEvents
      /\ NextLine /\ UNCHANGED <<loading, files, file, canOverWrite>>
  BY LoadDoes
<1>2. PICK s \in LoadedSymbols :
        /\ s = GetSymbol(line.id)
        /\ tickerIdSymbol' = [tickerIdSymbol EXCEPT ![line.id] = s]
        /\ \/ UNCHANGED <<sessionLogs, db>>
           \/ /\ sessionLogs' = Put(sessionLogs, s, UpdatedSession(s, line.ts))
              /\ Wrote(s, line.ts)
  BY LoadDoes
<1>3. line.id \in Ids /\ Subscribed(line.id) /\ ~ Pending(line.id) /\ ~ MapsId(line)
  BY <1>1, DataIsAskedFor
<1>4. Onward /\ clock' = clock /\ missed' = missed /\ asked' = asked
  BY <1>1, LogIsOnward DEF NextLine
<1>5. PICK t \in Times : t = line.ts /\ t = clock
  BY <1>1 DEF LogInv, LineInv, LogTypeOK
<1>6. line.id \in missed \/ s \in SymbolsOf(line.id)
  <2>1. CASE tickerIdSymbol[line.id] = None
    BY <1>1, <1>3, <2>1 DEF LoaderInv, TickerInv, Heard
  <2>2. CASE tickerIdSymbol[line.id] # None
    BY <1>2, <1>3, <2>2 DEF LoaderInv, TickerInv, GetSymbol
  <2> QED BY <2>1, <2>2
<1>7. tickerIdSymbol \in [Ids -> LoadedSymbols \cup {None}]
  BY DEF LoaderInv, LoaderTypeOK
<1>8. /\ tickerIdSymbol' \in [Ids -> LoadedSymbols \cup {None}]
      /\ tickerIdSymbol'[line.id] = s /\ s # None
      /\ \A id \in Ids \ {line.id} : tickerIdSymbol'[id] = tickerIdSymbol[id]
  BY <1>2, <1>3, <1>7, HistorianLoaderAssumption
<1>9. TickerInv'
  <2>1. Heard(tickerIdSymbol)'
    <3> SUFFICES ASSUME NEW id \in Ids, Subscribed(id)' PROVE id \in missed' \/ tickerIdSymbol'[id] # None
      BY DEF Heard
    <3>1. Subscribed(id) /\ ~ Pending(id)
      BY <1>1, <1>3, SubscribedByReading, PendingMaps
    <3>2. id \in missed \/ tickerIdSymbol[id] # None
      BY <1>1, <3>1 DEF LoaderInv, TickerInv, Heard
    <3> QED BY <1>4, <1>8, <3>2
  <2>2. \A id \in Ids : tickerIdSymbol'[id] # None => id \in missed' \/ tickerIdSymbol'[id] \in SymbolsOf(id)'
    <3> SUFFICES ASSUME NEW id \in Ids, tickerIdSymbol'[id] # None
                 PROVE  id \in missed \/ tickerIdSymbol'[id] \in SymbolsOf(id)
      BY <1>4, SymbolsGrow
    <3>1. CASE id = line.id
      BY <1>6, <1>8, <3>1
    <3>2. CASE id # line.id
      BY <1>8, <3>2 DEF LoaderInv, TickerInv
    <3> QED BY <3>1, <3>2
  <2> QED BY <1>1, <2>1, <2>2 DEF TickerInv
<1>10. CASE UNCHANGED <<sessionLogs, db>>
  <2>1. LoaderTypeOK'
    BY <1>1, <1>8, <1>10 DEF LoaderInv, LoaderTypeOK
  <2>2. StoreOK(db)' /\ RecordsInv' /\ CoverInv'
    BY <1>1, <1>4, <1>10, StoreKept
  <2> QED BY <1>9, <2>1, <2>2 DEF LoaderInv
<1>11. CASE sessionLogs' = Put(sessionLogs, s, UpdatedSession(s, line.ts)) /\ Wrote(s, line.ts)
  <2>1. PICK u : u = UpdatedSession(s, t)
    OBVIOUS
  <2>2. /\ u \in [start : Times, stop : Times \cup {0}]
        /\ u.start <= t /\ u.stop <= t /\ Within(t, u.start, u.stop)
        /\ s \in DOMAIN sessionLogs /\ ~ EndsSession(s, t) =>
             \A m \in Times : Within(m, sessionLogs[s].start, sessionLogs[s].stop)
                                => Within(m, u.start, u.stop)
    BY <1>5, <2>1, SessionUpdated
  <2>3. /\ DOMAIN sessionLogs' = DOMAIN sessionLogs \cup {s} /\ sessionLogs'[s] = u
        /\ \A x \in DOMAIN sessionLogs : x # s => sessionLogs'[x] = sessionLogs[x]
    <3>1. sessionLogs' = Put(sessionLogs, s, u)
      BY <1>5, <1>11, <2>1
    <3> QED BY ONLY <3>1 DEF Put
  <2>4. Wrote(s, t)
    BY <1>5, <1>11
  <2>5. StoreOK(db)'
    BY <2>4 DEF Wrote, StoreOK, KeysOK, IndexOK, IndexFollows
  <2>6. LoaderTypeOK'
    <3>1. \A k \in DOMAIN db' : k[1] \in {"mkt", "depth", "sessionlog", "x/event-value"}
                                /\ k[2] \in LoadedSymbols
      BY <2>5 DEF StoreOK, KeysOK
    <3>2. DOMAIN sessionLogs' \subseteq LoadedSymbols
      BY <2>3 DEF LoaderInv, LoaderTypeOK
    <3>3. \A x \in DOMAIN sessionLogs' : sessionLogs'[x] \in [start : Times, stop : Times \cup {0}]
      BY <2>2, <2>3 DEF LoaderInv, LoaderTypeOK
    <3> QED BY <1>1, <1>8, <3>1, <3>2, <3>3 DEF LoaderInv, LoaderTypeOK
  <2>7. RecordsInv'
    <3> SUFFICES ASSUME NEW k \in DOMAIN db', Primary(k)
                 PROVE  /\ db'[k].value.id \in Ids
                        /\ db'[k].value.id \in missed' \/ k[2] \in SymbolsOf(db[k].value.id)'
      BY DEF RecordsInv, Primary
    <3>1. PICK id : id = db'[k].value.id
      OBVIOUS
    <3>2. id \in Ids /\ (id \in missed \/ k[2] \in SymbolsOf(id))
      <4>1. CASE k \in DOMAIN db /\ db'[k] = db[k]
        BY <3>1, <4>1 DEF LoaderInv, RecordsInv
      <4>2. CASE k[2] = s /\ k[3] = t /\ db'[k].value.id = line.id
        BY <1>3, <1>6, <3>1, <4>2
      <4> QED BY <2>4, <4>1, <4>2 DEF Wrote
    <3> QED BY <1>4, <3>1, <3>2 DEF SymbolsOf
  <2>8. CoverInv'
    <3>1. \A x \in DOMAIN sessionLogs' : sessionLogs'[x].start <= clock' /\ sessionLogs'[x].stop <= clock'
      BY <1>4, <1>5, <2>2, <2>3 DEF LoaderInv, CoverInv
    <3>2. ASSUME NEW k \in DOMAIN db', Primary(k)
          PROVE  \/ Stored(k)'
                 \/ /\ k[2] \in DOMAIN sessionLogs'
                    /\ Within(k[3], sessionLogs'[k[2]].start, sessionLogs'[k[2]].stop)
      <4>1. CASE k[2] = s /\ k[3] = t
        BY <2>2, <2>3, <4>1
      <4>2. CASE k \in DOMAIN db /\ Stored(k)
        BY <2>4, <4>2 DEF Wrote, Stored
      <4>3. CASE /\ k \in DOMAIN db /\ k[2] \in DOMAIN sessionLogs
                 /\ Within(k[3], sessionLogs[k[2]].start, sessionLogs[k[2]].stop)
        <5>1. CASE k[2] # s
          BY <2>3, <4>3, <5>1
        <5>2. CASE k[2] = s /\ EndsSession(s, t)
          <6>1. PICK log : log = SessionLogKey(s, sessionLogs[s].start, sessionLogs[s].stop)
            OBVIOUS
          <6>2. log \in DOMAIN db'
            BY <2>4, <5>2, <6>1 DEF Wrote
          <6>3. log[1] = "sessionlog" /\ log[2] = s /\ log[3] = sessionLogs[s].start
                /\ log[4] = sessionLogs[s].stop
            BY <6>1, KeyParts
          <6> QED BY <4>3, <5>2, <6>2, <6>3 DEF Stored
        <5>3. CASE k[2] = s /\ ~ EndsSession(s, t)
          <6>1. k[3] \in Times
            BY <3>2, <4>3 DEF Primary, LoaderInv, StoreOK, KeysOK
          <6> QED BY <2>2, <2>3, <4>3, <5>3, <6>1
        <5> QED BY <5>1, <5>2, <5>3
      <4>4. \/ k \in DOMAIN db
            \/ k[2] = s /\ k[3] = t
        BY <2>4, <3>2 DEF Wrote
      <4> QED BY <3>2, <4>1, <4>2, <4>3, <4>4 DEF LoaderInv, CoverInv
    <3> QED BY <1>1, <3>1, <3>2 DEF CoverInv, Primary
  <2> QED BY <1>9, <2>5, <2>6, <2>7, <2>8 DEF LoaderInv
<1> QED BY <1>2, <1>10, <1>11

\* All sessions are in the store at the end of a file.
LEMMA EndFileDoes ==
  ASSUME LoaderInv, EndFile
  PROVE  /\ StoreOK(db') /\ DOMAIN db \subseteq DOMAIN db'
         /\ \A k \in DOMAIN db' : k[1] # "sessionlog" => k \in DOMAIN db /\ db'[k] = db[k]
         /\ \A s \in DOMAIN sessionLogs :
              SessionLogKey(s, sessionLogs[s].start, sessionLogs[s].stop) \in DOMAIN db'
<1> DEFINE key(s) == SessionLogKey(s, sessionLogs[s].start, sessionLogs[s].stop)
           ok(s) == OkToWrite(db, key(s), canOverWrite)
<1>1. PICK written : written = {key(s) : s \in {x \in DOMAIN sessionLogs : ok(x)}}
  OBVIOUS
<1>2. PICK v : v = wrap("SESSION_LOG", [source |-> file])
  OBVIOUS
<1>3. db' = [k \in DOMAIN db \cup written |-> IF k \in written THEN v ELSE db[k]]
  BY <1>1, <1>2 DEF EndFile, WriteSessionLogs
<1>4. \A s : key(s)[1] = "sessionlog" /\ key(s)[2] = s
  BY KeyParts
<1>5. \A s \in DOMAIN sessionLogs : ~ ok(s) => key(s) \in DOMAIN db
  BY DEF OkToWrite
<1>6. DOMAIN sessionLogs \subseteq LoadedSymbols
  BY DEF LoaderInv, LoaderTypeOK
<1> HIDE DEF key, ok
<1>7. /\ DOMAIN db' = DOMAIN db \cup written
      /\ \A k \in DOMAIN db : k \notin written => db'[k] = db[k]
  BY <1>3
<1>8. \A k \in written : k[1] = "sessionlog" /\ k[2] \in LoadedSymbols
  BY <1>1, <1>4, <1>6
<1>9. StoreOK(db')
  <2>1. Aside(db, db', written)
    BY <1>7, <1>8 DEF Aside
  <2> QED BY <2>1, StoreAside DEF LoaderInv
<1>10. \A s \in DOMAIN sessionLogs : key(s) \in DOMAIN db'
  BY <1>1, <1>5, <1>7
<1>11. \A k \in DOMAIN db' : k[1] # "sessionlog" => k \in DOMAIN db /\ db'[k] = db[k]
  BY <1>7, <1>8
<1> QED BY <1>7, <1>9, <1>10, <1>11 DEF key

LEMMA LoaderEndsFile ==
  ASSUME LogInv, LoaderInv, mode = "closed", mode' = mode, EndFile
  PROVE  LoaderInv'
<1>0. /\ UNCHANGED <<files, canOverWrite, tickerIdSymbol, sessionLogs>> /\ UNCHANGED logVars
      /\ loading = "reading"
      /\ \/ loading' = "done" /\ file' = file
         \/ loading' = "reading" /\ file < files /\ file' = file + 1
  BY DEF EndFile
<1>1. /\ StoreOK(db') /\ DOMAIN db \subseteq DOMAIN db'
      /\ \A k \in DOMAIN db' : k[1] # "sessionlog" => k \in DOMAIN db /\ db'[k] = db[k]
      /\ \A s \in DOMAIN sessionLogs :
           SessionLogKey(s, sessionLogs[s].start, sessionLogs[s].stop) \in DOMAIN db'
  BY EndFileDoes
<1>2. UNCHANGED <<line, asked, clock, missed>>
  BY <1>0 DEF logVars
<1>3. StoreOK(db)'
  BY <1>1 DEF StoreOK, KeysOK, IndexOK, IndexFollows
<1>4. LoaderTypeOK'
  <2>1. files \in Int /\ file \in Int /\ 1 <= file /\ file <= files
    BY HistorianLoaderAssumption DEF LoaderInv, LoaderTypeOK
  <2>2. file' \in 1 .. files
    BY <1>0, <2>1
  <2>3. \A k \in DOMAIN db' : k[1] \in {"mkt", "depth", "sessionlog", "x/event-value"}
                              /\ k[2] \in LoadedSymbols
    BY <1>3 DEF StoreOK, KeysOK
  <2> QED BY <1>0, <2>2, <2>3 DEF LoaderInv, LoaderTypeOK
<1>5. TickerInv'
  BY <1>0, <1>2 DEF LoaderInv, TickerInv, Heard, Subscribed, Pending, SymbolsOf, TwoSymbols
<1>6. RecordsInv'
  BY <1>1, <1>2 DEF LoaderInv, RecordsInv, Primary, SymbolsOf
<1>7. CoverInv'
  <2>1. ASSUME NEW k \in DOMAIN db', Primary(k) PROVE Stored(k)'
    <3>1. k \in DOMAIN db
      BY <1>1, <2>1 DEF Primary
    <3>2. CASE Stored(k)
      BY <1>1, <3>2 DEF Stored
    <3>3. CASE /\ k[2] \in DOMAIN sessionLogs
               /\ Within(k[3], sessionLogs[k[2]].start, sessionLogs[k[2]].stop)
      <4>1. PICK log : log = SessionLogKey(k[2], sessionLogs[k[2]].start, sessionLogs[k[2]].stop)
        OBVIOUS
      <4>2. log \in DOMAIN db'
        BY <1>1, <3>3, <4>1
      <4>3. log[1] = "sessionlog" /\ log[2] = k[2] /\ log[3] = sessionLogs[k[2]].start
            /\ log[4] = sessionLogs[k[2]].stop
        BY <4>1, KeyParts
      <4> QED BY <3>3, <4>2, <4>3 DEF Stored
    <3> QED BY <2>1, <3>1, <3>2, <3>3 DEF LoaderInv, CoverInv
  <2>2. \A s \in DOMAIN sessionLogs' : sessionLogs'[s].start <= clock' /\ sessionLogs'[s].stop <= clock'
    BY <1>0, <1>2 DEF LoaderInv, CoverInv
  <2> QED BY <2>1, <2>2 DEF CoverInv, Primary
<1> QED BY <1>3, <1>4, <1>5, <1>6, <1>7 DEF LoaderInv

LEMMA LoaderIsRight ==
  ASSUME LoaderInv
  PROVE  StoreIsRight
<1>1. IndexFollowsRecords
  BY DEF LoaderInv, StoreOK, IndexOK, IndexFollowsRecords
<1>2. SessionsCoverRecords
  BY DEF LoaderInv, CoverInv, Stored, Within, SessionsCoverRecords
<1>3. LoadedUnderOwnSymbol
  BY DEF LoaderInv, RecordsInv, TickerInv, TwoSymbols, LoadedUnderOwnSymbol
<1> QED BY <1>1, <1>2, <1>3 DEF LoaderInv, StoreIsRight

-----------------------------------------------------------------------------
(* Both *)

BothInv == LogInv /\ ReaderInv /\ LoaderInv

LEMMA BothStart ==
  ASSUME BothInit
  PROVE  BothInv
<1> USE DEF BothInit, Init, LoaderInit, LogInit
<1>1. LogInv
  <2>1. LogTypeOK
    BY EventLogAssumption DEF LogTypeOK
  <2>2. LineInv
    BY DEF LineInv
  <2> QED BY <2>1, <2>2 DEF LogInv
<1>2. \A id \in Ids : ~ Subscribed(id)
  BY DEF Subscribed
<1>3. ReaderInv
  <2>1. OneReader /\ ReaderTypeOK
    BY DEF OneReader, ReaderTypeOK
  <2>2. SymbolsInv
    BY <1>2 DEF SymbolsInv, Heard
  <2>3. PublishedInv
    BY DEF PublishedInv
  <2> QED BY <2>1, <2>2, <2>3 DEF ReaderInv
<1>4. DOMAIN db = {} /\ DOMAIN sessionLogs = {}
  BY DEF Empty
<1>5. LoaderInv
  <2>1. LoaderTypeOK
    BY <1>4, HistorianLoaderAssumption DEF LoaderTypeOK
  <2>2. TickerInv
    BY <1>2 DEF TickerInv, Heard
  <2>3. StoreOK(db)
    BY <1>4 DEF StoreOK, KeysOK, IndexOK, IndexFollows
  <2>4. RecordsInv /\ CoverInv
    BY <1>4 DEF RecordsInv, CoverInv
  <2> QED BY <2>1, <2>2, <2>3, <2>4 DEF LoaderInv
<1> QED BY <1>1, <1>3, <1>5 DEF BothInv

LEMMA BothStep ==
  ASSUME BothInv, [BothNext]_allVars
  PROVE  BothInv'
<1>0. LogInv /\ ReaderInv /\ LoaderInv
  BY DEF BothInv
<1>1. ASSUME LogNext, UNCHANGED readerVars, UNCHANGED loaderVars PROVE BothInv'
  <2>1. mode' = mode /\ loading' = loading
    BY <1>1 DEF readerVars, loaderVars
  <2> QED BY <1>0, <1>1, <2>1, LogIsOnward, ReaderRests, LoaderRests DEF BothInv
<1>2. ASSUME OtherFile \/ UNCHANGED logVars, UNCHANGED readerVars, UNCHANGED loaderVars PROVE BothInv'
  <2>1. mode' = mode /\ loading' = loading
    BY <1>2 DEF readerVars, loaderVars
  <2> QED BY <1>0, <1>2, <2>1, LogIsOnward, ReaderRests, LoaderRests DEF BothInv
<1>3. ASSUME loading = "closed", UNCHANGED loaderVars, Next PROVE BothInv'
  <2>0. loading' = loading
    BY <1>3 DEF loaderVars
  <2>1. CASE Write
    BY <1>1, <1>3, <2>1 DEF Write
  <2>2. CASE Miss
    BY <1>2, <1>3, <2>2 DEF Miss
  <2>3. ASSUME ReaderInv', mode' # "closed", NextLine \/ UNCHANGED logVars PROVE BothInv'
    BY <1>0, <1>3, <2>3, LogIsOnward, LoaderRests DEF BothInv
  <2>4. CASE Open
    BY <1>0, <1>3, <2>0, <2>3, <2>4, ReaderOpens DEF Open
  <2>5. CASE MapIdToSymbols
    <3>1. mode' # "closed"
      BY <2>5 DEF MapIdToSymbols, Reading
    <3> QED BY <1>0, <1>3, <2>0, <2>3, <2>5, <3>1, ReaderLearns DEF MapIdToSymbols
  <2>6. CASE Skip
    <3>1. /\ mode = "reading" /\ mode' = mode /\ line # None /\ ~ MapsId(line) /\ NextLine
          /\ UNCHANGED readerVars
      BY <2>6 DEF Skip, Reading, readerVars
    <3> QED BY <1>0, <2>0, <2>3, <3>1, ReaderRests
  <2>7. CASE StopScan
    BY <1>0, <1>3, <2>0, <2>3, <2>7, ReaderStops DEF StopScan
  <2>8. CASE UnknownId
    BY <1>0, <1>3, <2>0, <2>3, <2>8, ReaderGivesUp DEF UnknownId
  <2>9. CASE Deliver
    BY <1>0, <1>3, <2>0, <2>3, <2>9, ReaderDelivers DEF Deliver, Reading
  <2>10. CASE EndOfFile
    BY <1>0, <1>3, <2>0, <2>3, <2>10, ReaderOpens DEF EndOfFile
  <2>11. CASE SendDataEnd
    BY <1>0, <1>3, <2>0, <2>3, <2>11, ReaderEnds DEF SendDataEnd
  <2> QED BY <1>3, <2>1, <2>2, <2>4, <2>5, <2>6, <2>7, <2>8, <2>9, <2>10, <2>11 DEF Next, Read
<1>4. ASSUME mode = "closed", UNCHANGED readerVars, LoaderNext PROVE BothInv'
  <2>0. mode' = mode
    BY <1>4 DEF readerVars
  <2>1. CASE PassOver
    BY <1>2, <1>4, <2>1 DEF PassOver
  <2>2. ASSUME LoaderInv', loading' # "closed", NextLine \/ UNCHANGED logVars PROVE BothInv'
    BY <1>0, <1>4, <2>2, LogIsOnward, ReaderRests DEF BothInv
  <2>3. CASE OpenFiles
    BY <1>0, <1>4, <2>0, <2>2, <2>3, LoaderOpens DEF OpenFiles
  <2>4. CASE Load
    BY <1>0, <1>4, <2>0, <2>2, <2>4, LoaderLoads DEF Load, Loading
  <2>5. CASE MapActions
    <3>1. loading' # "closed"
      BY <2>5 DEF MapActions, Loading
    <3> QED BY <1>0, <1>4, <2>0, <2>2, <2>5, <3>1, LoaderLearns DEF MapActions
  <2>6. CASE Ignore
    <3>1. loading = "reading" /\ line # None /\ ~ MapsId(line) /\ NextLine /\ UNCHANGED loaderVars
      BY <2>6, MapsIdOfBoth DEF Ignore, Loading
    <3>2. loading' # "closed"
      BY <3>1 DEF loaderVars
    <3> QED BY <1>0, <2>0, <2>2, <3>1, <3>2, LoaderRests
  <2>7. CASE EndFile
    BY <1>0, <1>4, <2>0, <2>2, <2>7, LoaderEndsFile DEF EndFile
  <2> QED BY <1>4, <2>1, <2>3, <2>4, <2>5, <2>6, <2>7 DEF LoaderNext
<1>5. CASE UNCHANGED allVars
  BY <1>2, <1>5 DEF allVars, vars
<1> QED BY <1>1, <1>3, <1>4, <1>5 DEF BothNext

LEMMA BothInvariant == BothSpec => []BothInv
BY BothStart, BothStep, PTL DEF BothSpec

\* For any log LogReader sends records under a symbol that was asked for under their id, in
\* the order of the log and within the window asked for, and gives up on a file only when
\* requests are in another file or an id has two symbols.
THEOREM ScanIsRightAlways == BothSpec => []ScanIsRight
<1>1. BothInv => ScanIsRight
  BY ReaderIsRight DEF BothInv
<1> QED BY <1>1, BothInvariant, PTL

\* For any log and any flags each tick of the loader's store is in the index with its value,
\* each record of a loader that is done lies in a session log of its symbol, and records are
\* under a symbol that was asked for.
THEOREM StoreIsRightAlways == BothSpec => []StoreIsRight
<1>1. BothInv => StoreIsRight
  BY LoaderIsRight DEF BothInv
<1> QED BY <1>1, BothInvariant, PTL

\* A step of NeverReplaced.
NothingReplaced ==
  ~ canOverWrite =>
    \A k \in DOMAIN db : k[1] # "sessionlog" => k \in DOMAIN db' /\ db'[k] = db[k]

\* With --checkDuplicate a batch is written only when the record is new, and then its entry
\* in the index is new as well: no record and no entry is replaced.
THEOREM NothingIsReplaced == BothSpec => NeverReplaced
<1>1. ASSUME BothInv, [BothNext]_allVars
      PROVE  [NothingReplaced]_<<logVars, loaderVars>>
  <2>1. CASE UNCHANGED db
    BY <2>1 DEF NothingReplaced
  <2>2. CASE Load
    <3>1. LogInv /\ LoaderInv
      BY <1>1 DEF BothInv
    <3>2. \E s \in LoadedSymbols : UNCHANGED db \/ Wrote(s, line.ts)
      BY <2>2, <3>1, LoadDoes
    <3> QED BY <3>2 DEF Wrote, NothingReplaced
  <2>3. CASE EndFile
    <3>1. LoaderInv
      BY <1>1 DEF BothInv
    <3>2. /\ DOMAIN db \subseteq DOMAIN db'
          /\ \A k \in DOMAIN db' : k[1] # "sessionlog" => k \in DOMAIN db /\ db'[k] = db[k]
      BY <2>3, <3>1, EndFileDoes
    <3> QED BY <3>2 DEF NothingReplaced
  <2> QED BY <1>1, <2>1, <2>2, <2>3
          DEF BothNext, LoaderNext, PassOver, OpenFiles, MapActions, Ignore, loaderVars, allVars
<1> QED BY <1>1, BothInvariant, PTL DEF BothSpec, NeverReplaced, NothingReplaced

-----------------------------------------------------------------------------
(* The service that answers queries from the store *)

\* Keys, records and messages of the service.
KeySet == {MarketDataKey(Symbol, ts) : ts \in Stamps}
          \cup {MarketDepthKey(Symbol, ts) : ts \in Stamps}
          \cup {IndexKey(Symbol, "BID", ts) : ts \in Stamps}

Values == {wrap("IB_MARKET_DATA", [event |-> "BID", value |-> n]) : n \in Nat}
          \cup {wrap("IB_MARKET_DEPTH", [value |-> n]) : n \in Nat}
          \cup {wrap("INDEXED_VALUE", [value |-> n]) : n \in Nat}

KeyType(k) == CASE k[1] = "mkt"   -> "IB_MARKET_DATA"
                [] k[1] = "depth" -> "IB_MARKET_DEPTH"
                [] OTHER          -> "INDEXED_VALUE"

Body    == [key : KeySet, record : Values]
Message == [id : ResponseIds, body : Body \cup {Complete}]

\* The store holds values of the type of their key.
IsStore(store) ==
  /\ DOMAIN store \in SUBSET KeySet /\ IsFiniteSet(DOMAIN store)
  /\ \A k \in DOMAIN store : store[k] \in Values /\ store[k].type = KeyType(k)

Busy == server \in {"connect", "stream"}

ServiceShape ==
  /\ IsStore(levelDb)
  /\ hz \in {"down", "opened", "null", "writing"}
  /\ hz = "down" => server = "stopped"
  /\ server \in {"listen", "connect", "stream", "stopped"}
  /\ requests \in Seq([client : Clients, query : Queries])
  /\ job \in [client : Clients \cup {Nil}, query : Queries \cup {Nil},
              id : ResponseIds \cup {Nil}, rest : Seq(Body)]
  /\ Busy => job.client \in Clients /\ job.query \in Queries /\ job.id \in ResponseIds
  /\ reply \in [Clients -> ResponseIds \cup {Nil}]
  /\ pull \in [Clients -> Seq(Message)]
  /\ state \in [Clients -> {"idle", "sent", "reading"}]
  /\ query \in [Clients -> Queries \cup {Nil}]
  /\ responseId \in [Clients -> ResponseIds \cup {Nil}]
  /\ got \in [Clients -> Seq(Body)]
  /\ result \in [Clients -> {Nil, "complete", "error", "stopped", "refused"}]
  /\ before \in [Clients -> SUBSET DOMAIN levelDb]
  /\ upset \in SUBSET Clients
  /\ writes \in 0..MaxWrites /\ queries \in 0..MaxQueries /\ starts \in 0..MaxStarts

\* The reactor answers c.
Working(c) == Busy /\ job.client = c

\* Among the requests, none is of c; or one, for q.
NoRequest(R, c) == \A i \in DOMAIN R : R[i].client # c

OneRequest(R, c, q) ==
  \A i \in DOMAIN R : R[i].client = c =>
    R[i].query = q /\ \A j \in DOMAIN R : R[j].client = c => i = j

\* The response id of the query that c waits for.
Expects(c) == IF state[c] = "reading" THEN responseId[c] ELSE reply[c]

\* The request of c was not taken yet.
Waiting(c) ==
  /\ OneRequest(requests, c, query[c])
  /\ state[c] = "sent" /\ reply[c] = Nil /\ ~ Working(c) /\ pull[c] = << >>

\* What the callback socket of c holds is of the query that c waits for, and
\* nothing comes after its last message.
PullIs(c) ==
  \A i \in DOMAIN pull[c] :
    /\ pull[c][i].id = Expects(c)
    /\ pull[c][i].body = Complete => i = Len(pull[c]) /\ ~ Working(c)

\* Whatever is on its way to c belongs to the query that c waits for.
Way(c) ==
  /\ state[c] = "idle" =>
       NoRequest(requests, c) /\ ~ Working(c) /\ pull[c] = << >> /\ reply[c] = Nil
  /\ state[c] # "idle" =>
       /\ result[c] = Nil
       /\ query[c] \in QueriesOf[c] /\ query[c].type # "none"
  /\ state[c] = "sent" => got[c] = << >>
  /\ state[c] = "reading" => reply[c] = Nil
  /\ NoRequest(requests, c) \/ Waiting(c)
  /\ Working(c) =>
       /\ job.query = query[c] /\ query[c].type # "garbage" /\ job.id = Expects(c)
       /\ server = "connect" => pull[c] = << >> /\ got[c] = << >>
  /\ PullIs(c)
  /\ result[c] = "error" => query[c].type = "none"
  /\ c \in Local => state[c] = "idle"

\* The records s answer the query q, from a store with these keys, in their order.
InKeyOrder(s, q, keys) ==
  /\ \A i \in DOMAIN s : /\ s[i].key \in keys /\ Asked(q, s[i].key)
                         /\ s[i].record.type = KeyType(s[i].key)
  /\ \A i, j \in DOMAIN s : i < j => Before(s[i].key, s[j].key)

Follow(s, t) == \A i \in DOMAIN s : \A j \in DOMAIN t : Before(s[i].key, t[j].key)

KeysOf(s) == {s[i].key : i \in DOMAIN s}

\* The records in a callback socket.
Held(p) == [i \in {n \in DOMAIN p : p[n].body # Complete} |-> p[i].body]

\* What was taken (g), is held (h) and is to come (r) is together what q asks for,
\* if the store had the keys "was" at the beginning.
Delivery(g, h, r, q, keys, was) ==
  /\ InKeyOrder(g, q, keys) /\ InKeyOrder(h, q, keys) /\ InKeyOrder(r, q, keys)
  /\ Follow(g, h) /\ Follow(g, r) /\ Follow(h, r)
  /\ \A k \in was : Asked(q, k) => k \in KeysOf(g) \cup KeysOf(h) \cup KeysOf(r)
  /\ q.type \in {"INDEXED_VALUE", "IB_MARKET_DATA", "range"}

Streaming(c) == Working(c) /\ server = "stream"
Coming(c)    == IF Streaming(c) THEN job.rest ELSE << >>

\* The query of c finds what it asked for.
Stream(c) ==
  Streaming(c) \/ pull[c] # << >> \/ result[c] = "complete" =>
    Delivery(got[c], Held(pull[c]), Coming(c), query[c], DOMAIN levelDb, before[c])

-----------------------------------------------------------------------------
(* The order of the keys *)

Place(e) == CHOOSE i \in DOMAIN KeyOrder : KeyOrder[i] = e

LEMMA Places == Place("depth") = 1 /\ Place("mkt") = 2 /\ Place("x/event-value") = 4
<1>1. DOMAIN KeyOrder = 1..4 /\ KeyOrder[1] = "depth" /\ KeyOrder[2] = "mkt"
      /\ KeyOrder[3] = "sessionlog" /\ KeyOrder[4] = "x/event-value"
  BY DEF KeyOrder
<1>2. \A i \in 1..4 : i = 1 \/ i = 2 \/ i = 3 \/ i = 4
  OBVIOUS
<1>3. \A i \in 1..4 : (KeyOrder[i] = "depth" <=> i = 1) /\ (KeyOrder[i] = "mkt" <=> i = 2)
        /\ (KeyOrder[i] = "x/event-value" <=> i = 4)
  BY <1>1, <1>2
<1> QED BY <1>1, <1>3 DEF Place

\* A key is its entity and its stamp.
LEMMA KeyIs ==
  ASSUME NEW k \in KeySet
  PROVE  \E ts \in Nat :
           /\ ts \in Stamps /\ Stamp(k) = ts
           /\ \/ k = <<"mkt", Symbol, ts>> /\ k[1] = "mkt" /\ k[3] = ts
              \/ k = <<"depth", Symbol, ts>> /\ k[1] = "depth" /\ k[3] = ts
              \/ k = <<"x/event-value", Symbol, "BID", ts>> /\ k[1] = "x/event-value"
<1>1. Stamps \subseteq Nat
  BY HistorianServiceAssumption
<1>2. CASE \E ts \in Stamps : k = <<"mkt", Symbol, ts>>
  <2>1. PICK ts \in Stamps : k = <<"mkt", Symbol, ts>>
    BY <1>2
  <2>2. k[1] = "mkt" /\ k[3] = ts
    BY <2>1
  <2>3. Stamp(k) = ts
    BY <2>2 DEF Stamp
  <2> QED BY <1>1, <2>1, <2>2, <2>3
<1>3. CASE \E ts \in Stamps : k = <<"depth", Symbol, ts>>
  <2>1. PICK ts \in Stamps : k = <<"depth", Symbol, ts>>
    BY <1>3
  <2>2. k[1] = "depth" /\ k[3] = ts
    BY <2>1
  <2>3. Stamp(k) = ts
    BY <2>2 DEF Stamp
  <2> QED BY <1>1, <2>1, <2>2, <2>3
<1>4. CASE \E ts \in Stamps : k = <<"x/event-value", Symbol, "BID", ts>>
  <2>1. PICK ts \in Stamps : k = <<"x/event-value", Symbol, "BID", ts>>
    BY <1>4
  <2>2. k[1] = "x/event-value" /\ k[4] = ts
    BY <2>1
  <2>3. Stamp(k) = ts
    BY <2>2 DEF Stamp
  <2> QED BY <1>1, <2>1, <2>2, <2>3
<1> QED BY <1>2, <1>3, <1>4 DEF KeySet, MarketDataKey, MarketDepthKey, IndexKey

LEMMA KeyFacts ==
  ASSUME NEW k \in KeySet
  PROVE  /\ k[1] \in {"mkt", "depth", "x/event-value"} /\ k[2] = Symbol
         /\ Stamp(k) \in Nat /\ Place(k[1]) \in Nat
         /\ k[1] # "x/event-value" => k[3] = Stamp(k)
         /\ k[1] = "x/event-value" => k[3] = "BID"
BY KeyIs, Places

LEMMA SameKey ==
  ASSUME NEW j \in KeySet, NEW k \in KeySet, j[1] = k[1], Stamp(j) = Stamp(k)
  PROVE  j = k
BY KeyIs

LEMMA BeforeIs ==
  \A j, k : Before(j, k) <=> (Place(j[1]) < Place(k[1]) \/ (j[1] = k[1] /\ Stamp(j) < Stamp(k)))
BY DEF Before, Place

LEMMA SamePlace ==
  ASSUME NEW j \in KeySet, NEW k \in KeySet, Place(j[1]) = Place(k[1])
  PROVE  j[1] = k[1]
BY KeyFacts, Places

\* Before is a strict total order of the keys.
LEMMA KeysInOrder ==
  /\ \A k \in KeySet : ~ Before(k, k)
  /\ \A j, k \in KeySet : Before(j, k) \/ j = k \/ Before(k, j)
  /\ \A i, j, k \in KeySet : Before(i, j) /\ Before(j, k) => Before(i, k)
<1>1. ASSUME NEW k \in KeySet PROVE ~ Before(k, k)
  BY KeyFacts, BeforeIs
<1>2. ASSUME NEW j \in KeySet, NEW k \in KeySet
      PROVE  Before(j, k) \/ j = k \/ Before(k, j)
  <2>1. Stamp(j) \in Nat /\ Stamp(k) \in Nat /\ Place(j[1]) \in Nat /\ Place(k[1]) \in Nat
    BY KeyFacts
  <2>2. CASE Place(j[1]) # Place(k[1])
    BY <2>1, <2>2, BeforeIs
  <2>3. CASE Place(j[1]) = Place(k[1])
    <3>1. j[1] = k[1]
      BY <2>3, SamePlace
    <3>2. Stamp(j) < Stamp(k) \/ Stamp(j) = Stamp(k) \/ Stamp(k) < Stamp(j)
      BY <2>1
    <3> QED BY <3>1, <3>2, SameKey, BeforeIs
  <2> QED BY <2>2, <2>3
<1>3. ASSUME NEW i \in KeySet, NEW j \in KeySet, NEW k \in KeySet, Before(i, j), Before(j, k)
      PROVE  Before(i, k)
  <2>1. /\ Stamp(i) \in Nat /\ Stamp(j) \in Nat /\ Stamp(k) \in Nat
        /\ Place(i[1]) \in Nat /\ Place(j[1]) \in Nat /\ Place(k[1]) \in Nat
    BY KeyFacts
  <2>2. /\ Place(i[1]) < Place(j[1]) \/ (i[1] = j[1] /\ Stamp(i) < Stamp(j))
        /\ Place(j[1]) < Place(k[1]) \/ (j[1] = k[1] /\ Stamp(j) < Stamp(k))
    BY <1>3, BeforeIs
  <2>3. Place(i[1]) < Place(k[1]) \/ (i[1] = k[1] /\ Stamp(i) < Stamp(k))
    BY <2>1, <2>2
  <2> QED BY <2>3, BeforeIs
<1> QED BY <1>1, <1>2, <1>3

-----------------------------------------------------------------------------
(* The records of an iterator *)

\* The number of keys before k.
Rank(keys, k) == Cardinality({j \in keys : Before(j, k)})

LEMMA RankGrows ==
  ASSUME NEW keys \in SUBSET KeySet, IsFiniteSet(keys), NEW j \in keys, NEW k \in keys,
         Before(j, k)
  PROVE  Rank(keys, j) < Rank(keys, k)
<1> DEFINE J == {i \in keys : Before(i, j)}
           K == {i \in keys : Before(i, k)}
<1>1. IsFiniteSet(K) /\ IsFiniteSet(J)
  BY FS_Subset
<1>2. J \subseteq K /\ j \in K /\ j \notin J
  BY KeysInOrder
<1>3. J # K
  BY <1>2
<1>4. Cardinality(J) < Cardinality(K)
  <2>1. Cardinality(J) \in Nat /\ Cardinality(K) \in Nat
    BY <1>1, FS_CardinalityType
  <2>2. Cardinality(J) <= Cardinality(K) /\ Cardinality(J) # Cardinality(K)
    BY <1>1, <1>2, <1>3, FS_Subset
  <2> QED BY <2>1, <2>2
<1> QED BY <1>4 DEF Rank

LEMMA RankBounded ==
  ASSUME NEW keys \in SUBSET KeySet, IsFiniteSet(keys), NEW k \in keys
  PROVE  Rank(keys, k) \in 0 .. Cardinality(keys) - 1
<1> DEFINE K == {i \in keys : Before(i, k)}
<1>1. IsFiniteSet(K)
  BY FS_Subset
<1>2. K \subseteq keys /\ K # keys
  BY KeysInOrder
<1>3. Cardinality(K) \in Nat /\ Cardinality(keys) \in Nat
  BY <1>1, FS_CardinalityType
<1>4. Cardinality(K) <= Cardinality(keys) /\ Cardinality(K) # Cardinality(keys)
  BY <1>1, <1>2, FS_Subset
<1>5. Cardinality(K) \in 0 .. Cardinality(keys) - 1
  BY <1>3, <1>4
<1> QED BY <1>5 DEF Rank

\* Exactly one key has a given number of keys before it.
LEMMA RankedKey ==
  ASSUME NEW keys \in SUBSET KeySet, IsFiniteSet(keys), NEW i \in 1 .. Cardinality(keys)
  PROVE  \E k \in keys : Rank(keys, k) = i - 1
<1> DEFINE n == Cardinality(keys)
           f == [k \in keys |-> Rank(keys, k)]
<1>1. n \in Nat
  BY FS_CardinalityType
<1>2. f \in [keys -> 0 .. n - 1]
  BY RankBounded
<1>3. IsFiniteSet(0 .. n - 1) /\ Cardinality(0 .. n - 1) = n
  <2>1. PICK m : m = n - 1
    OBVIOUS
  <2>2. m \in Int /\ 0 \in Int
    BY <1>1, <2>1
  <2>3. IsFiniteSet(0 .. m) /\ Cardinality(0 .. m) = IF 0 > m THEN 0 ELSE m - 0 + 1
    BY <2>2, FS_Interval
  <2>4. (IF 0 > m THEN 0 ELSE m - 0 + 1) = n
    BY <1>1, <2>1
  <2> QED BY <2>1, <2>3, <2>4
<1>4. ASSUME NEW j \in keys, NEW k \in keys, f[j] = f[k]
      PROVE  j = k
  <2>1. Rank(keys, j) \in Nat /\ Rank(keys, k) \in Nat /\ Rank(keys, j) = Rank(keys, k)
    BY <1>4, RankBounded
  <2>2. ~ Before(j, k) /\ ~ Before(k, j)
    BY <2>1, RankGrows
  <2> QED BY <2>2, KeysInOrder
<1>5. f \in Injection(keys, 0 .. n - 1)
  BY <1>2, <1>4 DEF Injection, IsInjective
<1>6. f \in Surjection(keys, 0 .. n - 1)
  BY <1>3, <1>5, FS_Injection
<1>7. i - 1 \in 0 .. n - 1
  BY <1>1
<1> QED BY <1>6, <1>7 DEF Surjection

\* The sequence s has the records of store under the keys, in their order.
AreRecords(s, store, keys) ==
  /\ s \in Seq(Body) /\ KeysOf(s) = keys
  /\ \A i \in DOMAIN s : s[i].key \in keys /\ s[i].record = store[s[i].key]
  /\ \A i, j \in DOMAIN s : i < j => Before(s[i].key, s[j].key)

LEMMA RecordsAreSorted ==
  ASSUME NEW store, IsStore(store), NEW keys \in SUBSET DOMAIN store
  PROVE  AreRecords(Records(store, keys), store, keys)
<1> DEFINE n == Cardinality(keys)
           place(i) == CHOOSE k \in keys : Cardinality({j \in keys : Before(j, k)}) = i - 1
<1>1. IsFiniteSet(keys) /\ keys \in SUBSET KeySet
  BY FS_Subset DEF IsStore
<1>2. n \in Nat
  BY <1>1, FS_CardinalityType
<1>3. PICK s : s = Records(store, keys)
  OBVIOUS
<1>4. s = [i \in 1 .. n |-> [key |-> place(i), record |-> store[place(i)]]]
  BY <1>3 DEF Records
<1>5. ASSUME NEW i \in 1 .. n
      PROVE  place(i) \in keys /\ Rank(keys, place(i)) = i - 1
  <2>1. \E k \in keys : Cardinality({j \in keys : Before(j, k)}) = i - 1
    BY <1>1, RankedKey DEF Rank
  <2> QED BY <2>1 DEF Rank
<1> HIDE DEF place, n
<1>6. DOMAIN s = 1 .. n /\ \A i \in 1 .. n : s[i].key = place(i) /\ s[i].record = store[place(i)]
  BY <1>4
<1>7. \A i \in 1 .. n : s[i] \in Body
  <2>1. \A i \in 1 .. n : place(i) \in KeySet /\ store[place(i)] \in Values
    BY <1>1, <1>5 DEF IsStore
  <2> QED BY <1>4, <2>1 DEF Body
<1>8. s \in Seq(Body)
  BY <1>2, <1>4, <1>7
<1>9. keys \subseteq KeysOf(s)
  <2> SUFFICES ASSUME NEW k \in keys PROVE k \in KeysOf(s)
    OBVIOUS
  <2>1. PICK i : i = Rank(keys, k) + 1
    OBVIOUS
  <2>2. i \in 1 .. n /\ Rank(keys, k) = i - 1
    <3>1. Rank(keys, k) \in 0 .. n - 1
      BY <1>1, RankBounded DEF n
    <3> QED BY <1>2, <2>1, <3>1
  <2>3. Rank(keys, place(i)) = Rank(keys, k) /\ Rank(keys, k) \in Int
    BY <1>1, <1>2, <1>5, <2>2
  <2>4. ~ Before(place(i), k) /\ ~ Before(k, place(i))
    BY <1>1, <1>5, <2>2, <2>3, RankGrows
  <2>5. place(i) = k
    BY <1>1, <1>5, <2>2, <2>4, KeysInOrder
  <2> QED BY <1>6, <2>2, <2>5 DEF KeysOf
<1>10. KeysOf(s) \subseteq keys
  BY <1>5, <1>6 DEF KeysOf
<1>11. ASSUME NEW i \in 1 .. n, NEW j \in 1 .. n, i < j
       PROVE  Before(place(i), place(j))
  <2>1. /\ Rank(keys, place(i)) < Rank(keys, place(j))
        /\ ~ Rank(keys, place(j)) < Rank(keys, place(i))
    BY <1>2, <1>5, <1>11
  <2>2. place(i) # place(j)
    BY <2>1, <1>2, <1>5
  <2>3. ~ Before(place(j), place(i))
    BY <1>1, <1>5, <2>1, RankGrows
  <2> QED BY <1>1, <1>5, <2>2, <2>3, KeysInOrder
<1>12. AreRecords(s, store, keys)
  <2>1. KeysOf(s) = keys
    BY <1>9, <1>10
  <2>2. \A i \in DOMAIN s : s[i].key \in keys /\ s[i].record = store[s[i].key]
    BY <1>5, <1>6
  <2>3. \A i, j \in DOMAIN s : i < j => Before(s[i].key, s[j].key)
    BY <1>6, <1>11
  <2> QED BY <1>8, <2>1, <2>2, <2>3 DEF AreRecords
<1> QED BY <1>3, <1>12

-----------------------------------------------------------------------------
(* Writes *)

LEMMA WrapType ==
  /\ \A n \in Nat : wrap("IB_MARKET_DATA", [event |-> "BID", value |-> n]).type = "IB_MARKET_DATA"
  /\ \A n \in Nat : wrap("IB_MARKET_DEPTH", [value |-> n]).type = "IB_MARKET_DEPTH"
  /\ \A n \in Nat : wrap("INDEXED_VALUE", [value |-> n]).type = "INDEXED_VALUE"
BY DEF wrap

LEMMA PutIsStore ==
  ASSUME NEW store, IsStore(store), NEW k \in KeySet, NEW v \in Values, v.type = KeyType(k)
  PROVE  IsStore(Put(store, k, v)) /\ DOMAIN store \subseteq DOMAIN Put(store, k, v)
<1>1. DOMAIN Put(store, k, v) = DOMAIN store \cup {k}
  BY DEF Put
<1>2. IsFiniteSet(DOMAIN store \cup {k})
  BY FS_AddElement DEF IsStore
<1>3. \A j \in DOMAIN store \cup {k} : Put(store, k, v)[j] = IF j = k THEN v ELSE store[j]
  BY DEF Put
<1> QED BY <1>1, <1>2, <1>3 DEF IsStore

LEMMA WritesKeepStore ==
  ASSUME NEW store, IsStore(store), NEW ts \in Stamps, NEW n \in Nat, NEW overwrite,
         NEW new \in {WriteMarketData(store, Symbol, "BID", ts, n, overwrite),
                      WriteRecord(store, MarketDepthKey(Symbol, ts),
                                  wrap("IB_MARKET_DEPTH", [value |-> n]), overwrite)}
  PROVE  IsStore(new) /\ DOMAIN store \subseteq DOMAIN new
<1> DEFINE tick  == wrap("IB_MARKET_DATA", [event |-> "BID", value |-> n])
           depth == wrap("IB_MARKET_DEPTH", [value |-> n])
           entry == wrap("INDEXED_VALUE", [value |-> n])
           tickKey == MarketDataKey(Symbol, ts)
           depthKey == MarketDepthKey(Symbol, ts)
           entryKey == IndexKey(Symbol, "BID", ts)
<1>1. tick \in Values /\ depth \in Values /\ entry \in Values
  BY DEF Values
<1>2. tickKey \in KeySet /\ depthKey \in KeySet /\ entryKey \in KeySet
  BY DEF KeySet
<1>3. tick.type = KeyType(tickKey) /\ depth.type = KeyType(depthKey)
      /\ entry.type = KeyType(entryKey)
  <2>1. tickKey[1] = "mkt" /\ depthKey[1] = "depth" /\ entryKey[1] = "x/event-value"
    BY DEF MarketDataKey, MarketDepthKey, IndexKey
  <2>2. tick.type = "IB_MARKET_DATA" /\ depth.type = "IB_MARKET_DEPTH"
        /\ entry.type = "INDEXED_VALUE"
    BY WrapType
  <2> HIDE DEF tick, depth, entry, tickKey, depthKey, entryKey
  <2> QED BY <2>1, <2>2 DEF KeyType
<1> HIDE DEF tick, depth, entry, tickKey, depthKey, entryKey
<1>4. /\ IsStore(Put(store, depthKey, depth))
      /\ DOMAIN store \subseteq DOMAIN Put(store, depthKey, depth)
  BY <1>1, <1>2, <1>3, PutIsStore
<1>5. PICK one : one = Put(store, tickKey, tick)
  OBVIOUS
<1>6. IsStore(one) /\ DOMAIN store \subseteq DOMAIN one
  BY <1>1, <1>2, <1>3, <1>5, PutIsStore
<1>7. IsStore(Put(one, entryKey, entry)) /\ DOMAIN one \subseteq DOMAIN Put(one, entryKey, entry)
  BY <1>1, <1>2, <1>3, <1>6, PutIsStore
<1>8. new \in {store, Put(store, depthKey, depth), Put(one, entryKey, entry)}
  BY <1>5 DEF WriteMarketData, WriteRecord, tick, depth, entry, tickKey, depthKey, entryKey
<1> QED BY <1>4, <1>6, <1>7, <1>8

-----------------------------------------------------------------------------
(* Queries *)

\* The queries that are sent and parse.
Questions == Asks({"INDEXED_VALUE", "IB_MARKET_DATA", "range"})

LEMMA QueriesAre ==
  ASSUME NEW c \in Clients, NEW q \in QueriesOf[c]
  PROVE  /\ q \in Queries
         /\ q.type \notin {"none", "garbage"} => q \in Questions
         /\ c = "hzc" => q.type \in {"INDEXED_VALUE", "none"}
         /\ c = "r" \/ c = "raptor" => q.type = "INDEXED_VALUE"
<1>1. c \in {"hzc", "r", "api", "hdb", "raptor"}
  BY HistorianServiceAssumption
<1>2. q \in Queries
  BY DEF Queries
<1>3. CASE c = "hzc"
  BY <1>2, <1>3 DEF QueriesOf, hzc_main_query, Asks, Questions
<1>4. CASE c = "r"
  BY <1>2, <1>4 DEF QueriesOf, hzc_query, Asks, Questions
<1>5. CASE c = "api"
  BY <1>2, <1>5 DEF QueriesOf, Asks, Questions
<1>6. CASE c = "hdb"
  BY <1>2, <1>6 DEF QueriesOf, hdb_query, Asks, Questions
<1>7. CASE c = "raptor"
  BY <1>2, <1>7 DEF QueriesOf, raptor_query, Asks, Questions
<1> QED BY <1>1, <1>3, <1>4, <1>5, <1>6, <1>7

LEMMA EntityIs ==
  /\ Entity["IB_MARKET_DATA"] = "mkt" /\ Entity["INDEXED_VALUE"] = "x/event-value"
  /\ Entity["IB_MARKET_DEPTH"] = "depth"
  /\ DOMAIN Entity = {"IB_MARKET_DATA", "IB_MARKET_DEPTH", "SESSION_LOG", "INDEXED_VALUE"}
BY DEF Entity

\* The iterator finds what is asked for.
LEMMA MatchingIs ==
  ASSUME IsStore(levelDb), NEW q \in Questions
  PROVE  Matching(q) = {k \in DOMAIN levelDb : Asked(q, k)}
<1>1. q.first = 1 /\ q.last = 3 /\ q.type \in {"INDEXED_VALUE", "IB_MARKET_DATA", "range"}
  BY DEF Questions, Asks
<1>2. DOMAIN levelDb \subseteq KeySet
  BY DEF IsStore
<1>3. CASE q.type = "range"
  <2> DEFINE low == MarketDepthKey(Symbol, 1)
             high == MarketDataKey(Symbol, 3)
  <2>1. /\ low[1] = "depth" /\ low[2] = Symbol /\ Stamp(low) = 1
        /\ high[1] = "mkt" /\ Stamp(high) = 3
    BY DEF MarketDepthKey, MarketDataKey, Stamp
  <2>2. Matching(q) =
          {k \in DOMAIN levelDb : k[2] = low[2] /\ ~ Before(k, low) /\ Before(k, high)}
    BY <1>1, <1>3 DEF Matching, QueryByRange
  <2> HIDE DEF low, high
  <2>3. ASSUME NEW k \in KeySet
        PROVE  (k[2] = low[2] /\ ~ Before(k, low) /\ Before(k, high)) <=> Asked(q, k)
    <3>1. /\ k[1] \in {"mkt", "depth", "x/event-value"} /\ k[2] = Symbol /\ Stamp(k) \in Nat
          /\ k[1] # "x/event-value" => k[3] = Stamp(k)
      BY KeyFacts
    <3>2. Before(k, low) <=> (Place(k[1]) < 1 \/ (k[1] = "depth" /\ Stamp(k) < 1))
      BY <2>1, BeforeIs, Places
    <3>3. Before(k, high) <=> (Place(k[1]) < 2 \/ (k[1] = "mkt" /\ Stamp(k) < 3))
      BY <2>1, BeforeIs, Places
    <3>4. Asked(q, k) <=> (k[1] = "depth" /\ k[3] >= 1) \/ (k[1] = "mkt" /\ k[3] < 3)
      BY <1>1, <1>3 DEF Asked
    <3>5. CASE k[1] = "mkt"
      BY <2>1, <3>1, <3>2, <3>3, <3>4, <3>5, Places
    <3>6. CASE k[1] = "depth"
      BY <2>1, <3>1, <3>2, <3>3, <3>4, <3>6, Places
    <3>7. CASE k[1] = "x/event-value"
      BY <2>1, <3>1, <3>2, <3>3, <3>4, <3>7, Places
    <3> QED BY <3>1, <3>5, <3>6, <3>7
  <2> QED BY <1>2, <2>2, <2>3
<1>4. CASE q.type # "range"
  <2>1. Matching(q) = {k \in DOMAIN levelDb :
          /\ k[1] = Entity[q.type] /\ k[2] = Symbol
          /\ q.type = "INDEXED_VALUE" => k[3] = "BID"
          /\ 1 <= Stamp(k) /\ Stamp(k) < 3}
    BY <1>1, <1>4 DEF Matching, QueryBySymbol
  <2>2. \A k \in KeySet : Asked(q, k) <=> (k[1] = Entity[q.type] /\ 1 <= Stamp(k) /\ Stamp(k) < 3)
    BY <1>1, <1>4 DEF Asked
  <2>3. \A k \in KeySet : k[2] = Symbol /\ (k[1] = "x/event-value" => k[3] = "BID")
    BY KeyFacts
  <2> QED BY <1>2, <2>1, <2>2, <2>3, EntityIs
<1> QED BY <1>3, <1>4

\* A visitor takes what the queries of its program find.
LEMMA VisitorTakes ==
  ASSUME NEW c \in Clients, NEW q \in QueriesOf[c], NEW k \in KeySet, NEW record,
         q.type \in {"INDEXED_VALUE", "IB_MARKET_DATA", "range"},
         Asked(q, k), record.type = KeyType(k)
  PROVE  Takes(c, record)
<1>1. KeyType(k) \in DOMAIN Entity
  BY EntityIs DEF KeyType
<1>2. hdb_visitor(record)
  BY <1>1 DEF hdb_visitor, as
<1>3. ASSUME q.type = "INDEXED_VALUE"
      PROVE  record.type = "INDEXED_VALUE"
  <2>1. k[1] = "x/event-value"
    BY <1>3, EntityIs DEF Asked
  <2> QED BY <2>1 DEF KeyType
<1>4. c = "hzc" \/ c = "r" \/ c = "raptor" => q.type = "INDEXED_VALUE"
  BY QueriesAre
<1> QED BY <1>2, <1>3, <1>4 DEF Takes, hzc_main_visitor, hzc_visitor, raptor_visitor, as

-----------------------------------------------------------------------------
(* The type of the state *)

LEMMA HeadAndTail ==
  ASSUME NEW S, NEW s \in Seq(S), s # << >>
  PROVE  Head(s) \in S /\ Tail(s) \in Seq(S)
OBVIOUS

LEMMA Appended ==
  ASSUME NEW S, NEW s \in Seq(S), NEW x \in S
  PROVE  Append(s, x) \in Seq(S)
OBVIOUS

LEMMA ShapeIsType == ServiceShape => ServiceTypeOK
<1> SUFFICES ASSUME ServiceShape PROVE ServiceTypeOK
  OBVIOUS
<1>1. job.client \in Clients \cup {Nil} /\ job.id \in ResponseIds \cup {Nil}
  BY DEF ServiceShape
<1>2. ASSUME NEW c \in Clients, NEW i \in DOMAIN pull[c]
      PROVE  pull[c][i].id \in ResponseIds
  <2>1. pull[c] \in Seq(Message)
    BY DEF ServiceShape
  <2>2. pull[c][i] \in Message
    BY <2>1
  <2> QED BY <2>2 DEF Message
<1> QED BY <1>1, <1>2 DEF ServiceShape, ServiceTypeOK

LEMMA ShapeInitially == ServiceInit => ServiceShape
<1> SUFFICES ASSUME ServiceInit PROVE ServiceShape
  OBVIOUS
<1>1. IsStore(levelDb)
  <2>1. DOMAIN levelDb = {}
    BY DEF ServiceInit, Empty
  <2> QED BY <2>1, FS_EmptySet DEF IsStore
<1>2. /\ requests = << >> /\ requests \in Seq([client : Clients, query : Queries])
      /\ << >> \in Seq(Message) /\ << >> \in Seq(Body)
  BY DEF ServiceInit
<1>3. job \in [client : Clients \cup {Nil}, query : Queries \cup {Nil},
               id : ResponseIds \cup {Nil}, rest : Seq(Body)]
  BY <1>2 DEF ServiceInit, NoJob
<1>4. /\ 0 \in 0..MaxWrites /\ 0 \in 0..MaxQueries /\ 0 \in 0..MaxStarts
  BY HistorianServiceAssumption
<1> QED BY <1>1, <1>2, <1>3, <1>4 DEF ServiceInit, ServiceShape, Busy

JobSet == [client : Clients \cup {Nil}, query : Queries \cup {Nil},
           id : ResponseIds \cup {Nil}, rest : Seq(Body)]

LEMMA NoJobIsJob == NoJob \in JobSet
BY DEF NoJob, JobSet

\* What the store and the clients are not concerned with.
LEMMA HzKeepsShape ==
  ASSUME ServiceShape, StartHz \/ OpenAgain \/ Process \/ Exit
  PROVE  ServiceShape'
<1>1. CASE StartHz
  <2>1. starts' \in 0..MaxStarts
    BY <1>1, HistorianServiceAssumption DEF StartHz, ServiceShape
  <2> QED BY <1>1, <2>1 DEF StartHz, clientVars, ServiceShape, Busy
<1>2. CASE OpenAgain
  BY <1>2 DEF OpenAgain, clientVars, ServiceShape, Busy
<1>3. CASE Process
  <2>1. writes' \in 0..MaxWrites /\ writes \in Nat
    BY <1>3, HistorianServiceAssumption DEF Process, ServiceShape
  <2>2. IsStore(levelDb') /\ DOMAIN levelDb \subseteq DOMAIN levelDb'
    BY <1>3, <2>1, WritesKeepStore DEF Process, ServiceShape
  <2>3. before' \in [Clients -> SUBSET DOMAIN levelDb']
    BY <1>3, <2>2 DEF Process, clientVars, ServiceShape
  <2>4. /\ UNCHANGED <<hz, server, requests, job, reply, pull, upset, starts>>
        /\ UNCHANGED <<state, query, responseId, got, result, before, queries>>
    BY <1>3 DEF Process, clientVars
  <2>5. IsStore(levelDb)'
    BY <2>2 DEF IsStore
  <2> QED BY <2>1, <2>3, <2>4, <2>5 DEF ServiceShape, Busy
<1>4. CASE Exit
  <2>1. << >> \in Seq([client : Clients, query : Queries])
    OBVIOUS
  <2>2. upset' \in SUBSET Clients
    BY <1>4 DEF Exit, ServiceShape
  <2>3. job' \in JobSet
    BY <1>4, NoJobIsJob DEF Exit
  <2> QED BY <1>4, <2>1, <2>2, <2>3 DEF Exit, clientVars, ServiceShape, Busy, JobSet
<1> QED BY <1>1, <1>2, <1>3, <1>4

\* The request that the reactor takes.
LEMMA HeadRequest ==
  ASSUME ServiceShape, requests # << >>
  PROVE  /\ Head(requests).client \in Clients /\ Head(requests).query \in Queries
         /\ Tail(requests) \in Seq([client : Clients, query : Queries])
<1>1. requests \in Seq([client : Clients, query : Queries])
  BY DEF ServiceShape
<1>2. Head(requests) \in [client : Clients, query : Queries]
      /\ Tail(requests) \in Seq([client : Clients, query : Queries])
  BY <1>1, HeadAndTail
<1> QED BY <1>2

LEMMA JobFields ==
  ASSUME ServiceShape, Busy
  PROVE  /\ job.client \in Clients /\ job.query \in Queries /\ job.id \in ResponseIds
         /\ job.rest \in Seq(Body)
         /\ job = [client |-> job.client, query |-> job.query, id |-> job.id, rest |-> job.rest]
BY DEF ServiceShape

LEMMA NewJob ==
  ASSUME NEW c \in Clients, NEW q \in Queries, NEW i \in ResponseIds, NEW s \in Seq(Body)
  PROVE  [client |-> c, query |-> q, id |-> i, rest |-> s] \in JobSet
BY DEF JobSet

\* The records that the streamer reads.
LEMMA StreamIsRecords ==
  ASSUME ServiceShape, NEW q
  PROVE  AreRecords(Records(levelDb, Matching(q)), levelDb, Matching(q))
<1>1. Matching(q) \in SUBSET DOMAIN levelDb
  BY DEF Matching, QueryByRange, QueryBySymbol
<1> QED BY <1>1, RecordsAreSorted DEF ServiceShape

LEMMA PushKeepsShape ==
  ASSUME ServiceShape, NEW c \in Clients, NEW m \in Message, Push(c, m)
  PROVE  pull' \in [Clients -> Seq(Message)]
<1>1. pull \in [Clients -> Seq(Message)]
  BY DEF ServiceShape
<1>2. Append(pull[c], m) \in Seq(Message)
  BY <1>1
<1> QED BY <1>1, <1>2 DEF Push

LEMMA ServeKeepsShape ==
  ASSUME ServiceShape, Serve
  PROVE  ServiceShape'
<1>1. CASE RespondToGarbage
  <2>1. requests' \in Seq([client : Clients, query : Queries])
    BY <1>1, HeadRequest DEF RespondToGarbage
  <2> QED BY <1>1, <2>1 DEF RespondToGarbage, clientVars, ServiceShape, Busy
<1>2. CASE Respond
  <2>1. /\ requests' \in Seq([client : Clients, query : Queries])
        /\ Head(requests).client \in Clients /\ Head(requests).query \in Queries
    BY <1>2, HeadRequest DEF Respond
  <2>2. PICK i \in ResponseIds :
          /\ reply' = [reply EXCEPT ![Head(requests).client] = i]
          /\ job' = [client |-> Head(requests).client, query |-> Head(requests).query,
                     id |-> i, rest |-> << >>]
    BY <1>2 DEF Respond, replyDataReady
  <2>3. << >> \in Seq(Body)
    OBVIOUS
  <2>4. job' \in JobSet
    BY <2>1, <2>2, <2>3, NewJob
  <2>5. job'.client \in Clients /\ job'.query \in Queries /\ job'.id \in ResponseIds
    BY <2>1, <2>2
  <2>6. reply' \in [Clients -> ResponseIds \cup {Nil}]
    BY <2>1, <2>2 DEF ServiceShape
  <2>7. /\ UNCHANGED <<levelDb, hz, pull, upset, writes, starts>> /\ server' = "connect"
        /\ UNCHANGED <<state, query, responseId, got, result, before, queries>>
    BY <1>2 DEF Respond, clientVars
  <2>8. hz # "down"
    BY <1>2 DEF Respond, ServiceShape
  <2> QED BY <2>1, <2>4, <2>5, <2>6, <2>7, <2>8 DEF ServiceShape, JobSet
<1>3. CASE Connect
  <2>1. Busy /\ /\ UNCHANGED <<levelDb, hz, requests, reply, pull, writes, starts>>
        /\ UNCHANGED <<state, query, responseId, got, result, before, queries>>
    BY <1>3 DEF Connect, clientVars, Busy
  <2>2. PICK s : s = Records(levelDb, Matching(job.query))
    OBVIOUS
  <2>3. s \in Seq(Body) /\ << >> \in Seq(Body)
    BY <2>2, StreamIsRecords DEF AreRecords
  <2>4. CASE server' = "listen" /\ job' = NoJob /\ UNCHANGED upset
    <3>1. job' \in JobSet
      BY <2>4, NoJobIsJob
    <3> QED BY <2>1, <2>4, <3>1 DEF ServiceShape, JobSet, Busy
  <2>5. ASSUME server' = "stream", NEW t \in {<< >>, s}, job' = [job EXCEPT !.rest = t],
               upset' \in SUBSET Clients
        PROVE  ServiceShape'
    <3>1. job' \in JobSet /\ job'.client \in Clients /\ job'.query \in Queries
          /\ job'.id \in ResponseIds
      BY <2>1, <2>3, <2>5, JobFields DEF JobSet
    <3>2. hz # "down"
      BY <1>3 DEF Connect, ServiceShape
    <3> QED BY <2>1, <2>5, <3>1, <3>2 DEF ServiceShape, JobSet
  <2>6. upset \cup {job.client} \in SUBSET Clients /\ upset \in SUBSET Clients
    BY <2>1, JobFields DEF ServiceShape
  <2> QED BY <1>3, <2>2, <2>4, <2>5, <2>6 DEF Connect
<1>4. CASE SendRecord
  <2>1. Busy /\ job.rest # << >> /\ server' = server
        /\ Push(job.client, [id |-> job.id, body |-> Head(job.rest)])
        /\ job' = [job EXCEPT !.rest = Tail(job.rest)]
        /\ UNCHANGED <<levelDb, hz, requests, reply, upset, writes, starts>>
        /\ UNCHANGED <<state, query, responseId, got, result, before, queries>>
    BY <1>4 DEF SendRecord, clientVars, Busy
  <2>2. Head(job.rest) \in Body /\ Tail(job.rest) \in Seq(Body)
    BY <2>1, JobFields
  <2>3. [id |-> job.id, body |-> Head(job.rest)] \in Message
    BY <2>1, <2>2, JobFields DEF Message
  <2>4. pull' \in [Clients -> Seq(Message)]
    BY <2>1, <2>3, JobFields, PushKeepsShape
  <2>5. job' \in JobSet /\ job'.client \in Clients /\ job'.query \in Queries
        /\ job'.id \in ResponseIds
    BY <2>1, <2>2, JobFields DEF JobSet
  <2> QED BY <2>1, <2>4, <2>5 DEF ServiceShape, JobSet
<1>5. CASE SendComplete
  <2>1. Busy /\ server' = "listen" /\ job' = NoJob
        /\ Push(job.client, [id |-> job.id, body |-> Complete])
        /\ UNCHANGED <<levelDb, hz, requests, reply, upset, writes, starts>>
        /\ UNCHANGED <<state, query, responseId, got, result, before, queries>>
    BY <1>5 DEF SendComplete, clientVars, Busy
  <2>2. [id |-> job.id, body |-> Complete] \in Message
    BY <2>1, JobFields DEF Message
  <2>3. pull' \in [Clients -> Seq(Message)]
    BY <2>1, <2>2, JobFields, PushKeepsShape
  <2>4. job' \in JobSet
    BY <2>1, NoJobIsJob
  <2> QED BY <2>1, <2>3, <2>4 DEF ServiceShape, JobSet, Busy
<1> QED BY <1>1, <1>2, <1>3, <1>4, <1>5 DEF Serve

\* The message that a client takes.
LEMMA HeadMessage ==
  ASSUME ServiceShape, NEW c \in Clients, pull[c] # << >>
  PROVE  /\ Head(pull[c]) \in Message /\ Tail(pull[c]) \in Seq(Message)
         /\ Head(pull[c]).body \in Body \cup {Complete} /\ Head(pull[c]).id \in ResponseIds
<1>1. pull[c] \in Seq(Message)
  BY DEF ServiceShape
<1>2. Head(pull[c]) \in Message /\ Tail(pull[c]) \in Seq(Message)
  BY <1>1
<1> QED BY <1>2 DEF Message

LEMMA ClientKeepsShape ==
  ASSUME ServiceShape, NEW c \in Clients,
         Receive(c) \/ \E q \in QueriesOf[c] : Ask(c, q) \/ LocalQuery(c, q)
  PROVE  ServiceShape'
<1>1. CASE processQueryResponse(c)
  <2>1. /\ reply' \in [Clients -> ResponseIds \cup {Nil}]
        /\ responseId' \in [Clients -> ResponseIds \cup {Nil}]
        /\ state' \in [Clients -> {"idle", "sent", "reading"}] /\ upset' \in SUBSET Clients
        /\ result' \in [Clients -> {Nil, "complete", "error", "stopped", "refused"}]
    BY <1>1 DEF processQueryResponse, Fail, ServiceShape
  <2> QED BY <1>1, <2>1 DEF processQueryResponse, ServiceShape, Busy
<1>2. CASE processCallback(c)
  <2>1. pull' \in [Clients -> Seq(Message)]
    BY <1>2, HeadMessage DEF processCallback, ServiceShape
  <2>2. /\ state' \in [Clients -> {"idle", "sent", "reading"}]
        /\ result' \in [Clients -> {Nil, "complete", "error", "stopped", "refused"}]
    BY <1>2 DEF processCallback, Fail, ServiceShape
  <2>3. got' \in [Clients -> Seq(Body)]
    <3>1. got \in [Clients -> Seq(Body)]
      BY DEF ServiceShape
    <3>2. got' = got \/ /\ Head(pull[c]).body # Complete
                        /\ got' = [got EXCEPT ![c] = Append(got[c], Head(pull[c]).body)]
      BY <1>2 DEF processCallback
    <3>3. ASSUME NEW b \in Body PROVE Append(got[c], b) \in Seq(Body)
      BY <3>1
    <3>4. Head(pull[c]).body \in Body \cup {Complete}
      BY <1>2, HeadMessage DEF processCallback
    <3> QED BY <3>1, <3>2, <3>3, <3>4
  <2>4. UNCHANGED <<levelDb, hz, server, requests, job, reply, query, responseId, before,
                    upset, writes, queries, starts>>
    BY <1>2 DEF processCallback
  <2> QED BY <2>1, <2>2, <2>3, <2>4 DEF ServiceShape, Busy
<1>3. ASSUME NEW q \in QueriesOf[c], Ask(c, q)
      PROVE  ServiceShape'
  <2>1. q \in Queries /\ [client |-> c, query |-> q] \in [client : Clients, query : Queries]
    BY QueriesAre
  <2>2. requests' \in Seq([client : Clients, query : Queries])
    <3>1. requests \in Seq([client : Clients, query : Queries])
      BY DEF ServiceShape
    <3>2. requests' \in {requests, Append(requests, [client |-> c, query |-> q])}
      BY <1>3 DEF Ask
    <3> QED BY <2>1, <3>1, <3>2, Appended
  <2>3. /\ query' \in [Clients -> Queries \cup {Nil}]
        /\ state' \in [Clients -> {"idle", "sent", "reading"}]
        /\ result' \in [Clients -> {Nil, "complete", "error", "stopped", "refused"}]
        /\ before' \in [Clients -> SUBSET DOMAIN levelDb]
    BY <1>3, <2>1 DEF Ask, ServiceShape
  <2>4. queries' \in 0..MaxQueries
    BY <1>3, HistorianServiceAssumption DEF Ask, ServiceShape
  <2>5. got' \in [Clients -> Seq(Body)]
    BY <1>3 DEF Ask, ServiceShape
  <2>6. UNCHANGED <<levelDb, hz, server, job, reply, pull, responseId, upset, writes, starts>>
    BY <1>3 DEF Ask
  <2> QED BY <2>2, <2>3, <2>4, <2>5, <2>6 DEF ServiceShape, Busy
<1>4. ASSUME NEW q \in QueriesOf[c], LocalQuery(c, q)
      PROVE  ServiceShape'
  <2>1. q \in Queries
    BY QueriesAre
  <2>2. PICK s : s = Records(levelDb, {k \in Matching(q) : Takes(c, levelDb[k])})
    OBVIOUS
  <2>3. s \in Seq(Body)
    <3>1. {k \in Matching(q) : Takes(c, levelDb[k])} \in SUBSET DOMAIN levelDb
      BY DEF Matching, QueryByRange, QueryBySymbol
    <3> QED BY <2>2, <3>1, RecordsAreSorted DEF AreRecords, ServiceShape
  <2>4. got' \in [Clients -> Seq(Body)]
    <3>1. \A n \in 1..Len(s) : SubSeq(s, 1, n) \in Seq(Body)
      BY <2>3
    <3>2. << >> \in Seq(Body) /\ got \in [Clients -> Seq(Body)]
      BY DEF ServiceShape
    <3>3. \/ got' = [got EXCEPT ![c] = << >>] \/ got' = [got EXCEPT ![c] = s]
          \/ \E n \in 1..Len(s) : got' = [got EXCEPT ![c] = SubSeq(s, 1, n)]
      BY <1>4, <2>2 DEF LocalQuery
    <3>4. ASSUME NEW t \in Seq(Body), got' = [got EXCEPT ![c] = t]
          PROVE  got' \in [Clients -> Seq(Body)]
      BY <3>2, <3>4
    <3> QED BY <2>3, <3>1, <3>2, <3>3, <3>4
  <2>5. /\ query' \in [Clients -> Queries \cup {Nil}]
        /\ result' \in [Clients -> {Nil, "complete", "error", "stopped", "refused"}]
        /\ before' \in [Clients -> SUBSET DOMAIN levelDb]
    BY <1>4, <2>1 DEF LocalQuery, ServiceShape
  <2>6. queries' \in 0..MaxQueries
    BY <1>4, HistorianServiceAssumption DEF LocalQuery, ServiceShape
  <2>7. UNCHANGED <<levelDb, hz, server, requests, job, reply, pull, state, responseId,
                    upset, writes, starts>>
    BY <1>4 DEF LocalQuery
  <2> QED BY <2>4, <2>5, <2>6, <2>7 DEF ServiceShape, Busy
<1> QED BY <1>1, <1>2, <1>3, <1>4 DEF Receive

LEMMA ShapeKept == ServiceShape /\ [ServiceNext]_serviceVars => ServiceShape'
<1>1. ASSUME ServiceShape, UNCHANGED serviceVars PROVE ServiceShape'
  BY <1>1 DEF ServiceShape, serviceVars, Busy
<1> QED BY <1>1, HzKeepsShape, ServeKeepsShape, ClientKeepsShape DEF ServiceNext

-----------------------------------------------------------------------------
(* Requests, messages and records in sequences *)

LEMMA TailAt ==
  ASSUME NEW S, NEW s \in Seq(S), s # << >>
  PROVE  /\ 1 \in DOMAIN s /\ Head(s) = s[1] /\ Len(s) \in Nat /\ Len(Tail(s)) = Len(s) - 1
         /\ DOMAIN Tail(s) = 1 .. (Len(s) - 1) /\ DOMAIN s = 1 .. Len(s)
         /\ \A i \in DOMAIN Tail(s) : i + 1 \in DOMAIN s /\ Tail(s)[i] = s[i + 1]
OBVIOUS

LEMMA TailOfOne ==
  ASSUME NEW S, NEW s \in Seq(S), Len(s) = 1
  PROVE  Tail(s) = << >>
<1>1. s # << >>
  OBVIOUS
<1>2. PICK t : t = Tail(s)
  OBVIOUS
<1>3. t \in Seq(S) /\ Len(t) = 0
  BY <1>1, <1>2
<1>4. t = << >>
  BY <1>3
<1> QED BY <1>2, <1>4

LEMMA AppendAt ==
  ASSUME NEW S, NEW s \in Seq(S), NEW x \in S
  PROVE  /\ Len(s) \in Nat /\ DOMAIN s = 1 .. Len(s)
         /\ DOMAIN Append(s, x) = 1 .. (Len(s) + 1) /\ Len(Append(s, x)) = Len(s) + 1
         /\ \A i \in DOMAIN s : Append(s, x)[i] = s[i]
         /\ Append(s, x)[Len(s) + 1] = x
OBVIOUS

LEMMA RequestTaken ==
  ASSUME NEW S, NEW R \in Seq(S), R # << >>, NEW c
  PROVE  /\ NoRequest(R, c) => NoRequest(Tail(R), c) /\ Head(R).client # c
         /\ \A q : OneRequest(R, c, q) => OneRequest(Tail(R), c, q)
         /\ \A q : OneRequest(R, c, q) /\ Head(R).client = c =>
              NoRequest(Tail(R), c) /\ Head(R).query = q
<1>1. /\ 1 \in DOMAIN R /\ Head(R) = R[1]
      /\ \A i \in DOMAIN Tail(R) : i + 1 \in DOMAIN R /\ Tail(R)[i] = R[i + 1]
      /\ \A i \in DOMAIN Tail(R) : i \in Nat /\ i # 0
  BY TailAt
<1>2. NoRequest(R, c) => NoRequest(Tail(R), c) /\ Head(R).client # c
  BY <1>1 DEF NoRequest
<1>3. ASSUME NEW q, OneRequest(R, c, q)
      PROVE  OneRequest(Tail(R), c, q)
  <2> SUFFICES ASSUME NEW i \in DOMAIN Tail(R), Tail(R)[i].client = c
      PROVE  Tail(R)[i].query = q /\ \A j \in DOMAIN Tail(R) : Tail(R)[j].client = c => i = j
    BY DEF OneRequest
  <2>1. R[i + 1].query = q /\ \A j \in DOMAIN R : R[j].client = c => i + 1 = j
    BY <1>1, <1>3 DEF OneRequest
  <2>2. \A j \in DOMAIN Tail(R) : Tail(R)[j].client = c => i + 1 = j + 1
    BY <1>1, <2>1
  <2>3. \A j \in DOMAIN Tail(R) : i + 1 = j + 1 => i = j
    BY <1>1
  <2> QED BY <1>1, <2>1, <2>2, <2>3
<1>4. ASSUME NEW q, OneRequest(R, c, q), Head(R).client = c
      PROVE  NoRequest(Tail(R), c) /\ Head(R).query = q
  <2>1. R[1].query = q /\ \A j \in DOMAIN R : R[j].client = c => 1 = j
    BY <1>1, <1>4 DEF OneRequest
  <2>2. \A i \in DOMAIN Tail(R) : i + 1 # 1
    BY <1>1
  <2> QED BY <1>1, <2>1, <2>2 DEF NoRequest
<1> QED BY <1>2, <1>3, <1>4

LEMMA RequestAdded ==
  ASSUME NEW S, NEW R \in Seq(S), NEW m \in S, NEW c
  PROVE  /\ m.client # c => /\ NoRequest(R, c) => NoRequest(Append(R, m), c)
                            /\ \A q : OneRequest(R, c, q) => OneRequest(Append(R, m), c, q)
         /\ m.client = c /\ NoRequest(R, c) => OneRequest(Append(R, m), c, m.query)
<1>1. /\ Len(R) \in Nat /\ DOMAIN R = 1 .. Len(R)
      /\ DOMAIN Append(R, m) = 1 .. (Len(R) + 1)
      /\ \A i \in DOMAIN R : Append(R, m)[i] = R[i]
      /\ Append(R, m)[Len(R) + 1] = m
  BY AppendAt
<1>2. \A i \in DOMAIN Append(R, m) : i \in DOMAIN R \/ i = Len(R) + 1
  BY <1>1
<1> QED BY <1>1, <1>2 DEF NoRequest, OneRequest

\* A record is not the last message.
LEMMA RecordIsNotComplete ==
  ASSUME NEW b \in Body
  PROVE  b # Complete
<1>1. DOMAIN b = {"key", "record"}
  BY DEF Body
<1>2. DOMAIN Complete = {"code"}
  BY DEF Complete
<1> QED BY <1>1, <1>2

LEMMA HeldAt ==
  ASSUME NEW p
  PROVE  /\ DOMAIN Held(p) = {n \in DOMAIN p : p[n].body # Complete}
         /\ \A i \in DOMAIN Held(p) : Held(p)[i] = p[i].body
BY DEF Held

\* The streamer sends a record.
LEMMA RecordSent ==
  ASSUME NEW g, NEW p \in Seq(Message), NEW r \in Seq(Body), r # << >>, NEW m \in Message,
         m.body = Head(r), NEW q, NEW keys, NEW was, Delivery(g, Held(p), r, q, keys, was)
  PROVE  Delivery(g, Held(Append(p, m)), Tail(r), q, keys, was)
<1>1. /\ Len(p) \in Nat /\ DOMAIN p = 1 .. Len(p)
      /\ DOMAIN Append(p, m) = 1 .. (Len(p) + 1)
      /\ \A i \in DOMAIN p : Append(p, m)[i] = p[i]
      /\ Append(p, m)[Len(p) + 1] = m
  BY AppendAt
<1>2. /\ 1 \in DOMAIN r /\ Head(r) = r[1] /\ DOMAIN r = 1 .. Len(r) /\ Len(r) \in Nat
      /\ DOMAIN Tail(r) = 1 .. (Len(r) - 1)
      /\ \A i \in DOMAIN Tail(r) : i + 1 \in DOMAIN r /\ Tail(r)[i] = r[i + 1]
  BY TailAt
<1>3. m.body # Complete
  BY <1>2, RecordIsNotComplete
<1>4. PICK h, k, t : h = Held(p) /\ k = Held(Append(p, m)) /\ t = Tail(r)
  OBVIOUS
<1>5. /\ DOMAIN k = DOMAIN h \cup {Len(p) + 1}
      /\ \A i \in DOMAIN h : k[i] = h[i] /\ i \in Nat /\ i < Len(p) + 1
      /\ k[Len(p) + 1] = r[1]
  <2>1. DOMAIN h = {n \in DOMAIN p : p[n].body # Complete}
        /\ \A i \in DOMAIN h : h[i] = p[i].body
    BY <1>4, HeldAt
  <2>2. DOMAIN k = {n \in DOMAIN Append(p, m) : Append(p, m)[n].body # Complete}
        /\ \A i \in DOMAIN k : k[i] = Append(p, m)[i].body
    BY <1>4, HeldAt
  <2>3. DOMAIN k = DOMAIN h \cup {Len(p) + 1}
    BY <1>1, <1>3, <2>1, <2>2
  <2>4. \A i \in DOMAIN h : i \in DOMAIN p /\ i \in Nat /\ i < Len(p) + 1
    BY <1>1, <2>1
  <2>5. \A i \in DOMAIN h : k[i] = h[i]
    BY <1>1, <2>1, <2>2, <2>3, <2>4
  <2>6. k[Len(p) + 1] = m.body
    BY <1>1, <2>2, <2>3
  <2> QED BY <1>2, <2>3, <2>4, <2>5, <2>6
<1>6. /\ \A i \in DOMAIN t : i + 1 \in DOMAIN r /\ i \in Nat /\ 1 < i + 1 /\ t[i] = r[i + 1]
      /\ \A i \in DOMAIN r : i = 1 \/ (i - 1 \in DOMAIN t /\ r[i] = t[i - 1])
  BY <1>2, <1>4
<1>7. /\ InKeyOrder(g, q, keys) /\ InKeyOrder(h, q, keys) /\ InKeyOrder(r, q, keys)
      /\ Follow(g, h) /\ Follow(g, r) /\ Follow(h, r)
      /\ \A x \in was : Asked(q, x) => x \in KeysOf(g) \cup KeysOf(h) \cup KeysOf(r)
      /\ q.type \in {"INDEXED_VALUE", "IB_MARKET_DATA", "range"}
  BY <1>4 DEF Delivery
<1>8. InKeyOrder(k, q, keys)
  BY <1>1, <1>2, <1>5, <1>7 DEF InKeyOrder, Follow
<1>9. InKeyOrder(t, q, keys)
  BY <1>2, <1>6, <1>7 DEF InKeyOrder
<1>10. Follow(g, k) /\ Follow(g, t)
  BY <1>2, <1>5, <1>6, <1>7 DEF Follow
<1>11. Follow(k, t)
  BY <1>2, <1>5, <1>6, <1>7 DEF Follow, InKeyOrder
<1>12. KeysOf(h) \subseteq KeysOf(k)
  BY <1>5 DEF KeysOf
<1>13. KeysOf(r) \subseteq KeysOf(k) \cup KeysOf(t)
  BY <1>2, <1>5, <1>6 DEF KeysOf
<1> QED BY <1>4, <1>7, <1>8, <1>9, <1>10, <1>11, <1>12, <1>13 DEF Delivery

\* The streamer sends the last message.
LEMMA CompleteSent ==
  ASSUME NEW p \in Seq(Message), NEW m \in Message, m.body = Complete
  PROVE  Held(Append(p, m)) = Held(p)
<1>1. /\ Len(p) \in Nat /\ DOMAIN p = 1 .. Len(p)
      /\ DOMAIN Append(p, m) = 1 .. (Len(p) + 1)
      /\ \A i \in DOMAIN p : Append(p, m)[i] = p[i]
      /\ Append(p, m)[Len(p) + 1] = m
  BY AppendAt
<1>2. {n \in DOMAIN Append(p, m) : Append(p, m)[n].body # Complete}
        = {n \in DOMAIN p : p[n].body # Complete}
  BY <1>1
<1> QED BY <1>1, <1>2 DEF Held

\* The client takes a record.
LEMMA RecordTaken ==
  ASSUME NEW g \in Seq(Body), NEW p \in Seq(Message), p # << >>, Head(p).body \in Body,
         NEW r, NEW q, NEW keys, NEW was, Delivery(g, Held(p), r, q, keys, was)
  PROVE  Delivery(Append(g, Head(p).body), Held(Tail(p)), r, q, keys, was)
<1>1. PICK b : b = Head(p).body /\ b \in Body
  OBVIOUS
<1>2. /\ Len(g) \in Nat /\ DOMAIN g = 1 .. Len(g)
      /\ DOMAIN Append(g, b) = 1 .. (Len(g) + 1)
      /\ \A i \in DOMAIN g : Append(g, b)[i] = g[i]
      /\ Append(g, b)[Len(g) + 1] = b
  BY <1>1, AppendAt
<1>3. /\ 1 \in DOMAIN p /\ Head(p) = p[1] /\ DOMAIN p = 1 .. Len(p) /\ Len(p) \in Nat
      /\ DOMAIN Tail(p) = 1 .. (Len(p) - 1)
      /\ \A i \in DOMAIN Tail(p) : i + 1 \in DOMAIN p /\ Tail(p)[i] = p[i + 1]
  BY TailAt
<1>4. PICK h, t, f : h = Held(p) /\ t = Held(Tail(p)) /\ f = Append(g, b)
  OBVIOUS
<1>5. 1 \in DOMAIN h /\ h[1] = b
  <2>1. b # Complete
    BY <1>1, RecordIsNotComplete
  <2>2. /\ DOMAIN h = {n \in DOMAIN p : p[n].body # Complete}
        /\ \A i \in DOMAIN h : h[i] = p[i].body
    BY <1>4, HeldAt
  <2> QED BY <1>1, <1>3, <2>1, <2>2
<1>6. /\ \A i \in DOMAIN t : i + 1 \in DOMAIN h /\ i \in Nat /\ 1 < i + 1 /\ t[i] = h[i + 1]
      /\ \A i \in DOMAIN h : i = 1 \/ (i - 1 \in DOMAIN t /\ h[i] = t[i - 1])
  <2>1. DOMAIN h = {n \in DOMAIN p : p[n].body # Complete}
        /\ \A i \in DOMAIN h : h[i] = p[i].body
    BY <1>4, HeldAt
  <2>2. DOMAIN t = {n \in DOMAIN Tail(p) : Tail(p)[n].body # Complete}
        /\ \A i \in DOMAIN t : t[i] = Tail(p)[i].body
    BY <1>4, HeldAt
  <2>3. \A i \in DOMAIN p : i = 1 \/ (i - 1 \in DOMAIN Tail(p) /\ Tail(p)[i - 1] = p[i])
    BY <1>3
  <2>4. \A i \in DOMAIN Tail(p) : i \in Nat /\ 1 < i + 1
    BY <1>3
  <2> QED BY <1>3, <2>1, <2>2, <2>3, <2>4
<1>7. /\ InKeyOrder(g, q, keys) /\ InKeyOrder(h, q, keys) /\ InKeyOrder(r, q, keys)
      /\ Follow(g, h) /\ Follow(g, r) /\ Follow(h, r)
      /\ \A x \in was : Asked(q, x) => x \in KeysOf(g) \cup KeysOf(h) \cup KeysOf(r)
      /\ q.type \in {"INDEXED_VALUE", "IB_MARKET_DATA", "range"}
  BY <1>4 DEF Delivery
<1>8. \A i \in DOMAIN f : (i \in DOMAIN g /\ f[i] = g[i]) \/ (i = Len(g) + 1 /\ f[i] = b)
  BY <1>2, <1>4
<1>9. InKeyOrder(f, q, keys)
  <2>1. \A i, j \in DOMAIN f : i < j => i \in DOMAIN g
    BY <1>2, <1>4
  <2> QED BY <1>5, <1>7, <1>8, <2>1 DEF InKeyOrder, Follow
<1>10. InKeyOrder(t, q, keys)
  <2>1. \A i, j \in DOMAIN t : i < j => i + 1 < j + 1
    BY <1>6
  <2> QED BY <1>6, <1>7, <2>1 DEF InKeyOrder
<1>11. Follow(f, t)
  BY <1>5, <1>6, <1>7, <1>8 DEF Follow, InKeyOrder
<1>12. Follow(f, r) /\ Follow(t, r)
  BY <1>5, <1>6, <1>7, <1>8 DEF Follow
<1>13. KeysOf(g) \subseteq KeysOf(f)
  BY <1>2, <1>4 DEF KeysOf
<1>14. KeysOf(h) \subseteq KeysOf(f) \cup KeysOf(t)
  <2> SUFFICES ASSUME NEW i \in DOMAIN h
      PROVE  h[i].key \in KeysOf(f) \cup KeysOf(t)
    BY DEF KeysOf
  <2>1. CASE i = 1
    <3>1. Len(g) + 1 \in DOMAIN f /\ f[Len(g) + 1] = b
      BY <1>2, <1>4
    <3> QED BY <1>5, <2>1, <3>1 DEF KeysOf
  <2>2. CASE i - 1 \in DOMAIN t /\ h[i] = t[i - 1]
    BY <2>2 DEF KeysOf
  <2> QED BY <1>6, <2>1, <2>2
<1> QED BY <1>1, <1>4, <1>7, <1>9, <1>10, <1>11, <1>12, <1>13, <1>14 DEF Delivery

\* The store grows.
LEMMA DeliveryGrows ==
  ASSUME NEW g, NEW h, NEW r, NEW q, NEW keys, NEW was, NEW more,
         Delivery(g, h, r, q, keys, was), keys \subseteq more
  PROVE  Delivery(g, h, r, q, more, was)
BY DEF Delivery, InKeyOrder

\* The records of a query, from the start.
LEMMA DeliveryStarts ==
  ASSUME NEW s, NEW store, IsStore(store), NEW q \in Questions,
         AreRecords(s, store, {k \in DOMAIN store : Asked(q, k)}), NEW was \in SUBSET DOMAIN store
  PROVE  /\ Delivery(<< >>, << >>, s, q, DOMAIN store, was)
         /\ Delivery(s, << >>, << >>, q, DOMAIN store, was)
<1>1. q.type \in {"INDEXED_VALUE", "IB_MARKET_DATA", "range"}
  BY DEF Questions, Asks
<1>2. InKeyOrder(s, q, DOMAIN store)
  BY DEF InKeyOrder, AreRecords, IsStore
<1>3. \A k \in was : Asked(q, k) => k \in KeysOf(s)
  BY DEF AreRecords
<1>4. DOMAIN << >> = {}
  OBVIOUS
<1>5. /\ InKeyOrder(<< >>, q, DOMAIN store)
      /\ Follow(<< >>, s) /\ Follow(s, << >>) /\ Follow(<< >>, << >>)
  BY <1>4 DEF InKeyOrder, Follow
<1> QED BY <1>1, <1>2, <1>3, <1>5 DEF Delivery

-----------------------------------------------------------------------------
(* What a step does to a client that is not upset *)

\* Nothing of c but its requests changes.
Undisturbed(c) ==
  /\ state'[c] = state[c] /\ query'[c] = query[c]
  /\ responseId'[c] = responseId[c] /\ reply'[c] = reply[c]
  /\ pull'[c] = pull[c] /\ got'[c] = got[c] /\ result'[c] = result[c] /\ before'[c] = before[c]
  /\ Working(c)' <=> Working(c)
  /\ Working(c) => job' = job /\ server' = server
  /\ DOMAIN levelDb \subseteq DOMAIN levelDb'

\* The request of c stays where it is, or there is none.
StillAsks(c) ==
  /\ NoRequest(requests, c) => NoRequest(requests', c)
  /\ OneRequest(requests, c, query[c]) => OneRequest(requests', c, query[c])

LEMMA UndisturbedWay ==
  ASSUME NEW c, Way(c), Undisturbed(c), StillAsks(c)
  PROVE  Way(c)'
<1>1. PullIs(c)'
  BY DEF Way, PullIs, Expects, Undisturbed
<1>2. NoRequest(requests, c)' \/ Waiting(c)'
  BY DEF Way, Waiting, Undisturbed, StillAsks
<1>3. Working(c)' => /\ job'.query = query'[c] /\ query'[c].type # "garbage"
                     /\ job'.id = Expects(c)'
                     /\ server' = "connect" => pull'[c] = << >> /\ got'[c] = << >>
  BY DEF Way, Expects, Undisturbed
<1> QED BY <1>1, <1>2, <1>3 DEF Way, Undisturbed, StillAsks

LEMMA UndisturbedStream ==
  ASSUME NEW c, Stream(c), Undisturbed(c)
  PROVE  Stream(c)'
<1>1. Streaming(c)' <=> Streaming(c)
  BY DEF Undisturbed, Streaming
<1>2. Coming(c)' = Coming(c)
  BY <1>1 DEF Coming, Undisturbed, Streaming
<1> SUFFICES ASSUME Streaming(c) \/ pull[c] # << >> \/ result[c] = "complete"
    PROVE  Delivery(got'[c], Held(pull'[c]), Coming(c)', query'[c], DOMAIN levelDb', before'[c])
  BY <1>1 DEF Stream, Undisturbed
<1>3. Delivery(got[c], Held(pull[c]), Coming(c), query[c], DOMAIN levelDb, before[c])
  BY DEF Stream
<1>4. Delivery(got[c], Held(pull[c]), Coming(c), query[c], DOMAIN levelDb', before[c])
  BY <1>3, DeliveryGrows DEF Undisturbed
<1> QED BY <1>2, <1>4 DEF Undisturbed

HandledWell(c) == Way(c) /\ Stream(c)

LEMMA Bystander ==
  ASSUME NEW c, HandledWell(c), Undisturbed(c), StillAsks(c)
  PROVE  HandledWell(c)'
BY UndisturbedWay, UndisturbedStream DEF HandledWell

LEMMA HzHandlesWell ==
  ASSUME ServiceShape, ServiceShape', NEW c \in Clients, c \notin upset', HandledWell(c),
         StartHz \/ OpenAgain \/ Process \/ Exit
  PROVE  HandledWell(c)'
<1>1. CASE StartHz
  <2>1. Undisturbed(c) /\ StillAsks(c)
    BY <1>1 DEF StartHz, clientVars, ServiceShape, Undisturbed, StillAsks, Working, Busy
  <2> QED BY <2>1, Bystander
<1>2. CASE OpenAgain
  <2>1. Undisturbed(c) /\ StillAsks(c)
    BY <1>2 DEF OpenAgain, clientVars, Undisturbed, StillAsks, Working, Busy
  <2> QED BY <2>1, Bystander
<1>3. CASE Process
  <2>1. DOMAIN levelDb \subseteq DOMAIN levelDb'
    <3>1. writes \in Nat
      BY DEF ServiceShape
    <3> QED BY <1>3, <3>1, WritesKeepStore DEF Process, ServiceShape
  <2>2. /\ UNCHANGED <<hz, server, requests, job, reply, pull>>
        /\ UNCHANGED <<state, query, responseId, got, result, before>>
    BY <1>3 DEF Process, clientVars
  <2>3. Undisturbed(c) /\ StillAsks(c)
    BY <2>1, <2>2 DEF Undisturbed, StillAsks, Working, Busy
  <2> QED BY <2>3, Bystander
<1>4. CASE Exit
  <2>1. state[c] = "idle" /\ requests' = << >> /\ server' = "stopped"
        /\ UNCHANGED <<levelDb, reply, pull>>
        /\ UNCHANGED <<state, query, responseId, got, result, before>>
    BY <1>4 DEF Exit, clientVars
  <2>2. ~ Working(c) /\ ~ Working(c)'
    BY <2>1 DEF HandledWell, Way, Working, Busy
  <2>3. Undisturbed(c)
    BY <2>1, <2>2 DEF Undisturbed
  <2>4. StillAsks(c)
    BY <2>1 DEF StillAsks, NoRequest, OneRequest
  <2> QED BY <2>3, <2>4, Bystander
<1> QED BY <1>1, <1>2, <1>3, <1>4

\* The reactor takes a request.
LEMMA RespondHandlesWell ==
  ASSUME ServiceShape, ServiceShape', NEW c \in Clients, c \notin upset', HandledWell(c),
         RespondToGarbage \/ Respond
  PROVE  HandledWell(c)'
<1>1. /\ server = "listen" /\ requests # << >> /\ requests' = Tail(requests)
      /\ UNCHANGED <<levelDb, pull>>
      /\ UNCHANGED <<state, query, responseId, got, result, before>>
  BY DEF RespondToGarbage, Respond, clientVars
<1>2. /\ NoRequest(requests, c) => NoRequest(requests', c) /\ Head(requests).client # c
      /\ \A q : OneRequest(requests, c, q) => OneRequest(requests', c, q)
      /\ \A q : OneRequest(requests, c, q) /\ Head(requests).client = c =>
           NoRequest(requests', c) /\ Head(requests).query = q
  BY <1>1, RequestTaken DEF ServiceShape
<1>3. StillAsks(c)
  BY <1>2 DEF StillAsks
<1>4. ~ Working(c)
  BY <1>1 DEF Working, Busy
<1>5. CASE Head(requests).client # c
  <2>1. ~ Working(c)' /\ reply'[c] = reply[c]
    <3>1. CASE RespondToGarbage
      BY <3>1 DEF RespondToGarbage, Working, Busy
    <3>2. CASE Respond
      BY <1>5, <3>2 DEF Respond, replyDataReady, Working, ServiceShape
    <3> QED BY <3>1, <3>2
  <2>2. Undisturbed(c)
    BY <1>1, <1>4, <2>1 DEF Undisturbed
  <2> QED BY <1>3, <2>2, Bystander
<1>6. CASE Head(requests).client = c
  <2>1. /\ OneRequest(requests, c, query[c]) /\ state[c] = "sent" /\ reply[c] = Nil
        /\ pull[c] = << >> /\ got[c] = << >>
        /\ query[c] \in QueriesOf[c] /\ query[c].type # "none" /\ result[c] = Nil
    BY <1>2, <1>6 DEF HandledWell, Way, Waiting
  <2>2. NoRequest(requests', c) /\ Head(requests).query = query[c]
    BY <1>2, <1>6, <2>1
  <2>3. Stream(c)'
    <3>1. server' # "stream"
      BY DEF RespondToGarbage, Respond
    <3>2. result'[c] # "complete" /\ pull'[c] = << >>
      BY <1>1, <2>1, HistorianServiceAssumption
    <3> QED BY <3>1, <3>2 DEF Stream, Streaming
  <2>4. PullIs(c)'
    BY <1>1, <2>1 DEF PullIs
  <2>5. CASE RespondToGarbage
    <3>1. ~ Working(c)' /\ reply'[c] = Nil
      BY <2>1, <2>5 DEF RespondToGarbage, Working, Busy
    <3>2. Way(c)'
      BY <1>1, <2>1, <2>2, <2>4, <3>1 DEF HandledWell, Way
    <3> QED BY <2>3, <3>2 DEF HandledWell
  <2>6. CASE Respond
    <3>1. PICK i \in ResponseIds :
            /\ reply' = [reply EXCEPT ![c] = i]
            /\ job' = [client |-> c, query |-> Head(requests).query, id |-> i, rest |-> << >>]
      BY <1>6, <2>6 DEF Respond, replyDataReady
    <3>2. reply'[c] = i
      BY <3>1 DEF ServiceShape
    <3>3. job'.query = query[c] /\ job'.id = i /\ server' = "connect" /\ query[c].type # "garbage"
      BY <2>2, <2>6, <3>1 DEF Respond
    <3>4. Expects(c)' = i
      BY <1>1, <2>1, <3>2 DEF Expects
    <3>5. Way(c)'
      BY <1>1, <2>1, <2>2, <2>4, <3>3, <3>4 DEF HandledWell, Way
    <3> QED BY <2>3, <3>5 DEF HandledWell
  <2> QED BY <2>5, <2>6
<1> QED BY <1>5, <1>6

\* The reactor works for somebody else.
LEMMA WorksForOther ==
  ASSUME ServiceShape, NEW c \in Clients, HandledWell(c), Connect \/ SendRecord \/ SendComplete,
         job.client # c
  PROVE  HandledWell(c)'
<1>1. Busy /\ UNCHANGED <<levelDb, requests, reply>>
      /\ UNCHANGED <<state, query, responseId, got, result, before>>
  BY DEF Connect, SendRecord, SendComplete, clientVars, Busy
<1>2. job.client \in Clients
  BY <1>1, JobFields
<1>3. pull'[c] = pull[c]
  BY <1>2 DEF Connect, SendRecord, SendComplete, Push, ServiceShape
<1>4. ~ Working(c)
  BY DEF Working
<1>5. ~ Working(c)'
  <2>1. server' = "listen" \/ job'.client = job.client
    BY <1>1, JobFields DEF Connect, SendRecord, SendComplete
  <2> QED BY <2>1 DEF Working, Busy
<1>6. Undisturbed(c)
  BY <1>1, <1>3, <1>4, <1>5 DEF Undisturbed
<1>7. StillAsks(c)
  BY <1>1 DEF StillAsks
<1> QED BY <1>6, <1>7, Bystander

\* The reactor works for c.
LEMMA ConnectHandlesWell ==
  ASSUME ServiceShape, NEW c \in Clients, c \notin upset', HandledWell(c), Connect, job.client = c
  PROVE  HandledWell(c)'
<1>1. /\ Busy /\ Working(c) /\ server = "connect"
      /\ UNCHANGED <<levelDb, requests, reply, pull>>
      /\ UNCHANGED <<state, query, responseId, got, result, before>>
  BY DEF Connect, clientVars, Busy, Working
<1>2. /\ pull[c] = << >> /\ got[c] = << >> /\ job.query = query[c] /\ query[c].type # "garbage"
      /\ job.id = Expects(c) /\ state[c] # "idle"
      /\ result[c] = Nil /\ query[c] \in QueriesOf[c] /\ query[c].type # "none"
      /\ NoRequest(requests, c) /\ c \notin Local
  BY <1>1 DEF HandledWell, Way, Waiting
<1>3. PullIs(c)'
  BY <1>1, <1>2 DEF PullIs
<1>4. Expects(c)' = Expects(c)
  BY <1>1 DEF Expects
<1>5. CASE server' = "listen" /\ job' = NoJob
  <2>1. ~ Working(c)'
    BY <1>5 DEF Working, Busy
  <2>2. Way(c)'
    BY <1>1, <1>2, <1>3, <2>1 DEF HandledWell, Way
  <2>3. Stream(c)'
    BY <1>1, <1>2, <2>1, HistorianServiceAssumption DEF Stream, Streaming
  <2> QED BY <2>2, <2>3 DEF HandledWell
<1>6. CASE server' = "stream" /\ hz # "null"
           /\ job' = [job EXCEPT !.rest = Records(levelDb, Matching(job.query))]
  <2>1. job'.query = job.query /\ job'.id = job.id /\ job'.client = c
        /\ job'.rest = Records(levelDb, Matching(job.query))
    BY <1>1, <1>6, JobFields
  <2>2. Way(c)'
    BY <1>1, <1>2, <1>3, <1>4, <1>6, <2>1 DEF HandledWell, Way
  <2>3. query[c] \in Questions
    BY <1>2, QueriesAre
  <2>4. AreRecords(job'.rest, levelDb, {k \in DOMAIN levelDb : Asked(query[c], k)})
    <3>1. Matching(query[c]) = {k \in DOMAIN levelDb : Asked(query[c], k)}
      BY <2>3, MatchingIs DEF ServiceShape
    <3>2. AreRecords(Records(levelDb, Matching(query[c])), levelDb, Matching(query[c]))
      BY StreamIsRecords
    <3> QED BY <1>2, <2>1, <3>1, <3>2
  <2>5. before[c] \in SUBSET DOMAIN levelDb /\ IsStore(levelDb)
    BY DEF ServiceShape
  <2>6. Delivery(<< >>, << >>, job'.rest, query[c], DOMAIN levelDb, before[c])
    BY <2>3, <2>4, <2>5, DeliveryStarts
  <2>7. Coming(c)' = job'.rest
    BY <1>6, <2>1 DEF Coming, Streaming, Working, Busy
  <2>8. Held(<< >>) = << >>
    BY DEF Held
  <2>9. Delivery(got'[c], Held(pull'[c]), Coming(c)', query'[c], DOMAIN levelDb', before'[c])
    BY <1>1, <1>2, <2>6, <2>7, <2>8
  <2>10. Stream(c)'
    BY <2>9 DEF Stream
  <2> QED BY <2>2, <2>10 DEF HandledWell
<1>7. hz # "null" \/ (server' = "listen" /\ job' = NoJob)
  BY DEF Connect
<1> QED BY <1>5, <1>6, <1>7 DEF Connect

LEMMA SendHandlesWell ==
  ASSUME ServiceShape, NEW c \in Clients, HandledWell(c), SendRecord \/ SendComplete,
         job.client = c
  PROVE  HandledWell(c)'
<1>1. /\ Busy /\ Working(c) /\ Streaming(c) /\ server = "stream"
      /\ UNCHANGED <<levelDb, requests, reply>>
      /\ UNCHANGED <<state, query, responseId, got, result, before>>
  BY DEF SendRecord, SendComplete, clientVars, Busy, Working, Streaming
<1>2. /\ job.query = query[c] /\ query[c].type # "garbage"
      /\ job.id = Expects(c) /\ state[c] # "idle"
      /\ result[c] = Nil /\ query[c] \in QueriesOf[c] /\ query[c].type # "none"
      /\ NoRequest(requests, c)
      /\ state[c] = "sent" => got[c] = << >>
      /\ state[c] = "reading" => reply[c] = Nil
      /\ c \notin Local
  BY <1>1 DEF HandledWell, Way, Waiting
<1>3. Delivery(got[c], Held(pull[c]), job.rest, query[c], DOMAIN levelDb, before[c])
  BY <1>1 DEF HandledWell, Stream, Coming
<1>4. Expects(c)' = Expects(c)
  BY <1>1 DEF Expects
<1>5. pull[c] \in Seq(Message) /\ pull \in [Clients -> Seq(Message)] /\ job.rest \in Seq(Body)
  BY <1>1, JobFields DEF ServiceShape
<1>6. result[c] # "complete" /\ result[c] # "error"
  BY <1>2, HistorianServiceAssumption
<1>7. ASSUME NEW m \in Message, m.id = job.id, Push(c, m), m.body = Complete => ~ Working(c)'
      PROVE  PullIs(c)' /\ pull'[c] = Append(pull[c], m)
  <2>1. pull'[c] = Append(pull[c], m)
    BY <1>5, <1>7 DEF Push
  <2>2. /\ Len(pull[c]) \in Nat /\ DOMAIN pull[c] = 1 .. Len(pull[c])
        /\ DOMAIN pull'[c] = 1 .. (Len(pull[c]) + 1) /\ Len(pull'[c]) = Len(pull[c]) + 1
        /\ \A i \in DOMAIN pull[c] : pull'[c][i] = pull[c][i]
        /\ pull'[c][Len(pull[c]) + 1] = m
    BY <1>5, <2>1, AppendAt
  <2>3. \A i \in DOMAIN pull[c] : pull[c][i].id = Expects(c) /\ pull[c][i].body # Complete
    BY <1>1 DEF HandledWell, Way, PullIs
  <2>4. \A i \in DOMAIN pull'[c] : i \in DOMAIN pull[c] \/ i = Len(pull'[c])
    BY <2>2
  <2>5. ASSUME NEW i \in DOMAIN pull'[c]
        PROVE  /\ pull'[c][i].id = Expects(c)'
               /\ pull'[c][i].body = Complete => i = Len(pull'[c]) /\ ~ Working(c)'
    <3>1. CASE i \in DOMAIN pull[c]
      BY <1>4, <2>2, <2>3, <3>1
    <3>2. CASE i = Len(pull'[c])
      BY <1>2, <1>4, <1>7, <2>2, <3>2
    <3> QED BY <2>4, <3>1, <3>2
  <2> QED BY <2>1, <2>5 DEF PullIs
<1>8. CASE SendRecord
  <2>1. /\ job.rest # << >> /\ server' = server
        /\ Push(c, [id |-> job.id, body |-> Head(job.rest)])
        /\ job' = [job EXCEPT !.rest = Tail(job.rest)]
    BY <1>8 DEF SendRecord
  <2>2. /\ job'.client = c /\ job'.query = job.query /\ job'.id = job.id
        /\ job'.rest = Tail(job.rest)
    BY <1>1, <2>1, JobFields
  <2>3. PICK m : m = [id |-> job.id, body |-> Head(job.rest)]
    OBVIOUS
  <2>4. Head(job.rest) \in Body
    BY <1>5, <2>1, HeadAndTail
  <2>5. m \in Message /\ m.body = Head(job.rest) /\ m.id = job.id /\ m.body # Complete
    BY <1>1, <2>3, <2>4, JobFields, RecordIsNotComplete DEF Message
  <2>6. PullIs(c)' /\ pull'[c] = Append(pull[c], m)
    BY <1>7, <2>1, <2>3, <2>5
  <2>7. Working(c)' /\ Streaming(c)' /\ Coming(c)' = Tail(job.rest)
    BY <1>1, <2>1, <2>2 DEF Working, Busy, Streaming, Coming
  <2>8. Way(c)'
    BY <1>1, <1>2, <1>4, <1>6, <2>1, <2>2, <2>6 DEF Way
  <2>9. Delivery(got[c], Held(Append(pull[c], m)), Tail(job.rest), query[c], DOMAIN levelDb,
                 before[c])
    BY <1>3, <1>5, <2>1, <2>5, RecordSent
  <2>10. Stream(c)'
    BY <1>1, <2>6, <2>7, <2>9 DEF Stream
  <2> QED BY <2>8, <2>10 DEF HandledWell
<1>9. CASE SendComplete
  <2>1. job.rest = << >> /\ server' = "listen" /\ Push(c, [id |-> job.id, body |-> Complete])
    BY <1>9 DEF SendComplete
  <2>2. ~ Working(c)' /\ Coming(c)' = << >>
    BY <2>1 DEF Working, Busy, Coming, Streaming
  <2>3. PICK m : m = [id |-> job.id, body |-> Complete]
    OBVIOUS
  <2>4. m \in Message /\ m.body = Complete /\ m.id = job.id
    BY <1>1, <2>3, JobFields DEF Message
  <2>5. PullIs(c)' /\ pull'[c] = Append(pull[c], m)
    BY <1>7, <2>1, <2>2, <2>3, <2>4
  <2>6. Way(c)'
    BY <1>1, <1>2, <1>6, <2>2, <2>5 DEF Way
  <2>7. Held(pull'[c]) = Held(pull[c])
    BY <1>5, <2>4, <2>5, CompleteSent
  <2>8. Stream(c)'
    BY <1>1, <1>3, <2>1, <2>2, <2>7 DEF Stream
  <2> QED BY <2>6, <2>8 DEF HandledWell
<1> QED BY <1>8, <1>9

\* What another client does.
LEMMA OthersHandleWell ==
  ASSUME ServiceShape, NEW c \in Clients, HandledWell(c), NEW d \in Clients, d # c,
         Receive(d) \/ \E q \in QueriesOf[d] : Ask(d, q) \/ LocalQuery(d, q)
  PROVE  HandledWell(c)'
<1>1. UNCHANGED <<server, job, levelDb>>
  BY DEF Receive, processQueryResponse, processCallback, Ask, LocalQuery
<1>2. state'[c] = state[c] /\ result'[c] = result[c]
  <2>1. CASE processQueryResponse(d)
    BY <2>1 DEF processQueryResponse, Fail, ServiceShape
  <2>2. CASE processCallback(d)
    BY <2>2 DEF processCallback, Fail, ServiceShape
  <2>3. CASE \E q \in QueriesOf[d] : Ask(d, q) \/ LocalQuery(d, q)
    BY <2>3 DEF Ask, LocalQuery, ServiceShape
  <2> QED BY <2>1, <2>2, <2>3 DEF Receive
<1>3. query'[c] = query[c] /\ before'[c] = before[c]
  BY DEF Receive, processQueryResponse, processCallback, Ask, LocalQuery, ServiceShape
<1>4. responseId'[c] = responseId[c] /\ reply'[c] = reply[c]
  BY DEF Receive, processQueryResponse, processCallback, Ask, LocalQuery, ServiceShape
<1>5. pull'[c] = pull[c]
  BY DEF Receive, processQueryResponse, processCallback, Ask, LocalQuery, ServiceShape
<1>6. got'[c] = got[c]
  BY DEF Receive, processQueryResponse, processCallback, Ask, LocalQuery, ServiceShape
<1>7. Undisturbed(c)
  BY <1>1, <1>2, <1>3, <1>4, <1>5, <1>6 DEF Undisturbed, Working, Busy
<1>8. StillAsks(c)
  <2>1. CASE requests' = requests
    BY <2>1 DEF StillAsks
  <2>2. ASSUME NEW q \in QueriesOf[d], requests' = Append(requests, [client |-> d, query |-> q])
        PROVE  StillAsks(c)
    <3>1. [client |-> d, query |-> q] \in [client : Clients, query : Queries]
      BY QueriesAre
    <3>2. PICK m : m = [client |-> d, query |-> q]
      OBVIOUS
    <3>3. m \in [client : Clients, query : Queries] /\ m.client # c
      BY <3>1, <3>2
    <3>4. requests \in Seq([client : Clients, query : Queries])
      BY DEF ServiceShape
    <3> QED BY <2>2, <3>2, <3>3, <3>4, RequestAdded DEF StillAsks
  <2> QED BY <2>1, <2>2 DEF Receive, processQueryResponse, processCallback, Ask, LocalQuery
<1> QED BY <1>7, <1>8, Bystander

LEMMA ResponseHandledWell ==
  ASSUME ServiceShape, NEW c \in Clients, c \notin upset', HandledWell(c), processQueryResponse(c)
  PROVE  HandledWell(c)'
<1>1. /\ state[c] = "sent" /\ reply[c] # Nil /\ reply[c] # 0
      /\ UNCHANGED <<levelDb, server, requests, job, pull, query, got, before, result>>
      /\ reply' = [reply EXCEPT ![c] = Nil] /\ responseId' = [responseId EXCEPT ![c] = reply[c]]
      /\ state' = [state EXCEPT ![c] = "reading"]
  BY DEF processQueryResponse
<1>2. reply'[c] = Nil /\ responseId'[c] = reply[c] /\ state'[c] = "reading"
  BY <1>1 DEF ServiceShape
<1>3. Expects(c)' = Expects(c)
  BY <1>1, <1>2 DEF Expects
<1>4. Working(c)' <=> Working(c)
  BY <1>1 DEF Working, Busy
<1>5. PullIs(c)'
  BY <1>1, <1>3, <1>4 DEF PullIs, HandledWell, Way
<1>6. NoRequest(requests, c)
  BY <1>1 DEF HandledWell, Way, Waiting
<1>7. Way(c)'
  BY <1>1, <1>2, <1>3, <1>4, <1>5, <1>6 DEF HandledWell, Way
<1>8. Streaming(c)' <=> Streaming(c)
  BY <1>1, <1>4 DEF Streaming
<1>9. Coming(c)' = Coming(c)
  BY <1>1, <1>8 DEF Coming
<1>10. Stream(c)'
  BY <1>1, <1>8, <1>9 DEF HandledWell, Stream
<1> QED BY <1>7, <1>10 DEF HandledWell

LEMMA CallbackHandledWell ==
  ASSUME ServiceShape, NEW c \in Clients, HandledWell(c), processCallback(c)
  PROVE  HandledWell(c)'
<1>1. /\ state[c] = "reading" /\ pull[c] # << >>
      /\ pull' = [pull EXCEPT ![c] = Tail(pull[c])]
      /\ UNCHANGED <<levelDb, server, requests, job, reply, query, responseId, before>>
  BY DEF processCallback
<1>2. pull'[c] = Tail(pull[c]) /\ pull[c] \in Seq(Message) /\ got[c] \in Seq(Body)
  BY <1>1 DEF ServiceShape
<1>3. /\ 1 \in DOMAIN pull[c] /\ Head(pull[c]) = pull[c][1] /\ Len(pull[c]) \in Nat
      /\ Len(pull'[c]) = Len(pull[c]) - 1 /\ DOMAIN pull[c] = 1 .. Len(pull[c])
      /\ DOMAIN pull'[c] = 1 .. (Len(pull[c]) - 1)
      /\ \A i \in DOMAIN pull'[c] : i + 1 \in DOMAIN pull[c] /\ pull'[c][i] = pull[c][i + 1]
  BY <1>1, <1>2, TailAt
<1>4. /\ Expects(c) = responseId[c] /\ PullIs(c) /\ NoRequest(requests, c) /\ result[c] = Nil
      /\ query[c] \in QueriesOf[c] /\ query[c].type # "none" /\ reply[c] = Nil
      /\ Working(c) =>
           /\ job.query = query[c] /\ query[c].type # "garbage" /\ job.id = Expects(c)
           /\ server # "connect"
      /\ c \notin Local
  BY <1>1 DEF HandledWell, Way, Waiting, Expects
<1>5. Head(pull[c]).id = responseId[c]
  BY <1>3, <1>4 DEF PullIs
<1>6. Delivery(got[c], Held(pull[c]), Coming(c), query[c], DOMAIN levelDb, before[c])
  BY <1>1 DEF HandledWell, Stream
<1>7. (Working(c)' <=> Working(c)) /\ (Streaming(c)' <=> Streaming(c)) /\ Coming(c)' = Coming(c)
  BY <1>1 DEF Working, Busy, Streaming, Coming
<1>8. CASE Head(pull[c]).body # Complete
  <2>1. Head(pull[c]).body \in Body
    BY <1>1, <1>8, HeadMessage
  <2>2. Takes(c, Head(pull[c]).body.record)
    <3>1. PICK b : b = Head(pull[c]).body /\ b \in Body
      BY <2>1
    <3>2. 1 \in DOMAIN Held(pull[c]) /\ Held(pull[c])[1] = b
      <4>1. PICK p : p = pull[c]
        OBVIOUS
      <4>2. 1 \in DOMAIN p /\ p[1].body = b /\ b # Complete
        BY <1>3, <1>8, <3>1, <4>1
      <4>3. 1 \in DOMAIN Held(p) /\ Held(p)[1] = b
        BY <4>2, HeldAt
      <4> QED BY <4>1, <4>3
    <3>3. Asked(query[c], b.key) /\ b.record.type = KeyType(b.key)
          /\ query[c].type \in {"INDEXED_VALUE", "IB_MARKET_DATA", "range"}
      BY <1>6, <3>2 DEF Delivery, InKeyOrder
    <3>4. b.key \in KeySet
      BY <3>1 DEF Body
    <3> QED BY <1>4, <3>1, <3>3, <3>4, VisitorTakes
  <2>3. got' = [got EXCEPT ![c] = Append(got[c], Head(pull[c]).body)]
        /\ UNCHANGED <<state, result>>
    BY <1>5, <1>8, <2>2 DEF processCallback
  <2>4. got'[c] = Append(got[c], Head(pull[c]).body)
    BY <2>3 DEF ServiceShape
  <2>5. Expects(c)' = Expects(c)
    BY <1>1, <2>3 DEF Expects
  <2>6. PullIs(c)'
    <3> SUFFICES ASSUME NEW i \in DOMAIN pull'[c]
        PROVE  /\ pull'[c][i].id = Expects(c)'
               /\ pull'[c][i].body = Complete => i = Len(pull'[c]) /\ ~ Working(c)'
      BY DEF PullIs
    <3>1. /\ pull'[c][i].id = Expects(c)
          /\ pull'[c][i].body = Complete => i + 1 = Len(pull[c]) /\ ~ Working(c)
      BY <1>3, <1>4 DEF PullIs
    <3>2. i \in Nat /\ (i + 1 = Len(pull[c]) => i = Len(pull[c]) - 1)
      BY <1>3
    <3> QED BY <1>3, <1>7, <2>5, <3>1, <3>2
  <2>7. Way(c)'
    BY <1>1, <1>4, <1>7, <2>3, <2>5, <2>6, HistorianServiceAssumption DEF Way
  <2>8. Delivery(got'[c], Held(pull'[c]), Coming(c), query[c], DOMAIN levelDb, before[c])
    BY <1>1, <1>2, <1>6, <2>1, <2>4, RecordTaken
  <2>9. Stream(c)'
    BY <1>1, <1>7, <2>8 DEF Stream
  <2> QED BY <2>7, <2>9 DEF HandledWell
<1>9. CASE Head(pull[c]).body = Complete
  <2>1. /\ state' = [state EXCEPT ![c] = "idle"] /\ result' = [result EXCEPT ![c] = "complete"]
        /\ UNCHANGED got
    BY <1>5, <1>9 DEF processCallback
  <2>2. state'[c] = "idle" /\ result'[c] = "complete"
    BY <2>1 DEF ServiceShape
  <2>3. 1 = Len(pull[c]) /\ ~ Working(c)
    BY <1>3, <1>4, <1>9 DEF PullIs
  <2>4. pull'[c] = << >>
    BY <1>2, <2>3, TailOfOne
  <2>5. PullIs(c)'
    BY <2>4 DEF PullIs
  <2>6. Way(c)'
    BY <1>1, <1>4, <1>7, <2>2, <2>3, <2>4, <2>5 DEF Way
  <2>7. Held(pull[c]) = << >> /\ Held(pull'[c]) = << >>
    <3>1. {n \in DOMAIN pull[c] : pull[c][n].body # Complete} = {}
      BY <1>3, <1>9, <2>3
    <3>2. {n \in DOMAIN pull'[c] : pull'[c][n].body # Complete} = {}
      BY <2>4
    <3> QED BY <3>1, <3>2 DEF Held
  <2>8. Stream(c)'
    BY <1>1, <1>6, <1>7, <2>1, <2>7 DEF Stream
  <2> QED BY <2>6, <2>8 DEF HandledWell
<1> QED BY <1>8, <1>9

LEMMA AskHandledWell ==
  ASSUME ServiceShape, NEW c \in Clients, HandledWell(c), NEW q \in QueriesOf[c], Ask(c, q)
  PROVE  HandledWell(c)'
<1>1. /\ state[c] = "idle" /\ c \notin Local
      /\ UNCHANGED <<levelDb, server, job, reply, pull, responseId>>
      /\ query'[c] = q /\ got'[c] = << >>
  BY DEF Ask, ServiceShape
<1>2. NoRequest(requests, c) /\ ~ Working(c) /\ pull[c] = << >> /\ reply[c] = Nil
  BY <1>1 DEF HandledWell, Way
<1>3. ~ Working(c)'
  BY <1>1, <1>2 DEF Working, Busy
<1>4. pull'[c] = << >> /\ reply'[c] = Nil /\ PullIs(c)'
  BY <1>1, <1>2 DEF PullIs
<1>5. CASE q.type = "none"
  <2>1. state'[c] = "idle" /\ result'[c] = "error" /\ requests' = requests
    BY <1>1, <1>5 DEF Ask, ServiceShape
  <2>2. Way(c)'
    BY <1>1, <1>2, <1>3, <1>4, <1>5, <2>1 DEF Way
  <2>3. Stream(c)'
    BY <1>3, <1>4, <2>1 DEF Stream, Streaming
  <2> QED BY <2>2, <2>3 DEF HandledWell
<1>6. CASE q.type # "none"
  <2>1. state'[c] = "sent" /\ result'[c] = Nil
        /\ requests' = Append(requests, [client |-> c, query |-> q])
    BY <1>6 DEF Ask, ServiceShape
  <2>2. PICK m : m = [client |-> c, query |-> q]
    OBVIOUS
  <2>3. m \in [client : Clients, query : Queries] /\ m.client = c /\ m.query = q
    BY <2>2, QueriesAre
  <2>4. requests \in Seq([client : Clients, query : Queries])
    BY DEF ServiceShape
  <2>5. OneRequest(requests', c, q)
    BY <1>2, <2>1, <2>2, <2>3, <2>4, RequestAdded
  <2>6. Waiting(c)'
    BY <1>1, <1>3, <1>4, <2>1, <2>5 DEF Waiting
  <2>7. Way(c)'
    BY <1>1, <1>3, <1>4, <1>6, <2>1, <2>6, HistorianServiceAssumption DEF Way
  <2>8. Stream(c)'
    BY <1>3, <1>4, <2>1, HistorianServiceAssumption DEF Stream, Streaming
  <2> QED BY <2>7, <2>8 DEF HandledWell
<1> QED BY <1>5, <1>6

LEMMA LocalQueryHandledWell ==
  ASSUME ServiceShape, NEW c \in Clients, HandledWell(c), NEW q \in QueriesOf[c], LocalQuery(c, q)
  PROVE  HandledWell(c)'
<1> DEFINE keys == {k \in Matching(q) : Takes(c, levelDb[k])}
<1>1. /\ c \in Local
      /\ UNCHANGED <<levelDb, server, requests, job, reply, pull, state, responseId>>
      /\ query'[c] = q /\ before'[c] = DOMAIN levelDb
  BY DEF LocalQuery, ServiceShape
<1>2. /\ state[c] = "idle" /\ NoRequest(requests, c) /\ ~ Working(c)
      /\ pull[c] = << >> /\ reply[c] = Nil
  BY <1>1 DEF HandledWell, Way
<1>3. ~ Working(c)' /\ Coming(c)' = << >>
  BY <1>1, <1>2 DEF Working, Busy, Coming, Streaming
<1>4. pull'[c] = << >> /\ reply'[c] = Nil /\ PullIs(c)'
  BY <1>1, <1>2 DEF PullIs
<1>5. /\ result'[c] \in {"refused", "complete", "stopped"}
      /\ result'[c] = "complete" => got'[c] = Records(levelDb, keys)
  BY DEF LocalQuery, ServiceShape
<1>6. Way(c)'
  BY <1>1, <1>2, <1>3, <1>4, <1>5 DEF Way
<1>7. q \in Questions
  <2>1. q.type \notin {"none", "garbage"}
    <3>1. CASE c = "hdb"
      BY <3>1 DEF QueriesOf, hdb_query, Asks
    <3>2. CASE c = "raptor"
      BY <3>2 DEF QueriesOf, raptor_query, Asks
    <3> QED BY <1>1, <3>1, <3>2 DEF Local
  <2> QED BY <2>1, QueriesAre
<1>8. keys = {k \in DOMAIN levelDb : Asked(q, k)}
  <2>1. Matching(q) = {k \in DOMAIN levelDb : Asked(q, k)}
    BY <1>7, MatchingIs DEF ServiceShape
  <2>2. \A k \in DOMAIN levelDb : k \in KeySet /\ levelDb[k].type = KeyType(k)
    BY DEF ServiceShape, IsStore
  <2>3. q.type \in {"INDEXED_VALUE", "IB_MARKET_DATA", "range"}
    BY <1>7 DEF Questions, Asks
  <2>4. \A k \in DOMAIN levelDb : Asked(q, k) => Takes(c, levelDb[k])
    BY <2>2, <2>3, VisitorTakes
  <2> QED BY <2>1, <2>4
<1>9. ASSUME result'[c] = "complete"
      PROVE  Delivery(got'[c], Held(pull'[c]), Coming(c)', query'[c], DOMAIN levelDb', before'[c])
  <2>1. IsStore(levelDb) /\ keys \in SUBSET DOMAIN levelDb
    BY <1>8 DEF ServiceShape
  <2>2. AreRecords(got'[c], levelDb, keys)
    BY <1>5, <1>9, <2>1, RecordsAreSorted
  <2>3. Delivery(got'[c], << >>, << >>, q, DOMAIN levelDb, DOMAIN levelDb)
    BY <1>7, <1>8, <2>1, <2>2, DeliveryStarts
  <2>4. Held(<< >>) = << >>
    BY DEF Held
  <2> QED BY <1>1, <1>3, <1>4, <2>3, <2>4
<1>10. Stream(c)'
  BY <1>3, <1>4, <1>9 DEF Stream, Streaming
<1> QED BY <1>6, <1>10 DEF HandledWell

-----------------------------------------------------------------------------

ServiceInv == ServiceShape /\ \A c \in Clients \ upset : HandledWell(c)

LEMMA ServiceInitially == ServiceInit => ServiceInv
<1> SUFFICES ASSUME ServiceInit, NEW c \in Clients PROVE HandledWell(c)
  BY ShapeInitially DEF ServiceInv
<1>1. /\ state[c] = "idle" /\ requests = << >> /\ server = "stopped" /\ pull[c] = << >>
      /\ reply[c] = Nil /\ result[c] = Nil
  BY DEF ServiceInit
<1>2. NoRequest(requests, c) /\ ~ Working(c) /\ PullIs(c)
  BY <1>1 DEF NoRequest, Working, Busy, PullIs
<1>3. Way(c)
  BY <1>1, <1>2, HistorianServiceAssumption DEF Way
<1>4. Stream(c)
  BY <1>1, <1>2, HistorianServiceAssumption DEF Stream, Streaming
<1> QED BY <1>3, <1>4 DEF HandledWell

LEMMA ServiceKeeps == ServiceInv /\ [ServiceNext]_serviceVars => ServiceInv'
<1> SUFFICES ASSUME ServiceInv, [ServiceNext]_serviceVars PROVE ServiceInv'
  OBVIOUS
<1>1. ServiceShape /\ ServiceShape'
  BY ShapeKept DEF ServiceInv
<1> SUFFICES ASSUME NEW c \in Clients, c \notin upset' PROVE HandledWell(c)'
  BY <1>1 DEF ServiceInv
<1>2. CASE UNCHANGED serviceVars
  <2>1. HandledWell(c)
    BY <1>2 DEF serviceVars, ServiceInv
  <2>2. Undisturbed(c) /\ StillAsks(c)
    BY <1>2 DEF serviceVars, Undisturbed, StillAsks, Working, Busy
  <2> QED BY <2>1, <2>2, Bystander
<1>3. CASE ServiceNext
  <2>1. c \notin upset
    BY <1>3 DEF ServiceNext, StartHz, OpenAgain, Process, Exit, Serve, RespondToGarbage, Respond,
         Connect, SendRecord, SendComplete, Receive, processQueryResponse, processCallback,
         Ask, LocalQuery
  <2>2. HandledWell(c)
    BY <2>1 DEF ServiceInv
  <2>3. CASE StartHz \/ OpenAgain \/ Process \/ Exit
    BY <1>1, <2>2, <2>3, HzHandlesWell
  <2>4. CASE RespondToGarbage \/ Respond
    BY <1>1, <2>2, <2>4, RespondHandlesWell
  <2>5. CASE Connect \/ SendRecord \/ SendComplete
    BY <1>1, <2>2, <2>5, WorksForOther, ConnectHandlesWell, SendHandlesWell
  <2>6. ASSUME NEW d \in Clients,
               Receive(d) \/ \E q \in QueriesOf[d] : Ask(d, q) \/ LocalQuery(d, q)
        PROVE  HandledWell(c)'
    <3>1. CASE d # c
      BY <1>1, <2>2, <2>6, <3>1, OthersHandleWell
    <3>2. CASE d = c
      BY <1>1, <2>2, <2>6, <3>2, ResponseHandledWell, CallbackHandledWell, AskHandledWell,
         LocalQueryHandledWell DEF Receive
    <3> QED BY <3>1, <3>2
  <2> QED BY <1>3, <2>3, <2>4, <2>5, <2>6 DEF ServiceNext, Serve
<1> QED BY <1>2, <1>3

\* What the callback socket of a client holds belongs to the query it waits for, and
\* a query fails only for a client that was upset (DbReactorClient::Query), for any
\* clients, response ids, timestamps and number of queries.
THEOREM QueriesNeverMix == ServiceSpec => []QueriesDoNotMix
<1>1. ServiceInv => QueriesDoNotMix
  <2> SUFFICES ASSUME ServiceInv PROVE QueriesDoNotMix
    OBVIOUS
  <2>1. ServiceTypeOK
    BY ShapeIsType DEF ServiceInv
  <2>2. NothingLeftUnread
    BY DEF ServiceInv, HandledWell, Way, PullIs, Expects, NothingLeftUnread
  <2>3. OnlyUpsetClientsFail
    BY DEF ServiceInv, HandledWell, Way, OnlyUpsetClientsFail
  <2> QED BY <2>1, <2>2, <2>3 DEF QueriesDoNotMix
<1> QED BY <1>1, ServiceInitially, ServiceKeeps, PTL DEF ServiceSpec

\* A query that completes has every record that it asked for and that was there when
\* it was asked, and only such records, in the order of their keys (Db::Query,
\* CallbackStreamer, processCallback), for every store, query and interleaving with
\* the writer and with other clients.
THEOREM CompleteAlwaysMeansAll == ServiceSpec => []CompleteMeansAll
<1>1. ServiceInv => CompleteMeansAll
  <2> SUFFICES ASSUME ServiceInv, NEW c \in Clients \ upset, result[c] = "complete"
      PROVE  /\ {k \in before[c] : Asked(query[c], k)} \subseteq KeysOf(got[c])
             /\ \A k \in KeysOf(got[c]) : k \in DOMAIN levelDb /\ Asked(query[c], k)
             /\ \A i, j \in DOMAIN got[c] : i < j => Before(got[c][i].key, got[c][j].key)
    BY DEF CompleteMeansAll, KeysOf
  <2>1. Way(c) /\ Stream(c)
    BY DEF ServiceInv, HandledWell
  <2>2. state[c] = "idle" /\ pull[c] = << >> /\ ~ Working(c)
    BY <2>1, HistorianServiceAssumption DEF Way
  <2>3. Held(pull[c]) = << >> /\ Coming(c) = << >>
    BY <2>2 DEF Held, Coming, Streaming
  <2>4. Delivery(got[c], << >>, << >>, query[c], DOMAIN levelDb, before[c])
    BY <2>1, <2>3 DEF Stream
  <2>5. KeysOf(<< >>) = {}
    BY DEF KeysOf
  <2>6. InKeyOrder(got[c], query[c], DOMAIN levelDb)
        /\ \A k \in before[c] : Asked(query[c], k) => k \in KeysOf(got[c])
    BY <2>4, <2>5 DEF Delivery
  <2> QED BY <2>6 DEF InKeyOrder, KeysOf
<1> QED BY <1>1, ServiceInitially, ServiceKeeps, PTL DEF ServiceSpec
=============================================================================
