------------------------ MODULE ContractManagerProofs -----------------------
(***************************************************************************)
(* Proofs about the contract side, for any clients, contracts, symbols and *)
(* flags.                                                                  *)
(***************************************************************************)
EXTENDS ContractManager, TLAPS

\* The contracts that a client stores.
Dollars == {k \in Known : k.currency = "USD"}

\* What may be asked for, and what may be published.
Asked == UNION {parse_encoded_symbol(sc.symbols[c][i]) : sc \in Scenarios, c \in Clients, i \in Nat \ {0}}
Queries == Asked \cup {ChainQuery(q.symbol) : q \in Asked}
Requests == [client : Clients, id : Nat, query : Queries]
Answers == [client : Clients, id : Nat, left : SUBSET Known]
Details == [kind : {"details"}, contract : {Marshalled(k) : k \in Known}, client : Clients, id : Nat]
Ends == [kind : {"end"}, contract : {Blank}, client : Clients, id : Nat]
Outcomes == {"found", "bad symbol", "timed out", "unknown"}
Verdicts == [what : Outcomes, racing : BOOLEAN, foreign : BOOLEAN]

Before == {"find", "send", "register"}           \* the first request is not registered
Chained == {"send chain", "register chain"}      \* it is, the chain's is not
Waits == {"wait chain", "wait"}

MainTypes == [pc : Before \cup Chained \cup Waits, at : Nat \ {0}, request : Nat, res : Nat,
              query : Queries \cup {Blank}]

ShapeInv ==
  /\ scenario \in Scenarios
  /\ requests \in Seq(Requests)
  /\ answers \in SUBSET Answers
  /\ pipe \in [Clients -> Seq(Details \cup Ends)]
  /\ storing \in [Clients -> {None} \cup Dollars]
  /\ ds \in [Clients -> MainTypes]
  /\ verdict \in [Clients -> Seq(Verdicts)]
  /\ blind \in [Clients -> BOOLEAN]
  /\ details = [c \in Clients |-> details[c]]
  /\ pending = [c \in Clients |-> pending[c]]
  /\ sent = [c \in Clients |-> sent[c]]
  /\ missed = [c \in Clients |-> missed[c]]

\* What is stored has the symbol it is stored under.
StoreInv ==
  \A c \in Clients : \A k \in DOMAIN details[c] :
    details[c][k] \in Dollars /\ symbol_from_contract(details[c][k]) = k

\* Where the main thread is with its numbers.
MainOf(c) ==
  /\ Len(verdict[c]) = ds[c].at - 1
  /\ \A id \in DOMAIN pending[c] : /\ id \in Nat /\ pending[c][id] \in Clients \cup {None}
                                   /\ id <= ds[c].request
                                   /\ id = ds[c].request => ds[c].pc \in Waits
  /\ ds[c].pc \in {"send", "register"} => ds[c].res = ds[c].request
  /\ ds[c].pc \in Chained \cup {"wait chain"} => ds[c].request = ds[c].res + 1
  /\ ds[c].pc \in Chained \cup Waits => ds[c].res \in DOMAIN pending[c]
  /\ ds[c].pc = "wait" => ds[c].res <= ds[c].request
  /\ ds[c].pc = "wait chain" => ds[c].request \in DOMAIN pending[c]
  /\ ds[c].pc # "find" => ds[c].query \in Queries
  /\ ds[c].pc \in {"send", "register"} => ds[c].query \in parse_encoded_symbol(Key(c))

MainInv == \A c \in Clients : MainOf(c)

\* A number belongs to one request of a client.
Sent(c, id) ==
  id < ds[c].request \/ (id = ds[c].request /\ ds[c].pc \in {"register", "register chain"} \cup Waits)

UnderWay(c, id) ==
  \/ \E i \in 1 .. Len(requests) : requests[i].client = c /\ requests[i].id = id
  \/ \E a \in answers : a.client = c /\ a.id = id
  \/ \E d \in Clients : \E i \in 1 .. Len(pipe[d]) : pipe[d][i].client = c /\ pipe[d][i].id = id

NumberInv == \A c \in Clients : \A id \in Nat : UnderWay(c, id) => Sent(c, id)

\* The client's own answer to the request it is at: what has the symbol it looks for comes
\* before the End.
Stored(c) ==
  \/ Key(c) \in DOMAIN details[c]
  \/ storing[c] # None /\ symbol_from_contract(storing[c]) = Key(c)

Carries(m, key) ==
  m.kind = "details" /\ m.contract.currency = "USD" /\ symbol_from_contract(m.contract) = key

Own(c, m) == m.client = c /\ m.id = ds[c].res

Requested(c, w) ==
  \A i \in 1 .. Len(requests) : Own(c, requests[i]) => w \in Matches(requests[i].query)

Answered(c, w) ==
  \A a \in answers : Own(c, a) =>
    w \in a.left \/ Stored(c) \/ \E j \in 1 .. Len(pipe[c]) : Carries(pipe[c][j], Key(c))

Queued(c) ==
  \A i \in 1 .. Len(pipe[c]) : pipe[c][i].kind = "end" /\ Own(c, pipe[c][i]) =>
    Stored(c) \/ \E j \in 1 .. i - 1 : Carries(pipe[c][j], Key(c))

Completed(c) ==
  ds[c].res \in DOMAIN pending[c] /\ pending[c][ds[c].res] = c => Key(c) \in DOMAIN details[c]

OrderOf(c) ==
  ~ blind[c] /\ ds[c].pc # "find" =>
    \A w \in Dollars : symbol_from_contract(w) = Key(c) =>
      Requested(c, w) /\ Answered(c, w) /\ Queued(c) /\ Completed(c)

OrderInv == \A c \in Clients : OrderOf(c)

\* What became of a request that was sent.
Traced(c, id) ==
  \/ blind[c]
  \/ id \in missed[c]
  \/ \E i \in 1 .. Len(requests) : requests[i].client = c /\ requests[i].id = id
  \/ \E a \in answers : a.client = c /\ a.id = id
  \/ \E i \in 1 .. Len(pipe[c]) : /\ pipe[c][i].kind = "end"
                                  /\ pipe[c][i].client = c /\ pipe[c][i].id = id
  \/ id \in DOMAIN pending[c] /\ pending[c][id] # None

TraceOf(c) ==
  \A id \in Nat :
    \/ id = ds[c].res /\ ds[c].pc \in {"register"} \cup Chained \cup Waits
    \/ id = ds[c].request /\ ds[c].pc \in {"register chain", "wait chain"}
    => Traced(c, id)

TraceInv == \A c \in Clients : TraceOf(c)

Inv == ShapeInv /\ StoreInv /\ MainInv /\ NumberInv /\ OrderInv /\ TraceInv

-----------------------------------------------------------------------------
(* Contracts *)

\* What is published of a contract in dollars is the contract.
LEMMA DollarsStay ==
  ASSUME NEW k \in Known
  PROVE  /\ Marshalled(k).currency = "USD" => k \in Dollars /\ Marshalled(k) = k
         /\ k \in Dollars => Marshalled(k) = k
<1>1. k = Contract(k.id, k.symbol, k.type, k.expiry, k.strike, k.right, k.currency)
  BY ContractManagerAssumption
<1>2. [k EXCEPT !.currency = "OTHER"].currency = "OTHER"
  BY <1>1 DEF Contract
<1> QED BY <1>2 DEF Marshalled, Dollars

\* The gateway's answer to what a symbol is read as has the contract of the symbol.
LEMMA AnswerHasSymbol ==
  ASSUME NEW w \in Dollars, NEW q \in parse_encoded_symbol(symbol_from_contract(w))
  PROVE  w \in Matches(q)
<1> DEFINE key == symbol_from_contract(w)
<1>0. w \in Known /\ w.currency = "USD"
  BY DEF Dollars
<1>1. CASE w.type = "OPT"
  <2>1. key = <<w.symbol, "OPT", w.expiry, w.strike, w.right>>
    BY <1>1 DEF symbol_from_contract
  <2>2. Len(key) = 5 /\ key[2] = "OPT" /\ key[5] = w.right
    BY <2>1
  <2>3. w.right \notin Dates
    BY <1>0, <1>1, ContractManagerAssumption
  <2>4. parse_encoded_symbol(key) = {}
    <3> HIDE DEF key
    <3>1. parse_encoded_symbol(key)
            = {OptionQuery(key[1], key[5], key[3], r) : r \in IF key[5] \in Dates THEN {"P", "C"} ELSE {}}
      BY <2>2 DEF parse_encoded_symbol
    <3> QED BY <2>2, <2>3, <3>1
  <2> QED BY <2>4
<1>2. CASE w.type # "OPT"
  <2>1. key = <<w.symbol, w.type>>
    BY <1>2 DEF symbol_from_contract
  <2>2. Len(key) = 2 /\ key[1] = w.symbol /\ key[2] = w.type
    BY <2>1
  <2>3. \/ w.type = "STK" /\ q = StockQuery(w.symbol)
        \/ w.type = "IND" /\ q = IndexQuery(w.symbol)
    <3> HIDE DEF key
    <3>1. w.type = "STK" => parse_encoded_symbol(key) = {StockQuery(w.symbol)}
      BY <2>2 DEF parse_encoded_symbol
    <3>2. w.type = "IND" => parse_encoded_symbol(key) = {IndexQuery(w.symbol)}
      BY <2>2 DEF parse_encoded_symbol
    <3>3. w.type \notin {"STK", "IND"} => parse_encoded_symbol(key) = {}
      BY <1>2, <2>2 DEF parse_encoded_symbol
    <3>4. q \in parse_encoded_symbol(key)
      BY DEF key
    <3> QED BY <3>1, <3>2, <3>3, <3>4
  <2>4. /\ w.symbol = q.symbol /\ w.type = q.type /\ Agrees(q.expiry, w.expiry)
        /\ Agrees(q.strike, w.strike) /\ Agrees(q.right, w.right) /\ Agrees(q.currency, w.currency)
    <3>1. /\ q.symbol = w.symbol /\ q.type = w.type /\ q.expiry = "" /\ q.strike \in {"", "0"}
          /\ q.right = "" /\ q.currency \in {"", "USD"}
      <4>1. CASE w.type = "STK" /\ q = StockQuery(w.symbol)
        BY <4>1 DEF StockQuery, Contract
      <4>2. CASE w.type = "IND" /\ q = IndexQuery(w.symbol)
        BY <4>2 DEF IndexQuery, Contract
      <4> QED BY <2>3, <4>1, <4>2
    <3> QED BY <1>0, <3>1 DEF Agrees
  <2> QED BY <1>0, <2>4 DEF Matches
<1> QED BY <1>1, <1>2

\* What may be read is the more, the more contracts there are.
LEMMA TornGrows ==
  ASSUME NEW A, NEW B, A \subseteq B
  PROVE  Torn(A) \subseteq Torn(B)
<1> DEFINE seenA == {Blank} \cup A \cup {Raw(k) : k \in A}
           seenB == {Blank} \cup B \cup {Raw(k) : k \in B}
<1>1. seenA \subseteq seenB
  OBVIOUS
<1> HIDE DEF seenA, seenB
<1>2. /\ {v.id : v \in seenA} \subseteq {v.id : v \in seenB}
      /\ {v.symbol : v \in seenA} \subseteq {v.symbol : v \in seenB}
      /\ {v.type : v \in seenA} \subseteq {v.type : v \in seenB}
      /\ {v.expiry : v \in seenA} \subseteq {v.expiry : v \in seenB}
      /\ {v.strike : v \in seenA} \subseteq {v.strike : v \in seenB}
      /\ {v.right : v \in seenA} \subseteq {v.right : v \in seenB}
      /\ {v.currency : v \in seenA} \subseteq {v.currency : v \in seenB}
  BY <1>1
<1> QED BY <1>2 DEF Torn, seenA, seenB

\* A contract of the gateway may be read whole.
LEMMA OwnIsTorn ==
  ASSUME NEW A \in SUBSET Known
  PROVE  A \subseteq Torn(A)
<1>1. SUFFICES ASSUME NEW k \in A PROVE k \in Torn(A)
  OBVIOUS
<1>2. k = Contract(k.id, k.symbol, k.type, k.expiry, k.strike, k.right, k.currency)
  BY ContractManagerAssumption
<1> DEFINE seen == {Blank} \cup A \cup {Raw(a) : a \in A}
<1>3. k \in seen
  OBVIOUS
<1> HIDE DEF seen
<1>4. /\ k.id \in {v.id : v \in seen} /\ k.symbol \in {v.symbol : v \in seen}
      /\ k.type \in {v.type : v \in seen} /\ k.expiry \in {v.expiry : v \in seen}
      /\ k.strike \in {v.strike : v \in seen} /\ k.right \in {v.right : v \in seen}
      /\ k.currency \in {v.currency : v \in seen}
  BY <1>3
<1> QED BY <1>2, <1>4 DEF Torn, Contract, seen

\* A lookup gets nothing, a contract that is stored under the symbol, or what can be read
\* of such contracts while one is being stored.
LEMMA WhatIsFound ==
  ASSUME ShapeInv, StoreInv, NEW c \in Clients, NEW key, NEW found \in findContract(c, key)
  PROVE  /\ found # None =>
              IF Written(c, key) THEN found \in Torn(Subscribable(key))
              ELSE found \in Subscribable(key)
         /\ found = None => storing[c] # None \/ key \notin DOMAIN details[c]
<1> DEFINE there == IF key \in DOMAIN details[c] THEN {details[c][key]} ELSE {}
<1>1. there \subseteq Subscribable(key)
  BY DEF StoreInv, Subscribable, Dollars
<1>2. None \notin Subscribable(key)
  BY ContractManagerAssumption DEF Subscribable
<1>3. findContract(c, key) = (IF there = {} \/ storing[c] # None THEN {None} ELSE {}) \cup there
                             \cup (IF Written(c, key) THEN Torn({storing[c]} \cup there) ELSE {})
  BY DEF findContract
<1>4. CASE Written(c, key)
  <2>1. storing[c] # None /\ storing[c] \in Subscribable(key)
    BY <1>4 DEF Written, ShapeInv, Subscribable, Dollars
  <2>2. Torn({storing[c]} \cup there) \subseteq Torn(Subscribable(key))
    BY <1>1, <2>1, TornGrows
  <2>3. Subscribable(key) \subseteq Torn(Subscribable(key))
    BY OwnIsTorn DEF Subscribable
  <2> HIDE DEF there
  <2> QED BY <1>1, <1>3, <1>4, <2>1, <2>2, <2>3
<1>5. CASE ~ Written(c, key)
  <2>1. key \in DOMAIN details[c] => there # {}
    OBVIOUS
  <2> HIDE DEF there
  <2> QED BY <1>1, <1>2, <1>3, <1>5, <2>1
<1> QED BY <1>4, <1>5

-----------------------------------------------------------------------------
(* The steps of the main thread *)

Elsewhere(c) == \A d \in Clients \ {c} : ds'[d] = ds[d]

LEMMA GoEffect ==
  ASSUME ShapeInv, NEW c \in Clients, NEW pc \in Before \cup Chained \cup Waits, Go(c, pc)
  PROVE  /\ ds' \in [Clients -> MainTypes] /\ Elsewhere(c)
         /\ ds'[c].pc = pc /\ ds'[c].at = ds[c].at /\ ds'[c].request = ds[c].request
         /\ ds'[c].res = ds[c].res /\ ds'[c].query = ds[c].query
<1> DEFINE r == [ds[c] EXCEPT !.pc = pc]
<1>1. ds \in [Clients -> MainTypes] /\ ds' = [ds EXCEPT ![c] = r]
  BY DEF ShapeInv, Go
<1>2. /\ r \in MainTypes /\ r.pc = pc /\ r.at = ds[c].at /\ r.request = ds[c].request
      /\ r.res = ds[c].res /\ r.query = ds[c].query
  BY <1>1 DEF MainTypes
<1> HIDE DEF r
<1> QED BY <1>1, <1>2 DEF Elsewhere

LEMMA AskEffect ==
  ASSUME ShapeInv, NEW c \in Clients, NEW q \in Queries,
         ds' = [ds EXCEPT ![c] = [@ EXCEPT !.pc = "send", !.query = q, !.res = ds[c].request]]
  PROVE  /\ ds' \in [Clients -> MainTypes] /\ Elsewhere(c)
         /\ ds'[c].pc = "send" /\ ds'[c].at = ds[c].at /\ ds'[c].request = ds[c].request
         /\ ds'[c].res = ds[c].request /\ ds'[c].query = q
<1> DEFINE r == [ds[c] EXCEPT !.pc = "send", !.query = q, !.res = ds[c].request]
<1>1. ds \in [Clients -> MainTypes] /\ ds' = [ds EXCEPT ![c] = r]
  BY DEF ShapeInv
<1>2. /\ r \in MainTypes /\ r.pc = "send" /\ r.at = ds[c].at /\ r.request = ds[c].request
      /\ r.res = ds[c].request /\ r.query = q
  BY <1>1 DEF MainTypes, Before
<1> HIDE DEF r
<1> QED BY <1>1, <1>2 DEF Elsewhere

LEMMA ChainEffect ==
  ASSUME ShapeInv, NEW c \in Clients, NEW q \in Queries,
         ds' = [ds EXCEPT ![c] = [@ EXCEPT !.pc = "send chain", !.request = ds[c].request + 1,
                                           !.query = q]]
  PROVE  /\ ds' \in [Clients -> MainTypes] /\ Elsewhere(c)
         /\ ds'[c].pc = "send chain" /\ ds'[c].at = ds[c].at /\ ds'[c].request = ds[c].request + 1
         /\ ds'[c].res = ds[c].res /\ ds'[c].query = q
<1> DEFINE r == [ds[c] EXCEPT !.pc = "send chain", !.request = ds[c].request + 1, !.query = q]
<1>1. ds \in [Clients -> MainTypes] /\ ds' = [ds EXCEPT ![c] = r]
  BY DEF ShapeInv
<1>2. /\ r \in MainTypes /\ r.pc = "send chain" /\ r.at = ds[c].at
      /\ r.request = ds[c].request + 1 /\ r.res = ds[c].res /\ r.query = q
  <2>1. ds[c] \in MainTypes /\ ds[c].request + 1 \in Nat
    BY <1>1 DEF MainTypes
  <2>2. PICK n \in Nat : n = ds[c].request + 1
    BY <2>1
  <2> QED BY <2>1, <2>2 DEF MainTypes, Chained
<1> HIDE DEF r
<1> QED BY <1>1, <1>2 DEF Elsewhere

LEMMA NextSymbolEffect ==
  ASSUME ShapeInv, NEW c \in Clients, NEW result \in Outcomes, NextSymbol(c, result)
  PROVE  /\ ds' \in [Clients -> MainTypes] /\ Elsewhere(c)
         /\ ds'[c].pc = "find" /\ ds'[c].at = ds[c].at + 1 /\ ds'[c].request = ds[c].request + 1
         /\ ds'[c].res = ds[c].res /\ ds'[c].query = ds[c].query
         /\ verdict' \in [Clients -> Seq(Verdicts)]
         /\ \A d \in Clients \ {c} : verdict'[d] = verdict[d]
         /\ \E v \in Verdicts :
              /\ verdict'[c] = Append(verdict[c], v) /\ v.what = result
              /\ v.racing <=> storing[c] # None
              /\ v.foreign <=> (ds[c].pc # "find" /\ pending[c][ds[c].res] # c)
<1> DEFINE r == [ds[c] EXCEPT !.pc = "find", !.at = ds[c].at + 1, !.request = ds[c].request + 1]
<1>1. ds \in [Clients -> MainTypes] /\ ds' = [ds EXCEPT ![c] = r]
  BY DEF ShapeInv, NextSymbol
<1>2. /\ r \in MainTypes /\ r.pc = "find" /\ r.at = ds[c].at + 1
      /\ r.request = ds[c].request + 1 /\ r.res = ds[c].res /\ r.query = ds[c].query
  <2>1. ds[c] \in MainTypes
    BY <1>1
  <2>2. ds[c].request + 1 \in Nat /\ ds[c].at + 1 \in Nat \ {0}
    BY <2>1 DEF MainTypes
  <2> QED BY <2>1, <2>2 DEF MainTypes, Before
<1>3. PICK v \in Verdicts :
        /\ verdict' = [verdict EXCEPT ![c] = Append(@, v)] /\ v.what = result
        /\ v.racing <=> storing[c] # None
        /\ v.foreign <=> (ds[c].pc # "find" /\ pending[c][ds[c].res] # c)
  <2>1. PICK racing \in BOOLEAN : racing = (storing[c] # None)
    OBVIOUS
  <2>2. PICK foreign \in BOOLEAN :
          foreign = IF ds[c].pc = "find" THEN FALSE ELSE pending[c][ds[c].res] # c
    OBVIOUS
  <2> DEFINE u == [what |-> result, racing |-> racing, foreign |-> foreign]
  <2>3. verdict' = [verdict EXCEPT ![c] = Append(@, u)]
    BY <2>1, <2>2 DEF NextSymbol
  <2>4. u \in Verdicts
    BY DEF Verdicts
  <2>5. u.what = result
    OBVIOUS
  <2>6. u.racing <=> storing[c] # None
    BY <2>1
  <2>7. u.foreign <=> (ds[c].pc # "find" /\ pending[c][ds[c].res] # c)
    BY <2>2
  <2> HIDE DEF u
  <2> QED BY <2>3, <2>4, <2>5, <2>6, <2>7
<1>9. /\ ds' \in [Clients -> MainTypes] /\ Elsewhere(c) /\ ds'[c] = r
  <2> HIDE DEF r
  <2> QED BY <1>1, <1>2 DEF Elsewhere
<1>10. /\ verdict' \in [Clients -> Seq(Verdicts)] /\ verdict'[c] = Append(verdict[c], v)
       /\ \A d \in Clients \ {c} : verdict'[d] = verdict[d]
  <2>1. verdict \in [Clients -> Seq(Verdicts)]
    BY DEF ShapeInv
  <2>2. verdict' = [verdict EXCEPT ![c] = Append(@, v)]
    BY <1>3
  <2> QED BY <2>1, <2>2
<1> HIDE DEF r
<1> QED BY <1>2, <1>3, <1>9, <1>10

-----------------------------------------------------------------------------
(* What a step leaves alone *)

\* A client that a step is not about.
LEMMA SameMain ==
  ASSUME NEW c \in Clients, MainOf(c), ds'[c] = ds[c], scenario' = scenario,
         verdict'[c] = verdict[c], pending'[c] = pending[c]
  PROVE  MainOf(c)'
<1>1. Key(c)' = Key(c)
  BY DEF Key, Symbols
<1> QED BY <1>1 DEF MainOf, Chained, Waits

LEMMA SameOrder ==
  ASSUME NEW c \in Clients, OrderOf(c), ds'[c] = ds[c], scenario' = scenario,
         requests' = requests, answers' = answers, pipe'[c] = pipe[c], blind'[c] = blind[c],
         storing'[c] = storing[c], details'[c] = details[c], pending'[c] = pending[c]
  PROVE  OrderOf(c)'
<1>1. Key(c)' = Key(c)
  BY DEF Key, Symbols
<1>2. Stored(c)' = Stored(c) /\ (Completed(c) => Completed(c)')
  BY <1>1 DEF Stored, Completed
<1>3. \A w : (Requested(c, w) => Requested(c, w)') /\ (Answered(c, w) => Answered(c, w)')
  BY <1>1, <1>2 DEF Requested, Answered, Own
<1>4. Queued(c) => Queued(c)'
  BY <1>1, <1>2 DEF Queued, Own
<1> QED BY <1>1, <1>2, <1>3, <1>4 DEF OrderOf

LEMMA SameTraced ==
  ASSUME NEW c \in Clients, requests' = requests, answers' = answers,
         pipe'[c] = pipe[c], blind'[c] = blind[c], missed'[c] = missed[c], pending'[c] = pending[c]
  PROVE  \A id : Traced(c, id) => Traced(c, id)'
BY DEF Traced

LEMMA SameTrace ==
  ASSUME NEW c \in Clients, TraceOf(c), ds'[c] = ds[c], \A id : Traced(c, id) => Traced(c, id)'
  PROVE  TraceOf(c)'
BY DEF TraceOf, Chained, Waits

\* The numbers of the main thread grow.
LEMMA SameNumbers ==
  ASSUME NumberInv, \A d \in Clients : \A id \in Nat : Sent(d, id) => Sent(d, id)',
         \A d \in Clients : \A id \in Nat : UnderWay(d, id)' => UnderWay(d, id)
  PROVE  NumberInv'
BY DEF NumberInv

-----------------------------------------------------------------------------
(* The main thread *)

othersOfMain == <<scenario, answers, joined, pipe, blind, storing, details, missed>>

\* The verdict on a symbol: the next one is looked up.
LEMMA NextSymbolKeeps ==
  ASSUME Inv, NEW c \in Clients, NEW result \in Outcomes, NextSymbol(c, result),
         ds[c].pc \in {"find", "wait"}, UNCHANGED <<othersOfMain, requests, pending>>,
         sent' = [d \in Clients |-> sent'[d]]
  PROVE  Inv'
<1>0. ShapeInv /\ StoreInv /\ MainInv /\ NumberInv /\ OrderInv /\ TraceInv
  BY DEF Inv
<1>1. /\ ds' \in [Clients -> MainTypes] /\ Elsewhere(c)
      /\ ds'[c].pc = "find" /\ ds'[c].at = ds[c].at + 1 /\ ds'[c].request = ds[c].request + 1
  BY <1>0, NextSymbolEffect
<1>a. /\ verdict' \in [Clients -> Seq(Verdicts)]
      /\ \A d \in Clients \ {c} : verdict'[d] = verdict[d]
  BY <1>0, NextSymbolEffect
<1>2. PICK v \in Verdicts : verdict'[c] = Append(verdict[c], v)
  BY <1>0, NextSymbolEffect
<1>3. ds[c].at \in Nat \ {0} /\ ds[c].request \in Nat
  BY <1>0 DEF ShapeInv, MainTypes
<1>b. PICK n \in Nat : n = ds[c].request /\ ds'[c].request = n + 1
  BY <1>1, <1>3
<1>4. ShapeInv' /\ StoreInv'
  BY <1>0, <1>1, <1>a DEF ShapeInv, StoreInv, othersOfMain
<1>5. MainInv'
  <2>1. MainOf(c)'
    <3>1. Len(verdict'[c]) = ds'[c].at - 1
      <4>1. Len(verdict[c]) = ds[c].at - 1
        BY <1>0 DEF MainInv, MainOf
      <4>2. verdict[c] \in Seq(Verdicts)
        BY <1>0 DEF ShapeInv
      <4>3. Len(verdict'[c]) = Len(verdict[c]) + 1
        BY <1>2, <4>2
      <4> QED BY <1>1, <1>3, <4>1, <4>3
    <3>2. \A id \in DOMAIN pending'[c] : /\ id \in Nat /\ pending'[c][id] \in Clients \cup {None}
                                         /\ id < ds'[c].request
      <4>1. \A id \in DOMAIN pending[c] : id \in Nat /\ pending[c][id] \in Clients \cup {None} /\ id <= n
        BY <1>0, <1>b DEF MainInv, MainOf
      <4> QED BY <1>b, <4>1
    <3>3. ds'[c].request \in Nat
      BY <1>1, <1>3
    <3> QED BY <1>1, <3>1, <3>2, <3>3 DEF MainOf, Chained, Waits
  <2>2. \A d \in Clients \ {c} : MainOf(d)'
    BY <1>0, <1>1, <1>a, SameMain DEF Elsewhere, othersOfMain, MainInv
  <2> QED BY <2>1, <2>2 DEF MainInv
<1>6. NumberInv'
  <2>1. \A id \in Nat : Sent(c, id) => Sent(c, id)'
    <3>1. SUFFICES ASSUME NEW id \in Nat, Sent(c, id) PROVE Sent(c, id)'
      OBVIOUS
    <3>2. id < n \/ id = n
      BY <1>b, <3>1 DEF Sent, Waits
    <3>3. id < ds'[c].request
      BY <1>b, <3>2
    <3> QED BY <3>3 DEF Sent, Waits
  <2>2. \A d \in Clients \ {c} : \A id \in Nat : Sent(d, id) => Sent(d, id)'
    BY <1>1 DEF Sent, Elsewhere
  <2>3. \A d \in Clients : \A id \in Nat : UnderWay(d, id)' => UnderWay(d, id)
    BY DEF UnderWay, othersOfMain
  <2> QED BY <1>0, <2>1, <2>2, <2>3, SameNumbers
<1>7. OrderInv'
  <2>1. OrderOf(c)'
    BY <1>1 DEF OrderOf
  <2>2. \A d \in Clients \ {c} : OrderOf(d)'
    BY <1>0, <1>1, SameOrder DEF Elsewhere, othersOfMain, OrderInv
  <2> QED BY <2>1, <2>2 DEF OrderInv
<1>8. TraceInv'
  <2>1. TraceOf(c)'
    BY <1>1 DEF TraceOf, Chained, Waits
  <2>2. \A d \in Clients \ {c} : TraceOf(d)'
    BY <1>0, <1>1, SameTrace, SameTraced DEF Elsewhere, othersOfMain, TraceInv
  <2> QED BY <2>1, <2>2 DEF TraceInv
<1> QED BY <1>4, <1>5, <1>6, <1>7, <1>8 DEF Inv

\* A symbol that is not known is to be asked for, under a new number.
LEMMA AskKeeps ==
  ASSUME Inv, NEW c \in Clients, ds[c].pc = "find", NEW q \in parse_encoded_symbol(Key(c)),
         ds' = [ds EXCEPT ![c] = [@ EXCEPT !.pc = "send", !.query = q, !.res = ds[c].request]],
         UNCHANGED <<othersOfMain, requests, pending, verdict, sent>>
  PROVE  Inv'
<1>0. ShapeInv /\ StoreInv /\ MainInv /\ NumberInv /\ OrderInv /\ TraceInv
  BY DEF Inv
<1>1. ds[c].at \in Nat \ {0} /\ ds[c].request \in Nat /\ scenario \in Scenarios
  BY <1>0 DEF ShapeInv, MainTypes
<1>2. q \in Queries
  BY <1>1 DEF Queries, Asked, Key, Symbols
<1>3. /\ ds' \in [Clients -> MainTypes] /\ Elsewhere(c)
      /\ ds'[c].pc = "send" /\ ds'[c].at = ds[c].at /\ ds'[c].request = ds[c].request
      /\ ds'[c].res = ds[c].request /\ ds'[c].query = q
  BY <1>0, <1>2, AskEffect
<1>4. ShapeInv' /\ StoreInv'
  BY <1>0, <1>3 DEF ShapeInv, StoreInv, othersOfMain
<1>5. Key(c)' = Key(c)
  BY <1>3 DEF Key, Symbols, othersOfMain
<1>6. MainInv'
  <2>1. MainOf(c)'
    <3>1. MainOf(c)
      BY <1>0 DEF MainInv
    <3>2. \A id \in DOMAIN pending[c] : id \in Nat /\ pending[c][id] \in Clients \cup {None} /\ id < ds[c].request
      BY <1>1, <3>1 DEF MainOf, Waits
    <3>3. Len(verdict'[c]) = ds'[c].at - 1
      BY <1>3, <3>1 DEF MainOf
    <3>4. \A id \in DOMAIN pending'[c] : /\ id \in Nat /\ pending'[c][id] \in Clients \cup {None}
                                         /\ id <= ds'[c].request /\ id # ds'[c].request
      BY <1>1, <1>3, <3>2
    <3> QED BY <1>2, <1>3, <1>5, <3>3, <3>4 DEF MainOf, Chained, Waits
  <2>2. \A d \in Clients \ {c} : MainOf(d)'
    BY <1>0, <1>3, SameMain DEF Elsewhere, othersOfMain, MainInv
  <2> QED BY <2>1, <2>2 DEF MainInv
<1>7. NumberInv'
  <2>1. \A id \in Nat : Sent(c, id) => Sent(c, id)'
    BY <1>1, <1>3 DEF Sent, Waits
  <2>2. \A d \in Clients \ {c} : \A id \in Nat : Sent(d, id) => Sent(d, id)'
    BY <1>3 DEF Sent, Elsewhere
  <2>3. \A d \in Clients : \A id \in Nat : UnderWay(d, id)' => UnderWay(d, id)
    BY DEF UnderWay, othersOfMain
  <2> QED BY <1>0, <2>1, <2>2, <2>3, SameNumbers
<1>8. OrderInv'
  <2>1. ~ UnderWay(c, ds[c].request)
    <3>1. PICK n \in Nat : n = ds[c].request
      BY <1>1
    <3>2. ~ (n < n) /\ ds[c].pc \notin {"register", "register chain"} \cup Waits
      BY <3>1 DEF Waits
    <3>3. ~ Sent(c, n)
      BY <3>1, <3>2 DEF Sent
    <3> QED BY <1>0, <3>1, <3>3 DEF NumberInv
  <2>2. \A w : Requested(c, w)' /\ Answered(c, w)'
    BY <1>3, <2>1 DEF UnderWay, Requested, Answered, Own, othersOfMain
  <2>3. Queued(c)'
    BY <1>3, <2>1 DEF UnderWay, Queued, Own, othersOfMain
  <2>4. Completed(c)'
    BY <1>0, <1>3 DEF MainInv, MainOf, Completed, Waits
  <2>5. OrderOf(c)'
    BY <2>2, <2>3, <2>4 DEF OrderOf
  <2>6. \A d \in Clients \ {c} : OrderOf(d)'
    BY <1>0, <1>3, SameOrder DEF Elsewhere, othersOfMain, OrderInv
  <2> QED BY <2>5, <2>6 DEF OrderInv
<1>9. TraceInv'
  <2>1. TraceOf(c)'
    BY <1>3 DEF TraceOf, Chained, Waits
  <2>2. \A d \in Clients \ {c} : TraceOf(d)'
    BY <1>0, <1>3, SameTrace, SameTraced DEF Elsewhere, othersOfMain, TraceInv
  <2> QED BY <2>1, <2>2 DEF TraceInv
<1> QED BY <1>4, <1>6, <1>7, <1>8, <1>9 DEF Inv

LEMMA SendKeeps ==
  ASSUME Inv, NEW c \in Clients, Send(c)
  PROVE  Inv'
<1>0. ShapeInv /\ StoreInv /\ MainInv /\ NumberInv /\ OrderInv /\ TraceInv
  BY DEF Inv
<1>1. /\ ds[c].pc \in {"send", "send chain"}
      /\ Go(c, IF ds[c].pc = "send" THEN "register" ELSE "register chain")
      /\ UNCHANGED <<othersOfMain, pending, verdict, sent>>
  BY DEF Send, gatewayVars, listenerVars, othersOfMain
<1>2. PICK n \in Nat : n = ds[c].request
  BY <1>0 DEF ShapeInv, MainTypes
<1>3. PICK q \in Queries : q = ds[c].query
  BY <1>0, <1>1 DEF MainInv, MainOf
<1>4. PICK x \in Requests : x = [client |-> c, id |-> n, query |-> q]
  BY DEF Requests
<1>5. requests \in Seq(Requests) /\ requests' = Append(requests, x)
  BY <1>0, <1>2, <1>3, <1>4 DEF ShapeInv, Send
<1>6. /\ requests' \in Seq(Requests) /\ Len(requests) \in Nat /\ Len(requests') = Len(requests) + 1
      /\ \A i \in 1 .. Len(requests) : requests'[i] = requests[i]
      /\ requests'[Len(requests) + 1] = x
  BY <1>5
<1>7. /\ ds' \in [Clients -> MainTypes] /\ Elsewhere(c)
      /\ ds'[c].pc = IF ds[c].pc = "send" THEN "register" ELSE "register chain"
      /\ ds'[c].at = ds[c].at /\ ds'[c].request = ds[c].request
      /\ ds'[c].res = ds[c].res /\ ds'[c].query = ds[c].query
  BY <1>0, <1>1, GoEffect DEF Before, Chained
<1>8. Key(c)' = Key(c)
  BY <1>1, <1>7 DEF Key, Symbols, othersOfMain
<1>9. ShapeInv' /\ StoreInv'
  BY <1>0, <1>1, <1>6, <1>7 DEF ShapeInv, StoreInv, othersOfMain
<1>10. MainInv'
  <2>1. MainOf(c)'
    <3>1. MainOf(c)
      BY <1>0 DEF MainInv
    <3> QED BY <1>1, <1>7, <1>8, <3>1 DEF MainOf, Chained, Waits
  <2>2. \A d \in Clients \ {c} : MainOf(d)'
    BY <1>0, <1>1, <1>7, SameMain DEF Elsewhere, othersOfMain, MainInv
  <2> QED BY <2>1, <2>2 DEF MainInv
<1>11. NumberInv'
  <2>1. \A id \in Nat : Sent(c, id) => Sent(c, id)'
    BY <1>1, <1>7 DEF Sent, Waits
  <2>2. \A d \in Clients \ {c} : \A id \in Nat : Sent(d, id) => Sent(d, id)'
    BY <1>7 DEF Sent, Elsewhere
  <2>3. Sent(c, n)'
    BY <1>2, <1>7 DEF Sent, Waits
  <2>4. ASSUME NEW d \in Clients, NEW id \in Nat, UnderWay(d, id)' PROVE Sent(d, id)'
    <3>1. CASE d = c /\ id = n
      BY <2>3, <3>1
    <3>2. CASE ~ (d = c /\ id = n)
      <4>1. UnderWay(d, id)
        <5>1. \A i \in 1 .. Len(requests') : requests'[i].client = d /\ requests'[i].id = id
                 => i # Len(requests) + 1
          BY <1>4, <1>6, <3>2
        <5>2. \A i \in 1 .. Len(requests') : i # Len(requests) + 1
                 => i \in 1 .. Len(requests) /\ requests'[i] = requests[i]
          BY <1>6
        <5> QED BY <1>1, <2>4, <5>1, <5>2 DEF UnderWay, othersOfMain
      <4> QED BY <1>0, <2>1, <2>2, <4>1 DEF NumberInv
    <3> QED BY <3>1, <3>2
  <2> QED BY <2>4 DEF NumberInv
<1>12. OrderInv'
  <2>1. OrderOf(c)'
    <3>1. SUFFICES ASSUME ~ blind'[c], NEW w \in Dollars, symbol_from_contract(w) = Key(c)
                   PROVE  Requested(c, w)' /\ Answered(c, w)' /\ Queued(c)' /\ Completed(c)'
      BY <1>8 DEF OrderOf
    <3>2. Requested(c, w) /\ Answered(c, w) /\ Queued(c) /\ Completed(c)
      BY <1>0, <1>1, <3>1 DEF OrderInv, OrderOf, othersOfMain
    <3>3. Stored(c)' = Stored(c)
      BY <1>1, <1>8 DEF Stored, othersOfMain
    <3>4. Answered(c, w)' /\ Queued(c)' /\ Completed(c)'
      BY <1>1, <1>7, <1>8, <3>2, <3>3 DEF Answered, Queued, Completed, Own, othersOfMain
    <3>5. n = ds[c].res => w \in Matches(q)
      <4>1. CASE ds[c].pc = "send"
        <5>1. q \in parse_encoded_symbol(Key(c))
          BY <1>0, <1>3, <4>1 DEF MainInv, MainOf
        <5> QED BY <3>1, <5>1, AnswerHasSymbol
      <4>2. CASE ds[c].pc = "send chain"
        <5>1. n = ds[c].res + 1 /\ ds[c].res \in Nat
          BY <1>0, <1>2, <4>2 DEF MainInv, MainOf, Chained, ShapeInv, MainTypes
        <5> QED BY <5>1
      <4> QED BY <1>1, <4>1, <4>2
    <3>6. Requested(c, w)'
      <4>1. SUFFICES ASSUME NEW i \in 1 .. Len(requests) + 1, requests'[i].client = c,
                            requests'[i].id = ds[c].res
                     PROVE  w \in Matches(requests'[i].query)
        BY <1>6, <1>7 DEF Requested, Own
      <4>2. CASE i = Len(requests) + 1
        BY <1>4, <1>6, <3>5, <4>1, <4>2
      <4>3. CASE i # Len(requests) + 1
        <5>1. i \in 1 .. Len(requests) /\ requests'[i] = requests[i]
          BY <1>6, <4>3
        <5> QED BY <3>2, <4>1, <5>1 DEF Requested, Own
      <4> QED BY <4>2, <4>3
    <3> QED BY <3>4, <3>6
  <2>2. ASSUME NEW d \in Clients \ {c} PROVE OrderOf(d)'
    <3>0. ds'[d] = ds[d] /\ Key(d)' = Key(d)
      BY <1>1, <1>7 DEF Elsewhere, Key, Symbols, othersOfMain
    <3>1. SUFFICES ASSUME ~ blind'[d], ds[d].pc # "find", NEW w \in Dollars,
                          symbol_from_contract(w) = Key(d)
                   PROVE  Requested(d, w)' /\ Answered(d, w)' /\ Queued(d)' /\ Completed(d)'
      BY <3>0 DEF OrderOf
    <3>2. Requested(d, w) /\ Answered(d, w) /\ Queued(d) /\ Completed(d)
      BY <1>0, <1>1, <3>1 DEF OrderInv, OrderOf, othersOfMain
    <3>3. Stored(d)' = Stored(d)
      BY <1>1, <3>0 DEF Stored, othersOfMain
    <3>4. Answered(d, w)' /\ Queued(d)' /\ Completed(d)'
      BY <1>1, <3>0, <3>2, <3>3 DEF Answered, Queued, Completed, Own, othersOfMain
    <3>5. Requested(d, w)'
      <4>1. SUFFICES ASSUME NEW i \in 1 .. Len(requests) + 1, requests'[i].client = d,
                            requests'[i].id = ds[d].res
                     PROVE  w \in Matches(requests'[i].query)
        BY <1>6, <3>0 DEF Requested, Own
      <4>2. i # Len(requests) + 1
        BY <1>4, <1>6, <4>1
      <4>3. i \in 1 .. Len(requests) /\ requests'[i] = requests[i]
        BY <1>6, <4>2
      <4> QED BY <3>2, <4>1, <4>3 DEF Requested, Own
    <3> QED BY <3>4, <3>5
  <2> QED BY <2>1, <2>2 DEF OrderInv
<1>13. TraceInv'
  <2>1. ASSUME NEW d \in Clients PROVE \A id : Traced(d, id) => Traced(d, id)'
    <3>1. \A id : (\E i \in 1 .. Len(requests) : requests[i].client = d /\ requests[i].id = id)
                   => \E i \in 1 .. Len(requests') : requests'[i].client = d /\ requests'[i].id = id
      BY <1>6
    <3> QED BY <1>1, <3>1 DEF Traced, othersOfMain
  <2>2. Traced(c, n)'
    <3>1. \E i \in 1 .. Len(requests') : requests'[i].client = c /\ requests'[i].id = n
      BY <1>4, <1>6
    <3> QED BY <3>1 DEF Traced
  <2>3. TraceOf(c)'
    <3>1. SUFFICES ASSUME NEW id \in Nat, id = ds[c].res \/ id = n PROVE Traced(c, id)'
      BY <1>2, <1>7 DEF TraceOf
    <3>2. CASE ds[c].pc = "send"
      <4>1. ds[c].res = n
        BY <1>0, <1>2, <3>2 DEF MainInv, MainOf
      <4> QED BY <2>2, <3>1, <4>1
    <3>3. CASE ds[c].pc = "send chain"
      <4>1. id = ds[c].res => Traced(c, id)
        BY <1>0, <3>3 DEF TraceInv, TraceOf, Chained, Waits
      <4> QED BY <2>1, <2>2, <3>1, <4>1
    <3> QED BY <1>1, <3>2, <3>3
  <2>4. \A d \in Clients \ {c} : TraceOf(d)'
    BY <1>0, <1>7, <2>1, SameTrace DEF Elsewhere, TraceInv
  <2> QED BY <2>3, <2>4 DEF TraceInv
<1> QED BY <1>9, <1>10, <1>11, <1>12, <1>13 DEF Inv

LEMMA RegisterKeeps ==
  ASSUME Inv, NEW c \in Clients, Register(c)
  PROVE  Inv'
<1>0. ShapeInv /\ StoreInv /\ MainInv /\ NumberInv /\ OrderInv /\ TraceInv
  BY DEF Inv
<1>1. /\ ds[c].pc \in {"register", "register chain"}
      /\ UNCHANGED <<othersOfMain, requests, verdict, sent>>
  BY DEF Register, gatewayVars, othersOfMain
<1>2. PICK n \in Nat : n = ds[c].request
  BY <1>0 DEF ShapeInv, MainTypes
<1>3. PICK p : p = Assign(pending[c], n, None)
  OBVIOUS
<1>4. pending' = [pending EXCEPT ![c] = p] /\ pending = [d \in Clients |-> pending[d]]
  BY <1>0, <1>2, <1>3 DEF Register, ShapeInv
<1>5. /\ pending' = [d \in Clients |-> pending'[d]] /\ pending'[c] = p
      /\ \A d \in Clients \ {c} : pending'[d] = pending[d]
  BY <1>4
<1>6. /\ DOMAIN p = DOMAIN pending[c] \cup {n} /\ p[n] = None
      /\ \A id \in DOMAIN pending[c] : id # n => p[id] = pending[c][id]
  BY <1>3 DEF Assign
<1>7. MainOf(c)
  BY <1>0 DEF MainInv
<1>8. n \notin DOMAIN pending[c]
  BY <1>1, <1>2, <1>7 DEF MainOf, Waits
<1>9. /\ ds' \in [Clients -> MainTypes] /\ Elsewhere(c)
      /\ ds'[c].at = ds[c].at /\ ds'[c].res = ds[c].res
      /\ \/ /\ ds[c].pc = "register" /\ ds'[c].pc = "send chain" /\ ds'[c].request = n + 1
            /\ ds'[c].query \in Queries
         \/ /\ ds[c].pc = "register" /\ ds'[c].pc = "wait" /\ ds'[c].request = n
            /\ ds'[c].query = ds[c].query
         \/ /\ ds[c].pc = "register chain" /\ ds'[c].pc = "wait chain" /\ ds'[c].request = n
            /\ ds'[c].query = ds[c].query
  <2>1. CASE /\ ds[c].pc = "register"
             /\ ds' = [ds EXCEPT ![c] = [@ EXCEPT !.pc = "send chain", !.request = ds[c].request + 1,
                                                  !.query = ChainQuery(ds[c].query.symbol)]]
    <3>1. PICK q \in Asked : q = ds[c].query
      <4>1. ds[c].at \in Nat \ {0} /\ scenario \in Scenarios
        BY <1>0 DEF ShapeInv, MainTypes
      <4>2. ds[c].query \in parse_encoded_symbol(Key(c))
        BY <1>7, <2>1 DEF MainOf
      <4> QED BY <4>1, <4>2 DEF Asked, Key, Symbols
    <3>2. PICK x \in Queries : x = ChainQuery(ds[c].query.symbol)
      BY <3>1 DEF Queries
    <3>3. ds' = [ds EXCEPT ![c] = [@ EXCEPT !.pc = "send chain", !.request = ds[c].request + 1,
                                            !.query = x]]
      BY <2>1, <3>2
    <3> QED BY <1>0, <1>2, <2>1, <3>3, ChainEffect
  <2>2. CASE ds[c].pc = "register" /\ Go(c, "wait")
    BY <1>0, <1>2, <2>2, GoEffect DEF Waits
  <2>3. CASE ds[c].pc = "register chain" /\ Go(c, "wait chain")
    BY <1>0, <1>2, <2>3, GoEffect DEF Waits
  <2> QED BY <2>1, <2>2, <2>3 DEF Register
<1>10. Key(c)' = Key(c)
  BY <1>1, <1>9 DEF Key, Symbols, othersOfMain
<1>11. ShapeInv' /\ StoreInv'
  BY <1>0, <1>1, <1>5, <1>9 DEF ShapeInv, StoreInv, othersOfMain
<1>r. PICK m \in Nat : m = ds[c].res /\ ds'[c].res = m
  BY <1>0, <1>9 DEF ShapeInv, MainTypes
<1>s. /\ ds[c].pc = "register" => m = n
      /\ ds[c].pc = "register chain" => n = m + 1
      /\ ds[c].pc = "register chain" => m \in DOMAIN pending[c]
  BY <1>2, <1>7, <1>r DEF MainOf, Chained
<1>12. MainInv'
  <2>1. MainOf(c)'
    <3>1. Len(verdict'[c]) = ds'[c].at - 1
      BY <1>1, <1>7, <1>9 DEF MainOf
    <3>2. \A id \in DOMAIN p : id \in Nat /\ p[id] \in Clients \cup {None} /\ id <= n
      <4>1. \A id \in DOMAIN pending[c] : id \in Nat /\ pending[c][id] \in Clients \cup {None} /\ id <= n
        BY <1>2, <1>7 DEF MainOf
      <4>2. n <= n
        OBVIOUS
      <4> QED BY <1>6, <4>1, <4>2
    <3>3. m \in DOMAIN p
      BY <1>1, <1>6, <1>s
    <3>4. CASE ds'[c].pc = "send chain"
      <4>1. ds[c].pc = "register" /\ ds'[c].request = n + 1 /\ ds'[c].query \in Queries
        BY <1>9, <3>4
      <4>2. PICK k \in Nat : k = n + 1 /\ ds'[c].request = k
        BY <4>1
      <4>3. k = m + 1
        BY <1>s, <4>1, <4>2
      <4>4. \A id \in DOMAIN p : id \in Nat /\ p[id] \in Clients \cup {None} /\ id <= k /\ id # k
        BY <3>2, <4>2
      <4> QED BY <1>5, <1>r, <3>1, <3>3, <3>4, <4>1, <4>2, <4>3, <4>4 DEF MainOf, Chained, Waits
    <3>5. CASE ds'[c].pc = "wait"
      <4>1. ds[c].pc = "register" /\ ds'[c].request = n /\ ds'[c].query \in Queries
        BY <1>7, <1>9, <3>5 DEF MainOf
      <4>2. m = n
        BY <1>s, <4>1
      <4> QED BY <1>5, <1>r, <3>1, <3>2, <3>3, <3>5, <4>1, <4>2 DEF MainOf, Chained, Waits
    <3>6. CASE ds'[c].pc = "wait chain"
      <4>1. ds[c].pc = "register chain" /\ ds'[c].request = n /\ ds'[c].query \in Queries
        BY <1>7, <1>9, <3>6 DEF MainOf
      <4>2. n = m + 1
        BY <1>s, <4>1
      <4> QED BY <1>5, <1>6, <1>r, <3>1, <3>2, <3>3, <3>6, <4>1, <4>2 DEF MainOf, Chained, Waits
    <3> QED BY <1>9, <3>4, <3>5, <3>6
  <2>2. \A d \in Clients \ {c} : MainOf(d)'
    BY <1>0, <1>1, <1>5, <1>9, SameMain DEF Elsewhere, othersOfMain, MainInv
  <2> QED BY <2>1, <2>2 DEF MainInv
<1>13. NumberInv'
  <2>1. \A id \in Nat : Sent(c, id) => Sent(c, id)'
    <3>1. SUFFICES ASSUME NEW id \in Nat, Sent(c, id) PROVE Sent(c, id)'
      OBVIOUS
    <3>2. id <= n
      <4>1. id < ds[c].request \/ id = ds[c].request
        BY <3>1 DEF Sent
      <4> QED BY <1>2, <4>1
    <3>3. CASE ds'[c].pc = "send chain"
      <4>1. ds'[c].request = n + 1
        BY <1>9, <3>3
      <4>2. PICK k \in Nat : k = n + 1
        OBVIOUS
      <4>3. id < k
        BY <3>2, <4>2
      <4> QED BY <4>1, <4>2, <4>3 DEF Sent
    <3>4. CASE ds'[c].pc # "send chain"
      <4>1. ds'[c].request = n /\ ds'[c].pc \in Waits
        BY <1>9, <3>4 DEF Waits
      <4>2. id < n \/ id = n
        BY <3>2
      <4> QED BY <4>1, <4>2 DEF Sent
    <3> QED BY <3>3, <3>4
  <2>2. \A d \in Clients \ {c} : \A id \in Nat : Sent(d, id) => Sent(d, id)'
    BY <1>9 DEF Sent, Elsewhere
  <2>3. \A d \in Clients : \A id \in Nat : UnderWay(d, id)' => UnderWay(d, id)
    BY <1>1 DEF UnderWay, othersOfMain
  <2> QED BY <1>0, <2>1, <2>2, <2>3, SameNumbers
<1>14. OrderInv'
  <2>1. OrderOf(c)'
    <3>1. SUFFICES ASSUME ~ blind'[c], NEW w \in Dollars, symbol_from_contract(w) = Key(c)
                   PROVE  Requested(c, w)' /\ Answered(c, w)' /\ Queued(c)' /\ Completed(c)'
      BY <1>10 DEF OrderOf
    <3>2. Requested(c, w) /\ Answered(c, w) /\ Queued(c) /\ Completed(c)
      BY <1>0, <1>1, <3>1 DEF OrderInv, OrderOf, othersOfMain
    <3>3. Stored(c)' = Stored(c)
      BY <1>1, <1>10 DEF Stored, othersOfMain
    <3>4. Requested(c, w)' /\ Answered(c, w)' /\ Queued(c)'
      BY <1>1, <1>9, <1>10, <3>2, <3>3 DEF Requested, Answered, Queued, Own, othersOfMain
    <3>5. p[m] = c => m \in DOMAIN pending[c] /\ pending[c][m] = c
      <4>1. None # c
        BY ContractManagerAssumption
      <4> QED BY <1>1, <1>6, <1>s, <4>1
    <3>6. Completed(c)'
      BY <1>1, <1>5, <1>10, <1>r, <3>2, <3>5 DEF Completed, othersOfMain
    <3> QED BY <3>4, <3>6
  <2>2. \A d \in Clients \ {c} : OrderOf(d)'
    BY <1>0, <1>1, <1>5, <1>9, SameOrder DEF Elsewhere, othersOfMain, OrderInv
  <2> QED BY <2>1, <2>2 DEF OrderInv
<1>15. TraceInv'
  <2>1. \A id : Traced(c, id) => Traced(c, id)'
    <3>1. \A id : id \in DOMAIN pending[c] /\ pending[c][id] # None => id \in DOMAIN p /\ p[id] # None
      BY <1>6, <1>8
    <3> QED BY <1>1, <1>5, <3>1 DEF Traced, othersOfMain
  <2>2. Traced(c, m)
    BY <1>0, <1>1, <1>r DEF TraceInv, TraceOf, Chained, Waits
  <2>3. ds[c].pc = "register chain" => Traced(c, n)
    BY <1>0, <1>2 DEF TraceInv, TraceOf
  <2>4. TraceOf(c)'
    <3>1. SUFFICES ASSUME NEW id \in Nat,
                          id = m \/ (id = ds'[c].request /\ ds'[c].pc \in {"register chain", "wait chain"})
                   PROVE  Traced(c, id)'
      BY <1>r DEF TraceOf
    <3>2. CASE id = m
      BY <2>1, <2>2, <3>2
    <3>3. CASE id = ds'[c].request /\ ds'[c].pc \in {"register chain", "wait chain"}
      <4>1. ds[c].pc = "register chain" /\ id = n
        BY <1>9, <3>3
      <4> QED BY <2>1, <2>3, <4>1
    <3> QED BY <3>1, <3>2, <3>3
  <2>5. \A d \in Clients \ {c} : TraceOf(d)'
    BY <1>0, <1>1, <1>5, <1>9, SameTrace, SameTraced DEF Elsewhere, othersOfMain, TraceInv
  <2> QED BY <2>4, <2>5 DEF TraceInv
<1> QED BY <1>11, <1>12, <1>13, <1>14, <1>15 DEF Inv

\* The chain's wait is over.
LEMMA GetChainKeeps ==
  ASSUME Inv, NEW c \in Clients, GetChain(c)
  PROVE  Inv'
<1>0. ShapeInv /\ StoreInv /\ MainInv /\ NumberInv /\ OrderInv /\ TraceInv
  BY DEF Inv
<1>1. /\ ds[c].pc = "wait chain" /\ Go(c, "wait")
      /\ UNCHANGED <<othersOfMain, requests, pending, verdict, sent>>
  BY DEF GetChain, gatewayVars, listenerVars, othersOfMain
<1>2. /\ ds' \in [Clients -> MainTypes] /\ Elsewhere(c)
      /\ ds'[c].pc = "wait" /\ ds'[c].at = ds[c].at /\ ds'[c].request = ds[c].request
      /\ ds'[c].res = ds[c].res /\ ds'[c].query = ds[c].query
  BY <1>0, <1>1, GoEffect DEF Waits
<1>3. Key(c)' = Key(c)
  BY <1>1, <1>2 DEF Key, Symbols, othersOfMain
<1>4. ShapeInv' /\ StoreInv'
  BY <1>0, <1>1, <1>2 DEF ShapeInv, StoreInv, othersOfMain
<1>5. MainInv'
  <2>1. MainOf(c)'
    <3>1. MainOf(c)
      BY <1>0 DEF MainInv
    <3>2. PICK n \in Nat, m \in Nat : n = ds[c].request /\ m = ds[c].res /\ m <= n
      <4>1. ds[c].request = ds[c].res + 1 /\ ds[c].res \in Nat
        BY <1>0, <1>1, <3>1 DEF MainOf, ShapeInv, MainTypes
      <4> QED BY <4>1
    <3> QED BY <1>1, <1>2, <1>3, <3>1, <3>2 DEF MainOf, Chained, Waits
  <2>2. \A d \in Clients \ {c} : MainOf(d)'
    BY <1>0, <1>1, <1>2, SameMain DEF Elsewhere, othersOfMain, MainInv
  <2> QED BY <2>1, <2>2 DEF MainInv
<1>6. NumberInv'
  <2>1. \A id \in Nat : Sent(c, id) => Sent(c, id)'
    BY <1>1, <1>2 DEF Sent, Waits
  <2>2. \A d \in Clients \ {c} : \A id \in Nat : Sent(d, id) => Sent(d, id)'
    BY <1>2 DEF Sent, Elsewhere
  <2>3. \A d \in Clients : \A id \in Nat : UnderWay(d, id)' => UnderWay(d, id)
    BY <1>1 DEF UnderWay, othersOfMain
  <2> QED BY <1>0, <2>1, <2>2, <2>3, SameNumbers
<1>7. OrderInv'
  <2>1. OrderOf(c)'
    <3>1. SUFFICES ASSUME ~ blind'[c], NEW w \in Dollars, symbol_from_contract(w) = Key(c)
                   PROVE  Requested(c, w)' /\ Answered(c, w)' /\ Queued(c)' /\ Completed(c)'
      BY <1>3 DEF OrderOf
    <3>2. Requested(c, w) /\ Answered(c, w) /\ Queued(c) /\ Completed(c)
      BY <1>0, <1>1, <3>1 DEF OrderInv, OrderOf, othersOfMain
    <3>3. Stored(c)' = Stored(c)
      BY <1>1, <1>3 DEF Stored, othersOfMain
    <3> QED BY <1>1, <1>2, <1>3, <3>2, <3>3
            DEF Requested, Answered, Queued, Completed, Own, othersOfMain
  <2>2. \A d \in Clients \ {c} : OrderOf(d)'
    BY <1>0, <1>1, <1>2, SameOrder DEF Elsewhere, othersOfMain, OrderInv
  <2> QED BY <2>1, <2>2 DEF OrderInv
<1>8. TraceInv'
  <2>1. \A d \in Clients : \A id : Traced(d, id) => Traced(d, id)'
    BY <1>1, SameTraced DEF othersOfMain
  <2>2. TraceOf(c)'
    BY <1>0, <1>1, <1>2, <2>1 DEF TraceInv, TraceOf, Chained, Waits
  <2>3. \A d \in Clients \ {c} : TraceOf(d)'
    BY <1>0, <1>2, <2>1, SameTrace DEF Elsewhere, TraceInv
  <2> QED BY <2>2, <2>3 DEF TraceInv
<1> QED BY <1>4, <1>5, <1>6, <1>7, <1>8 DEF Inv

LEMMA FindKeeps ==
  ASSUME Inv, NEW c \in Clients, Find(c)
  PROVE  Inv'
<1>0. ShapeInv /\ StoreInv
  BY DEF Inv
<1>1. ds[c].pc = "find" /\ UNCHANGED <<othersOfMain, requests, pending>>
  BY DEF Find, gatewayVars, listenerVars, othersOfMain
<1>2. sent = [d \in Clients |-> sent[d]]
  BY <1>0 DEF ShapeInv
<1>3. PICK found \in findContract(c, Key(c)) :
        \/ Subscribe(c, found, Feeds(c)) /\ NextSymbol(c, "found")
        \/ NextSymbol(c, "bad symbol") /\ sent' = sent
        \/ /\ \E q \in parse_encoded_symbol(Key(c)) :
                ds' = [ds EXCEPT ![c] = [@ EXCEPT !.pc = "send", !.query = q, !.res = ds[c].request]]
           /\ UNCHANGED <<verdict, sent>>
  BY DEF Find
<1>4. CASE Subscribe(c, found, Feeds(c)) /\ NextSymbol(c, "found")
  <2>1. PICK result \in Outcomes : result = "found"
    BY DEF Outcomes
  <2>2. sent' = [d \in Clients |-> sent'[d]]
    BY <1>2, <1>4 DEF Subscribe
  <2>3. NextSymbol(c, result)
    BY <1>4, <2>1
  <2> QED BY <1>1, <2>2, <2>3, NextSymbolKeeps
<1>5. CASE NextSymbol(c, "bad symbol") /\ sent' = sent
  <2>1. PICK result \in Outcomes : result = "bad symbol"
    BY DEF Outcomes
  <2>2. sent' = [d \in Clients |-> sent'[d]]
    BY <1>2, <1>5
  <2>3. NextSymbol(c, result)
    BY <1>5, <2>1
  <2> QED BY <1>1, <2>2, <2>3, NextSymbolKeeps
<1>6. CASE /\ \E q \in parse_encoded_symbol(Key(c)) :
                ds' = [ds EXCEPT ![c] = [@ EXCEPT !.pc = "send", !.query = q, !.res = ds[c].request]]
           /\ UNCHANGED <<verdict, sent>>
  BY <1>1, <1>6, AskKeeps
<1> QED BY <1>3, <1>4, <1>5, <1>6

LEMMA GetKeeps ==
  ASSUME Inv, NEW c \in Clients, GetTimesOut(c) \/ GetReady(c)
  PROVE  Inv'
<1>0. ShapeInv /\ StoreInv
  BY DEF Inv
<1>1. ds[c].pc = "wait" /\ UNCHANGED <<othersOfMain, requests, pending>>
  BY DEF GetTimesOut, GetReady, gatewayVars, listenerVars, othersOfMain
<1>2. sent = [d \in Clients |-> sent[d]]
  BY <1>0 DEF ShapeInv
<1>3. \/ \E found : /\ Subscribe(c, found, FeedsAndDepth(c))
                    /\ NextSymbol(c, "found")
      \/ NextSymbol(c, "unknown") /\ sent' = sent
      \/ NextSymbol(c, "timed out") /\ sent' = sent
  BY DEF GetTimesOut, GetReady
<1>4. CASE \E found : /\ Subscribe(c, found, FeedsAndDepth(c))
                      /\ NextSymbol(c, "found")
  <2>0. PICK found : /\ Subscribe(c, found, FeedsAndDepth(c))
                     /\ NextSymbol(c, "found")
    BY <1>4
  <2>1. PICK result \in Outcomes : result = "found"
    BY DEF Outcomes
  <2>2. sent' = [d \in Clients |-> sent'[d]]
    BY <1>2, <2>0 DEF Subscribe
  <2>3. NextSymbol(c, result)
    BY <2>0, <2>1
  <2> QED BY <1>1, <2>2, <2>3, NextSymbolKeeps
<1>5. CASE NextSymbol(c, "unknown") /\ sent' = sent
  <2>1. PICK result \in Outcomes : result = "unknown"
    BY DEF Outcomes
  <2>2. sent' = [d \in Clients |-> sent'[d]]
    BY <1>2, <1>5
  <2>3. NextSymbol(c, result)
    BY <1>5, <2>1
  <2> QED BY <1>1, <2>2, <2>3, NextSymbolKeeps
<1>6. CASE NextSymbol(c, "timed out") /\ sent' = sent
  <2>1. PICK result \in Outcomes : result = "timed out"
    BY DEF Outcomes
  <2>2. sent' = [d \in Clients |-> sent'[d]]
    BY <1>2, <1>6
  <2>3. NextSymbol(c, result)
    BY <1>6, <2>1
  <2> QED BY <1>1, <2>2, <2>3, NextSymbolKeeps
<1> QED BY <1>3, <1>4, <1>5, <1>6

-----------------------------------------------------------------------------
(* cm and the gateway *)

\* Nothing that the main threads do.
LEMMA MainsRest ==
  ASSUME UNCHANGED <<scenario, ds, verdict, pending>>, MainInv
  PROVE  /\ MainInv'
         /\ \A c \in Clients : Key(c)' = Key(c)
         /\ \A c \in Clients : \A id \in Nat : Sent(c, id) => Sent(c, id)'
<1>1. MainInv'
  BY SameMain DEF MainInv
<1>2. \A c \in Clients : Key(c)' = Key(c)
  BY DEF Key, Symbols
<1>3. \A c \in Clients : \A id \in Nat : Sent(c, id) => Sent(c, id)'
  BY DEF Sent
<1> QED BY <1>1, <1>2, <1>3

LEMMA AskingKeeps ==
  ASSUME Inv, Ask
  PROVE  Inv'
<1>0. ShapeInv /\ StoreInv /\ MainInv /\ NumberInv /\ OrderInv /\ TraceInv
  BY DEF Inv
<1>1. UNCHANGED <<scenario, joined, pipe, blind, storing, details, pending, missed, ds, verdict, sent>>
  BY DEF Ask, listenerVars
<1>2. requests \in Seq(Requests) /\ requests # << >> /\ requests' = Tail(requests)
  BY <1>0 DEF ShapeInv, Ask
<1>3. /\ requests' \in Seq(Requests) /\ Len(requests) \in Nat \ {0}
      /\ Len(requests') = Len(requests) - 1
      /\ \A i \in 1 .. Len(requests') : /\ i + 1 \in 1 .. Len(requests)
                                        /\ requests'[i] = requests[i + 1]
      /\ \A i \in 1 .. Len(requests) : i # 1 => /\ i - 1 \in 1 .. Len(requests')
                                                /\ requests'[i - 1] = requests[i]
      /\ 1 \in 1 .. Len(requests) /\ Head(requests) = requests[1]
  BY <1>2
<1>4. PICK r \in Requests : r = requests[1]
  BY <1>2, <1>3
<1>5. PICK b \in Answers : b = [client |-> r.client, id |-> r.id, left |-> Matches(r.query)]
  BY <1>4 DEF Requests, Answers, Matches
<1>6. answers' = answers \cup {b} /\ b.client = r.client /\ b.id = r.id /\ b.left = Matches(r.query)
  BY <1>3, <1>4, <1>5 DEF Ask
<1>7. ShapeInv' /\ StoreInv'
  BY <1>0, <1>1, <1>3, <1>6 DEF ShapeInv, StoreInv
<1>8. /\ MainInv'
      /\ \A c \in Clients : Key(c)' = Key(c)
      /\ \A c \in Clients : \A id \in Nat : Sent(c, id) => Sent(c, id)'
  BY <1>0, <1>1, MainsRest
<1>9. NumberInv'
  <2>1. ASSUME NEW d \in Clients, NEW id \in Nat, UnderWay(d, id)' PROVE UnderWay(d, id)
    BY <1>1, <1>3, <1>4, <1>6, <2>1 DEF UnderWay
  <2> QED BY <1>0, <1>8, <2>1, SameNumbers
<1>10. OrderInv'
  <2>1. SUFFICES ASSUME NEW c \in Clients, ~ blind'[c], ds'[c].pc # "find", NEW w \in Dollars,
                        symbol_from_contract(w) = Key(c)'
                 PROVE  Requested(c, w)' /\ Answered(c, w)' /\ Queued(c)' /\ Completed(c)'
    BY DEF OrderInv, OrderOf
  <2>2. Requested(c, w) /\ Answered(c, w) /\ Queued(c) /\ Completed(c)
    BY <1>0, <1>1, <1>8, <2>1 DEF OrderInv, OrderOf
  <2>3. Stored(c)' = Stored(c)
    BY <1>1, <1>8 DEF Stored
  <2>4. Queued(c)' /\ Completed(c)'
    BY <1>1, <1>8, <2>2, <2>3 DEF Queued, Completed, Own
  <2>5. Requested(c, w)'
    BY <1>1, <1>3, <2>2 DEF Requested, Own
  <2>6. Own(c, b) => w \in b.left
    BY <1>3, <1>4, <1>6, <2>2 DEF Requested, Own
  <2>7. Answered(c, w)'
    BY <1>1, <1>6, <1>8, <2>2, <2>3, <2>6 DEF Answered, Own
  <2> QED BY <2>4, <2>5, <2>7
<1>11. TraceInv'
  <2>1. ASSUME NEW c \in Clients, NEW id, Traced(c, id) PROVE Traced(c, id)'
    <3>1. ASSUME NEW i \in 1 .. Len(requests), requests[i].client = c, requests[i].id = id
          PROVE  \/ \E j \in 1 .. Len(requests') : requests'[j].client = c /\ requests'[j].id = id
                 \/ b.client = c /\ b.id = id
      BY <1>3, <1>4, <1>6, <3>1
    <3> QED BY <1>1, <1>6, <2>1, <3>1 DEF Traced
  <2> QED BY <1>0, <1>1, <2>1, SameTrace DEF TraceInv
<1> QED BY <1>7, <1>8, <1>9, <1>10, <1>11 DEF Inv

\* A published message goes to the end of the pipe of those who have joined.
LEMMA PublishEffect ==
  ASSUME ShapeInv, NEW m \in Details \cup Ends, Publish(m)
  PROVE  /\ pipe' \in [Clients -> Seq(Details \cup Ends)] /\ blind' \in [Clients -> BOOLEAN]
         /\ \A c \in Clients :
              /\ Len(pipe[c]) \in Nat
              /\ ~ blind'[c] => ~ blind[c] /\ c \in joined
              /\ c \notin joined => Len(pipe'[c]) = Len(pipe[c])
              /\ c \in joined => /\ Len(pipe'[c]) = Len(pipe[c]) + 1
                                 /\ pipe'[c][Len(pipe[c]) + 1] = m
              /\ \A i \in 1 .. Len(pipe[c]) : i \in 1 .. Len(pipe'[c]) /\ pipe'[c][i] = pipe[c][i]
<1>1. pipe \in [Clients -> Seq(Details \cup Ends)] /\ blind \in [Clients -> BOOLEAN]
  BY DEF ShapeInv
<1>2. pipe' = [c \in Clients |-> IF c \in joined THEN Append(pipe[c], m) ELSE pipe[c]]
  BY DEF Publish
<1>3. blind' = [c \in Clients |-> blind[c] \/ c \notin joined]
  BY DEF Publish
<1>4. pipe' \in [Clients -> Seq(Details \cup Ends)]
  BY <1>1, <1>2
<1>5. blind' \in [Clients -> BOOLEAN] /\ \A c \in Clients : ~ blind'[c] => ~ blind[c] /\ c \in joined
  BY <1>1, <1>3
<1>6. ASSUME NEW c \in Clients
      PROVE  /\ Len(pipe[c]) \in Nat
             /\ c \notin joined => Len(pipe'[c]) = Len(pipe[c])
             /\ c \in joined => /\ Len(pipe'[c]) = Len(pipe[c]) + 1
                                /\ pipe'[c][Len(pipe[c]) + 1] = m
             /\ \A i \in 1 .. Len(pipe[c]) : i \in 1 .. Len(pipe'[c]) /\ pipe'[c][i] = pipe[c][i]
  <2>1. PICK s \in Seq(Details \cup Ends) : s = pipe[c]
    BY <1>1
  <2>2. CASE c \in joined
    <3>1. pipe'[c] = Append(s, m)
      BY <1>2, <2>1, <2>2
    <3> QED BY <2>1, <2>2, <3>1
  <2>3. CASE c \notin joined
    <3>1. pipe'[c] = s
      BY <1>2, <2>1, <2>3
    <3> QED BY <2>1, <2>3, <3>1
  <2> QED BY <2>2, <2>3
<1> QED BY <1>4, <1>5, <1>6

\* What is under way when an answer's message is published was so before.
LEMMA PublishNumbers ==
  ASSUME ShapeInv, MainInv, NumberInv, NEW m \in Details \cup Ends, Publish(m),
         UNCHANGED <<scenario, requests, pending, ds, verdict>>,
         NEW a \in answers, m.client = a.client, m.id = a.id,
         \A b \in answers' : b \in answers \/ (b.client = a.client /\ b.id = a.id)
  PROVE  NumberInv'
<1>1. \A c \in Clients : \A id \in Nat : Sent(c, id) => Sent(c, id)'
  BY MainsRest
<1>2. ASSUME NEW c \in Clients, NEW id \in Nat, UnderWay(c, id)' PROVE UnderWay(c, id)
  <2>1. ASSUME NEW d \in Clients, NEW i \in 1 .. Len(pipe'[d]), pipe'[d][i].client = c,
               pipe'[d][i].id = id
        PROVE  UnderWay(c, id)
    <3>1. CASE i \in 1 .. Len(pipe[d])
      <4>1. pipe[d][i].client = c /\ pipe[d][i].id = id
        BY <2>1, <3>1, PublishEffect
      <4> QED BY <3>1, <4>1 DEF UnderWay
    <3>2. CASE i \notin 1 .. Len(pipe[d])
      <4>1. d \in joined /\ i = Len(pipe[d]) + 1
        BY <3>2, PublishEffect
      <4>2. pipe'[d][i] = m
        BY <4>1, PublishEffect
      <4> QED BY <2>1, <4>2 DEF UnderWay
    <3> QED BY <3>1, <3>2
  <2> QED BY <1>2, <2>1 DEF UnderWay
<1> QED BY <1>1, <1>2, SameNumbers

\* One of the details of an answer is published.
LEMMA PublishDetailsKeeps ==
  ASSUME Inv, NEW a \in answers, NEW contract \in a.left, PublishDetails(a, contract)
  PROVE  Inv'
<1>0. ShapeInv /\ StoreInv /\ MainInv /\ NumberInv /\ OrderInv /\ TraceInv
  BY DEF Inv
<1>1. UNCHANGED <<scenario, requests, joined, storing, details, pending, missed, ds, verdict, sent>>
  BY DEF PublishDetails, listenerVars
<1>2. a \in Answers /\ contract \in Known
  BY <1>0 DEF ShapeInv, Answers
<1>3. PICK b \in Answers : /\ b = [a EXCEPT !.left = @ \ {contract}]
                           /\ b.client = a.client /\ b.id = a.id /\ b.left = a.left \ {contract}
  <2>1. PICK left \in SUBSET Known : left = a.left \ {contract}
    BY <1>2 DEF Answers
  <2>2. [a EXCEPT !.left = left] \in Answers
    BY <1>2 DEF Answers
  <2>3. /\ [a EXCEPT !.left = left].client = a.client /\ [a EXCEPT !.left = left].id = a.id
        /\ [a EXCEPT !.left = left].left = left
    BY <1>2 DEF Answers
  <2> QED BY <2>1, <2>2, <2>3
<1>4. PICK m \in Details : /\ m = [kind |-> "details", contract |-> Marshalled(contract),
                                   client |-> a.client, id |-> a.id]
  BY <1>2 DEF Answers, Details
<1>5. /\ m.kind = "details" /\ m.contract = Marshalled(contract)
      /\ m.client = a.client /\ m.id = a.id
  BY <1>4
<1>6. answers' = (answers \ {a}) \cup {b} /\ Publish(m)
  BY <1>3, <1>4 DEF PublishDetails
<1>7. /\ pipe' \in [Clients -> Seq(Details \cup Ends)] /\ blind' \in [Clients -> BOOLEAN]
      /\ \A c \in Clients :
           /\ Len(pipe[c]) \in Nat
           /\ ~ blind'[c] => ~ blind[c] /\ c \in joined
           /\ c \notin joined => Len(pipe'[c]) = Len(pipe[c])
           /\ c \in joined => /\ Len(pipe'[c]) = Len(pipe[c]) + 1
                              /\ pipe'[c][Len(pipe[c]) + 1] = m
           /\ \A i \in 1 .. Len(pipe[c]) : i \in 1 .. Len(pipe'[c]) /\ pipe'[c][i] = pipe[c][i]
  BY <1>0, <1>6, PublishEffect
<1>8. ShapeInv' /\ StoreInv'
  BY <1>0, <1>1, <1>6, <1>7 DEF ShapeInv, StoreInv
<1>9. MainInv' /\ \A c \in Clients : Key(c)' = Key(c)
  BY <1>0, <1>1, MainsRest
<1>10. NumberInv'
  BY <1>0, <1>1, <1>3, <1>5, <1>6, PublishNumbers
<1>11. OrderInv'
  <2>1. SUFFICES ASSUME NEW c \in Clients, ~ blind'[c], ds'[c].pc # "find", NEW w \in Dollars,
                        symbol_from_contract(w) = Key(c)'
                 PROVE  Requested(c, w)' /\ Answered(c, w)' /\ Queued(c)' /\ Completed(c)'
    BY DEF OrderInv, OrderOf
  <2>2. Requested(c, w) /\ Answered(c, w) /\ Queued(c) /\ Completed(c) /\ c \in joined
    BY <1>0, <1>1, <1>7, <1>9, <2>1 DEF OrderInv, OrderOf
  <2>3. Stored(c)' = Stored(c) /\ Key(c)' = Key(c)
    BY <1>1, <1>9 DEF Stored
  <2>4. Requested(c, w)' /\ Completed(c)'
    BY <1>1, <2>2, <2>3 DEF Requested, Completed, Own
  <2>5. PICK n \in Nat : /\ n = Len(pipe[c]) /\ Len(pipe'[c]) = n + 1 /\ pipe'[c][n + 1] = m
                         /\ \A i \in 1 .. n : i \in 1 .. n + 1 /\ pipe'[c][i] = pipe[c][i]
    BY <1>7, <2>2
  <2>6. Queued(c)'
    <3>1. SUFFICES ASSUME NEW i \in 1 .. n + 1, pipe'[c][i].kind = "end",
                          pipe'[c][i].client = c, pipe'[c][i].id = ds[c].res
                   PROVE  Stored(c) \/ \E j \in 1 .. i - 1 : Carries(pipe'[c][j], Key(c))
      BY <1>1, <2>3, <2>5 DEF Queued, Own
    <3>2. i \in 1 .. n
      BY <1>5, <2>5, <3>1
    <3>3. pipe[c][i].kind = "end" /\ Own(c, pipe[c][i])
      BY <1>1, <2>5, <3>1, <3>2 DEF Own
    <3>4. Stored(c) \/ \E j \in 1 .. i - 1 : Carries(pipe[c][j], Key(c))
      BY <2>2, <2>5, <3>2, <3>3 DEF Queued
    <3>5. \A j \in 1 .. i - 1 : j \in 1 .. n
      BY <3>2
    <3> QED BY <2>3, <2>5, <3>4, <3>5
  <2>7. Answered(c, w)'
    <3>1. SUFFICES ASSUME NEW x \in answers', x.client = c, x.id = ds[c].res
                   PROVE  \/ w \in x.left \/ Stored(c)
                          \/ \E j \in 1 .. n + 1 : Carries(pipe'[c][j], Key(c))
      BY <1>1, <2>3, <2>5 DEF Answered, Own
    <3>2. (\E j \in 1 .. n : Carries(pipe[c][j], Key(c))) => \E j \in 1 .. n + 1 : Carries(pipe'[c][j], Key(c))
      BY <2>5
    <3>3. CASE x \in answers
      BY <2>2, <2>5, <3>1, <3>2, <3>3 DEF Answered, Own
    <3>4. CASE x = b
      <4>1. w \in a.left \/ Stored(c) \/ \E j \in 1 .. n : Carries(pipe[c][j], Key(c))
        BY <1>3, <2>2, <2>5, <3>1, <3>4 DEF Answered, Own
      <4>2. CASE w = contract
        <5>1. m.contract = w /\ w.currency = "USD"
          BY <1>2, <1>5, <4>2, DollarsStay DEF Dollars
        <5>2. Carries(m, Key(c))
          BY <1>5, <2>1, <2>3, <5>1 DEF Carries
        <5>3. n + 1 \in 1 .. n + 1
          OBVIOUS
        <5> QED BY <2>5, <5>2, <5>3
      <4>3. CASE w # contract
        BY <1>3, <3>2, <3>4, <4>1, <4>3
      <4> QED BY <4>2, <4>3
    <3> QED BY <1>6, <3>3, <3>4
  <2> QED BY <2>4, <2>6, <2>7
<1>12. TraceInv'
  <2>1. ASSUME NEW c \in Clients, NEW id, Traced(c, id) PROVE Traced(c, id)'
    <3>1. ASSUME NEW i \in 1 .. Len(pipe[c]), pipe[c][i].kind = "end", pipe[c][i].client = c,
                 pipe[c][i].id = id
          PROVE  \E j \in 1 .. Len(pipe'[c]) : /\ pipe'[c][j].kind = "end"
                                               /\ pipe'[c][j].client = c /\ pipe'[c][j].id = id
      BY <1>7, <3>1
    <3>2. ASSUME NEW x \in answers, x.client = c, x.id = id
          PROVE  \E y \in answers' : y.client = c /\ y.id = id
      BY <1>3, <1>6, <3>2
    <3>3. blind[c] => blind'[c]
      BY <1>7
    <3> QED BY <1>1, <2>1, <3>1, <3>2, <3>3 DEF Traced
  <2> QED BY <1>0, <1>1, <2>1, SameTrace DEF TraceInv
<1> QED BY <1>8, <1>9, <1>10, <1>11, <1>12 DEF Inv

\* The End of an answer is published.
LEMMA PublishEndKeeps ==
  ASSUME Inv, NEW a \in answers, PublishEnd(a)
  PROVE  Inv'
<1>0. ShapeInv /\ StoreInv /\ MainInv /\ NumberInv /\ OrderInv /\ TraceInv
  BY DEF Inv
<1>1. UNCHANGED <<scenario, requests, joined, storing, details, pending, missed, ds, verdict, sent>>
  BY DEF PublishEnd, listenerVars
<1>2. a \in Answers /\ a.left = {}
  BY <1>0 DEF ShapeInv, PublishEnd
<1>4. PICK m \in Ends : m = [kind |-> "end", contract |-> Blank, client |-> a.client, id |-> a.id]
  BY <1>2 DEF Answers, Ends
<1>5. m.kind = "end" /\ m.client = a.client /\ m.id = a.id
  BY <1>4
<1>6. answers' = answers \ {a} /\ Publish(m)
  BY <1>4 DEF PublishEnd
<1>7. /\ pipe' \in [Clients -> Seq(Details \cup Ends)] /\ blind' \in [Clients -> BOOLEAN]
      /\ \A c \in Clients :
           /\ Len(pipe[c]) \in Nat
           /\ ~ blind'[c] => ~ blind[c] /\ c \in joined
           /\ c \notin joined => Len(pipe'[c]) = Len(pipe[c])
           /\ c \in joined => /\ Len(pipe'[c]) = Len(pipe[c]) + 1
                              /\ pipe'[c][Len(pipe[c]) + 1] = m
           /\ \A i \in 1 .. Len(pipe[c]) : i \in 1 .. Len(pipe'[c]) /\ pipe'[c][i] = pipe[c][i]
  BY <1>0, <1>6, PublishEffect
<1>8. ShapeInv' /\ StoreInv'
  BY <1>0, <1>1, <1>6, <1>7 DEF ShapeInv, StoreInv
<1>9. MainInv' /\ \A c \in Clients : Key(c)' = Key(c)
  BY <1>0, <1>1, MainsRest
<1>10. NumberInv'
  BY <1>0, <1>1, <1>5, <1>6, PublishNumbers
<1>11. OrderInv'
  <2>1. SUFFICES ASSUME NEW c \in Clients, ~ blind'[c], ds'[c].pc # "find", NEW w \in Dollars,
                        symbol_from_contract(w) = Key(c)'
                 PROVE  Requested(c, w)' /\ Answered(c, w)' /\ Queued(c)' /\ Completed(c)'
    BY DEF OrderInv, OrderOf
  <2>2. Requested(c, w) /\ Answered(c, w) /\ Queued(c) /\ Completed(c) /\ c \in joined
    BY <1>0, <1>1, <1>7, <1>9, <2>1 DEF OrderInv, OrderOf
  <2>3. Stored(c)' = Stored(c) /\ Key(c)' = Key(c)
    BY <1>1, <1>9 DEF Stored
  <2>4. Requested(c, w)' /\ Completed(c)'
    BY <1>1, <2>2, <2>3 DEF Requested, Completed, Own
  <2>5. PICK n \in Nat : /\ n = Len(pipe[c]) /\ Len(pipe'[c]) = n + 1 /\ pipe'[c][n + 1] = m
                         /\ \A i \in 1 .. n : i \in 1 .. n + 1 /\ pipe'[c][i] = pipe[c][i]
    BY <1>7, <2>2
  <2>6. Queued(c)'
    <3>1. SUFFICES ASSUME NEW i \in 1 .. n + 1, pipe'[c][i].kind = "end",
                          pipe'[c][i].client = c, pipe'[c][i].id = ds[c].res
                   PROVE  Stored(c) \/ \E j \in 1 .. i - 1 : Carries(pipe'[c][j], Key(c))
      BY <1>1, <2>3, <2>5 DEF Queued, Own
    <3>2. CASE i \in 1 .. n
      <4>3. pipe[c][i].kind = "end" /\ Own(c, pipe[c][i])
        BY <1>1, <2>5, <3>1, <3>2 DEF Own
      <4>4. Stored(c) \/ \E j \in 1 .. i - 1 : Carries(pipe[c][j], Key(c))
        BY <2>2, <2>5, <3>2, <4>3 DEF Queued
      <4>5. \A j \in 1 .. i - 1 : j \in 1 .. n
        BY <3>2
      <4> QED BY <2>3, <2>5, <4>4, <4>5
    <3>3. CASE i \notin 1 .. n
      <4>1. i = n + 1
        BY <3>3
      <4>2. Own(c, a)
        BY <1>1, <1>5, <2>5, <3>1, <4>1 DEF Own
      <4>3. Stored(c) \/ \E j \in 1 .. n : Carries(pipe[c][j], Key(c))
        BY <1>2, <2>2, <2>5, <4>2 DEF Answered
      <4>4. \A j \in 1 .. n : j \in 1 .. i - 1
        BY <4>1
      <4> QED BY <2>3, <2>5, <4>3, <4>4
    <3> QED BY <3>2, <3>3
  <2>7. Answered(c, w)'
    <3>1. SUFFICES ASSUME NEW x \in answers', x.client = c, x.id = ds[c].res
                   PROVE  \/ w \in x.left \/ Stored(c)
                          \/ \E j \in 1 .. n + 1 : Carries(pipe'[c][j], Key(c))
      BY <1>1, <2>3, <2>5 DEF Answered, Own
    <3>2. (\E j \in 1 .. n : Carries(pipe[c][j], Key(c))) => \E j \in 1 .. n + 1 : Carries(pipe'[c][j], Key(c))
      BY <2>5
    <3> QED BY <1>6, <2>2, <2>5, <3>1, <3>2 DEF Answered, Own
  <2> QED BY <2>4, <2>6, <2>7
<1>12. TraceInv'
  <2>1. ASSUME NEW c \in Clients, NEW id, Traced(c, id) PROVE Traced(c, id)'
    <3>1. ASSUME NEW i \in 1 .. Len(pipe[c]), pipe[c][i].kind = "end", pipe[c][i].client = c,
                 pipe[c][i].id = id
          PROVE  \E j \in 1 .. Len(pipe'[c]) : /\ pipe'[c][j].kind = "end"
                                               /\ pipe'[c][j].client = c /\ pipe'[c][j].id = id
      BY <1>7, <3>1
    <3>2. ASSUME NEW x \in answers, x.client = c, x.id = id
          PROVE  \/ \E y \in answers' : y.client = c /\ y.id = id
                 \/ \E j \in 1 .. Len(pipe'[c]) : /\ pipe'[c][j].kind = "end"
                                                  /\ pipe'[c][j].client = c /\ pipe'[c][j].id = id
                 \/ blind'[c]
      <4>1. CASE x # a
        BY <1>6, <3>2, <4>1
      <4>2. CASE x = a /\ c \in joined
        <5>1. Len(pipe[c]) + 1 \in 1 .. Len(pipe'[c]) /\ pipe'[c][Len(pipe[c]) + 1] = m
          BY <1>7, <4>2
        <5> QED BY <1>5, <3>2, <4>2, <5>1
      <4>3. CASE c \notin joined
        BY <1>7, <4>3
      <4> QED BY <4>1, <4>2, <4>3
    <3>3. blind[c] => blind'[c]
      BY <1>7
    <3> QED BY <1>1, <2>1, <3>1, <3>2, <3>3 DEF Traced
  <2> QED BY <1>0, <1>1, <2>1, SameTrace DEF TraceInv
<1> QED BY <1>8, <1>9, <1>10, <1>11, <1>12 DEF Inv

\* What nobody but cm's publisher sees: a client joins.
LEMMA RestKeeps ==
  ASSUME Inv, UNCHANGED <<scenario, requests, answers, pipe, blind, storing, details, pending, missed,
                          ds, verdict, sent>>
  PROVE  Inv'
<1>0. ShapeInv /\ StoreInv /\ MainInv /\ NumberInv /\ OrderInv /\ TraceInv
  BY DEF Inv
<1>2. ShapeInv' /\ StoreInv'
  BY <1>0 DEF ShapeInv, StoreInv
<1>3. MainInv' /\ \A d \in Clients : \A id \in Nat : Sent(d, id) => Sent(d, id)'
  BY <1>0, MainsRest
<1>4. \A d \in Clients : \A id \in Nat : UnderWay(d, id)' => UnderWay(d, id)
  BY DEF UnderWay
<1>5. NumberInv'
  BY <1>0, <1>3, <1>4, SameNumbers
<1>6. OrderInv'
  BY <1>0, SameOrder DEF OrderInv
<1>7. TraceInv'
  BY <1>0, SameTrace, SameTraced DEF TraceInv
<1> QED BY <1>2, <1>3, <1>5, <1>6, <1>7 DEF Inv

-----------------------------------------------------------------------------
(* The listener *)

\* The head of the pipe is taken.
LEMMA TakeEffect ==
  ASSUME ShapeInv, NEW c \in Clients, pipe[c] # << >>, pipe' = [pipe EXCEPT ![c] = Tail(@)]
  PROVE  /\ pipe' \in [Clients -> Seq(Details \cup Ends)]
         /\ \A d \in Clients \ {c} : pipe'[d] = pipe[d]
         /\ Len(pipe[c]) \in Nat \ {0} /\ Len(pipe'[c]) = Len(pipe[c]) - 1
         /\ \A i \in 1 .. Len(pipe'[c]) : i + 1 \in 1 .. Len(pipe[c]) /\ pipe'[c][i] = pipe[c][i + 1]
         /\ \A i \in 1 .. Len(pipe[c]) : i # 1 => /\ i - 1 \in 1 .. Len(pipe'[c])
                                                  /\ pipe'[c][i - 1] = pipe[c][i]
         /\ 1 \in 1 .. Len(pipe[c]) /\ Head(pipe[c]) = pipe[c][1] /\ pipe[c][1] \in Details \cup Ends
<1>1. pipe \in [Clients -> Seq(Details \cup Ends)]
  BY DEF ShapeInv
<1>2. PICK s \in Seq(Details \cup Ends) : s = pipe[c] /\ s # << >>
  BY <1>1
<1>3. pipe' = [pipe EXCEPT ![c] = Tail(s)]
  BY <1>2
<1>4. Tail(s) \in Seq(Details \cup Ends)
  BY <1>2
<1>5. /\ pipe' \in [Clients -> Seq(Details \cup Ends)] /\ pipe'[c] = Tail(s)
      /\ \A d \in Clients \ {c} : pipe'[d] = pipe[d]
  BY <1>1, <1>3, <1>4
<1>6. /\ Len(s) \in Nat \ {0} /\ Len(Tail(s)) = Len(s) - 1
      /\ \A i \in 1 .. Len(Tail(s)) : i + 1 \in 1 .. Len(s) /\ Tail(s)[i] = s[i + 1]
      /\ \A i \in 1 .. Len(s) : i # 1 => i - 1 \in 1 .. Len(Tail(s)) /\ Tail(s)[i - 1] = s[i]
      /\ 1 \in 1 .. Len(s) /\ Head(s) = s[1] /\ s[1] \in Details \cup Ends
  BY <1>2
<1> QED BY <1>2, <1>5, <1>6

\* What is under way when a message is taken was so before.
LEMMA TakeNumbers ==
  ASSUME NumberInv, ShapeInv, NEW c \in Clients, pipe[c] # << >>, pipe' = [pipe EXCEPT ![c] = Tail(@)],
         UNCHANGED <<requests, answers, ds>>
  PROVE  NumberInv'
<1>1. \A d \in Clients : \A id \in Nat : Sent(d, id) => Sent(d, id)'
  BY DEF Sent
<1>2. ASSUME NEW d \in Clients, NEW id \in Nat, UnderWay(d, id)' PROVE UnderWay(d, id)
  <2>1. ASSUME NEW e \in Clients, NEW i \in 1 .. Len(pipe'[e]), pipe'[e][i].client = d,
               pipe'[e][i].id = id
        PROVE  UnderWay(d, id)
    <3>1. CASE e = c
      <4>1. i + 1 \in 1 .. Len(pipe[e]) /\ pipe[e][i + 1] = pipe'[e][i]
        BY <2>1, <3>1, TakeEffect
      <4> QED BY <2>1, <4>1 DEF UnderWay
    <3>2. CASE e # c
      <4>1. pipe'[e] = pipe[e]
        BY <3>2, TakeEffect
      <4> QED BY <2>1, <4>1 DEF UnderWay
    <3> QED BY <3>1, <3>2
  <2> QED BY <1>2, <2>1 DEF UnderWay
<1> QED BY <1>1, <1>2, SameNumbers

LEMMA BeginStoreKeeps ==
  ASSUME Inv, NEW c \in Clients, BeginStore(c)
  PROVE  Inv'
<1>0. ShapeInv /\ StoreInv /\ MainInv /\ NumberInv /\ OrderInv /\ TraceInv
  BY DEF Inv
<1>1. /\ UNCHANGED <<scenario, requests, answers, joined, blind, details, pending, missed, ds,
                     verdict, sent>>
      /\ storing[c] = None /\ pipe[c] # << >> /\ pipe' = [pipe EXCEPT ![c] = Tail(@)]
      /\ Head(pipe[c]).kind = "details"
  BY DEF BeginStore
<1>2. /\ pipe' \in [Clients -> Seq(Details \cup Ends)]
      /\ \A d \in Clients \ {c} : pipe'[d] = pipe[d]
      /\ Len(pipe[c]) \in Nat \ {0} /\ Len(pipe'[c]) = Len(pipe[c]) - 1
      /\ \A i \in 1 .. Len(pipe'[c]) : i + 1 \in 1 .. Len(pipe[c]) /\ pipe'[c][i] = pipe[c][i + 1]
      /\ \A i \in 1 .. Len(pipe[c]) : i # 1 => /\ i - 1 \in 1 .. Len(pipe'[c])
                                               /\ pipe'[c][i - 1] = pipe[c][i]
      /\ 1 \in 1 .. Len(pipe[c]) /\ Head(pipe[c]) = pipe[c][1] /\ pipe[c][1] \in Details \cup Ends
  BY <1>0, <1>1, TakeEffect
<1>3. PICK m \in Details : m = pipe[c][1] /\ m.kind = "details"
  BY <1>1, <1>2 DEF Ends
<1>4. PICK s \in {None} \cup Dollars : /\ storing' = [storing EXCEPT ![c] = s]
                                       /\ m.contract.currency = "USD" => s = m.contract /\ s # None
  <2>1. PICK k \in Known : m.contract = Marshalled(k)
    BY <1>3 DEF Details
  <2>2. m.contract.currency = "USD" => m.contract \in Dollars
    BY <2>1, DollarsStay
  <2>3. storing' = [storing EXCEPT ![c] = IF m.contract.currency = "USD" THEN m.contract ELSE None]
    BY <1>2, <1>3 DEF BeginStore, CurrencyIsUSD
  <2>4. None \notin Dollars
    BY ContractManagerAssumption DEF Dollars
  <2> QED BY <2>2, <2>3, <2>4
<1>5. /\ storing' \in [Clients -> {None} \cup Dollars] /\ storing'[c] = s
      /\ \A d \in Clients \ {c} : storing'[d] = storing[d]
  BY <1>0, <1>4 DEF ShapeInv
<1>6. ShapeInv' /\ StoreInv'
  BY <1>0, <1>1, <1>2, <1>5 DEF ShapeInv, StoreInv
<1>7. MainInv' /\ \A d \in Clients : Key(d)' = Key(d)
  BY <1>0, <1>1, MainsRest
<1>8. NumberInv'
  BY <1>0, <1>1, TakeNumbers
<1>9. OrderInv'
  <2>1. OrderOf(c)'
    <3>1. SUFFICES ASSUME ~ blind'[c], ds'[c].pc # "find", NEW w \in Dollars,
                          symbol_from_contract(w) = Key(c)'
                   PROVE  Requested(c, w)' /\ Answered(c, w)' /\ Queued(c)' /\ Completed(c)'
      BY DEF OrderOf
    <3>2. Requested(c, w) /\ Answered(c, w) /\ Queued(c) /\ Completed(c)
      BY <1>0, <1>1, <1>7, <3>1 DEF OrderInv, OrderOf
    <3>3. Requested(c, w)' /\ Completed(c)'
      BY <1>1, <1>7, <3>2 DEF Requested, Completed, Own
    <3>4. Stored(c) => Stored(c)'
      BY <1>1, <1>7 DEF Stored
    <3>5. Carries(pipe[c][1], Key(c)) => Stored(c)'
      BY <1>3, <1>4, <1>5, <1>7 DEF Stored, Carries
    <3>6. Answered(c, w)'
      <4>1. SUFFICES ASSUME NEW x \in answers, x.client = c, x.id = ds[c].res, w \notin x.left, ~ Stored(c)'
                     PROVE  \E j \in 1 .. Len(pipe'[c]) : Carries(pipe'[c][j], Key(c))
        BY <1>1, <1>7 DEF Answered, Own
      <4>2. PICK j \in 1 .. Len(pipe[c]) : Carries(pipe[c][j], Key(c))
        BY <3>2, <3>4, <4>1 DEF Answered, Own
      <4>3. j - 1 \in 1 .. Len(pipe'[c]) /\ pipe'[c][j - 1] = pipe[c][j]
        BY <1>2, <3>5, <4>1, <4>2
      <4> QED BY <4>2, <4>3
    <3>7. Queued(c)'
      <4>1. SUFFICES ASSUME NEW i \in 1 .. Len(pipe'[c]), pipe'[c][i].kind = "end",
                            pipe'[c][i].client = c, pipe'[c][i].id = ds[c].res, ~ Stored(c)'
                     PROVE  \E j \in 1 .. i - 1 : Carries(pipe'[c][j], Key(c))
        BY <1>1, <1>7 DEF Queued, Own
      <4>2. i + 1 \in 1 .. Len(pipe[c]) /\ pipe'[c][i] = pipe[c][i + 1]
        BY <1>2
      <4>3. \E j \in 1 .. (i + 1) - 1 : Carries(pipe[c][j], Key(c))
        BY <3>2, <3>4, <4>1, <4>2 DEF Queued, Own
      <4>4. PICK j \in 1 .. i : Carries(pipe[c][j], Key(c))
        BY <4>3
      <4>5. j # 1
        BY <3>5, <4>1, <4>4
      <4>6. j \in 1 .. Len(pipe[c]) /\ j - 1 \in 1 .. i - 1
        BY <4>2, <4>5
      <4>7. pipe'[c][j - 1] = pipe[c][j]
        BY <1>2, <4>5, <4>6
      <4> QED BY <4>4, <4>6, <4>7
    <3> QED BY <3>3, <3>6, <3>7
  <2>2. \A d \in Clients \ {c} : OrderOf(d)'
    BY <1>0, <1>1, <1>2, <1>5, SameOrder DEF OrderInv
  <2> QED BY <2>1, <2>2 DEF OrderInv
<1>10. TraceInv'
  <2>1. ASSUME NEW id, Traced(c, id) PROVE Traced(c, id)'
    <3>1. ASSUME NEW i \in 1 .. Len(pipe[c]), pipe[c][i].kind = "end", pipe[c][i].client = c,
                 pipe[c][i].id = id
          PROVE  \E j \in 1 .. Len(pipe'[c]) : /\ pipe'[c][j].kind = "end"
                                               /\ pipe'[c][j].client = c /\ pipe'[c][j].id = id
      <4>1. i # 1
        BY <1>3, <3>1
      <4> QED BY <1>2, <3>1, <4>1
    <3> QED BY <1>1, <2>1, <3>1 DEF Traced
  <2>2. \A d \in Clients \ {c} : \A id : Traced(d, id) => Traced(d, id)'
    BY <1>1, <1>2, SameTraced
  <2> QED BY <1>0, <1>1, <2>1, <2>2, SameTrace DEF TraceInv
<1> QED BY <1>6, <1>7, <1>8, <1>9, <1>10 DEF Inv

LEMMA EndStoreKeeps ==
  ASSUME Inv, NEW c \in Clients, EndStore(c)
  PROVE  Inv'
<1>0. ShapeInv /\ StoreInv /\ MainInv /\ NumberInv /\ OrderInv /\ TraceInv
  BY DEF Inv
<1>1. UNCHANGED <<scenario, requests, answers, joined, pipe, blind, pending, missed, ds, verdict, sent>>
  BY DEF EndStore, gatewayVars
<1>2. PICK k \in Dollars : k = storing[c]
  BY <1>0 DEF EndStore, ShapeInv
<1>3. PICK key : key = symbol_from_contract(k)
  OBVIOUS
<1>4. PICK map : map = Assign(details[c], key, k)
  OBVIOUS
<1>5. /\ DOMAIN map = DOMAIN details[c] \cup {key} /\ map[key] = k
      /\ \A x \in DOMAIN map : x # key => map[x] = details[c][x]
  BY <1>4 DEF Assign
<1>6. details' = [details EXCEPT ![c] = map] /\ storing' = [storing EXCEPT ![c] = None]
  BY <1>2, <1>3, <1>4 DEF EndStore
<1>7. /\ details' = [d \in Clients |-> details'[d]] /\ details'[c] = map
      /\ \A d \in Clients \ {c} : details'[d] = details[d]
  BY <1>0, <1>6 DEF ShapeInv
<1>8. /\ storing' \in [Clients -> {None} \cup Dollars] /\ storing'[c] = None
      /\ \A d \in Clients \ {c} : storing'[d] = storing[d]
  BY <1>0, <1>6 DEF ShapeInv
<1>9. ShapeInv'
  BY <1>0, <1>1, <1>7, <1>8 DEF ShapeInv
<1>10. StoreInv'
  <2>1. SUFFICES ASSUME NEW d \in Clients, NEW x \in DOMAIN details'[d]
                 PROVE  details'[d][x] \in Dollars /\ symbol_from_contract(details'[d][x]) = x
    BY DEF StoreInv
  <2>2. CASE d # c
    BY <1>0, <1>7, <2>2 DEF StoreInv
  <2>3. CASE d = c /\ x = key
    BY <1>3, <1>5, <1>7, <2>3
  <2>4. CASE d = c /\ x # key
    BY <1>0, <1>5, <1>7, <2>4 DEF StoreInv
  <2> QED BY <2>2, <2>3, <2>4
<1>11. MainInv' /\ \A d \in Clients : Key(d)' = Key(d)
  BY <1>0, <1>1, MainsRest
<1>12. NumberInv'
  <2>1. \A d \in Clients : \A id \in Nat : Sent(d, id) => Sent(d, id)'
    BY <1>1 DEF Sent
  <2>2. \A d \in Clients : \A id \in Nat : UnderWay(d, id)' => UnderWay(d, id)
    BY <1>1 DEF UnderWay
  <2> QED BY <1>0, <2>1, <2>2, SameNumbers
<1>13. OrderInv'
  <2>1. OrderOf(c)'
    <3>1. SUFFICES ASSUME ~ blind'[c], ds'[c].pc # "find", NEW w \in Dollars,
                          symbol_from_contract(w) = Key(c)'
                   PROVE  Requested(c, w)' /\ Answered(c, w)' /\ Queued(c)' /\ Completed(c)'
      BY DEF OrderOf
    <3>2. Requested(c, w) /\ Answered(c, w) /\ Queued(c) /\ Completed(c)
      BY <1>0, <1>1, <1>11, <3>1 DEF OrderInv, OrderOf
    <3>3. Stored(c) => Stored(c)'
      BY <1>2, <1>3, <1>5, <1>7, <1>11 DEF Stored
    <3>4. Requested(c, w)' /\ Completed(c)'
      BY <1>1, <1>5, <1>7, <1>11, <3>2 DEF Requested, Completed, Own
    <3>5. Answered(c, w)'
      BY <1>1, <1>11, <3>2, <3>3 DEF Answered, Own
    <3>6. Queued(c)'
      BY <1>1, <1>11, <3>2, <3>3 DEF Queued, Own
    <3> QED BY <3>4, <3>5, <3>6
  <2>2. \A d \in Clients \ {c} : OrderOf(d)'
    BY <1>0, <1>1, <1>7, <1>8, SameOrder DEF OrderInv
  <2> QED BY <2>1, <2>2 DEF OrderInv
<1>14. TraceInv'
  BY <1>0, <1>1, SameTrace, SameTraced DEF TraceInv
<1> QED BY <1>9, <1>10, <1>11, <1>12, <1>13, <1>14 DEF Inv

LEMMA EndKeeps ==
  ASSUME Inv, NEW c \in Clients, handleContractDetailsEnd(c)
  PROVE  Inv'
<1>0. ShapeInv /\ StoreInv /\ MainInv /\ NumberInv /\ OrderInv /\ TraceInv
  BY DEF Inv
<1>1. /\ UNCHANGED <<scenario, requests, answers, joined, blind, storing, details, ds, verdict, sent>>
      /\ storing[c] = None /\ pipe[c] # << >> /\ pipe' = [pipe EXCEPT ![c] = Tail(@)]
      /\ Head(pipe[c]).kind = "end"
  BY DEF handleContractDetailsEnd
<1>2. /\ pipe' \in [Clients -> Seq(Details \cup Ends)]
      /\ \A d \in Clients \ {c} : pipe'[d] = pipe[d]
      /\ Len(pipe[c]) \in Nat \ {0} /\ Len(pipe'[c]) = Len(pipe[c]) - 1
      /\ \A i \in 1 .. Len(pipe'[c]) : i + 1 \in 1 .. Len(pipe[c]) /\ pipe'[c][i] = pipe[c][i + 1]
      /\ \A i \in 1 .. Len(pipe[c]) : i # 1 => /\ i - 1 \in 1 .. Len(pipe'[c])
                                               /\ pipe'[c][i - 1] = pipe[c][i]
      /\ 1 \in 1 .. Len(pipe[c]) /\ Head(pipe[c]) = pipe[c][1] /\ pipe[c][1] \in Details \cup Ends
  BY <1>0, <1>1, TakeEffect
<1>3. PICK m \in Ends : m = pipe[c][1] /\ m.kind = "end"
  BY <1>1, <1>2 DEF Details
<1>4. PICK n \in Nat, e \in Clients : n = m.id /\ e = m.client
  BY <1>3 DEF Ends
<1>5. /\ n \in DOMAIN pending[c] => pending' = [pending EXCEPT ![c][n] = e] /\ missed' = missed
      /\ n \notin DOMAIN pending[c] =>
           /\ pending' = pending
           /\ missed' = [missed EXCEPT ![c] = IF e = c THEN @ \cup {n} ELSE @]
  BY <1>2, <1>3, <1>4 DEF handleContractDetailsEnd
<1>6. pending = [d \in Clients |-> pending[d]] /\ missed = [d \in Clients |-> missed[d]]
  BY <1>0 DEF ShapeInv
<1>7. /\ pending' = [d \in Clients |-> pending'[d]] /\ DOMAIN pending'[c] = DOMAIN pending[c]
      /\ \A d \in Clients \ {c} : pending'[d] = pending[d]
      /\ \A id \in DOMAIN pending[c] : pending'[c][id] = IF id = n THEN e ELSE pending[c][id]
  <2>1. CASE n \in DOMAIN pending[c]
    <3>1. PICK p : p = [pending[c] EXCEPT ![n] = e]
      OBVIOUS
    <3>2. pending' = [pending EXCEPT ![c] = p]
      BY <1>5, <2>1, <3>1
    <3>3. DOMAIN p = DOMAIN pending[c] /\ \A id \in DOMAIN pending[c] : p[id] = IF id = n THEN e ELSE pending[c][id]
      BY <3>1
    <3> QED BY <1>6, <3>2, <3>3
  <2>2. CASE n \notin DOMAIN pending[c]
    BY <1>5, <1>6, <2>2
  <2> QED BY <2>1, <2>2
<1>8. /\ missed' = [d \in Clients |-> missed'[d]] /\ missed[c] \subseteq missed'[c]
      /\ \A d \in Clients \ {c} : missed'[d] = missed[d]
      /\ n \notin DOMAIN pending[c] /\ e = c => n \in missed'[c]
  BY <1>5, <1>6
<1>9. ShapeInv' /\ StoreInv'
  BY <1>0, <1>1, <1>2, <1>7, <1>8 DEF ShapeInv, StoreInv
<1>10. \A d \in Clients : Key(d)' = Key(d)
  BY <1>1 DEF Key, Symbols
<1>11. MainInv'
  <2>1. MainOf(c)'
    <3>1. MainOf(c)
      BY <1>0 DEF MainInv
    <3>2. \A id \in DOMAIN pending'[c] : pending'[c][id] \in Clients \cup {None}
      BY <1>7, <3>1 DEF MainOf
    <3> QED BY <1>1, <1>7, <1>10, <3>1, <3>2 DEF MainOf
  <2>2. \A d \in Clients \ {c} : MainOf(d)'
    BY <1>0, <1>1, <1>7, SameMain DEF MainInv
  <2> QED BY <2>1, <2>2 DEF MainInv
<1>12. NumberInv'
  BY <1>0, <1>1, TakeNumbers
<1>13. OrderInv'
  <2>1. OrderOf(c)'
    <3>1. SUFFICES ASSUME ~ blind'[c], ds'[c].pc # "find", NEW w \in Dollars,
                          symbol_from_contract(w) = Key(c)'
                   PROVE  Requested(c, w)' /\ Answered(c, w)' /\ Queued(c)' /\ Completed(c)'
      BY DEF OrderOf
    <3>2. Requested(c, w) /\ Answered(c, w) /\ Queued(c) /\ Completed(c)
      BY <1>0, <1>1, <1>10, <3>1 DEF OrderInv, OrderOf
    <3>3. Stored(c)' = Stored(c) /\ Key(c)' = Key(c)
      BY <1>1, <1>10 DEF Stored
    <3>4. Requested(c, w)'
      BY <1>1, <3>2 DEF Requested, Own
    <3>5. ~ Carries(pipe[c][1], Key(c))
      BY <1>3 DEF Carries
    <3>6. Answered(c, w)'
      <4>1. SUFFICES ASSUME NEW x \in answers, x.client = c, x.id = ds[c].res, w \notin x.left, ~ Stored(c)
                     PROVE  \E j \in 1 .. Len(pipe'[c]) : Carries(pipe'[c][j], Key(c))
        BY <1>1, <3>3 DEF Answered, Own
      <4>2. PICK j \in 1 .. Len(pipe[c]) : Carries(pipe[c][j], Key(c))
        BY <3>2, <4>1 DEF Answered, Own
      <4>3. j - 1 \in 1 .. Len(pipe'[c]) /\ pipe'[c][j - 1] = pipe[c][j]
        BY <1>2, <3>5, <4>2
      <4> QED BY <4>2, <4>3
    <3>7. Queued(c)'
      <4>1. SUFFICES ASSUME NEW i \in 1 .. Len(pipe'[c]), pipe'[c][i].kind = "end",
                            pipe'[c][i].client = c, pipe'[c][i].id = ds[c].res, ~ Stored(c)
                     PROVE  \E j \in 1 .. i - 1 : Carries(pipe'[c][j], Key(c))
        BY <1>1, <3>3 DEF Queued, Own
      <4>2. i + 1 \in 1 .. Len(pipe[c]) /\ pipe'[c][i] = pipe[c][i + 1]
        BY <1>2
      <4>3. \E j \in 1 .. (i + 1) - 1 : Carries(pipe[c][j], Key(c))
        BY <3>2, <4>1, <4>2 DEF Queued, Own
      <4>4. PICK j \in 1 .. i : Carries(pipe[c][j], Key(c))
        BY <4>3
      <4>5. j # 1
        BY <3>5, <4>4
      <4>6. j \in 1 .. Len(pipe[c]) /\ j - 1 \in 1 .. i - 1
        BY <4>2, <4>5
      <4>7. pipe'[c][j - 1] = pipe[c][j]
        BY <1>2, <4>5, <4>6
      <4> QED BY <4>4, <4>6, <4>7
    <3>8. Completed(c)'
      <4>1. SUFFICES ASSUME ds[c].res \in DOMAIN pending[c], pending'[c][ds[c].res] = c
                     PROVE  Key(c) \in DOMAIN details[c]
        BY <1>1, <1>7, <3>3 DEF Completed
      <4>2. CASE ds[c].res = n
        <5>1. e = c
          BY <1>7, <4>1, <4>2
        <5>2. pipe[c][1].kind = "end" /\ Own(c, pipe[c][1])
          BY <1>3, <1>4, <4>2, <5>1 DEF Own
        <5>3. \A j \in 1 .. 1 - 1 : FALSE
          OBVIOUS
        <5>4. Stored(c)
          BY <1>2, <3>2, <5>2, <5>3 DEF Queued
        <5> QED BY <1>1, <5>4 DEF Stored
      <4>3. CASE ds[c].res # n
        <5>1. pending[c][ds[c].res] = c
          BY <1>7, <4>1, <4>3
        <5> QED BY <3>2, <4>1, <5>1 DEF Completed
      <4> QED BY <4>2, <4>3
    <3> QED BY <3>4, <3>6, <3>7, <3>8
  <2>2. \A d \in Clients \ {c} : OrderOf(d)'
    BY <1>0, <1>1, <1>2, <1>7, SameOrder DEF OrderInv
  <2> QED BY <2>1, <2>2 DEF OrderInv
<1>14. TraceInv'
  <2>1. ASSUME NEW id, Traced(c, id) PROVE Traced(c, id)'
    <3>0. None \notin Clients
      BY ContractManagerAssumption
    <3>1. id \in DOMAIN pending[c] /\ pending[c][id] # None => id \in DOMAIN pending'[c] /\ pending'[c][id] # None
      BY <1>7, <3>0
    <3>2. ASSUME NEW i \in 1 .. Len(pipe[c]), pipe[c][i].kind = "end", pipe[c][i].client = c,
                 pipe[c][i].id = id
          PROVE  Traced(c, id)'
      <4>1. CASE i = 1
        <5>1. id = n /\ e = c
          BY <1>3, <1>4, <3>2, <4>1
        <5>2. CASE n \in DOMAIN pending[c]
          BY <1>7, <3>0, <5>1, <5>2 DEF Traced
        <5>3. CASE n \notin DOMAIN pending[c]
          BY <1>8, <5>1, <5>3 DEF Traced
        <5> QED BY <5>2, <5>3
      <4>2. CASE i # 1
        <5>1. i - 1 \in 1 .. Len(pipe'[c]) /\ pipe'[c][i - 1] = pipe[c][i]
          BY <1>2, <4>2
        <5> QED BY <3>2, <5>1 DEF Traced
      <4> QED BY <4>1, <4>2
    <3> QED BY <1>1, <1>8, <2>1, <3>1, <3>2 DEF Traced
  <2>2. \A d \in Clients \ {c} : \A id : Traced(d, id) => Traced(d, id)'
    BY <1>1, <1>2, <1>7, <1>8, SameTraced
  <2> QED BY <1>0, <1>1, <2>1, <2>2, SameTrace DEF TraceInv
<1> QED BY <1>9, <1>11, <1>12, <1>13, <1>14 DEF Inv

-----------------------------------------------------------------------------
(* The invariant *)

LEMMA InvInitially == Init => Inv
<1>1. SUFFICES ASSUME Init PROVE Inv
  OBVIOUS
<1>2. \A c \in Clients : /\ ds[c].pc = "find" /\ ds[c].at = 1 /\ pipe[c] = << >> /\ pending[c] = << >>
                         /\ details[c] = << >> /\ verdict[c] = << >>
  BY <1>1 DEF Init
<1>3. DOMAIN << >> = {} /\ Len(<< >>) = 0 /\ 1 .. 0 = {}
  OBVIOUS
<1>4. ShapeInv
  <2>1. ds \in [Clients -> MainTypes]
    <3>1. [pc |-> "find", at |-> 1, request |-> 0, res |-> 0, query |-> Blank] \in MainTypes
      BY DEF MainTypes, Before
    <3> QED BY <1>1, <3>1 DEF Init
  <2>2. /\ requests \in Seq(Requests) /\ pipe \in [Clients -> Seq(Details \cup Ends)]
        /\ verdict \in [Clients -> Seq(Verdicts)]
    BY <1>1 DEF Init
  <2>3. /\ answers \in SUBSET Answers /\ storing \in [Clients -> {None} \cup Dollars]
        /\ blind \in [Clients -> BOOLEAN] /\ scenario \in Scenarios
    BY <1>1 DEF Init
  <2>4. /\ details = [c \in Clients |-> details[c]] /\ pending = [c \in Clients |-> pending[c]]
        /\ sent = [c \in Clients |-> sent[c]] /\ missed = [c \in Clients |-> missed[c]]
    BY <1>1 DEF Init
  <2> QED BY <2>1, <2>2, <2>3, <2>4 DEF ShapeInv
<1>5. StoreInv
  BY <1>2, <1>3 DEF StoreInv
<1>6. MainInv
  <2>1. SUFFICES ASSUME NEW c \in Clients PROVE MainOf(c)
    BY DEF MainInv
  <2>2. Len(verdict[c]) = 0 /\ DOMAIN pending[c] = {}
    BY <1>2, <1>3
  <2>3. Len(verdict[c]) = ds[c].at - 1
    BY <1>2, <2>2
  <2> QED BY <1>2, <2>2, <2>3 DEF MainOf, Chained, Waits
<1>7. NumberInv
  <2>1. requests = << >> /\ answers = {}
    BY <1>1 DEF Init
  <2> QED BY <1>2, <1>3, <2>1 DEF NumberInv, UnderWay
<1>8. OrderInv
  BY <1>2 DEF OrderInv, OrderOf
<1>9. TraceInv
  BY <1>2 DEF TraceInv, TraceOf, Chained, Waits
<1> QED BY <1>4, <1>5, <1>6, <1>7, <1>8, <1>9 DEF Inv

LEMMA InvStep == Inv /\ [Next]_vars => Inv'
<1>1. SUFFICES ASSUME Inv, [Next]_vars PROVE Inv'
  OBVIOUS
<1>2. ASSUME NEW c \in Clients, Main(c) PROVE Inv'
  BY <1>1, <1>2, FindKeeps, SendKeeps, RegisterKeeps, GetChainKeeps, GetKeeps DEF Main
<1>3. ASSUME NEW c \in Clients, Listener(c) PROVE Inv'
  BY <1>1, <1>3, BeginStoreKeeps, EndStoreKeeps, EndKeeps DEF Listener
<1>4. ASSUME NEW c \in Clients, Join(c) PROVE Inv'
  BY <1>1, <1>4, RestKeeps DEF Join, listenerVars
<1>5. CASE Gateway
  BY <1>1, <1>5, AskingKeeps, PublishDetailsKeeps, PublishEndKeeps DEF Gateway
<1>6. CASE UNCHANGED vars
  BY <1>1, <1>6, RestKeeps DEF vars
<1> QED BY <1>1, <1>2, <1>3, <1>4, <1>5, <1>6 DEF Next

LEMMA InvAlways == Spec => []Inv
BY InvInitially, InvStep, PTL DEF Spec

\* Each client has as many verdicts as symbols dealt with, waits only for responses that it
\* has registered, and finds under a symbol what has that symbol.
THEOREM TypeCorrect == Spec => []TypeOK
<1>1. Inv => TypeOK
  <2>1. SUFFICES ASSUME Inv PROVE TypeOK
    OBVIOUS
  <2>2. ShapeInv /\ StoreInv /\ MainInv
    BY <2>1 DEF Inv
  <2>3. ASSUME NEW c \in Clients
        PROVE  /\ Len(verdict[c]) = ds[c].at - 1
               /\ \A id \in DOMAIN pending[c] : id <= ds[c].request /\ pending[c][id] \in Clients \cup {None}
               /\ ds[c].pc \in {"wait", "wait chain"} => ds[c].res \in DOMAIN pending[c]
               /\ \A k \in DOMAIN details[c] : symbol_from_contract(details[c][k]) = k
    <3>1. MainOf(c)
      BY <2>2 DEF MainInv
    <3>2. Len(verdict[c]) = ds[c].at - 1
      BY <3>1 DEF MainOf
    <3>3. \A id \in DOMAIN pending[c] : id <= ds[c].request /\ pending[c][id] \in Clients \cup {None}
      BY <3>1 DEF MainOf
    <3>4. ds[c].pc \in {"wait", "wait chain"} => ds[c].res \in DOMAIN pending[c]
      BY <3>1 DEF MainOf, Chained, Waits
    <3>5. \A k \in DOMAIN details[c] : symbol_from_contract(details[c][k]) = k
      BY <2>2 DEF StoreInv
    <3> QED BY <3>2, <3>3, <3>4, <3>5
  <2>4. scenario \in Scenarios
    BY <2>2 DEF ShapeInv
  <2> QED BY <2>3, <2>4 DEF TypeOK
<1> QED BY <1>1, InvAlways, PTL

\* A wait without a time limit (ContractManager.cpp:160-170) is in vain only when the End came
\* before the request was registered, or when something was published before the client had
\* joined: a request that is sent is always to be found, until its End completes it.
THEOREM WaitsInVainOnlyIfTheEndWasMissed == Spec => []WaitsInVainOnlyIfMissed
<1>1. Inv => WaitsInVainOnlyIfMissed
  <2>1. SUFFICES ASSUME Inv, NEW c \in Clients, Quiet(c), ds[c].pc \in {"wait", "wait chain"},
                        pending[c][IF ds[c].pc = "wait" THEN ds[c].res ELSE ds[c].request] = None
                 PROVE  blind[c] \/ missed[c] \cap {ds[c].res, ds[c].request} # {}
    BY DEF WaitsInVainOnlyIfMissed
  <2>2. ds[c].res \in Nat /\ ds[c].request \in Nat
    BY <2>1 DEF Inv, ShapeInv, MainTypes
  <2>3. PICK id \in Nat : id = IF ds[c].pc = "wait" THEN ds[c].res ELSE ds[c].request
    BY <2>2
  <2>4. Traced(c, id)
    BY <2>1, <2>3 DEF Inv, TraceInv, TraceOf, Waits
  <2>5. Len(requests) = 0 /\ Len(pipe[c]) = 0 /\ answers = {} /\ 1 .. 0 = {}
    <3>1. requests = << >> /\ pipe[c] = << >> /\ answers = {}
      BY <2>1 DEF Quiet
    <3>2. Len(<< >>) = 0 /\ 1 .. 0 = {}
      OBVIOUS
    <3> QED BY <3>1, <3>2
  <2>6. blind[c] \/ id \in missed[c]
    BY <2>1, <2>3, <2>4, <2>5 DEF Traced
  <2> QED BY <2>3, <2>6
<1> QED BY <1>1, InvAlways, PTL

-----------------------------------------------------------------------------
(* What is asked of the firehose *)

LEMMA SubscribeSends ==
  ASSUME Inv, SubscribesOwnContract, NEW c \in Clients, NEW found \in findContract(c, Key(c)),
         found # None, NEW feeds, Subscribe(c, found, feeds)
  PROVE  SubscribesOwnContract'
<1> DEFINE racing == Written(c, Key(c))
<1>1. sent = [d \in Clients |-> sent[d]]
  BY DEF Inv, ShapeInv
<1>2. IF racing THEN found \in Torn(Subscribable(Key(c))) ELSE found \in Subscribable(Key(c))
  BY WhatIsFound DEF Inv
<1>3. PICK accepted :
        sent' = [sent EXCEPT ![c] = @ \cup
                   {[key |-> Key(c), feed |-> f, contract |-> found, racing |-> racing] :
                      f \in accepted}]
  BY DEF Subscribe
<1>4. ASSUME NEW k \in Known PROVE k.id # 0 /\ Marshalls(k)
  BY ContractManagerAssumption DEF Marshalls
<1>5. ASSUME NEW s \in sent'[c] \ sent[c]
      PROVE  IF s.racing THEN s.contract \in Torn(Subscribable(s.key))
             ELSE s.contract \in Subscribable(s.key) /\ s.contract.id # 0 /\ Marshalls(s.contract)
  <2>1. PICK f \in accepted :
          s = [key |-> Key(c), feed |-> f, contract |-> found, racing |-> racing]
    BY <1>1, <1>3
  <2>2. s.key = Key(c) /\ s.contract = found /\ s.racing = racing
    BY <2>1
  <2>3. Subscribable(Key(c)) \subseteq Known
    BY DEF Subscribable
  <2> HIDE DEF racing
  <2> QED BY <1>2, <1>4, <2>2, <2>3
<1>6. \A d \in Clients \ {c} : sent'[d] = sent[d]
  BY <1>1, <1>3
<1>7. \A d \in Clients : \A s \in sent[d] :
        IF s.racing THEN s.contract \in Torn(Subscribable(s.key))
        ELSE s.contract \in Subscribable(s.key) /\ s.contract.id # 0 /\ Marshalls(s.contract)
  BY DEF SubscribesOwnContract
<1> QED BY <1>5, <1>6, <1>7 DEF SubscribesOwnContract

LEMMA SentStep == Inv /\ SubscribesOwnContract /\ [Next]_vars => SubscribesOwnContract'
<1>1. SUFFICES ASSUME Inv, SubscribesOwnContract, [Next]_vars PROVE SubscribesOwnContract'
  OBVIOUS
<1>2. CASE sent' = sent
  BY <1>1, <1>2 DEF SubscribesOwnContract
<1>3. ASSUME NEW c \in Clients, Find(c) PROVE SubscribesOwnContract'
  <2>1. PICK found \in findContract(c, Key(c)) :
          (found # None /\ Subscribe(c, found, Feeds(c))) \/ sent' = sent
    BY <1>3 DEF Find
  <2> QED BY <1>1, <1>2, <2>1, SubscribeSends
<1>4. ASSUME NEW c \in Clients, GetReady(c) PROVE SubscribesOwnContract'
  <2>1. PICK found \in findContract(c, Key(c)) :
          (found # None /\ Subscribe(c, found, FeedsAndDepth(c))) \/ sent' = sent
    BY <1>4 DEF GetReady
  <2> QED BY <1>1, <1>2, <2>1, SubscribeSends
<1>5. ASSUME NEW c \in Clients, Main(c) \/ Listener(c) \/ Join(c), ~ Find(c), ~ GetReady(c)
      PROVE  sent' = sent
  BY <1>5 DEF Main, Listener, Join, Send, Register, GetChain, GetTimesOut, BeginStore, EndStore,
              handleContractDetailsEnd
<1>6. Gateway \/ UNCHANGED vars => sent' = sent
  BY DEF Gateway, Ask, PublishDetails, PublishEnd, vars
<1> QED BY <1>1, <1>2, <1>3, <1>4, <1>5, <1>6 DEF Next

\* What ds asks the firehose for (ds_main.cpp:183-226) is a contract of the symbol it was
\* given, in USD and with the gateway's id, that the firehose can marshal, whoever's answer
\* it came with.  A lookup that raced the write of that symbol may have read a field unset or
\* without its value, but no field of a contract with another symbol or currency.
THEOREM OwnContractIsSubscribed == Spec => []SubscribesOwnContract
<1>1. Init => SubscribesOwnContract
  BY DEF Init, SubscribesOwnContract
<1> QED BY <1>1, SentStep, InvAlways, PTL DEF Spec

-----------------------------------------------------------------------------
(* What is said of a symbol *)

\* A verdict is one more than before, on the symbol the client is at.
LEMMA VerdictGiven ==
  ASSUME Inv, UnknownOnlyByCrossTalk, NEW c \in Clients, NEW result \in Outcomes,
         NextSymbol(c, result), UNCHANGED <<scenario, blind>>,
         result = "unknown" /\ Key(c) \in USDSymbols =>
           \/ ds[c].pc # "find" /\ pending[c][ds[c].res] # c
           \/ storing[c] # None
           \/ blind[c]
  PROVE  UnknownOnlyByCrossTalk'
<1>1. ShapeInv /\ MainOf(c)
  BY DEF Inv, MainInv
<1>2. PICK v \in Verdicts :
        /\ verdict'[c] = Append(verdict[c], v) /\ v.what = result
        /\ v.racing <=> storing[c] # None
        /\ v.foreign <=> (ds[c].pc # "find" /\ pending[c][ds[c].res] # c)
  BY <1>1, NextSymbolEffect
<1>3. \A d \in Clients \ {c} : verdict'[d] = verdict[d]
  BY <1>1, NextSymbolEffect
<1>4. PICK s \in Seq(Verdicts) : s = verdict[c]
  BY <1>1 DEF ShapeInv
<1>5. PICK n \in Nat : n = Len(s) /\ ds[c].at = n + 1
  <2>1. Len(verdict[c]) = ds[c].at - 1
    BY <1>1 DEF MainOf
  <2>2. ds[c].at \in Nat
    BY <1>1 DEF ShapeInv, MainTypes
  <2>3. Len(s) \in Nat
    BY <1>4
  <2> QED BY <1>4, <2>1, <2>2, <2>3
<1>6. /\ DOMAIN verdict'[c] = 1 .. n + 1 /\ DOMAIN verdict[c] = 1 .. n
      /\ \A i \in 1 .. n : verdict'[c][i] = verdict[c][i]
      /\ verdict'[c][n + 1] = v
  BY <1>2, <1>4, <1>5
<1>7. SUFFICES ASSUME NEW d \in Clients, NEW i \in DOMAIN verdict'[d],
                      verdict'[d][i].what = "unknown", Symbols(d)[i] \in USDSymbols
               PROVE  verdict'[d][i].foreign \/ verdict'[d][i].racing \/ blind[d]
  BY DEF UnknownOnlyByCrossTalk, Symbols, USDSymbols
<1>8. CASE d # c
  BY <1>3, <1>7, <1>8 DEF UnknownOnlyByCrossTalk
<1>9. CASE d = c /\ i \in 1 .. n
  BY <1>6, <1>7, <1>9 DEF UnknownOnlyByCrossTalk
<1>10. CASE d = c /\ i = n + 1
  <2>1. Key(c) \in USDSymbols /\ result = "unknown"
    BY <1>2, <1>5, <1>6, <1>7, <1>10 DEF Key
  <2>2. v.foreign \/ v.racing \/ blind[c]
    BY <1>2, <2>1
  <2> QED BY <1>6, <1>10, <2>2
<1> QED BY <1>6, <1>8, <1>9, <1>10

\* After the client's own End the contract is there.
LEMMA OwnEndMeansStored ==
  ASSUME Inv, NEW c \in Clients, ds[c].pc = "wait", Key(c) \in USDSymbols, ~ blind[c],
         pending[c][ds[c].res] = c
  PROVE  Key(c) \in DOMAIN details[c]
<1>1. PICK w \in Dollars : symbol_from_contract(w) = Key(c)
  BY DEF USDSymbols, Dollars
<1>2. Completed(c)
  BY <1>1 DEF Inv, OrderInv, OrderOf
<1>3. ds[c].res \in DOMAIN pending[c]
  BY DEF Inv, MainInv, MainOf, Waits
<1> QED BY <1>2, <1>3 DEF Completed

LEMMA VerdictStep == Inv /\ UnknownOnlyByCrossTalk /\ [Next]_vars => UnknownOnlyByCrossTalk'
<1>1. SUFFICES ASSUME Inv, UnknownOnlyByCrossTalk, [Next]_vars PROVE UnknownOnlyByCrossTalk'
  OBVIOUS
<1>2. ASSUME UNCHANGED <<scenario, verdict>>, \A c \in Clients : blind[c] => blind'[c]
      PROVE  UnknownOnlyByCrossTalk'
  BY <1>1, <1>2 DEF UnknownOnlyByCrossTalk, Symbols, USDSymbols
<1>3. ASSUME NEW c \in Clients, Find(c) PROVE UnknownOnlyByCrossTalk'
  <2>1. UNCHANGED <<scenario, blind>>
    BY <1>3 DEF Find, gatewayVars
  <2>2. \/ \E result \in Outcomes \ {"unknown"} : NextSymbol(c, result)
        \/ verdict' = verdict
    BY <1>3 DEF Find, Outcomes
  <2> QED BY <1>1, <1>2, <2>1, <2>2, VerdictGiven
<1>4. ASSUME NEW c \in Clients, GetTimesOut(c) PROVE UnknownOnlyByCrossTalk'
  <2>1. UNCHANGED <<scenario, blind>>
    BY <1>4 DEF GetTimesOut, gatewayVars
  <2>2. \E result \in Outcomes \ {"unknown"} : NextSymbol(c, result)
    BY <1>4 DEF GetTimesOut, Outcomes
  <2> QED BY <1>1, <2>1, <2>2, VerdictGiven
<1>5. ASSUME NEW c \in Clients, GetReady(c) PROVE UnknownOnlyByCrossTalk'
  <2>1. UNCHANGED <<scenario, blind>> /\ ds[c].pc = "wait"
    BY <1>5 DEF GetReady, gatewayVars
  <2>2. \/ \E result \in Outcomes \ {"unknown"} : NextSymbol(c, result)
        \/ NextSymbol(c, "unknown") /\ None \in findContract(c, Key(c))
    BY <1>5 DEF GetReady, Outcomes
  <2>3. CASE \E result \in Outcomes \ {"unknown"} : NextSymbol(c, result)
    BY <1>1, <2>1, <2>3, VerdictGiven
  <2>4. CASE NextSymbol(c, "unknown") /\ None \in findContract(c, Key(c))
    <3>1. storing[c] # None \/ Key(c) \notin DOMAIN details[c]
      BY <1>1, <2>4, WhatIsFound DEF Inv
    <3>2. Key(c) \in USDSymbols => \/ ds[c].pc # "find" /\ pending[c][ds[c].res] # c
                                   \/ storing[c] # None
                                   \/ blind[c]
      BY <1>1, <2>1, <3>1, OwnEndMeansStored
    <3>3. PICK result \in Outcomes : result = "unknown"
      BY DEF Outcomes
    <3>4. NextSymbol(c, result)
      BY <2>4, <3>3
    <3> QED BY <1>1, <2>1, <3>2, <3>4, VerdictGiven
  <2> QED BY <2>2, <2>3, <2>4
<1>6. ASSUME NEW c \in Clients, Main(c) \/ Listener(c) \/ Join(c), ~ Find(c), ~ GetTimesOut(c), ~ GetReady(c)
      PROVE  UNCHANGED <<scenario, verdict, blind>>
  BY <1>6 DEF Main, Listener, Join, Send, Register, GetChain, BeginStore, EndStore,
              handleContractDetailsEnd, gatewayVars
<1>7. Gateway \/ UNCHANGED vars => /\ UNCHANGED <<scenario, verdict>>
                                   /\ \A c \in Clients : blind[c] => blind'[c]
  BY DEF Gateway, Ask, PublishDetails, PublishEnd, Publish, vars
<1> QED BY <1>1, <1>2, <1>3, <1>4, <1>5, <1>6, <1>7 DEF Next

\* ds says that a contract is "not known to IB" (ds_main.cpp:222-225), of one that the gateway
\* has in dollars, only when another client's End ended its wait, when it had not joined in
\* time, or when its lookup raced the listener's write: after its own End the contract is there.
THEOREM UnknownOnlyByOthers == Spec => []UnknownOnlyByCrossTalk
<1>1. Init => UnknownOnlyByCrossTalk
  <2>1. SUFFICES ASSUME Init, NEW c \in Clients PROVE DOMAIN verdict[c] = {}
    BY DEF UnknownOnlyByCrossTalk
  <2>2. verdict[c] = << >>
    BY <2>1 DEF Init
  <2> QED BY <2>2
<1> QED BY <1>1, VerdictStep, InvAlways, PTL DEF Spec
=============================================================================
