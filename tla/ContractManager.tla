--------------------------- MODULE ContractManager --------------------------
(***************************************************************************)
(* The contract side: clients (ds, with the ContractManager service) that  *)
(* look symbols up, ask the contract manager program (cm) for those they   *)
(* do not know, wait for the end of its answer, and subscribe at the       *)
(* firehose; and cm, which publishes what the gateway (external) knows.    *)
(*                                                                         *)
(* A client's listener thread stores what is published while the main      *)
(* thread looks up, without a lock they share.  Answers are published by   *)
(* type, so that every client gets those of all.                           *)
(***************************************************************************)
EXTENDS Integers, Sequences, FiniteSets

CONSTANTS Clients,
          Known,      \* the contracts that the gateway has
          Dates,      \* words of eight digits
          Scenarios,  \* each client's symbols and flags
          None

VARIABLES
  scenario,
  requests,  \* in cm's PULL socket: [client, id, query]
  answers,   \* those the gateway is working on: [client, id, left]
  joined,    \* the clients whose subscription has reached cm's publisher
  pipe,      \* pipe[c]: published messages that wait for the listener of c
  storing,   \* storing[c]: the contract being written to contractDetails_, or None
  details,   \* details[c]: contractDetails_, by symbol
  pending,   \* pending[c]: pendingRequests_: by id, the client whose End came, or None
  ds,        \* ds[c]: the main thread: [pc, at, request, res, query]
  verdict,   \* verdict[c]: what became of each symbol so far: [what, racing, foreign], with
             \* whether the lookup raced a write and whether another's End ended the wait
  sent,      \* sent[c]: the contracts that c asked the firehose for: [key, feed, contract,
             \* racing], with whether its contract was being written when it was looked up
  missed,    \* missed[c]: ids of c's requests whose End came when nobody waited (history)
  blind      \* blind[c]: something was published before c had joined (history)

vars == <<scenario, requests, answers, joined, pipe, storing, details, pending, ds, verdict,
          sent, missed, blind>>

Contract(id, symbol, type, expiry, strike, right, currency) ==
  [id |-> id, symbol |-> symbol, type |-> type, expiry |-> expiry, strike |-> strike,
   right |-> right, currency |-> currency]

\* A summary that operator[] has made, or CopyFrom has cleared, and not yet written.
Blank == Contract(0, "", "STK", "", "", "", "")

\* The fields of c marked as set, without their value yet, or with a part of the date.
Raw(c) == Contract(0, "", "STK", IF c.expiry = "" THEN "" ELSE "partial",
                   IF c.strike = "" THEN "" ELSE "0", IF c.right = "" THEN "" ELSE "P", "")

\* What the gateway has is complete: an id, and of an option its date, strike and right.
ASSUME ContractManagerAssumption ==
  /\ None \notin Clients /\ None \notin Known \cup {Blank}
  /\ Dates \cap {"P", "C"} = {}
  /\ \A k \in Known :
       /\ k = Contract(k.id, k.symbol, k.type, k.expiry, k.strike, k.right, k.currency)
       /\ k.id # 0
       /\ k.type = "OPT" => k.expiry # "" /\ k.strike # "" /\ k.right \in {"P", "C"}

\* symbol_from_contract and format_option_contract_key.
symbol_from_contract(c) ==
  IF c.type = "OPT" THEN <<c.symbol, "OPT", c.expiry, c.strike, c.right>>
  ELSE <<c.symbol, c.type>>

\* The request*Details operations; the id is 0, to be filled by the response.
StockQuery(symbol) == Contract(0, symbol, "STK", "", "0", "", "USD")
IndexQuery(symbol) == Contract(0, symbol, "IND", "", "", "", "")
ChainQuery(symbol) == Contract(0, symbol, "OPT", "", "", "", "")
OptionQuery(symbol, expiry, strike, right) ==
  Contract(0, symbol, "OPT", expiry, strike, right, "USD")

\* What ds may ask for: the strike is read from the third part of an option's symbol, date
\* and right both from the fifth.  Of a date, right is left as the stack had it.
parse_encoded_symbol(key) ==
  CASE Len(key) < 2 -> {}
    [] key[2] = "STK" -> {StockQuery(key[1])}
    [] key[2] = "IND" -> {IndexQuery(key[1])}
    [] key[2] = "OPT" /\ Len(key) = 5 ->
         {OptionQuery(key[1], key[5], key[3], r) : r \in IF key[5] \in Dates THEN {"P", "C"} ELSE {}}
    [] OTHER -> {}

\* The gateway answers with every contract that agrees in what the query says.
Agrees(asked, has) == asked \in {"", "0"} \/ asked = has
Matches(q) ==
  {c \in Known : c.symbol = q.symbol /\ c.type = q.type /\ Agrees(q.expiry, c.expiry)
                 /\ Agrees(q.strike, c.strike) /\ Agrees(q.right, c.right)
                 /\ Agrees(q.currency, c.currency)}

\* Contract << proto::ib::Contract: what cm and the firehose refuse to send on.
Marshalls(c) ==
  c.type = "OPT" /\ c.id # 0 => c.right # "" /\ c.strike # "" /\ c.expiry # ""

\* proto::ib::Contract << Contract: the currency of a contract is that of its strike.
Marshalled(c) == IF c.currency = "USD" THEN c ELSE [c EXCEPT !.currency = "OTHER"]

\* map[key] = value.
Assign(map, key, value) == [k \in DOMAIN map \cup {key} |-> IF k = key THEN value ELSE map[k]]

Symbols(c) == scenario.symbols[c]

Init ==
  /\ scenario \in Scenarios
  /\ requests = << >>
  /\ answers = {}
  /\ joined = {}
  /\ pipe = [c \in Clients |-> << >>]
  /\ storing = [c \in Clients |-> None]
  /\ details = [c \in Clients |-> << >>]
  /\ pending = [c \in Clients |-> << >>]
  /\ ds = [c \in Clients |-> [pc |-> "find", at |-> 1, request |-> 0, res |-> 0,
                              query |-> Blank]]
  /\ verdict = [c \in Clients |-> << >>]
  /\ sent = [c \in Clients |-> {}]
  /\ missed = [c \in Clients |-> {}]
  /\ blind = [c \in Clients |-> FALSE]

gatewayVars == <<answers, joined, pipe, blind>>
listenerVars == <<storing, details, pending, missed>>

-----------------------------------------------------------------------------
(* The main thread of ds *)

Key(c) == Symbols(c)[ds[c].at]
HasKey(c) == ds[c].at <= Len(Symbols(c))

\* The listener is writing the contract of key.
Written(c, key) == storing[c] # None /\ symbol_from_contract(storing[c]) = key

\* CopyFrom reads field by field what another CopyFrom clears and writes field by field.
Torn(contracts) ==
  LET seen == {Blank} \cup contracts \cup {Raw(k) : k \in contracts}
  IN  [id     : {v.id : v \in seen},     symbol : {v.symbol : v \in seen},
       type   : {v.type : v \in seen},   expiry : {v.expiry : v \in seen},
       strike : {v.strike : v \in seen}, right  : {v.right : v \in seen},
       currency : {v.currency : v \in seen}]

\* findContract, without the lock: a contract may be missed while another is inserted, and
\* what is being written may be seen in part.
findContract(c, key) ==
  LET there == IF key \in DOMAIN details[c] THEN {details[c][key]} ELSE {}
  IN  (IF there = {} \/ storing[c] # None THEN {None} ELSE {})
      \cup there
      \cup (IF Written(c, key) THEN Torn({storing[c]} \cup there) ELSE {})

Go(c, pc) == ds' = [ds EXCEPT ![c].pc = pc]

NextSymbol(c, result) ==
  /\ ds' = [ds EXCEPT ![c] = [@ EXCEPT !.pc = "find", !.at = ds[c].at + 1,
                                       !.request = ds[c].request + 1]]
  /\ verdict' = [verdict EXCEPT ![c] = Append(@, [what |-> result, racing |-> storing[c] # None,
       foreign |-> IF ds[c].pc = "find" THEN FALSE ELSE pending[c][ds[c].res] # c])]

\* A request to the firehose.  One that was read in part may lack a required field: then it
\* does not serialize, or is refused there.
Subscribe(c, contract, feeds) ==
  LET racing == Written(c, Key(c))
  IN  \E accepted \in {feeds} \cup (IF racing THEN {{}} ELSE {}) :
        sent' = [sent EXCEPT ![c] = @ \cup
                   {[key |-> Key(c), feed |-> f, contract |-> contract, racing |-> racing] :
                      f \in accepted}]

Feeds(c) ==
  CASE scenario.unsubscribe -> {"cancel"}
    [] scenario.subscribe -> {"data"}
    [] OTHER -> {}

FeedsAndDepth(c) == Feeds(c) \cup (IF Feeds(c) = {"data"} /\ scenario.depth THEN {"depth"} ELSE {})

Find(c) ==
  /\ c \in scenario.clients
  /\ ds[c].pc = "find" /\ HasKey(c)
  /\ \E found \in findContract(c, Key(c)) :
       \/ /\ found # None
          /\ Subscribe(c, found, Feeds(c))
          /\ NextSymbol(c, "found")
       \/ /\ found = None
          /\ parse_encoded_symbol(Key(c)) = {}
          /\ NextSymbol(c, "bad symbol")
          /\ sent' = sent
       \/ /\ found = None
          /\ \E q \in parse_encoded_symbol(Key(c)) :
               ds' = [ds EXCEPT ![c] = [@ EXCEPT !.pc = "send", !.query = q,
                                                 !.res = ds[c].request]]
          /\ UNCHANGED <<verdict, sent>>
  /\ UNCHANGED <<scenario, requests, gatewayVars, listenerVars>>

\* requestContractDetails sends first ...
Send(c) ==
  /\ ds[c].pc \in {"send", "send chain"}
  /\ requests' = Append(requests, [client |-> c, id |-> ds[c].request, query |-> ds[c].query])
  /\ Go(c, IF ds[c].pc = "send" THEN "register" ELSE "register chain")
  /\ UNCHANGED <<scenario, gatewayVars, listenerVars, verdict, sent>>

\* Mutant: the response gets the next number.
RegisterNext(c) ==
  /\ ds[c].pc = "register"
  /\ pending' = [pending EXCEPT ![c] = Assign(@, ds[c].request + 1, None)]
  /\ Go(c, "wait")
  /\ UNCHANGED <<scenario, requests, gatewayVars, storing, details, missed, verdict, sent>>

\* ... and then registers the response that the listener is to complete.
Register(c) ==
  /\ ds[c].pc \in {"register", "register chain"}
  /\ pending' = [pending EXCEPT ![c] = Assign(@, ds[c].request, None)]
  /\ \/ /\ ds[c].pc = "register" /\ scenario.optionChain /\ ds[c].query.type = "STK"
        /\ ds' = [ds EXCEPT ![c] = [@ EXCEPT !.pc = "send chain", !.request = ds[c].request + 1,
                                             !.query = ChainQuery(ds[c].query.symbol)]]
     \/ /\ ds[c].pc = "register" /\ ~(scenario.optionChain /\ ds[c].query.type = "STK")
        /\ Go(c, "wait")
     \/ /\ ds[c].pc = "register chain"
        /\ Go(c, "wait chain")
  /\ UNCHANGED <<scenario, requests, gatewayVars, storing, details, missed, verdict, sent>>

\* async_response::get of the chain, whose outcome is logged only.
GetChain(c) ==
  /\ ds[c].pc = "wait chain"
  /\ pending[c][ds[c].request] # None \/ scenario.timed
  /\ Go(c, "wait")
  /\ UNCHANGED <<scenario, requests, gatewayVars, listenerVars, verdict, sent>>

\* Mutant: the time limit is ignored.
NeverTimesOut(c) == FALSE

\* async_response::get: with no time limit only the End ends the wait.
TimesOut(c) == scenario.timed

GetTimesOut(c) ==
  /\ ds[c].pc = "wait"
  /\ pending[c][ds[c].res] = None
  /\ TimesOut(c)
  /\ NextSymbol(c, "timed out")
  /\ UNCHANGED <<scenario, requests, gatewayVars, listenerVars, sent>>

GetReady(c) ==
  /\ ds[c].pc = "wait"
  /\ pending[c][ds[c].res] # None
  /\ \E found \in findContract(c, Key(c)) :
       \/ /\ found # None
          /\ Subscribe(c, found, FeedsAndDepth(c))
          /\ NextSymbol(c, "found")
       \/ /\ found = None
          /\ sent' = sent
          /\ NextSymbol(c, "unknown")
  /\ UNCHANGED <<scenario, requests, gatewayVars, listenerVars>>

-----------------------------------------------------------------------------
(* cm and the gateway *)

\* Mutant: an unknown symbol has no answer.
AskIfKnown ==
  /\ requests # << >>
  /\ LET r == Head(requests)
     IN  answers' = answers \cup {a \in {[client |-> r.client, id |-> r.id,
                                         left |-> Matches(r.query)]} : a.left # {}}
  /\ requests' = Tail(requests)
  /\ UNCHANGED <<scenario, joined, pipe, blind, listenerVars, ds, verdict, sent>>

\* RequestContractDetails: the reactor passes the query on.
Ask ==
  /\ requests # << >>
  /\ Marshalls(Head(requests).query)
  /\ LET r == Head(requests)
     IN  answers' = answers \cup {[client |-> r.client, id |-> r.id, left |-> Matches(r.query)]}
  /\ requests' = Tail(requests)
  /\ UNCHANGED <<scenario, joined, pipe, blind, listenerVars, ds, verdict, sent>>

Publish(message) ==
  /\ pipe' = [c \in Clients |-> IF c \in joined THEN Append(pipe[c], message) ELSE pipe[c]]
  /\ blind' = [c \in Clients |-> blind[c] \/ c \notin joined]

\* ContractEventDispatcher: contractDetails, one for each contract.
PublishDetails(a, contract) ==
  /\ a \in answers /\ contract \in a.left
  /\ answers' = (answers \ {a}) \cup {[a EXCEPT !.left = @ \ {contract}]}
  /\ Publish([kind |-> "details", contract |-> Marshalled(contract), client |-> a.client,
              id |-> a.id])
  /\ UNCHANGED <<scenario, requests, joined, listenerVars, ds, verdict, sent>>

\* Mutant: the end does not wait for the details.
EndBeforeDetails(a) ==
  /\ a \in answers
  /\ answers' = answers \ {a}
  /\ Publish([kind |-> "end", contract |-> Blank, client |-> a.client, id |-> a.id])
  /\ UNCHANGED <<scenario, requests, joined, listenerVars, ds, verdict, sent>>

\* contractDetailsEnd, and onNoContractDefinition, which simulates one.
PublishEnd(a) ==
  /\ a \in answers /\ a.left = {}
  /\ answers' = answers \ {a}
  /\ Publish([kind |-> "end", contract |-> Blank, client |-> a.client, id |-> a.id])
  /\ UNCHANGED <<scenario, requests, joined, listenerVars, ds, verdict, sent>>

\* The constructor returns when the listener has subscribed; that reaches cm some time.
Join(c) ==
  /\ c \notin joined /\ c \in scenario.clients
  /\ joined' = joined \cup {c}
  /\ UNCHANGED <<scenario, requests, answers, pipe, blind, listenerVars, ds, verdict, sent>>

-----------------------------------------------------------------------------
(* The listener thread of the ContractManager service *)

\* Mutant: contracts in any currency are stored.
AnyCurrency(contract) == TRUE
CurrencyIsUSD(contract) == contract.currency = "USD"

\* handleContractDetailsResponse: the assignment is not atomic for the main thread.
BeginStore(c) ==
  /\ storing[c] = None /\ pipe[c] # << >> /\ Head(pipe[c]).kind = "details"
  /\ storing' = [storing EXCEPT ![c] = IF CurrencyIsUSD(Head(pipe[c]).contract)
                                       THEN Head(pipe[c]).contract ELSE None]
  /\ pipe' = [pipe EXCEPT ![c] = Tail(@)]
  /\ UNCHANGED <<scenario, requests, answers, joined, blind, details, pending, missed, ds,
                 verdict, sent>>

EndStore(c) ==
  /\ storing[c] # None
  /\ details' = [details EXCEPT ![c] = Assign(@, symbol_from_contract(storing[c]), storing[c])]
  /\ storing' = [storing EXCEPT ![c] = None]
  /\ UNCHANGED <<scenario, requests, gatewayVars, pending, missed, ds, verdict, sent>>

\* handleContractDetailsEnd: the response of the id, whoever asked.
handleContractDetailsEnd(c) ==
  /\ storing[c] = None /\ pipe[c] # << >> /\ Head(pipe[c]).kind = "end"
  /\ LET m == Head(pipe[c])
     IN  IF m.id \in DOMAIN pending[c]
         THEN pending' = [pending EXCEPT ![c][m.id] = m.client] /\ missed' = missed
         ELSE /\ pending' = pending
              /\ missed' = [missed EXCEPT ![c] = IF m.client = c THEN @ \cup {m.id} ELSE @]
  /\ pipe' = [pipe EXCEPT ![c] = Tail(@)]
  /\ UNCHANGED <<scenario, requests, answers, joined, blind, storing, details, ds, verdict,
                 sent>>
-----------------------------------------------------------------------------
Main(c) ==
  \/ Find(c)
  \/ Send(c)
  \/ Register(c)
  \/ GetChain(c)
  \/ GetTimesOut(c)
  \/ GetReady(c)

Listener(c) == BeginStore(c) \/ EndStore(c) \/ handleContractDetailsEnd(c)

Gateway ==
  \/ Ask
  \/ \E a \in answers : PublishEnd(a) \/ \E contract \in a.left : PublishDetails(a, contract)

Next ==
  \/ \E c \in Clients : Main(c) \/ Listener(c) \/ Join(c)
  \/ Gateway

\* The main thread of a client runs; nothing is owed by its listener, cm or the gateway.
Fairness == \A c \in Clients : WF_vars(Main(c))

Spec == Init /\ [][Next]_vars
FairSpec == Spec /\ Fairness

Finished(c) == ~HasKey(c)

TypeOK ==
  /\ scenario \in Scenarios
  /\ \A c \in Clients :
       /\ Len(verdict[c]) = ds[c].at - 1
       /\ \A id \in DOMAIN pending[c] : id <= ds[c].request /\ pending[c][id] \in Clients \cup {None}
       /\ ds[c].pc \in {"wait", "wait chain"} => ds[c].res \in DOMAIN pending[c]
       /\ \A k \in DOMAIN details[c] : symbol_from_contract(details[c][k]) = k

-----------------------------------------------------------------------------
\* The contracts ds may subscribe to under a symbol.
Subscribable(key) == {k \in Known : k.currency = "USD" /\ symbol_from_contract(k) = key}

\* What ds asks the firehose for is a contract of the symbol it was given, with the
\* gateway's id and in USD, that the firehose can marshal, whoever's answer it came with
\* (ContractManager.cpp:104-110, ds_main.cpp:183-226, marshall_contract.cpp:10-109).  When
\* the lookup raced the listener's write of that symbol (ContractManager.cpp:106, 177), some
\* fields may be unset or without their value, and the rest are such a contract's.
SubscribesOwnContract ==
  \A c \in Clients : \A s \in sent[c] :
     LET own == Subscribable(s.key)
     IN  IF s.racing THEN s.contract \in Torn(own)
         ELSE s.contract \in own /\ s.contract.id # 0 /\ Marshalls(s.contract)

USDSymbols == {symbol_from_contract(k) : k \in {contract \in Known : contract.currency = "USD"}}

\* ds says that a contract is "not known to IB" (ds_main.cpp:222-225), of one that is, only
\* when the End of another client's request with the same number ended its wait, when it
\* had not joined cm's publisher in time, or when its lookup raced the listener's write.
UnknownOnlyByCrossTalk ==
  \A c \in Clients : \A i \in DOMAIN verdict[c] :
     /\ verdict[c][i].what = "unknown"
     /\ Symbols(c)[i] \in USDSymbols
     => verdict[c][i].foreign \/ verdict[c][i].racing \/ blind[c]

Quiet(c) == requests = << >> /\ answers = {} /\ pipe[c] = << >> /\ storing[c] = None

\* A wait without a time limit is in vain only when the End came between the sending of
\* the request and its registration (ContractManager.cpp:160-170), or before the client
\* had joined; an unknown symbol never makes ds wait (onNoContractDefinition).
WaitsInVainOnlyIfMissed ==
  \A c \in Clients :
     /\ Quiet(c)
     /\ ds[c].pc \in {"wait", "wait chain"}
     /\ pending[c][IF ds[c].pc = "wait" THEN ds[c].res ELSE ds[c].request] = None
     => blind[c] \/ missed[c] \cap {ds[c].res, ds[c].request} # {}

\* With --requestTimeoutMillis ds comes to the end of its list whatever is lost or late
\* (ds_main.cpp:101-229, async_response.hpp:27-40).
ListEnds == scenario.timed => <>(\A c \in scenario.clients : Finished(c))
=============================================================================
