------------------------------ MODULE TickerMap -----------------------------
(***************************************************************************)
(* TickerMap: the process-wide maps between the contract ids that the      *)
(* gateway's ticks carry and the symbols they are published under.         *)
(* registerContract writes them under a mutex; the event threads look ids  *)
(* up without it.                                                          *)
(***************************************************************************)
EXTENDS Integers, FiniteSets, Sequences

CONSTANTS Contracts, \* that the firehose is asked for: [id, symbol, secType, strike]; id 0: not known
          None

VARIABLES
  idSymbol,  \* TICKER_ID_SYMBOL_MAP
  symbolId,  \* SYMBOL_TICKER_ID_MAP
  inserting  \* the entry whose insertion holds the mutex, or None

tickerVars == <<idSymbol, symbolId, inserting>>

\* Of the fields of an option's key only the strike is kept apart here.
symbol_from_contract(c) ==
  IF c.secType = "OPT" THEN <<c.symbol, c.secType, c.strike>> ELSE <<c.symbol, c.secType>>

Symbols == {symbol_from_contract(c) : c \in Contracts}

\* An id of the gateway's own is that of one contract.
ASSUME TickerMapAssumption ==
  /\ \A c \in Contracts : c.id \in Nat
  /\ \A c, d \in Contracts :
       c.id = d.id /\ c.id # 0 => symbol_from_contract(c) = symbol_from_contract(d)
  /\ None \notin [id : Nat, symbol : Symbols]

\* Mutant: the number of contracts, not one more.
TickerIdBySize(c) == IF c.id = 0 THEN Cardinality(DOMAIN idSymbol) ELSE c.id

\* The id that a contract gets: its own, or one more than the number of contracts.
TickerIdOf(c) == IF c.id = 0 THEN Cardinality(DOMAIN idSymbol) + 1 ELSE c.id

TickerInit ==
  /\ idSymbol = << >>
  /\ symbolId = << >>
  /\ inserting = None

\* Mutant: the symbol is not compared.
RegisteredById(c) == TickerIdOf(c) \in DOMAIN idSymbol

\* An id that is there already is good for the same symbol only.
Registered(c) ==
  /\ TickerIdOf(c) \in DOMAIN idSymbol
  /\ idSymbol[TickerIdOf(c)] = symbol_from_contract(c)

Refused(c) ==
  /\ TickerIdOf(c) \in DOMAIN idSymbol
  /\ idSymbol[TickerIdOf(c)] # symbol_from_contract(c)

BeginInsert(c) ==
  /\ inserting = None
  /\ TickerIdOf(c) \notin DOMAIN idSymbol
  /\ inserting' = [id |-> TickerIdOf(c), symbol |-> symbol_from_contract(c)]
  /\ UNCHANGED <<idSymbol, symbolId>>

\* map[key] = value.
Assign(map, key, value) == [k \in DOMAIN map \cup {key} |-> IF k = key THEN value ELSE map[k]]

EndInsert ==
  /\ inserting # None
  /\ idSymbol' = Assign(idSymbol, inserting.id, inserting.symbol)
  /\ symbolId' = Assign(symbolId, inserting.symbol, inserting.id)
  /\ inserting' = None

\* What an unlocked find may answer: during an insertion the tree is in motion, and an
\* entry may be missed or, if it is the new one, be seen already.
getSubscriptionKeyFromId(id) ==
  IF inserting = None
  THEN IF id \in DOMAIN idSymbol THEN {idSymbol[id]} ELSE {<< >>}
  ELSE {<< >>} \cup {Assign(idSymbol, inserting.id, inserting.symbol)[i] :
                       i \in {id} \cap (DOMAIN idSymbol \cup {inserting.id})}
=============================================================================
