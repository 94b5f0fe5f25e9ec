-------------------------------- MODULE Varz --------------------------------
(***************************************************************************)
(* Exported counters (varz/varz.cpp) and the HTTP server that shows them   *)
(* (varz/VarzServer.cpp).  A varz is registered under its name before main *)
(* runs; the program then writes the variable itself, without a lock, and  *)
(* the server reads it, without a lock, when a page is asked for.          *)
(*                                                                         *)
(* VARZ_x++ is a read and a write, so threads that share a counter lose    *)
(* counts: actual[n] is how often n was counted, values[n] what it shows.  *)
(***************************************************************************)
EXTENDS Naturals, FiniteSets

CONSTANTS Counters, \* names of the counters
          Threads,  \* threads that count
          MaxPages, \* bound: pages asked for
          None

ASSUME VarzAssumption ==
  /\ IsFiniteSet(Threads)
  /\ MaxPages \in Nat
  /\ None \notin [name : Counters, value : Nat] \* the value of a held[t]

VARIABLES
  varzs,    \* varzs_: what is registered, [name, type, file]
  values,   \* values[n]: the variable
  actual,   \* actual[n]: how often it was counted
  writers,  \* writers[n]: the threads that have counted n
  held,     \* held[t]: the counter t is counting and the value it read, or None
  server,   \* "new", "running" or "stopped"
  page,     \* the page being made: names still to read, values, actual at the request
  pages     \* how many pages were asked for

varzVars == <<varzs, values, actual, writers, held, server, page, pages>>

Types == {"bool", "int32", "int64", "uint64", "double", "string"}

NoPage == [rest |-> {}, shown |-> << >>, since |-> << >>]

VarzTypeOK ==
  /\ \A v \in varzs : v.type \in Types
  /\ values \in [Counters -> Nat] /\ actual \in [Counters -> Nat]
  /\ writers \in [Counters -> SUBSET Threads]
  /\ \A t \in Threads : held[t] = None \/ (held[t].name \in Counters /\ held[t].value \in Nat)
  /\ server \in {"new", "running", "stopped"}
  /\ page.rest \subseteq Counters
  /\ pages \in 0..MaxPages

VarzInit ==
  /\ varzs = {}
  /\ values = [n \in Counters |-> 0] /\ actual = [n \in Counters |-> 0]
  /\ writers = [n \in Counters |-> {}]
  /\ held = [t \in Threads |-> None]
  /\ server = "new" /\ page = NoPage /\ pages = 0

----------------------------------------------------------------------------

\* A name that is taken: the program dies, before main.
Taken(v) == \E w \in varzs : w.name = v.name

\* VarzRegisterer, from DEFINE_VARZ: the registry keeps where the variable is.
RegisterVarz(v) ==
  /\ varzs' = varzs \cup {v}
  /\ UNCHANGED <<values, actual, writers, held, server, page, pages>>

\* VARZ_x++ : the read,
BeginCount(t, n) ==
  /\ held[t] = None
  /\ held' = [held EXCEPT ![t] = [name |-> n, value |-> values[n]]]
  /\ actual' = [actual EXCEPT ![n] = @ + 1]
  /\ writers' = [writers EXCEPT ![n] = @ \cup {t}]
  /\ UNCHANGED <<varzs, values, server, page, pages>>

\* and the write.
EndCount(t) ==
  /\ held[t] # None
  /\ values' = [values EXCEPT ![held[t].name] = held[t].value + 1]
  /\ held' = [held EXCEPT ![t] = None]
  /\ UNCHANGED <<varzs, actual, writers, server, page, pages>>

----------------------------------------------------------------------------
(* VarzServer *)

\* VarzServer::start: serverContext_ is set once and never again.
StartServer == server' = IF server = "new" THEN "running" ELSE server

\* mg_stop waits for the page that is being made.
StopServer ==
  /\ server = "running" => page = NoPage
  /\ server' = IF server = "running" THEN "stopped" ELSE server

\* A request for /varz.
Request ==
  /\ server = "running" /\ pages < MaxPages /\ page = NoPage
  /\ pages' = pages + 1
  /\ page' = [rest |-> {v.name : v \in varzs} \cap Counters, shown |-> << >>, since |-> actual]
  /\ UNCHANGED <<varzs, values, actual, writers, held, server>>

\* Mutant: the page shows the value before the program ran.
FillWithInitialValue(n) ==
  [m \in DOMAIN page.shown \cup {n} |-> IF m = n THEN 0 ELSE page.shown[m]]

\* FillVarzInfo: the current value, as a string.
FillVarzInfo(n) ==
  [m \in DOMAIN page.shown \cup {n} |-> IF m = n THEN values[n] ELSE page.shown[m]]

\* GetAllVarzs goes through the registry, then sorts by file and name.  The file
\* name is read from a string that was destroyed (CleanFileName), so the order
\* of the page is not defined, and is left out.
GetAllVarzs ==
  \E n \in page.rest :
    /\ page' = [page EXCEPT !.rest = @ \ {n}, !.shown = FillVarzInfo(n)]
    /\ UNCHANGED <<varzs, values, actual, writers, held, server, pages>>

\* The page is sent; event_handler is done.
SendPage ==
  /\ page # NoPage /\ page.rest = {}
  /\ page' = NoPage
  /\ UNCHANGED <<varzs, values, actual, writers, held, server, pages>>

\* A page that was asked for is made and sent.
MakePage == GetAllVarzs \/ SendPage

----------------------------------------------------------------------------

Alone(n) == Cardinality(writers[n]) <= 1

\* A counter that one thread counts shows on the page a number of the time the page
\* was made: no count that was complete when it was asked for is missing, and none is
\* made up.  (VARZ_ variables of the dispatchers, one event thread per session.)
PageIsCurrent ==
  \A n \in DOMAIN page.shown :
    Alone(n) => page.shown[n] + 1 >= page.since[n] /\ page.shown[n] <= actual[n]
=============================================================================
