----------------------------- MODULE MCEventLog ------------------------------
(* Both readers over the same logs: LogReader reads one file, or the loader   *)
(* reads several; neither writes to the log.                                  *)
EXTENDS LogReader, HistorianLoader

BothInit == Init /\ LoaderInit

BothNext ==
  \/ Next /\ loading = "closed" /\ UNCHANGED loaderVars
  \/ LoaderNext /\ mode = "closed" /\ UNCHANGED readerVars
  \/ LogNext /\ loading = "reading" /\ UNCHANGED <<readerVars, loaderVars>>

allVars  == <<vars, loaderVars>>
BothSpec == BothInit /\ [][BothNext]_allVars /\ Fairness

\* A stock and an index named A; 2048 is the id that the
\* loader guesses the stock A from.
SomeContracts ==
  {[symbol |-> <<1>>, secType |-> "STK", expiry |-> 0],
   [symbol |-> <<1>>, secType |-> "IND", expiry |-> 0]}

\* Ticks that both readers, one of them, and neither take.
SomeFields ==
  [tickPrice |-> {"BID", "HIGH"}, tickSize |-> {"BID_SIZE"}, tickGeneric |-> {"HALTED"},
   tickString |-> {"LAST_TIMESTAMP"}, tickEFP |-> {}, tickOptionComputation |-> {}]
=============================================================================
