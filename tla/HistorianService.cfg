CONSTANTS
  Clients = {"hzc", "api", "hdb", "raptor"}
  Unreachable = {"hzc"}
  ResponseIds = {0, 1}
  Stamps = {1, 2}
  Overwrite = TRUE
  MaxWrites = 2
  MaxQueries = 2
  MaxStarts = 1
  Nil = Nil
SPECIFICATION FairSpec
INVARIANTS CompleteMeansAll QueriesDoNotMix
PROPERTIES QueryReturns
CHECK_DEADLOCK FALSE
