CONSTANTS
  None = None
  Clients = {"ds1", "ds2"}
  Known <- MCKnown
  Dates = {"20121216"}
  Scenarios <- MCScenarios
SPECIFICATION FairSpec
INVARIANTS TypeOK SubscribesOwnContract UnknownOnlyByCrossTalk WaitsInVainOnlyIfMissed
PROPERTY ListEnds
CHECK_DEADLOCK FALSE
