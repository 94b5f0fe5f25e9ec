CONSTANTS
  Ids = {2048, 4096}
  Contracts <- SomeContracts
  Times = {572, 575, 635}
  Called = {"reqMktData", "reqMktDepth", "placeOrder"}
  Received = {"tickPrice", "tickString", "tickGeneric", "updateMktDepth", "error"}
  TickFields <- SomeFields
  MaxLines = 4
  None = None
  Rth = TRUE
  Start = 570
  Duration = 5
  RthOnly = FALSE
  GapInMinutes = 3
  MaxFiles = 2
SPECIFICATION BothSpec
INVARIANTS NoGapInsideSession
CHECK_DEADLOCK FALSE
