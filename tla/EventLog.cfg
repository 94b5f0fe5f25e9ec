CONSTANTS
  Ids = {2048, 4096}
  Contracts <- SomeContracts
  Times = {239, 572, 640}
  Called = {"reqMktData", "reqMktDepth", "placeOrder"}
  Received = {"tickPrice", "tickString", "tickGeneric", "updateMktDepth", "error"}
  TickFields <- SomeFields
  MaxLines = 5
  None = None
  Rth = TRUE
  Start = 570
  Duration = 5
  RthOnly = FALSE
  GapInMinutes = 3
  MaxFiles = 2
SPECIFICATION BothSpec
INVARIANTS ScanIsRight StoreIsRight
PROPERTIES EveryScanEnds NeverReplaced
CHECK_DEADLOCK FALSE
