CONSTANTS
  Capacity = 3
  Interval = 2
  InitValue = 0
  Op <- Change
  SampleOp <- Oldest
  Values = {1, 4}
  MaxTime = 9
  MaxEvents = 4
SPECIFICATION Spec
INVARIANTS HistoryMatchesEvents DerivedFollows BarsBracket
PROPERTIES ClosedSlotsStable
CHECK_DEADLOCK FALSE
