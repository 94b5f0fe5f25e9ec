CONSTANTS
  Supported <- SupportedKeys
  Mapped <- OrderKeys
  Shapes <- AllShapes
  MaxRequests = 3
  BlockingModes = {TRUE, FALSE}
SPECIFICATION FairSpec
INVARIANTS EachAnsweredOnce CallsAreWhole OrderSurvives
PROPERTIES EveryRequestAnswered
CHECK_DEADLOCK FALSE
