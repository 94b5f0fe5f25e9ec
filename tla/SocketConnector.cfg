CONSTANTS
  MaxAttempts = 2
  MaxCalls = 2
  MaxLinks = 2
  MaxRequests = 1
  CloseErrors = TRUE
SPECIFICATION FairSpec
INVARIANTS DriverOutlivesThread RequestsWaitForHandshake
PROPERTIES UpMeansHandshake CallsComplete EventLoopStarts
CHECK_DEADLOCK FALSE
