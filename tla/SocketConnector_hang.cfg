CONSTANTS
  MaxAttempts = 3
  MaxCalls = 1
  MaxLinks = 3
  MaxRequests = 0
  CloseErrors = FALSE
SPECIFICATION FairSpec
PROPERTIES EveryConnectCompletes
CHECK_DEADLOCK FALSE
