CONSTANTS
  r1 = r1
  r2 = r2
  o1 = o1
  Requests = {r1, r2}
  Orders = {o1, o2}
  OrderOf <- CancelKeys
  NoRequest = NoRequest
  MaxStatus = 2
  Noise = {"garbage", "unknown"}
  MaxNoise = 1
  Lossy = TRUE
SPECIFICATION FairSpec
INVARIANTS AnswerIsGenuine
PROPERTIES ImplementsBoard QueuedStatusEndsGet
CHECK_DEADLOCK FALSE
