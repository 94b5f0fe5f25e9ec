CONSTANTS
  r1 = r1
  r2 = r2
  o1 = o1
  Requests = {r1}
  Orders = {o1}
  OrderOf <- OneKey
  NoRequest = NoRequest
  MaxStatus = 1
  Noise = {}
  MaxNoise = 0
  Lossy = FALSE
SPECIFICATION AnsweringSpec
PROPERTIES AnsweredRequestIsReady
CHECK_DEADLOCK FALSE
