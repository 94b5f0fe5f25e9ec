CONSTANTS
  Programs <- MCPrograms
  InUse = {"tcp:80"}
  Signals = {"SIGINT", "SIGTERM"}
  Counters = {"publish_count"}
  Threads = {"100", "101"}
  MaxPages = 1
  None = None
SPECIFICATION FairSpec
INVARIANTS TypeOK PageIsCurrent ChannelZeroSuffices ShutdownIsClean
 
CHECK_DEADLOCK FALSE
