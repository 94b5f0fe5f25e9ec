CONSTANTS
  None = None
  Contracts <- MCContracts
  Sessions = {100, 101}
  Listeners = {"mds", "hz", "watcher"}
  Agents = {"mds", "hz"}
  Watchers = {"watcher"}
  AgentId <- MCAgentId
  Topics <- MCTopics
  Scenarios <- MCScenarios
  maxLapse = 1
SPECIFICATION FairSpec
INVARIANTS TypeOK TicksUnderOwnSymbol FailsOnlyByGuessOrRace AgentInStep WatcherFollows ListenerLives
PROPERTY EverythingIsTaken
CHECK_DEADLOCK FALSE
