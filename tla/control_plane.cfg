CONSTANTS
  b1 = b1
  poll = poll
  Brokers <- OneBroker
  Commands <- AllCommands
  OlderDisabled = {b1}
  InBounds <- Admitted
  MaxRequests = 2
  MaxFailures = 2
  Limit = 2
  Consumers <- OnePoller
  Faults = {"db", "refresh", "persist", "execution", "down"}
SPECIFICATION FairSpec
INVARIANTS TypeOK ExcludedIsBlocked CommandsInOrder ParameterDurable ToggleAgrees
PROPERTIES LatchSpec CommandsSettle CoverageReleases
