CONSTANTS
  Runs = {1, 2}
  OurRuns = {2}
  Requests = {}
  UserInputs = {}
  RequestRun <- NoRequestRuns
  Opaque = {}
  InitialLogs <- AnyStart
  MaxEvents = 3
  MaxSnapshots = 1
  RunEnds = {"completed", "failed"}
  Ends <- AllEnds
  Consumers = {c1}
  HasSignal = TRUE
SPECIFICATION TurnFairSpec
INVARIANTS FollowsOurRun ConsumersServed
PROPERTIES SettlesOnce
CHECK_DEADLOCK FALSE
