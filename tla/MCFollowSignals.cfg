CONSTANTS
  Runs = {1, 2}
  OurRuns = {2}
  Requests = {}
  UserInputs = {}
  RequestRun <- NoRequestRuns
  Opaque = {4}
  InitialLogs <- AnyStart
  MaxEvents = 4
  MaxSnapshots = 1
  RunEnds = {"failed"}
  Ends <- Lost
  Consumers = {follow}
  HasSignal = FALSE
  Follower = follow
  Targets = {"turn", "run", "thread"}
  Policies <- Deadlines
  Failures = {"interrupt"}
SPECIFICATION Spec
INVARIANTS ExitIsTrue OwnRunOnly
PROPERTIES ResultStands
CHECK_DEADLOCK FALSE
