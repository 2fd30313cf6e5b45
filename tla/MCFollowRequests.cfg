CONSTANTS
  Runs = {2}
  OurRuns = {2}
  Requests = {1, 2}
  UserInputs = {2}
  RequestRun <- OursAsks
  Opaque = {}
  InitialLogs <- AskedStart
  MaxEvents = 3
  MaxSnapshots = 1
  RunEnds = {"completed"}
  Ends <- NoEnds
  Consumers = {follow}
  HasSignal = FALSE
  Follower = follow
  Targets = {"turn", "thread"}
  Policies <- AskPolicies
  Failures = {"client", "respond", "read"}
SPECIFICATION FairSpec
PROPERTIES RequestsHandled CommandEnds
CHECK_DEADLOCK FALSE
