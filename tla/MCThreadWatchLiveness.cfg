CONSTANTS
  Apis = {"thread", "shell"}
  Runs = {r1}
  Requests = {q1}
  UserInputs = {q1}
  HasLoader = FALSE
  StartAfter <- OffOrOne
  Opaque = {}
  SlowConsumer = FALSE
  MaxEvents = 2
  MaxOverlap = 1
  MaxQueue = 1
  MaxDrops = 2
SPECIFICATION FairSpec
PROPERTIES WatchGoesOn
CHECK_DEADLOCK FALSE
