CONSTANTS
  Apis = {"thread", "shell"}
  Runs = {r1}
  Requests = {q1}
  UserInputs = {q1}
  HasLoader = TRUE
  StartAfter <- OffOrOne
  Opaque = {2}
  SlowConsumer = TRUE
  MaxEvents = 3
  MaxOverlap = 1
  MaxQueue = 1
  MaxDrops = 1
SPECIFICATION Spec
INVARIANTS EachEventOnce TrackerCorrect OversizedTriedOnce
CHECK_DEADLOCK FALSE
