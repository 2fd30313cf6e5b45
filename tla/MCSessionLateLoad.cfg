CONSTANTS
  Credentials = {c1, c2}
  Bound = {c1}
  None = None
  Unknown = Unknown
  Modes = {"ticket", "bearer-header"}
  Prompt = TRUE
  Writers = {w1, w2}
  MaxWrites = 2
  MaxFaults = 1
SPECIFICATION Spec
INVARIANTS EveryChangeIsAnnounced
CHECK_DEADLOCK FALSE
