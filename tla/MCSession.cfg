CONSTANTS
  Credentials = {c1, c2}
  Bound = {c1}
  None = None
  Unknown = Unknown
  Modes = {"ticket", "bearer-header"}
  Prompt = FALSE
  Writers = {w1, w2}
  MaxWrites = 2
  MaxFaults = 1
SPECIFICATION FairSpec
INVARIANTS ChangesAreAnnounced OpenLinkIsCurrent
PROPERTIES SettlesForCause
CHECK_DEADLOCK FALSE
