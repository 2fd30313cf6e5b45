CONSTANTS
  Callers = {c1, c2}
  MissedPongLimit = 2
  HasOpenTimeout = TRUE
  MaxFaults = 2
  MaxCredential = 2
SPECIFICATION FairSpec
INVARIANTS OneSocket WaitersTracked CredentialIsCurrent
PROPERTIES RetriesWait LogicalSpec LinkServes
CHECK_DEADLOCK FALSE
