CONSTANTS
  Names = {n1, n2}
  Servers = {s1, s2}
  None = None
  MaxCommands = 3
  Calls = {c1, c2}
SPECIFICATION FairSpec
INVARIANTS FilesAgree OneClient
PROPERTIES CallsSettle
CHECK_DEADLOCK FALSE
