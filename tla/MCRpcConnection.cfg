CONSTANTS
  Calls = {c1}
  Streams = {s1}
  HighWaterMark = 1
  MaxChunk = 2
  MaxValues = 3
  MaxDrops = 1
  MaxDefects = 1
SPECIFICATION FairSpec
INVARIANTS SettledIsClean StreamCorrect
PROPERTIES SettlesOnce
CHECK_DEADLOCK FALSE
