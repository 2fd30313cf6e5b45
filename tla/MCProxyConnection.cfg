CONSTANTS
  Sizes = {1}
  Codes = {4001}
  HighWater = 1
  Chunk = 2
  MaxFrames = 3
  MaxReplies = 0
SPECIFICATION FairSpec
INVARIANTS BufferBounded PassedOn NothingLeft
PROPERTIES AllEnds
CHECK_DEADLOCK FALSE
