CONSTANTS
  Runs = {1, 2}
  Projects = {"p1", "p2"}
  Threads = {"t1", "t2"}
  ProjectOf <- MCProjectOf
  Signatures = {"s1", "s2"}
  Unsendable = {"s2"}
  Editors = {1, 2, 3}
  Patches <- MCPatches
  Drafts <- MCDrafts
  Readers = {r1, r2, r3}
  MaxFrames = 3
  MaxMessages = 1
SPECIFICATION MCSpec
INVARIANTS StopsOwnRun EnvelopeIsTrue LeavesNothing TargetBelongs OneFrame
PROPERTIES StopsAfterSignal MainReturns UpdateIsExact ViewerServes
CHECK_DEADLOCK FALSE
