SPECIFICATION FairSpec
CONSTANTS
  Callers = {c1, c2}
  None = None
  Bodies = {b1}
  Operations = {"Get", "Prefetch"}
  MayDamage = TRUE
  MayRestart = TRUE
INVARIANTS OneWriter WaitersExact RootUnusedWhenClosed DiskTruthful
PROPERTIES ReturnsTruthful EverybodyReturns
