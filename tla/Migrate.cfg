CONSTANTS
  M = M
  W = W
  Procs = {M, W}
  RefNames = {"main", "side", "late", "ws", "journal"}
  None = None
  MaxRuns = 2
  MaxOps = 3
  MaxKills = 1
SPECIFICATION FairSpec
INVARIANTS CheckedSwingsHold NeverSilentlyMixed
PROPERTIES WorkKept Recovers
CHECK_DEADLOCK FALSE
