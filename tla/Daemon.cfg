CONSTANTS
  Proc = {d1, d2}
  Worktree = {w1}
  Conn = {c1, c2, c3}
  Nobody = Nobody
  MaxConnections = 2
  MaxConcurrent = 1
SPECIFICATION FairSpec
INVARIANTS NoLostWakeup DrainWaits
PROPERTIES PermitsArePools LiveSocketKept DrainFinishes
CHECK_DEADLOCK FALSE
