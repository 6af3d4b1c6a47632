SPECIFICATION FsckSpec
INVARIANT NothingMissed
CHECK_DEADLOCK FALSE
