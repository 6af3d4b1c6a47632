CONSTANTS
  Process <- MCSmallProcess
  Daemon <- MCDaemon
  Writer <- MCSmallWriter
  Of <- MCSmallOf
  Pid = {1, 2}
  None = None
  StartTimes = TRUE
  Windows = {"judge"}
SPECIFICATION FairSpec
PROPERTIES StaleLockBroken
CHECK_DEADLOCK FALSE
