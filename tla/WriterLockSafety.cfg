CONSTANTS
  Process <- MCProcess
  Daemon <- MCDaemon
  Writer <- MCWriter
  Of <- MCOf
  Pid = {1, 2, 3}
  None = None
  StartTimes = TRUE
  Windows = {"empty"}
SPECIFICATION Spec
INVARIANTS SingleWriter
PROPERTIES LiveLockKept
CHECK_DEADLOCK FALSE
