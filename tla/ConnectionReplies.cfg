CONSTANTS
  MaxRequests = 2
  MaxPayload = 2
  MaxStream = 2
SPECIFICATION FairSpec
INVARIANTS TerminalEnds TornIsLast
PROPERTIES WorkOnce Answered
CHECK_DEADLOCK FALSE
