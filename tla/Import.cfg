SPECIFICATION Spec
CONSTANTS
  Labels <- MCLabels
  NodePuts <- MCNodePuts
  EdgePuts <- MCEdgePuts
  OtherPut <- MCOtherPut
  MaxSource = 3
  BatchSizes = {1, 2}
  MaxImports = 1
  MaxOps = 2
INVARIANTS ImportIsFaithful CleanReturn
 
CHECK_DEADLOCK FALSE
