CONSTANTS
  Node <- MCOneNode
  Edge <- MCNoEdge
  Ends <- MCNoEnds
  Val = {"v1", "v2"}
  Branch <- MCBranch
  Main = "main"
  Batch <- MCTwoBatch
  ForeignBatch <- MCForeignBatch
  MaxCommits = 3
  AllowEmpty = {FALSE}
  Windows = {"resolve", "delete", "remark", "foreign"}
SPECIFICATION FairSpec
PROPERTIES BranchesMoveForward AbortFinishes
