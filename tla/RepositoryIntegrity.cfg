CONSTANTS
  Node <- MCNode
  Edge <- MCEdge
  Ends <- MCEnds
  Val = {"v1", "v2"}
  Branch <- MCBranch
  Main = "main"
  Batch <- MCBatch
  ForeignBatch <- MCForeignBatch
  MaxCommits = 4
  AllowEmpty = {FALSE}
  Windows = {}
SPECIFICATION Spec
INVARIANTS CommitsWellFormed  NoSpuriousMerge
PROPERTIES  UncommittedKept
