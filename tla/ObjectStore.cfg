CONSTANTS
  b = b
  c = c
  f = f
  main = main
  code = code
  None = None
  Objects <- MCObjects
  Kids <- MCKids
  GraphRefs = {main}
  CodeRefs = {code}
  Targets <- MCTargets
  MaxRuns = 2
  MaxHints = 1
  MaxFaults = 1
  Probed = {b}
SPECIFICATION Spec
INVARIANTS IndexHasPack RefsConnected
PROPERTIES KeepsPromise CodeObjectsUntouched
CHECK_DEADLOCK FALSE
