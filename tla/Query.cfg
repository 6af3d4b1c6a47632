CONSTANTS
  Width = 4
  MaxDepth = 3
  MaxProbes = 16
  CandidateFloor = 2
  BreakEvenOneIn = 200
  ColumnNames = 100
  RangeKinds = {"int", "float", "string", "null"}
  Statements <- MCStatements
  Schemas <- MCSchemas
  Genesis <- MCGenesis
  MaxSteps = 3
  Outcome <- MCOutcome

SPECIFICATION MCSpec
CHECK_DEADLOCK FALSE
INVARIANT SavesAreLawful
PROPERTIES  AnswersAreDeclarative LimitsKept
