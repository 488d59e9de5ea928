SPECIFICATION Spec
CONSTANTS
  Cells <- ThreeCells
  Golden = TRUE
  MaxCommands = 2
  Period = 3
  None = None
INVARIANTS TypeOK ColdIsCold OwnVerdict
PROPERTY ResultsKept
CHECK_DEADLOCK FALSE
