SPECIFICATION Spec
CONSTANTS
  Cells <- ThreeCells
  Golden = TRUE
  MaxCommands = 2
  Period = 1
  None = None
INVARIANT ColdIsCold
CHECK_DEADLOCK FALSE
