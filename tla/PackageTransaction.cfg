CONSTANTS
  MaxCommands = 2
SPECIFICATION Spec
CHECK_DEADLOCK FALSE
INVARIANTS WholeOrRecoverable ReportsAreTrue
