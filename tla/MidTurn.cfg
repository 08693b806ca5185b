SPECIFICATION Spec
CONSTANTS
  MAX_MID_TURN_BOUNDARIES = 8
  MaxBoundaries = 2
  MaxTasks = 2
  MaxTurns = 3
  AutoCompaction = FALSE
PROPERTY NoFalseFailure
CHECK_DEADLOCK FALSE
