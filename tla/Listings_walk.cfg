SPECIFICATION WalkSpec
CONSTANTS
  r1 = r1
  r2 = r2
  r3 = r3
  Rows <- MCRows
  Names = {1, 2, 3}
  DefaultSize = 1
  MaxSize = 2
  Cap = 2
  MaxChanges = 3
SYMMETRY Symmetry
INVARIANTS MissedOnlyByShift RepeatedOnlyByShift
CHECK_DEADLOCK FALSE
