CONSTANTS
  c1 = c1
  c2 = c2
  c3 = c3
  f1 = f1
  f2 = f2
  f3 = f3
  Top = Top
  Calls = {c1, c2, c3}
  Folders = {f1, f2, f3}
  Ops = {"create", "update", "delete", "move"}
  Faults = {"failed"}
SYMMETRY Symmetry
CONSTRAINT Workload
SPECIFICATION Spec
INVARIANTS CountsMatch MoveHolds CycleNeedsBadMove
CHECK_DEADLOCK FALSE
