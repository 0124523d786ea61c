CONSTANTS
  c1 = c1
  f1 = f1
  f2 = f2
  f3 = f3
  Top = Top
  Calls = {c1}
  Folders = {f1, f2, f3}
  Ops = {"move"}
  Faults = {}

SPECIFICATION Spec
INVARIANTS PathsMatch
CHECK_DEADLOCK FALSE
