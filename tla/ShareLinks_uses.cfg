CONSTANTS
  c1 = c1
  c2 = c2
  c3 = c3
  c4 = c4
  l1 = l1
  l2 = l2
  Calls = {c1, c2, c3, c4}
  Links = {l1, l2}
  Limits = {1, 2}
  NoLimit = NoLimit
  Faults = {"failed"}
SYMMETRY Symmetry
SPECIFICATION Spec
INVARIANTS LimitKept UsesCounted
CHECK_DEADLOCK FALSE
