CONSTANTS
  c1 = c1
  c2 = c2
  f1 = f1
  f2 = f2
  f3 = f3
  Top = Top
  Calls = {c1, c2}
  Folders = {f1, f2, f3}
  Ops = {"move", "breadcrumb", "delete"}
  Faults = {}

SPECIFICATION FairSpec
PROPERTIES BreadcrumbEnds
CHECK_DEADLOCK FALSE
