CONSTANTS
  r1 = r1  r2 = r2  r3 = r3
  Requests = {r1, r2, r3}
  Retries = 2
  Max = 2
  Expiry = 2
  MaxErrors = 2
  MaxTime = 3
SYMMETRY RequestSymmetry
SPECIFICATION Spec
INVARIANTS WindowBound QuietClientIsAdmitted
CHECK_DEADLOCK FALSE
