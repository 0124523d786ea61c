CONSTANTS
  c1 = c1
  c2 = c2
  c3 = c3
  p1 = p1
  p2 = p2
  p3 = p3
  u1 = u1
  u2 = u2
  u3 = u3
  Calls = {c1, c2, c3}
  Ids = {p1, p2, p3}
  Users = {u1, u2, u3}
  Owner = u1
  Actions = {"manage_permissions", "share"}
  Manage = "manage_permissions"
  Share = "share"
  MaxBulk = 2
SYMMETRY Symmetry
SPECIFICATION Spec
INVARIANTS GrantsDescend RevokedOnce
PROPERTIES SealedForever
CHECK_DEADLOCK FALSE
