CONSTANTS
  c1 = c1  c2 = c2  c3 = c3  c4 = c4  
  Calls = {c1, c2, c3, c4}
  Ops = {"register", "login", "refresh", "logout", "logoutall",
         "password", "profile", "createuser", "admin", "deleteuser"}
  Faults = {"failed", "unacked"}
  AccessTTL = 2
  RefreshTTL = 2
  RowTTL = 3
  MaxTime = 3
SYMMETRY CallSymmetry
CONSTRAINT Workload
SPECIFICATION Spec
INVARIANTS SessionBounded DemotionHolds RotatedTokenIsDead RevokeAllClosesSessions BanHolds
PROPERTIES RevocationIsFinal ImplementsLedger
CHECK_DEADLOCK FALSE
