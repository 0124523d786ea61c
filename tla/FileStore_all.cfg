CONSTANTS
  c1 = c1  c2 = c2  c3 = c3
  Calls = {c1, c2, c3}
  alice = alice
  bob = bob
  Users <- TwoUsers
  Quota <- QuotaOfThree
  Sizes = {1, 3}
  Granted <- BobGranted
  Ops = {"upload", "copy", "complete", "delete", "edit", "download", "profile"}
  Faults = {"failed", "unacked"}
  MaxCrashes = 1
  MaxInFlight = 3
SYMMETRY CallSymmetry
SPECIFICATION Spec
INVARIANTS LiveRowHasObject NoOrphanObject AcknowledgedFileIsServed SecondRefundNeedsSave UsedMatchesFiles OvershootBounded
PROPERTIES OnlySaveUndoes ImplementsCatalogue
CHECK_DEADLOCK FALSE
