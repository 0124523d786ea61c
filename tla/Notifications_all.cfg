CONSTANTS
  c1 = c1
  c2 = c2
  c3 = c3
  alice = alice
  bob = bob
  n1 = n1
  n2 = n2
  Users = {alice, bob}
  Notes = {n1, n2}
  Owner <- Inboxes
  Calls = {c1, c2, c3}
  NoCall = NoCall
  Capacity = 1
  Retries = 1
  Faults = {"failed"}
SPECIFICATION FairSpec
INVARIANTS OwnEventsInOrder TakenIsWritten OneWinner
PROPERTIES StreamEnds ImplementsFeed
CONSTRAINT Workload
CHECK_DEADLOCK FALSE
