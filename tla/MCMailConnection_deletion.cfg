SPECIFICATION FairSpec
CONSTANTS
  c1 = c1
  c2 = c2
  k1 = k1
  k2 = k2
  m1 = m1
  r1 = r1
  r2 = r2
  Calls = {c1, c2}
  Credentials = {k1}
  Tombstone = Tombstone
  Messages = {m1}
  Watches = {r1}
  NoWatch = NoWatch
  AtomicSaves = FALSE
  Overlapping = TRUE
  Reactivates = FALSE
  MaxRevision = 2
PROPERTIES
  DeletionEnds
CHECK_DEADLOCK FALSE
