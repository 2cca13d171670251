SPECIFICATION Spec
CONSTANTS
  c1 = c1
  c2 = c2
  k1 = k1
  k2 = k2
  m1 = m1
  r1 = r1
  r2 = r2
  Calls = {c1, c2}
  Credentials = {k1, k2}
  Tombstone = Tombstone
  Messages = {m1}
  Watches = {r1}
  NoWatch = NoWatch
  AtomicSaves = TRUE
  Overlapping = FALSE
  Reactivates = FALSE
  MaxRevision = 4
SYMMETRY Symmetry
INVARIANTS
  RevokedIsSilent
PROPERTIES
  NotReopened
  PurgeIsLast
CHECK_DEADLOCK FALSE
