SPECIFICATION BothSpec
CONSTANTS
  c1 = c1
  s1 = s1
  w1 = w1
  m1 = m1
  m2 = m2
  m3 = m3
  m4 = m4
  e1 = e1
  e2 = e2
  Callbacks = {c1}
  Schedulers = {s1}
  Workers = {w1}
  GraphIds = FALSE
  MaxRefs = 2
  MaxChanges = 1
  MaxRevision = 2
  MaxEvents = 3
  Messages = {m1, m2, m3, m4}
  ThreadOf <- Threaded
  At <- ReceivedAt
  Unread = {m1, m4}
  Syncs = {e1, e2}
  PageSize = 1
  Window = 2
  MaxSaves = 3
SYMMETRY Symmetry
INVARIANTS
  NothingSkipped
  NotificationAccounted
  ActiveIsWatched
  AnswersAreWhole
PROPERTIES
  ProgressStands
CHECK_DEADLOCK FALSE
