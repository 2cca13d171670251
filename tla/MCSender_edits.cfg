SPECIFICATION SenderSpec
CONSTANTS
  Drafts = {"d1"}
  Contents = {"plain", "retitled", "edited"}
  DigestOf <- Digested
  RiskyContents = {}
  w1 = w1
  c1 = c1
  c2 = c2
  b1 = b1
  b2 = b2
  b3 = b3
  o1 = o1
  o2 = o2
  Batches = {b1, b2, b3}
  OwnerOf <- OwnerOfBatch
  Calls = {c1, c2}
  NoOwner = NoOwner
  MaxLeases = 2
  Callers = {c1, c2}
  Workers = {w1}
  WorkerId <- OneName
  NoOne = NoOne
  AtomicSaves = FALSE
  TimelyWorkers = TRUE
  GarbledReceipts = FALSE
  RetryLimit = 0
  MaxRevision = 3
  MaxFence = 1
  MaxAuthRevision = 1
  Ends = {}
SYMMETRY Symmetry
INVARIANTS
  CallsAreAuthorized
  AuthorityIsExclusive
CHECK_DEADLOCK FALSE
