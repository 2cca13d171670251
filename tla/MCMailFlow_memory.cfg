SPECIFICATION FlowSpec
CONSTANTS
  w1 = w1
  c1 = c1
  c2 = c2
  Drafts = {"d1"}
  Contents = {"plain", "edited"}
  DigestOf <- OwnDigest
  RiskyContents = {}
  Callers = {c1, c2}
  Workers = {w1}
  WorkerId <- OneName
  NoOne = NoOne
  AtomicSaves = TRUE
  TimelyWorkers = TRUE
  GarbledReceipts = FALSE
  RetryLimit = 1
  MaxRevision = 3
  MaxFence = 2
  MaxAuthRevision = 1
  Ends = {"policy", "connection"}
  m1 = m1
  m2 = m2
  m3 = m3
  Messages = {m1, m2, m3}
  Limit = 2
  NoCursor = NoCursor
  MaxChanges = 3
  MaxFaults = 1
INVARIANTS
  NoDuplicateDelivery
  OneMessagePerDraft
  HonestOutcome
  NothingElseDiffers
PROPERTIES
  ImplementsDispatch
  CatchesUp
