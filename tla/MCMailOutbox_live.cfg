SPECIFICATION LiveSpec
CONSTANTS
  w1 = w1
  w2 = w2
  c1 = c1
  Drafts = {"d1"}
  Contents = {"risky"}
  DigestOf <- OwnDigest
  RiskyContents = {"risky"}
  Callers = {c1}
  Workers = {w1, w2}
  WorkerId <- OneName
  NoOne = NoOne
  AtomicSaves = FALSE
  TimelyWorkers = FALSE
  GarbledReceipts = TRUE
  RetryLimit = 1
  MaxRevision = 2
  MaxFence = 2
  MaxAuthRevision = 2
  Ends = {"approval", "policy", "grant", "connection"}
INVARIANTS
  CallsAreAuthorized
PROPERTIES
  FinalOutcomeIsFinal
  
