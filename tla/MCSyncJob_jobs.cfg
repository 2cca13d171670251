SPECIFICATION JobsSpec
CONSTANTS
  w1 = w1
  w2 = w2
  j1 = j1
  m1 = m1
  Jobs = {j1}
  Backfills = {j1}
  Workers = {w1, w2}
  WorkerId <- OneName
  NoOne = NoOne
  NoJob = NoJob
  Messages = {m1}
  RollsBack = FALSE
  TimelyWorkers = FALSE
  MaxAttempts = 2
  PageLimit = 2
  MaxFence = 2
INVARIANTS
  NothingSkipped
  DeletionsStand
PROPERTIES
  OutcomeStands
  CancelIsAnsweredWhenSteady
