SPECIFICATION Spec
CONSTANTS
  r1 = r1
  r2 = r2
  a1 = a1
  a2 = a2
  bad = bad
  fine = fine
  Runs = {r1, r2}
  Accounts = {a1, a2}
  AccountOf <- OwnAccounts
  Workers = {w1, w2}
  Messages = {bad, fine}
  Injected = {bad}
  MaxConcurrent = 1
  MaxUses = 1
  MaxEvents = 2
INVARIANT OutcomeIsOfLastClaim
INVARIANT CompletedIsReviewed
INVARIANT UsesBounded
PROPERTY RunEnds
CHECK_DEADLOCK FALSE
