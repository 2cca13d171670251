SPECIFICATION Spec
CONSTANTS
  Candidates = {t1, k}
  Knowledge = {k}
  Callers = {c1, c2}
  MaxEvents = 5
SYMMETRY Symmetry
INVARIANT AppliedIsReal
INVARIANT AppliedOnce
INVARIANT ConfirmedOnly
PROPERTY DecisionsStand
CHECK_DEADLOCK FALSE
