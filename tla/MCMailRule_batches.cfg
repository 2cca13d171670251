SPECIFICATION Spec
CONSTANTS
  Callers = {c1, c2}
  Messages = {m1, m2}
  MaxVersion = 2
  MaxPerWindow = 1
  MaxEvents = 3
SYMMETRY Symmetry
INVARIANT ActsOnce
INVARIANT ClosedSwitchStops
INVARIANT LimitHolds
CHECK_DEADLOCK FALSE
