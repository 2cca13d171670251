SPECIFICATION Spec
CONSTANTS
  Calls = {c1, c2}
  NoCall = NoCall
  Flows = {f1, f2}
  Credentials = {k1, k2}
  NoCredential = NoCredential
  MaxTokens = 2
  MaxRevision = 3
SYMMETRY Symmetry
INVARIANT CodeRedeemedOnce
INVARIANT NewestTokenKept
INVARIANT RowFollowsHost
PROPERTY NewerRotationStands
PROPERTY ImplementsHost
