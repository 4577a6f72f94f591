\* Three RPCs race on one session of one user.
CONSTANTS
  Users = {u1}
  Calls = {c1, c2, c3}
  NoRow = NoRow
  MaxSessions = 1
  MaxTokens = 3
  MaxTime = 1
  RefreshTTL = 4
  RotationTTL = 3
  AccessTTL = 2
SPECIFICATION Spec
SYMMETRY CallSymmetry
INVARIANTS
  TokenAcceptedOnce
  NewestTokenIsCurrent
PROPERTIES
  ImplementsSessionRegistry
CHECK_DEADLOCK FALSE
