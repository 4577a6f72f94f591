\* Two users with a session each; with fairness and without symmetry.
CONSTANTS
  Users = {u1, u2}
  Calls = {c1, c2}
  NoRow = NoRow
  MaxSessions = 2
  MaxTokens = 2
  MaxTime = 1
  RefreshTTL = 2
  RotationTTL = 1
  AccessTTL = 1
SPECIFICATION FairSpec
INVARIANTS
  Inv
  AckedRevocationHolds
PROPERTIES
  OnlyOwnerRevokes
  EveryCallReturns
CHECK_DEADLOCK FALSE
