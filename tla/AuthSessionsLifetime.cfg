\* Two RPCs on one session while the clock runs past both deadlines: a second
\* rotation for the hard cap to bite, and rotations after the user was blocked.
CONSTANTS
  Users = {u1}
  Calls = {c1, c2}
  NoRow = NoRow
  MaxSessions = 1
  MaxTokens = 3
  MaxTime = 4
  RefreshTTL = 3
  RotationTTL = 2
  AccessTTL = 1
SPECIFICATION Spec
SYMMETRY CallSymmetry
INVARIANT SessionsRunOut
CHECK_DEADLOCK FALSE
