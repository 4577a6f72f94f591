\* Two Generates on one account.
CONSTANTS
  Calls = {c1, c2}
  Passwords = {p1}
  Profiles = {a}
  CodeIndex = {k1}
  MaxEtags = 1
  MaxBatches = 2
  MaxSessions = 0
  MaxChanges = 2
  NoRow = NoRow
SPECIFICATION Spec
CONSTRAINT FewChanges
INVARIANTS
  AtMostOneActiveBatch
