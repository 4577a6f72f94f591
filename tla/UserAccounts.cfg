\* Two RPCs on one account: any three changes and the one after them, of the
\* row, of its recovery batches and of its sessions.
CONSTANTS
  Calls = {c1, c2}
  Passwords = {p1, p2}
  Profiles = {a, b}
  CodeIndex = {k1}
  MaxEtags = 3
  MaxBatches = 3
  MaxSessions = 1
  MaxChanges = 3
  NoRow = NoRow
SPECIFICATION Spec
SYMMETRY Symmetry
CONSTRAINT FewChanges
INVARIANTS
  EtagNamesOneVersion
  RecoveryCodeUsedOnce
  OneActiveBatchUnlessRaced
  Inv
PROPERTIES
  PasswordWriteIsCurrent
  ImplementsRowLifecycle
  ImplementsVersionedRow
