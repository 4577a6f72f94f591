\* Two RPCs on one row of each kind: stale aggregates, etags, torn reads.
CONSTANTS
  Calls = {c1, c2}
  Names = {n1, n2}
  Taken = {n2}
  Permissions = {p1, p2}
  PermSets = {{p1}, {p2}}
  Unset = Unset
  NoRow = NoRow
  MaxEtags = 3
SPECIFICATION Spec
SYMMETRY Symmetry
INVARIANTS
  TypeOK
  EtagNamesOneVersion
  PermissionsAreWhole
PROPERTIES
  PinnedWritesActOnNamedVersion
  ImplementsVersionedRow
CHECK_DEADLOCK FALSE
