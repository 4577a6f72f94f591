\* A lifecycle write of a stale row restores the secret rotated out.
CONSTANTS
  Calls = {c1, c2}
  Names = {n1}
  Taken = {}
  Permissions = {p1, p2}
  PermSets = {{p1}, {p2}}
  Unset = Unset
  NoRow = NoRow
  MaxEtags = 4
SPECIFICATION Spec
INVARIANT RotationInvalidates
