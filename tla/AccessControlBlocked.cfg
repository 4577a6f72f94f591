\* A blocked user is still allowed what an earlier grant gave.
CONSTANTS
  Calls = {c1}
  Users = {u1}
  a1 = a1
  a2 = a2
  r1 = r1
  r2 = r2
  r3 = r3
  Apps = {a1, a2}
  Roles = {r1, r2, r3}
  AppOf <- MCAppOf
  AdminApps = {a1, a2}
  Resources = {"audit"}
  Actions = {"read"}
  RolePermissions <- MCRolePermissions
  AuditRead <- Read
  BulkOpsCap = 2
  NoId = NoId
SPECIFICATION Spec
PROPERTY OnlyActiveUsersAreAllowed
