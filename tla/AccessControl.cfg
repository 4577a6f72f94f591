\* One RPC at a time between the statements of others, with deletions of the
\* app and a second seed.
CONSTANTS
  Calls = {c1}
  Users = {u1}
  a1 = a1
  a2 = a2
  r1 = r1
  r2 = r2
  r3 = r3
  Apps = {a1, a2}
  Roles = {r1, r2, r3}
  AppOf <- MCAppOf
  AdminApps = {a1, a2}
  Resources = {"audit"}
  Actions = {"read"}
  RolePermissions <- MCRolePermissions
  AuditRead <- Read
  BulkOpsCap = 2
  NoId = NoId
SPECIFICATION Spec
INVARIANTS
  TypeOK
  AssignmentsBelong
PROPERTIES
  GrantsSawEligibility
  BulkIsAllOrNothing
  AnswersHeldDuringCall
  AuditOpensToAdmins
