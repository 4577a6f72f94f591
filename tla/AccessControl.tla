---------------------------- MODULE AccessControl ----------------------------
(***************************************************************************)
(* AccessService: role assignments, permission checks, and the authorizer  *)
(* of the audit log that asks for a permission in the sso-admin app.  The  *)
(* tables of users, apps and roles belong to other services; their writes  *)
(* appear here as atomic actions, with the cascades of the foreign keys.   *)
(* An RPC works off a list of database round trips, each a step; a bulk    *)
(* write is a transaction, one step per statement and one for the COMMIT.  *)
(* Any step may fail, and a write may take effect and lose its reply.      *)
(* Calls are those of one server; what others do to the assignments        *)
(* appears as single statements.  Ids are UUIDs: a deleted row's id is     *)
(* never used again.                                                       *)
(***************************************************************************)
EXTENDS Sequences, FiniteSets, Naturals, GRPCErrors

CONSTANTS
  Users, Roles, Apps, \* ids
  AppOf,              \* the app a role belongs to
  AdminApps,          \* ids the app with the slug sso-admin may get
  Resources, Actions, \* the two halves of a permission
  RolePermissions,    \* the permissions of a role
  AuditRead,          \* the permission the audit log asks for
  BulkOpsCap,         \* most roles or permissions in one request
  Calls,              \* slots for RPCs in flight
  NoId                \* no id

ASSUME IdsAssumption ==
  /\ AppOf \in [Roles -> Apps]
  /\ AdminApps \subseteq Apps
  /\ NoId \notin Apps \cup Users
ASSUME CapAssumption == BulkOpsCap \in Nat

VARIABLES
  user,     \* users: status, "unborn" or "gone"
  role,     \* roles: status, "unborn" or "gone"
  app,      \* apps: "unborn", "live" or "gone"
  assigned, \* the table role_assignments
  appID,    \* the authorizer's cached id of the sso-admin app
  call,     \* the RPCs in flight
  reply,    \* the answer of the last step
  seen      \* history: what held at some moment of a call

tables == <<user, role, app, assigned>>
vars   == <<user, role, app, assigned, appID, call, reply, seen>>

UserStatus == {"ACTIVE", "BLOCKED", "DELETED"}
Exists(row) == row \notin {"unborn", "gone"}

RoleAssignment == [user : Users, role : Roles, app : Apps]

Permission == [resource : Resources, action : Actions \cup {"*"}]

ASSUME AuditReadAssumption == AuditRead \in Permission

Steps == {"userEligible", "userExists", "app", "role", "activeRole", "create",
          "bulkCreate", "get", "has", "delete", "bulkDelete", "permissions",
          "resolve", "list", "hydrate"}

(* plan: the round trips ahead.  todo: the roles left of the current one.   *)
(* pending: those whose row the open transaction has inserted or deleted.   *)
CallState == [plan  : UNION {[1 .. n -> Steps] : n \in 0 .. 4},
              user  : Users \cup {NoId}, app : Apps \cup {NoId},
              roles : SUBSET Roles, todo : SUBSET Roles,
              pending : SUBSET Roles, perms : SUBSET Permission]

Idle == [plan |-> <<>>, user |-> NoId, app |-> NoId,
         roles |-> {}, todo |-> {}, pending |-> {}, perms |-> {}]

NoReply == [code |-> "none", allowed |-> {}, roles |-> {}]

NothingSeen == [held |-> {}, lost |-> {}, active |-> {}]

TypeOK ==
  /\ user \in [Users -> UserStatus \cup {"unborn", "gone"}]
  /\ role \in [Roles -> {"ACTIVE", "DISABLED", "unborn", "gone"}]
  /\ app \in [Apps -> {"unborn", "live", "gone"}]
  /\ assigned \subseteq RoleAssignment
  /\ appID \in AdminApps \cup {NoId}
  /\ call \in [Calls -> CallState]
  /\ reply \in [code : GRPCCodes, allowed : SUBSET Permission,
                roles : SUBSET Roles]
  /\ seen \in [Calls -> [held : SUBSET Roles, lost : SUBSET Roles,
                         active : SUBSET (Users \cup Roles)]]

Init ==
  /\ user = [u \in Users |-> "unborn"]
  /\ role = [r \in Roles |-> "unborn"]
  /\ app = [a \in Apps |-> "unborn"]
  /\ assigned = {}
  /\ appID = NoId
  /\ call = [c \in Calls |-> Idle]
  /\ reply = NoReply
  /\ seen = [c \in Calls |-> NothingSeen]

-----------------------------------------------------------------------------
(* Statements and pure helpers.                                             *)

RolesOf(a) == {r \in Roles : AppOf[r] = a}

HasIn(table, u, r) == \E x \in table : x.user = u /\ x.role = r
Has(u, r) == HasIn(assigned, u, r)

NewRoleAssignment(u, r, a) == [user |-> u, role |-> r, app |-> a]

(* The foreign keys of role_assignments; app_id has none.                   *)
References(x) == Exists(user[x.user]) /\ Exists(role[x.role])

(* CreateRoleAssignment for each of rs, in one transaction: a row that is   *)
(* there already stays as it is.                                            *)
CreateRoleAssignments(u, rs, a) ==
  assigned \cup {NewRoleAssignment(u, r, a) : r \in {q \in rs : ~ Has(u, q)}}

DeleteRoleAssignments(u, rs) ==
  {x \in assigned : ~ (x.user = u /\ x.role \in rs)}

(* Mutant: the status of the role is not in the WHERE clause.               *)
ListAllPermissionsByUserApp(u, a) ==
  UNION {{<<r, p>> : p \in RolePermissions[r]} :
           r \in {x.role : x \in {y \in assigned : y.user = u /\ y.app = a}}}

ListActivePermissionsByUserApp(u, a) ==
  UNION {{<<x.role, p>> : p \in RolePermissions[x.role]} :
           x \in {y \in assigned : /\ y.user = u /\ y.app = a
                                   /\ role[y.role] = "ACTIVE"}}

(* The roles whose permissions satisfy the requested one: the same, or      *)
(* "<resource>:*".                                                          *)
matchPermissions(rows, requested) ==
  {row[1] : row \in {x \in rows :
     \/ x[2] = requested
     \/ x[2].action = "*" /\ x[2].resource = requested.resource}}

(* A requested permission is concrete.                                      *)
validatePermissionRequest(p) == p.action # "*"

Entries(list) == {list[i] : i \in DOMAIN list}

parseCheckInput(perms) ==
  /\ Len(perms) \in 1 .. BulkOpsCap
  /\ \A p \in Entries(perms) : validatePermissionRequest(p)

(* At least one role, at most the cap, none twice.                          *)
parseBulkInput(rids) ==
  /\ Len(rids) \in 1 .. BulkOpsCap
  /\ \A i, j \in DOMAIN rids : rids[i] = rids[j] => i = j

-----------------------------------------------------------------------------
(* Steps of a call.                                                         *)

IsIdle(c) == call[c] = Idle
At(c, step) == ~ IsIdle(c) /\ Head(call[c].plan) = step

(* The next round trip; a step over several roles starts with all of them.  *)
Advance(c) ==
  /\ call' = [call EXCEPT ![c].plan = Tail(@), ![c].todo = call[c].roles,
                          ![c].pending = {}]
  /\ reply' = NoReply

Answer(c, err, allowed, roles) ==
  /\ call' = [call EXCEPT ![c] = Idle]
  /\ reply' = [code |-> MapError(err, AccessErrorMap), allowed |-> allowed,
               roles |-> roles]

Return(c, err) == Answer(c, err, {}, {})

NothingWritten == UNCHANGED <<tables, appID>>

Start(c, plan, u, a, rs, perms) ==
  /\ IsIdle(c) /\ NothingWritten
  /\ call' = [call EXCEPT ![c] =
       [plan |-> plan, user |-> u, app |-> a, roles |-> rs, todo |-> rs,
        pending |-> {}, perms |-> perms]]
  /\ reply' = NoReply

(* A malformed id, an empty or overlong list, no actor.                     *)
Invalid(c) == IsIdle(c) /\ NothingWritten /\ Return(c, "VALIDATION_FAILED")

(* A precondition read in a statement of its own.                           *)
Require(c, step, err) ==
  /\ At(c, step) /\ NothingWritten
  /\ IF err = "OK" THEN Advance(c) ELSE Return(c, err)

requireUserExists(c) ==
  LET u == call[c].user
  IN  Require(c, "userExists", IF Exists(user[u]) THEN "OK" ELSE "USER_NOT_FOUND")

(* Mutant: existence is enough.                                             *)
EligibleIfExists(c) ==
  LET u == call[c].user
  IN  Require(c, "userEligible", IF Exists(user[u]) THEN "OK" ELSE "USER_NOT_FOUND")

requireUserEligible(c) ==
  LET u == call[c].user
  IN  Require(c, "userEligible",
        IF ~ Exists(user[u]) THEN "USER_NOT_FOUND"
        ELSE IF user[u] # "ACTIVE" THEN "USER_NOT_ELIGIBLE" ELSE "OK")

requireAppExists(c) ==
  LET a == call[c].app
  IN  Require(c, "app", IF app[a] = "live" THEN "OK" ELSE "APP_NOT_FOUND")

(* One role of the request after the other.                                 *)
RequireRoles(c, step, Err(_)) ==
  /\ At(c, step) /\ NothingWritten
  /\ \E r \in call[c].todo :
       IF Err(r) # "OK" THEN Return(c, Err(r))
       ELSE IF call[c].todo = {r} THEN Advance(c)
       ELSE /\ call' = [call EXCEPT ![c].todo = @ \ {r}]
            /\ reply' = NoReply

loadAnyRole(c) ==
  LET Err(r) == IF ~ Exists(role[r]) THEN "ROLE_NOT_FOUND"
                ELSE IF call[c].app \notin {NoId, AppOf[r]} THEN "ROLE_NOT_IN_APP"
                ELSE "OK"
  IN  RequireRoles(c, "role", Err)

(* Mutant: the app of the role is not compared.                             *)
loadActiveRole(c) ==
  LET Err(r) == IF ~ Exists(role[r]) THEN "ROLE_NOT_FOUND"
                ELSE IF role[r] # "ACTIVE" THEN "ROLE_DISABLED" ELSE "OK"
  IN  RequireRoles(c, "activeRole", Err)

loadActiveRoleInApp(c) ==
  LET Err(r) == IF ~ Exists(role[r]) THEN "ROLE_NOT_FOUND"
                ELSE IF role[r] # "ACTIVE" THEN "ROLE_DISABLED"
                ELSE IF call[c].app \notin {NoId, AppOf[r]} THEN "ROLE_NOT_IN_APP"
                ELSE "OK"
  IN  RequireRoles(c, "activeRole", Err)

(* A database round trip fails without effect.                              *)
CallFails(c) == ~ IsIdle(c) /\ NothingWritten /\ Return(c, "INTERNAL")

-----------------------------------------------------------------------------
(* The repository.                                                          *)

TablesButAssigned == UNCHANGED <<user, role, app, appID>>

(* Mutant: the app is taken from the request, which has none.               *)
AssignmentAppRequested(c) == call[c].app

(* The app of a single grant is the one its role was read with.             *)
AssignmentApp(c) ==
  IF call[c].app # NoId THEN call[c].app
  ELSE AppOf[CHOOSE r \in Roles : call[c].roles = {r}]

(* Mutant: INSERT IGNORE turns a broken foreign key into a warning.         *)
ForeignKeyIgnored(c) == NothingWritten /\ Return(c, "OK")

ForeignKeyBroken(c) == NothingWritten /\ Return(c, "INTERNAL")

(* The pairs whose row, or the gap where it would be, an open transaction   *)
(* has locked: REPEATABLE READ holds them to the end.  A lock that two      *)
(* could share is taken as exclusive: one waits for the other.              *)
Locks(c) ==
  IF At(c, "bulkCreate") \/ At(c, "bulkDelete")
  THEN {call[c].user} \X (call[c].roles \ call[c].todo)
  ELSE {}

LockedBy(cs) == UNION {Locks(c) : c \in cs}

(* The pairs whose INSERT keeps its user and role from being deleted.       *)
Referenced == LockedBy({c \in Calls : At(c, "bulkCreate")})

MayLock(c, r) == <<call[c].user, r>> \notin LockedBy(Calls \ {c})

ForeignKeysHold(c, r) ==
  References(NewRoleAssignment(call[c].user, r, AssignmentApp(c)))

(* The rows of rs are there for everyone; roles of the request that had one *)
(* before are read back afterwards.                                         *)
CommitInserts(c, rs) ==
  /\ TablesButAssigned
  /\ assigned' = CreateRoleAssignments(call[c].user, rs, AssignmentApp(c))
  /\ LET dups == call[c].roles \ rs
     IN  \/ dups = {} /\ Return(c, "OK")
         \/ /\ dups # {}
            /\ call' = [call EXCEPT ![c].plan = <<"get">>, ![c].todo = dups,
                                    ![c].pending = {}]
            /\ reply' = NoReply
         \/ Return(c, "INTERNAL")

(* A single INSERT commits by itself.                                       *)
Create(c) ==
  /\ At(c, "create")
  /\ \E r \in call[c].roles :
       /\ MayLock(c, r)
       /\ IF ForeignKeysHold(c, r)
          THEN CommitInserts(c, {q \in {r} : ~ Has(call[c].user, q)})
          ELSE ForeignKeyBroken(c)

(* r is dealt with in the open transaction, and its row changed.            *)
StatementDone(c, r, changed) ==
  /\ call' = [call EXCEPT ![c].todo = @ \ {r},
                          ![c].pending = IF changed THEN @ \cup {r} ELSE @]
  /\ reply' = NoReply

(* Mutant: the INSERTs run outside the transaction, each by itself.         *)
InsertOutsideTx(c, r) ==
  /\ TablesButAssigned
  /\ assigned' = CreateRoleAssignments(call[c].user, {r}, AssignmentApp(c))
  /\ StatementDone(c, r, ~ Has(call[c].user, r))

InsertInTx(c, r) ==
  /\ NothingWritten
  /\ StatementDone(c, r, ~ Has(call[c].user, r))

(* BulkCreate, the loop in InTx and the COMMIT: a duplicate is passed over, *)
(* a missing user or role breaks a foreign key and rolls everything back.   *)
BulkCreate(c) ==
  /\ At(c, "bulkCreate")
  /\ \/ \E r \in call[c].todo :
          /\ MayLock(c, r)
          /\ IF ForeignKeysHold(c, r) THEN InsertInTx(c, r)
                                      ELSE ForeignKeyBroken(c)
     \/ call[c].todo = {} /\ CommitInserts(c, call[c].pending)

(* Get of a duplicate: a removal in between makes it ErrAssignmentNotFound. *)
Get(c) ==
  LET Err(r) == IF Has(call[c].user, r) THEN "OK" ELSE "ASSIGNMENT_NOT_FOUND"
  IN  /\ At(c, "get") /\ NothingWritten
      /\ \E r \in call[c].todo :
           IF Err(r) # "OK" \/ call[c].todo = {r} THEN Return(c, Err(r))
           ELSE call' = [call EXCEPT ![c].todo = @ \ {r}] /\ reply' = NoReply

(* Delete and BulkDelete: a missing pair is fine.                           *)
CommitDeletes(c, rs) ==
  /\ TablesButAssigned
  /\ assigned' = DeleteRoleAssignments(call[c].user, rs)
  /\ Return(c, "OK") \/ Return(c, "INTERNAL")

Delete(c) ==
  /\ At(c, "delete")
  /\ \A r \in call[c].roles : MayLock(c, r)
  /\ CommitDeletes(c, call[c].roles)

BulkDelete(c) ==
  /\ At(c, "bulkDelete")
  /\ \/ \E r \in call[c].todo :
          /\ MayLock(c, r) /\ NothingWritten
          /\ StatementDone(c, r, Has(call[c].user, r))
     \/ call[c].todo = {} /\ CommitDeletes(c, call[c].pending)

-----------------------------------------------------------------------------
(* The use cases, as the round trips they make.                             *)

GrantRoleToUser(c, u, r) ==
  Start(c, <<"activeRole", "userEligible", "create">>, u, NoId, {r}, {})

BulkGrantRoles(c, u, a, rids) ==
  IF parseBulkInput(rids)
  THEN Start(c, <<"app", "userEligible", "activeRole", "bulkCreate">>,
             u, a, Entries(rids), {})
  ELSE Invalid(c)

RemoveRoleFromUser(c, u, r) ==
  Start(c, <<"userExists", "role", "delete">>, u, NoId, {r}, {})

BulkRemoveRoles(c, u, a, rids) ==
  IF parseBulkInput(rids)
  THEN Start(c, <<"app", "userExists", "role", "bulkDelete">>,
             u, a, Entries(rids), {})
  ELSE Invalid(c)

CheckPermission(c, u, a, p) ==
  IF parseCheckInput(<<p>>)
  THEN Start(c, <<"userExists", "app", "permissions">>, u, a, {}, {p})
  ELSE Invalid(c)

BatchCheckPermission(c, u, a, ps) ==
  IF parseCheckInput(ps)
  THEN Start(c, <<"userExists", "app", "permissions">>, u, a, {}, Entries(ps))
  ELSE Invalid(c)

(* Their last round trip: the permissions of the request that some role     *)
(* matches.                                                                 *)
ListActivePermissions(c) ==
  /\ At(c, "permissions") /\ NothingWritten
  /\ LET s    == call[c]
         rows == ListActivePermissionsByUserApp(s.user, s.app)
         ok   == {p \in s.perms : matchPermissions(rows, p) # {}}
     IN  Answer(c, "OK", ok, UNION {matchPermissions(rows, p) : p \in ok})

HasRoleInApp(c, u, r) ==
  Start(c, <<"userExists", "role", "has">>, u, NoId, {r}, {})

HasAssignment(c) ==
  /\ At(c, "has") /\ NothingWritten
  /\ Answer(c, "OK", {}, {r \in call[c].roles : Has(call[c].user, r)})

(* CanReadAudit: only a user may; a cached id saves the lookup.             *)
CanReadAudit(c, u) ==
  \/ IsIdle(c) /\ NothingWritten /\ Return(c, "OK")
  \/ /\ appID = NoId
     /\ Start(c, <<"resolve", "userExists", "app", "permissions">>,
              u, NoId, {}, {AuditRead})
  \/ /\ appID # NoId
     /\ Start(c, <<"userExists", "app", "permissions">>,
              u, appID, {}, {AuditRead})

(* No such app: not allowed, and not cached.                                *)
resolveAdminAppID(c) ==
  /\ At(c, "resolve") /\ UNCHANGED tables
  /\ LET found == {a \in AdminApps : app[a] = "live"}
     IN  IF found = {} THEN UNCHANGED appID /\ Return(c, "OK")
         ELSE \E a \in found :
                /\ appID' = a
                /\ call' = [call EXCEPT ![c].app = a, ![c].plan = Tail(@)]
                /\ reply' = NoReply

(* ListUserRoles reads the assignments, then each role by itself; a role    *)
(* that cannot be read is left out.                                         *)
ListUserRoles(c, u, a) ==
  Start(c, <<"userExists", "app", "list", "hydrate">>, u, a, {}, {})

ListAssignments(c) ==
  /\ At(c, "list") /\ NothingWritten
  /\ LET s  == call[c]
         rs == {x.role : x \in {y \in assigned : y.user = s.user /\ y.app = s.app}}
     IN  IF rs = {} THEN Return(c, "OK")
         ELSE /\ call' = [call EXCEPT ![c].plan = Tail(@), ![c].todo = rs]
              /\ reply' = NoReply

(* roles collects those loaded so far.                                      *)
HydrateRole(c) ==
  /\ At(c, "hydrate") /\ NothingWritten
  /\ \E r \in call[c].todo, loaded \in {{}} \cup {{q} : q \in call[c].todo} :
       /\ loaded # {} => loaded = {r} /\ Exists(role[r])
       /\ IF call[c].todo = {r} THEN Answer(c, "OK", {}, call[c].roles \cup loaded)
          ELSE /\ call' = [call EXCEPT ![c].todo = @ \ {r},
                                       ![c].roles = @ \cup loaded]
               /\ reply' = NoReply

-----------------------------------------------------------------------------
(* Writes of the other services, and cmd/seed.                              *)

NoCall == UNCHANGED call /\ reply' = NoReply

SetUserStatus(u, status) ==
  /\ Exists(user[u]) /\ NoCall
  /\ user' = [user EXCEPT ![u] = status]
  /\ UNCHANGED <<role, app, assigned, appID>>

SetRoleStatus(r, status) ==
  /\ Exists(role[r]) /\ NoCall
  /\ role' = [role EXCEPT ![r] = status]
  /\ UNCHANGED <<user, app, assigned, appID>>

CreateApp(a) ==
  /\ app[a] = "unborn" /\ NoCall
  /\ a \in AdminApps => \A b \in AdminApps : app[b] # "live"
  /\ app' = [app EXCEPT ![a] = "live"]
  /\ UNCHANGED <<user, role, assigned, appID>>

CreateRole(r) ==
  /\ role[r] = "unborn" /\ app[AppOf[r]] = "live" /\ NoCall
  /\ role' = [role EXCEPT ![r] = "ACTIVE"]
  /\ UNCHANGED <<user, app, assigned, appID>>

CreateUser(u) ==
  /\ user[u] = "unborn" /\ NoCall
  /\ user' = [user EXCEPT ![u] = "ACTIVE"]
  /\ UNCHANGED <<role, app, assigned, appID>>

(* ON DELETE CASCADE: an app's roles, a role's or a user's assignments.  A  *)
(* deletion waits for a transaction that has inserted a row referring here. *)
PermanentlyDeleteUser(u) ==
  /\ user[u] = "DELETED" /\ NoCall
  /\ \A pair \in Referenced : pair[1] # u
  /\ user' = [user EXCEPT ![u] = "gone"]
  /\ assigned' = {x \in assigned : x.user # u}
  /\ UNCHANGED <<role, app, appID>>

DeleteRoles(rs) ==
  /\ role' = [r \in Roles |-> IF r \in rs THEN "gone" ELSE role[r]]
  /\ assigned' = {x \in assigned : x.role \notin rs}

PermanentlyDeleteRole(r) ==
  /\ Exists(role[r]) /\ NoCall
  /\ \A pair \in Referenced : pair[2] # r
  /\ DeleteRoles({r})
  /\ UNCHANGED <<user, app, appID>>

PermanentlyDeleteApp(a) ==
  /\ app[a] = "live" /\ NoCall
  /\ \A pair \in Referenced : pair[2] \notin RolesOf(a)
  /\ app' = [app EXCEPT ![a] = "gone"]
  /\ DeleteRoles(RolesOf(a))
  /\ UNCHANGED <<user, appID>>

(* seed-admin, one transaction: find or create the app, its roles and the   *)
(* administrator, then INSERT IGNORE the assignments.  Its SELECTs take no  *)
(* locks; a row that goes before its INSERTs leaves what this and then that *)
(* deletion leave, and a slug taken in between rolls it back.  A role or    *)
(* user that is gone would be created again under an id not modelled.       *)
SeedApp(a) ==
  IF \E b \in AdminApps : app[b] = "live" THEN app[a] = "live"
                                          ELSE app[a] = "unborn"

Born(table, rows) ==
  [x \in DOMAIN table |->
     IF x \in rows /\ table[x] = "unborn" THEN "ACTIVE" ELSE table[x]]

SeedRoles(a) == Born(role, RolesOf(a))
SeedUser(u)  == Born(user, {u})
SeedAssignments(u, a) == CreateRoleAssignments(u, RolesOf(a), a)

seedAdmin(a, u) ==
  /\ SeedApp(a) /\ NoCall
  /\ user[u] # "gone" /\ \A r \in RolesOf(a) : role[r] # "gone"
  /\ ({u} \X RolesOf(a)) \cap LockedBy(Calls) = {}
  /\ app' = [app EXCEPT ![a] = "live"]
  /\ role' = SeedRoles(a)
  /\ user' = SeedUser(u)
  /\ assigned' = SeedAssignments(u, a)
  /\ UNCHANGED appID

(* Statements of calls on other servers: any pair whose foreign keys hold,  *)
(* since their checks may be as stale as ours.                              *)
AssignElsewhere(u, r) ==
  /\ References(NewRoleAssignment(u, r, AppOf[r])) /\ NoCall
  /\ <<u, r>> \notin LockedBy(Calls)
  /\ assigned' = CreateRoleAssignments(u, {r}, AppOf[r])
  /\ UNCHANGED <<user, role, app, appID>>

RemoveElsewhere(u, r) ==
  /\ <<u, r>> \notin LockedBy(Calls) /\ NoCall
  /\ assigned' = DeleteRoleAssignments(u, {r})
  /\ UNCHANGED <<user, role, app, appID>>

(* The process restarts: calls and the cached id are lost.                  *)
Restart ==
  /\ call' = [c \in Calls |-> Idle]
  /\ reply' = NoReply
  /\ appID' = NoId
  /\ UNCHANGED tables

-----------------------------------------------------------------------------
(* AccessService as its handler dispatches it.                              *)
Lists(S) == UNION {[1 .. n -> S] : n \in 0 .. BulkOpsCap + 1}

AccessService(c) ==
  \E u \in Users :
    \/ \E r \in Roles : \/ GrantRoleToUser(c, u, r)
                        \/ RemoveRoleFromUser(c, u, r)
                        \/ HasRoleInApp(c, u, r)
    \/ \E a \in Apps, rids \in Lists(Roles) : \/ BulkGrantRoles(c, u, a, rids)
                                           \/ BulkRemoveRoles(c, u, a, rids)
    \/ \E a \in Apps, p \in Permission : CheckPermission(c, u, a, p)
    \/ \E a \in Apps, ps \in Lists(Permission) : BatchCheckPermission(c, u, a, ps)
    \/ \E a \in Apps : ListUserRoles(c, u, a)
    \/ CanReadAudit(c, u)

Step(c) ==
  \/ requireUserExists(c) \/ requireUserEligible(c) \/ requireAppExists(c)
  \/ loadAnyRole(c) \/ loadActiveRoleInApp(c)
  \/ Create(c) \/ BulkCreate(c) \/ Get(c) \/ Delete(c) \/ BulkDelete(c)
  \/ ListActivePermissions(c) \/ HasAssignment(c) \/ resolveAdminAppID(c)
  \/ ListAssignments(c) \/ HydrateRole(c)
  \/ CallFails(c)

Elsewhere ==
  \/ \E u \in Users : \/ CreateUser(u) \/ PermanentlyDeleteUser(u)
                      \/ \E status \in UserStatus : SetUserStatus(u, status)
                      \/ \E a \in AdminApps : seedAdmin(a, u)
                      \/ \E r \in Roles : \/ AssignElsewhere(u, r)
                                          \/ RemoveElsewhere(u, r)
  \/ \E r \in Roles : \/ CreateRole(r) \/ PermanentlyDeleteRole(r)
                      \/ \E status \in {"ACTIVE", "DISABLED"} :
                           SetRoleStatus(r, status)
  \/ \E a \in Apps : CreateApp(a) \/ PermanentlyDeleteApp(a)
  \/ Restart

(* What a call could observe of its user and roles right now.               *)
Now(c) ==
  LET s == call[c]
  IN  [held   |-> {r \in s.roles \cup s.todo : Has(s.user, r)},
       lost   |-> {r \in s.roles \cup s.todo : ~ Has(s.user, r)},
       active |-> {u \in Users : u = s.user /\ user[u] = "ACTIVE"}
                    \cup {r \in s.roles : role[r] = "ACTIVE"}]

Remember ==
  seen' = [c \in Calls |->
    IF call'[c] = Idle THEN NothingSeen
    ELSE [held   |-> seen[c].held \cup Now(c)'.held,
          lost   |-> seen[c].lost \cup Now(c)'.lost,
          active |-> seen[c].active \cup Now(c)'.active]]

Next ==
  /\ Elsewhere \/ \E c \in Calls : AccessService(c) \/ Step(c)
  /\ Remember

Spec == Init /\ [][Next]_vars

-----------------------------------------------------------------------------
(* The app_id kept in an assignment is its role's app, and both its user    *)
(* and its role exist: no race of a grant, a bulk grant or the seed with a  *)
(* deletion leaves a row that CheckPermission would count for another app.  *)
AssignmentsBelong ==
  \A x \in assigned : References(x) /\ x.app = AppOf[x.role] /\ app[x.app] = "live"

Ends(c) == call[c] # Idle /\ call'[c] = Idle

(* A grant adds a role only to a user who was ACTIVE at some moment of the  *)
(* call, and only a role that was: the stale reads of GrantRoleToUser and   *)
(* BulkGrantRoles reach back no further than the call.                      *)
GrantsSawEligibility ==
  [][\A c \in Calls : \A x \in assigned' \ assigned :
       call'[c] # call[c] => {x.user, x.role} \subseteq seen[c].active]_vars

(* BulkGrantRoles and BulkRemoveRoles are all-or-nothing, although their    *)
(* statements run one by one between those of others and any may fail: a    *)
(* step of theirs that changes the table leaves all or none of the          *)
(* request's roles there, those found in place on the way included.         *)
BulkIsAllOrNothing ==
  [][\A c \in Calls :
       (call'[c] # call[c] /\ assigned' # assigned) =>
         \/ \A r \in call[c].roles : HasIn(assigned', call[c].user, r)
         \/ \A r \in call[c].roles : ~ HasIn(assigned', call[c].user, r)]_vars

(* What AccessService answers was so at some moment of the call, whatever   *)
(* grants, removals and deletions interleave: a grant's roles were held, a  *)
(* removed, reported or listed role was absent or present.                  *)
AnswersHeldDuringCall ==
  [][\A c \in Calls :
       (Ends(c) /\ reply'.code = "OK") =>
         LET held == seen[c].held \cup {r \in Roles : HasIn(assigned', call[c].user, r)}
             lost == seen[c].lost \cup {r \in Roles : ~ HasIn(assigned', call[c].user, r)}
         IN  /\ Head(call[c].plan) \in {"create", "bulkCreate", "get"} =>
                  call[c].roles \subseteq held
             /\ Head(call[c].plan) \in {"delete", "bulkDelete"} =>
                  call[c].roles \subseteq lost
             /\ Head(call[c].plan) \in {"has", "hydrate"} => reply'.roles \subseteq held
             /\ Head(call[c].plan) = "has" =>
                  call[c].roles \ reply'.roles \subseteq lost]_vars

(* The audit log opens only to a user who holds an ACTIVE role of the app   *)
(* that has the slug sso-admin now: the id cached for the life of the       *)
(* process never lets anyone in once its app is gone.                       *)
AuditOpensToAdmins ==
  [][(AuditRead \in reply'.allowed) =>
       \A c \in Calls : (Ends(c) /\ call[c].app \in AdminApps) =>
         /\ app[call[c].app] = "live"
         /\ \E r \in RolesOf(call[c].app) :
              Has(call[c].user, r) /\ role[r] = "ACTIVE"]_vars

(* BLOCKED and DELETED users "do not contribute to CheckPermission"         *)
(* (service.go): one that is allowed something was ACTIVE during the call.  *)
OnlyActiveUsersAreAllowed ==
  [][\A c \in Calls :
       (Ends(c) /\ reply'.allowed # {}) => call[c].user \in seen[c].active]_vars
=============================================================================
