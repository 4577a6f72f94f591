------------------------------- MODULE Catalog -------------------------------
(***************************************************************************)
(* The use cases of AppService, RoleService and ServiceAccountService on   *)
(* one row: create, update, lifecycle transitions, rotation of a secret,   *)
(* permanent deletion, and AuthenticateServiceAccount, which reads the     *)
(* row.  kind says which of the three tables the row is in.  All share one *)
(* skeleton: load the aggregate, mutate it, save it in full, conditional   *)
(* on the client's etag (UpdateX, RotateCredentials, PermanentlyDeleteX)   *)
(* or on nothing (lifecycle).  A step is one database round trip; the rest *)
(* of a call is folded into the step that precedes it.  A role's two-      *)
(* statement read is two steps, its transactional write is one.  Any round *)
(* trip may fail, and a write may take effect and lose its reply.          *)
(***************************************************************************)
EXTENDS CatalogStore, GRPCErrors

CONSTANT Calls \* slots for RPCs in flight

VARIABLES
  kind,     \* which table
  row,      \* the row in it
  perms,    \* its rows in role_permissions
  call,     \* the RPCs in flight
  nextEtag, \* the next UUID etag
  reply,    \* what the last step answered, "none" if nothing
  secretIn, \* the client secret the last step accepted, 0 if none
  version   \* history: the aggregate an etag was minted for

vars == <<kind, row, perms, call, nextEtag, reply, secretIn, version>>

Ops == {"update", "disable", "enable", "enter", "exit", "rotate", "delete"}
PCs == {"idle", "permissions", "write", "delete", "discriminate"}

NoPatch == [name |-> Unset, perms |-> Unset]

CallState == [pc : PCs, op : Ops, snap : Aggregate \cup {NoRow},
              etag : 0 .. MaxEtags, patch : RolePatches]

Idle == [pc |-> "idle", op |-> "update", snap |-> NoRow, etag |-> 0,
         patch |-> NoPatch]

(* The sentinels of the kind at hand.                                       *)
NotFound == CASE kind = "app"     -> "APP_NOT_FOUND"
              [] kind = "role"    -> "ROLE_NOT_FOUND"
              [] kind = "account" -> "SERVICE_ACCOUNT_NOT_FOUND"
AlreadyExists == CASE kind = "app"     -> "APP_ALREADY_EXISTS"
                   [] kind = "role"    -> "ROLE_ALREADY_EXISTS"
                   [] kind = "account" -> "SERVICE_ACCOUNT_ALREADY_EXISTS"
ErrorMap == CASE kind = "app"     -> AppErrorMap
              [] kind = "role"    -> RoleErrorMap
              [] kind = "account" -> ServiceAccountErrorMap

TypeOK ==
  /\ kind \in Kinds
  /\ row \in Row \cup {NoRow}
  /\ perms \subseteq Permissions
  /\ call \in [Calls -> CallState]
  /\ nextEtag \in 1 .. MaxEtags + 1
  /\ reply \in GRPCCodes
  /\ secretIn \in Secrets
  /\ version \in [Etags -> Aggregate \cup {NoRow}]

Init ==
  /\ kind \in Kinds
  /\ row = NoRow
  /\ perms = {}
  /\ call = [c \in Calls |-> Idle]
  /\ nextEtag = 1
  /\ reply = "none"
  /\ secretIn = 0
  /\ version = [e \in Etags |-> NoRow]

-----------------------------------------------------------------------------
(* Steps of a call.                                                         *)

At(c, pc) == call[c].pc = pc

Goto(c, state) ==
  /\ call' = [call EXCEPT ![c] = state]
  /\ reply' = "none" /\ secretIn' = 0

Return(c, err) ==
  /\ call' = [call EXCEPT ![c] = Idle]
  /\ reply' = MapError(err, ErrorMap) /\ secretIn' = 0

NothingWritten == UNCHANGED <<row, perms, nextEtag, version>>

(* Write stores the aggregate a and records it if its etag is new.          *)
Write(a, ps) ==
  /\ row' = Columns(a)
  /\ perms' = ps
  /\ IF a.etag = nextEtag
     THEN /\ nextEtag' = nextEtag + 1
          /\ version' = [version EXCEPT ![a.etag] = a]
     ELSE UNCHANGED <<nextEtag, version>>

(* The reply to a write that took effect may be lost, or the read before a  *)
(* success that needs no write may fail.                                    *)
Acknowledge(c) == Return(c, "OK") \/ Return(c, "INTERNAL")

(* A refusal that the row read decides; the read itself may fail.           *)
Refuse(c, err) == Return(c, err) \/ Return(c, "INTERNAL")

(* Discriminate: no row was affected.  Without an etag that is taken for a  *)
(* missing row, with one a COUNT decides.                                   *)
NoRowAffected(c) ==
  /\ NothingWritten
  /\ IF call[c].etag = 0 THEN Return(c, NotFound)
     ELSE Goto(c, [Idle EXCEPT !.pc = "discriminate"])

Discriminate(c) ==
  /\ At(c, "discriminate")
  /\ NothingWritten
  /\ Return(c, IF row = NoRow THEN NotFound ELSE "ETAG_MISMATCH")

(* A database round trip fails without effect.                              *)
CallFails(c) == ~ At(c, "idle") /\ NothingWritten /\ Return(c, "INTERNAL")

(* Mutant: the save inserts a row that is no longer there.                  *)
UpdateRowUpserts(c, a, ps) ==
  /\ a.etag \in Etags
  /\ \/ row = NoRow \/ Matches(row, call[c].etag)
  /\ Write(a, ps) /\ Acknowledge(c)

(* Repository.Update of a single row.  The server counts changed rows, so   *)
(* writing an identical row affects none.                                   *)
UpdateRow(c, a, ps) ==
  /\ a.etag \in Etags
  /\ IF Matches(row, call[c].etag) /\ Columns(a) # row
     THEN \/ a.name \notin Taken /\ Write(a, ps) /\ Acknowledge(c)
          \/ a.name \in Taken /\ NothingWritten /\ Return(c, AlreadyExists)
     ELSE NoRowAffected(c)

-----------------------------------------------------------------------------
(* Repositories.                                                            *)

(* Create: one INSERT, for a role with its permissions in one transaction.  *)
Insert(c, a) ==
  /\ row = NoRow /\ nextEtag = 1
  /\ At(c, "idle")
  /\ \/ a.name \notin Taken /\ Write(a, a.perms) /\ Acknowledge(c)
     \/ a.name \in Taken /\ NothingWritten /\ Return(c, AlreadyExists)
     \/ NothingWritten /\ Return(c, "INTERNAL")

(* GetByID, the first read of a call that goes on to pc.                    *)
Load(c, state) ==
  /\ NothingWritten
  /\ \/ row = NoRow /\ Return(c, NotFound)
     \/ row # NoRow /\ Goto(c, [state EXCEPT !.snap = Restore(row, {})])
     \/ Return(c, "INTERNAL")

(* Delete with an etag; roles and permissions go with their parent row.     *)
DeleteRow(c) ==
  /\ At(c, "delete")
  /\ IF Matches(row, call[c].etag)
     THEN /\ row' = NoRow /\ perms' = {}
          /\ UNCHANGED <<nextEtag, version>>
          /\ Acknowledge(c)
     ELSE NoRowAffected(c)

AppRepositoryDelete(c)            == kind = "app" /\ DeleteRow(c)
RoleRepositoryDelete(c)           == kind = "role" /\ DeleteRow(c)
ServiceAccountRepositoryDelete(c) == kind = "account" /\ DeleteRow(c)

MutateApp(s, e) ==
  CASE s.op = "update"  -> ApplyPatch(s.snap, s.patch, e)
    [] s.op = "disable" -> AppDisable(s.snap, e)
    [] s.op = "enable"  -> AppEnable(s.snap, e)
    [] s.op = "enter"   -> AppEnterMaintenance(s.snap, e)
    [] s.op = "exit"    -> AppExitMaintenance(s.snap, e)

MutateRole(s, e) ==
  CASE s.op = "update"  -> ApplyPatch(s.snap, s.patch, e)
    [] s.op = "disable" -> RoleDisable(s.snap, e)
    [] s.op = "enable"  -> RoleEnable(s.snap, e)

MutateServiceAccount(s, e) ==
  CASE s.op = "update"  -> ApplyPatch(s.snap, s.patch, e)
    [] s.op = "disable" -> ServiceAccountDisable(s.snap, e)
    [] s.op = "enable"  -> ServiceAccountEnable(s.snap, e)
    [] s.op = "rotate"  -> RotateSecret(s.snap, e)

AppRepositoryUpdate(c) ==
  /\ kind = "app" /\ At(c, "write")
  /\ UpdateRow(c, MutateApp(call[c], nextEtag), {})

(* Row and permissions in one transaction, the row lock held throughout.    *)
RoleRepositoryUpdate(c) ==
  /\ kind = "role" /\ At(c, "write")
  /\ LET r == MutateRole(call[c], nextEtag)
     IN  UpdateRow(c, r, RewritePermissions(perms, r.perms))

ServiceAccountRepositoryUpdate(c) ==
  /\ kind = "account" /\ At(c, "write")
  /\ UpdateRow(c, MutateServiceAccount(call[c], nextEtag), {})

(* The second statement of a role's GetByID.  A delete by etag compares it  *)
(* only now.                                                                *)
RoleGetPermissions(c) ==
  /\ At(c, "permissions")
  /\ NothingWritten
  /\ LET s == [call[c] EXCEPT !.snap.perms = perms]
     IN  \/ s.op # "delete" /\ Goto(c, [s EXCEPT !.pc = "write"])
         \/ /\ s.op = "delete" /\ s.snap.etag = s.etag
            /\ Goto(c, [s EXCEPT !.pc = "delete"])
         \/ /\ s.op = "delete" /\ s.snap.etag # s.etag
            /\ Return(c, "ETAG_MISMATCH")

-----------------------------------------------------------------------------
(* Use cases.                                                               *)

Invalid(c) == NothingWritten /\ Return(c, "VALIDATION_FAILED")

Started(op, pc, e, p) ==
  [Idle EXCEPT !.op = op, !.pc = pc, !.etag = e, !.patch = p]

(* UpdateX: an etag (or the wildcard) and a mask are required.              *)
UpdateBegin(c, pc, p, e) ==
  /\ At(c, "idle")
  /\ IF GivenEtag(e) /\ ~ IsEmpty(p)
     THEN Load(c, Started("update", pc, e, p))
     ELSE Invalid(c)

(* lifecycleEmit: allow_missing turns a missing row into success.           *)
LifecycleBegin(c, op, pc, allowMissing) ==
  /\ At(c, "idle")
  /\ IF row = NoRow /\ allowMissing
     THEN NothingWritten /\ Acknowledge(c)
     ELSE Load(c, Started(op, pc, 0, NoPatch))

(* PermanentlyDeleteX: the wildcard is refused, and the etag is compared    *)
(* with the row read before the conditional DELETE.                         *)
DeleteBegin(c, e) ==
  /\ At(c, "idle")
  /\ IF SpecificEtag(e)
     THEN IF row # NoRow /\ row.etag # e
          THEN NothingWritten /\ Refuse(c, "ETAG_MISMATCH")
          ELSE Load(c, Started("delete", "delete", e, NoPatch))
     ELSE Invalid(c)

CreateApp(c, name) ==
  kind = "app" /\ Insert(c, NewApp(name, 1))
CreateRole(c, name, ps) ==
  kind = "role" /\ Insert(c, NewRole(name, ps, 1))
CreateServiceAccount(c, name) ==
  kind = "account" /\ Insert(c, NewServiceAccount(name, 1))

UpdateApp(c, p, e)  == kind = "app" /\ UpdateBegin(c, "write", p, e)
UpdateRole(c, p, e) == kind = "role" /\ UpdateBegin(c, "permissions", p, e)
UpdateServiceAccount(c, p, e) == kind = "account" /\ UpdateBegin(c, "write", p, e)

PermanentlyDeleteApp(c, e) == kind = "app" /\ DeleteBegin(c, e)
PermanentlyDeleteServiceAccount(c, e) == kind = "account" /\ DeleteBegin(c, e)
PermanentlyDeleteRole(c, e) ==
  /\ kind = "role" /\ At(c, "idle")
  /\ IF SpecificEtag(e)
     THEN Load(c, Started("delete", "permissions", e, NoPatch))
     ELSE Invalid(c)

(* DisableApp, EnableApp, EnterMaintenanceMode, ExitMaintenanceMode.  The   *)
(* aggregate as read decides whether the transition is refused.             *)
AppLifecycle(c, op, allowMissing) ==
  /\ kind = "app"
  /\ IF row # NoRow /\ row.status \in AppRefusals[op]
     THEN /\ At(c, "idle") /\ NothingWritten
          /\ Refuse(c, IF row.status = "DISABLED" THEN "APP_DISABLED"
                                                  ELSE "APP_IN_MAINTENANCE")
     ELSE LifecycleBegin(c, op, "write", allowMissing)
RoleLifecycle(c, op, allowMissing) ==
  kind = "role" /\ LifecycleBegin(c, op, "permissions", allowMissing)
ServiceAccountLifecycle(c, op, allowMissing) ==
  kind = "account" /\ LifecycleBegin(c, op, "write", allowMissing)

(* RotateCredentials: the wildcard is accepted here.                        *)
RotateCredentials(c, e) ==
  /\ kind = "account" /\ At(c, "idle")
  /\ IF GivenEtag(e) THEN Load(c, Started("rotate", "write", e, NoPatch))
                     ELSE Invalid(c)

(* AuthenticateServiceAccount, once the app was found active: a missing     *)
(* account and a wrong secret get the same answer.                          *)
AccountAnswer(r, secret) ==
  IF r = NoRow THEN "INVALID_CLIENT_CREDENTIALS"
  ELSE IF r.status = "DISABLED" THEN "SERVICE_ACCOUNT_DISABLED"
  ELSE IF r.secret # secret THEN "INVALID_CLIENT_CREDENTIALS" ELSE "OK"

AuthenticateServiceAccount(c, secret) ==
  /\ kind = "account" /\ At(c, "idle")
  /\ NothingWritten /\ UNCHANGED call
  /\ \E err \in {AccountAnswer(row, secret), "APP_NOT_FOUND", "APP_DISABLED",
                 "APP_IN_MAINTENANCE", "VALIDATION_FAILED", "INTERNAL"} :
       /\ reply' = MapError(err, AuthErrorMap)
       /\ secretIn' = IF err = "OK" THEN secret ELSE 0

-----------------------------------------------------------------------------
AppService(c) ==
  \/ \E name \in Names : CreateApp(c, name)
  \/ \E p \in AppPatches, e \in -1 .. nextEtag - 1 : UpdateApp(c, p, e)
  \/ \E op \in {"disable", "enable", "enter", "exit"}, b \in BOOLEAN :
       AppLifecycle(c, op, b)
  \/ \E e \in -1 .. nextEtag - 1 : PermanentlyDeleteApp(c, e)
  \/ AppRepositoryUpdate(c)
  \/ AppRepositoryDelete(c)

RoleService(c) ==
  \/ \E name \in Names, ps \in PermSets :
       CreateRole(c, name, ps)
  \/ \E p \in RolePatches, e \in -1 .. nextEtag - 1 : UpdateRole(c, p, e)
  \/ \E op \in {"disable", "enable"}, b \in BOOLEAN : RoleLifecycle(c, op, b)
  \/ \E e \in -1 .. nextEtag - 1 : PermanentlyDeleteRole(c, e)
  \/ RoleGetPermissions(c)
  \/ RoleRepositoryUpdate(c)
  \/ RoleRepositoryDelete(c)

ServiceAccountService(c) ==
  \/ \E name \in Names : CreateServiceAccount(c, name)
  \/ \E p \in ServiceAccountPatches, e \in -1 .. nextEtag - 1 :
       UpdateServiceAccount(c, p, e)
  \/ \E op \in {"disable", "enable"}, b \in BOOLEAN :
       ServiceAccountLifecycle(c, op, b)
  \/ \E e \in -1 .. nextEtag - 1 : RotateCredentials(c, e)
  \/ \E e \in -1 .. nextEtag - 1 : PermanentlyDeleteServiceAccount(c, e)
  \/ \E secret \in 1 .. nextEtag - 1 : AuthenticateServiceAccount(c, secret)
  \/ ServiceAccountRepositoryUpdate(c)
  \/ ServiceAccountRepositoryDelete(c)

(* PermanentlyDeleteApp of a role's app: the foreign key deletes the role.  *)
AppCascade ==
  /\ kind = "role" /\ row # NoRow
  /\ row' = NoRow /\ perms' = {}
  /\ reply' = "none" /\ secretIn' = 0
  /\ UNCHANGED <<call, nextEtag, version>>

Step(c) ==
  \/ AppService(c)
  \/ RoleService(c)
  \/ ServiceAccountService(c)
  \/ Discriminate(c)
  \/ CallFails(c)

Next == UNCHANGED kind /\ (AppCascade \/ \E c \in Calls : Step(c))

Spec == Init /\ [][Next]_vars

-----------------------------------------------------------------------------
(* An etag stands for one version of the columns: whichever writes raced,   *)
(* a row or an aggregate in memory that carries an etag has the name,       *)
(* status and secret for which bumpVersion minted it, also after a          *)
(* lifecycle call wrote an old row back.                                    *)
EtagNamesOneVersion ==
  /\ row # NoRow => row = Columns(version[row.etag])
  /\ \A c \in Calls : LET a == call[c].snap IN
       a # NoRow => Columns(a) = Columns(version[a.etag])

(* A role's stored permissions are, as a whole, the set some version of it  *)
(* was written with: the two-statement read and the rewrite inside the      *)
(* transaction never mix the sets of two requests.                          *)
PermissionsAreWhole ==
  row # NoRow => \E e \in Etags : version[e] # NoRow /\ version[e].perms = perms

(* UpdateX, RotateCredentials and PermanentlyDeleteX with an etag change    *)
(* the row only while it is what it was when that etag was minted, and a    *)
(* deletion only the very row its call has read.                            *)
PinnedWritesActOnNamedVersion ==
  [][\A c \in Calls :
       (call'[c] # call[c] /\ row' # row /\ call[c].etag # 0) =>
          /\ row = Columns(version[call[c].etag])
          /\ row' = NoRow => row = Columns(call[c].snap)]_vars

(* What the etag of a row promises its readers.                             *)
Versions == INSTANCE VersionedRow WITH
  current <- IF row = NoRow THEN 0 ELSE row.etag,
  minted  <- nextEtag - 1

(* The row implements VersionedRow: a fresh etag, an older version written  *)
(* back, or deletion for good; no stale save brings a deleted row back.     *)
ImplementsVersionedRow == Versions!Spec

(* What the status of a row promises the services that read it: an app may  *)
(* have any of its statuses when it is deleted, and so may a role or an     *)
(* account.                                                                 *)
Standing == IF row # NoRow THEN row.status
            ELSE IF nextEtag = 1 THEN "unborn" ELSE "gone"

AppLife == INSTANCE RowLifecycle WITH
  Statuses <- AppStatus, Purgeable <- AppStatus, status <- Standing

RoleLife == INSTANCE RowLifecycle WITH
  Statuses <- RoleStatus, Purgeable <- RoleStatus, status <- Standing

(* RotateCredentials "invalidat[es] the previous" secret (rotate.go): none  *)
(* is accepted once a later one was stored.                                 *)
RotationInvalidates ==
  secretIn # 0 =>
    \A e \in Etags : version[e] # NoRow => version[e].secret <= secretIn
=============================================================================
