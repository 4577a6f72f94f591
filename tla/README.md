# TLA+ models of the SSO service

The repository is a single sign-on gRPC service in Go on MariaDB. This
directory holds TLA+ models of its stateful core, TLC configurations that check
them on small instances, and TLAPS proofs.

## The system

Every RPC runs the same way: the rate limiter and the auth interceptor admit
it, a handler translates the message, a use case in
`internal/modules/<m>/internal/service` runs, and repositories in
`internal/modules/<m>/internal/mariadb` execute SQL. **Every repository call is
its own autocommit statement; no use case holds a transaction across two of
them** (`CreateBatch`, the role writes, `BulkCreate` and `BulkDelete` open one
within a single call). Between two statements anything may happen: another RPC, an
administrator's change, a failed connection, a crash. Rows are read into an
aggregate, changed in memory and written back, sometimes under an etag or a
pinned column, sometimes unconditionally. That is where the difficult behaviour
of this program lies, and it is what the models are about.

### Inventory

| part | state | operations | what makes it correct |
| --- | --- | --- | --- |
| session (`modules/session`) | `sessions` rows: owner, refresh-token hash, absolute and sliding deadline, `revoked_at` | Create, Update (whole row), Rotate (pins the old hash), RevokeAllForUser, reads | revocation is final, a token is accepted once, no deadline passes the hard cap |
| auth sessions (`modules/auth`) | none of its own; rows held by calls in flight | Login, Refresh, Logout, RevokeSession, RevokeToken, RevokeAllSessions, Validate, ListSessions | an acknowledged revocation holds; only the owner revokes; every call is answered |
| auth credentials (`modules/auth`) | none of its own | ChangePassword, ResetPasswordWithRecoveryCode, GenerateRecoveryCodes, Register | a password is written only over the row that was checked; a code is used once; sessions go with the old password |
| identity (`modules/identity`) | `users` rows: status, etag, password hash, profile, last login, lockout columns (no use case writes them) | CreateUser, UpdateUser, Disable, Enable, SoftDelete, PermanentlyDelete, reads | an etag stands for one version; only DELETED accounts are purged |
| recovery codes (`modules/recoverycode`) | batches with `revoked_at`, codes with `used_at` | CreateBatch, RevokeActiveBatchesForUser, ConsumeCode, GetActiveBatchByUser | one use per code; a second active batch only from Generates that overlap |
| app, role, serviceaccount | rows with status and etag; a role's permissions, an account's secret | create, update, lifecycle, delete, rotate | an etag-pinned write acts on the version it names; a role's permissions are one request's whole set (an unpinned lifecycle write may put old columns back, the secret included) |
| access (`modules/access`) | `role_assignments` | grant, bulk grant, remove, check, list | a bulk grant is all or nothing; a check answers for some instant |
| lists (every module) | a page token held by the client | seven paged lists over keysets | no row twice, none missed, every page advances |
| audit (`modules/audit`, `platform/audit`, `cmd/audit-purge`) | `audit_events`; a cached app id | emit (best effort), list, purge by batches | no event is dropped for the way it was built; the purge is complete and ends; only administrators read |
| rate limiter (`platform/ratelimit`) | a map of token buckets under a mutex | Allow, evictIdle | eviction gives nobody more than the policy |
| auth interceptor (`platform/grpc/auth`) | none | admit a private RPC | a dead session admits nothing |
| bootstrap, gateway (`bootstrap`, `platform/httpserver`, `cmd/sso`) | listeners, pool, stop channel, requests in flight | New, Run, Stop | a failed start releases the pool; HTTP drains before gRPC before the pool; the process ends |
| seed (`cmd/seed`) | none | seed-admin, one transaction | assignments of the sso-admin app to its administrator |
| config, crypto, logger, migrate | fixed at start, or none | | |

The parts interact through the database. auth reads and writes rows of
identity, session and recoverycode through their repositories; access reads
identity, role and app; foreign keys delete sessions, batches and assignments
with their user, roles with their app. There are no messages between parts and
no callbacks; the concurrency is that of RPCs interleaving at statement
boundaries. Within the process there are three more kinds: the limiter's map
under its mutex, the goroutines of the shutdown, and the gateway, which calls
the gRPC server of its own process.

What is hard here: rows acted on after they changed; whole-row writes that put
old columns back; a check in one statement and its write in another; the second
of two writes failing; a write that takes effect and loses its reply; and
`RowsAffected`, which counts changed rows because the DSN does not ask for
`clientFoundRows`. `PROJECT.json` lists each such hazard at its line.

## Modules

| module | models |
| --- | --- |
| `SessionStore` | the Session aggregate and the statements on `sessions`, as operators on a table value |
| `AuthSessions` | the session use cases and the interceptor, as a state machine over that table |
| `SessionRegistry` | abstract: what a session promises its clients; implemented by `AuthSessions` |
| `MCAuthSessions` | instances for TLC (symmetry of the call slots) |
| `AuthSessionsProofs` | theorems about `AuthSessions` |
| `UserStore` | the User aggregate and the recovery-code batches of one account, and the statements on them |
| `UserAccounts` | the credential, recovery-code and identity use cases on that account |
| `MCUserAccounts` | instances for TLC (symmetry of calls, passwords, profiles and codes) |
| `UserAccountsProofs` | theorems about `UserAccounts` |
| `CatalogStore` | the aggregates App, Role and ServiceAccount, and the statements on their tables |
| `GRPCErrors` | the tables from error sentinels to gRPC codes, and `MapError` |
| `Catalog` | the use cases of the three services on one row, and AuthenticateServiceAccount |
| `CatalogProofs` | theorems about `Catalog` |
| `VersionedRow` | abstract: what an etag promises; implemented by `Catalog` and `UserAccounts` |
| `RowLifecycle` | abstract: what the services promise each other about the status of a row; implemented by `UserAccounts` and `Catalog`, relied on by `AuthSessions` and `AccessControl` |
| `AccessControl` | AccessService, the audit authorizer and cmd/seed over users, apps, roles and assignments |
| `AccessControlProofs` | theorems about `AccessControl` |
| `AuditEvents` | how the result of a use case becomes an audit event |
| `Listing` | the seven paged lists, the audit table and cmd/audit-purge; uses `AuditEvents` |
| `ListingProofs` | theorems about `Listing` |
| `RateLimiter` | the interceptor, the keyed token buckets and the sweep |
| `TokenBuckets` | abstract: buckets that always exist; implemented by `RateLimiter` |
| `RateLimiterProofs` | theorems about `RateLimiter` |
| `Server` | the process: start, listeners, gateway, shutdown, pool; composed with `RateLimiter` |
| `ServerProofs` | theorems about `Server`, on top of `RateLimiterProofs` |
| `MCCatalog`, `MCAccessControl`, `MCListing`, `MCServer` | instances for TLC |

### How a use case becomes actions

`Calls` is a set of slots for RPCs in flight. `call[c]` holds the local
variables of the use case: its program point `pc`, the rows it read (`snap`),
its inputs. A step is one database round trip with the code up to the next one,
so that every point at which the real calls can interleave is a state of the
model. `XBegin` is the entry of RPC X, `XGet`, `XWrite`, `XRevoke`, `XCreate`
its statements in the order of the code. `Return` answers the client and frees
the slot; the answer stays in `reply` for one step, for the properties.

Failure is part of each step. A round trip can fail without effect
(`CallFails`), which is also what a crash or a cancelled context looks like. A
write can take effect and lose its reply: every write step has the alternative
of answering `INTERNAL`. Where the code swallows an error (the two best-effort
revocations of `Refresh`) the model swallows it as well.

`acked`, `chain`, `rotated` and `lastActive` in `AuthSessions`, `version`, `burnt` and
`beside` in `UserAccounts`, `version` in `Catalog`, `seen` in `AccessControl`, `seen`,
`steady`, `moved`, `unread` and `dropped` in `Listing`, `spent` and `forced` in
`Server` are history. No guard reads them, with one exception: `Listing` uses
`seen` and `moved` to keep an id that was deleted from being used again.

### Correspondence: sessions

`sessions` is the table, `userStatus` the one column of `users` these use cases
read. `held` and `access` are what clients were given: the refresh tokens, and
for each session the expiry of its latest access token (`0` for none).

| action | code |
| --- | --- |
| `LoginBegin`, `LoginCreate` | `login.go`: checks; the INSERT of the session and the signature |
| `RefreshBegin`, `RefreshGetSession`, `RefreshGetUser`, `RefreshRevoke`, `RefreshRotate`, `RefreshReused`, `RefreshRevokeAll` | `refresh.go`: lookup by hash, state check, user check, best-effort revocation for a blocked or deleted user, the pinned UPDATE, replay detection, bulk revocation |
| `LogoutBegin/Get`, `RevokeSessionBegin/Get`, `RevokeTokenBegin/Get`, `RevokeUpdate` | the three single-session RPCs and the UPDATE they share |
| `RevokeAllBegin`, `RevokeAllUpdate` | the bulk statement |
| `RevokeAllExceptBegin`, `RevokeAllList`, `RevokeAllEach`, `RevokeAllDone` | the except-current loop, one UPDATE per step, in the order of the listing |
| `Authenticate`, `SessionAccepted` | the interceptor and `Validate` |
| `UserChanges`, `UserPermanentlyDeleted` | identity changing the user underneath; any status may follow any other because its lifecycle writes are unconditional |
| `Tick` | the clock |

### Correspondence: accounts

`row` is the account's row in `users`, `batches` its recovery codes, `live` its
sessions that are not revoked, `shown` the batches whose codes a client was
given.

| action | code |
| --- | --- |
| `LoginBegin`, `LoginCreate` | `login.go` on this account |
| `ChangeBegin`, `ChangeWrite`, `ChangeRevoke`, `ChangeCreate` | `change_password.go` |
| `ResetBegin`, `ResetGetBatch`, `ResetConsume`, `ResetWrite`, `ResetRevoke`, `ResetCreate` | `reset_password_with_recovery_code.go` |
| `GenerateBegin`, `GenerateRevoke`, `GenerateCreate` | `generate_recovery_codes.go` |
| `LifecycleBegin`, `LifecycleWrite` | `lifecycleEmit` with Disable, Enable or SoftDelete; a stale row may bring back an email or username taken meanwhile |
| `UpdateBegin`, `UpdateWrite` | `UpdateUser`; etag `0` is the wildcard |
| `PurgeBegin`, `PurgeDelete` | `PermanentlyDeleteUser`, with the cascades |
| `Discriminate` | the COUNT after a conditional write matched nothing |

### Correspondence: apps, roles, service accounts

`kind` says which of the three tables the behaviour is about, `row` is the row,
`perms` its rows in `role_permissions`. The three modules share one skeleton in
the source, and the model has it once; what differs (mutators, refusals, the
two-statement read of a role, the permissions in its transaction, the sentinels)
is defined per kind.

| action | code |
| --- | --- |
| `CreateApp`, `CreateRole`, `CreateServiceAccount`, `Insert` | `service/create.go`, `Repository.Create` |
| `UpdateApp` ..., `UpdateBegin`, `Load` | `service/update.go` up to `GetByID`; etag `-1` is a missing one, `0` the wildcard |
| `AppLifecycle`, `RoleLifecycle`, `ServiceAccountLifecycle`, `LifecycleBegin` | `lifecycleEmit` with its `allow_missing`; the mutators of the aggregates |
| `RotateCredentials` | `serviceaccount/internal/service/rotate.go` |
| `PermanentlyDeleteApp` ..., `DeleteBegin`, `DeleteRow` | `service/delete.go`, `Repository.Delete` |
| `RoleGetPermissions` | the second statement of the role's `GetByID` |
| `AppRepositoryUpdate`, `RoleRepositoryUpdate`, `ServiceAccountRepositoryUpdate`, `UpdateRow` | `Repository.Update`; the role's is one transaction under the row lock |
| `Discriminate`, `NoRowAffected` | `dbutil.Discriminate` |
| `AuthenticateServiceAccount` | `auth/internal/service/service_account.go` |
| `AppCascade` | the foreign key from `roles` to `apps` |

### Correspondence: access

`user`, `role`, `app` are the tables of other modules reduced to existence and
status, `assigned` is `role_assignments`, `appID` the authorizer's cached id.
`call[c].plan` is the list of round trips a use case still has to make, so that
a use case reads as the sequence of checks it is in the source.

A bulk write is a transaction with a middle. Each statement of the loop in
`InTx` is a step that moves a role from `todo` to `pending`, if it changed its
row, and touches no table; the COMMIT is one more step, and a broken foreign key
or a failed call before it leaves nothing. What keeps the middle consistent are
InnoDB's locks at REPEATABLE READ: `Locks(c)` are the pairs the transaction has
dealt with, which nobody else inserts or deletes before it ends, and
`Referenced` the pairs whose INSERT keeps their user and role from being
deleted. Locks that InnoDB could share between two transactions are taken as
exclusive; two that wait for each other, and the one chosen as deadlock victim,
are `CallFails`. `seedAdmin` is a transaction too, but one step: its SELECTs take
no locks, so a row it found may be deleted before its INSERTs, and what is left
then is what the two in the other order leave, or nothing after a rollback.

| action | code |
| --- | --- |
| `GrantRoleToUser`, `BulkGrantRoles` | `grant.go` |
| `RemoveRoleFromUser`, `BulkRemoveRoles` | `remove.go` |
| `CheckPermission`, `BatchCheckPermission`, `HasRoleInApp`, `ListActivePermissions`, `HasAssignment` | `check.go`, with `matchPermissions` |
| `ListUserRoles`, `ListAssignments`, `HydrateRole` | `list.go` |
| `requireUserExists`, `requireUserEligible`, `requireAppExists`, `loadAnyRole`, `loadActiveRoleInApp` | `service.go`, one statement each |
| `Create`, `BulkCreate`, `Get`, `Delete`, `BulkDelete` | `mariadb/repository.go`; a bulk write is one step per statement (`InsertInTx`, `StatementDone`) and one for the COMMIT (`CommitInserts`, `CommitDeletes`) |
| `CanReadAudit`, `resolveAdminAppID` | `platform/audit/authz/access.go` |
| `SetUserStatus`, `SetRoleStatus`, `CreateX`, `PermanentlyDeleteX` | the other services' writes with their cascades |
| `seedAdmin` | `cmd/seed/main.go` |
| `AssignElsewhere`, `RemoveElsewhere`, `Restart` | other servers on the same database; the process starting again |

### Correspondence: lists, audit, purge

`table` is whichever table the walk is about, `after` the page token the client
holds. A page is one SELECT with the keyset clause of the chosen order
(`keysetClause`, `OrderKey` for `ORDER BY`, `CursorKey` for what the clause
binds). The model takes its rows as a set: the first `size` rows after the token
(`Following`, `FirstRows`), and a next token made from the last of them
(`LastRow`) when the row more that the code reads is there.

| action | code |
| --- | --- |
| `ListUsers`, `ListApps`, `ListRoles`, `ListServiceAccounts`, `ListUserRoles`, `ListAuditEvents` | `service/get.go` or `list.go` and `mariadb/list.go` of the module |
| `ListSessions`, `selectSessionsPage` | `auth/internal/service/list_sessions.go`, which cuts the page in memory |
| `CreateRow`, `DeleteRow`, `RenameRow`, `ChangeStatus` | what other RPCs do to the rows between two pages |
| `Emit`, `OccurredAt`, `Stamped`, `Classify`, `NewAudit` | `auditx/auditor.go`, `classify.go`, `domain/audit.go` |
| `UseCases` and the tables made with it | the lines of each use case that begin an event and fill in its subject and app |
| `Begun`, `Filled`, `BaseFromActor`, `AnonymousBase` | which requests get as far as an event, and what it carries wherever the use case stops |
| `resolveAuditCutoff`, `auditPurge`, `PurgeFails` | `cmd/audit-purge/main.go`; a cutoff may lie in the future (`Tomorrow`) |

`AuditEvents` lists the use cases that emit: the event, the type of its subject,
and where the ids of subject and app come from (the request, the verified token,
a row, or freshly minted). An id is unset, a UUID or some other text, since that
is all `NewAudit` asks. A use case that stops early has filled in less
(`Progress`), and the event it emits then must pass as well. All checks of
`NewAudit` are there: event, actor and subject type, ids, app, outcome, reason,
address and metadata. An event that fails one is dropped (`dropped`).

### Correspondence: limiter and process

| action | code |
| --- | --- |
| `Bind`, `Unary` | `ratelimit/interceptor.go`: the limits of a method, one after the other |
| `Allows`, `Denies`, `Touch` | `KeyedLimiter.Allow` under its mutex |
| `SweepBegins`, `evictIdle` | the sweep, which reads the clock before it locks |
| `Tick` | `rate.Limiter`, external: a bucket gains one unit per tick, a token is `Refill` units |
| `LoadConfig` ... `BuildHTTPServer` | `run()` of `cmd/sso` and `bootstrap.New` |
| `GRPCRun`, `HTTPRun` | the goroutines of `App.Run`: `...Listens` (the port is bound or not), `...ServeFails` (a listener breaks while it serves), `...Returns` (after a stop) |
| `Receive`, `Serve`, `GatewayAccepts`, `GatewayAnswers` | an RPC, straight or through the gateway; both servers still let a request in while they drain, on a connection made before |
| `WatcherWakes`, `HTTPStop`, `GRPCStop`, `RunReturns` | the shutdown goroutine and `errgroup.Wait` |
| `Signal`, `MainSelects`, `Stop`, `closeDB` | `cmd/sso/main.go`, `App.Stop`, `closeDB` |

Left out of the data: user agent, address, `last_seen_at`, `last_login_at` and
the other timestamps no guard reads; the six profile columns are one value; a
hash is the record of what was hashed. Audit events are best effort and change
no outcome; `Listing` has how they are built. The app lookups of Login and of
AuthenticateServiceAccount are folded into the possible answers. Slugs, links
and descriptions go with the name of a catalog row; a secret is known by the
etag it was minted with.

## Runs

| run | instance | shows |
| --- | --- | --- |
| `race` | 1 user, 3 calls, 1 session, 3 tokens | `TokenAcceptedOnce`, `NewestTokenIsCurrent`, the refinement `ImplementsSessionRegistry` |
| `lifetime` | 1 user, 2 calls, 1 session, 3 tokens, clock to 4 with a window of 2 and a cap of 3 | `SessionsRunOut`: no window past the hard cap, none far past the last time its user was ACTIVE |
| `owners` | 2 users, 2 calls, 2 sessions, no symmetry | `OnlyOwnerRevokes`, `AckedRevocationHolds`, `EveryCallReturns`; the inductive invariant `Inv` |
| `account` | 2 calls, 2 passwords, 2 profiles, 3 etags, 3 batches of a code, 1 session; 3 changes and the next | `EtagNamesOneVersion`, `PasswordWriteIsCurrent`, the refinements `ImplementsRowLifecycle` and `ImplementsVersionedRow`, `RecoveryCodeUsedOnce`, `OneActiveBatchUnlessRaced`; the inductive invariant `Inv` |
| `catalog` | 2 calls on an app, a role or an account, 2 names of which one is taken, 2 permissions, 3 etags | `EtagNamesOneVersion`, `PermissionsAreWhole`, `PinnedWritesActOnNamedVersion`, `ImplementsVersionedRow` |
| `access` | 1 call, 1 user, two successive sso-admin apps with three roles, one of them with a wildcard permission | `AssignmentsBelong`, `GrantsSawEligibility`, `BulkIsAllOrNothing`, `AnswersHeldDuringCall`, `AuditOpensToAdmins` |
| `listing` | every list in every order and direction, 3 rows, 2 values per column, pages of 1 and 2, 2 changes during the walk, purge batches of 2 | `NoRowTwice`, `WalkIsComplete`, `PagesAdvance`, `EventsAreWellFormed`, `PurgeIsComplete`, `PurgeEnds` |
| `server` | with and without HTTP, 1 request at a time, limits by address and by name with a burst of 1 and a token per 2 ticks, clock to 5 | `FailedStartReleasesPool`, `PoolOutlivesHandlers`, `GatewayCallsAreServed`, `ShutdownCompletes`, `SpendIsBounded`, `EvictionIsInvisible` |

Each of these properties has a mutant of the code (a dropped pin, a missing
bump, a forgotten revocation, an uncapped window, a keyset without tie-breaker,
a stop that does not wait) under which TLC finds it violated. The type
invariant of each module is checked in one of its runs, by itself or as part of
the inductive invariant.

**Bounds.** Three calls are what a race of two refreshes and a stale whole-row
write needs; every other hazard listed takes two. Two tokens rotate once, three
give a rotation and its replay. A session opened at 1 has a window to 3 and a cap
of 4: a rotation at 2 and one at 3 bring the window to the cap, a user blocked at
1 shows in a rotation at 2, and the clock reaches both deadlines. Three etags give a stale row, a new one and one
more change; two Generates that overlap and one after them give three batches.
`FewChanges` of `MCUserAccounts` bounds the sum: any three new versions, batches
and sessions are followed further, a fourth is checked and not followed. That is
enough for a reset with its session on a batch created before it, and for a
stale row under two changes.
In `access` one call suffices: what a second one could do between two statements of
the first is in `AssignElsewhere`, `RemoveElsewhere` and the writes of the other
services, which are less constrained than a call. Two apps and three roles give
a deleted sso-admin app and its successor.
Three rows give two page boundaries, with and without ties at the boundary; two
changes give a row that moves and one that is deleted. In `access` a bulk
request of two roles has a state between its INSERTs. The clock of `server`
passes the idle time (4) and comes back to a key whose bucket was swept. The
bounds end in the guards of the actions that mint ids or count, so a bounded run
leaves out behaviours and adds none; the theorems hold for every value of the
bounds.

**Deadlock.** In `AuthSessions` all users may be deleted and all ids handed out,
after which nothing can happen; a catalog row that is deleted at the last etag,
a walk that is over and a process that has ended have no next step either.
These configurations say `CHECK_DEADLOCK FALSE`. The runs of `UserAccounts` and
`AccessControl` check deadlock: a login can always be answered, and a check too.

**Fairness.** `FairSpec` of `AuthSessions` asks weak fairness of `Step(c)` for
each call: the goroutine of a call is scheduled, and the timeouts of the driver
end every round trip, with an answer or an error. `Listing` asks it of the purge
loop only, a process that runs to its end; `PurgeEnds` is about cutoffs that
have come, since events that keep arriving can feed a purge up to tomorrow.
`Server` asks it of the start and of each goroutine of the shutdown, the timers
of the two graceful stops and of `closeDB` included; of a listener, that it
binds its port or fails to (`...Listens`) and that it returns once it was stopped
(`...Returns`), never that one which serves should fail. Without a signal a
healthy process serves for ever. Nothing is asked of clients, handlers,
administrators, signals or the clock: `ShutdownCompletes` holds even if no
handler ever returns.

### What comments say and the code does not keep

Four runs state a sentence of the source and TLC refutes it; the finding in
`PROJECT.json` quotes the line.

| run | sentence | what happens |
| --- | --- | --- |
| `rotated_out` | RotateCredentials invalidates the previous secret | a Disable or Enable that read the row before the rotation writes the old secret hash back |
| `two_batches` | revoking first keeps at most one active batch, even if a Generate raced with itself | both Generates revoke, then both create |
| `blocked_allowed` | BLOCKED and DELETED users do not contribute to CheckPermission | `check.go` only asks whether the user exists |
| `auth_order` | CreatedAt serves as the cursor's time field for any time-keyed ordering | `last_authenticated_at` is compared with a creation time: descending pages repeat, ascending pages end after the first |

The same pattern, a whole-row or two-statement write that a comment did not
reckon with, is behind these; the models contain the behaviour, and none has a
run of its own.

- `auth/internal/service/refresh.go:136` says that a second rotation of a token
  surfaces as reuse. A stale `Update` (`session/internal/mariadb/repository.go:54`)
  puts the old hash back and the token rotates again. The session is revoked by
  then, so `TokenAcceptedOnce` still holds.
- `identity/internal/service/update.go:163` says that a deleted user cannot be
  revived via Enable. The lifecycle write (`service.go:109`) is unconditional.
- `identity/internal/mariadb/repository.go:163` says that password changes are
  optimistic-locked. A stale lifecycle write restores the old hash.
- `auth/internal/service/generate_recovery_codes.go:29` says that earlier codes
  are invalidated atomically. `ConsumeCode` does not look at `revoked_at` of the
  batch.
- `auth/internal/service/change_password.go:151` says that the fresh session is
  the only one left. A Login that compared the old password inserts afterwards.
- `kernel/dbutil/dbutil.go:66` says that 0 rows unambiguously means missing. An
  identical write changes 0 rows, because the DSN does not set `clientFoundRows`.
- `access/internal/service/list.go:81` explains the skipping of a role by its
  deletion. Any read error skips it.

Two more comments promise more than the code does, and the properties say what
holds instead. `Session.Revoke` keeps the first `revoked_at` only within one
aggregate; revoking stays final (`ImplementsSessionRegistry`). A reported replay
revokes all sessions unless that statement fails, since its error is swallowed;
sessions count as acknowledged in `AckedRevocationHolds` only when it went
through. What `two_batches` leaves of its sentence is `OneActiveBatchUnlessRaced`:
a second active batch takes a Generate that revokes between the revocation and
the creation of another, and the next Generate that revokes alone ends it.

## Proofs

All theorems hold for every value of the constants that the named assumptions
allow: every number of calls, users, sessions, tokens, etags, batches, codes,
names, permissions, apps, roles, rows, page sizes, requests and keys, every
length of the TTLs and every rate policy. tlapm checks them with Z3, Zenon and,
for the temporal steps, LS4. TLC checked each inductive invariant on the
instance of its run before it was proved.

### Sessions (`AuthSessionsProofs`)

Assumptions: the bounds are naturals (`BoundsAssumption`), the TTLs are positive
(`TTLAssumption`), `NoRow` is neither a row nor a user (`NoRowAssumption`), and
the clock bound is positive (`ClockAssumption`). Nothing is assumed about the
order of the two TTLs.

None of the safety properties is inductive: a call holds rows it may write back
much later, so what it holds has to be part of the invariant. `Inv` says that
every row, in the table or in a snapshot, lies within the hard cap and carries a
token generated for that session (`RowsOK`); that a token rotated away is not on
the row of a live session (`SpentOK`); that ids not handed out left no trace
(`FreshOK`); what each program point knows (`CallsOK`), the loop invariant of
the except-current revocation included; and that acknowledged sessions have
ended (`AckedOK`).

The steps divide into those that only *settle* the table (rotate, revoke, delete
with the user) and those that *grow* it (Login). What a call knows survives both
kinds, which is proved once and used for every action; what is left for an
action is the state of its own call and the history it writes. From `Inv` follow
`TypeCorrect`, `TokensAcceptedOnce`, `NewestTokensAreCurrent`,
`WindowsWithinHardCap` and `AckedRevocationsHold`, and, from the writes a step
can make, the action properties `RevocationsAreOneWay` and `OnlyOwnersRevoke`.

`SessionsAlwaysRunOut` is what is left of a promise the code does not make:
blocking a user revokes no session, and neither the interceptor nor `Validate`
looks at the user. `lastActive` records when a user was last ACTIVE. A window
ends within `RotationTTL` of that instant, or of the login if the block came
between its checks and its INSERT. The invariant is `WindowInv`: the rows held by
calls obey the bound too, and a refresh about to rotate computes its window from
an instant at which, or before which, it saw its user ACTIVE. That order of two
statements in `refresh.go` is all that the theorem needs; the mutant without the
check breaks it.

`AuthRefinesSessionRegistry` puts the session theorems into one specification a
client can read. The abstract state of a session is computed from the table and
the counters alone: `none` while its id was not handed out, `over` once the row
is revoked or gone, `open` otherwise. A stale whole-row write of a revoking RPC
maps to `Close` or to a stutter, never to a `Rotate` with an older token; a
rotation whose pinned UPDATE misses maps to `Waste`. `told` is `acked`, so the
refinement contains that an acknowledged revocation is true when it is made.

### What the services assume of each other

`AuthSessions` and `AccessControl` let users and roles change underneath them by
actions of their own. That these actions are neither too few nor too many is a
matter of proof, with `RowLifecycle` as the contract: a row is born ACTIVE, takes
any status in any order, is deleted only from some statuses, and never returns.

- The owners implement it: `AccountRefinesRowLifecycle` (only DELETED accounts
  are purged, although `PermanentlyDeleteUser` checked a row it read earlier),
  `AppRefinesRowLifecycle` and `RoleRefinesRowLifecycle` (roles and service
  accounts; any status may be deleted). For the catalog this needs one more
  conjunct, `StatusesOK`: every version of a row has a status of its own kind.
- Those who rely on it leave nothing out: `EveryAccountStepIsCovered`, in
  `AuthSessionsProofs` and in `AccessControlProofs`, and `EveryRoleStepIsCovered`
  say that, in every state of the invariant, a step of the contract, with the
  cascades and with everything else unchanged, is a step of the model.
  `UsersFollowRowLifecycle` is the other direction for the users of the session
  model. The roles of the access model have no such theorem: deleting an app
  there takes the ids of roles that were never created with it.

### Accounts (`UserAccountsProofs`)

Assumptions: `StoreBounds`, `NoRowIsNoValue`, and that `Calls` is finite and
`MaxSessions` a natural (`CallsAssumption`), the former to count Generates.

Every step is first reduced to three effects: what it does to the row
(`RowEffect`: nothing, an older version written back, a new version with a fresh
etag, deletion), to the calls (`CallEffect`) and to the batches (`BatchEffect`).
The conjuncts of the invariant are then each preserved by the effects, without
looking at the actions again. The heart is `EtagNamesOneVersion`: whole-row
writes restore old etags, so an etag on the row is no proof that nothing
happened in between, but it does prove that the row *is* the version that was
read. That is what makes the pinned password write and the purge safe
(`PasswordWritesAreCurrent`, `PurgesOnlyDeleted`). `CodesUsedOnce` rests on
used marks that stay as long as the batch does. `beside` is
the number of Generates that had revoked and not yet created when the last one
revoked; `OneBatchUnlessRaced` needs the stronger count `BatchesCounted`: as long
as it is 0, active batches and Generates about to create one are together at
most one, since creating turns the one into the other and a revocation empties
the first. The same invariant
gives `TypeCorrect`, and `AccountRefinesVersionedRow`: with the map from etags to
versions as the abstract history, every step of an account is a step of
`VersionedRow` or leaves the row alone. `AccountRefinesRowLifecycle` follows from
`PurgesOnlyDeleted` and from the statuses the lifecycle calls can write.

### Apps, roles, service accounts (`CatalogProofs`)

Assumptions: `CatalogBounds`, `PermSetsAssumption`, `NoRowIsNoRow` and
`UnsetIsNoValue`.

The argument is that of the accounts with two additions. A step is reduced to
its `RowEffect` and `CallEffect`; `EtagsMinted` says that no etag above the last
one is on a row, in a snapshot or in the history, so a bump always makes a fresh
version. `PermsOK` ties the two tables of a role together: the permissions of a
role about to be saved are those of some version of it, although the etag beside
them may be another's, unless the role was deleted meanwhile
(`PermissionsStayWhole`). For `CatalogRefinesVersionedRow` a row once deleted
must not return: `Insert` needs the state before any etag was minted, and every
other write matches a row that is there. `PinnedWritesAct` follows from
`EtagsNameVersions` the way the password write does.

### Access (`AccessControlProofs`)

Assumptions: `IdsAssumption` and `AuditReadAssumption`.

A call of AccessService is a list of round trips, and what it may conclude at the
end is what its earlier statements saw. `seen` remembers what was true at some
moment of the call and only grows while it runs, so a fact established by one
check stays available to the last step. `CallOK` says for each program point
what has been established (`PlanOK` that the round trips left end in the one that
answers, `GrantOK` what a grant has checked, `ReadOK` what an
answer rests on); `TxsOK` says what an open transaction knows: no two lock the
same pair, what it inserted has its user and role, and every role it dealt with
is in `pending` or was as requested before. The tables keep `AssignmentsBelong` and `RolesInApps` through
every cascade. From these follow `AssignmentsAlwaysBelong`,
`GrantsSeeEligibility`, `BulkAllOrNothing`, `AnswersHold` and
`AuditOpensOnlyToAdmins`, the last although the authorizer keeps the id of an
app that may be gone: no assignment refers to a deleted app. `BulkAllOrNothing`
needs `TxsOK`: at the COMMIT the roles in `pending` and those passed over are
still what the statements found, which without the locks would be false.

### Lists and purge (`ListingProofs`)

Assumptions: `SizesAssumption` and `KeysAssumption` (finitely many ids, keys are
naturals, there is a present). The theorems about walks also assume that
`last_authenticated_at` is not among the orders; with it they are false
(`auth_order`).

First the page: the keys of rows are in a strict total order, because they end
in the id, so a page that leaves rows out has a last row, and every row left out
comes after it (`PageCut`). That a finite set of keys has a last element is taken
from the well-foundedness of strict inclusion, since induction is not available.
`WalkInv` then says that a row that was returned and has not moved is not ahead
of the token, and that a row that matched and kept its place was returned, is
ahead of the token, or could not be read. `NoRowsTwice`, `WalksAreComplete` and
`PagesAlwaysAdvance` follow. `PurgesAreComplete` needs that whatever a running
purge still has to delete lies before the cutoff; `EventsWellFormed` goes
through the table of use cases once (`TableOfUseCases`), shows that an id of a
request was parsed before its event was begun (`IDsParse`), that a use case which
stops anywhere has set no subject type without an id (`FilledOK`) and no reason
beside a success (`StampedOK`), and concludes that `NewAudit` refuses nothing.

### Rate limiter (`RateLimiterProofs`)

Assumption: `RateAssumption`. `LimiterInv` says that a bucket in the map is full
or has gained a unit for every tick since it was used (`Refilled`), that what a
key was given and what its bucket holds do not exceed the burst plus the time
(`SpentPlusLeft`), and that neither the sweep's clock reading nor `lastSeen` is
ahead of the clock. The idle time is at least the time to refill, so a bucket
that is evicted was full, and a full one takes its place when the key returns:
`SpendBounded` and the refinement `LimiterRefinesBuckets`.

### Process (`ServerProofs`)

The process takes only steps of the limiter or leaves it alone
(`ServerRunsLimiter`), so the limiter's theorems hold for it. `LifeInv` ties the
goroutines together: while main starts nothing else has moved; the gateway has
requests only while the watcher has not got past HTTP; once the watcher is done
the gRPC server takes no new call and the handlers are done or were cut off; Run
returns after the watcher, and Stop closes the pool after Run. This gives
`FailedStartsReleasePool`, `PoolsOutliveHandlers` and `GatewayCallsServed`, for
any number of requests and without fairness.

### Liveness: what is proved and what is not

`EveryCallReturns`, `PurgeEnds` and `ShutdownCompletes` are model-checked:
fairness and ENABLED are out of the prover's reach. What can be proved is the
part of each argument that does not mention fairness, for every instance.

- `CallsAlwaysGoForward`: a call under way is moved by its own steps only, and
  each lowers the number of round trips it has ahead (`Ahead`) or, in the
  except-current loop, takes a row off its list. No use case retries.
- `PurgeAlwaysGoesForward`: while a purge up to a time that has come runs, the
  rows before its cutoff only become fewer, however many events arrive, since
  events are stamped with the clock; and, whatever the cutoff, a batch that does
  not end the loop takes something away.
- `LifecycleAlwaysGoesForward` and `ShutdownIsNeverStuck`: every step of the start
  or of the shutdown lowers `StepsAhead`, no request or signal raises it, and from
  a signal or a failed listener on there is a step to take until main has
  returned. `SomeoneMoves` writes out the guards of those steps, which is what
  ENABLED would say; a listener that merely serves is not among them, so a Stop
  that told nobody would be stuck.

The four refutations are TLC's as well. Recursive definitions would be out of
reach too; the models have none.

## Not modelled, and what could follow

- Register and CreateUser are the initial state of an account: the row they
  insert. That emails and usernames are unique is a key of the database.
- The lockout statements, `ClearPassword` and `RevokeBatch` have no caller.
- Message translation, the generated REST translation, CORS, health, logging,
  metrics, configuration and `migrate` keep no state that a property could be
  about. Hashing, signing and encoding are what the code relies on them to be.
- The metadata of audit events is never set by a use case; its sanitizing is
  left out, and so is the user agent, which is cut to length and never refused.
- `WireModules` stands for the constructors between the database and the auth
  wiring; each has an error path of its own in the source, and all of them close
  the pool and return.
- A timed-out HTTP shutdown ends every gateway request, those for `/readyz`
  included, which make no call. The limiter has one policy and whole ticks.
- Whether a catalog name is taken is fixed during a behaviour, so that a stale
  lifecycle write is never answered ALREADY_EXISTS; the answer changes no row.
- The connection pool of `database/sql` appears only as open or closed.

What could follow: several accounts at once, with the race of two registrations
for one email; the limits of the connection pool against long handlers. The
proofs cover every safety property the passing runs check.
