----------------------------- MODULE UserAccounts -----------------------------
(***************************************************************************)
(* The use cases that write one account's row in users and its recovery    *)
(* codes: Login, ChangePassword, ResetPasswordWithRecoveryCode and         *)
(* GenerateRecoveryCodes of AuthService, Disable/Enable/SoftDeleteUser,    *)
(* UpdateUser and PermanentlyDeleteUser of IdentityService.  As in         *)
(* AuthSessions a call in flight advances by one database round trip per   *)
(* step and keeps the row it read in call[c].snap; a round trip may fail,  *)
(* and a write may take effect and lose its reply.                         *)
(*                                                                         *)
(* A call's first step includes its first read.  Sessions are reduced to   *)
(* the set of those not revoked; AuthSessions has the rest of them.  Input *)
(* validation, the app lookup and hashing, which touch nothing, are folded *)
(* into the step they precede; audit events are left out.                  *)
(***************************************************************************)
EXTENDS UserStore, FiniteSets

CONSTANTS
  Calls,       \* slots for RPCs in flight
  MaxSessions  \* bound: session ids handed out

ASSUME CallsAssumption == IsFiniteSet(Calls) /\ MaxSessions \in Nat

VARIABLES
  row,        \* the account's row in users
  batches,    \* its recovery-code batches
  live,       \* its sessions that are not revoked
  call,       \* the RPCs in flight
  nextEtag,   \* the next UUID etag
  nextBatch,  \* the next UUIDv7 batch id
  nextSid,    \* the next UUIDv7 session id
  shown,      \* batches whose codes a client was shown
  reply,      \* what the last step answered to its client, "none" if nothing
  version,    \* history: the aggregate for which an etag was minted
  burnt,      \* history: how often ConsumeCode accepted a code
  beside      \* history: how many Generates were about to create when the last
              \* one revoked

vars == <<row, batches, live, call, nextEtag, nextBatch, nextSid, shown, reply,
          version, burnt, beside>>

SessionIDs == 1 .. MaxSessions

PCs == {"idle", "login.create",
        "change.write", "change.revoke", "change.create",
        "reset.batch", "reset.consume", "reset.write", "reset.revoke",
        "reset.create", "generate.revoke", "generate.create",
        "lifecycle.write", "update.write", "purge.delete", "discriminate"}

Codes == {"none", "OK", "INTERNAL", "INVALID_CREDENTIALS", "INVALID_TOKEN",
          "USER_NOT_FOUND", "USER_BLOCKED", "USER_DELETED", "USER_NOT_DELETED",
          "USER_ALREADY_EXISTS", "PASSWORD_MISMATCH", "APP_UNAVAILABLE",
          "RECOVERY_CODE_INVALID", "ETAG_MISMATCH"}

(* Local variables of a use case: the row it read, the etag its client      *)
(* expects (0: the wildcard), and its input: new password, code presented   *)
(* and the batch it is tried on, status to set, profile to write.           *)
CallState == [pc      : PCs,
              snap    : User \cup {NoRow},
              etag    : Etags \cup {0},
              pw      : Passwords \cup {NoRow},
              code    : Code \cup {NoRow},
              batch   : BatchIDs \cup {0},
              status  : Statuses,
              profile : Profiles \cup {NoRow}]

Idle == [pc |-> "idle", snap |-> NoRow, etag |-> 0, pw |-> NoRow,
         code |-> NoRow, batch |-> 0, status |-> "ACTIVE", profile |-> NoRow]

TypeOK ==
  /\ row \in User \cup {NoRow}
  /\ batches \in [BatchIDs -> Batch \cup {NoRow}]
  /\ live \subseteq SessionIDs
  /\ call \in [Calls -> CallState]
  /\ nextEtag \in 1 .. MaxEtags + 1
  /\ nextBatch \in 1 .. MaxBatches + 1
  /\ nextSid \in 1 .. MaxSessions + 1
  /\ shown \subseteq BatchIDs
  /\ reply \in Codes
  /\ version \in [Etags -> User \cup {NoRow}]
  /\ burnt \in [Code -> Nat]
  /\ beside \in Nat

(* Register stores a password, CreateUser by an administrator does not.     *)
Registered == \E hash \in Hashes, profile \in Profiles :
                row = NewUser(hash, profile, 1)
Created    == \E profile \in Profiles : row = NewUser(NoRow, profile, 1)

Init ==
  /\ Registered \/ Created
  /\ version = [[e \in Etags |-> NoRow] EXCEPT ![1] = row]
  /\ nextEtag = 2
  /\ batches = NoBatches
  /\ nextBatch = 1
  /\ shown = {}
  /\ burnt = [c \in Code |-> 0]
  /\ beside = 0
  /\ live = {}
  /\ nextSid = 1
  /\ call = [c \in Calls |-> Idle]
  /\ reply = "none"

-----------------------------------------------------------------------------
(* Steps of a call.                                                         *)

At(c, pc) == call[c].pc = pc

Goto(c, state) ==
  /\ call' = [call EXCEPT ![c] = state]
  /\ reply' = "none"

Return(c, code) ==
  /\ call' = [call EXCEPT ![c] = Idle]
  /\ reply' = code

(* The state of a call that goes on with the row as it is now.              *)
Reading(pc) == [Idle EXCEPT !.pc = pc, !.snap = row]

RowUnchanged      == UNCHANGED <<row, nextEtag, version>>
RecoveryUnchanged == UNCHANGED <<batches, nextBatch, shown, burnt, beside>>
SessionsUnchanged == UNCHANGED <<live, nextSid>>
NothingWritten    == RowUnchanged /\ RecoveryUnchanged /\ SessionsUnchanged

(* Mint records the aggregate u in the history if it carries a new etag.    *)
Mint(u) ==
  IF u.etag = nextEtag
  THEN /\ nextEtag' = nextEtag + 1
       /\ version' = [version EXCEPT ![u.etag] = u]
  ELSE UNCHANGED <<nextEtag, version>>

StatusCode(u) == IF u.status = "BLOCKED" THEN "USER_BLOCKED" ELSE "USER_DELETED"

(* No row was affected.  Without an etag that is taken for a missing row;   *)
(* with one a COUNT decides, one round trip later.                          *)
NoRowAffected(c, expected) ==
  IF expected = 0 THEN Return(c, "USER_NOT_FOUND")
                  ELSE Goto(c, [Idle EXCEPT !.pc = "discriminate"])

Discriminate(c) ==
  /\ At(c, "discriminate")
  /\ Return(c, IF row = NoRow THEN "USER_NOT_FOUND" ELSE "ETAG_MISMATCH")
  /\ NothingWritten

(* Mutant of WriteRow: the save inserts a row that is no longer there.      *)
WriteRowUpserts(c, u, expected) ==
  /\ row = NoRow \/ Matches(row, expected)
  /\ row' = u
  /\ Mint(u)
  /\ Return(c, "OK")

(* Repository.Update: the whole row.  The server counts changed rows, so    *)
(* writing an identical row affects none, unless last_login_at moved.       *)
WriteRow(c, u, expected) ==
  \/ /\ Matches(row, expected)
     /\ row' = u
     /\ Mint(u)
     /\ \/ Return(c, "OK")
        \/ Return(c, "INTERNAL")
        \/ row = u /\ NoRowAffected(c, expected)
  \/ /\ ~ Matches(row, expected)
     /\ RowUnchanged
     /\ NoRowAffected(c, expected)

-----------------------------------------------------------------------------
(* What the password use cases have in common.                              *)

(* Repository.UpdatePassword with the etag the aggregate was read with.     *)
PersistPassword(c, next) ==
  /\ nextEtag \in Etags
  /\ LET u == SetPassword(call[c].snap, call[c].pw, nextEtag)
     IN  \/ /\ PasswordMatches(row, call[c].snap.etag)
            /\ row' = UpdatePassword(row, u)
            /\ Mint(u)
            /\ \/ Goto(c, [call[c] EXCEPT !.pc = next])
               \/ Return(c, "INTERNAL")
         \/ /\ ~ PasswordMatches(row, call[c].snap.etag)
            /\ RowUnchanged
            /\ NoRowAffected(c, call[c].snap.etag)
  /\ RecoveryUnchanged /\ SessionsUnchanged

RevokeSessions(c, next) ==
  /\ live' = {}
  /\ \/ Goto(c, [call[c] EXCEPT !.pc = next])
     \/ Return(c, "INTERNAL")
  /\ UNCHANGED nextSid
  /\ RowUnchanged /\ RecoveryUnchanged

(* The INSERT of a session, which needs its user, then the signature.       *)
MintSession(c) ==
  /\ row # NoRow
  /\ nextSid \in SessionIDs
  /\ live' = live \cup {nextSid}
  /\ nextSid' = nextSid + 1
  /\ Return(c, "OK") \/ Return(c, "INTERNAL")
  /\ RowUnchanged /\ RecoveryUnchanged

-----------------------------------------------------------------------------
(* Login.  A missing or inactive app, an unknown or deleted user, a missing *)
(* and a wrong password get the same answer.                                *)

LoginBegin(c, p) ==
  /\ At(c, "idle")
  /\ \/ /\ row # NoRow /\ row.status = "ACTIVE"
        /\ HasPassword(row) /\ Compare(row, p)
        /\ Goto(c, Reading("login.create"))
     \/ /\ row # NoRow /\ row.status = "BLOCKED"
        /\ Return(c, "USER_BLOCKED")
     \/ Return(c, "INVALID_CREDENTIALS")
  /\ NothingWritten

(* The closing UPDATE of last_login_at, whose error is ignored, writes no   *)
(* column of this model.                                                    *)
LoginCreate(c) == At(c, "login.create") /\ MintSession(c)

-----------------------------------------------------------------------------
(* ChangePassword.                                                          *)

ChangeBegin(c, old, new) ==
  /\ At(c, "idle")
  /\ old # new
  /\ CASE row = NoRow -> Return(c, "INVALID_TOKEN")
       [] row # NoRow /\ row.status # "ACTIVE" -> Return(c, StatusCode(row))
       [] row # NoRow /\ row.status = "ACTIVE"
            /\ ~ (HasPassword(row) /\ Compare(row, old)) ->
              Return(c, "PASSWORD_MISMATCH")
       [] OTHER -> Goto(c, [Reading("change.write") EXCEPT !.pw = new])
  /\ NothingWritten

ChangeWrite(c)  == At(c, "change.write") /\ PersistPassword(c, "change.revoke")
ChangeRevoke(c) == At(c, "change.revoke") /\ RevokeSessions(c, "change.create")
ChangeCreate(c) == At(c, "change.create") /\ MintSession(c)

-----------------------------------------------------------------------------
(* ResetPasswordWithRecoveryCode.                                           *)

ResetBegin(c, code, p) ==
  /\ At(c, "idle")
  /\ \/ Return(c, "APP_UNAVAILABLE")
     \/ row = NoRow /\ Return(c, "USER_NOT_FOUND")
     \/ row # NoRow /\ row.status # "ACTIVE" /\ Return(c, StatusCode(row))
     \/ /\ row # NoRow /\ row.status = "ACTIVE"
        /\ Goto(c, [Reading("reset.batch") EXCEPT !.code = code, !.pw = p])
  /\ NothingWritten

(* LIMIT 1 without an ORDER BY: any active batch.                           *)
ResetGetBatch(c) ==
  /\ At(c, "reset.batch")
  /\ \/ /\ Active(batches) = {}
        /\ Return(c, "RECOVERY_CODE_INVALID")
     \/ \E b \in Active(batches) :
          Goto(c, [call[c] EXCEPT !.pc = "reset.consume", !.batch = b])
  /\ NothingWritten

ResetConsume(c) ==
  /\ At(c, "reset.consume")
  /\ LET code == call[c].code
     IN  \/ /\ ConsumeMatches(batches, call[c].batch, code)
            /\ batches' = ConsumeCode(batches, code)
            /\ burnt' = [burnt EXCEPT ![code] = @ + 1]
            /\ \/ Goto(c, [call[c] EXCEPT !.pc = "reset.write"])
               \/ Return(c, "INTERNAL")
         \/ /\ ~ ConsumeMatches(batches, call[c].batch, code)
            /\ UNCHANGED <<batches, burnt>>
            /\ Return(c, "RECOVERY_CODE_INVALID")
  /\ UNCHANGED <<nextBatch, shown, beside>>
  /\ RowUnchanged /\ SessionsUnchanged

ResetWrite(c)  == At(c, "reset.write") /\ PersistPassword(c, "reset.revoke")
ResetRevoke(c) == At(c, "reset.revoke") /\ RevokeSessions(c, "reset.create")
ResetCreate(c) == At(c, "reset.create") /\ MintSession(c)

-----------------------------------------------------------------------------
(* GenerateRecoveryCodes.                                                   *)

GenerateBegin(c) ==
  /\ At(c, "idle")
  /\ \/ row = NoRow /\ Return(c, "INVALID_TOKEN")
     \/ row # NoRow /\ row.status # "ACTIVE" /\ Return(c, StatusCode(row))
     \/ row # NoRow /\ row.status = "ACTIVE" /\ Goto(c, Reading("generate.revoke"))
  /\ NothingWritten

(* The Generates that have revoked and not yet created.                     *)
Creating == {c \in Calls : At(c, "generate.create")}

GenerateRevoke(c) ==
  /\ At(c, "generate.revoke")
  /\ batches' = RevokeActiveBatches(batches)
  /\ \/ /\ Goto(c, [call[c] EXCEPT !.pc = "generate.create"])
        /\ beside' = Cardinality(Creating)
     \/ Return(c, "INTERNAL") /\ UNCHANGED beside
  /\ UNCHANGED <<nextBatch, shown, burnt>>
  /\ RowUnchanged /\ SessionsUnchanged

GenerateCreate(c) ==
  /\ At(c, "generate.create")
  /\ row # NoRow
  /\ nextBatch \in BatchIDs
  /\ batches' = CreateBatch(batches, nextBatch)
  /\ nextBatch' = nextBatch + 1
  /\ \/ /\ shown' = shown \cup {nextBatch}
        /\ Return(c, "OK")
     \/ /\ UNCHANGED shown
        /\ Return(c, "INTERNAL")
  /\ UNCHANGED <<burnt, beside>>
  /\ RowUnchanged /\ SessionsUnchanged

-----------------------------------------------------------------------------
(* IdentityService.                                                         *)

(* DisableUser, EnableUser and SoftDeleteUser.                              *)
LifecycleBegin(c, status, allowMissing) ==
  /\ At(c, "idle")
  /\ CASE row = NoRow ->
            Return(c, IF allowMissing THEN "OK" ELSE "USER_NOT_FOUND")
       [] row # NoRow /\ row.status = "DELETED" /\ status # "DELETED" ->
            Return(c, "USER_DELETED")
       [] OTHER -> Goto(c, [Reading("lifecycle.write") EXCEPT !.status = status])
  /\ NothingWritten

(* A stale row brings back an email or username that another account may    *)
(* have taken since.                                                        *)
LifecycleWrite(c) ==
  /\ At(c, "lifecycle.write")
  /\ nextEtag \in Etags
  /\ \/ WriteRow(c, SetStatus(call[c].snap, call[c].status, nextEtag), 0)
     \/ /\ row # NoRow /\ row.profile # call[c].snap.profile
        /\ Return(c, "USER_ALREADY_EXISTS") /\ RowUnchanged
  /\ RecoveryUnchanged /\ SessionsUnchanged

UpdateBegin(c, profile, expected) ==
  /\ At(c, "idle")
  /\ \/ row = NoRow /\ Return(c, "USER_NOT_FOUND")
     \/ row # NoRow /\ row.status = "DELETED" /\ Return(c, "USER_DELETED")
     \/ /\ row # NoRow /\ row.status # "DELETED"
        /\ Goto(c, [Reading("update.write") EXCEPT !.profile = profile,
                                                   !.etag = expected])
  /\ NothingWritten

(* The new email or username may collide with another account's.            *)
UpdateWrite(c) ==
  /\ At(c, "update.write")
  /\ nextEtag \in Etags
  /\ \/ WriteRow(c, ApplyPatch(call[c].snap, call[c].profile, nextEtag),
                 call[c].etag)
     \/ Return(c, "USER_ALREADY_EXISTS") /\ RowUnchanged
  /\ RecoveryUnchanged /\ SessionsUnchanged

(* Mutant of PurgeBegin: the etag of the row it read is not compared.       *)
PurgeBeginUnpinned(c, expected) ==
  /\ At(c, "idle")
  /\ \/ row = NoRow /\ Return(c, "USER_NOT_FOUND")
     \/ row # NoRow /\ row.status # "DELETED" /\ Return(c, "USER_NOT_DELETED")
     \/ /\ row # NoRow /\ row.status = "DELETED"
        /\ Goto(c, [Reading("purge.delete") EXCEPT !.etag = expected])
  /\ NothingWritten

PurgeBegin(c, expected) ==
  /\ At(c, "idle")
  /\ \/ row = NoRow /\ Return(c, "USER_NOT_FOUND")
     \/ row # NoRow /\ row.status # "DELETED" /\ Return(c, "USER_NOT_DELETED")
     \/ /\ row # NoRow /\ row.status = "DELETED"
        /\ IF row.etag # expected
           THEN Return(c, "ETAG_MISMATCH")
           ELSE Goto(c, [Reading("purge.delete") EXCEPT !.etag = expected])
  /\ NothingWritten

(* The foreign keys delete sessions and batches with the user.              *)
PurgeDelete(c) ==
  /\ At(c, "purge.delete")
  /\ \/ /\ Matches(row, call[c].etag)
        /\ row' = NoRow
        /\ batches' = NoBatches
        /\ live' = {}
        /\ Return(c, "OK") \/ Return(c, "INTERNAL")
     \/ /\ ~ Matches(row, call[c].etag)
        /\ UNCHANGED <<row, batches, live>>
        /\ NoRowAffected(c, call[c].etag)
  /\ UNCHANGED <<nextEtag, version, nextBatch, nextSid, shown, burnt,
                 beside>>

-----------------------------------------------------------------------------
(* A round trip that fails without effect ends the call: every use case     *)
(* here returns the error.                                                  *)
CallFails(c) ==
  /\ call[c].pc # "idle"
  /\ Return(c, "INTERNAL")
  /\ NothingWritten

Step(c) ==
  \/ LoginCreate(c)
  \/ ChangeWrite(c) \/ ChangeRevoke(c) \/ ChangeCreate(c)
  \/ ResetGetBatch(c) \/ ResetConsume(c)
  \/ ResetWrite(c) \/ ResetRevoke(c) \/ ResetCreate(c)
  \/ GenerateRevoke(c) \/ GenerateCreate(c)
  \/ LifecycleWrite(c) \/ UpdateWrite(c) \/ PurgeDelete(c)
  \/ Discriminate(c)
  \/ CallFails(c)

(* Clients present codes they were shown, and etags they have seen.         *)
AuthService(c) ==
  \/ \E p \in Passwords : LoginBegin(c, p)
  \/ \E old, new \in Passwords : ChangeBegin(c, old, new)
  \/ \E p \in Passwords, code \in Code :
       code.batch \in shown /\ ResetBegin(c, code, p)
  \/ GenerateBegin(c)

IdentityService(c) ==
  \/ \E status \in Statuses, allowMissing \in BOOLEAN :
       LifecycleBegin(c, status, allowMissing)
  \/ \E profile \in Profiles, e \in Etags \cup {0} :
       e < nextEtag /\ UpdateBegin(c, profile, e)
  \/ \E e \in Etags : e < nextEtag /\ PurgeBegin(c, e)

Start(c) == AuthService(c) \/ IdentityService(c)

Next == \E c \in Calls : Start(c) \/ Step(c)

Spec == Init /\ [][Next]_vars

-----------------------------------------------------------------------------
(* Properties.                                                              *)

(* An etag names one version of the account: a row, stored or held by a     *)
(* call, is exactly the aggregate for which its etag was minted, however    *)
(* whole-row writes, the narrow password write and stale rows interleave.   *)
EtagNamesOneVersion ==
  /\ row # NoRow => row = version[row.etag]
  /\ \A c \in Calls : call[c].snap # NoRow =>
       call[c].snap = version[call[c].snap.etag]

(* ChangePassword and the recovery reset store a password only over the     *)
(* very row whose status and old password they checked: never on an account *)
(* that was blocked or deleted, or given another password, in between.      *)
PasswordWriteIsCurrent ==
  [][\A c \in Calls :
       /\ call[c].pc \in {"change.write", "reset.write"}
       /\ call'[c] # call[c]
       /\ row' # row
       => row = call[c].snap /\ row.status = "ACTIVE"]_vars

(* PermanentlyDeleteUser checks the status on a row it read earlier; the    *)
(* DELETE still never removes an account that is not DELETED.               *)
PurgeOnlyDeleted ==
  [][row # NoRow /\ row' = NoRow => row.status = "DELETED"]_vars

(* A recovery code buys at most one reset, however many are in flight.      *)
RecoveryCodeUsedOnce == \A code \in Code : burnt[code] <= 1

(* GenerateRecoveryCodes says that revoking first keeps one active batch    *)
(* per account, even if a Generate raced with another.                      *)
AtMostOneActiveBatch == Cardinality(Active(batches)) <= 1

(* What it does keep: an account has a second active batch only when one    *)
(* Generate revoked while another had revoked and not yet created, and only *)
(* until a Generate revokes alone, whatever fails or loses its reply.       *)
OneActiveBatchUnlessRaced == beside = 0 => AtMostOneActiveBatch

(* What the etag of an account promises its readers.                        *)
Versions == INSTANCE VersionedRow WITH
  current <- IF row = NoRow THEN 0 ELSE row.etag,
  minted  <- nextEtag - 1

(* The account implements VersionedRow: whatever the whole-row lifecycle    *)
(* writes, the narrow password write and the purge do to each other, a row  *)
(* changes to a fresh etag or to an older version as a whole, and a purged  *)
(* account is not brought back by a save that read it earlier.              *)
ImplementsVersionedRow == Versions!Spec

Life == INSTANCE RowLifecycle WITH
  Purgeable <- {"DELETED"},
  status    <- IF row = NoRow THEN "gone" ELSE row.status

(* The account implements RowLifecycle, which the session and access use    *)
(* cases rely on: whatever stale rows the lifecycle calls write back, it is *)
(* purged only as DELETED, although PermanentlyDeleteUser checked a row it  *)
(* read earlier, and no save brings it back.                                *)
ImplementsRowLifecycle == Life!Spec

-----------------------------------------------------------------------------
(* The inductive invariant behind the safety properties.                    *)

(* The etags in use were minted.                                            *)
EtagsMinted ==
  /\ row # NoRow => row.etag < nextEtag
  /\ \A c \in Calls : call[c].snap # NoRow => call[c].snap.etag < nextEtag

(* Local variables of a call: what each program point may rely on.          *)
CallOK(st) ==
  /\ st.pc \in {"change.write", "reset.batch", "reset.consume", "reset.write"} =>
       /\ st.snap # NoRow
       /\ st.snap.status = "ACTIVE"
       /\ st.pw \in Passwords
  /\ st.pc \in {"lifecycle.write", "update.write", "purge.delete"} =>
       st.snap # NoRow
  /\ st.pc \in {"reset.batch", "reset.consume"} => st.code \in Code
  /\ st.pc = "reset.consume" => st.batch \in BatchIDs
  /\ st.pc = "update.write" => st.profile \in Profiles
  /\ st.pc = "purge.delete" =>
       st.snap.status = "DELETED" /\ st.etag = st.snap.etag

CallsOK == \A c \in Calls : CallOK(call[c])

(* Ids not handed out yet have left no trace; a code that was accepted      *)
(* stays marked as long as its batch exists.                                *)
CodesOK ==
  /\ \A b \in BatchIDs : b >= nextBatch => batches[b] = NoRow
  /\ \A code \in Code :
       burnt[code] > 0 =>
         /\ code.batch < nextBatch
         /\ \/ batches[code.batch] = NoRow
            \/ code.index \in batches[code.batch].used

(* A batch takes the place of the Generate that created it.                 *)
BatchesCounted ==
  beside = 0 => Cardinality(Active(batches)) + Cardinality(Creating) <= 1

Inv ==
  /\ TypeOK
  /\ EtagNamesOneVersion
  /\ EtagsMinted
  /\ CallsOK
  /\ CodesOK
  /\ RecoveryCodeUsedOnce
  /\ BatchesCounted

=============================================================================
