-------------------------- MODULE UserAccountsProofs --------------------------
(***************************************************************************)
(* Proofs about UserAccounts for any number of calls, passwords, profiles, *)
(* codes, etags, batches and sessions.  The steps of Next are first reduced *)
(* to what they do to the row (RowEffect), to the local state of a call    *)
(* (CallEffect) and to the batches (BatchEffect); each part of the         *)
(* inductive invariant is then proved from these effects.                  *)
(***************************************************************************)
EXTENDS UserAccounts, FiniteSetTheorems, TLAPS

(* A stored row is replaced by an aggregate: under a new etag, which is     *)
(* recorded, or by the version its etag already names; or it is deleted.    *)
RowEffect ==
  \/ RowUnchanged
  \/ row' = NoRow /\ UNCHANGED <<nextEtag, version>>
  \/ /\ row # NoRow /\ row' \in User
     /\ row'.etag = nextEtag
     /\ nextEtag \in Etags
     /\ nextEtag' = nextEtag + 1
     /\ version' = [version EXCEPT ![nextEtag] = row']
  \/ /\ row # NoRow /\ row' \in User
     /\ row'.etag < nextEtag
     /\ row' = version[row'.etag]
     /\ UNCHANGED <<nextEtag, version>>

(* One call moves.  What it then holds is nothing, what it held, or the     *)
(* row as it is.                                                            *)
CallEffect ==
  \E c \in Calls, st \in CallState :
    /\ call' = [call EXCEPT ![c] = st]
    /\ st.snap \in {NoRow, call[c].snap, row}
    /\ CallOK(st)
    /\ reply' \in Codes

(* Nothing happens to the batches; or they are revoked, one is created or   *)
(* one of its codes is marked; or they vanish with the user.                *)
BatchEffect ==
  \/ RecoveryUnchanged /\ Creating' \subseteq Creating
  \/ /\ batches' = RevokeActiveBatches(batches)
     /\ UNCHANGED <<nextBatch, shown, burnt>>
     /\ \/ UNCHANGED beside /\ Creating' \subseteq Creating
        \/ /\ beside' = Cardinality(Creating)
           /\ \E c \in Calls : Creating' = Creating \cup {c}
  \/ \E c \in Creating :
       /\ nextBatch \in BatchIDs
       /\ batches' = CreateBatch(batches, nextBatch)
       /\ nextBatch' = nextBatch + 1
       /\ shown' \subseteq shown \cup {nextBatch}
       /\ UNCHANGED <<burnt, beside>>
       /\ Creating' = Creating \ {c}
  \/ \E code \in Code :
       /\ ConsumeMatches(batches, code.batch, code)
       /\ batches' = ConsumeCode(batches, code)
       /\ burnt' = [burnt EXCEPT ![code] = @ + 1]
       /\ UNCHANGED <<nextBatch, shown, beside>>
       /\ Creating' \subseteq Creating
  \/ /\ batches' = NoBatches
     /\ UNCHANGED <<nextBatch, shown, burnt, beside>>
     /\ Creating' \subseteq Creating

-----------------------------------------------------------------------------
(* The aggregate and the statements.                                        *)

(* A mutator yields a user: the one it was given, or a changed one under    *)
(* the new etag.                                                            *)
LEMMA Mutators ==
  ASSUME NEW u \in User, NEW e \in Etags
  PROVE  /\ \A s \in Statuses : /\ SetStatus(u, s, e) \in User
                                /\ SetStatus(u, s, e) = u
                                   \/ SetStatus(u, s, e).etag = e
         /\ \A p \in Profiles : /\ ApplyPatch(u, p, e) \in User
                                /\ ApplyPatch(u, p, e) = u
                                   \/ ApplyPatch(u, p, e).etag = e
         /\ \A p \in Passwords : /\ SetPassword(u, p, e) \in User
                                 /\ SetPassword(u, p, e).etag = e
  BY DEF User, SetStatus, ApplyPatch, SetPassword, Hash, Hashes

(* The narrow password write on the row the aggregate was read from stores  *)
(* the whole aggregate.                                                     *)
LEMMA NarrowWrite ==
  ASSUME NEW u \in User, NEW p \in Passwords, NEW e \in Etags
  PROVE  UpdatePassword(u, SetPassword(u, p, e)) = SetPassword(u, p, e)
  BY DEF User, SetPassword, UpdatePassword

(* The batches stay well formed.                                            *)
LEMMA BatchStatements ==
  ASSUME NEW bs \in [BatchIDs -> Batch \cup {NoRow}]
  PROVE  /\ RevokeActiveBatches(bs) \in [BatchIDs -> Batch \cup {NoRow}]
         /\ \A b \in BatchIDs :
              CreateBatch(bs, b) \in [BatchIDs -> Batch \cup {NoRow}]
         /\ \A code \in Code : ConsumeMatches(bs, code.batch, code) =>
              ConsumeCode(bs, code) \in [BatchIDs -> Batch \cup {NoRow}]
         /\ NoBatches \in [BatchIDs -> Batch \cup {NoRow}]
<1>1. RevokeActiveBatches(bs) \in [BatchIDs -> Batch \cup {NoRow}]
  BY DEF RevokeActiveBatches, Active, Batch
<1>2. \A b \in BatchIDs : CreateBatch(bs, b) \in [BatchIDs -> Batch \cup {NoRow}]
  BY DEF CreateBatch, Batch
<1>3. ASSUME NEW code \in Code, ConsumeMatches(bs, code.batch, code)
      PROVE  ConsumeCode(bs, code) \in [BatchIDs -> Batch \cup {NoRow}]
  <2>1. code.batch \in BatchIDs /\ code.index \in CodeIndex
    BY DEF Code
  <2>2. bs[code.batch] \in Batch
    BY <1>3, <2>1 DEF ConsumeMatches
  <2>3. [bs[code.batch] EXCEPT !.used = bs[code.batch].used \cup {code.index}] \in Batch
    BY <2>1, <2>2 DEF Batch
  <2> QED BY <2>1, <2>3 DEF ConsumeCode
<1>4. NoBatches \in [BatchIDs -> Batch \cup {NoRow}]
  BY DEF NoBatches
<1> QED BY <1>1, <1>2, <1>3, <1>4

(* The idle state, and the state of a call that just read the row.          *)
LEMMA IdleState == Idle \in CallState /\ Idle.snap = NoRow /\ CallOK(Idle)
  BY DEF Idle, CallState, PCs, Statuses, CallOK

-----------------------------------------------------------------------------
(* What the steps do to the row.                                            *)

(* Repository.Update writes an aggregate made from the row its call read.   *)
LEMMA WriteRowEffect ==
  ASSUME Inv, NEW c \in Calls, nextEtag \in Etags, call[c].snap # NoRow,
         NEW u \in User, u = call[c].snap \/ u.etag = nextEtag,
         NEW expected, WriteRow(c, u, expected)
  PROVE  RowEffect
<1>1. call[c].snap = version[call[c].snap.etag] /\ call[c].snap.etag < nextEtag
  BY DEF Inv, EtagNamesOneVersion, EtagsMinted
<1>2. CASE RowUnchanged
  BY <1>2 DEF RowEffect
<1>3. CASE row # NoRow /\ row' = u /\ Mint(u)
  <2>1. CASE u.etag = nextEtag
    BY <1>3, <2>1 DEF Mint, RowEffect
  <2>2. CASE u.etag # nextEtag
    BY <1>1, <1>3, <2>2 DEF Mint, RowEffect
  <2> QED BY <2>1, <2>2
<1> QED BY <1>2, <1>3 DEF WriteRow, Matches

(* Repository.UpdatePassword finds its own etag only on the row it read.    *)
LEMMA PersistPasswordEffect ==
  ASSUME Inv, NEW c \in Calls, NEW next,
         call[c].pc \in {"change.write", "reset.write"},
         PersistPassword(c, next)
  PROVE  /\ RowEffect
         /\ PasswordMatches(row, call[c].snap.etag) => row = call[c].snap
<1> DEFINE snap == call[c].snap
           u    == SetPassword(snap, call[c].pw, nextEtag)
<1>1. snap \in User /\ call[c].pw \in Passwords /\ nextEtag \in Etags
  BY DEF Inv, TypeOK, CallState, CallsOK, CallOK, PersistPassword
<1>2. u \in User /\ u.etag = nextEtag
  BY <1>1, Mutators
<1>3. ASSUME PasswordMatches(row, snap.etag) PROVE row = snap
  BY <1>1, <1>3, NoRowIsNoValue DEF Inv, EtagNamesOneVersion, PasswordMatches
<1>4. CASE RowUnchanged
  BY <1>3, <1>4 DEF RowEffect
<1>5. CASE PasswordMatches(row, snap.etag) /\ row' = UpdatePassword(row, u) /\ Mint(u)
  <2>1. row' = u
    BY <1>1, <1>3, <1>5, NarrowWrite
  <2>2. RowEffect
    BY <1>1, <1>2, <1>5, <2>1 DEF Mint, RowEffect, PasswordMatches
  <2> QED BY <1>3, <2>2
<1> QED BY <1>4, <1>5 DEF PersistPassword

LEMMA RowEffects == Inv /\ Next => RowEffect
<1> SUFFICES ASSUME Inv, NEW c \in Calls, Start(c) \/ Step(c)
             PROVE  RowEffect
  BY DEF Next
<1>1. CASE Start(c)
  BY <1>1
      DEF Start, AuthService, IdentityService, LoginBegin, ChangeBegin, ResetBegin, GenerateBegin,
     LifecycleBegin, UpdateBegin, PurgeBegin, NothingWritten, RowEffect
<1>2. CASE ChangeWrite(c) \/ ResetWrite(c)
  BY <1>2, PersistPasswordEffect DEF ChangeWrite, ResetWrite, At
<1>3. CASE LifecycleWrite(c)
  <2> DEFINE u == SetStatus(call[c].snap, call[c].status, nextEtag)
  <2>1. /\ call[c].snap \in User /\ call[c].snap # NoRow
        /\ call[c].status \in Statuses /\ nextEtag \in Etags
    BY <1>3 DEF LifecycleWrite, At, Inv, TypeOK, CallState, CallsOK, CallOK
  <2>2. u \in User /\ (u = call[c].snap \/ u.etag = nextEtag)
    BY <2>1, Mutators
  <2>3. CASE RowUnchanged
    BY <2>3 DEF RowEffect
  <2>4. CASE WriteRow(c, u, 0)
    <3> HIDE DEF u
    <3> QED BY <2>1, <2>2, <2>4, WriteRowEffect
  <2> QED BY <1>3, <2>3, <2>4 DEF LifecycleWrite
<1>4. CASE UpdateWrite(c)
  <2> DEFINE u == ApplyPatch(call[c].snap, call[c].profile, nextEtag)
  <2>1. /\ call[c].snap \in User /\ call[c].snap # NoRow
        /\ call[c].profile \in Profiles /\ nextEtag \in Etags
    BY <1>4 DEF UpdateWrite, At, Inv, TypeOK, CallState, CallsOK, CallOK
  <2>2. u \in User /\ (u = call[c].snap \/ u.etag = nextEtag)
    BY <2>1, Mutators
  <2>3. CASE RowUnchanged
    BY <2>3 DEF RowEffect
  <2>4. CASE WriteRow(c, u, call[c].etag)
    <3> HIDE DEF u
    <3> QED BY <2>1, <2>2, <2>4, WriteRowEffect
  <2> QED BY <1>4, <2>3, <2>4 DEF UpdateWrite
<1>5. CASE PurgeDelete(c)
  BY <1>5 DEF PurgeDelete, RowEffect, RowUnchanged
<1>6. CASE \/ LoginCreate(c) \/ ChangeCreate(c) \/ ResetCreate(c)
           \/ ChangeRevoke(c) \/ ResetRevoke(c)
  BY <1>6 DEF LoginCreate, ChangeCreate, ResetCreate, ChangeRevoke, ResetRevoke,
     MintSession, RevokeSessions, RowEffect
<1>7. CASE \/ ResetGetBatch(c) \/ ResetConsume(c) \/ GenerateRevoke(c)
           \/ GenerateCreate(c) \/ Discriminate(c) \/ CallFails(c)
  BY <1>7 DEF ResetGetBatch, ResetConsume, GenerateRevoke, GenerateCreate,
     Discriminate, CallFails, NothingWritten, RowEffect
<1> QED BY <1>1, <1>2, <1>3, <1>4, <1>5, <1>6, <1>7 DEF Step

-----------------------------------------------------------------------------
(* What the steps do to the calls.                                          *)

LEMMA ReturnEffect ==
  ASSUME NEW c \in Calls, NEW code \in Codes, Return(c, code)
  PROVE  CallEffect
  BY IdleState DEF Return, CallEffect

LEMMA GotoEffect ==
  ASSUME NEW c \in Calls, NEW st \in CallState, Goto(c, st), CallOK(st),
         st.snap \in {NoRow, call[c].snap, row}
  PROVE  CallEffect
  BY DEF Goto, CallEffect, Codes

LEMMA NoRowAffectedEffect ==
  ASSUME NEW c \in Calls, NEW expected, NoRowAffected(c, expected)
  PROVE  CallEffect
<1>1. CASE Return(c, "USER_NOT_FOUND")
  BY <1>1, ReturnEffect DEF Codes
<1>2. CASE Goto(c, [Idle EXCEPT !.pc = "discriminate"])
  <2> DEFINE st == [Idle EXCEPT !.pc = "discriminate"]
  <2>1. st \in CallState /\ st.snap = NoRow /\ st.pc = "discriminate"
    BY IdleState DEF CallState, PCs
  <2>2. CallOK(st)
    BY <2>1 DEF CallOK
  <2> HIDE DEF st
  <2> QED BY <1>2, <2>1, <2>2, GotoEffect DEF st
<1> QED BY <1>1, <1>2 DEF NoRowAffected

LEMMA WriteRowCallEffect ==
  ASSUME NEW c \in Calls, NEW u, NEW expected, WriteRow(c, u, expected)
  PROVE  CallEffect
<1>1. \/ NoRowAffected(c, expected)
      \/ \E code \in {"OK", "INTERNAL"} : Return(c, code)
  BY DEF WriteRow
<1> QED BY <1>1, NoRowAffectedEffect, ReturnEffect DEF Codes

LEMMA StartCallEffects ==
  ASSUME Inv, NEW c \in Calls, Start(c)
  PROVE  CallEffect
<1>1. row # NoRow => row \in User
  BY DEF Inv, TypeOK
<1>2. ASSUME NEW code \in Codes, Return(c, code) PROVE CallEffect
  BY <1>2, ReturnEffect
<1>3. row # NoRow => StatusCode(row) \in Codes
  BY DEF StatusCode, Codes
<1>4. /\ Reading("login.create").pc = "login.create"
      /\ row # NoRow => Reading("login.create") \in CallState
      /\ Reading("generate.revoke").pc = "generate.revoke"
      /\ row # NoRow => Reading("generate.revoke") \in CallState
      /\ \A pc \in PCs : Reading(pc).snap = row
  BY <1>1, IdleState DEF Reading, CallState, PCs
<1>5. CASE \E p \in Passwords : LoginBegin(c, p)
  <2>1. PICK p \in Passwords : LoginBegin(c, p)
    BY <1>5
  <2>2. CASE row # NoRow /\ Goto(c, Reading("login.create"))
    <3>1. CallOK(Reading("login.create"))
      BY <1>4 DEF CallOK
    <3> QED BY <1>4, <2>2, <3>1, GotoEffect DEF PCs
  <2>3. CASE Return(c, "USER_BLOCKED") \/ Return(c, "INVALID_CREDENTIALS")
    BY <1>2, <2>3 DEF Codes
  <2> QED BY <2>1, <2>2, <2>3 DEF LoginBegin
<1>6. CASE \E old, new \in Passwords : ChangeBegin(c, old, new)
  <2>1. PICK old \in Passwords, new \in Passwords : ChangeBegin(c, old, new)
    BY <1>6
  <2> DEFINE st == [Reading("change.write") EXCEPT !.pw = new]
  <2>2. \/ Return(c, "INVALID_TOKEN")
        \/ row # NoRow /\ Return(c, StatusCode(row))
        \/ Return(c, "PASSWORD_MISMATCH")
        \/ row # NoRow /\ row.status = "ACTIVE" /\ Goto(c, st)
    BY <2>1 DEF ChangeBegin
  <2>3. CASE row # NoRow /\ row.status = "ACTIVE" /\ Goto(c, st)
    <3>1. /\ st \in CallState /\ st.snap = row /\ st.pc = "change.write"
          /\ st.pw = new
      BY <1>1, <2>3, IdleState DEF Reading, CallState, PCs
    <3>2. CallOK(st)
      BY <2>3, <3>1 DEF CallOK
    <3> HIDE DEF st
    <3> QED BY <2>3, <3>1, <3>2, GotoEffect
  <2> QED BY <1>2, <1>3, <2>2, <2>3 DEF Codes
<1>7. CASE \E p \in Passwords, code \in Code :
             code.batch \in shown /\ ResetBegin(c, code, p)
  <2>1. PICK p \in Passwords, code \in Code : ResetBegin(c, code, p)
    BY <1>7
  <2> DEFINE st == [Reading("reset.batch") EXCEPT !.code = code, !.pw = p]
  <2>2. \/ Return(c, "APP_UNAVAILABLE")
        \/ Return(c, "USER_NOT_FOUND")
        \/ row # NoRow /\ Return(c, StatusCode(row))
        \/ row # NoRow /\ row.status = "ACTIVE" /\ Goto(c, st)
    BY <2>1 DEF ResetBegin
  <2>3. CASE row # NoRow /\ row.status = "ACTIVE" /\ Goto(c, st)
    <3>1. /\ st \in CallState /\ st.snap = row /\ st.pc = "reset.batch"
          /\ st.pw = p /\ st.code = code
      BY <1>1, <2>3, IdleState DEF Reading, CallState, PCs
    <3>2. CallOK(st)
      BY <2>3, <3>1 DEF CallOK
    <3> HIDE DEF st
    <3> QED BY <2>3, <3>1, <3>2, GotoEffect
  <2> QED BY <1>2, <1>3, <2>2, <2>3 DEF Codes
<1>8. CASE GenerateBegin(c)
  <2>1. CallOK(Reading("generate.revoke"))
    BY <1>4 DEF CallOK
  <2>2. CASE row # NoRow /\ Goto(c, Reading("generate.revoke"))
    BY <1>4, <2>1, <2>2, GotoEffect DEF PCs
  <2> QED BY <1>2, <1>3, <1>8, <2>2 DEF GenerateBegin, Codes
<1>9. CASE \E status \in Statuses, allowMissing \in BOOLEAN :
             LifecycleBegin(c, status, allowMissing)
  <2>1. PICK status \in Statuses, allowMissing \in BOOLEAN :
               LifecycleBegin(c, status, allowMissing)
    BY <1>9
  <2> DEFINE st == [Reading("lifecycle.write") EXCEPT !.status = status]
  <2>2. \/ Return(c, "OK") \/ Return(c, "USER_NOT_FOUND")
        \/ Return(c, "USER_DELETED")
        \/ row # NoRow /\ Goto(c, st)
    BY <2>1 DEF LifecycleBegin
  <2>3. CASE row # NoRow /\ Goto(c, st)
    <3>1. st \in CallState /\ st.snap = row /\ st.pc = "lifecycle.write"
      BY <1>1, <2>3, IdleState DEF Reading, CallState, PCs
    <3>2. CallOK(st)
      BY <2>3, <3>1 DEF CallOK
    <3> HIDE DEF st
    <3> QED BY <2>3, <3>1, <3>2, GotoEffect
  <2> QED BY <1>2, <2>2, <2>3 DEF Codes
<1>10. CASE \E profile \in Profiles, e \in Etags \cup {0} :
              e < nextEtag /\ UpdateBegin(c, profile, e)
  <2>1. PICK profile \in Profiles, e \in Etags \cup {0} :
               UpdateBegin(c, profile, e)
    BY <1>10
  <2> DEFINE st == [Reading("update.write") EXCEPT !.profile = profile,
                                                   !.etag = e]
  <2>2. \/ Return(c, "USER_NOT_FOUND") \/ Return(c, "USER_DELETED")
        \/ row # NoRow /\ Goto(c, st)
    BY <2>1 DEF UpdateBegin
  <2>3. CASE row # NoRow /\ Goto(c, st)
    <3>1. /\ st \in CallState /\ st.snap = row /\ st.pc = "update.write"
          /\ st.profile = profile
      BY <1>1, <2>3, IdleState DEF Reading, CallState, PCs
    <3>2. CallOK(st)
      BY <2>3, <3>1 DEF CallOK
    <3> HIDE DEF st
    <3> QED BY <2>3, <3>1, <3>2, GotoEffect
  <2> QED BY <1>2, <2>2, <2>3 DEF Codes
<1>11. CASE \E e \in Etags : e < nextEtag /\ PurgeBegin(c, e)
  <2>1. PICK e \in Etags : PurgeBegin(c, e)
    BY <1>11
  <2> DEFINE st == [Reading("purge.delete") EXCEPT !.etag = e]
  <2>2. \/ Return(c, "USER_NOT_FOUND") \/ Return(c, "USER_NOT_DELETED")
        \/ Return(c, "ETAG_MISMATCH")
        \/ row # NoRow /\ row.status = "DELETED" /\ row.etag = e /\ Goto(c, st)
    BY <2>1 DEF PurgeBegin
  <2>3. CASE row # NoRow /\ row.status = "DELETED" /\ row.etag = e /\ Goto(c, st)
    <3>1. /\ st \in CallState /\ st.snap = row /\ st.pc = "purge.delete"
          /\ st.etag = e
      BY <1>1, <2>3, IdleState DEF Reading, CallState, PCs
    <3>2. CallOK(st)
      BY <2>3, <3>1 DEF CallOK
    <3> HIDE DEF st
    <3> QED BY <2>3, <3>1, <3>2, GotoEffect
  <2> QED BY <1>2, <2>2, <2>3 DEF Codes
<1> QED BY <1>5, <1>6, <1>7, <1>8, <1>9, <1>10, <1>11
    DEF Start, AuthService, IdentityService

LEMMA StepCallEffects ==
  ASSUME Inv, NEW c \in Calls, Step(c)
  PROVE  CallEffect
<1>1. call[c] \in CallState /\ CallOK(call[c])
  BY DEF Inv, TypeOK, CallsOK
<1>2. ASSUME NEW code \in {"OK", "INTERNAL", "RECOVERY_CODE_INVALID",
                           "USER_ALREADY_EXISTS", "USER_NOT_FOUND",
                           "ETAG_MISMATCH"},
             Return(c, code)
      PROVE  CallEffect
  BY <1>2, ReturnEffect DEF Codes
<1>3. ASSUME NEW pc \in {"change.revoke", "change.create", "reset.revoke",
                         "reset.create", "generate.create"},
             Goto(c, [call[c] EXCEPT !.pc = pc])
      PROVE  CallEffect
  <2> DEFINE st == [call[c] EXCEPT !.pc = pc]
  <2>1. st \in CallState /\ st.snap = call[c].snap /\ st.pc = pc
    BY <1>1 DEF CallState, PCs
  <2>2. CallOK(st)
    BY <2>1 DEF CallOK
  <2> HIDE DEF st
  <2> QED BY <1>3, <2>1, <2>2, GotoEffect DEF st
<1>4. CASE LoginCreate(c) \/ ChangeCreate(c) \/ ResetCreate(c)
  BY <1>2, <1>4 DEF LoginCreate, ChangeCreate, ResetCreate, MintSession
<1>5. CASE ChangeRevoke(c) \/ ResetRevoke(c)
  BY <1>2, <1>3, <1>5 DEF ChangeRevoke, ResetRevoke, RevokeSessions
<1>6. CASE ChangeWrite(c) \/ ResetWrite(c)
  BY <1>2, <1>3, <1>6, NoRowAffectedEffect
     DEF ChangeWrite, ResetWrite, PersistPassword
<1>7. CASE ResetGetBatch(c)
  <2>1. CASE Return(c, "RECOVERY_CODE_INVALID")
    BY <1>2, <2>1
  <2>2. ASSUME NEW b \in Active(batches),
               Goto(c, [call[c] EXCEPT !.pc = "reset.consume", !.batch = b])
        PROVE  CallEffect
    <3> DEFINE st == [call[c] EXCEPT !.pc = "reset.consume", !.batch = b]
    <3>1. b \in BatchIDs
      BY DEF Active
    <3>2. /\ st \in CallState /\ st.snap = call[c].snap
          /\ st.pc = "reset.consume" /\ st.batch = b
          /\ st.pw = call[c].pw /\ st.code = call[c].code
      BY <1>1, <3>1 DEF CallState, PCs
    <3>3. CallOK(st)
      BY <1>1, <1>7, <3>1, <3>2 DEF CallOK, ResetGetBatch, At
    <3> HIDE DEF st
    <3> QED BY <2>2, <3>2, <3>3, GotoEffect DEF st
  <2> QED BY <1>7, <2>1, <2>2 DEF ResetGetBatch
<1>8. CASE ResetConsume(c)
  <2> DEFINE st == [call[c] EXCEPT !.pc = "reset.write"]
  <2>1. /\ st \in CallState /\ st.snap = call[c].snap
        /\ st.pc = "reset.write" /\ st.pw = call[c].pw
    BY <1>1 DEF CallState, PCs
  <2>2. CallOK(st)
    BY <1>1, <1>8, <2>1 DEF CallOK, ResetConsume, At
  <2>3. Goto(c, st) \/ Return(c, "INTERNAL") \/ Return(c, "RECOVERY_CODE_INVALID")
    BY <1>8 DEF ResetConsume
  <2> HIDE DEF st
  <2> QED BY <1>2, <2>1, <2>2, <2>3, GotoEffect
<1>9. CASE GenerateRevoke(c) \/ GenerateCreate(c)
  BY <1>2, <1>3, <1>9 DEF GenerateRevoke, GenerateCreate
<1>10. CASE LifecycleWrite(c) \/ UpdateWrite(c)
  BY <1>2, <1>10, WriteRowCallEffect DEF LifecycleWrite, UpdateWrite
<1>11. CASE PurgeDelete(c)
  BY <1>2, <1>11, NoRowAffectedEffect DEF PurgeDelete
<1>12. CASE Discriminate(c) \/ CallFails(c)
  BY <1>2, <1>12 DEF Discriminate, CallFails
<1> QED BY <1>4, <1>5, <1>6, <1>7, <1>8, <1>9, <1>10, <1>11, <1>12 DEF Step

LEMMA CallEffects == Inv /\ Next => CallEffect
  BY StartCallEffects, StepCallEffects DEF Next

-----------------------------------------------------------------------------
(* What the steps do to the batches and the sessions.                       *)

LEMMA NotCreating ==
  ASSUME TypeOK, NEW c \in Calls, NEW st, st.pc # "generate.create",
         call' = [call EXCEPT ![c] = st]
  PROVE  Creating' = Creating \ {c}
  BY DEF TypeOK, Creating, At

LEMMA ReturnNotCreating ==
  ASSUME TypeOK, NEW c \in Calls, NEW code, Return(c, code)
  PROVE  Creating' = Creating \ {c}
<1>1. Idle.pc # "generate.create"
  BY DEF Idle
<1> QED BY <1>1, NotCreating DEF Return

LEMMA NoRowAffectedNotCreating ==
  ASSUME TypeOK, NEW c \in Calls, NEW expected, NoRowAffected(c, expected)
  PROVE  Creating' \subseteq Creating
<1>1. [Idle EXCEPT !.pc = "discriminate"].pc # "generate.create"
  BY DEF Idle
<1> QED BY <1>1, ReturnNotCreating, NotCreating DEF NoRowAffected, Goto

LEMMA StartNotCreating ==
  ASSUME TypeOK, NEW c \in Calls, Start(c)
  PROVE  Creating' \subseteq Creating
<1>1. ASSUME NEW pc, pc # "generate.create",
             NEW st, st.pc = pc, Goto(c, st)
      PROVE  Creating' \subseteq Creating
  BY <1>1, NotCreating DEF Goto
<1>2. ASSUME NEW code, Return(c, code) PROVE Creating' \subseteq Creating
  BY <1>2, ReturnNotCreating
<1>3. \A pc : Reading(pc).pc = pc
  BY DEF Reading, Idle
<1>4. /\ \A new : [Reading("change.write") EXCEPT !.pw = new].pc = "change.write"
      /\ \A code, p : [Reading("reset.batch") EXCEPT !.code = code, !.pw = p].pc
                        = "reset.batch"
      /\ \A status : [Reading("lifecycle.write") EXCEPT !.status = status].pc
                        = "lifecycle.write"
      /\ \A profile, e : [Reading("update.write") EXCEPT !.profile = profile,
                                                         !.etag = e].pc
                        = "update.write"
      /\ \A e : [Reading("purge.delete") EXCEPT !.etag = e].pc = "purge.delete"
  BY DEF Reading, Idle
<1>5. CASE \E p \in Passwords : LoginBegin(c, p)
  BY <1>1, <1>2, <1>3, <1>5 DEF LoginBegin
<1>6. CASE \E old, new \in Passwords : ChangeBegin(c, old, new)
  BY <1>1, <1>2, <1>4, <1>6 DEF ChangeBegin
<1>7. CASE \E p \in Passwords, code \in Code :
             code.batch \in shown /\ ResetBegin(c, code, p)
  BY <1>1, <1>2, <1>4, <1>7 DEF ResetBegin
<1>8. CASE GenerateBegin(c)
  BY <1>1, <1>2, <1>3, <1>8 DEF GenerateBegin
<1>9. CASE \E status \in Statuses, allowMissing \in BOOLEAN :
             LifecycleBegin(c, status, allowMissing)
  BY <1>1, <1>2, <1>4, <1>9 DEF LifecycleBegin
<1>10. CASE \E profile \in Profiles, e \in Etags \cup {0} :
              e < nextEtag /\ UpdateBegin(c, profile, e)
  BY <1>1, <1>2, <1>4, <1>10 DEF UpdateBegin
<1>11. CASE \E e \in Etags : e < nextEtag /\ PurgeBegin(c, e)
  BY <1>1, <1>2, <1>4, <1>11 DEF PurgeBegin
<1> QED BY <1>5, <1>6, <1>7, <1>8, <1>9, <1>10, <1>11
    DEF Start, AuthService, IdentityService

LEMMA BatchEffects == Inv /\ Next => BatchEffect
<1> SUFFICES ASSUME Inv, NEW c \in Calls, Start(c) \/ Step(c)
             PROVE  BatchEffect
  BY DEF Next
<1>0. TypeOK /\ call[c] \in CallState /\ CallOK(call[c])
  BY DEF Inv, TypeOK, CallsOK
<1>1. ASSUME NEW code, Return(c, code) PROVE Creating' = Creating \ {c}
  BY <1>0, <1>1, ReturnNotCreating
<1>2. ASSUME NEW pc, pc # "generate.create",
             Goto(c, [call[c] EXCEPT !.pc = pc])
      PROVE  Creating' \subseteq Creating
  <2>1. [call[c] EXCEPT !.pc = pc].pc = pc
    BY <1>0 DEF CallState
  <2> QED BY <1>0, <1>2, <2>1, NotCreating DEF Goto
<1>3. CASE Start(c)
  <2>1. RecoveryUnchanged
    BY <1>3
        DEF Start, AuthService, IdentityService, LoginBegin, ChangeBegin, ResetBegin, GenerateBegin,
       LifecycleBegin, UpdateBegin, PurgeBegin, NothingWritten
  <2> QED BY <1>0, <1>3, <2>1, StartNotCreating DEF BatchEffect
<1>4. CASE \/ LoginCreate(c) \/ ChangeCreate(c) \/ ResetCreate(c)
           \/ ChangeRevoke(c) \/ ResetRevoke(c)
  BY <1>1, <1>2, <1>4 DEF LoginCreate, ChangeCreate, ResetCreate, ChangeRevoke,
     ResetRevoke, MintSession, RevokeSessions, BatchEffect
<1>5. CASE ChangeWrite(c) \/ ResetWrite(c)
  BY <1>0, <1>1, <1>2, <1>5, NoRowAffectedNotCreating
     DEF ChangeWrite, ResetWrite, PersistPassword, BatchEffect
<1>6. CASE ResetGetBatch(c)
  <2>1. \A b : [call[c] EXCEPT !.pc = "reset.consume", !.batch = b].pc
                 = "reset.consume"
    BY <1>0 DEF CallState
  <2>2. Creating' \subseteq Creating
    BY <1>0, <1>1, <1>6, <2>1, NotCreating DEF ResetGetBatch, Goto
  <2> QED BY <1>6, <2>2 DEF ResetGetBatch, NothingWritten, BatchEffect
<1>7. CASE ResetConsume(c)
  <2>1. Creating' \subseteq Creating
    BY <1>1, <1>2, <1>7 DEF ResetConsume
  <2>2. CASE ~ ConsumeMatches(batches, call[c].batch, call[c].code)
    BY <1>7, <2>1, <2>2 DEF ResetConsume, RecoveryUnchanged, BatchEffect
  <2>3. CASE ConsumeMatches(batches, call[c].batch, call[c].code)
    <3>1. /\ call[c].code \in Code
          /\ ConsumeMatches(batches, call[c].code.batch, call[c].code)
      BY <1>0, <1>7, <2>3 DEF ResetConsume, At, CallOK, ConsumeMatches
    <3> QED BY <1>7, <2>1, <2>3, <3>1 DEF ResetConsume, BatchEffect
  <2> QED BY <2>2, <2>3
<1>8. CASE GenerateRevoke(c)
  <2>1. CASE Return(c, "INTERNAL") /\ UNCHANGED beside
    BY <1>1, <1>8, <2>1 DEF GenerateRevoke, BatchEffect
  <2>2. CASE /\ Goto(c, [call[c] EXCEPT !.pc = "generate.create"])
             /\ beside' = Cardinality(Creating)
    <3>1. [call[c] EXCEPT !.pc = "generate.create"].pc = "generate.create"
      BY <1>0 DEF CallState
    <3>2. Creating' = Creating \cup {c}
      BY <1>0, <2>2, <3>1 DEF Goto, Creating, At, TypeOK
    <3> QED BY <1>8, <2>2, <3>2 DEF GenerateRevoke, BatchEffect
  <2> QED BY <1>8, <2>1, <2>2 DEF GenerateRevoke
<1>9. CASE GenerateCreate(c)
  <2>1. c \in Creating /\ Creating' = Creating \ {c}
    BY <1>1, <1>9 DEF GenerateCreate, Creating
  <2> QED BY <1>9, <2>1 DEF GenerateCreate, BatchEffect
<1>10. CASE LifecycleWrite(c) \/ UpdateWrite(c)
  BY <1>0, <1>1, <1>10, NoRowAffectedNotCreating
     DEF LifecycleWrite, UpdateWrite, WriteRow, BatchEffect
<1>11. CASE PurgeDelete(c)
  BY <1>0, <1>1, <1>11, NoRowAffectedNotCreating
     DEF PurgeDelete, RecoveryUnchanged, BatchEffect
<1>12. CASE Discriminate(c) \/ CallFails(c)
  BY <1>1, <1>12 DEF Discriminate, CallFails, NothingWritten, BatchEffect
<1> QED BY <1>3, <1>4, <1>5, <1>6, <1>7, <1>8, <1>9, <1>10, <1>11, <1>12 DEF Step

LEMMA SessionEffects ==
  ASSUME Inv, Next
  PROVE  live' \subseteq SessionIDs /\ nextSid' \in 1 .. MaxSessions + 1
<1> PICK c \in Calls : Start(c) \/ Step(c)
  BY DEF Next
<1>1. live \subseteq SessionIDs /\ nextSid \in 1 .. MaxSessions + 1
  BY DEF Inv, TypeOK
<1>2. CASE MintSession(c)
  BY <1>1, <1>2, CallsAssumption DEF MintSession, SessionIDs
<1>3. CASE live' = {} /\ UNCHANGED nextSid
  BY <1>1, <1>3
<1>4. CASE SessionsUnchanged
  BY <1>1, <1>4 DEF SessionsUnchanged
<1>5. CASE Start(c)
  BY <1>4, <1>5
      DEF Start, AuthService, IdentityService, LoginBegin, ChangeBegin, ResetBegin, GenerateBegin,
     LifecycleBegin, UpdateBegin, PurgeBegin, NothingWritten
<1>6. CASE Step(c)
  BY <1>2, <1>3, <1>4, <1>6 DEF Step, LoginCreate, ChangeWrite, ChangeRevoke,
     ChangeCreate, ResetGetBatch, ResetConsume, ResetWrite, ResetRevoke,
     ResetCreate, GenerateRevoke, GenerateCreate, LifecycleWrite, UpdateWrite,
     PurgeDelete, Discriminate, CallFails, PersistPassword, RevokeSessions,
     NothingWritten, SessionsUnchanged
<1> QED BY <1>5, <1>6

-----------------------------------------------------------------------------
(* The parts of the invariant.                                              *)

LEMMA TypeStep == Inv /\ Next => TypeOK'
<1> SUFFICES ASSUME Inv, Next PROVE TypeOK'
  OBVIOUS
<1>1. TypeOK
  BY DEF Inv
<1>2. /\ row' \in User \cup {NoRow}
      /\ nextEtag' \in 1 .. MaxEtags + 1
      /\ version' \in [Etags -> User \cup {NoRow}]
  <2>1. RowEffect
    BY RowEffects
  <2> QED BY <1>1, <2>1, StoreBounds DEF RowEffect, RowUnchanged, TypeOK, Etags
<1>3. call' \in [Calls -> CallState] /\ reply' \in Codes
  BY <1>1, CallEffects DEF CallEffect, TypeOK
<1>4. /\ batches' \in [BatchIDs -> Batch \cup {NoRow}]
      /\ nextBatch' \in 1 .. MaxBatches + 1
      /\ shown' \subseteq BatchIDs
      /\ burnt' \in [Code -> Nat]
  <2>0. BatchEffect
    BY BatchEffects
  <2>1. /\ batches \in [BatchIDs -> Batch \cup {NoRow}]
        /\ nextBatch \in 1 .. MaxBatches + 1
        /\ shown \subseteq BatchIDs
        /\ burnt \in [Code -> Nat]
    BY <1>1 DEF TypeOK
  <2>2. CASE UNCHANGED <<batches, nextBatch, shown, burnt>>
    BY <2>1, <2>2
  <2>3. CASE /\ batches' = RevokeActiveBatches(batches) \/ batches' = NoBatches
             /\ UNCHANGED <<nextBatch, shown, burnt>>
    BY <2>1, <2>3, BatchStatements
  <2>4. CASE /\ nextBatch \in BatchIDs
             /\ batches' = CreateBatch(batches, nextBatch)
             /\ nextBatch' = nextBatch + 1
             /\ shown' \subseteq shown \cup {nextBatch}
             /\ UNCHANGED burnt
    <3>1. batches' \in [BatchIDs -> Batch \cup {NoRow}]
      BY <2>1, <2>4, BatchStatements
    <3>2. nextBatch' \in 1 .. MaxBatches + 1
      BY <2>1, <2>4, StoreBounds DEF BatchIDs
    <3> QED BY <2>1, <2>4, <3>1, <3>2
  <2>5. ASSUME NEW code \in Code,
               ConsumeMatches(batches, code.batch, code),
               batches' = ConsumeCode(batches, code),
               burnt' = [burnt EXCEPT ![code] = @ + 1],
               UNCHANGED <<nextBatch, shown>>
        PROVE  <1>4!:
    BY <2>1, <2>5, BatchStatements
  <2> QED BY <2>0, <2>2, <2>3, <2>4, <2>5 DEF BatchEffect, RecoveryUnchanged
<1>5. beside' \in Nat
  <2>1. Cardinality(Creating) \in Nat
    BY CallsAssumption, FS_Subset, FS_CardinalityType DEF Creating
  <2> QED BY <1>1, <2>1, BatchEffects DEF BatchEffect, RecoveryUnchanged, TypeOK
<1> QED BY <1>2, <1>3, <1>4, <1>5, SessionEffects DEF TypeOK

(* A new etag is on no row yet, so recording it changes no version in use.  *)
LEMMA VersionStep == Inv /\ Next => (EtagNamesOneVersion /\ EtagsMinted)'
<1> SUFFICES ASSUME Inv, Next PROVE (EtagNamesOneVersion /\ EtagsMinted)'
  OBVIOUS
<1> DEFINE Named(u) == u # NoRow => u = version[u.etag] /\ u.etag < nextEtag
<1>1. /\ row \in User \cup {NoRow} /\ Named(row)
      /\ call \in [Calls -> CallState]
      /\ \A c \in Calls : call[c].snap \in User \cup {NoRow} /\ Named(call[c].snap)
      /\ version \in [Etags -> User \cup {NoRow}]
      /\ nextEtag \in Nat
  BY DEF Inv, TypeOK, CallState, EtagNamesOneVersion, EtagsMinted
<1>2. ASSUME NEW u \in User \cup {NoRow}, Named(u)
      PROVE  u # NoRow => u = version'[u.etag] /\ u.etag < nextEtag'
  <2> SUFFICES ASSUME u # NoRow PROVE u = version'[u.etag] /\ u.etag < nextEtag'
    OBVIOUS
  <2>1. u.etag \in Etags /\ u.etag \in Nat
    BY DEF User, Etags
  <2>2. CASE UNCHANGED <<nextEtag, version>>
    BY <1>2, <2>2
  <2>3. CASE /\ nextEtag' = nextEtag + 1
             /\ version' = [version EXCEPT ![nextEtag] = row']
    BY <1>1, <1>2, <2>1, <2>3
  <2> QED BY <2>2, <2>3, RowEffects DEF RowEffect, RowUnchanged
<1>3. row' # NoRow => row' = version'[row'.etag] /\ row'.etag < nextEtag'
  <2>1. CASE RowUnchanged
    BY <1>1, <1>2, <2>1 DEF RowUnchanged
  <2>2. CASE row' = NoRow
    BY <2>2
  <2>3. CASE /\ row' \in User /\ row'.etag = nextEtag /\ nextEtag \in Etags
             /\ nextEtag' = nextEtag + 1
             /\ version' = [version EXCEPT ![nextEtag] = row']
    BY <1>1, <2>3
  <2>4. CASE /\ row'.etag < nextEtag /\ row' = version[row'.etag]
             /\ UNCHANGED <<nextEtag, version>>
    BY <2>4
  <2> QED BY <2>1, <2>2, <2>3, <2>4, RowEffects DEF RowEffect
<1>4. ASSUME NEW d \in Calls
      PROVE  call'[d].snap # NoRow =>
               /\ call'[d].snap = version'[call'[d].snap.etag]
               /\ call'[d].snap.etag < nextEtag'
  <2>1. PICK c \in Calls, st \in CallState :
               /\ call' = [call EXCEPT ![c] = st]
               /\ st.snap \in {NoRow, call[c].snap, row}
    BY CallEffects DEF CallEffect
  <2>2. call'[d].snap \in {NoRow, call[d].snap, row}
    BY <1>1, <2>1
  <2> HIDE DEF Named
  <2>3. call'[d].snap \in User \cup {NoRow} /\ (call'[d].snap # NoRow => Named(call'[d].snap))
    BY <1>1, <2>2
  <2> QED BY <1>2, <2>3
<1> QED BY <1>3, <1>4 DEF EtagNamesOneVersion, EtagsMinted

LEMMA CallsStep == Inv /\ Next => CallsOK'
<1> SUFFICES ASSUME Inv, Next PROVE CallsOK'
  OBVIOUS
<1>1. PICK c \in Calls, st \in CallState :
             call' = [call EXCEPT ![c] = st] /\ CallOK(st)
  BY CallEffects DEF CallEffect
<1>2. \A d \in Calls : call'[d] = call[d] \/ call'[d] = st
  BY <1>1 DEF Inv, TypeOK
<1>3. \A d \in Calls : CallOK(call[d])
  BY DEF Inv, CallsOK
<1> QED BY <1>1, <1>2, <1>3 DEF CallsOK, CallOK

(* A marked code does not match again; a new batch has no codes accepted.   *)
LEMMA CodesStep == Inv /\ Next => (CodesOK /\ RecoveryCodeUsedOnce)'
<1> SUFFICES ASSUME Inv, Next PROVE (CodesOK /\ RecoveryCodeUsedOnce)'
  OBVIOUS
<1>0. BatchEffect
  BY BatchEffects
<1>1. /\ batches \in [BatchIDs -> Batch \cup {NoRow}]
      /\ nextBatch \in Nat
      /\ burnt \in [Code -> Nat]
      /\ CodesOK
      /\ RecoveryCodeUsedOnce
  BY DEF Inv, TypeOK
<1>2. \A code \in Code : code.batch \in BatchIDs /\ code.batch \in Nat
  BY DEF Code, BatchIDs
<1>3. CASE UNCHANGED <<batches, nextBatch, burnt>>
  BY <1>1, <1>3 DEF CodesOK, RecoveryCodeUsedOnce
<1>4. CASE /\ batches' = RevokeActiveBatches(batches)
           /\ UNCHANGED <<nextBatch, burnt>>
  <2>1. \A b \in BatchIDs :
          /\ batches[b] = NoRow => batches'[b] = NoRow
          /\ batches[b] # NoRow => batches'[b].used = batches[b].used
    BY <1>1, <1>4 DEF RevokeActiveBatches, Active, Batch
  <2> QED BY <1>1, <1>2, <1>4, <2>1 DEF CodesOK, RecoveryCodeUsedOnce
<1>5. CASE /\ nextBatch \in BatchIDs
           /\ batches' = CreateBatch(batches, nextBatch)
           /\ nextBatch' = nextBatch + 1
           /\ UNCHANGED burnt
  <2>1. \A b \in BatchIDs : b # nextBatch => batches'[b] = batches[b]
    BY <1>1, <1>5 DEF CreateBatch
  <2>2. \A b \in BatchIDs : b \in Nat
    BY DEF BatchIDs
  <2> QED BY <1>1, <1>2, <1>5, <2>1, <2>2 DEF CodesOK, RecoveryCodeUsedOnce
<1>6. ASSUME NEW code \in Code,
             ConsumeMatches(batches, code.batch, code),
             batches' = ConsumeCode(batches, code),
             burnt' = [burnt EXCEPT ![code] = @ + 1],
             UNCHANGED nextBatch
      PROVE  (CodesOK /\ RecoveryCodeUsedOnce)'
  <2>1. /\ batches[code.batch] \in Batch /\ batches[code.batch] # NoRow
        /\ code.index \notin batches[code.batch].used
    BY <1>1, <1>2, <1>6 DEF ConsumeMatches
  <2>2. burnt[code] = 0
    BY <1>1, <2>1 DEF CodesOK
  <2>3. code.batch < nextBatch
    BY <1>1, <1>2, <2>1 DEF CodesOK
  <2>4. /\ \A b \in BatchIDs : b # code.batch => batches'[b] = batches[b]
        /\ batches'[code.batch].used = batches[code.batch].used \cup {code.index}
    BY <1>1, <1>2, <1>6, <2>1 DEF ConsumeCode, Batch
  <2>5. RecoveryCodeUsedOnce'
    BY <1>1, <1>6, <2>2 DEF RecoveryCodeUsedOnce
  <2>6. ASSUME NEW b \in BatchIDs, b >= nextBatch' PROVE batches'[b] = NoRow
    BY <1>1, <1>2, <1>6, <2>3, <2>4, <2>6 DEF CodesOK
  <2>7. ASSUME NEW d \in Code, burnt'[d] > 0
        PROVE  /\ d.batch < nextBatch'
               /\ batches'[d.batch] = NoRow \/ d.index \in batches'[d.batch].used
    <3>1. CASE d = code
      BY <1>6, <2>3, <2>4, <3>1
    <3>2. CASE d # code
      <4>1. burnt[d] > 0
        BY <1>1, <1>6, <2>7, <3>2
      <4>2. /\ d.batch < nextBatch
            /\ batches[d.batch] = NoRow \/ d.index \in batches[d.batch].used
        BY <1>1, <4>1 DEF CodesOK
      <4> QED BY <1>2, <1>6, <2>1, <2>4, <4>2
    <3> QED BY <3>1, <3>2
  <2> QED BY <2>5, <2>6, <2>7 DEF CodesOK
<1>7. CASE batches' = NoBatches /\ UNCHANGED <<nextBatch, burnt>>
  BY <1>1, <1>2, <1>7 DEF CodesOK, RecoveryCodeUsedOnce, NoBatches
<1> QED BY <1>0, <1>3, <1>4, <1>5, <1>6, <1>7 DEF BatchEffect, RecoveryUnchanged

(* Revoking leaves no active batch, creating adds one and ends a Generate.  *)
LEMMA ActiveAfter ==
  ASSUME NEW bs \in [BatchIDs -> Batch \cup {NoRow}]
  PROVE  /\ Active(RevokeActiveBatches(bs)) = {}
         /\ Active(NoBatches) = {}
         /\ \A b \in BatchIDs : Active(CreateBatch(bs, b)) = Active(bs) \cup {b}
         /\ \A code \in Code : ConsumeMatches(bs, code.batch, code) =>
              Active(ConsumeCode(bs, code)) = Active(bs)
<1>1. Active(RevokeActiveBatches(bs)) = {}
  <2>1. \A b \in BatchIDs : RevokeActiveBatches(bs)[b] =
          IF b \in Active(bs) THEN [bs[b] EXCEPT !.revoked = TRUE] ELSE bs[b]
    BY DEF RevokeActiveBatches
  <2>2. \A b \in Active(bs) : [bs[b] EXCEPT !.revoked = TRUE].revoked = TRUE
    BY DEF Active, Batch
  <2> QED BY <2>1, <2>2 DEF Active
<1>2. Active(NoBatches) = {}
  BY DEF Active, NoBatches
<1>3. \A b \in BatchIDs : Active(CreateBatch(bs, b)) = Active(bs) \cup {b}
  <2> TAKE b \in BatchIDs
  <2>1. [revoked |-> FALSE, used |-> {}] \in Batch
    BY DEF Batch
  <2>2. [revoked |-> FALSE, used |-> {}] # NoRow
    BY <2>1, NoRowIsNoValue
  <2> QED BY <2>2 DEF Active, CreateBatch
<1>4. ASSUME NEW code \in Code, ConsumeMatches(bs, code.batch, code)
      PROVE  Active(ConsumeCode(bs, code)) = Active(bs)
  <2>1. code.batch \in BatchIDs /\ bs[code.batch] \in Batch
    BY <1>4 DEF Code, ConsumeMatches
  <2>2. ConsumeCode(bs, code)[code.batch] \in Batch
    BY <2>1, <1>4, BatchStatements DEF ConsumeCode, Batch, Code
  <2>3. ConsumeCode(bs, code)[code.batch].revoked = bs[code.batch].revoked
    BY <2>1 DEF ConsumeCode, Batch
  <2>4. \A b \in BatchIDs : b # code.batch => ConsumeCode(bs, code)[b] = bs[b]
    BY DEF ConsumeCode
  <2> QED BY <2>1, <2>2, <2>3, <2>4, NoRowIsNoValue DEF Active
<1> QED BY <1>1, <1>2, <1>3, <1>4

LEMMA CountStep == Inv /\ Next => BatchesCounted'
<1> SUFFICES ASSUME Inv, Next PROVE BatchesCounted'
  OBVIOUS
<1>0. BatchEffect
  BY BatchEffects
<1>1. batches \in [BatchIDs -> Batch \cup {NoRow}] /\ BatchesCounted
  BY DEF Inv, TypeOK
<1>2. IsFiniteSet(Creating) /\ IsFiniteSet(Creating')
  BY CallsAssumption, FS_Subset DEF Creating
<1>3. /\ Cardinality(Creating) \in Nat /\ Cardinality(Creating') \in Nat
      /\ Creating' \subseteq Creating =>
           Cardinality(Creating') <= Cardinality(Creating)
  BY <1>2, FS_Subset, FS_CardinalityType
<1>4. IsFiniteSet(Active(batches)) /\ Cardinality(Active(batches)) \in Nat
  <2>1. IsFiniteSet(BatchIDs)
    BY StoreBounds, FS_Interval DEF BatchIDs
  <2> QED BY <2>1, FS_Subset, FS_CardinalityType DEF Active
<1>5. CASE /\ Active(batches') \in {Active(batches), {}}
           /\ Creating' \subseteq Creating /\ UNCHANGED beside
  <2>1. Cardinality(Active(batches')) \in {Cardinality(Active(batches)), 0}
    BY <1>5, FS_EmptySet
  <2> QED BY <1>1, <1>3, <1>4, <1>5, <2>1 DEF BatchesCounted, Active
<1>6. ASSUME NEW c \in Calls, Active(batches') = {}, beside' = Cardinality(Creating),
             Creating' = Creating \cup {c}
      PROVE  BatchesCounted'
  <2>1. Cardinality(Active(batches')) = 0
    BY <1>6, FS_EmptySet
  <2>2. Cardinality({c}) = 1
    BY FS_Singleton
  <2>3. Cardinality(Creating) = 0 => Creating = {}
    BY <1>2, FS_EmptySet
  <2>4. Creating = {} => Cardinality(Creating') = 1
    BY <1>6, <2>2
  <2> QED BY <1>6, <2>1, <2>3, <2>4 DEF BatchesCounted, Active
<1>7. ASSUME NEW c \in Creating, nextBatch \in BatchIDs,
             batches' = CreateBatch(batches, nextBatch),
             Creating' = Creating \ {c}, UNCHANGED beside
      PROVE  BatchesCounted'
  <2>1. Active(batches') = Active(batches) \cup {nextBatch}
    BY <1>1, <1>7, ActiveAfter
  <2>2. Cardinality(Active(batches')) <= Cardinality(Active(batches)) + 1
        /\ Cardinality(Active(batches')) \in Nat
    BY <1>4, <2>1, FS_AddElement
  <2>3. Cardinality(Creating') = Cardinality(Creating) - 1
    BY <1>2, <1>7, FS_RemoveElement
  <2> QED BY <1>1, <1>3, <1>4, <1>7, <2>2, <2>3 DEF BatchesCounted, Active
<1>8. CASE RecoveryUnchanged /\ Creating' \subseteq Creating
  BY <1>5, <1>8 DEF RecoveryUnchanged
<1>9. CASE /\ batches' = RevokeActiveBatches(batches) \/ batches' = NoBatches
           /\ \/ UNCHANGED beside /\ Creating' \subseteq Creating
              \/ /\ beside' = Cardinality(Creating)
                 /\ \E c \in Calls : Creating' = Creating \cup {c}
  BY <1>1, <1>5, <1>6, <1>9, ActiveAfter
<1>10. ASSUME NEW code \in Code, ConsumeMatches(batches, code.batch, code),
              batches' = ConsumeCode(batches, code), Creating' \subseteq Creating,
              UNCHANGED beside
       PROVE  BatchesCounted'
  BY <1>1, <1>5, <1>10, ActiveAfter
<1> QED BY <1>0, <1>7, <1>8, <1>9, <1>10 DEF BatchEffect

-----------------------------------------------------------------------------
(* Theorems.                                                                *)

(* Register and CreateUser store a row with the first etag.                 *)
LEMMA NewUserIsRow == Init => row \in User /\ row.etag = 1
<1> SUFFICES ASSUME Init PROVE row \in User /\ row.etag = 1
  OBVIOUS
<1>1. PICK hash \in Hashes \cup {NoRow}, profile \in Profiles :
             row = NewUser(hash, profile, 1)
  BY DEF Init, Registered, Created
<1>2. 1 \in Etags
  BY StoreBounds DEF Etags
<1> QED BY <1>1, <1>2 DEF NewUser, User, Statuses

LEMMA InitInv == Init => Inv
<1> SUFFICES ASSUME Init PROVE Inv
  OBVIOUS
<1>2. 1 \in Etags
  BY StoreBounds DEF Etags
<1>3. row \in User /\ row.etag = 1
  BY NewUserIsRow
<1>4. version \in [Etags -> User \cup {NoRow}] /\ version[1] = row
  BY <1>2, <1>3 DEF Init
<1>5. \A c \in Calls : call[c] = Idle
  BY DEF Init
<1>6. TypeOK
  <2>1. call \in [Calls -> CallState]
    BY IdleState DEF Init
  <2>2. batches \in [BatchIDs -> Batch \cup {NoRow}]
    BY DEF Init, NoBatches
  <2>3. burnt \in [Code -> Nat]
    BY DEF Init
  <2> QED BY <1>3, <1>4, <2>1, <2>2, <2>3, StoreBounds, CallsAssumption
          DEF Init, TypeOK, Codes
<1>7. EtagNamesOneVersion /\ EtagsMinted
  BY <1>3, <1>4, <1>5, IdleState DEF Init, EtagNamesOneVersion, EtagsMinted
<1>8. CallsOK
  BY <1>5, IdleState DEF CallsOK
<1>9. CodesOK /\ RecoveryCodeUsedOnce
  BY DEF Init, CodesOK, RecoveryCodeUsedOnce, NoBatches
<1>10. BatchesCounted
  <2>1. Active(batches) = {} /\ Creating = {}
    BY <1>5 DEF Init, Active, NoBatches, Creating, At, Idle
  <2> QED BY <2>1, FS_EmptySet DEF BatchesCounted
<1> QED BY <1>6, <1>7, <1>8, <1>9, <1>10 DEF Inv

LEMMA StutterInv == Inv /\ UNCHANGED vars => Inv'
<1> SUFFICES ASSUME Inv, UNCHANGED vars PROVE Inv'
  OBVIOUS
<1> USE DEF vars
<1>1. TypeOK'
  BY DEF Inv, TypeOK
<1>2. (EtagNamesOneVersion /\ EtagsMinted)'
  BY DEF Inv, EtagNamesOneVersion, EtagsMinted
<1>3. CallsOK'
  BY DEF Inv, CallsOK, CallOK
<1>4. (CodesOK /\ RecoveryCodeUsedOnce)'
  BY DEF Inv, CodesOK, RecoveryCodeUsedOnce
<1>5. BatchesCounted'
  BY DEF Inv, BatchesCounted, Active, Creating, At
<1> QED BY <1>1, <1>2, <1>3, <1>4, <1>5 DEF Inv

(* The inductive invariant holds whatever the account's use cases           *)
(* (ChangePassword, Reset, Generate, UpdateUser, lifecycle and delete) do   *)
(* to the row and the codes, in any interleaving.                           *)
THEOREM InvInvariant == Spec => []Inv
<1>1. Inv /\ [Next]_vars => Inv'
  BY TypeStep, VersionStep, CallsStep, CodesStep, CountStep, StutterInv DEF Inv
<1> QED BY <1>1, InitInv, PTL DEF Spec

(* The account's row, its recovery batches and every call's local state keep *)
(* their types: no use case writes a column from a field it never read.     *)
THEOREM TypeCorrect == Spec => []TypeOK
<1>1. Inv => TypeOK
  BY DEF Inv
<1> QED BY <1>1, InvInvariant, PTL

(* An etag names one version of the account, for any number of calls that   *)
(* write whole rows and passwords from rows they read earlier.              *)
THEOREM EtagsNameVersions == Spec => []EtagNamesOneVersion
<1>1. Inv => EtagNamesOneVersion
  BY DEF Inv
<1> QED BY <1>1, InvInvariant, PTL

(* ConsumeCode accepts no recovery code twice, however many resets race.    *)
THEOREM CodesUsedOnce == Spec => []RecoveryCodeUsedOnce
<1>1. Inv => RecoveryCodeUsedOnce
  BY DEF Inv
<1> QED BY <1>1, InvInvariant, PTL

(* Two active batches take a Generate that revoked between the revocation   *)
(* and the creation of another: for any number of them in flight, failing   *)
(* or losing their replies, one that revokes alone leaves one batch.        *)
THEOREM OneBatchUnlessRaced == Spec => []OneActiveBatchUnlessRaced
<1>1. Inv => OneActiveBatchUnlessRaced
  <2> SUFFICES ASSUME Inv PROVE OneActiveBatchUnlessRaced
    OBVIOUS
  <2>1. Cardinality(Creating) \in Nat
    BY CallsAssumption, FS_Subset, FS_CardinalityType DEF Creating
  <2>2. Cardinality(Active(batches)) \in Nat
    <3>1. IsFiniteSet(BatchIDs)
      BY StoreBounds, FS_Interval DEF BatchIDs
    <3> QED BY <3>1, FS_Subset, FS_CardinalityType DEF Active
  <2> QED BY <2>1, <2>2 DEF Inv, BatchesCounted, OneActiveBatchUnlessRaced,
             AtMostOneActiveBatch
<1> QED BY <1>1, InvInvariant, PTL

(* UpdatePassword, pinned to the etag of the row its call checked, never    *)
(* stores a password over another version of the account.                   *)
THEOREM PasswordWritesAreCurrent == Spec => PasswordWriteIsCurrent
<1> DEFINE A == \A c \in Calls :
       /\ call[c].pc \in {"change.write", "reset.write"}
       /\ call'[c] # call[c]
       /\ row' # row
       => row = call[c].snap /\ row.status = "ACTIVE"
<1>1. Inv /\ [Next]_vars => [A]_vars
  <2> SUFFICES ASSUME Inv, Next, NEW c \in Calls,
                      call[c].pc \in {"change.write", "reset.write"},
                      call'[c] # call[c], row' # row
               PROVE  row = call[c].snap /\ row.status = "ACTIVE"
    BY DEF A
  <2>1. ChangeWrite(c) \/ ResetWrite(c) \/ CallFails(c)
    <3>1. PICK d \in Calls : Start(d) \/ Step(d)
      BY DEF Next
    <3>2. PICK st : call' = [call EXCEPT ![d] = st]
      BY <3>1
          DEF Start, AuthService, IdentityService, Step, LoginBegin, ChangeBegin, ResetBegin,
         GenerateBegin, LifecycleBegin, UpdateBegin, PurgeBegin, LoginCreate,
         ChangeWrite, ChangeRevoke, ChangeCreate, ResetGetBatch, ResetConsume,
         ResetWrite, ResetRevoke, ResetCreate, GenerateRevoke, GenerateCreate,
         LifecycleWrite, UpdateWrite, PurgeDelete, Discriminate, CallFails,
         PersistPassword, RevokeSessions, MintSession, WriteRow,
         NoRowAffected, Goto, Return
    <3>3. d = c
      BY <3>2 DEF Inv, TypeOK
    <3> QED BY <3>1, <3>3
        DEF Start, AuthService, IdentityService, Step, LoginBegin, ChangeBegin, ResetBegin,
         GenerateBegin, LifecycleBegin, UpdateBegin, PurgeBegin, LoginCreate,
         ChangeRevoke, ChangeCreate, ResetGetBatch, ResetConsume,
         ResetRevoke, ResetCreate, GenerateRevoke, GenerateCreate,
         LifecycleWrite, UpdateWrite, PurgeDelete, Discriminate, At
  <2>2. call[c].snap.status = "ACTIVE"
    BY DEF Inv, CallsOK, CallOK
  <2>3. CASE ChangeWrite(c) \/ ResetWrite(c)
    <3>1. PICK next : PersistPassword(c, next)
      BY <2>3 DEF ChangeWrite, ResetWrite
    <3>2. PasswordMatches(row, call[c].snap.etag)
      BY <3>1 DEF PersistPassword, RowUnchanged
    <3> QED BY <2>2, <3>1, <3>2, PersistPasswordEffect
  <2>4. CASE CallFails(c)
    BY <2>4 DEF CallFails, NothingWritten, RowUnchanged
  <2> QED BY <2>1, <2>3, <2>4
<1> QED BY <1>1, InvInvariant, PTL DEF Spec, PasswordWriteIsCurrent

(* The only step that removes a row removes one that is DELETED.            *)
LEMMA PurgeStep ==
  ASSUME Inv, Next, row # NoRow, row' = NoRow
  PROVE  row.status = "DELETED"
<1>1. PICK c \in Calls : Start(c) \/ Step(c)
  BY DEF Next
<1>2. row \in User /\ call[c] \in CallState /\ CallOK(call[c])
  BY DEF Inv, TypeOK, CallsOK
<1>3. CASE PurgeDelete(c)
  <2>1. /\ call[c].snap # NoRow /\ call[c].snap \in User
        /\ call[c].snap.status = "DELETED" /\ call[c].etag = call[c].snap.etag
    BY <1>2, <1>3 DEF PurgeDelete, At, CallOK, CallState
  <2>2. call[c].etag # 0
    BY <2>1 DEF User, Etags
  <2>3. row.etag = call[c].snap.etag
    BY <1>3, <2>1, <2>2 DEF PurgeDelete, Matches
  <2> QED BY <2>1, <2>3 DEF Inv, EtagNamesOneVersion
<1>4. CASE ChangeWrite(c) \/ ResetWrite(c)
  <2> DEFINE u == SetPassword(call[c].snap, call[c].pw, nextEtag)
  <2>1. /\ call[c].snap \in User /\ call[c].pw \in Passwords
        /\ nextEtag \in Etags
    BY <1>2, <1>4 DEF ChangeWrite, ResetWrite, At, CallOK, CallState,
       PersistPassword
  <2>2. u \in User
    BY <2>1, Mutators
  <2> HIDE DEF u
  <2>3. UpdatePassword(row, u) \in User
    BY <1>2, <2>2 DEF UpdatePassword, User
  <2>4. row' = UpdatePassword(row, u) \/ row' = row
    BY <1>4 DEF ChangeWrite, ResetWrite, PersistPassword, RowUnchanged, u
  <2> QED BY <2>3, <2>4, NoRowIsNoValue
<1>5. CASE LifecycleWrite(c) \/ UpdateWrite(c)
  <2>1. /\ call[c].snap \in User /\ nextEtag \in Etags
        /\ call[c].status \in Statuses
        /\ UpdateWrite(c) => call[c].profile \in Profiles
    BY <1>2, <1>5 DEF LifecycleWrite, UpdateWrite, At, CallOK, CallState
  <2>2. /\ SetStatus(call[c].snap, call[c].status, nextEtag) # NoRow
        /\ UpdateWrite(c) =>
             ApplyPatch(call[c].snap, call[c].profile, nextEtag) # NoRow
    BY <2>1, Mutators, NoRowIsNoValue
  <2> QED BY <1>5, <2>2 DEF LifecycleWrite, UpdateWrite, WriteRow, RowUnchanged
<1>6. CASE RowUnchanged
  BY <1>6 DEF RowUnchanged
<1> QED BY <1>1, <1>3, <1>4, <1>5, <1>6
    DEF Start, AuthService, IdentityService, Step, LoginBegin,
   ChangeBegin, ResetBegin, GenerateBegin, LifecycleBegin, UpdateBegin,
   PurgeBegin, LoginCreate, ChangeRevoke, ChangeCreate, ResetGetBatch,
   ResetConsume, ResetRevoke, ResetCreate, GenerateRevoke, GenerateCreate,
   Discriminate, CallFails, MintSession, RevokeSessions, NothingWritten

(* PermanentlyDeleteUser removes only accounts that are DELETED when the    *)
(* DELETE runs: the etag in its WHERE clause carries the status it checked. *)
THEOREM PurgesOnlyDeleted == Spec => PurgeOnlyDeleted
<1>1. Inv /\ [Next]_vars
        => [row # NoRow /\ row' = NoRow => row.status = "DELETED"]_vars
  BY PurgeStep
<1> QED BY <1>1, InvInvariant, PTL DEF Spec, PurgeOnlyDeleted

-----------------------------------------------------------------------------
(* The refinement.                                                          *)

(* The effects on the row are the steps of VersionedRow.                    *)
LEMMA RowEffectRefines ==
  ASSUME Inv, RowEffect
  PROVE  [Versions!Next]_(Versions!vars)
<1>1. /\ nextEtag \in Nat /\ nextEtag >= 1
      /\ row # NoRow => row.etag \in 1 .. nextEtag - 1
  BY StoreBounds DEF Inv, TypeOK, EtagsMinted, User, Etags
<1>2. ASSUME row' \in User PROVE row' # NoRow /\ row'.etag \in Nat /\ row'.etag >= 1
  BY <1>2, NoRowIsNoValue, StoreBounds DEF User, Etags
<1>3. CASE RowUnchanged
  BY <1>3 DEF RowUnchanged, Versions!vars
<1>4. CASE row' = NoRow /\ UNCHANGED <<nextEtag, version>>
  BY <1>1, <1>4 DEF Versions!vars, Versions!Next, Versions!Delete
<1>5. CASE /\ row # NoRow /\ row' \in User
           /\ row'.etag = nextEtag /\ nextEtag' = nextEtag + 1
  BY <1>1, <1>2, <1>5 DEF Versions!Next, Versions!Stamp
<1>6. CASE /\ row # NoRow /\ row' \in User
           /\ row'.etag < nextEtag /\ UNCHANGED nextEtag
  BY <1>1, <1>2, <1>6 DEF Versions!Next, Versions!WriteBack
<1> QED BY <1>3, <1>4, <1>5, <1>6 DEF RowEffect

(* Every change of an account's row is a fresh version, an older version    *)
(* written back or the deletion, and no save of the use cases brings a      *)
(* purged account back: UserAccounts implements VersionedRow.               *)
THEOREM AccountRefinesVersionedRow == Spec => ImplementsVersionedRow
<1>1. Init => Versions!Init
  <2> SUFFICES ASSUME Init PROVE Versions!Init
    OBVIOUS
  <2>1. row.etag = 1 /\ nextEtag = 2 /\ row # NoRow
    BY NewUserIsRow, NoRowIsNoValue DEF Init
  <2> QED BY <2>1 DEF Versions!Init
<1>2. Inv /\ [Next]_vars => [Versions!Next]_(Versions!vars)
  <2>1. Inv /\ Next => [Versions!Next]_(Versions!vars)
    BY RowEffects, RowEffectRefines
  <2>2. UNCHANGED vars => UNCHANGED Versions!vars
    BY DEF vars, Versions!vars
  <2> QED BY <2>1, <2>2
<1> QED BY <1>1, <1>2, InvInvariant, PTL
    DEF Spec, ImplementsVersionedRow, Versions!Spec

(* What the other services see of the status of an account is RowLifecycle: *)
(* it is purged only as DELETED and never returns, whatever rows the use    *)
(* cases write back.                                                        *)
THEOREM AccountRefinesRowLifecycle == Spec => ImplementsRowLifecycle
<1> DEFINE status == IF row = NoRow THEN "gone" ELSE row.status
<1>1. Init => Life!Init
  <2> SUFFICES ASSUME Init PROVE Life!Init
    OBVIOUS
  <2>1. row.status = "ACTIVE"
    BY DEF Init, Registered, Created, NewUser
  <2> QED BY <2>1, NewUserIsRow, NoRowIsNoValue DEF Life!Init
<1>2. Inv /\ [Next]_vars => [Life!Next]_status
  <2>1. ASSUME Inv, Next PROVE [Life!Next]_status
    <3>1. row # NoRow => row.status \in Statuses
      BY <2>1 DEF Inv, TypeOK, User
    <3>2. CASE row' = row
      BY <3>2
    <3>3. CASE row # NoRow /\ row' = NoRow
      <4>1. row.status = "DELETED"
        BY <2>1, <3>3, PurgeStep
      <4> QED BY <3>3, <4>1 DEF Life!Next, Life!Delete
    <3>4. CASE row # NoRow /\ row' \in User
      <4>1. row' # NoRow /\ row'.status \in Statuses
        BY <3>4, NoRowIsNoValue DEF User
      <4> QED BY <3>1, <3>4, <4>1 DEF Life!Next, Life!Change
    <3> QED BY <2>1, <3>2, <3>3, <3>4, RowEffects DEF RowEffect, RowUnchanged
  <2>2. UNCHANGED vars => UNCHANGED status
    BY DEF vars
  <2> QED BY <2>1, <2>2
<1> QED BY <1>1, <1>2, InvInvariant, PTL
    DEF Spec, ImplementsRowLifecycle, Life!Spec

=============================================================================
