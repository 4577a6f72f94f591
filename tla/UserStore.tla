------------------------------- MODULE UserStore -------------------------------
(***************************************************************************)
(* The User aggregate (identity/internal/domain), the recovery-code Batch  *)
(* (recoverycode/internal/domain) and the SQL statements of their MariaDB  *)
(* repositories, for one account.  Every statement is atomic; CreateBatch  *)
(* runs its INSERTs in one transaction and is atomic too.                  *)
(*                                                                         *)
(* The six profile columns are one value.  created_at, updated_at,         *)
(* last_login_at and the lockout columns are left out: no guard reads      *)
(* them.  A bcrypt hash is the record of the password it was made from.    *)
(***************************************************************************)
EXTENDS Naturals

CONSTANTS
  Passwords,   \* plaintext passwords
  Profiles,    \* contents of the profile columns
  CodeIndex,   \* positions of the codes within a batch
  MaxEtags,    \* bound: etags minted
  MaxBatches,  \* bound: recovery-code batches generated
  NoRow        \* "no such row", also SQL NULL in password_hash

ASSUME StoreBounds == MaxEtags \in Nat \ {0} /\ MaxBatches \in Nat

Etags    == 1 .. MaxEtags
BatchIDs == 1 .. MaxBatches

Hash(p) == [bcrypt |-> p]
Hashes  == [bcrypt : Passwords]

Statuses == {"ACTIVE", "BLOCKED", "DELETED"}

User == [status       : Statuses,
         etag         : Etags,
         passwordHash : Hashes \cup {NoRow},
         profile      : Profiles]

(* A recovery code is known by its batch and its position in it.  The       *)
(* stored batch keeps revoked_at and used_at as flags.                      *)
Code  == [batch : BatchIDs, index : CodeIndex]
Batch == [revoked : BOOLEAN, used : SUBSET CodeIndex]

ASSUME NoRowIsNoValue == NoRow \notin User \cup Hashes \cup Batch \cup Code

-----------------------------------------------------------------------------
(* The User aggregate.  e is the etag that bumpVersion would mint.          *)

HasPassword(u) == u.passwordHash # NoRow

Compare(u, p) == u.passwordHash = Hash(p)

(* Registered with a password, or created by an administrator without one. *)
NewUser(hash, profile, e) ==
  [status |-> "ACTIVE", etag |-> e, passwordHash |-> hash, profile |-> profile]

(* Disable, Enable and SoftDelete: no version bump if nothing changes.      *)
SetStatus(u, status, e) ==
  IF u.status = status THEN u ELSE [u EXCEPT !.status = status, !.etag = e]

ApplyPatch(u, profile, e) ==
  IF u.profile = profile THEN u ELSE [u EXCEPT !.profile = profile, !.etag = e]

(* Mutant of SetPassword: the version is not bumped.                        *)
SetPasswordUnbumped(u, p, e) == [u EXCEPT !.passwordHash = Hash(p)]

SetPassword(u, p, e) == [u EXCEPT !.passwordHash = Hash(p), !.etag = e]

-----------------------------------------------------------------------------
(* Statements on the users row r.                                           *)

(* Mutant of Matches: the statement ignores the expected etag.              *)
MatchesAnyEtag(r, expected) == r # NoRow

(* UPDATE ... WHERE id = ? [AND etag = ?]; expected 0 is the wildcard.      *)
Matches(r, expected) == r # NoRow /\ (expected = 0 \/ r.etag = expected)

(* Mutant of PasswordMatches: the UPDATE does not pin the etag.             *)
PasswordMatchesAny(r, preEtag) == r # NoRow

(* UpdateUserPasswordWithEtag has no wildcard.                              *)
PasswordMatches(r, preEtag) == r # NoRow /\ r.etag = preEtag

(* It writes password_hash and etag, the rest of the row stays.             *)
UpdatePassword(r, u) == [r EXCEPT !.passwordHash = u.passwordHash, !.etag = u.etag]

-----------------------------------------------------------------------------
(* Statements on the batches bs of the account.                             *)

Active(bs) == {b \in BatchIDs : bs[b] # NoRow /\ ~ bs[b].revoked}

CreateBatch(bs, b) == [bs EXCEPT ![b] = [revoked |-> FALSE, used |-> {}]]

(* Mutant of RevokeActiveBatches: it forgets the batches.                   *)
RevokeNoBatch(bs) == bs

RevokeActiveBatches(bs) ==
  [b \in BatchIDs |-> IF b \in Active(bs) THEN [bs[b] EXCEPT !.revoked = TRUE]
                                          ELSE bs[b]]

(* Mutant of ConsumeMatches: a spent code matches again.                    *)
ConsumeMatchesUsed(bs, b, code) == code.batch = b /\ bs[b] # NoRow

(* UPDATE ... WHERE batch_id = ? AND code_hash = ? AND used_at IS NULL      *)
ConsumeMatches(bs, b, code) ==
  /\ code.batch = b
  /\ bs[b] # NoRow
  /\ code.index \notin bs[b].used

ConsumeCode(bs, code) ==
  [bs EXCEPT ![code.batch].used = @ \cup {code.index}]

NoBatches == [b \in BatchIDs |-> NoRow]

=============================================================================
