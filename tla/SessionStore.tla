----------------------------- MODULE SessionStore -----------------------------
(***************************************************************************)
(* The Session aggregate (session/internal/domain) and the SQL statements  *)
(* of its MariaDB repository (session/internal/mariadb), as operators on a *)
(* table value.  A statement is atomic: every repository call runs as one  *)
(* autocommit statement and no use case opens a transaction around two.    *)
(*                                                                         *)
(* user_agent, ip_address and last_seen_at are left out: they are          *)
(* attribution data that no guard reads.  A timestamp is a positive        *)
(* natural number; 0 is Go's zero time.Time, which the mapper stores as    *)
(* SQL NULL.                                                               *)
(***************************************************************************)
EXTENDS Naturals

CONSTANTS
  Users,        \* user ids
  MaxSessions,  \* bound: session ids handed out
  MaxTokens,    \* bound: refresh tokens generated
  NoRow,        \* "no such row" (sql.ErrNoRows)
  RefreshTTL,   \* auth.session.refresh_ttl, the absolute hard cap
  RotationTTL   \* auth.session.refresh_rotation_ttl, the sliding window

ASSUME BoundsAssumption == MaxSessions \in Nat /\ MaxTokens \in Nat
ASSUME TTLAssumption == /\ RefreshTTL \in Nat \ {0}
                        /\ RotationTTL \in Nat \ {0}

SessionIDs == 1 .. MaxSessions
Tokens     == 1 .. MaxTokens

(* Only the SHA-256 digest of a refresh token is stored; digests of         *)
(* different tokens differ.                                                 *)
Hash(t) == [sha256 |-> t]
Hashes  == [sha256 : Tokens]

Session == [userID                : Users,
            refreshTokenHash      : Hashes,
            issuedAt              : Nat,
            expiresAt             : Nat,
            refreshTokenExpiresAt : Nat,
            revokedAt             : Nat]

ASSUME NoRowAssumption == NoRow \notin Session \cup Users

Table == [SessionIDs -> Session \cup {NoRow}]

-----------------------------------------------------------------------------
(* Predicates and mutators of the aggregate.                               *)

IsRevoked(s) == s.revokedAt # 0

IsAbsoluteExpired(s, now) == ~ (now < s.expiresAt)

IsRefreshExpired(s, now) == ~ (now < s.refreshTokenExpiresAt)

(* Mutant of IsActive: the deadlines alone decide.                          *)
IsActiveByDeadlines(s, now) == /\ ~ IsAbsoluteExpired(s, now)
                               /\ ~ IsRefreshExpired(s, now)

IsActive(s, now) == /\ ~ IsRevoked(s)
                    /\ ~ IsAbsoluteExpired(s, now)
                    /\ ~ IsRefreshExpired(s, now)

(* Mutant of CappedWindow: the window slides past the hard cap.             *)
UncappedWindow(now, cap) == now + RotationTTL

(* The next sliding deadline, capped at the hard cap.                       *)
CappedWindow(now, cap) == IF now + RotationTTL > cap THEN cap
                                                     ELSE now + RotationTTL

NewSession(u, t, now) ==
  [userID                |-> u,
   refreshTokenHash      |-> Hash(t),
   issuedAt              |-> now,
   expiresAt             |-> now + RefreshTTL,
   refreshTokenExpiresAt |-> CappedWindow(now, now + RefreshTTL),
   revokedAt             |-> 0]

(* Mutant of Revoke: the row is written back as it was read.                *)
RevokeForgotten(s, now) == s

Revoke(s, now) == IF IsRevoked(s) THEN s ELSE [s EXCEPT !.revokedAt = now]

RotateRefresh(s, t, now) ==
  [s EXCEPT !.refreshTokenHash      = Hash(t),
            !.refreshTokenExpiresAt = CappedWindow(now, s.expiresAt)]

-----------------------------------------------------------------------------
(* Statements.  Each takes the table and yields the table it leaves.       *)

Exists(tab, id) == tab[id] # NoRow

(* SELECT ... WHERE refresh_token_hash = ? (a unique key)                   *)
GetByRefreshHash(tab, h) ==
  {id \in SessionIDs : Exists(tab, id) /\ tab[id].refreshTokenHash = h}

(* SELECT ... WHERE user_id = ?                                             *)
ListByUser(tab, u) == {id \in SessionIDs : Exists(tab, id) /\ tab[id].userID = u}

Create(tab, id, s) == [tab EXCEPT ![id] = s]

(* UPDATE ... WHERE id = ?: the whole row, unconditionally.                 *)
Update(tab, id, s) == IF Exists(tab, id) THEN [tab EXCEPT ![id] = s] ELSE tab

(* RowsAffected of Update.  The DSN does not ask for clientFoundRows, so    *)
(* the server counts changed rows: writing back an identical row counts 0,  *)
(* which the repository reports as ErrSessionNotFound.                      *)
UpdateAffects(tab, id, s) == Exists(tab, id) /\ tab[id] # s

(* Mutant of RotateMatches: the UPDATE does not pin the hash.               *)
RotateMatchesAnyHash(tab, id, oldHash) == Exists(tab, id)

(* UPDATE ... WHERE id = ? AND refresh_token_hash = ?: it pins the hash the *)
(* caller presented and writes the rotation columns only.                   *)
RotateMatches(tab, id, oldHash) ==
  Exists(tab, id) /\ tab[id].refreshTokenHash = oldHash

(* Mutant of Rotate: it writes the whole row, as Update does.               *)
RotateWholeRow(tab, id, s) == [tab EXCEPT ![id] = s]

Rotate(tab, id, s) ==
  [tab EXCEPT ![id] =
     [@ EXCEPT !.refreshTokenHash      = s.refreshTokenHash,
               !.refreshTokenExpiresAt = s.refreshTokenExpiresAt]]

(* UPDATE ... SET revoked_at = ? WHERE user_id = ? AND revoked_at IS NULL   *)
RevokeAllForUser(tab, u, now) ==
  [id \in SessionIDs |-> IF id \in ListByUser(tab, u) THEN Revoke(tab[id], now)
                                                      ELSE tab[id]]

(* ON DELETE CASCADE of fk_sessions_user.                                   *)
CascadeDelete(tab, u) ==
  [id \in SessionIDs |-> IF id \in ListByUser(tab, u) THEN NoRow ELSE tab[id]]

=============================================================================
