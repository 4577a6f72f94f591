----------------------------- MODULE AuthSessions -----------------------------
(***************************************************************************)
(* AuthService's session use cases (auth/internal/service) over the        *)
(* sessions table: Login, Refresh, Logout, RevokeSession, RevokeToken and  *)
(* RevokeAllSessions, with the gRPC auth interceptor in front of the       *)
(* private ones.  An RPC in flight is an element of Calls.  It advances by *)
(* one database round trip per step, holds the rows it read in call[c].snap *)
(* and may act on them long after they changed.  Any round trip may fail;  *)
(* a write may also take effect and lose its reply.                        *)
(*                                                                         *)
(* Reads that change nothing and touch no session (the app lookup of       *)
(* Login, bcrypt) are folded into the step they precede.  Audit events are *)
(* emitted best effort and never change the outcome: they are left out.    *)
(***************************************************************************)
EXTENDS SessionStore

CONSTANTS
  Calls,      \* slots for RPCs in flight
  AccessTTL,  \* lifetime of an access token, the verifier's leeway included
  MaxTime     \* bound: last instant of the clock

ASSUME ClockAssumption == AccessTTL \in Nat /\ MaxTime \in Nat \ {0}

VARIABLES
  clock,      \* time.Now(); the first instant is 1, 0 is the zero time
  userStatus, \* users.status, "gone" once the row is deleted
  lastActive, \* history: the last instant at which a user was ACTIVE
  sessions,   \* the sessions table
  call,       \* the RPCs in flight
  nextSid,    \* the next UUIDv7 session id
  nextToken,  \* the next random refresh token
  held,       \* refresh tokens delivered to a client
  access,     \* latest expiry of an access token delivered for a session
  reply,      \* what the last step answered to its client, "none" if nothing
  acked,      \* history: sessions a client was told are revoked
  chain,      \* history: the session a refresh token was generated for
  rotated     \* history: how often Rotate accepted a refresh token

world   == <<clock, userStatus, lastActive>>
mint    == <<nextSid, nextToken>>
client  == <<held, access>>
history == <<acked, chain, rotated>>
vars    == <<world, sessions, call, mint, client, reply, history>>

UserStatuses == {"ACTIVE", "BLOCKED", "DELETED", "gone"}

PCs == {"idle", "login.create",
        "refresh.session", "refresh.user", "refresh.revoke", "refresh.rotate",
        "refresh.revokeAll", "logout.get", "revokeSession.get",
        "revokeToken.get", "revoke.update", "revokeAll.update",
        "revokeAll.list", "revokeAll.each"}

Codes == {"none", "OK", "INVALID_CREDENTIALS", "USER_BLOCKED",
          "INVALID_TOKEN", "REFRESH_TOKEN_REUSED", "SESSION_NOT_FOUND",
          "SESSION_NOT_OWNED", "INTERNAL"}

NoRows == [id \in SessionIDs |-> NoRow]

(* Local variables of a use case: the token and session it works on (0:     *)
(* none), the calling user, the instant it captured, the rows it read, the  *)
(* rows it still has to revoke, and the answer it already decided on.       *)
CallState == [pc     : PCs,
              tok    : Tokens \cup {0},
              sid    : SessionIDs \cup {0},
              caller : Users \cup {NoRow},
              now    : Nat,
              snap   : Table,
              left   : SUBSET SessionIDs,
              code   : Codes]

Idle == [pc |-> "idle", tok |-> 0, sid |-> 0, caller |-> NoRow, now |-> 0,
         snap |-> NoRows, left |-> {}, code |-> "none"]

TypeOK ==
  /\ clock \in 1 .. MaxTime
  /\ userStatus \in [Users -> UserStatuses]
  /\ lastActive \in [Users -> 1 .. clock]
  /\ sessions \in Table
  /\ call \in [Calls -> CallState]
  /\ nextSid \in 1 .. MaxSessions + 1
  /\ nextToken \in 1 .. MaxTokens + 1
  /\ held \subseteq Tokens
  /\ access \in [SessionIDs -> Nat]
  /\ reply \in Codes
  /\ acked \subseteq SessionIDs
  /\ chain \in [Tokens -> SessionIDs \cup {0}]
  /\ rotated \in [Tokens -> Nat]

Init ==
  /\ clock = 1
  /\ userStatus = [u \in Users |-> "ACTIVE"]
  /\ lastActive = [u \in Users |-> 1]
  /\ sessions = NoRows
  /\ call = [c \in Calls |-> Idle]
  /\ nextSid = 1
  /\ nextToken = 1
  /\ held = {}
  /\ access = [id \in SessionIDs |-> 0]
  /\ reply = "none"
  /\ acked = {}
  /\ chain = [t \in Tokens |-> 0]
  /\ rotated = [t \in Tokens |-> 0]

-----------------------------------------------------------------------------
(* Steps of a call.                                                         *)

At(c, pc) == call[c].pc = pc

(* The row this call read for the session it works on.                      *)
Row(c) == call[c].snap[call[c].sid]

Goto(c, state) ==
  /\ call' = [call EXCEPT ![c] = state]
  /\ reply' = "none"

Begin(c, state) == At(c, "idle") /\ Goto(c, state)

Return(c, code) ==
  /\ call' = [call EXCEPT ![c] = Idle]
  /\ reply' = code

(* A time.Now() read after the call's previous round trip.                  *)
Since(c) == call[c].now .. clock

-----------------------------------------------------------------------------
(* Login.                                                                   *)

(* An app that is missing or not active, and a wrong password, are answered *)
(* like an unknown or deleted user.                                         *)
LoginBegin(c, u) ==
  /\ At(c, "idle")
  /\ \/ /\ userStatus[u] = "ACTIVE"
        /\ Goto(c, [Idle EXCEPT !.pc = "login.create", !.caller = u,
                                !.now = clock])
     \/ /\ userStatus[u] = "BLOCKED"
        /\ Return(c, "USER_BLOCKED")
     \/ Return(c, "INVALID_CREDENTIALS")
  /\ UNCHANGED <<world, sessions, mint, client, history>>

(* The INSERT, then the signature.  The foreign key rejects a user that is  *)
(* gone.  If the INSERT's reply is lost or the signature fails, the row     *)
(* stays and the client gets no token.                                      *)
LoginCreate(c) ==
  /\ At(c, "login.create")
  /\ nextSid \in SessionIDs /\ nextToken \in Tokens
  /\ userStatus[call[c].caller] # "gone"
  /\ \E now \in Since(c) :
       sessions' = Create(sessions, nextSid,
                          NewSession(call[c].caller, nextToken, now))
  /\ nextSid' = nextSid + 1
  /\ nextToken' = nextToken + 1
  /\ chain' = [chain EXCEPT ![nextToken] = nextSid]
  /\ \/ /\ held' = held \cup {nextToken}
        /\ access' = [access EXCEPT ![nextSid] = clock + AccessTTL]
        /\ Return(c, "OK")
     \/ /\ UNCHANGED client
        /\ Return(c, "INTERNAL")
  /\ UNCHANGED <<world, acked, rotated>>

-----------------------------------------------------------------------------
(* Refresh.                                                                 *)

RefreshBegin(c, t) ==
  /\ t \in held
  /\ Begin(c, [Idle EXCEPT !.pc = "refresh.session", !.tok = t, !.now = clock])
  /\ UNCHANGED <<world, sessions, mint, client, history>>

RefreshGetSession(c) ==
  /\ At(c, "refresh.session")
  /\ LET found == GetByRefreshHash(sessions, Hash(call[c].tok))
     IN  \/ /\ \A id \in found : ~ IsActive(sessions[id], call[c].now)
            /\ Return(c, "INVALID_TOKEN")
         \/ \E id \in found :
              /\ IsActive(sessions[id], call[c].now)
              /\ Goto(c, [call[c] EXCEPT !.pc = "refresh.user", !.sid = id,
                            !.snap = [NoRows EXCEPT ![id] = sessions[id]]])
  /\ UNCHANGED <<world, sessions, mint, client, history>>

(* Mutant of RefreshGetUser: any user that exists may refresh.              *)
RefreshGetUserUnchecked(c) ==
  /\ At(c, "refresh.user")
  /\ Goto(c, [call[c] EXCEPT !.pc = "refresh.rotate"])
  /\ UNCHANGED <<world, sessions, mint, client, history>>

(* A user that may not refresh loses the session (best effort).             *)
RefreshGetUser(c) ==
  /\ At(c, "refresh.user")
  /\ LET status == userStatus[Row(c).userID]
     IN  IF status = "ACTIVE"
         THEN Goto(c, [call[c] EXCEPT !.pc = "refresh.rotate"])
         ELSE Goto(c, [call[c] EXCEPT
                         !.pc = "refresh.revoke",
                         !.code = IF status = "BLOCKED" THEN "USER_BLOCKED"
                                                        ELSE "INVALID_TOKEN"])
  /\ UNCHANGED <<world, sessions, mint, client, history>>

(* Mutant of RefreshRevoke: it insists on persisting the revocation.        *)
RefreshRevokeInsists(c) ==
  /\ At(c, "refresh.revoke")
  /\ UpdateAffects(sessions, call[c].sid, Revoke(Row(c), call[c].now))
  /\ sessions' = Update(sessions, call[c].sid, Revoke(Row(c), call[c].now))
  /\ Return(c, call[c].code)
  /\ UNCHANGED <<world, mint, client, history>>

(* revokeSessionBestEffort: an error is logged and swallowed.               *)
RefreshRevoke(c) ==
  /\ At(c, "refresh.revoke")
  /\ \/ sessions' = Update(sessions, call[c].sid, Revoke(Row(c), call[c].now))
     \/ UNCHANGED sessions
  /\ Return(c, call[c].code)
  /\ UNCHANGED <<world, mint, client, history>>

RefreshRotate(c) ==
  /\ At(c, "refresh.rotate")
  /\ nextToken \in Tokens
  /\ RotateMatches(sessions, call[c].sid, Hash(call[c].tok))
  /\ sessions' = Rotate(sessions, call[c].sid,
                        RotateRefresh(Row(c), nextToken, call[c].now))
  /\ nextToken' = nextToken + 1
  /\ chain' = [chain EXCEPT ![nextToken] = call[c].sid]
  /\ rotated' = [rotated EXCEPT ![call[c].tok] = @ + 1]
  /\ \/ /\ held' = held \cup {nextToken}
        /\ access' = [access EXCEPT ![call[c].sid] = clock + AccessTTL]
        /\ Return(c, "OK")
     \/ /\ UNCHANGED client
        /\ Return(c, "INTERNAL")
  /\ UNCHANGED <<world, nextSid, acked>>

(* 0 rows affected: the token is taken for stolen.                          *)
RefreshReused(c) ==
  /\ At(c, "refresh.rotate")
  /\ ~ RotateMatches(sessions, call[c].sid, Hash(call[c].tok))
  /\ Goto(c, [call[c] EXCEPT !.pc = "refresh.revokeAll"])
  /\ UNCHANGED <<world, sessions, mint, client, history>>

(* The bulk revocation's error is logged and swallowed too.                 *)
RefreshRevokeAll(c) ==
  /\ At(c, "refresh.revokeAll")
  /\ \/ /\ sessions' = RevokeAllForUser(sessions, Row(c).userID, call[c].now)
        /\ acked' = acked \cup ListByUser(sessions, Row(c).userID)
     \/ UNCHANGED <<sessions, acked>>
  /\ Return(c, "REFRESH_TOKEN_REUSED")
  /\ UNCHANGED <<world, mint, client, chain, rotated>>

-----------------------------------------------------------------------------
(* The auth interceptor, and AuthService.Validate, which repeats its check. *)

SessionAccepted(s) == Exists(sessions, s) /\ IsActive(sessions[s], clock)

Authenticated(s) == clock < access[s] /\ SessionAccepted(s)

(* A private RPC enters its handler as the user of session s.               *)
Authenticate(c, s, state) ==
  /\ Authenticated(s)
  /\ Begin(c, [state EXCEPT !.caller = sessions[s].userID, !.now = clock])
  /\ UNCHANGED <<world, sessions, mint, client, history>>

LogoutBegin(c, s) ==
  Authenticate(c, s, [Idle EXCEPT !.pc = "logout.get", !.sid = s])

RevokeSessionBegin(c, s, target) ==
  Authenticate(c, s, [Idle EXCEPT !.pc = "revokeSession.get", !.sid = target])

RevokeTokenBegin(c, s, t) ==
  /\ t \in held
  /\ Authenticate(c, s, [Idle EXCEPT !.pc = "revokeToken.get", !.tok = t])

RevokeAllBegin(c, s) ==
  Authenticate(c, s, [Idle EXCEPT !.pc = "revokeAll.update"])

RevokeAllExceptBegin(c, s) ==
  Authenticate(c, s, [Idle EXCEPT !.pc = "revokeAll.list", !.sid = s])

-----------------------------------------------------------------------------
(* Logout, RevokeSession and RevokeToken read the row, then write it back   *)
(* revoked.                                                                 *)

(* What the three do with row id once it passed their own checks.           *)
RevokeRow(c, id) ==
  IF IsRevoked(sessions[id])
  THEN /\ acked' = acked \cup {id}
       /\ Return(c, "OK")
  ELSE /\ Goto(c, [call[c] EXCEPT !.pc = "revoke.update", !.sid = id,
                     !.now = clock,
                     !.snap = [NoRows EXCEPT ![id] = sessions[id]]])
       /\ UNCHANGED acked

LogoutGet(c) ==
  /\ At(c, "logout.get")
  /\ IF Exists(sessions, call[c].sid)
     THEN RevokeRow(c, call[c].sid)
     ELSE Return(c, "OK") /\ UNCHANGED acked
  /\ UNCHANGED <<world, sessions, mint, client, chain, rotated>>

RevokeSessionGet(c) ==
  /\ At(c, "revokeSession.get")
  /\ LET id == call[c].sid
     IN  CASE ~ Exists(sessions, id) ->
                Return(c, "SESSION_NOT_FOUND") /\ UNCHANGED acked
           [] Exists(sessions, id) /\ sessions[id].userID # call[c].caller ->
                Return(c, "SESSION_NOT_OWNED") /\ UNCHANGED acked
           [] OTHER -> RevokeRow(c, id)
  /\ UNCHANGED <<world, sessions, mint, client, chain, rotated>>

(* Mutant of RevokeTokenGet: whoever holds a token may revoke its session.  *)
RevokeTokenGetUnchecked(c) ==
  /\ At(c, "revokeToken.get")
  /\ LET found == GetByRefreshHash(sessions, Hash(call[c].tok))
     IN  \/ found = {} /\ Return(c, "OK") /\ UNCHANGED acked
         \/ \E id \in found : RevokeRow(c, id)
  /\ UNCHANGED <<world, sessions, mint, client, chain, rotated>>

RevokeTokenGet(c) ==
  /\ At(c, "revokeToken.get")
  /\ LET found == GetByRefreshHash(sessions, Hash(call[c].tok))
     IN  \/ /\ found = {}
            /\ Return(c, "OK")
            /\ UNCHANGED acked
         \/ \E id \in found :
              IF sessions[id].userID # call[c].caller
              THEN Return(c, "SESSION_NOT_OWNED") /\ UNCHANGED acked
              ELSE RevokeRow(c, id)
  /\ UNCHANGED <<world, sessions, mint, client, chain, rotated>>

RevokeUpdate(c) ==
  /\ At(c, "revoke.update")
  /\ \E now \in Since(c) :
       LET s == Revoke(Row(c), now)
       IN  /\ sessions' = Update(sessions, call[c].sid, s)
           /\ \/ /\ UpdateAffects(sessions, call[c].sid, s)
                 /\ acked' = acked \cup {call[c].sid}
                 /\ Return(c, "OK")
              \/ /\ UpdateAffects(sessions, call[c].sid, s)
                 /\ Return(c, "INTERNAL")
                 /\ UNCHANGED acked
              \/ /\ ~ UpdateAffects(sessions, call[c].sid, s)
                 /\ Return(c, "SESSION_NOT_FOUND")
                 /\ UNCHANGED acked
  /\ UNCHANGED <<world, mint, client, chain, rotated>>

-----------------------------------------------------------------------------
(* RevokeAllSessions: one bulk statement, or a loop over a list read once.  *)

RevokeAllUpdate(c) ==
  /\ At(c, "revokeAll.update")
  /\ \E now \in Since(c) :
       sessions' = RevokeAllForUser(sessions, call[c].caller, now)
  /\ \/ /\ acked' = acked \cup ListByUser(sessions, call[c].caller)
        /\ Return(c, "OK")
     \/ /\ UNCHANGED acked
        /\ Return(c, "INTERNAL")
  /\ UNCHANGED <<world, mint, client, chain, rotated>>

(* The instant is captured before the list is read.                         *)
RevokeAllList(c) ==
  /\ At(c, "revokeAll.list")
  /\ \E now \in Since(c) :
       LET mine == ListByUser(sessions, call[c].caller)
       IN  Goto(c, [call[c] EXCEPT
              !.pc   = "revokeAll.each",
              !.now  = now,
              !.snap = [id \in SessionIDs |->
                          IF id \in mine THEN sessions[id] ELSE NoRow],
              !.left = {id \in mine : ~ IsRevoked(sessions[id])
                                      /\ id # call[c].sid}])
  /\ UNCHANGED <<world, sessions, mint, client, history>>

(* ORDER BY issued_at DESC, id DESC                                         *)
ListedBefore(snap, a, b) ==
  \/ snap[a].issuedAt > snap[b].issuedAt
  \/ snap[a].issuedAt = snap[b].issuedAt /\ a >= b

RevokeAllEach(c) ==
  /\ At(c, "revokeAll.each")
  /\ \E id \in call[c].left :
       /\ \A other \in call[c].left : ListedBefore(call[c].snap, id, other)
       /\ LET s == Revoke(call[c].snap[id], call[c].now)
          IN  /\ sessions' = Update(sessions, id, s)
              /\ \/ /\ UpdateAffects(sessions, id, s)
                    /\ Goto(c, [call[c] EXCEPT !.left = @ \ {id}])
                 \/ /\ UpdateAffects(sessions, id, s)
                    /\ Return(c, "INTERNAL")
                 \/ /\ ~ UpdateAffects(sessions, id, s)
                    /\ Return(c, "SESSION_NOT_FOUND")
  /\ UNCHANGED <<world, mint, client, history>>

RevokeAllDone(c) ==
  /\ At(c, "revokeAll.each")
  /\ call[c].left = {}
  /\ acked' = acked \cup ({id \in SessionIDs : Exists(call[c].snap, id)}
                          \ {call[c].sid})
  /\ Return(c, "OK")
  /\ UNCHANGED <<world, sessions, mint, client, chain, rotated>>

-----------------------------------------------------------------------------
(* A round trip that fails without effect ends the call, wherever the code  *)
(* does not swallow the error.  A crash of the server or a cancelled        *)
(* context looks the same from outside.                                     *)
CallFails(c) ==
  /\ call[c].pc \notin {"idle", "refresh.revoke", "refresh.revokeAll"}
  /\ Return(c, "INTERNAL")
  /\ UNCHANGED <<world, sessions, mint, client, history>>

SeeActive ==
  lastActive' = [u \in Users |-> IF userStatus'[u] = "ACTIVE" THEN clock'
                                                            ELSE lastActive[u]]

(* IdentityService changes a user underneath.  Its lifecycle writes are     *)
(* unconditional, so any status may follow any other.                       *)
UserChanges(u, status) ==
  /\ userStatus[u] # "gone"
  /\ UNCHANGED clock
  /\ userStatus' = [userStatus EXCEPT ![u] = status]
  /\ SeeActive
  /\ reply' = "none"
  /\ UNCHANGED <<sessions, call, mint, client, history>>

UserPermanentlyDeleted(u) ==
  /\ userStatus[u] = "DELETED"
  /\ userStatus' = [userStatus EXCEPT ![u] = "gone"]
  /\ sessions' = CascadeDelete(sessions, u)
  /\ reply' = "none"
  /\ UNCHANGED <<clock, lastActive, call, mint, client, history>>

Tick ==
  /\ clock < MaxTime
  /\ clock' = clock + 1
  /\ UNCHANGED userStatus
  /\ SeeActive
  /\ reply' = "none"
  /\ UNCHANGED <<sessions, call, mint, client, history>>

(* One step of a call that is under way.                                    *)
Step(c) ==
  \/ LoginCreate(c)
  \/ RefreshGetSession(c) \/ RefreshGetUser(c) \/ RefreshRevoke(c)
  \/ RefreshRotate(c) \/ RefreshReused(c) \/ RefreshRevokeAll(c)
  \/ LogoutGet(c) \/ RevokeSessionGet(c) \/ RevokeTokenGet(c)
  \/ RevokeUpdate(c)
  \/ RevokeAllUpdate(c)
  \/ RevokeAllList(c) \/ RevokeAllEach(c) \/ RevokeAllDone(c)
  \/ CallFails(c)

Start(c) ==
  \/ \E u \in Users : LoginBegin(c, u)
  \/ \E t \in Tokens : RefreshBegin(c, t)
  \/ \E s \in SessionIDs :
       \/ LogoutBegin(c, s)
       \/ \E target \in SessionIDs : RevokeSessionBegin(c, s, target)
       \/ \E t \in Tokens : RevokeTokenBegin(c, s, t)
       \/ RevokeAllBegin(c, s)
       \/ RevokeAllExceptBegin(c, s)

Next ==
  \/ \E c \in Calls : Start(c) \/ Step(c)
  \/ \E u \in Users, status \in UserStatuses \ {"gone"} : UserChanges(u, status)
  \/ \E u \in Users : UserPermanentlyDeleted(u)
  \/ Tick

Spec == Init /\ [][Next]_vars

(* Every call under way keeps taking steps: the goroutine is scheduled and  *)
(* the driver's timeouts bound every round trip.  The world outside owes    *)
(* nothing.                                                                 *)
FairSpec == Spec /\ \A c \in Calls : WF_vars(Step(c))

-----------------------------------------------------------------------------
(* Properties.                                                              *)

(* The session is over: gone with its user, or revoked.                     *)
Ended(tab, id) == ~ Exists(tab, id) \/ IsRevoked(tab[id])

(* The table as its clients know it: how a session stands, and the refresh  *)
(* token on its row.                                                        *)
SessionState(s) == IF s >= nextSid THEN "none"
                   ELSE IF Ended(sessions, s) THEN "over" ELSE "open"

CurrentToken(s) == IF Ended(sessions, s) THEN 0
                   ELSE sessions[s].refreshTokenHash.sha256

Registry == INSTANCE SessionRegistry WITH
  Ids    <- SessionIDs,
  state  <- [s \in SessionIDs |-> SessionState(s)],
  token  <- [s \in SessionIDs |-> CurrentToken(s)],
  minted <- nextToken - 1,
  told   <- acked

(* The session use cases implement SessionRegistry: however stale the rows  *)
(* that the revoking RPCs write back and Refresh rotates, a session that is *)
(* over stays over, a live one exchanges its refresh token for a newer one  *)
(* only, never for one it had before, and a revocation is acknowledged only *)
(* once it is done.                                                         *)
ImplementsSessionRegistry == Registry!Spec

(* Revocation is one-way: no write, however stale the row it was computed   *)
(* from, turns a revoked session back into an active one.                   *)
RevocationIsOneWay ==
  [][\A s \in SessionIDs :
       Exists(sessions, s) /\ IsRevoked(sessions[s])
         => (Exists(sessions, s) => IsRevoked(sessions[s]))']_vars

(* Once any of the revoking RPCs answered OK, or Refresh answered           *)
(* REFRESH_TOKEN_REUSED after its bulk revocation went through, neither the *)
(* interceptor nor Validate ever accepts the sessions it covered.           *)
AckedRevocationHolds == \A s \in acked : ~ SessionAccepted(s)

(* No chain of refreshes outlives the hard cap fixed at login.              *)
WindowWithinHardCap ==
  \A s \in SessionIDs : Exists(sessions, s) =>
    /\ sessions[s].expiresAt = sessions[s].issuedAt + RefreshTTL
    /\ sessions[s].refreshTokenExpiresAt <= sessions[s].expiresAt

Later(a, b) == IF a > b THEN a ELSE b

(* The window of a row ends within RotationTTL of the login or of the last  *)
(* instant at which its user was seen ACTIVE.                               *)
Within(row, seen) ==
  row.refreshTokenExpiresAt <=
    Later(row.issuedAt, seen[row.userID]) + RotationTTL

(* Blocking or deleting a user revokes no session and no interceptor looks  *)
(* at the user's status, but his sessions run out: the window in which one  *)
(* is accepted ends within RotationTTL of the last instant at which he was  *)
(* ACTIVE, or of the login, should that one have been past its checks       *)
(* already.  No refresh in flight extends it, however late it is.           *)
WindowEndsWithUser ==
  \A s \in SessionIDs : Exists(sessions, s) => Within(sessions[s], lastActive)

(* Every session runs out.                                                  *)
SessionsRunOut == WindowWithinHardCap /\ WindowEndsWithUser

(* A refresh token is accepted at most once in the life of a session that   *)
(* is not revoked, whatever else runs next to the two refreshes.            *)
TokenAcceptedOnce ==
  \A t \in Tokens : rotated[t] > 1 =>
    \/ ~ Exists(sessions, chain[t])
    \/ IsRevoked(sessions[chain[t]])

(* The newest token a client was given works: it is the one on its row      *)
(* until it is rotated or the session ends.                                 *)
NewestTokenIsCurrent ==
  \A t \in held : rotated[t] = 0 =>
    \/ ~ Exists(sessions, chain[t])
    \/ IsRevoked(sessions[chain[t]])
    \/ sessions[chain[t]].refreshTokenHash = Hash(t)

(* A session is revoked only by a call made for its own user: the caller of *)
(* a private RPC, or the owner of the refresh token presented.              *)
OnlyOwnerRevokes ==
  [][\A s \in SessionIDs :
       Exists(sessions, s) /\ ~ IsRevoked(sessions[s])
         /\ (Exists(sessions, s) /\ IsRevoked(sessions[s]))'
         => \E c \in Calls :
              /\ call'[c] # call[c]
              /\ sessions[s].userID =
                   IF call[c].caller = NoRow THEN Row(c).userID
                                             ELSE call[c].caller]_vars

(* Every RPC is answered: a slot in use becomes free again.                 *)
EveryCallReturns == \A c \in Calls : []<>(call[c].pc = "idle")

-----------------------------------------------------------------------------
(* The inductive invariant behind the safety properties.                    *)

(* Rows, in the table or in a snapshot: within the hard cap, and carrying a *)
(* token that was generated for that very session.                          *)
RowsOK(tab, ch, sid, tok) ==
  \A id \in SessionIDs : Exists(tab, id) =>
    /\ id < sid
    /\ tab[id].expiresAt = tab[id].issuedAt + RefreshTTL
    /\ tab[id].refreshTokenExpiresAt <= tab[id].expiresAt
    /\ tab[id].refreshTokenHash.sha256 < tok
    /\ ch[tab[id].refreshTokenHash.sha256] = id

(* Ids and tokens not generated yet have left no trace.                     *)
FreshOK ==
  /\ \A t \in Tokens : t >= nextToken => t \notin held /\ rotated[t] = 0
  /\ \A t \in Tokens : t < nextToken =>
       chain[t] \in SessionIDs /\ chain[t] < nextSid
  /\ \A s \in acked : s < nextSid

(* A token that was rotated away is not on the row of a live session.       *)
SpentOK ==
  \A t \in Tokens : rotated[t] > 0 =>
    \/ Ended(sessions, chain[t])
    \/ sessions[chain[t]].refreshTokenHash # Hash(t)

(* The program points of Refresh after it read its row.                     *)
RefreshPCs == {"refresh.user", "refresh.revoke", "refresh.rotate",
               "refresh.revokeAll"}

(* The columns no statement changes after the INSERT agree.                 *)
SameOrigin(snap, tab) ==
  \A id \in SessionIDs : Exists(snap, id) /\ Exists(tab, id) =>
    /\ snap[id].userID = tab[id].userID
    /\ snap[id].issuedAt = tab[id].issuedAt

(* Local variables of a call: what each program point may rely on.  A       *)
(* refresh knows no caller, only the owner of the row it read.              *)
CallOK(st, tab, ch, sid, tok) ==
  /\ st.pc # "idle" => st.now > 0
  /\ RowsOK(st.snap, ch, sid, tok)
  /\ SameOrigin(st.snap, tab)
  /\ st.pc \in {"login.create", "logout.get", "revokeSession.get",
                "revokeToken.get", "revokeAll.update", "revokeAll.list",
                "revokeAll.each"} => st.caller \in Users
  /\ st.pc \in RefreshPCs \cup {"refresh.session"} => st.caller = NoRow
  /\ st.pc \in RefreshPCs \cup {"refresh.session", "revokeToken.get"}
       => st.tok \in Tokens /\ st.tok < tok
  /\ st.pc \in RefreshPCs => ch[st.tok] = st.sid
  /\ st.pc \in RefreshPCs \cup {"revoke.update"}
       => st.sid \in SessionIDs /\ Exists(st.snap, st.sid)
  /\ st.pc = "revoke.update" => st.caller = st.snap[st.sid].userID
  /\ st.pc \in {"logout.get", "revokeSession.get"} => st.sid \in SessionIDs
  /\ st.pc = "logout.get" =>
       /\ st.sid < sid
       /\ Exists(tab, st.sid) => tab[st.sid].userID = st.caller
  /\ st.pc = "revokeAll.each" =>
       /\ \A id \in st.left : /\ Exists(st.snap, id)
                             /\ st.snap[id].userID = st.caller
       /\ \A id \in SessionIDs :
            Exists(st.snap, id) /\ id # st.sid /\ id \notin st.left
              => Ended(tab, id)

CallsOK == \A c \in Calls : CallOK(call[c], sessions, chain, nextSid, nextToken)

AckedOK == \A s \in acked : Ended(sessions, s)

Inv ==
  /\ TypeOK
  /\ RowsOK(sessions, chain, nextSid, nextToken)
  /\ FreshOK
  /\ SpentOK
  /\ CallsOK
  /\ AckedOK
  /\ TokenAcceptedOnce
  /\ NewestTokenIsCurrent

-----------------------------------------------------------------------------
(* What SessionsRunOut rests on: a user seen ACTIVE now was so at no later  *)
(* an instant than now, rows held by calls obey the bound like those of the *)
(* table, and a refresh about to rotate saw its user ACTIVE after the       *)
(* instant from which it computes the window.                               *)
WindowsOK(tab, seen) ==
  \A s \in SessionIDs : Exists(tab, s) => Within(tab[s], seen)

WindowInv ==
  /\ \A u \in Users : userStatus[u] = "ACTIVE" => lastActive[u] = clock
  /\ WindowsOK(sessions, lastActive)
  /\ \A c \in Calls :
       /\ call[c].now <= clock
       /\ WindowsOK(call[c].snap, lastActive)
       /\ At(c, "refresh.rotate") => call[c].now <= lastActive[Row(c).userID]
=============================================================================
