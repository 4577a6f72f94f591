-------------------------- MODULE AuthSessionsProofs --------------------------
(***************************************************************************)
(* Proofs about AuthSessions, for any number of users, concurrent RPCs,    *)
(* sessions, tokens and instants.  Everything rests on the inductive       *)
(* invariant Inv.  Most steps leave the token bookkeeping alone and only   *)
(* end sessions: those go through SettlingStep.  Login and Rotate, the two *)
(* steps that mint tokens, are proved on their own.                        *)
(***************************************************************************)
EXTENDS AuthSessions, TLAPS

(* Every row of new is a row of tab, up to the columns that may change.     *)
Descends(new, tab) ==
  \A id \in SessionIDs : Exists(new, id) =>
    /\ Exists(tab, id)
    /\ new[id].userID = tab[id].userID
    /\ new[id].issuedAt = tab[id].issuedAt

(* new differs from tab in sessions that are over in new: every other row   *)
(* was live in tab and keeps its refresh token.                             *)
Settles(tab, new) ==
  /\ new \in Table
  /\ Descends(new, tab)
  /\ \A id \in SessionIDs :
       \/ Ended(new, id)
       \/ /\ ~ Ended(tab, id)
          /\ new[id].refreshTokenHash = tab[id].refreshTokenHash

-----------------------------------------------------------------------------
(* Facts about rows and tables.                                            *)

(* A row of a table is a session.                                           *)
LEMMA RowType ==
  ASSUME NEW tab \in Table, NEW id \in SessionIDs, Exists(tab, id)
  PROVE  tab[id] \in Session
BY DEF Table, Exists

(* Only the revocation time changes when an aggregate is revoked, and the   *)
(* result is revoked.                                                       *)
LEMMA RevokedRow ==
  ASSUME NEW s \in Session, NEW now \in Nat, now > 0
  PROVE  /\ Revoke(s, now) \in Session
         /\ IsRevoked(Revoke(s, now))
         /\ Revoke(s, now).userID = s.userID
         /\ Revoke(s, now).issuedAt = s.issuedAt
         /\ Revoke(s, now).expiresAt = s.expiresAt
         /\ Revoke(s, now).refreshTokenExpiresAt = s.refreshTokenExpiresAt
         /\ Revoke(s, now).refreshTokenHash = s.refreshTokenHash
<1>1. CASE IsRevoked(s)
  BY <1>1 DEF Revoke
<1>2. CASE ~ IsRevoked(s)
  BY <1>2 DEF Revoke, IsRevoked, Session
<1> QED BY <1>1, <1>2

(* A table settles on itself.                                               *)
LEMMA SettlesOnItself ==
  ASSUME NEW tab \in Table
  PROVE  Settles(tab, tab)
BY DEF Settles, Descends

(* A sliding deadline never passes the hard cap.                            *)
LEMMA CappedWindowBound ==
  ASSUME NEW now \in Nat, NEW cap \in Nat
  PROVE  CappedWindow(now, cap) \in Nat /\ CappedWindow(now, cap) <= cap
BY TTLAssumption DEF CappedWindow

(* The row Login inserts.                                                   *)
LEMMA NewSessionRow ==
  ASSUME NEW u \in Users, NEW t \in Tokens, NEW now \in Nat
  PROVE  LET row == NewSession(u, t, now)
         IN  /\ row \in Session
             /\ ~ IsRevoked(row)
             /\ row.refreshTokenHash = Hash(t)
             /\ row.expiresAt = row.issuedAt + RefreshTTL
             /\ row.refreshTokenExpiresAt <= row.expiresAt
<1> DEFINE cap == now + RefreshTTL
           window == CappedWindow(now, cap)
<1>1. cap \in Nat /\ window \in Nat /\ window <= cap
  BY CappedWindowBound, TTLAssumption
<1>2. Hash(t) \in Hashes
  BY DEF Hash, Hashes
<1> HIDE DEF window
<1> QED BY <1>1, <1>2 DEF NewSession, Session, IsRevoked, window

(* Writing back a revoked aggregate, however stale, ends that session and   *)
(* leaves the others alone.                                                 *)
LEMMA UpdateSettles ==
  ASSUME NEW tab \in Table, NEW snap \in Table,
         NEW id \in SessionIDs, Exists(snap, id),
         NEW now \in Nat, now > 0,
         NEW ch, NEW sid, NEW tok,
         RowsOK(tab, ch, sid, tok), RowsOK(snap, ch, sid, tok),
         SameOrigin(snap, tab)
  PROVE  LET new == Update(tab, id, Revoke(snap[id], now))
         IN  /\ Settles(tab, new)
             /\ RowsOK(new, ch, sid, tok)
             /\ Ended(new, id)
<1> DEFINE s == Revoke(snap[id], now)
           new == Update(tab, id, s)
<1>1. /\ s \in Session
      /\ IsRevoked(s)
      /\ s.userID = snap[id].userID
      /\ s.issuedAt = snap[id].issuedAt
      /\ s.expiresAt = snap[id].expiresAt
      /\ s.refreshTokenExpiresAt = snap[id].refreshTokenExpiresAt
      /\ s.refreshTokenHash = snap[id].refreshTokenHash
  BY RowType, RevokedRow
<1>2. CASE ~ Exists(tab, id)
  BY <1>2, SettlesOnItself DEF Update, Ended
<1>3. CASE Exists(tab, id)
  <2>1. new = [tab EXCEPT ![id] = s]
    BY <1>3 DEF Update
  <2> HIDE DEF s, new
  <2>2. new \in Table /\ new[id] = s /\ \A i \in SessionIDs : i # id => new[i] = tab[i]
    BY <1>1, <2>1 DEF Table
  <2>3. Ended(new, id)
    BY <1>1, <2>2 DEF Ended
  <2>4. Settles(tab, new)
    <3>1. Descends(new, tab)
      BY <1>1, <1>3, <2>2 DEF Descends, SameOrigin, Exists
    <3> QED BY <2>2, <2>3, <3>1 DEF Settles, Ended, Exists
  <2>5. RowsOK(new, ch, sid, tok)
    BY <1>1, <2>2 DEF RowsOK, Exists
  <2> QED BY <2>3, <2>4, <2>5 DEF new, s
<1> QED BY <1>2, <1>3

(* The bulk statement ends every session of the user.                       *)
LEMMA RevokeAllSettles ==
  ASSUME NEW tab \in Table, NEW u, NEW now \in Nat, now > 0,
         NEW ch, NEW sid, NEW tok, RowsOK(tab, ch, sid, tok)
  PROVE  LET new == RevokeAllForUser(tab, u, now)
         IN  /\ Settles(tab, new)
             /\ RowsOK(new, ch, sid, tok)
             /\ \A id \in ListByUser(tab, u) : id < sid /\ Ended(new, id)
<1> DEFINE new == RevokeAllForUser(tab, u, now)
<1>1. \A id \in SessionIDs :
        IF id \in ListByUser(tab, u) THEN new[id] = Revoke(tab[id], now)
                                     ELSE new[id] = tab[id]
  BY DEF RevokeAllForUser
<1>2. \A id \in ListByUser(tab, u) :
        /\ id \in SessionIDs
        /\ Exists(tab, id)
        /\ new[id] \in Session
        /\ IsRevoked(new[id])
        /\ new[id].userID = tab[id].userID
        /\ new[id].issuedAt = tab[id].issuedAt
        /\ new[id].expiresAt = tab[id].expiresAt
        /\ new[id].refreshTokenExpiresAt = tab[id].refreshTokenExpiresAt
        /\ new[id].refreshTokenHash = tab[id].refreshTokenHash
  BY <1>1, RowType, RevokedRow DEF ListByUser
<1>3. new \in Table
  BY <1>1, <1>2 DEF Table, RevokeAllForUser
<1> HIDE DEF new
<1>4. Settles(tab, new)
  BY <1>1, <1>2, <1>3 DEF Settles, Descends, Ended, Exists
<1>5. RowsOK(new, ch, sid, tok)
  BY <1>1, <1>2 DEF RowsOK, Exists
<1>6. \A id \in ListByUser(tab, u) : id < sid /\ Ended(new, id)
  BY <1>2 DEF Ended, RowsOK
<1> QED BY <1>4, <1>5, <1>6 DEF new

(* The cascade ends every session of the user.                              *)
LEMMA CascadeSettles ==
  ASSUME NEW tab \in Table, NEW u,
         NEW ch, NEW sid, NEW tok, RowsOK(tab, ch, sid, tok)
  PROVE  LET new == CascadeDelete(tab, u)
         IN  Settles(tab, new) /\ RowsOK(new, ch, sid, tok)
<1> DEFINE new == CascadeDelete(tab, u)
<1>1. /\ new \in Table
      /\ \A id \in SessionIDs : new[id] = NoRow \/ new[id] = tab[id]
  BY DEF CascadeDelete, Table
<1> HIDE DEF new
<1>2. Settles(tab, new)
  BY <1>1 DEF Settles, Descends, Ended, Exists
<1>3. RowsOK(new, ch, sid, tok)
  BY <1>1 DEF RowsOK, Exists
<1> QED BY <1>2, <1>3 DEF new

(* A snapshot of some rows of the table is as good as the table.            *)
LEMMA SnapshotOK ==
  ASSUME NEW tab \in Table, NEW snap,
         snap = [id \in SessionIDs |-> snap[id]],
         \A id \in SessionIDs : snap[id] = NoRow \/ snap[id] = tab[id],
         NEW ch, NEW sid, NEW tok, RowsOK(tab, ch, sid, tok)
  PROVE  snap \in Table /\ RowsOK(snap, ch, sid, tok) /\ SameOrigin(snap, tab)
<1>1. snap \in Table
  BY DEF Table
<1>2. RowsOK(snap, ch, sid, tok)
  BY DEF RowsOK, Exists
<1>3. SameOrigin(snap, tab)
  BY DEF SameOrigin, Exists
<1> QED BY <1>1, <1>2, <1>3

(* The snapshot of a single row.                                            *)
LEMMA OneRowSnapshot ==
  ASSUME NEW tab \in Table, NEW id \in SessionIDs, Exists(tab, id),
         NEW ch, NEW sid, NEW tok, RowsOK(tab, ch, sid, tok)
  PROVE  LET snap == [NoRows EXCEPT ![id] = tab[id]]
         IN  /\ snap \in Table
             /\ snap[id] = tab[id]
             /\ RowsOK(snap, ch, sid, tok)
             /\ SameOrigin(snap, tab)
<1> DEFINE snap == [NoRows EXCEPT ![id] = tab[id]]
<1>1. /\ snap = [i \in SessionIDs |-> snap[i]]
      /\ snap[id] = tab[id]
      /\ \A i \in SessionIDs : snap[i] = NoRow \/ snap[i] = tab[i]
  BY DEF NoRows
<1> HIDE DEF snap
<1> QED BY <1>1, SnapshotOK DEF snap

-----------------------------------------------------------------------------
(* Facts about calls.                                                       *)

(* What holds of rows holds on as ids and tokens are generated.             *)
LEMMA RowsMonotone ==
  ASSUME NEW tab \in Table,
         NEW ch, NEW ch2, NEW sid \in Nat, NEW sid2 \in Nat,
         NEW tok \in Nat, NEW tok2 \in Nat,
         sid <= sid2, tok <= tok2,
         \A t \in Tokens : t < tok => ch2[t] = ch[t],
         RowsOK(tab, ch, sid, tok)
  PROVE  RowsOK(tab, ch2, sid2, tok2)
<1> SUFFICES ASSUME NEW id \in SessionIDs, Exists(tab, id)
             PROVE  /\ id < sid2
                    /\ tab[id].expiresAt = tab[id].issuedAt + RefreshTTL
                    /\ tab[id].refreshTokenExpiresAt <= tab[id].expiresAt
                    /\ tab[id].refreshTokenHash.sha256 < tok2
                    /\ ch2[tab[id].refreshTokenHash.sha256] = id
  BY DEF RowsOK
<1>1. id \in Nat /\ tab[id].refreshTokenHash.sha256 \in Tokens
  BY RowType DEF Session, Hashes, SessionIDs
<1>2. tab[id].refreshTokenHash.sha256 \in Nat
  BY <1>1 DEF Tokens
<1> QED BY <1>1, <1>2 DEF RowsOK

(* How the database and the generators may move under a call: ids and       *)
(* tokens known before keep their meaning, ended sessions stay ended.       *)
Grows(tab, new, ch, ch2, sid, sid2, tok, tok2) ==
  /\ sid \in Nat /\ sid2 \in Nat /\ sid <= sid2
  /\ tok \in Nat /\ tok2 \in Nat /\ tok <= tok2
  /\ \A t \in Tokens : t < tok => ch2[t] = ch[t]
  /\ \A id \in SessionIDs : id < sid =>
       /\ Ended(tab, id) => Ended(new, id)
       /\ Exists(new, id) => /\ Exists(tab, id)
                            /\ new[id].userID = tab[id].userID
                            /\ new[id].issuedAt = tab[id].issuedAt

(* What a call relies on survives other calls' steps.                       *)
LEMMA CallMonotone ==
  ASSUME NEW st \in CallState, NEW tab, NEW new, NEW ch, NEW ch2,
         NEW sid, NEW sid2, NEW tok, NEW tok2,
         Grows(tab, new, ch, ch2, sid, sid2, tok, tok2),
         CallOK(st, tab, ch, sid, tok)
  PROVE  CallOK(st, new, ch2, sid2, tok2)
<1>1. st.snap \in Table /\ st.tok \in Nat
  BY DEF CallState, Tokens
<1>2. RowsOK(st.snap, ch2, sid2, tok2)
  BY <1>1, RowsMonotone DEF CallOK, Grows
<1>3. st.sid \in Nat /\ SessionIDs \subseteq Nat
  BY DEF CallState, SessionIDs
<1>4. \A id \in SessionIDs : Exists(st.snap, id) => id < sid
  BY DEF CallOK, RowsOK
<1>5. SameOrigin(st.snap, new)
  BY <1>4 DEF CallOK, SameOrigin, Grows
<1>6. /\ st.pc = "logout.get" =>
           /\ st.sid < sid2
           /\ Exists(new, st.sid) => new[st.sid].userID = st.caller
      /\ st.pc \in RefreshPCs => ch2[st.tok] = st.sid
      /\ st.pc \in RefreshPCs \cup {"refresh.session", "revokeToken.get"}
           => st.tok \in Tokens /\ st.tok < tok2
  BY <1>1, <1>3 DEF CallOK, Grows
<1>7. st.pc = "revokeAll.each" =>
        \A id \in SessionIDs :
          Exists(st.snap, id) /\ id # st.sid /\ id \notin st.left => Ended(new, id)
  BY <1>4 DEF CallOK, Grows
<1> QED BY <1>2, <1>5, <1>6, <1>7 DEF CallOK

(* An idle call relies on nothing.                                          *)
LEMMA IdleOK ==
  ASSUME NEW tab, NEW ch, NEW sid, NEW tok
  PROVE  Idle \in CallState /\ CallOK(Idle, tab, ch, sid, tok)
<1>1. NoRows \in Table /\ \A id \in SessionIDs : ~ Exists(NoRows, id)
  BY DEF NoRows, Table, Exists
<1>2. Idle \in CallState
  BY <1>1 DEF Idle, CallState, PCs, Codes
<1>3. RowsOK(NoRows, ch, sid, tok)
  BY <1>1 DEF RowsOK
<1>4. SameOrigin(NoRows, tab)
  BY <1>1 DEF SameOrigin
<1>5. CallOK(Idle, tab, ch, sid, tok)
  BY <1>3, <1>4 DEF CallOK, Idle, RefreshPCs
<1> QED BY <1>2, <1>5

(* A step that generates no id and no token, ends sessions or leaves them   *)
(* alone, and moves calls to states they may rely on, keeps the invariant.  *)
LEMMA SettlingStep ==
  ASSUME Inv,
         clock' \in 1 .. MaxTime,
         userStatus' \in [Users -> UserStatuses],
         lastActive' \in [Users -> 1 .. clock'],
         reply' \in Codes,
         UNCHANGED <<mint, client, chain, rotated>>,
         Settles(sessions, sessions'),
         RowsOK(sessions', chain, nextSid, nextToken),
         acked \subseteq acked',
         \A s \in acked' \ acked :
           s \in SessionIDs /\ s < nextSid /\ Ended(sessions', s),
         call' \in [Calls -> CallState],
         \A c \in Calls :
           \/ call'[c] = call[c]
           \/ CallOK(call'[c], sessions', chain, nextSid, nextToken)
  PROVE  Inv'
<1> USE DEF mint, client
<1>1. TypeOK'
  BY DEF Inv, TypeOK, Settles
<1>2. RowsOK(sessions, chain, nextSid, nextToken)'
  BY DEF RowsOK
<1>3. FreshOK'
  BY DEF Inv, FreshOK
<1>4. \A id \in SessionIDs : Ended(sessions, id) => Ended(sessions', id)
  BY DEF Settles
<1>5. AckedOK'
  BY <1>4 DEF Inv, TypeOK, AckedOK
<1>6. CallsOK'
  <2> SUFFICES ASSUME NEW c \in Calls
               PROVE  CallOK(call'[c], sessions', chain', nextSid', nextToken')
    BY DEF CallsOK
  <2>1. CASE CallOK(call'[c], sessions', chain, nextSid, nextToken)
    BY <2>1
  <2>2. CASE call'[c] = call[c]
    <3>1. call[c] \in CallState /\ nextSid \in Nat /\ nextToken \in Nat
      BY BoundsAssumption DEF Inv, TypeOK
    <3>2. CallOK(call[c], sessions, chain, nextSid, nextToken)
      BY DEF Inv, CallsOK
    <3>3. Grows(sessions, sessions', chain, chain, nextSid, nextSid,
                nextToken, nextToken)
      BY <1>4, <3>1 DEF Grows, Settles, Descends
    <3>4. CallOK(call[c], sessions', chain, nextSid, nextToken)
      BY <3>1, <3>2, <3>3, CallMonotone
    <3> QED BY <2>2, <3>4
  <2> QED BY <2>1, <2>2
<1>7. \A t \in Tokens : t < nextToken => chain[t] \in SessionIDs
  BY DEF Inv, FreshOK
<1>8. \A t \in Tokens : t \in held \/ rotated[t] > 0 => chain[t] \in SessionIDs
  BY <1>7, BoundsAssumption DEF Inv, TypeOK, FreshOK, Tokens
<1>9. SpentOK'
  BY <1>8 DEF Inv, TypeOK, SpentOK, Settles
<1>10. TokenAcceptedOnce'
  BY <1>4, <1>8 DEF Inv, TypeOK, TokenAcceptedOnce, Ended
<1>11. NewestTokenIsCurrent'
  BY <1>8 DEF Inv, TypeOK, NewestTokenIsCurrent, Settles, Ended
<1> QED
  BY <1>1, <1>2, <1>3, <1>5, <1>6, <1>9, <1>10, <1>11 DEF Inv

(* The same for a step of one call.                                         *)
LEMMA CallStep ==
  ASSUME Inv, NEW c \in Calls, NEW st \in CallState,
         call' = [call EXCEPT ![c] = st],
         reply' \in Codes,
         UNCHANGED <<world, mint, client, chain, rotated>>,
         Settles(sessions, sessions'),
         RowsOK(sessions', chain, nextSid, nextToken),
         acked \subseteq acked',
         \A s \in acked' \ acked :
           s \in SessionIDs /\ s < nextSid /\ Ended(sessions', s),
         CallOK(st, sessions', chain, nextSid, nextToken)
  PROVE  Inv'
<1>1. /\ clock' \in 1 .. MaxTime
      /\ userStatus' \in [Users -> UserStatuses]
      /\ lastActive' \in [Users -> 1 .. clock']
      /\ call' \in [Calls -> CallState]
  BY DEF Inv, TypeOK, world
<1>2. \A d \in Calls : \/ call'[d] = call[d]
                        \/ CallOK(call'[d], sessions', chain, nextSid, nextToken)
  BY DEF Inv, TypeOK
<1>3. UNCHANGED <<mint, client, chain, rotated>>
  OBVIOUS
<1> QED BY <1>1, <1>2, <1>3, SettlingStep

(* A step that returns from a call.                                         *)
LEMMA ReturnStep ==
  ASSUME Inv, NEW c \in Calls, NEW code \in Codes, Return(c, code),
         UNCHANGED <<world, mint, client, chain, rotated>>,
         Settles(sessions, sessions'),
         RowsOK(sessions', chain, nextSid, nextToken),
         acked \subseteq acked',
         \A s \in acked' \ acked :
           s \in SessionIDs /\ s < nextSid /\ Ended(sessions', s)
  PROVE  Inv'
BY IdleOK, CallStep DEF Return

(* A step of a call that writes nothing to the database.                    *)
LEMMA ReadStep ==
  ASSUME Inv, NEW c \in Calls, NEW st \in CallState,
         call' = [call EXCEPT ![c] = st],
         reply' \in Codes,
         UNCHANGED <<world, sessions, mint, client, history>>,
         CallOK(st, sessions, chain, nextSid, nextToken)
  PROVE  Inv'
<1>1. /\ Settles(sessions, sessions')
      /\ RowsOK(sessions', chain, nextSid, nextToken)
  BY SettlesOnItself DEF Inv, TypeOK
<1>2. acked' = acked /\ UNCHANGED <<world, mint, client, chain, rotated>>
  BY DEF history
<1> QED BY <1>1, <1>2, CallStep

(* A step that returns from a call and writes nothing to the database.      *)
LEMMA ReturnRead ==
  ASSUME Inv, NEW c \in Calls, NEW code \in Codes, Return(c, code),
         UNCHANGED <<world, sessions, mint, client, history>>
  PROVE  Inv'
BY IdleOK, ReadStep DEF Return

(* What a call in flight is known to satisfy.                               *)
LEMMA CallFacts ==
  ASSUME Inv, NEW c \in Calls
  PROVE  /\ call[c] \in CallState
         /\ CallOK(call[c], sessions, chain, nextSid, nextToken)
         /\ clock \in Nat /\ clock > 0
         /\ nextSid \in Nat /\ nextToken \in Nat
         /\ sessions \in Table
         /\ RowsOK(sessions, chain, nextSid, nextToken)
BY BoundsAssumption, ClockAssumption DEF Inv, TypeOK, CallsOK

(* A token on the row of a session was generated for that session.          *)
LEMMA FoundByHash ==
  ASSUME NEW tab \in Table, NEW ch, NEW sid, NEW tok, RowsOK(tab, ch, sid, tok),
         NEW t \in Tokens, NEW id \in GetByRefreshHash(tab, Hash(t))
  PROVE  id \in SessionIDs /\ Exists(tab, id) /\ ch[t] = id
BY DEF GetByRefreshHash, RowsOK, Hash

-----------------------------------------------------------------------------
(* One lemma per action: each keeps the invariant.                          *)

(* Login up to the INSERT changes no row.                                   *)
LEMMA LoginBeginInv ==
  ASSUME Inv, NEW c \in Calls, NEW u \in Users, LoginBegin(c, u)
  PROVE  Inv'
<1> DEFINE st == [Idle EXCEPT !.pc = "login.create", !.caller = u,
                              !.now = clock]
<1>1. UNCHANGED <<world, sessions, mint, client, history>>
  BY DEF LoginBegin
<1>2. CASE Goto(c, st)
  <2>1. st \in CallState
    BY IdleOK, CallFacts DEF CallState, PCs
  <2>2. CallOK(st, sessions, chain, nextSid, nextToken)
    BY IdleOK, CallFacts DEF CallOK, Idle, RefreshPCs
  <2> HIDE DEF st
  <2> QED BY <1>1, <1>2, <2>1, <2>2, ReadStep DEF Goto, Codes
<1>3. CASE Return(c, "USER_BLOCKED") \/ Return(c, "INVALID_CREDENTIALS")
  BY <1>1, <1>3, ReturnRead DEF Codes
<1> QED BY <1>2, <1>3 DEF LoginBegin

(* A token presented to Refresh was generated before.                       *)
LEMMA RefreshBeginInv ==
  ASSUME Inv, NEW c \in Calls, NEW t \in Tokens, RefreshBegin(c, t)
  PROVE  Inv'
<1> DEFINE st == [Idle EXCEPT !.pc = "refresh.session", !.tok = t, !.now = clock]
<1>1. /\ call' = [call EXCEPT ![c] = st] /\ reply' = "none"
      /\ UNCHANGED <<world, sessions, mint, client, history>>
  BY DEF RefreshBegin, Begin, Goto
<1>2. st \in CallState
  BY IdleOK, CallFacts DEF CallState, PCs
<1>3. t < nextToken
  BY CallFacts DEF RefreshBegin, Inv, FreshOK, Tokens
<1>4. CallOK(st, sessions, chain, nextSid, nextToken)
  BY <1>3, IdleOK, CallFacts DEF CallOK, Idle, RefreshPCs
<1> HIDE DEF st
<1> QED BY <1>1, <1>2, <1>4, ReadStep DEF Codes

(* The row Refresh finds is the one its token was generated for.            *)
LEMMA RefreshGetSessionInv ==
  ASSUME Inv, NEW c \in Calls, RefreshGetSession(c)
  PROVE  Inv'
<1> DEFINE found == GetByRefreshHash(sessions, Hash(call[c].tok))
           snap(id) == [NoRows EXCEPT ![id] = sessions[id]]
           st(id) == [call[c] EXCEPT !.pc = "refresh.user", !.sid = id,
                                     !.snap = snap(id)]
<1>1. UNCHANGED <<world, sessions, mint, client, history>>
  BY DEF RefreshGetSession
<1>2. CASE Return(c, "INVALID_TOKEN")
  BY <1>1, <1>2, ReturnRead DEF Codes
<1>3. ASSUME NEW id \in found, Goto(c, st(id))
      PROVE  Inv'
  <2>1. /\ call[c].tok \in Tokens /\ call[c].tok < nextToken
        /\ call[c].now > 0 /\ call[c].caller = NoRow
    BY CallFacts DEF CallOK, RefreshGetSession, At
  <2>2. id \in SessionIDs /\ Exists(sessions, id) /\ chain[call[c].tok] = id
    BY <2>1, FoundByHash, CallFacts
  <2>3. /\ snap(id) \in Table
        /\ snap(id)[id] = sessions[id]
        /\ RowsOK(snap(id), chain, nextSid, nextToken)
        /\ SameOrigin(snap(id), sessions)
    BY <2>2, OneRowSnapshot, CallFacts
  <2> HIDE DEF snap
  <2>4. st(id) \in CallState
    BY <2>2, <2>3, CallFacts DEF CallState, PCs
  <2>5. /\ st(id).pc = "refresh.user" /\ st(id).sid = id /\ st(id).snap = snap(id)
        /\ st(id).tok = call[c].tok /\ st(id).now = call[c].now
        /\ st(id).caller = call[c].caller
    BY CallFacts DEF CallState
  <2> HIDE DEF st
  <2>6. CallOK(st(id), sessions, chain, nextSid, nextToken)
    BY <2>1, <2>2, <2>3, <2>5 DEF CallOK, Exists, RefreshPCs
  <2> QED BY <1>1, <1>3, <2>4, <2>6, ReadStep DEF Goto, Codes
<1> QED BY <1>2, <1>3 DEF RefreshGetSession

(* The user lookup of Refresh only picks the next program point.            *)
LEMMA RefreshGetUserInv ==
  ASSUME Inv, NEW c \in Calls, RefreshGetUser(c)
  PROVE  Inv'
<1>1. UNCHANGED <<world, sessions, mint, client, history>>
  BY DEF RefreshGetUser
<1>2. PICK pc \in {"refresh.rotate", "refresh.revoke"}, code \in Codes :
        Goto(c, [call[c] EXCEPT !.pc = pc, !.code = code])
  <2>1. CASE userStatus[Row(c).userID] = "ACTIVE"
    <3>1. [call[c] EXCEPT !.pc = "refresh.rotate"]
          = [call[c] EXCEPT !.pc = "refresh.rotate", !.code = call[c].code]
      BY CallFacts DEF CallState
    <3> QED BY <2>1, <3>1, CallFacts DEF RefreshGetUser, CallState
  <2>2. CASE userStatus[Row(c).userID] # "ACTIVE"
    BY <2>2 DEF RefreshGetUser, Codes
  <2> QED BY <2>1, <2>2
<1> DEFINE st == [call[c] EXCEPT !.pc = pc, !.code = code]
<1>3. /\ st \in CallState
      /\ st.pc = pc /\ st.sid = call[c].sid /\ st.snap = call[c].snap
      /\ st.tok = call[c].tok /\ st.now = call[c].now
      /\ st.caller = call[c].caller
  BY CallFacts DEF CallState, PCs
<1> HIDE DEF st
<1>4. CallOK(st, sessions, chain, nextSid, nextToken)
  BY <1>3, CallFacts DEF CallOK, RefreshGetUser, At, RefreshPCs
<1> QED BY <1>1, <1>2, <1>3, <1>4, ReadStep DEF Goto, Codes, st

(* The best-effort revocation of Refresh ends the session or does nothing.  *)
LEMMA RefreshRevokeInv ==
  ASSUME Inv, NEW c \in Calls, RefreshRevoke(c)
  PROVE  Inv'
<1>1. /\ call[c].code \in Codes /\ call[c].snap \in Table
      /\ call[c].now \in Nat /\ call[c].now > 0
      /\ call[c].sid \in SessionIDs /\ Exists(call[c].snap, call[c].sid)
      /\ RowsOK(call[c].snap, chain, nextSid, nextToken)
      /\ SameOrigin(call[c].snap, sessions)
  BY CallFacts DEF CallOK, CallState, RefreshRevoke, At, RefreshPCs
<1>2. /\ Settles(sessions, sessions')
      /\ RowsOK(sessions', chain, nextSid, nextToken)
  <2>1. CASE sessions' = sessions
    BY <2>1, CallFacts, SettlesOnItself
  <2>2. CASE sessions' = Update(sessions, call[c].sid, Revoke(Row(c), call[c].now))
    BY <1>1, <2>2, CallFacts, UpdateSettles DEF Row
  <2> QED BY <2>1, <2>2 DEF RefreshRevoke
<1>3. /\ UNCHANGED <<world, mint, client, chain, rotated>>
      /\ acked' = acked /\ Return(c, call[c].code)
  BY DEF RefreshRevoke, history
<1> QED BY <1>1, <1>2, <1>3, ReturnStep

(* A Refresh that lost the race for its row only moves on.                  *)
LEMMA RefreshReusedInv ==
  ASSUME Inv, NEW c \in Calls, RefreshReused(c)
  PROVE  Inv'
<1> DEFINE st == [call[c] EXCEPT !.pc = "refresh.revokeAll"]
<1>1. /\ st \in CallState
      /\ st.pc = "refresh.revokeAll" /\ st.sid = call[c].sid
      /\ st.snap = call[c].snap /\ st.tok = call[c].tok /\ st.now = call[c].now
      /\ st.caller = call[c].caller
  BY CallFacts DEF CallState, PCs
<1>2. /\ UNCHANGED <<world, sessions, mint, client, history>>
      /\ Goto(c, st)
  BY DEF RefreshReused
<1> HIDE DEF st
<1>3. CallOK(st, sessions, chain, nextSid, nextToken)
  BY <1>1, CallFacts DEF CallOK, RefreshReused, At, RefreshPCs
<1> QED BY <1>1, <1>2, <1>3, ReadStep DEF Goto, Codes

(* A detected replay ends every session of the user or none.                *)
LEMMA RefreshRevokeAllInv ==
  ASSUME Inv, NEW c \in Calls, RefreshRevokeAll(c)
  PROVE  Inv'
<1>1. call[c].now \in Nat /\ call[c].now > 0
  BY CallFacts DEF CallOK, CallState, RefreshRevokeAll, At
<1>2. /\ Settles(sessions, sessions')
      /\ RowsOK(sessions', chain, nextSid, nextToken)
      /\ acked \subseteq acked'
      /\ \A s \in acked' \ acked :
           s \in SessionIDs /\ s < nextSid /\ Ended(sessions', s)
  <2>1. CASE sessions' = sessions /\ acked' = acked
    BY <2>1, CallFacts, SettlesOnItself
  <2>2. CASE /\ sessions' = RevokeAllForUser(sessions, Row(c).userID, call[c].now)
             /\ acked' = acked \cup ListByUser(sessions, Row(c).userID)
    <3>1. ListByUser(sessions, Row(c).userID) \subseteq SessionIDs
      BY DEF ListByUser
    <3> QED BY <1>1, <2>2, <3>1, CallFacts, RevokeAllSettles
  <2> QED BY <2>1, <2>2 DEF RefreshRevokeAll
<1>3. /\ UNCHANGED <<world, mint, client, chain, rotated>>
      /\ Return(c, "REFRESH_TOKEN_REUSED")
  BY DEF RefreshRevokeAll
<1> QED BY <1>2, <1>3, ReturnStep DEF Codes

(* The interceptor lets a private RPC in without touching the database.     *)
LEMMA AuthenticateInv ==
  ASSUME Inv, NEW c \in Calls, NEW s \in SessionIDs, NEW st \in CallState,
         Authenticate(c, s, st),
         st.snap = NoRows,
         st.pc \in {"logout.get", "revokeSession.get", "revokeToken.get",
                    "revokeAll.update", "revokeAll.list"},
         st.pc = "logout.get" => st.sid = s,
         st.pc = "revokeSession.get" => st.sid \in SessionIDs,
         st.pc = "revokeToken.get" => st.tok \in Tokens /\ st.tok < nextToken
  PROVE  Inv'
<1> DEFINE in == [st EXCEPT !.caller = sessions[s].userID, !.now = clock]
<1>1. sessions[s].userID \in Users /\ s < nextSid
  BY CallFacts, RowType
     DEF Authenticate, Authenticated, SessionAccepted, Session, RowsOK
<1>2. /\ in \in CallState
      /\ in.pc = st.pc /\ in.sid = st.sid /\ in.snap = NoRows
      /\ in.tok = st.tok /\ in.now = clock /\ in.caller = sessions[s].userID
  BY <1>1, CallFacts DEF CallState
<1>3. /\ UNCHANGED <<world, sessions, mint, client, history>>
      /\ Begin(c, in)
  BY DEF Authenticate
<1> HIDE DEF in
<1>4. RowsOK(NoRows, chain, nextSid, nextToken) /\ SameOrigin(NoRows, sessions)
  BY DEF NoRows, RowsOK, SameOrigin, Exists
<1>5. CallOK(in, sessions, chain, nextSid, nextToken)
  BY <1>1, <1>2, <1>4, CallFacts DEF CallOK, RefreshPCs
<1> QED BY <1>2, <1>3, <1>5, ReadStep DEF Begin, Goto, Codes

(* Logout enters its handler.                                               *)
LEMMA LogoutBeginInv ==
  ASSUME Inv, NEW c \in Calls, NEW s \in SessionIDs, LogoutBegin(c, s)
  PROVE  Inv'
<1> DEFINE st == [Idle EXCEPT !.pc = "logout.get", !.sid = s]
<1>1. st \in CallState /\ st.snap = NoRows /\ st.pc = "logout.get" /\ st.sid = s
  BY IdleOK DEF CallState, PCs, Idle
<1> QED BY <1>1, AuthenticateInv DEF LogoutBegin

(* RevokeSession enters its handler.                                        *)
LEMMA RevokeSessionBeginInv ==
  ASSUME Inv, NEW c \in Calls, NEW s \in SessionIDs, NEW target \in SessionIDs,
         RevokeSessionBegin(c, s, target)
  PROVE  Inv'
<1> DEFINE st == [Idle EXCEPT !.pc = "revokeSession.get", !.sid = target]
<1>1. /\ st \in CallState /\ st.snap = NoRows
      /\ st.pc = "revokeSession.get" /\ st.sid = target
  BY IdleOK DEF CallState, PCs, Idle
<1> QED BY <1>1, AuthenticateInv DEF RevokeSessionBegin

(* RevokeToken enters its handler.                                          *)
LEMMA RevokeTokenBeginInv ==
  ASSUME Inv, NEW c \in Calls, NEW s \in SessionIDs, NEW t \in Tokens,
         RevokeTokenBegin(c, s, t)
  PROVE  Inv'
<1> DEFINE st == [Idle EXCEPT !.pc = "revokeToken.get", !.tok = t]
<1>1. /\ st \in CallState /\ st.snap = NoRows
      /\ st.pc = "revokeToken.get" /\ st.tok = t
  BY IdleOK DEF CallState, PCs, Idle
<1>2. t < nextToken
  BY CallFacts DEF RevokeTokenBegin, Inv, FreshOK, Tokens
<1> QED BY <1>1, <1>2, AuthenticateInv DEF RevokeTokenBegin

(* RevokeAllSessions enters its handler, in either of its two forms.        *)
LEMMA RevokeAllBeginInv ==
  ASSUME Inv, NEW c \in Calls, NEW s \in SessionIDs,
         RevokeAllBegin(c, s) \/ RevokeAllExceptBegin(c, s)
  PROVE  Inv'
<1> DEFINE all == [Idle EXCEPT !.pc = "revokeAll.update"]
           others == [Idle EXCEPT !.pc = "revokeAll.list", !.sid = s]
<1>1. all \in CallState /\ all.snap = NoRows /\ all.pc = "revokeAll.update"
  BY IdleOK DEF CallState, PCs, Idle
<1>2. others \in CallState /\ others.snap = NoRows /\ others.pc = "revokeAll.list"
  BY IdleOK DEF CallState, PCs, Idle
<1>3. CASE RevokeAllBegin(c, s)
  BY <1>1, <1>3, AuthenticateInv DEF RevokeAllBegin
<1>4. CASE RevokeAllExceptBegin(c, s)
  BY <1>2, <1>4, AuthenticateInv DEF RevokeAllExceptBegin
<1> QED BY <1>3, <1>4

(* A session is acknowledged as revoked without a write only if its row was *)
(* seen revoked; otherwise the row is remembered for the write.             *)
LEMMA RevokeRowInv ==
  ASSUME Inv, NEW c \in Calls, NEW id \in SessionIDs, Exists(sessions, id),
         sessions[id].userID = call[c].caller,
         RevokeRow(c, id),
         UNCHANGED <<world, sessions, mint, client, chain, rotated>>
  PROVE  Inv'
<1>1. CASE IsRevoked(sessions[id])
  <2>1. acked' = acked \cup {id} /\ Return(c, "OK")
    BY <1>1 DEF RevokeRow
  <2>2. id < nextSid /\ Ended(sessions', id)
    BY <1>1, CallFacts DEF RowsOK, Ended
  <2>3. /\ Settles(sessions, sessions')
        /\ RowsOK(sessions', chain, nextSid, nextToken)
    BY CallFacts, SettlesOnItself
  <2> QED BY <2>1, <2>2, <2>3, ReturnStep DEF Codes
<1>2. CASE ~ IsRevoked(sessions[id])
  <2> DEFINE snap == [NoRows EXCEPT ![id] = sessions[id]]
             st == [call[c] EXCEPT !.pc = "revoke.update", !.sid = id,
                                   !.now = clock, !.snap = snap]
  <2>1. Goto(c, st) /\ acked' = acked
    BY <1>2 DEF RevokeRow
  <2>2. /\ snap \in Table
        /\ snap[id] = sessions[id]
        /\ RowsOK(snap, chain, nextSid, nextToken)
        /\ SameOrigin(snap, sessions)
    BY CallFacts, OneRowSnapshot
  <2> HIDE DEF snap
  <2>3. /\ st \in CallState
        /\ st.pc = "revoke.update" /\ st.sid = id
        /\ st.snap = snap /\ st.now = clock /\ st.caller = call[c].caller
    BY <2>2, CallFacts DEF CallState, PCs
  <2> HIDE DEF st
  <2>4. CallOK(st, sessions, chain, nextSid, nextToken)
    BY <2>2, <2>3, CallFacts DEF CallOK, Exists, RefreshPCs
  <2>5. UNCHANGED <<world, sessions, mint, client, history>>
    BY <2>1 DEF history
  <2> QED BY <2>1, <2>3, <2>4, <2>5, ReadStep DEF Goto, Codes
<1> QED BY <1>1, <1>2

(* The read of Logout.                                                      *)
LEMMA LogoutGetInv ==
  ASSUME Inv, NEW c \in Calls, LogoutGet(c)
  PROVE  Inv'
<1>1. /\ call[c].sid \in SessionIDs
      /\ Exists(sessions, call[c].sid) =>
           sessions[call[c].sid].userID = call[c].caller
  BY CallFacts DEF CallOK, LogoutGet, At
<1>2. CASE Exists(sessions, call[c].sid)
  BY <1>1, <1>2, RevokeRowInv DEF LogoutGet
<1>3. CASE ~ Exists(sessions, call[c].sid)
  BY <1>3, ReturnRead DEF LogoutGet, Codes, history
<1> QED BY <1>2, <1>3

(* The read of RevokeSession.                                               *)
LEMMA RevokeSessionGetInv ==
  ASSUME Inv, NEW c \in Calls, RevokeSessionGet(c)
  PROVE  Inv'
<1>1. call[c].sid \in SessionIDs
  BY CallFacts DEF CallOK, RevokeSessionGet, At
<1>2. CASE ~ Exists(sessions, call[c].sid)
  BY <1>2, ReturnRead DEF RevokeSessionGet, Codes, history
<1>3. CASE /\ Exists(sessions, call[c].sid)
           /\ sessions[call[c].sid].userID # call[c].caller
  BY <1>3, ReturnRead DEF RevokeSessionGet, Codes, history
<1>4. CASE /\ Exists(sessions, call[c].sid)
           /\ sessions[call[c].sid].userID = call[c].caller
  BY <1>1, <1>4, RevokeRowInv DEF RevokeSessionGet
<1> QED BY <1>2, <1>3, <1>4

(* The read of RevokeToken.                                                 *)
LEMMA RevokeTokenGetInv ==
  ASSUME Inv, NEW c \in Calls, RevokeTokenGet(c)
  PROVE  Inv'
<1> DEFINE found == GetByRefreshHash(sessions, Hash(call[c].tok))
<1>1. /\ UNCHANGED <<world, sessions, mint, client, chain, rotated>>
      /\ \A id \in found : id \in SessionIDs /\ Exists(sessions, id)
  BY DEF RevokeTokenGet, GetByRefreshHash
<1>2. CASE Return(c, "OK") /\ acked' = acked
  BY <1>1, <1>2, ReturnRead DEF Codes, history
<1>3. CASE Return(c, "SESSION_NOT_OWNED") /\ acked' = acked
  BY <1>1, <1>3, ReturnRead DEF Codes, history
<1>4. CASE \E id \in found : /\ sessions[id].userID = call[c].caller
                            /\ RevokeRow(c, id)
  BY <1>1, <1>4, RevokeRowInv
<1> QED BY <1>2, <1>3, <1>4 DEF RevokeTokenGet

(* The write of Logout, RevokeSession and RevokeToken.                      *)
LEMMA RevokeUpdateInv ==
  ASSUME Inv, NEW c \in Calls, RevokeUpdate(c)
  PROVE  Inv'
<1>1. /\ call[c].snap \in Table
      /\ call[c].now \in Nat /\ call[c].now > 0
      /\ call[c].sid \in SessionIDs /\ Exists(call[c].snap, call[c].sid)
      /\ RowsOK(call[c].snap, chain, nextSid, nextToken)
      /\ SameOrigin(call[c].snap, sessions)
  BY CallFacts DEF CallOK, CallState, RevokeUpdate, At
<1>2. PICK now \in Since(c) :
        /\ sessions' = Update(sessions, call[c].sid, Revoke(Row(c), now))
        /\ \/ acked' = acked \cup {call[c].sid}
           \/ acked' = acked
        /\ \E code \in Codes : Return(c, code)
  BY DEF RevokeUpdate, Codes
<1>3. now \in Nat /\ now > 0
  BY <1>1, CallFacts DEF Since
<1>4. /\ Settles(sessions, sessions')
      /\ RowsOK(sessions', chain, nextSid, nextToken)
      /\ Ended(sessions', call[c].sid)
  BY <1>1, <1>2, <1>3, CallFacts, UpdateSettles DEF Row
<1>5. call[c].sid < nextSid
  BY <1>1 DEF RowsOK
<1>6. UNCHANGED <<world, mint, client, chain, rotated>>
  BY DEF RevokeUpdate
<1>7. /\ acked \subseteq acked'
      /\ \A s \in acked' \ acked :
           s \in SessionIDs /\ s < nextSid /\ Ended(sessions', s)
  BY <1>1, <1>2, <1>4, <1>5
<1> QED BY <1>2, <1>4, <1>6, <1>7, ReturnStep

(* The bulk write of RevokeAllSessions.                                     *)
LEMMA RevokeAllUpdateInv ==
  ASSUME Inv, NEW c \in Calls, RevokeAllUpdate(c)
  PROVE  Inv'
<1> DEFINE mine == ListByUser(sessions, call[c].caller)
<1>1. call[c].now \in Nat /\ call[c].now > 0
  BY CallFacts DEF CallOK, CallState, RevokeAllUpdate, At
<1>2. PICK now \in Since(c) :
        sessions' = RevokeAllForUser(sessions, call[c].caller, now)
  BY DEF RevokeAllUpdate
<1>3. now \in Nat /\ now > 0
  BY <1>1, CallFacts DEF Since
<1>4. /\ Settles(sessions, sessions')
      /\ RowsOK(sessions', chain, nextSid, nextToken)
      /\ \A id \in mine : id < nextSid /\ Ended(sessions', id)
  BY <1>2, <1>3, CallFacts, RevokeAllSettles
<1>5. mine \subseteq SessionIDs
  BY DEF ListByUser
<1>6. /\ acked' = acked \cup mine \/ acked' = acked
      /\ \E code \in Codes : Return(c, code)
      /\ UNCHANGED <<world, mint, client, chain, rotated>>
  BY DEF RevokeAllUpdate, Codes
<1> QED BY <1>4, <1>5, <1>6, ReturnStep

(* The list RevokeAllSessions reads covers every row it will answer for.    *)
LEMMA RevokeAllListInv ==
  ASSUME Inv, NEW c \in Calls, RevokeAllList(c)
  PROVE  Inv'
<1> DEFINE mine == ListByUser(sessions, call[c].caller)
           snap == [id \in SessionIDs |->
                      IF id \in mine THEN sessions[id] ELSE NoRow]
           left == {id \in mine : ~ IsRevoked(sessions[id]) /\ id # call[c].sid}
           st(now) == [call[c] EXCEPT !.pc = "revokeAll.each", !.now = now,
                                      !.snap = snap, !.left = left]
<1>1. call[c].now \in Nat /\ call[c].now > 0 /\ call[c].caller \in Users
  BY CallFacts DEF CallOK, CallState, RevokeAllList, At
<1>2. PICK now \in Since(c) : Goto(c, st(now))
  BY DEF RevokeAllList
<1>3. now \in Nat /\ now > 0
  BY <1>1, CallFacts DEF Since
<1>4. /\ snap \in Table
      /\ RowsOK(snap, chain, nextSid, nextToken)
      /\ SameOrigin(snap, sessions)
  BY CallFacts, SnapshotOK
<1>5. /\ left \subseteq SessionIDs
      /\ \A id \in left : Exists(snap, id) /\ snap[id].userID = call[c].caller
      /\ \A id \in SessionIDs :
           Exists(snap, id) /\ id # call[c].sid /\ id \notin left
             => Ended(sessions, id)
  BY DEF ListByUser, Exists, Ended
<1> HIDE DEF snap, left
<1>6. /\ st(now) \in CallState
      /\ st(now).pc = "revokeAll.each" /\ st(now).sid = call[c].sid
      /\ st(now).snap = snap /\ st(now).left = left /\ st(now).now = now
      /\ st(now).caller = call[c].caller
  BY <1>3, <1>4, <1>5, CallFacts DEF CallState, PCs
<1> HIDE DEF st
<1>7. CallOK(st(now), sessions, chain, nextSid, nextToken)
  BY <1>1, <1>3, <1>4, <1>5, <1>6 DEF CallOK, RefreshPCs
<1>8. UNCHANGED <<world, sessions, mint, client, history>>
  BY DEF RevokeAllList
<1> QED BY <1>2, <1>6, <1>7, <1>8, ReadStep DEF Goto, Codes

(* One write of the loop of RevokeAllSessions.                              *)
LEMMA RevokeAllEachInv ==
  ASSUME Inv, NEW c \in Calls, RevokeAllEach(c)
  PROVE  Inv'
<1>1. /\ call[c].snap \in Table /\ call[c].left \subseteq SessionIDs
      /\ call[c].now \in Nat /\ call[c].now > 0 /\ call[c].caller \in Users
      /\ RowsOK(call[c].snap, chain, nextSid, nextToken)
      /\ SameOrigin(call[c].snap, sessions)
      /\ \A i \in call[c].left : /\ Exists(call[c].snap, i)
                                /\ call[c].snap[i].userID = call[c].caller
      /\ \A i \in SessionIDs :
           Exists(call[c].snap, i) /\ i # call[c].sid /\ i \notin call[c].left
             => Ended(sessions, i)
  BY CallFacts DEF CallOK, CallState, RevokeAllEach, At
<1>2. PICK id \in call[c].left :
        /\ sessions' = Update(sessions, id, Revoke(call[c].snap[id], call[c].now))
        /\ \/ Goto(c, [call[c] EXCEPT !.left = @ \ {id}])
           \/ Return(c, "INTERNAL")
           \/ Return(c, "SESSION_NOT_FOUND")
  BY DEF RevokeAllEach
<1>3. /\ Settles(sessions, sessions')
      /\ RowsOK(sessions', chain, nextSid, nextToken)
      /\ Ended(sessions', id)
  BY <1>1, <1>2, CallFacts, UpdateSettles
<1>4. /\ UNCHANGED <<world, mint, client, chain, rotated>>
      /\ acked' = acked
  BY DEF RevokeAllEach, history
<1>5. CASE Return(c, "INTERNAL") \/ Return(c, "SESSION_NOT_FOUND")
  BY <1>3, <1>4, <1>5, ReturnStep DEF Codes
<1>6. CASE Goto(c, [call[c] EXCEPT !.left = @ \ {id}])
  <2> DEFINE st == [call[c] EXCEPT !.left = @ \ {id}]
  <2>1. /\ st \in CallState /\ st.pc = "revokeAll.each"
        /\ st.sid = call[c].sid /\ st.snap = call[c].snap
        /\ st.now = call[c].now /\ st.caller = call[c].caller
        /\ st.left = call[c].left \ {id}
    BY <1>1, CallFacts DEF CallState, RevokeAllEach, At
  <2>2. call' = [call EXCEPT ![c] = st] /\ reply' \in Codes
    BY <1>6 DEF Goto, Codes
  <2> HIDE DEF st
  <2>3. \A i \in SessionIDs : Ended(sessions, i) => Ended(sessions', i)
    BY <1>3 DEF Settles
  <2>4. SameOrigin(call[c].snap, sessions')
    BY <1>1, <1>3 DEF SameOrigin, Settles, Descends
  <2>5. CallOK(st, sessions', chain, nextSid, nextToken)
    BY <1>1, <1>3, <2>1, <2>3, <2>4 DEF CallOK, RefreshPCs
  <2> QED BY <1>3, <1>4, <2>1, <2>2, <2>5, CallStep
<1> QED BY <1>2, <1>5, <1>6

(* When the loop is through, every session it answers for is over.          *)
LEMMA RevokeAllDoneInv ==
  ASSUME Inv, NEW c \in Calls, RevokeAllDone(c)
  PROVE  Inv'
<1> DEFINE done == {id \in SessionIDs : Exists(call[c].snap, id)} \ {call[c].sid}
<1>1. \A id \in done : id \in SessionIDs /\ id < nextSid /\ Ended(sessions, id)
  BY CallFacts DEF CallOK, RowsOK, RevokeAllDone, At
<1>2. /\ UNCHANGED <<world, mint, client, chain, rotated>>
      /\ acked' = acked \cup done /\ Return(c, "OK") /\ sessions' = sessions
  BY DEF RevokeAllDone
<1> HIDE DEF done
<1>3. /\ Settles(sessions, sessions')
      /\ RowsOK(sessions', chain, nextSid, nextToken)
  BY <1>2, CallFacts, SettlesOnItself
<1> QED BY <1>1, <1>2, <1>3, ReturnStep DEF Codes

(* A failed round trip only returns.                                        *)
LEMMA CallFailsInv ==
  ASSUME Inv, NEW c \in Calls, CallFails(c)
  PROVE  Inv'
BY ReturnRead DEF CallFails, Codes

(* The last instant at which a user was ACTIVE only moves forward, and      *)
(* keeps up with the clock while he is.                                     *)
LEMMA ActiveSeen ==
  ASSUME clock \in Nat, clock' \in Nat \ {0}, clock <= clock',
         lastActive \in [Users -> 1 .. clock], SeeActive
  PROVE  /\ lastActive' \in [Users -> 1 .. clock']
         /\ \A u \in Users : lastActive[u] <= lastActive'[u]
         /\ \A u \in Users : userStatus'[u] = "ACTIVE" => lastActive'[u] = clock'
<1>1. ASSUME NEW u \in Users
      PROVE  /\ lastActive[u] \in Nat /\ lastActive[u] >= 1
             /\ lastActive[u] <= clock
             /\ lastActive'[u] = IF userStatus'[u] = "ACTIVE" THEN clock'
                                                             ELSE lastActive[u]
  <2>1. lastActive[u] \in 1 .. clock
    OBVIOUS
  <2> QED BY <2>1 DEF SeeActive
<1>2. ASSUME NEW u \in Users
      PROVE  lastActive'[u] \in 1 .. clock' /\ lastActive[u] <= lastActive'[u]
  BY <1>1
<1> QED BY <1>1, <1>2 DEF SeeActive

(* Identity and the clock: no call moves.                                   *)
LEMMA EnvironmentInv ==
  ASSUME Inv,
         \/ \E u \in Users, status \in UserStatuses \ {"gone"} :
              UserChanges(u, status)
         \/ \E u \in Users : UserPermanentlyDeleted(u)
         \/ Tick
  PROVE  Inv'
<1>1. /\ sessions \in Table
      /\ RowsOK(sessions, chain, nextSid, nextToken)
      /\ call \in [Calls -> CallState]
      /\ clock \in 1 .. MaxTime
      /\ userStatus \in [Users -> UserStatuses]
      /\ lastActive \in [Users -> 1 .. clock]
  BY DEF Inv, TypeOK
<1>2. CASE \E u \in Users, status \in UserStatuses \ {"gone"} :
             UserChanges(u, status)
  <2>1. userStatus' \in [Users -> UserStatuses]
    BY <1>1, <1>2 DEF UserChanges
  <2>2. /\ clock' = clock /\ sessions' = sessions /\ call' = call
        /\ acked' = acked /\ reply' \in Codes
        /\ UNCHANGED <<mint, client, chain, rotated>>
    BY <1>2 DEF UserChanges, history, Codes
  <2>3. lastActive' \in [Users -> 1 .. clock']
    BY <1>1, <1>2, <2>2, ActiveSeen DEF UserChanges
  <2> QED BY <1>1, <2>1, <2>2, <2>3, SettlesOnItself, SettlingStep
<1>3. CASE \E u \in Users : UserPermanentlyDeleted(u)
  <2>1. PICK u \in Users : UserPermanentlyDeleted(u)
    BY <1>3
  <2>2. userStatus' \in [Users -> UserStatuses]
    BY <1>1, <2>1 DEF UserPermanentlyDeleted, UserStatuses
  <2>3. /\ clock' = clock /\ lastActive' = lastActive
        /\ sessions' = CascadeDelete(sessions, u)
        /\ call' = call /\ acked' = acked /\ reply' \in Codes
        /\ UNCHANGED <<mint, client, chain, rotated>>
    BY <2>1 DEF UserPermanentlyDeleted, history, Codes
  <2>4. /\ Settles(sessions, sessions')
        /\ RowsOK(sessions', chain, nextSid, nextToken)
    BY <1>1, <2>3, CascadeSettles
  <2> QED BY <1>1, <2>2, <2>3, <2>4, SettlingStep
<1>4. CASE Tick
  <2>1. clock' \in 1 .. MaxTime
    BY <1>1, <1>4, ClockAssumption DEF Tick
  <2>2. /\ userStatus' = userStatus /\ sessions' = sessions /\ call' = call
        /\ acked' = acked /\ reply' \in Codes
        /\ UNCHANGED <<mint, client, chain, rotated>>
    BY <1>4 DEF Tick, history, Codes
  <2>3. lastActive' \in [Users -> 1 .. clock']
    BY <1>1, <1>4, <2>1, ActiveSeen DEF Tick
  <2> QED BY <1>1, <2>1, <2>2, <2>3, SettlesOnItself, SettlingStep
<1> QED BY <1>2, <1>3, <1>4

-----------------------------------------------------------------------------
(* The two steps that generate tokens.                                      *)

(* Calls keep what they rely on while one of them mints a token and returns. *)
LEMMA MintCalls ==
  ASSUME Inv, NEW c \in Calls, NEW code, Return(c, code),
         Grows(sessions, sessions', chain, chain', nextSid, nextSid',
               nextToken, nextToken')
  PROVE  CallsOK' /\ call' \in [Calls -> CallState]
<1>1. /\ call' \in [Calls -> CallState]
      /\ \A d \in Calls : call'[d] = IF d = c THEN Idle ELSE call[d]
  BY IdleOK DEF Return, Inv, TypeOK
<1>2. ASSUME NEW d \in Calls
      PROVE  CallOK(call[d], sessions', chain', nextSid', nextToken')
  <2>1. /\ call[d] \in CallState
        /\ CallOK(call[d], sessions, chain, nextSid, nextToken)
    BY CallFacts
  <2> QED BY <2>1, CallMonotone
<1>3. CallOK(Idle, sessions', chain', nextSid', nextToken')
  BY IdleOK
<1>4. CallsOK'
  BY <1>1, <1>2, <1>3 DEF CallsOK
<1> QED BY <1>1, <1>4

(* Login puts a new row under a new id, with a new token on it.             *)
LEMMA LoginCreateInv ==
  ASSUME Inv, NEW c \in Calls, LoginCreate(c)
  PROVE  Inv'
<1> DEFINE row(now) == NewSession(call[c].caller, nextToken, now)
<1>1. PICK now \in Since(c) : sessions' = [sessions EXCEPT ![nextSid] = row(now)]
  BY DEF LoginCreate, Create
<1>2. /\ nextSid \in SessionIDs /\ nextToken \in Tokens
      /\ nextSid' = nextSid + 1 /\ nextToken' = nextToken + 1
      /\ chain' = [chain EXCEPT ![nextToken] = nextSid]
      /\ clock' = clock /\ userStatus' = userStatus
      /\ acked' = acked /\ rotated' = rotated
  BY DEF LoginCreate, world
<1>3. /\ held' \subseteq held \cup {nextToken}
      /\ access' \in [SessionIDs -> Nat]
      /\ \E code \in Codes : Return(c, code)
  <2>1. access \in [SessionIDs -> Nat] /\ clock + AccessTTL \in Nat
    BY CallFacts, ClockAssumption DEF Inv, TypeOK
  <2> QED BY <2>1 DEF LoginCreate, client, Codes
<1>4. now \in Nat /\ call[c].caller \in Users
  BY CallFacts DEF Since, CallOK, CallState, LoginCreate, At
<1>5. /\ row(now) \in Session
      /\ row(now).refreshTokenHash = Hash(nextToken)
      /\ row(now).expiresAt = row(now).issuedAt + RefreshTTL
      /\ row(now).refreshTokenExpiresAt <= row(now).expiresAt
  BY <1>2, <1>4, NewSessionRow
<1> HIDE DEF row
<1>6. /\ nextSid \in Nat /\ nextToken \in Nat /\ sessions \in Table
      /\ RowsOK(sessions, chain, nextSid, nextToken)
      /\ chain \in [Tokens -> SessionIDs \cup {0}]
      /\ SessionIDs \subseteq Nat /\ Tokens \subseteq Nat
  BY CallFacts DEF Inv, TypeOK, SessionIDs, Tokens
<1>7. /\ sessions' \in Table
      /\ sessions'[nextSid] = row(now)
      /\ \A id \in SessionIDs : id # nextSid => sessions'[id] = sessions[id]
  BY <1>1, <1>2, <1>5, <1>6 DEF Table
<1>8. /\ chain' \in [Tokens -> SessionIDs \cup {0}]
      /\ chain'[nextToken] = nextSid
      /\ \A t \in Tokens : t < nextToken => chain'[t] = chain[t]
  BY <1>2, <1>6
<1>9. TypeOK'
  <2>1. nextSid' \in 1 .. MaxSessions + 1 /\ nextToken' \in 1 .. MaxTokens + 1
    BY <1>2, BoundsAssumption DEF SessionIDs, Tokens
  <2>2. held' \subseteq Tokens
    BY <1>2, <1>3 DEF Inv, TypeOK
  <2>3. call' \in [Calls -> CallState] /\ reply' \in Codes
    BY <1>3, IdleOK DEF Inv, TypeOK, Return
  <2>4. lastActive' \in [Users -> 1 .. clock']
    BY <1>2 DEF Inv, TypeOK, LoginCreate, world
  <2> QED BY <1>2, <1>3, <1>7, <1>8, <2>1, <2>2, <2>3, <2>4 DEF Inv, TypeOK
<1>10. RowsOK(sessions, chain, nextSid, nextToken)'
  <2>1. RowsOK(sessions, chain', nextSid', nextToken')
    <3>1. /\ nextSid' \in Nat /\ nextSid <= nextSid'
          /\ nextToken' \in Nat /\ nextToken <= nextToken'
      BY <1>2, <1>6
    <3> QED BY <1>6, <1>8, <3>1, RowsMonotone, Zenon
  <2>2. Hash(nextToken).sha256 = nextToken
    BY DEF Hash
  <2> QED BY <1>2, <1>5, <1>6, <1>7, <1>8, <2>1, <2>2 DEF RowsOK, Exists
<1>11. \A id \in SessionIDs : id < nextSid => sessions'[id] = sessions[id]
  BY <1>6, <1>7
<1>12. CallsOK'
  <2>1. Grows(sessions, sessions', chain, chain', nextSid, nextSid',
              nextToken, nextToken')
    <3>1. /\ nextSid' \in Nat /\ nextSid <= nextSid'
          /\ nextToken' \in Nat /\ nextToken <= nextToken'
      BY <1>2, <1>6
    <3>2. ASSUME NEW id \in SessionIDs, id < nextSid
          PROVE  /\ Ended(sessions, id) => Ended(sessions', id)
                 /\ Exists(sessions', id) =>
                      /\ Exists(sessions, id)
                      /\ sessions'[id].userID = sessions[id].userID
                      /\ sessions'[id].issuedAt = sessions[id].issuedAt
      <4>1. sessions'[id] = sessions[id]
        BY <1>11, <3>2
      <4> QED BY <4>1 DEF Ended, Exists
    <3>3. \A t \in Tokens : t < nextToken => chain'[t] = chain[t]
      BY <1>8
    <3>4. nextSid \in Nat /\ nextToken \in Nat
      BY <1>6
    <3> QED BY <3>1, <3>2, <3>3, <3>4, Zenon DEF Grows
  <2> QED BY <1>3, <2>1, MintCalls
<1>13. FreshOK'
  <2>1. \A t \in Tokens : t >= nextToken' => t \notin held' /\ rotated'[t] = 0
    BY <1>2, <1>3, <1>6 DEF Inv, FreshOK
  <2>2. \A t \in Tokens : t < nextToken' =>
          chain'[t] \in SessionIDs /\ chain'[t] < nextSid'
    <3> SUFFICES ASSUME NEW t \in Tokens, t < nextToken'
                 PROVE  chain'[t] \in SessionIDs /\ chain'[t] < nextSid'
      OBVIOUS
    <3>1. CASE t = nextToken
      BY <1>2, <1>6, <1>8, <3>1
    <3>2. CASE t < nextToken
      <4>1. chain'[t] = chain[t] /\ chain[t] \in SessionIDs /\ chain[t] < nextSid
        BY <1>8, <3>2 DEF Inv, FreshOK
      <4>2. chain[t] \in Nat
        BY <1>6, <4>1
      <4>3. nextSid' = nextSid + 1 /\ nextSid \in Nat
        BY <1>2, <1>6
      <4> QED BY <4>1, <4>2, <4>3
    <3>3. t = nextToken \/ t < nextToken
      BY <1>2, <1>6
    <3> QED BY <3>1, <3>2, <3>3
  <2>3. \A s \in acked' : s < nextSid'
    BY <1>2, <1>6 DEF Inv, TypeOK, FreshOK
  <2> QED BY <2>1, <2>2, <2>3 DEF FreshOK
<1>14. AckedOK'
  BY <1>2, <1>11 DEF Inv, TypeOK, AckedOK, FreshOK, Ended, Exists
<1>15. \A t \in Tokens : t \in held \/ rotated[t] > 0 =>
         /\ chain'[t] = chain[t]
         /\ chain[t] \in SessionIDs
         /\ sessions'[chain[t]] = sessions[chain[t]]
  <2> SUFFICES ASSUME NEW t \in Tokens, t \in held \/ rotated[t] > 0
               PROVE  /\ chain'[t] = chain[t]
                      /\ chain[t] \in SessionIDs
                      /\ sessions'[chain[t]] = sessions[chain[t]]
    OBVIOUS
  <2>1. t < nextToken
    BY <1>6 DEF Inv, FreshOK
  <2>2. chain[t] \in SessionIDs /\ chain[t] < nextSid
    BY <2>1 DEF Inv, FreshOK
  <2> QED BY <1>8, <1>11, <2>1, <2>2
<1>16. SpentOK'
  BY <1>2, <1>15 DEF Inv, TypeOK, SpentOK, Ended, Exists
<1>17. TokenAcceptedOnce'
  BY <1>2, <1>15 DEF Inv, TypeOK, TokenAcceptedOnce, Exists
<1>18. NewestTokenIsCurrent'
  <2> SUFFICES ASSUME NEW t \in held', rotated'[t] = 0
               PROVE  \/ ~ Exists(sessions', chain'[t])
                      \/ IsRevoked(sessions'[chain'[t]])
                      \/ sessions'[chain'[t]].refreshTokenHash = Hash(t)
    BY DEF NewestTokenIsCurrent
  <2>1. CASE t = nextToken
    BY <2>1, <1>5, <1>7, <1>8
  <2>2. CASE t \in held
    BY <2>2, <1>2, <1>15 DEF Inv, TypeOK, NewestTokenIsCurrent, Exists
  <2> QED BY <1>3, <2>1, <2>2
<1> QED
  BY <1>9, <1>10, <1>12, <1>13, <1>14, <1>16, <1>17, <1>18 DEF Inv

(* Rotate replaces exactly the token it was called with.                    *)
LEMMA RefreshRotateInv ==
  ASSUME Inv, NEW c \in Calls, RefreshRotate(c)
  PROVE  Inv'
<1> DEFINE sid == call[c].sid
           old == call[c].tok
           window == CappedWindow(call[c].now, Row(c).expiresAt)
<1>1. /\ nextToken \in Tokens
      /\ Exists(sessions, sid) /\ sessions[sid].refreshTokenHash = Hash(old)
      /\ nextToken' = nextToken + 1
      /\ chain' = [chain EXCEPT ![nextToken] = sid]
      /\ rotated' = [rotated EXCEPT ![old] = @ + 1]
      /\ clock' = clock /\ userStatus' = userStatus
      /\ nextSid' = nextSid /\ acked' = acked
  BY DEF RefreshRotate, RotateMatches, world
<1>2. /\ sid \in SessionIDs /\ old \in Tokens /\ old < nextToken
      /\ chain[old] = sid /\ call[c].now \in Nat
      /\ call[c].snap \in Table /\ Exists(call[c].snap, sid)
      /\ RowsOK(call[c].snap, chain, nextSid, nextToken)
      /\ SameOrigin(call[c].snap, sessions)
  BY CallFacts DEF CallOK, CallState, RefreshRotate, At, RefreshPCs
<1>3. /\ nextSid \in Nat /\ nextToken \in Nat /\ sessions \in Table
      /\ RowsOK(sessions, chain, nextSid, nextToken)
      /\ chain \in [Tokens -> SessionIDs \cup {0}]
      /\ rotated \in [Tokens -> Nat]
      /\ SessionIDs \subseteq Nat /\ Tokens \subseteq Nat
  BY CallFacts DEF Inv, TypeOK, SessionIDs, Tokens
<1>4. /\ held' \subseteq held \cup {nextToken}
      /\ access' \in [SessionIDs -> Nat]
      /\ \E code \in Codes : Return(c, code)
  <2>1. access \in [SessionIDs -> Nat] /\ clock + AccessTTL \in Nat
    BY CallFacts, ClockAssumption DEF Inv, TypeOK
  <2> QED BY <1>2, <2>1 DEF RefreshRotate, client, Codes
<1>5. Row(c) \in Session /\ sessions[sid] \in Session
  BY <1>1, <1>2, <1>3, RowType DEF Row
<1>6. Row(c).expiresAt = sessions[sid].expiresAt
  <2>1. Row(c).issuedAt = sessions[sid].issuedAt
    BY <1>1, <1>2 DEF SameOrigin, Row
  <2>2. Row(c).expiresAt = Row(c).issuedAt + RefreshTTL
    BY <1>2 DEF RowsOK, Row
  <2>3. sessions[sid].expiresAt = sessions[sid].issuedAt + RefreshTTL
    BY <1>1, <1>2, <1>3 DEF RowsOK
  <2> QED BY <2>1, <2>2, <2>3
<1>7. window \in Nat /\ window <= sessions[sid].expiresAt
  <2>1. Row(c).expiresAt \in Nat
    BY <1>5 DEF Session
  <2>2. window \in Nat /\ window <= Row(c).expiresAt
    BY <1>2, <2>1, CappedWindowBound
  <2> QED BY <1>6, <2>2
<1> DEFINE new == [sessions[sid] EXCEPT !.refreshTokenHash = Hash(nextToken),
                                        !.refreshTokenExpiresAt = window]
<1>8. sessions' = [sessions EXCEPT ![sid] = new]
  <2> DEFINE r == RotateRefresh(Row(c), nextToken, call[c].now)
  <2>1. r.refreshTokenHash = Hash(nextToken) /\ r.refreshTokenExpiresAt = window
    BY <1>5 DEF RotateRefresh, Session
  <2>2. sessions' = Rotate(sessions, sid, r)
    BY DEF RefreshRotate
  <2> HIDE DEF r, window
  <2> QED BY <2>1, <2>2 DEF Rotate
<1> HIDE DEF window
<1>9. /\ new \in Session
      /\ new.refreshTokenHash = Hash(nextToken)
      /\ new.refreshTokenExpiresAt = window
      /\ new.userID = sessions[sid].userID
      /\ new.issuedAt = sessions[sid].issuedAt
      /\ new.expiresAt = sessions[sid].expiresAt
      /\ new.revokedAt = sessions[sid].revokedAt
  BY <1>1, <1>5, <1>7 DEF Session, Hashes, Hash
<1> HIDE DEF new
<1>10. /\ sessions' \in Table
       /\ sessions'[sid] = new
       /\ \A id \in SessionIDs : id # sid => sessions'[id] = sessions[id]
  BY <1>2, <1>3, <1>8, <1>9 DEF Table
<1>11. \A id \in SessionIDs :
         /\ Exists(sessions', id) <=> Exists(sessions, id)
         /\ Exists(sessions, id) =>
              /\ IsRevoked(sessions'[id]) <=> IsRevoked(sessions[id])
              /\ sessions'[id].userID = sessions[id].userID
              /\ sessions'[id].issuedAt = sessions[id].issuedAt
  <2>1. new # NoRow
    BY <1>9, NoRowAssumption
  <2> QED BY <1>1, <1>9, <1>10, <2>1 DEF Exists, IsRevoked
<1>12. \A id \in SessionIDs : Ended(sessions', id) <=> Ended(sessions, id)
  BY <1>11 DEF Ended
<1>13. /\ chain' \in [Tokens -> SessionIDs \cup {0}]
       /\ chain'[nextToken] = sid
       /\ \A t \in Tokens : t < nextToken => chain'[t] = chain[t]
  BY <1>1, <1>2, <1>3
<1>14. /\ rotated' \in [Tokens -> Nat]
       /\ rotated'[old] = rotated[old] + 1
       /\ \A t \in Tokens : t # old => rotated'[t] = rotated[t]
  <2>1. rotated[old] + 1 \in Nat
    <3>1. old \in Tokens /\ rotated \in [Tokens -> Nat]
      BY <1>2, <1>3
    <3> HIDE DEF old
    <3>2. rotated[old] \in Nat
      BY <3>1
    <3> QED BY <3>2
  <2>2. rotated' = [rotated EXCEPT ![old] = rotated[old] + 1]
    BY <1>1
  <2> HIDE DEF old
  <2> QED BY <1>2, <1>3, <2>1, <2>2
<1>15. TypeOK'
  <2>1. nextToken' \in 1 .. MaxTokens + 1
    BY <1>1, BoundsAssumption DEF Tokens
  <2>2. held' \subseteq Tokens
    BY <1>1, <1>4 DEF Inv, TypeOK
  <2>3. call' \in [Calls -> CallState] /\ reply' \in Codes
    BY <1>4, IdleOK DEF Inv, TypeOK, Return
  <2>4. lastActive' \in [Users -> 1 .. clock']
    BY <1>1 DEF Inv, TypeOK, RefreshRotate, world
  <2> QED BY <1>1, <1>4, <1>10, <1>13, <1>14, <2>1, <2>2, <2>3, <2>4
          DEF Inv, TypeOK
<1>16. RowsOK(sessions, chain, nextSid, nextToken)'
  <2>1. RowsOK(sessions, chain', nextSid', nextToken')
    <3>1. /\ nextSid' \in Nat /\ nextSid <= nextSid'
          /\ nextToken' \in Nat /\ nextToken <= nextToken'
      BY <1>1, <1>3
    <3> QED BY <1>3, <1>13, <3>1, RowsMonotone, Zenon
  <2>2. Hash(nextToken).sha256 = nextToken
    BY DEF Hash
  <2> QED BY <1>1, <1>2, <1>3, <1>7, <1>9, <1>10, <1>13, <2>1, <2>2
          DEF RowsOK, Exists
<1>17. CallsOK'
  <2>1. Grows(sessions, sessions', chain, chain', nextSid, nextSid',
              nextToken, nextToken')
    BY <1>1, <1>3, <1>11, <1>12, <1>13 DEF Grows
  <2> QED BY <1>4, <2>1, MintCalls
<1>18. FreshOK'
  <2>1. \A t \in Tokens : t >= nextToken' => t \notin held' /\ rotated'[t] = 0
    BY <1>1, <1>2, <1>3, <1>4, <1>14 DEF Inv, FreshOK
  <2>2. sid < nextSid
    BY <1>1, <1>2, <1>3 DEF RowsOK
  <2>3. \A t \in Tokens : t < nextToken' =>
          chain'[t] \in SessionIDs /\ chain'[t] < nextSid'
    BY <1>1, <1>2, <1>3, <1>13, <2>2 DEF Inv, FreshOK
  <2>4. \A s \in acked' : s < nextSid'
    BY <1>1 DEF Inv, FreshOK
  <2> QED BY <2>1, <2>3, <2>4 DEF FreshOK
<1>19. AckedOK'
  BY <1>1, <1>12 DEF Inv, TypeOK, AckedOK
<1>20. \A t \in Tokens : t \in held \/ rotated'[t] > 0 =>
         /\ t < nextToken /\ chain'[t] = chain[t] /\ chain[t] \in SessionIDs
  <2> SUFFICES ASSUME NEW t \in Tokens, t \in held \/ rotated'[t] > 0
               PROVE  t < nextToken
    BY <1>13 DEF Inv, FreshOK
  <2>1. CASE t = old
    BY <1>2, <2>1
  <2>2. CASE t # old
    BY <1>3, <1>14, <2>2 DEF Inv, FreshOK
  <2> QED BY <2>1, <2>2
<1>21. \A t \in Tokens : Hash(nextToken) = Hash(t) => t = nextToken
  BY DEF Hash
<1>22. SpentOK'
  <2> SUFFICES ASSUME NEW t \in Tokens, rotated'[t] > 0
               PROVE  \/ Ended(sessions', chain'[t])
                      \/ sessions'[chain'[t]].refreshTokenHash # Hash(t)
    BY DEF SpentOK
  <2>1. chain'[t] = chain[t] /\ chain[t] \in SessionIDs /\ t < nextToken
    BY <1>20
  <2>2. CASE chain[t] = sid
    BY <1>3, <1>9, <1>10, <1>21, <2>1, <2>2
  <2>3. CASE chain[t] # sid
    BY <1>1, <1>2, <1>10, <1>12, <1>14, <2>1, <2>3 DEF Inv, SpentOK
  <2> QED BY <2>2, <2>3
<1>23. TokenAcceptedOnce'
  <2> SUFFICES ASSUME NEW t \in Tokens, rotated'[t] > 1
               PROVE  Ended(sessions', chain'[t])
    BY DEF TokenAcceptedOnce, Ended
  <2>1. chain'[t] = chain[t] /\ chain[t] \in SessionIDs
    BY <1>14, <1>20
  <2>2. CASE t = old
    <3>1. rotated[old] > 0
      BY <1>2, <1>3, <1>14, <2>2
    <3>2. Ended(sessions, sid)
      BY <1>1, <1>2, <3>1 DEF Inv, SpentOK
    <3> QED BY <1>2, <1>12, <2>1, <2>2, <3>2
  <2>3. CASE t # old
    BY <1>12, <1>14, <2>1, <2>3 DEF Inv, TokenAcceptedOnce, Ended
  <2> QED BY <2>2, <2>3
<1>24. NewestTokenIsCurrent'
  <2> SUFFICES ASSUME NEW t \in held', rotated'[t] = 0
               PROVE  \/ Ended(sessions', chain'[t])
                      \/ sessions'[chain'[t]].refreshTokenHash = Hash(t)
    BY DEF NewestTokenIsCurrent, Ended
  <2>1. CASE t = nextToken
    BY <1>9, <1>10, <1>13, <2>1
  <2>2. CASE t \in held
    <3>1. t \in Tokens /\ t # old
      BY <1>2, <1>3, <1>14, <2>2 DEF Inv, TypeOK
    <3>2. /\ chain'[t] = chain[t] /\ chain[t] \in SessionIDs
          /\ rotated[t] = 0
      BY <1>14, <1>20, <2>2, <3>1
    <3>3. \/ Ended(sessions, chain[t])
          \/ sessions[chain[t]].refreshTokenHash = Hash(t)
      BY <2>2, <3>2 DEF Inv, NewestTokenIsCurrent, Ended
    <3>4. CASE chain[t] = sid
      <4>1. Hash(t) # Hash(old)
        BY <3>1 DEF Hash
      <4> QED BY <1>1, <1>12, <3>2, <3>3, <3>4, <4>1
    <3>5. CASE chain[t] # sid
      BY <1>10, <1>12, <3>2, <3>3, <3>5
    <3> QED BY <3>4, <3>5
  <2> QED BY <1>4, <2>1, <2>2
<1> QED
  BY <1>15, <1>16, <1>17, <1>18, <1>19, <1>22, <1>23, <1>24 DEF Inv

-----------------------------------------------------------------------------
(* The invariant and the properties that follow from it.                    *)

(* The empty database satisfies the invariant.                              *)
LEMMA InitInv == Init => Inv
<1> SUFFICES ASSUME Init PROVE Inv
  OBVIOUS
<1>1. NoRows \in Table /\ \A id \in SessionIDs : ~ Exists(NoRows, id)
  BY DEF NoRows, Table, Exists
<1>2. TypeOK
  BY <1>1, IdleOK, BoundsAssumption, ClockAssumption
     DEF Init, TypeOK, UserStatuses, Codes
<1>3. RowsOK(sessions, chain, nextSid, nextToken)
  BY <1>1 DEF Init, RowsOK
<1>4. FreshOK
  BY DEF Init, FreshOK, Tokens
<1>5. SpentOK /\ AckedOK /\ TokenAcceptedOnce /\ NewestTokenIsCurrent
  BY DEF Init, SpentOK, AckedOK, TokenAcceptedOnce, NewestTokenIsCurrent
<1>6. CallsOK
  BY IdleOK DEF Init, CallsOK
<1> QED BY <1>2, <1>3, <1>4, <1>5, <1>6 DEF Inv

(* Every step of the system keeps the invariant.                            *)
LEMMA NextInv == Inv /\ [Next]_vars => Inv'
<1> SUFFICES ASSUME Inv, [Next]_vars PROVE Inv'
  OBVIOUS
<1>1. ASSUME NEW c \in Calls, Start(c) PROVE Inv'
  BY <1>1, LoginBeginInv, RefreshBeginInv, LogoutBeginInv,
     RevokeSessionBeginInv, RevokeTokenBeginInv, RevokeAllBeginInv DEF Start
<1>2. ASSUME NEW c \in Calls, Step(c) PROVE Inv'
  BY <1>2, LoginCreateInv, RefreshGetSessionInv, RefreshGetUserInv,
     RefreshRevokeInv, RefreshRotateInv, RefreshReusedInv, RefreshRevokeAllInv,
     LogoutGetInv, RevokeSessionGetInv, RevokeTokenGetInv, RevokeUpdateInv,
     RevokeAllUpdateInv, RevokeAllListInv, RevokeAllEachInv, RevokeAllDoneInv,
     CallFailsInv DEF Step
<1>3. CASE UNCHANGED vars
  <2>1. /\ Settles(sessions, sessions')
        /\ RowsOK(sessions', chain, nextSid, nextToken)
    BY <1>3, SettlesOnItself DEF Inv, TypeOK, vars
  <2>2. /\ clock' \in 1 .. MaxTime /\ reply' \in Codes
        /\ userStatus' \in [Users -> UserStatuses]
        /\ lastActive' \in [Users -> 1 .. clock']
        /\ call' \in [Calls -> CallState] /\ call' = call /\ acked' = acked
        /\ UNCHANGED <<mint, client, chain, rotated>>
    BY <1>3 DEF Inv, TypeOK, vars, world, history
  <2> QED BY <2>1, <2>2, SettlingStep
<1> QED BY <1>1, <1>2, <1>3, EnvironmentInv DEF Next

(* Inv is an invariant of AuthSessions: what each program point of each RPC *)
(* relies on, and the relation between tokens, rows and the ids and tokens  *)
(* generated so far, survive every interleaving.                            *)
THEOREM InvInvariant == Spec => []Inv
BY InitInv, NextInv, PTL DEF Spec

(* Type correctness: the variables stay within their declared sets.         *)
THEOREM TypeCorrect == Spec => []TypeOK
<1>1. Inv => TypeOK
  BY DEF Inv
<1> QED BY <1>1, InvInvariant, PTL

(* However many refreshes, logouts and revocations race, Rotate accepts a   *)
(* refresh token twice only on a session that is revoked or gone.           *)
THEOREM TokensAcceptedOnce == Spec => []TokenAcceptedOnce
<1>1. Inv => TokenAcceptedOnce
  BY DEF Inv
<1> QED BY <1>1, InvInvariant, PTL

(* A delivered token that was not rotated is the one on the row of its      *)
(* session, unless the session is over: no stale write locks a client out   *)
(* of a live session.                                                       *)
THEOREM NewestTokensAreCurrent == Spec => []NewestTokenIsCurrent
<1>1. Inv => NewestTokenIsCurrent
  BY DEF Inv
<1> QED BY <1>1, InvInvariant, PTL

(* Rotation never moves a session's deadline past the hard cap fixed at     *)
(* login, although it computes the deadline from a row read earlier.        *)
THEOREM WindowsWithinHardCap == Spec => []WindowWithinHardCap
<1>1. Inv => WindowWithinHardCap
  BY DEF Inv, RowsOK, WindowWithinHardCap
<1> QED BY <1>1, InvInvariant, PTL

(* A session whose revocation was acknowledged is never accepted again by   *)
(* the interceptor or by Validate.                                          *)
THEOREM AckedRevocationsHold == Spec => []AckedRevocationHolds
<1>1. Inv => AckedRevocationHolds
  BY DEF Inv, AckedOK, AckedRevocationHolds, Ended, SessionAccepted, IsActive
<1> QED BY <1>1, InvInvariant, PTL

-----------------------------------------------------------------------------
(* What a step may do to the sessions table.                                *)

(* The user on whose behalf a call acts.                                    *)
Owner(c) == IF call[c].caller = NoRow THEN Row(c).userID ELSE call[c].caller

(* A step writes nothing, runs one of the revoking statements, cascades, or *)
(* mints a token.                                                           *)
LEMMA WritesOfAStep ==
  ASSUME Inv, [Next]_vars
  PROVE  \/ sessions' = sessions
         \/ \E u \in Users : sessions' = CascadeDelete(sessions, u)
         \/ \E c \in Calls, id \in SessionIDs, now \in Nat \ {0} :
              /\ call'[c] # call[c]
              /\ call[c].snap \in Table /\ Exists(call[c].snap, id)
              /\ RowsOK(call[c].snap, chain, nextSid, nextToken)
              /\ SameOrigin(call[c].snap, sessions)
              /\ call[c].snap[id].userID = Owner(c)
              /\ sessions' = Update(sessions, id, Revoke(call[c].snap[id], now))
         \/ \E c \in Calls, now \in Nat \ {0} :
              /\ call'[c] # call[c]
              /\ sessions' = RevokeAllForUser(sessions, Owner(c), now)
         \/ \E c \in Calls : LoginCreate(c) \/ RefreshRotate(c)
<1> DEFINE One(c, id, now) ==
             /\ call'[c] # call[c]
             /\ call[c].snap \in Table /\ Exists(call[c].snap, id)
             /\ RowsOK(call[c].snap, chain, nextSid, nextToken)
             /\ SameOrigin(call[c].snap, sessions)
             /\ call[c].snap[id].userID = Owner(c)
             /\ sessions' = Update(sessions, id, Revoke(call[c].snap[id], now))
           All(c, now) == /\ call'[c] # call[c]
                          /\ sessions' = RevokeAllForUser(sessions, Owner(c), now)
<1>1. ASSUME NEW c \in Calls, NEW code, Return(c, code), call[c].pc # "idle"
      PROVE  call'[c] # call[c]
  BY <1>1 DEF Return, Inv, TypeOK, Idle
<1>2. ASSUME NEW c \in Calls, RefreshRevoke(c)
      PROVE  sessions' = sessions
             \/ \E id \in SessionIDs, now \in Nat \ {0} : One(c, id, now)
  <2>1. /\ call[c].snap \in Table /\ call[c].now \in Nat \ {0}
        /\ call[c].sid \in SessionIDs /\ Exists(call[c].snap, call[c].sid)
        /\ RowsOK(call[c].snap, chain, nextSid, nextToken)
        /\ SameOrigin(call[c].snap, sessions) /\ call[c].caller = NoRow
        /\ call[c].pc # "idle"
    BY <1>2, CallFacts DEF CallOK, CallState, RefreshRevoke, At, RefreshPCs
  <2>2. call'[c] # call[c]
    BY <1>1, <1>2, <2>1 DEF RefreshRevoke
  <2>3. CASE sessions' = Update(sessions, call[c].sid, Revoke(Row(c), call[c].now))
    <3>1. One(c, call[c].sid, call[c].now)
      BY <2>1, <2>2, <2>3 DEF Owner, Row
    <3> QED BY <2>1, <3>1
  <2> QED BY <1>2, <2>3 DEF RefreshRevoke
<1>3. ASSUME NEW c \in Calls, RevokeUpdate(c)
      PROVE  \E id \in SessionIDs, now \in Nat \ {0} : One(c, id, now)
  <2>1. /\ call[c].snap \in Table /\ call[c].now \in Nat \ {0}
        /\ call[c].sid \in SessionIDs /\ Exists(call[c].snap, call[c].sid)
        /\ RowsOK(call[c].snap, chain, nextSid, nextToken)
        /\ SameOrigin(call[c].snap, sessions)
        /\ call[c].caller = call[c].snap[call[c].sid].userID
        /\ call[c].pc # "idle"
    BY <1>3, CallFacts DEF CallOK, CallState, RevokeUpdate, At
  <2>2. PICK now \in Since(c) :
          sessions' = Update(sessions, call[c].sid, Revoke(Row(c), now))
    BY <1>3 DEF RevokeUpdate
  <2>3. now \in Nat \ {0}
    BY <2>1, CallFacts DEF Since
  <2>4. \E code : Return(c, code)
    BY <1>3 DEF RevokeUpdate
  <2>5. call'[c] # call[c]
    BY <1>1, <2>1, <2>4
  <2>6. One(c, call[c].sid, now)
    BY <2>1, <2>2, <2>5 DEF Owner, Row
  <2> QED BY <2>1, <2>3, <2>6
<1>4. ASSUME NEW c \in Calls, RevokeAllEach(c)
      PROVE  \E id \in SessionIDs, now \in Nat \ {0} : One(c, id, now)
  <2>1. /\ call[c].snap \in Table /\ call[c].now \in Nat \ {0}
        /\ call[c].left \subseteq SessionIDs
        /\ \A id \in call[c].left : /\ Exists(call[c].snap, id)
                                   /\ call[c].snap[id].userID = call[c].caller
        /\ RowsOK(call[c].snap, chain, nextSid, nextToken)
        /\ SameOrigin(call[c].snap, sessions)
        /\ call[c].caller \in Users /\ call[c].pc # "idle"
    BY <1>4, CallFacts DEF CallOK, CallState, RevokeAllEach, At
  <2>2. PICK row \in call[c].left :
          /\ sessions' = Update(sessions, row, Revoke(call[c].snap[row], call[c].now))
          /\ \/ Goto(c, [call[c] EXCEPT !.left = @ \ {row}])
             \/ \E code : Return(c, code)
    BY <1>4 DEF RevokeAllEach
  <2>3. ASSUME Goto(c, [call[c] EXCEPT !.left = @ \ {row}])
        PROVE  call'[c] # call[c]
    <3>1. call'[c] = [call[c] EXCEPT !.left = @ \ {row}]
      BY <2>3 DEF Goto, Inv, TypeOK
    <3>2. call'[c].left = call[c].left \ {row}
      BY <3>1, CallFacts DEF CallState
    <3> QED BY <2>2, <3>2
  <2>4. call'[c] # call[c]
    BY <1>1, <2>1, <2>2, <2>3
  <2>5. Owner(c) = call[c].caller
    BY <2>1, NoRowAssumption DEF Owner
  <2>6. One(c, row, call[c].now)
    BY <2>1, <2>2, <2>4, <2>5
  <2>7. row \in SessionIDs /\ call[c].now \in Nat \ {0}
    BY <2>1, <2>2
  <2> QED BY <2>6, <2>7
<1>5. ASSUME NEW c \in Calls, RefreshRevokeAll(c)
      PROVE  sessions' = sessions \/ \E now \in Nat \ {0} : All(c, now)
  <2>1. /\ call[c].now \in Nat \ {0} /\ call[c].caller = NoRow
        /\ call[c].pc # "idle"
    BY <1>5, CallFacts DEF CallOK, CallState, RefreshRevokeAll, At, RefreshPCs
  <2>2. call'[c] # call[c]
    BY <1>1, <1>5, <2>1 DEF RefreshRevokeAll
  <2>3. CASE sessions' = RevokeAllForUser(sessions, Row(c).userID, call[c].now)
    <3>1. All(c, call[c].now)
      BY <2>1, <2>2, <2>3 DEF Owner
    <3> QED BY <2>1, <3>1
  <2> QED BY <1>5, <2>3 DEF RefreshRevokeAll
<1>6. ASSUME NEW c \in Calls, RevokeAllUpdate(c)
      PROVE  \E now \in Nat \ {0} : All(c, now)
  <2>1. /\ call[c].now \in Nat \ {0} /\ call[c].caller \in Users
        /\ call[c].pc # "idle"
    BY <1>6, CallFacts DEF CallOK, CallState, RevokeAllUpdate, At
  <2>2. PICK now \in Since(c) :
          sessions' = RevokeAllForUser(sessions, call[c].caller, now)
    BY <1>6 DEF RevokeAllUpdate
  <2>3. now \in Nat \ {0}
    BY <2>1, CallFacts DEF Since
  <2>4. call'[c] # call[c]
    BY <1>1, <1>6, <2>1 DEF RevokeAllUpdate
  <2>5. Owner(c) = call[c].caller
    BY <2>1, NoRowAssumption DEF Owner
  <2>6. All(c, now)
    BY <2>2, <2>4, <2>5
  <2> QED BY <2>3, <2>6
<1> HIDE DEF One, All
<1>7. ASSUME NEW c \in Calls, Start(c)
      PROVE  sessions' = sessions
  BY <1>7 DEF Start, LoginBegin, RefreshBegin, LogoutBegin, RevokeSessionBegin,
     RevokeTokenBegin, RevokeAllBegin, RevokeAllExceptBegin, Authenticate
<1>8. ASSUME NEW c \in Calls, Step(c)
      PROVE  \/ sessions' = sessions
             \/ \E id \in SessionIDs, now \in Nat \ {0} : One(c, id, now)
             \/ \E now \in Nat \ {0} : All(c, now)
             \/ LoginCreate(c) \/ RefreshRotate(c)
  BY <1>2, <1>3, <1>4, <1>5, <1>6, <1>8
     DEF Step, RefreshGetSession, RefreshGetUser, RefreshReused, LogoutGet,
         RevokeSessionGet, RevokeTokenGet, RevokeAllList, RevokeAllDone, CallFails
<1>9. CASE \E c \in Calls : Start(c) \/ Step(c)
  BY <1>7, <1>8, <1>9 DEF One, All
<1>10. CASE ~ \E c \in Calls : Start(c) \/ Step(c)
  BY <1>10 DEF Next, vars, UserChanges, UserPermanentlyDeleted, Tick
<1> QED BY <1>9, <1>10

(* A step ends sessions or leaves them alone, unless it mints a token.      *)
LEMMA StepSettlesOrMints ==
  ASSUME Inv, [Next]_vars
  PROVE  \/ Settles(sessions, sessions')
         \/ \E c \in Calls : LoginCreate(c) \/ RefreshRotate(c)
<1>0. sessions \in Table /\ RowsOK(sessions, chain, nextSid, nextToken)
  BY DEF Inv, TypeOK
<1>1. CASE sessions' = sessions
  BY <1>0, <1>1, SettlesOnItself
<1>2. CASE \E u \in Users : sessions' = CascadeDelete(sessions, u)
  BY <1>0, <1>2, CascadeSettles
<1>3. ASSUME NEW c \in Calls, NEW id \in SessionIDs, NEW now \in Nat \ {0},
             call[c].snap \in Table, Exists(call[c].snap, id),
             RowsOK(call[c].snap, chain, nextSid, nextToken),
             SameOrigin(call[c].snap, sessions),
             sessions' = Update(sessions, id, Revoke(call[c].snap[id], now))
      PROVE  Settles(sessions, sessions')
  <2>1. now \in Nat /\ now > 0
    OBVIOUS
  <2> QED BY <1>0, <1>3, <2>1, UpdateSettles
<1>4. ASSUME NEW c \in Calls, NEW now \in Nat \ {0},
             sessions' = RevokeAllForUser(sessions, Owner(c), now)
      PROVE  Settles(sessions, sessions')
  <2>1. now \in Nat /\ now > 0
    OBVIOUS
  <2> QED BY <1>0, <1>4, <2>1, RevokeAllSettles
<1> QED BY <1>1, <1>2, <1>3, <1>4, WritesOfAStep

(* A stale row written back never revives a session: once revoked, a row    *)
(* stays revoked as long as it exists.                                      *)
THEOREM RevocationsAreOneWay == Spec => RevocationIsOneWay
<1> DEFINE P == \A s \in SessionIDs :
                  Exists(sessions, s) /\ IsRevoked(sessions[s])
                    => (Exists(sessions, s) => IsRevoked(sessions[s]))'
<1>1. ASSUME Inv, [Next]_vars PROVE P
  <2>1. /\ sessions \in Table
        /\ RowsOK(sessions, chain, nextSid, nextToken)
        /\ nextSid \in Nat
    BY <1>1, BoundsAssumption DEF Inv, TypeOK
  <2>2. CASE Settles(sessions, sessions')
    BY <2>2 DEF Settles, Ended
  <2>3. ASSUME NEW c \in Calls, LoginCreate(c) PROVE P
    <3>1. \A s \in SessionIDs : Exists(sessions, s) => s < nextSid
      BY <2>1 DEF RowsOK
    <3>2. \A s \in SessionIDs : Exists(sessions, s) => s # nextSid
      BY <2>1, <3>1
    <3>3. \A s \in SessionIDs : s # nextSid => sessions'[s] = sessions[s]
      BY <2>1, <2>3 DEF LoginCreate, Create, Table
    <3> QED BY <3>2, <3>3
  <2>4. ASSUME NEW c \in Calls, RefreshRotate(c) PROVE P
    <3>1. \A s \in SessionIDs : Exists(sessions, s) =>
            sessions'[s].revokedAt = sessions[s].revokedAt
      <4> SUFFICES ASSUME NEW s \in SessionIDs, Exists(sessions, s)
                   PROVE  sessions'[s].revokedAt = sessions[s].revokedAt
        OBVIOUS
      <4>1. sessions[s] \in Session
        BY <2>1, RowType
      <4>2. CASE s # call[c].sid
        BY <2>1, <2>4, <4>2 DEF RefreshRotate, Rotate, Table
      <4>3. CASE s = call[c].sid
        BY <2>1, <2>4, <4>1, <4>3 DEF RefreshRotate, Rotate, Table, Session
      <4> QED BY <4>2, <4>3
    <3> QED BY <3>1 DEF IsRevoked
  <2>5. \/ Settles(sessions, sessions')
        \/ \E c \in Calls : LoginCreate(c) \/ RefreshRotate(c)
    BY <1>1, StepSettlesOrMints
  <2> QED BY <2>2, <2>3, <2>4, <2>5
<1> QED BY <1>1, InvInvariant, PTL DEF Spec, RevocationIsOneWay

(* Only a call made on behalf of a session's owner revokes it.              *)
THEOREM OnlyOwnersRevoke == Spec => OnlyOwnerRevokes
<1> DEFINE P == \A s \in SessionIDs :
                  Exists(sessions, s) /\ ~ IsRevoked(sessions[s])
                    /\ (Exists(sessions, s) /\ IsRevoked(sessions[s]))'
                    => \E c \in Calls :
                         /\ call'[c] # call[c]
                         /\ sessions[s].userID =
                              IF call[c].caller = NoRow THEN Row(c).userID
                                                        ELSE call[c].caller
<1>1. ASSUME Inv, [Next]_vars PROVE P
  <2> SUFFICES ASSUME NEW s \in SessionIDs,
                      Exists(sessions, s), ~ IsRevoked(sessions[s]),
                      Exists(sessions', s), IsRevoked(sessions'[s])
               PROVE  \E c \in Calls : /\ call'[c] # call[c]
                                       /\ sessions[s].userID = Owner(c)
    BY DEF Owner
  <2>1. /\ sessions \in Table
        /\ RowsOK(sessions, chain, nextSid, nextToken)
        /\ nextSid \in Nat
    BY <1>1, BoundsAssumption DEF Inv, TypeOK
  <2>2. CASE sessions' = sessions
    BY <2>2
  <2>3. CASE \E u \in Users : sessions' = CascadeDelete(sessions, u)
    BY <2>3 DEF CascadeDelete, Exists
  <2>4. ASSUME NEW c \in Calls, NEW id \in SessionIDs, NEW now \in Nat \ {0},
               call'[c] # call[c],
               Exists(call[c].snap, id),
               SameOrigin(call[c].snap, sessions),
               call[c].snap[id].userID = Owner(c),
               sessions' = Update(sessions, id, Revoke(call[c].snap[id], now))
        PROVE  \E d \in Calls : /\ call'[d] # call[d]
                                /\ sessions[s].userID = Owner(d)
    <3>1. s = id
      BY <2>1, <2>4 DEF Update, Table
    <3> QED BY <2>4, <3>1 DEF SameOrigin
  <2>5. ASSUME NEW c \in Calls, NEW now \in Nat \ {0},
               call'[c] # call[c],
               sessions' = RevokeAllForUser(sessions, Owner(c), now)
        PROVE  \E d \in Calls : /\ call'[d] # call[d]
                                /\ sessions[s].userID = Owner(d)
    <3>1. s \in ListByUser(sessions, Owner(c))
      BY <2>5 DEF RevokeAllForUser
    <3> QED BY <2>5, <3>1 DEF ListByUser
  <2>6. ASSUME NEW c \in Calls, LoginCreate(c) PROVE FALSE
    <3>1. s < nextSid
      BY <2>1 DEF RowsOK
    <3>2. s # nextSid
      BY <2>1, <3>1
    <3> QED BY <2>1, <2>6, <3>2 DEF LoginCreate, Create, Table
  <2>7. ASSUME NEW c \in Calls, RefreshRotate(c) PROVE FALSE
    <3>1. sessions[s] \in Session
      BY <2>1, RowType
    <3>2. sessions'[s].revokedAt = sessions[s].revokedAt
      BY <2>1, <2>7, <3>1 DEF RefreshRotate, Rotate, Table, Session
    <3> QED BY <3>2 DEF IsRevoked
  <2> QED BY <1>1, <2>2, <2>3, <2>4, <2>5, <2>6, <2>7, WritesOfAStep
<1> QED BY <1>1, InvInvariant, PTL DEF Spec, OnlyOwnerRevokes

-----------------------------------------------------------------------------
(* Sessions run out.  WindowInv is inductive on top of Inv: a refresh that  *)
(* rotates late computes its window from an instant captured before its     *)
(* user was last seen ACTIVE, and rows written back carry windows that were *)
(* bounded when they were read, by bounds that only grow.                   *)

(* What moves the clock and the users.                                      *)
LEMMA WorldMoves ==
  ASSUME [Next]_vars
  PROVE  \/ UNCHANGED world
         \/ \E u \in Users, status \in UserStatuses \ {"gone"} : UserChanges(u, status)
         \/ \E u \in Users : UserPermanentlyDeleted(u)
         \/ Tick
<1>1. ASSUME NEW c \in Calls, Start(c) \/ Step(c)
      PROVE  UNCHANGED world
  BY <1>1 DEF Start, LoginBegin, RefreshBegin, LogoutBegin, RevokeSessionBegin,
     RevokeTokenBegin, RevokeAllBegin, RevokeAllExceptBegin, Authenticate,
     Step, LoginCreate, RefreshGetSession, RefreshGetUser, RefreshRevoke,
     RefreshRotate, RefreshReused, RefreshRevokeAll, LogoutGet,
     RevokeSessionGet, RevokeTokenGet, RevokeUpdate, RevokeAllUpdate,
     RevokeAllList, RevokeAllEach, RevokeAllDone, CallFails
<1> QED BY <1>1 DEF Next, vars, world

(* Time and users: the bounds only grow, and keep up with ACTIVE users.     *)
LEMMA WorldOfAStep ==
  ASSUME Inv, [Next]_vars,
         \A u \in Users : userStatus[u] = "ACTIVE" => lastActive[u] = clock
  PROVE  /\ clock <= clock'
         /\ \A u \in Users : lastActive[u] <= lastActive'[u]
         /\ \A u \in Users : userStatus'[u] = "ACTIVE" => lastActive'[u] = clock'
<1>1. /\ clock \in Nat \ {0} /\ lastActive \in [Users -> 1 .. clock]
      /\ userStatus \in [Users -> UserStatuses]
  BY ClockAssumption DEF Inv, TypeOK
<1>2. \A u \in Users : lastActive[u] \in Nat
  BY <1>1
<1>3. CASE UNCHANGED world
  BY <1>1, <1>2, <1>3 DEF world
<1>4. CASE \E u \in Users, status \in UserStatuses \ {"gone"} :
             UserChanges(u, status)
  BY <1>1, <1>4, ActiveSeen DEF UserChanges
<1>5. ASSUME NEW u \in Users, UserPermanentlyDeleted(u)
      PROVE  /\ clock <= clock'
             /\ \A v \in Users : lastActive[v] <= lastActive'[v]
             /\ \A v \in Users : userStatus'[v] = "ACTIVE" => lastActive'[v] = clock'
  BY <1>1, <1>2, <1>5 DEF UserPermanentlyDeleted
<1>6. CASE Tick
  <2>1. clock' \in Nat \ {0} /\ clock <= clock'
    BY <1>1, <1>6 DEF Tick
  <2> QED BY <1>1, <1>6, <2>1, ActiveSeen DEF Tick
<1> QED BY <1>3, <1>4, <1>5, <1>6, WorldMoves

(* The local state st follows that of call c: the rows it holds were held   *)
(* before or are in the table, its instant was captured before or has       *)
(* passed, and a refresh goes on to rotate only if its user is ACTIVE.      *)
Follows(c, st) ==
  /\ \A id \in SessionIDs :
       st.snap[id] \in {NoRow, call[c].snap[id], sessions[id]}
  /\ st.now = call[c].now \/ st.now <= clock
  /\ st.pc = "refresh.rotate" =>
       /\ st.snap = call[c].snap /\ st.sid = call[c].sid
       /\ st.now = call[c].now
       /\ userStatus[Row(c).userID] = "ACTIVE"

(* Returning from a call.                                                   *)
LEMMA IdleFollows ==
  ASSUME Inv, NEW c \in Calls
  PROVE  Follows(c, Idle)
<1>1. \A id \in SessionIDs : Idle.snap[id] = NoRow
  BY DEF Idle, NoRows
<1>2. Idle.pc # "refresh.rotate" /\ Idle.now <= clock
  BY ClockAssumption DEF Idle, Inv, TypeOK
<1> QED BY <1>1, <1>2 DEF Follows

(* Entering a call: it holds no row yet.                                    *)
LEMMA BeginFollows ==
  ASSUME Inv, NEW c \in Calls, NEW st,
         st.snap = NoRows, st.now = clock, st.pc # "refresh.rotate"
  PROVE  Follows(c, st)
<1>1. clock <= clock
  BY ClockAssumption DEF Inv, TypeOK
<1> QED BY <1>1 DEF Follows, NoRows

(* Call c alone moves, to a state that follows its own.                     *)
Moves(c) == \E st : call' = [call EXCEPT ![c] = st] /\ Follows(c, st)

(* Returning is such a move.                                                *)
LEMMA ReturnMoves ==
  ASSUME Inv, NEW c \in Calls, NEW code, Return(c, code)
  PROVE  Moves(c)
BY IdleFollows DEF Return, Moves

(* So is entering a call.                                                   *)
LEMMA StartMoves ==
  ASSUME Inv, NEW c \in Calls, Start(c)
  PROVE  Moves(c)
<1>1. ASSUME NEW st, st.snap = NoRows, st.now = clock, st.pc # "refresh.rotate",
             Goto(c, st)
      PROVE  Moves(c)
  <2>1. Follows(c, st)
    BY <1>1, BeginFollows
  <2> QED BY <1>1, <2>1 DEF Goto, Moves
<1>2. ASSUME NEW u \in Users, LoginBegin(c, u) PROVE Moves(c)
  <2> DEFINE st == [Idle EXCEPT !.pc = "login.create", !.caller = u, !.now = clock]
  <2>1. st.snap = NoRows /\ st.now = clock /\ st.pc # "refresh.rotate"
    BY DEF Idle
  <2>2. Goto(c, st) \/ \E code : Return(c, code)
    BY <1>2 DEF LoginBegin
  <2> QED BY <1>1, <2>1, <2>2, ReturnMoves
<1>3. ASSUME NEW t \in Tokens, RefreshBegin(c, t) PROVE Moves(c)
  <2> DEFINE st == [Idle EXCEPT !.pc = "refresh.session", !.tok = t, !.now = clock]
  <2>1. st.snap = NoRows /\ st.now = clock /\ st.pc # "refresh.rotate"
    BY DEF Idle
  <2>2. Goto(c, st)
    BY <1>3 DEF RefreshBegin, Begin
  <2> QED BY <1>1, <2>1, <2>2
<1>4. ASSUME NEW s \in SessionIDs, NEW st \in CallState,
             st.snap = NoRows, st.pc # "refresh.rotate", Authenticate(c, s, st)
      PROVE  Moves(c)
  <2> DEFINE entered == [st EXCEPT !.caller = sessions[s].userID, !.now = clock]
  <2>1. /\ entered.snap = NoRows /\ entered.now = clock
        /\ entered.pc # "refresh.rotate"
    BY <1>4 DEF CallState
  <2>2. Goto(c, entered)
    BY <1>4 DEF Authenticate, Begin
  <2> HIDE DEF entered
  <2> QED BY <1>1, <2>1, <2>2
<1>5. ASSUME NEW s \in SessionIDs, LogoutBegin(c, s) PROVE Moves(c)
  <2> DEFINE st == [Idle EXCEPT !.pc = "logout.get", !.sid = s]
  <2>1. st \in CallState /\ st.snap = NoRows /\ st.pc # "refresh.rotate"
    BY IdleOK DEF CallState, Idle, PCs
  <2>2. Authenticate(c, s, st)
    BY <1>5 DEF LogoutBegin
  <2> HIDE DEF st
  <2> QED BY <1>4, <2>1, <2>2
<1>6. ASSUME NEW s \in SessionIDs, NEW target \in SessionIDs,
             RevokeSessionBegin(c, s, target)
      PROVE  Moves(c)
  <2> DEFINE st == [Idle EXCEPT !.pc = "revokeSession.get", !.sid = target]
  <2>1. st \in CallState /\ st.snap = NoRows /\ st.pc # "refresh.rotate"
    BY IdleOK DEF CallState, Idle, PCs
  <2>2. Authenticate(c, s, st)
    BY <1>6 DEF RevokeSessionBegin
  <2> HIDE DEF st
  <2> QED BY <1>4, <2>1, <2>2
<1>7. ASSUME NEW s \in SessionIDs, NEW t \in Tokens,
             RevokeTokenBegin(c, s, t)
      PROVE  Moves(c)
  <2> DEFINE st == [Idle EXCEPT !.pc = "revokeToken.get", !.tok = t]
  <2>1. st \in CallState /\ st.snap = NoRows /\ st.pc # "refresh.rotate"
    BY IdleOK DEF CallState, Idle, PCs
  <2>2. Authenticate(c, s, st)
    BY <1>7 DEF RevokeTokenBegin
  <2> HIDE DEF st
  <2> QED BY <1>4, <2>1, <2>2
<1>8. ASSUME NEW s \in SessionIDs, RevokeAllBegin(c, s) PROVE Moves(c)
  <2> DEFINE st == [Idle EXCEPT !.pc = "revokeAll.update"]
  <2>1. st \in CallState /\ st.snap = NoRows /\ st.pc # "refresh.rotate"
    BY IdleOK DEF CallState, Idle, PCs
  <2>2. Authenticate(c, s, st)
    BY <1>8 DEF RevokeAllBegin
  <2> HIDE DEF st
  <2> QED BY <1>4, <2>1, <2>2
<1>9. ASSUME NEW s \in SessionIDs, RevokeAllExceptBegin(c, s) PROVE Moves(c)
  <2> DEFINE st == [Idle EXCEPT !.pc = "revokeAll.list", !.sid = s]
  <2>1. st \in CallState /\ st.snap = NoRows /\ st.pc # "refresh.rotate"
    BY IdleOK DEF CallState, Idle, PCs
  <2>2. Authenticate(c, s, st)
    BY <1>9 DEF RevokeAllExceptBegin
  <2> HIDE DEF st
  <2> QED BY <1>4, <2>1, <2>2
<1> QED BY <1>2, <1>3, <1>5, <1>6, <1>7, <1>8, <1>9 DEF Start

(* Reading the row to revoke.                                               *)
LEMMA RevokeRowMoves ==
  ASSUME Inv, NEW c \in Calls, NEW id \in SessionIDs, RevokeRow(c, id)
  PROVE  Moves(c)
<1> DEFINE st == [call[c] EXCEPT !.pc = "revoke.update", !.sid = id,
                     !.now = clock,
                     !.snap = [NoRows EXCEPT ![id] = sessions[id]]]
<1>1. CASE \E code : Return(c, code)
  BY <1>1, ReturnMoves
<1>2. CASE Goto(c, st)
  <2>1. /\ st.snap = [NoRows EXCEPT ![id] = sessions[id]]
        /\ st.now = clock /\ st.pc = "revoke.update"
    BY CallFacts DEF CallState
  <2>2. clock <= clock
    BY ClockAssumption DEF Inv, TypeOK
  <2>3. \A i \in SessionIDs : st.snap[i] \in {NoRow, sessions[i]}
    BY <2>1 DEF NoRows
  <2> HIDE DEF st
  <2>4. Follows(c, st)
    BY <2>1, <2>2, <2>3 DEF Follows
  <2> QED BY <1>2, <2>4 DEF Goto, Moves
<1> QED BY <1>1, <1>2 DEF RevokeRow

(* And so is every step of a call under way.                                *)
LEMMA StepMoves ==
  ASSUME Inv, NEW c \in Calls, Step(c)
  PROVE  Moves(c)
<1>1. call[c] \in CallState
  BY CallFacts
<1>2. ASSUME \E code : Return(c, code) PROVE Moves(c)
  BY <1>2, ReturnMoves
<1>3. CASE RefreshGetSession(c)
  <2>1. CASE \E id \in SessionIDs :
               Goto(c, [call[c] EXCEPT !.pc = "refresh.user", !.sid = id,
                          !.snap = [NoRows EXCEPT ![id] = sessions[id]]])
    <3>1. PICK id \in SessionIDs :
            Goto(c, [call[c] EXCEPT !.pc = "refresh.user", !.sid = id,
                       !.snap = [NoRows EXCEPT ![id] = sessions[id]]])
      BY <2>1
    <3> DEFINE st == [call[c] EXCEPT !.pc = "refresh.user", !.sid = id,
                        !.snap = [NoRows EXCEPT ![id] = sessions[id]]]
    <3>2. /\ st.snap = [NoRows EXCEPT ![id] = sessions[id]]
          /\ st.now = call[c].now /\ st.pc = "refresh.user"
      BY <1>1 DEF CallState
    <3>3. \A i \in SessionIDs : st.snap[i] \in {NoRow, sessions[i]}
      BY <3>2 DEF NoRows
    <3> HIDE DEF st
    <3>4. Follows(c, st)
      BY <3>2, <3>3 DEF Follows
    <3> QED BY <3>1, <3>4 DEF Goto, Moves, st
  <2> QED BY <1>2, <1>3, <2>1 DEF RefreshGetSession, GetByRefreshHash
<1>4. ASSUME NEW st, st.snap = call[c].snap, st.now = call[c].now,
             st.sid = call[c].sid,
             st.pc = "refresh.rotate" => userStatus[Row(c).userID] = "ACTIVE",
             Goto(c, st)
      PROVE  Moves(c)
  <2>1. Follows(c, st)
    BY <1>4 DEF Follows
  <2> QED BY <1>4, <2>1 DEF Goto, Moves
<1>5. CASE RefreshGetUser(c)
  <2> DEFINE status == userStatus[Row(c).userID]
             rotate == [call[c] EXCEPT !.pc = "refresh.rotate"]
             revoke == [call[c] EXCEPT
                          !.pc = "refresh.revoke",
                          !.code = IF status = "BLOCKED" THEN "USER_BLOCKED"
                                                         ELSE "INVALID_TOKEN"]
  <2>1. /\ rotate.snap = call[c].snap /\ rotate.now = call[c].now
        /\ rotate.sid = call[c].sid
    BY <1>1 DEF CallState
  <2>2. /\ revoke.snap = call[c].snap /\ revoke.now = call[c].now
        /\ revoke.sid = call[c].sid /\ revoke.pc = "refresh.revoke"
    BY <1>1 DEF CallState
  <2>3. \/ userStatus[Row(c).userID] = "ACTIVE" /\ Goto(c, rotate)
        \/ Goto(c, revoke)
    BY <1>5 DEF RefreshGetUser
  <2> HIDE DEF rotate, revoke
  <2> QED BY <1>4, <2>1, <2>2, <2>3
<1>6. CASE RefreshReused(c)
  <2> DEFINE st == [call[c] EXCEPT !.pc = "refresh.revokeAll"]
  <2>1. /\ st.snap = call[c].snap /\ st.now = call[c].now
        /\ st.sid = call[c].sid /\ st.pc = "refresh.revokeAll"
    BY <1>1 DEF CallState
  <2>2. Goto(c, st)
    BY <1>6 DEF RefreshReused
  <2> HIDE DEF st
  <2> QED BY <1>4, <2>1, <2>2
<1>7. CASE RevokeAllEach(c)
  <2>1. ASSUME NEW id \in call[c].left,
               Goto(c, [call[c] EXCEPT !.left = @ \ {id}])
        PROVE  Moves(c)
    <3> DEFINE st == [call[c] EXCEPT !.left = @ \ {id}]
    <3>1. /\ st.snap = call[c].snap /\ st.now = call[c].now
          /\ st.sid = call[c].sid /\ st.pc = "revokeAll.each"
      BY <1>1, <1>7 DEF CallState, RevokeAllEach, At
    <3> HIDE DEF st
    <3> QED BY <1>4, <2>1, <3>1 DEF st
  <2> QED BY <1>2, <1>7, <2>1 DEF RevokeAllEach
<1>8. CASE RevokeAllList(c)
  <2> DEFINE mine == ListByUser(sessions, call[c].caller)
             st(now) == [call[c] EXCEPT
              !.pc   = "revokeAll.each",
              !.now  = now,
              !.snap = [id \in SessionIDs |->
                          IF id \in mine THEN sessions[id] ELSE NoRow],
              !.left = {id \in mine : ~ IsRevoked(sessions[id])
                                      /\ id # call[c].sid}]
  <2>1. PICK now \in Since(c) : Goto(c, st(now))
    BY <1>8 DEF RevokeAllList
  <2>2. /\ st(now).snap = [id \in SessionIDs |->
                             IF id \in mine THEN sessions[id] ELSE NoRow]
        /\ st(now).now = now /\ st(now).pc = "revokeAll.each"
    BY <1>1 DEF CallState
  <2>3. now <= clock
    BY <1>1, CallFacts, ClockAssumption DEF Since, CallState, Inv, TypeOK
  <2>4. \A i \in SessionIDs : st(now).snap[i] \in {NoRow, sessions[i]}
    BY <2>2
  <2> HIDE DEF st
  <2>5. Follows(c, st(now))
    BY <2>2, <2>3, <2>4 DEF Follows
  <2> QED BY <2>1, <2>5 DEF Goto, Moves
<1>9. CASE LogoutGet(c)
  <2>1. call[c].sid \in SessionIDs
    BY <1>9, CallFacts DEF CallOK, LogoutGet, At
  <2> QED BY <1>2, <1>9, <2>1, RevokeRowMoves DEF LogoutGet
<1>10. CASE RevokeSessionGet(c)
  <2>1. call[c].sid \in SessionIDs
    BY <1>10, CallFacts DEF CallOK, RevokeSessionGet, At
  <2> QED BY <1>2, <1>10, <2>1, RevokeRowMoves DEF RevokeSessionGet
<1>11. CASE RevokeTokenGet(c)
  BY <1>2, <1>11, RevokeRowMoves DEF RevokeTokenGet, GetByRefreshHash
<1>12. CASE \/ LoginCreate(c) \/ RefreshRevoke(c) \/ RefreshRotate(c)
            \/ RefreshRevokeAll(c) \/ RevokeUpdate(c) \/ RevokeAllUpdate(c)
            \/ RevokeAllDone(c) \/ CallFails(c)
  <2>1. \E code : Return(c, code)
    BY <1>12 DEF LoginCreate, RefreshRevoke, RefreshRotate, RefreshRevokeAll,
       RevokeUpdate, RevokeAllUpdate, RevokeAllDone, CallFails
  <2> QED BY <1>2, <2>1
<1> QED BY <1>3, <1>5, <1>6, <1>7, <1>8, <1>9, <1>10, <1>11, <1>12 DEF Step

(* Bounds that grow keep bounding.                                          *)
LEMMA WithinMonotone ==
  ASSUME NEW row \in Session,
         NEW seen \in [Users -> Nat], NEW seen2 \in [Users -> Nat],
         \A u \in Users : seen[u] <= seen2[u], Within(row, seen)
  PROVE  Within(row, seen2)
<1>1. /\ row.userID \in Users /\ row.issuedAt \in Nat
      /\ row.refreshTokenExpiresAt \in Nat
  BY DEF Session
<1>2. /\ seen[row.userID] \in Nat /\ seen2[row.userID] \in Nat
      /\ seen[row.userID] <= seen2[row.userID]
  BY <1>1
<1> QED BY <1>1, <1>2, TTLAssumption DEF Within, Later

(* Revoking a row leaves its window alone.                                  *)
LEMMA RevokedWithin ==
  ASSUME NEW row \in Session, NEW now \in Nat, now > 0, NEW seen,
         Within(row, seen)
  PROVE  Within(Revoke(row, now), seen)
BY RevokedRow DEF Within

(* The window of a new session.                                             *)
LEMMA LoginWithin ==
  ASSUME NEW u \in Users, NEW t, NEW now \in Nat,
         NEW seen \in [Users -> Nat]
  PROVE  Within(NewSession(u, t, now), seen)
<1> DEFINE row == NewSession(u, t, now)
<1>1. /\ row.userID = u /\ row.issuedAt = now
      /\ row.refreshTokenExpiresAt = CappedWindow(now, now + RefreshTTL)
  BY DEF NewSession
<1>2. CappedWindow(now, now + RefreshTTL) <= now + RotationTTL
  BY TTLAssumption DEF CappedWindow
<1>3. now \in Nat /\ seen[u] \in Nat
  OBVIOUS
<1> HIDE DEF row
<1>4. now + RotationTTL <= Later(now, seen[u]) + RotationTTL
  BY <1>3, TTLAssumption DEF Later
<1>5. /\ CappedWindow(now, now + RefreshTTL) \in Nat
      /\ Later(now, seen[u]) \in Nat
  BY <1>3, TTLAssumption, CappedWindowBound DEF Later
<1>6. row.refreshTokenExpiresAt <= Later(now, seen[u]) + RotationTTL
  BY <1>1, <1>2, <1>3, <1>4, <1>5, TTLAssumption
<1> QED BY <1>1, <1>6 DEF Within, row

(* A rotation computed from an instant at which its user was still to be    *)
(* seen ACTIVE stays within the bound.                                      *)
LEMMA RotateWithin ==
  ASSUME NEW old \in Session, NEW row, NEW now \in Nat, NEW cap \in Nat,
         NEW seen \in [Users -> Nat], now <= seen[old.userID],
         row.userID = old.userID, row.issuedAt = old.issuedAt,
         row.refreshTokenExpiresAt = CappedWindow(now, cap)
  PROVE  Within(row, seen)
<1>1. old.userID \in Users /\ old.issuedAt \in Nat
  BY DEF Session
<1>2. seen[old.userID] \in Nat
  BY <1>1
<1>3. CappedWindow(now, cap) \in Nat /\ CappedWindow(now, cap) <= now + RotationTTL
  BY TTLAssumption, CappedWindowBound DEF CappedWindow
<1>4. now <= Later(old.issuedAt, seen[old.userID])
  BY <1>1, <1>2 DEF Later
<1>5. Later(old.issuedAt, seen[old.userID]) \in Nat
  BY <1>1, <1>2 DEF Later
<1> QED BY <1>3, <1>4, <1>5, TTLAssumption DEF Within

(* No statement of a step stretches a window beyond what the users' last    *)
(* activity before the step allows.                                         *)
LEMMA TableWithin ==
  ASSUME Inv, WindowInv, [Next]_vars
  PROVE  WindowsOK(sessions', lastActive)
<1>1. /\ sessions \in Table
      /\ lastActive \in [Users -> Nat]
      /\ WindowsOK(sessions, lastActive)
      /\ \A c \in Calls : WindowsOK(call[c].snap, lastActive)
  <2>1. lastActive \in [Users -> 1 .. clock] /\ clock \in Nat
    BY ClockAssumption DEF Inv, TypeOK
  <2> QED BY <2>1 DEF Inv, TypeOK, WindowInv
<1>2. CASE sessions' = sessions
  BY <1>1, <1>2
<1>3. CASE \E u \in Users : sessions' = CascadeDelete(sessions, u)
  BY <1>1, <1>3 DEF CascadeDelete, WindowsOK, Exists
<1>4. ASSUME NEW c \in Calls, NEW id \in SessionIDs, NEW now \in Nat \ {0},
             call[c].snap \in Table, Exists(call[c].snap, id),
             sessions' = Update(sessions, id, Revoke(call[c].snap[id], now))
      PROVE  WindowsOK(sessions', lastActive)
  <2>1. Within(call[c].snap[id], lastActive)
    BY <1>1, <1>4 DEF WindowsOK
  <2>2. Within(Revoke(call[c].snap[id], now), lastActive)
    BY <1>4, <2>1, RowType, RevokedWithin
  <2>3. \A s \in SessionIDs : sessions'[s] = sessions[s]
          \/ sessions'[s] = Revoke(call[c].snap[id], now)
    BY <1>1, <1>4 DEF Update, Table
  <2> QED BY <1>1, <2>2, <2>3 DEF WindowsOK, Exists
<1>5. ASSUME NEW c \in Calls, NEW now \in Nat \ {0},
             sessions' = RevokeAllForUser(sessions, Owner(c), now)
      PROVE  WindowsOK(sessions', lastActive)
  <2> SUFFICES ASSUME NEW s \in SessionIDs, Exists(sessions', s)
               PROVE  Within(sessions'[s], lastActive)
    BY DEF WindowsOK
  <2>1. CASE s \in ListByUser(sessions, Owner(c))
    <3>1. sessions'[s] = Revoke(sessions[s], now) /\ Exists(sessions, s)
      BY <1>5, <2>1 DEF RevokeAllForUser, ListByUser
    <3>2. sessions[s] \in Session /\ Within(sessions[s], lastActive)
      BY <1>1, <3>1, RowType DEF WindowsOK
    <3>3. now \in Nat /\ now > 0
      OBVIOUS
    <3>4. Within(Revoke(sessions[s], now), lastActive)
      BY <3>2, <3>3, RevokedWithin
    <3> QED BY <3>1, <3>4
  <2>2. CASE s \notin ListByUser(sessions, Owner(c))
    <3>1. sessions'[s] = sessions[s]
      BY <1>5, <2>2 DEF RevokeAllForUser
    <3> QED BY <1>1, <3>1 DEF WindowsOK, Exists
  <2> QED BY <2>1, <2>2
<1>6. ASSUME NEW c \in Calls, LoginCreate(c)
      PROVE  WindowsOK(sessions', lastActive)
  <2>1. PICK now \in Since(c) :
          sessions' = Create(sessions, nextSid,
                             NewSession(call[c].caller, nextToken, now))
    BY <1>6 DEF LoginCreate
  <2>2. now \in Nat /\ call[c].caller \in Users
    BY <1>6, <2>1, CallFacts DEF Since, CallOK, CallState, LoginCreate, At
  <2>3. Within(NewSession(call[c].caller, nextToken, now), lastActive)
    BY <1>1, <2>2, LoginWithin
  <2>4. \A s \in SessionIDs : sessions'[s] = sessions[s]
          \/ sessions'[s] = NewSession(call[c].caller, nextToken, now)
    BY <1>1, <2>1 DEF Create, Table
  <2> QED BY <1>1, <2>3, <2>4 DEF WindowsOK, Exists
<1>7. ASSUME NEW c \in Calls, RefreshRotate(c)
      PROVE  WindowsOK(sessions', lastActive)
  <2> DEFINE sid == call[c].sid
             window == CappedWindow(call[c].now, Row(c).expiresAt)
             turned == RotateRefresh(Row(c), nextToken, call[c].now)
             new == [sessions[sid] EXCEPT
                       !.refreshTokenHash      = turned.refreshTokenHash,
                       !.refreshTokenExpiresAt = turned.refreshTokenExpiresAt]
  <2>1. /\ sid \in SessionIDs /\ call[c].now \in Nat
        /\ call[c].snap \in Table /\ Exists(call[c].snap, sid)
        /\ SameOrigin(call[c].snap, sessions)
    BY <1>7, CallFacts DEF CallOK, CallState, RefreshRotate, At, RefreshPCs
  <2>2. sessions' = [sessions EXCEPT ![sid] = new] /\ Exists(sessions, sid)
    BY <1>7 DEF RefreshRotate, Rotate, RotateMatches
  <2>3. Row(c) \in Session /\ sessions[sid] \in Session
    BY <1>1, <2>1, <2>2, RowType DEF Row
  <2>4. Row(c).userID = sessions[sid].userID
    BY <2>1, <2>2 DEF SameOrigin, Row
  <2>5. call[c].now <= lastActive[sessions[sid].userID]
    BY <1>7, <2>4 DEF WindowInv, RefreshRotate
  <2>6. turned.refreshTokenExpiresAt = window
    BY <2>3 DEF RotateRefresh, Session
  <2>7. /\ new.userID = sessions[sid].userID
        /\ new.issuedAt = sessions[sid].issuedAt
        /\ new.refreshTokenExpiresAt = window
    BY <2>3, <2>6 DEF Session
  <2>8. Row(c).expiresAt \in Nat
    BY <2>3 DEF Session
  <2> HIDE DEF turned, new
  <2>9. Within(new, lastActive)
    BY <1>1, <2>1, <2>3, <2>5, <2>7, <2>8, RotateWithin
  <2>10. \A s \in SessionIDs : sessions'[s] = sessions[s] \/ sessions'[s] = new
    BY <1>1, <2>1, <2>2 DEF Table
  <2> QED BY <1>1, <2>9, <2>10 DEF WindowsOK, Exists
<1> QED BY <1>2, <1>3, <1>4, <1>5, <1>6, <1>7, WritesOfAStep

(* A step of the system moves at most one call.                             *)
LEMMA CallsOfAStep ==
  ASSUME Inv, [Next]_vars, NEW c \in Calls
  PROVE  call'[c] = call[c] \/ (Follows(c, call'[c]) /\ UNCHANGED world)
<1>1. call \in [Calls -> CallState]
  BY DEF Inv, TypeOK
<1>2. ASSUME NEW d \in Calls, Start(d) \/ Step(d)
      PROVE  Moves(d) /\ UNCHANGED world
  <2>1. Moves(d)
    BY <1>2, StartMoves, StepMoves
  <2>2. UNCHANGED world
    BY <1>2 DEF Start, LoginBegin, RefreshBegin, LogoutBegin,
       RevokeSessionBegin, RevokeTokenBegin, RevokeAllBegin,
       RevokeAllExceptBegin, Authenticate, Step, LoginCreate,
       RefreshGetSession, RefreshGetUser, RefreshRevoke, RefreshRotate,
       RefreshReused, RefreshRevokeAll, LogoutGet, RevokeSessionGet,
       RevokeTokenGet, RevokeUpdate, RevokeAllUpdate, RevokeAllList,
       RevokeAllEach, RevokeAllDone, CallFails
  <2> QED BY <2>1, <2>2
<1>3. ASSUME NEW d \in Calls, Moves(d)
      PROVE  call'[c] = call[c] \/ Follows(c, call'[c])
  BY <1>1, <1>3 DEF Moves
<1>4. CASE \E d \in Calls : Start(d) \/ Step(d)
  BY <1>2, <1>3, <1>4
<1>5. CASE ~ \E d \in Calls : Start(d) \/ Step(d)
  BY <1>5 DEF Next, vars, UserChanges, UserPermanentlyDeleted, Tick
<1> QED BY <1>4, <1>5

(* WindowInv is inductive relative to Inv.                                  *)
LEMMA WindowStep ==
  ASSUME Inv, WindowInv, [Next]_vars
  PROVE  WindowInv'
<1>1. /\ clock \in Nat /\ clock' \in Nat
      /\ lastActive \in [Users -> Nat] /\ lastActive' \in [Users -> Nat]
      /\ sessions' \in Table /\ sessions \in Table
      /\ call \in [Calls -> CallState] /\ call' \in [Calls -> CallState]
  <2>1. Inv'
    BY NextInv
  <2>2. /\ clock \in 1 .. MaxTime /\ lastActive \in [Users -> 1 .. clock]
        /\ clock' \in 1 .. MaxTime /\ lastActive' \in [Users -> 1 .. clock']
    BY <2>1 DEF Inv, TypeOK
  <2>3. clock \in Nat /\ clock' \in Nat
    BY <2>2, ClockAssumption
  <2> QED BY <2>1, <2>2, <2>3 DEF Inv, TypeOK
<1>2. /\ clock <= clock'
      /\ \A u \in Users : lastActive[u] <= lastActive'[u]
      /\ \A u \in Users : userStatus'[u] = "ACTIVE" => lastActive'[u] = clock'
  BY WorldOfAStep DEF WindowInv
<1>3. ASSUME NEW tab \in Table, WindowsOK(tab, lastActive)
      PROVE  WindowsOK(tab, lastActive')
  BY <1>1, <1>2, <1>3, RowType, WithinMonotone DEF WindowsOK
<1>4. WindowsOK(sessions', lastActive')
  BY <1>1, <1>3, TableWithin
<1>5. ASSUME NEW c \in Calls
      PROVE  /\ call'[c].now <= clock'
             /\ WindowsOK(call'[c].snap, lastActive')
             /\ At(c, "refresh.rotate")' =>
                  call'[c].now <= lastActive'[Row(c).userID']
  <2>1. /\ call[c] \in CallState /\ call'[c] \in CallState
        /\ call[c].now \in Nat /\ call'[c].now \in Nat
        /\ call[c].snap \in Table /\ call'[c].snap \in Table
    <3>1. call[c] \in CallState /\ call'[c] \in CallState
      BY <1>1
    <3> QED BY <3>1 DEF CallState
  <2>2. /\ call[c].now <= clock
        /\ WindowsOK(call[c].snap, lastActive)
        /\ At(c, "refresh.rotate") => call[c].now <= lastActive[Row(c).userID]
    BY DEF WindowInv
  <2>3. CASE call'[c] = call[c]
    <3>1. call[c].now <= clock'
      BY <1>1, <1>2, <2>1, <2>2
    <3>2. WindowsOK(call[c].snap, lastActive')
      BY <1>3, <2>1, <2>2
    <3>3. ASSUME At(c, "refresh.rotate")
          PROVE  call[c].now <= lastActive'[Row(c).userID]
      <4>1. call[c].sid \in SessionIDs /\ Exists(call[c].snap, call[c].sid)
        BY <3>3, CallFacts DEF CallOK, At, RefreshPCs
      <4>2. Row(c).userID \in Users
        BY <2>1, <4>1, RowType DEF Row, Session
      <4>3. /\ lastActive[Row(c).userID] \in Nat
            /\ lastActive'[Row(c).userID] \in Nat
            /\ lastActive[Row(c).userID] <= lastActive'[Row(c).userID]
        BY <1>1, <1>2, <4>2
      <4>4. call[c].now <= lastActive[Row(c).userID]
        BY <2>2, <3>3
      <4> QED BY <2>1, <4>3, <4>4
    <3>4. Row(c)' = Row(c) /\ (At(c, "refresh.rotate")' <=> At(c, "refresh.rotate"))
      BY <2>3 DEF Row, At
    <3> QED BY <2>3, <3>1, <3>2, <3>3, <3>4
  <2>4. CASE Follows(c, call'[c]) /\ UNCHANGED world
    <3>1. /\ clock' = clock /\ lastActive' = lastActive
          /\ userStatus' = userStatus
      BY <2>4 DEF world
    <3>2. call'[c].now <= clock'
      BY <2>2, <2>4, <3>1 DEF Follows
    <3>3. WindowsOK(call'[c].snap, lastActive')
      <4>1. WindowsOK(sessions, lastActive)
        BY DEF WindowInv
      <4>2. \A id \in SessionIDs :
              call'[c].snap[id] \in {NoRow, call[c].snap[id], sessions[id]}
        BY <2>4 DEF Follows
      <4> QED BY <2>2, <3>1, <4>1, <4>2 DEF WindowsOK, Exists
    <3>4. ASSUME At(c, "refresh.rotate")'
          PROVE  call'[c].now <= lastActive'[Row(c).userID']
      <4>1. call'[c].pc = "refresh.rotate"
        BY <3>4 DEF At
      <4>2. /\ call'[c].snap = call[c].snap /\ call'[c].sid = call[c].sid
            /\ call'[c].now = call[c].now
            /\ userStatus[Row(c).userID] = "ACTIVE"
        BY <2>4, <4>1 DEF Follows
      <4>3. Row(c)' = Row(c)
        BY <4>2 DEF Row
      <4>4. call'[c].sid \in SessionIDs /\ Exists(call'[c].snap, call'[c].sid)
        <5>1. CallOK(call[c], sessions, chain, nextSid, nextToken)'
          BY NextInv DEF Inv, CallsOK
        <5> QED BY <4>1, <5>1 DEF CallOK, RefreshPCs
      <4>5. Row(c).userID \in Users
        BY <2>1, <4>2, <4>4, RowType DEF Row, Session
      <4>6. lastActive[Row(c).userID] = clock
        BY <4>2, <4>5 DEF WindowInv
      <4> QED BY <2>2, <3>1, <4>2, <4>3, <4>6
    <3> QED BY <3>2, <3>3, <3>4
  <2> QED BY <2>3, <2>4, CallsOfAStep
<1> QED BY <1>2, <1>4, <1>5 DEF WindowInv

LEMMA WindowInvariant == Spec => []WindowInv
<1>1. Init => WindowInv
  <2> SUFFICES ASSUME Init PROVE WindowInv
    OBVIOUS
  <2>1. /\ \A s \in SessionIDs : ~ Exists(NoRows, s)
        /\ Idle.pc = "idle" /\ Idle.snap = NoRows /\ Idle.now = 0
    BY DEF NoRows, Exists, Idle
  <2>2. WindowsOK(NoRows, lastActive)
    BY <2>1 DEF WindowsOK
  <2> QED BY <2>1, <2>2 DEF Init, WindowInv, At
<1>2. Inv /\ WindowInv /\ [Next]_vars => WindowInv'
  BY WindowStep
<1> QED BY <1>1, <1>2, InvInvariant, PTL DEF Spec

(* Every session runs out, whatever refreshes are in flight: no chain of    *)
(* rotations passes the hard cap fixed at login, and none extends the       *)
(* window of a user's session beyond RotationTTL after he was last ACTIVE,  *)
(* although blocking a user revokes nothing.                                *)
THEOREM SessionsAlwaysRunOut == Spec => []SessionsRunOut
<1>1. Inv /\ WindowInv => SessionsRunOut
  BY DEF Inv, RowsOK, WindowInv, WindowsOK, SessionsRunOut,
         WindowWithinHardCap, WindowEndsWithUser
<1> QED BY <1>1, WindowInvariant, InvInvariant, PTL

-----------------------------------------------------------------------------
(* The refinement: what clients see of the sessions is SessionRegistry.     *)

(* Acknowledgements are never taken back, and only Login and Rotate         *)
(* generate ids and tokens.                                                 *)
LEMMA ToldAndMinted ==
  ASSUME [Next]_vars
  PROVE  /\ acked \subseteq acked'
         /\ \/ UNCHANGED mint
            \/ \E c \in Calls : LoginCreate(c) \/ RefreshRotate(c)
<1>1. ASSUME NEW c \in Calls, Start(c)
      PROVE  acked' = acked /\ UNCHANGED mint
  BY <1>1 DEF Start, LoginBegin, RefreshBegin, LogoutBegin, RevokeSessionBegin,
     RevokeTokenBegin, RevokeAllBegin, RevokeAllExceptBegin, Authenticate, history
<1>2. ASSUME NEW c \in Calls, NEW id, RevokeRow(c, id)
      PROVE  acked \subseteq acked'
  BY <1>2 DEF RevokeRow
<1>3. ASSUME NEW c \in Calls, Step(c)
      PROVE  acked \subseteq acked'
  BY <1>2, <1>3 DEF Step, LoginCreate, RefreshGetSession, RefreshGetUser,
     RefreshRevoke, RefreshRotate, RefreshReused, RefreshRevokeAll, LogoutGet,
     RevokeSessionGet, RevokeTokenGet, RevokeUpdate, RevokeAllUpdate,
     RevokeAllList, RevokeAllEach, RevokeAllDone, CallFails, history
<1>4. ASSUME NEW c \in Calls, Step(c)
      PROVE  UNCHANGED mint \/ LoginCreate(c) \/ RefreshRotate(c)
  BY <1>4 DEF Step, RefreshGetSession, RefreshGetUser, RefreshRevoke,
     RefreshReused, RefreshRevokeAll, LogoutGet, RevokeSessionGet,
     RevokeTokenGet, RevokeUpdate, RevokeAllUpdate, RevokeAllList,
     RevokeAllEach, RevokeAllDone, CallFails
<1>5. CASE \E c \in Calls : Start(c) \/ Step(c)
  BY <1>1, <1>3, <1>4, <1>5
<1>6. CASE ~ \E c \in Calls : Start(c) \/ Step(c)
  BY <1>6 DEF Next, vars, history, UserChanges, UserPermanentlyDeleted, Tick
<1> QED BY <1>5, <1>6

(* A client is told only what is so.                                        *)
LEMMA TellStep ==
  ASSUME Inv, [Next]_vars
  PROVE  Registry!Tell
<1>1. acked \subseteq acked'
  BY ToldAndMinted
<1>2. Inv'
  BY NextInv
<1>3. ASSUME NEW s \in acked'
      PROVE  s \in SessionIDs /\ SessionState(s)' = "over"
  <2>1. s \in SessionIDs /\ s < nextSid' /\ Ended(sessions', s)
    BY <1>2 DEF Inv, TypeOK, FreshOK, AckedOK
  <2>2. s \in Nat /\ nextSid' \in Nat
    BY <1>2, <2>1, BoundsAssumption DEF SessionIDs, Inv, TypeOK
  <2> QED BY <2>1, <2>2 DEF SessionState
<1> QED BY <1>1, <1>3 DEF Registry!Tell

(* How the sessions stand, from the invariant.                              *)
LEMMA StateFacts ==
  ASSUME Inv, NEW s \in SessionIDs
  PROVE  /\ s \in Nat /\ nextSid \in Nat /\ nextToken \in Nat
         /\ s >= nextSid => Ended(sessions, s)
         /\ SessionState(s) = "none" <=> s >= nextSid
         /\ SessionState(s) = "open" <=> ~ Ended(sessions, s)
         /\ SessionState(s) \in {"none", "open", "over"}
<1>1. s \in Nat /\ nextSid \in Nat /\ nextToken \in Nat
  BY BoundsAssumption DEF SessionIDs, Inv, TypeOK
<1>2. Exists(sessions, s) => s < nextSid
  BY DEF Inv, RowsOK
<1> QED BY <1>1, <1>2 DEF SessionState, Ended

(* Revocations, bulk revocations and cascades close sessions.               *)
LEMMA CloseStep ==
  ASSUME Inv, Inv', Settles(sessions, sessions'), UNCHANGED mint
  PROVE  \E ids \in SUBSET SessionIDs : Registry!Close(ids)
<1> DEFINE ids == {s \in SessionIDs :
                     SessionState(s) = "open" /\ SessionState(s)' # "open"}
<1>1. nextSid' = nextSid /\ nextToken' = nextToken
  BY DEF mint
<1>2. ASSUME NEW s \in SessionIDs
      PROVE  /\ SessionState(s)' = IF s \in ids THEN "over" ELSE SessionState(s)
             /\ CurrentToken(s)' = IF s \in ids THEN 0 ELSE CurrentToken(s)
  <2>1. /\ s \in Nat /\ nextSid \in Nat
        /\ SessionState(s) = "none" <=> s >= nextSid
        /\ SessionState(s) = "open" <=> ~ Ended(sessions, s)
        /\ SessionState(s) \in {"none", "open", "over"}
    BY StateFacts
  <2>2. /\ SessionState(s)' = "none" <=> s >= nextSid
        /\ SessionState(s)' = "open" <=> ~ Ended(sessions', s)
        /\ SessionState(s)' \in {"none", "open", "over"}
    <3>1. s >= nextSid => Ended(sessions', s)
      BY <1>1, <2>1 DEF Inv, RowsOK, Ended
    <3> QED BY <1>1, <2>1, <3>1 DEF SessionState
  <2>3. \/ Ended(sessions', s)
        \/ /\ ~ Ended(sessions, s)
           /\ sessions'[s].refreshTokenHash = sessions[s].refreshTokenHash
    BY DEF Settles
  <2>4. CASE Ended(sessions', s)
    <3>1. CurrentToken(s)' = 0
      BY <2>4 DEF CurrentToken
    <3>2. s \notin ids => CurrentToken(s) = 0
      BY <2>1, <2>2, <2>4 DEF CurrentToken
    <3> QED BY <2>1, <2>2, <2>4, <3>1, <3>2
  <2>5. CASE ~ Ended(sessions', s)
    BY <2>1, <2>2, <2>3, <2>5 DEF CurrentToken
  <2> QED BY <2>4, <2>5
<1>3. \A s \in ids : s \in SessionIDs /\ SessionState(s) = "open"
  OBVIOUS
<1>4. ids \in SUBSET SessionIDs
  OBVIOUS
<1> HIDE DEF ids
<1>5. Registry!Close(ids)
  BY <1>1, <1>2, <1>3 DEF Registry!Close
<1> QED BY <1>4, <1>5

(* Login opens a session.                                                   *)
LEMMA OpenStep ==
  ASSUME Inv, Inv', NEW c \in Calls, LoginCreate(c)
  PROVE  \E s \in SessionIDs : Registry!Open(s)
<1>1. PICK sid \in SessionIDs : sid = nextSid
  BY DEF LoginCreate
<1>2. /\ nextSid' = sid + 1 /\ nextToken' = nextToken + 1
      /\ nextToken \in Tokens /\ nextToken \in Nat /\ sid \in Nat
      /\ sessions \in Table
  BY <1>1, BoundsAssumption DEF LoginCreate, Inv, TypeOK, SessionIDs
<1>3. PICK now \in Since(c) :
        sessions' = [sessions EXCEPT ![sid] =
                       NewSession(call[c].caller, nextToken, now)]
  BY <1>1 DEF LoginCreate, Create
<1>4. now \in Nat /\ call[c].caller \in Users
  BY CallFacts DEF Since, CallOK, CallState, LoginCreate, At
<1> DEFINE row == NewSession(call[c].caller, nextToken, now)
<1>5. /\ row # NoRow /\ ~ IsRevoked(row)
      /\ row.refreshTokenHash.sha256 = nextToken
  <2>1. row \in Session /\ ~ IsRevoked(row) /\ row.refreshTokenHash = Hash(nextToken)
    BY <1>2, <1>4, NewSessionRow
  <2> HIDE DEF row
  <2>2. Hash(nextToken).sha256 = nextToken
    BY DEF Hash
  <2> QED BY <2>1, <2>2, NoRowAssumption
<1> HIDE DEF row
<1>6. /\ sessions'[sid] = row
      /\ \A s \in SessionIDs : s # sid => sessions'[s] = sessions[s]
  BY <1>2, <1>3 DEF Table, row
<1>7. /\ SessionState(sid) = "none"
      /\ SessionState(sid)' = "open" /\ CurrentToken(sid)' = nextToken
  <2>1. ~ Ended(sessions', sid)
    BY <1>5, <1>6 DEF Ended, Exists
  <2>2. SessionState(sid) = "none"
    BY <1>1, <1>2 DEF SessionState
  <2>3. SessionState(sid)' = "open"
    BY <1>2, <2>1 DEF SessionState
  <2>4. CurrentToken(sid)' = nextToken
    BY <1>5, <1>6, <2>1 DEF CurrentToken
  <2> QED BY <2>2, <2>3, <2>4
<1>8. ASSUME NEW s \in SessionIDs, s # sid
      PROVE  SessionState(s)' = SessionState(s) /\ CurrentToken(s)' = CurrentToken(s)
  <2>1. s >= nextSid' <=> s >= nextSid
    BY <1>1, <1>2, <1>8 DEF SessionIDs
  <2>2. sessions'[s] = sessions[s]
    BY <1>6, <1>8
  <2> QED BY <2>1, <2>2 DEF SessionState, CurrentToken, Ended, Exists
<1>9. Registry!Open(sid)
  <2>1. nextToken' - 1 = (nextToken - 1) + 1 /\ (nextToken - 1) + 1 = nextToken
    BY <1>2
  <2> QED BY <1>7, <1>8, <2>1 DEF Registry!Open, Registry!Mint
<1> QED BY <1>9

(* Rotate replaces the token of an open session; on a session that is over  *)
(* by then, the token it generated is lost.                                 *)
LEMMA RotateStep ==
  ASSUME Inv, Inv', NEW c \in Calls, RefreshRotate(c)
  PROVE  Registry!Waste \/ \E s \in SessionIDs : Registry!Rotate(s)
<1>1. PICK sid \in SessionIDs :
        /\ sid = call[c].sid
        /\ call[c].snap \in Table /\ Exists(call[c].snap, sid)
  BY CallFacts DEF CallOK, CallState, RefreshRotate, At, RefreshPCs
<1>2. /\ nextSid' = nextSid /\ nextToken' = nextToken + 1
      /\ nextToken \in Nat /\ sessions \in Table /\ sessions' \in Table
      /\ Exists(sessions, sid)
  BY <1>1, BoundsAssumption DEF RefreshRotate, RotateMatches, Inv, TypeOK
<1> DEFINE turned == RotateRefresh(Row(c), nextToken, call[c].now)
           new == [sessions[sid] EXCEPT
                     !.refreshTokenHash      = turned.refreshTokenHash,
                     !.refreshTokenExpiresAt = turned.refreshTokenExpiresAt]
<1>3. sessions' = [sessions EXCEPT ![sid] = new]
  BY <1>1 DEF RefreshRotate, Rotate
<1>4. Row(c) \in Session /\ sessions[sid] \in Session
  BY <1>1, <1>2, RowType DEF Row
<1>5. turned.refreshTokenHash = Hash(nextToken)
  BY <1>4 DEF RotateRefresh, Session
<1>6. /\ new.refreshTokenHash.sha256 = nextToken
      /\ new.revokedAt = sessions[sid].revokedAt
      /\ new.userID = sessions[sid].userID
  BY <1>4, <1>5 DEF Session, Hash
<1> HIDE DEF new
<1>7. /\ sessions'[sid] = new
      /\ \A s \in SessionIDs : s # sid => sessions'[s] = sessions[s]
  BY <1>2, <1>3 DEF Table
<1>8. Exists(sessions', sid)
  <2>1. /\ turned.refreshTokenHash \in Hashes
        /\ turned.refreshTokenExpiresAt \in Nat
    <3>1. turned.refreshTokenExpiresAt
            = CappedWindow(call[c].now, Row(c).expiresAt)
      BY <1>4 DEF RotateRefresh, Session
    <3>2. call[c].now \in Nat /\ Row(c).expiresAt \in Nat
      BY <1>4, CallFacts DEF CallState, Session
    <3>3. Hash(nextToken) \in Hashes
      BY DEF Hashes, Hash, RefreshRotate
    <3> HIDE DEF turned
    <3> QED BY <1>5, <3>1, <3>2, <3>3, CappedWindowBound
  <2> HIDE DEF turned
  <2>2. new \in Session
    BY <1>4, <2>1 DEF Session, new
  <2> QED BY <1>7, <2>2, NoRowAssumption DEF Exists
<1>9. ASSUME NEW s \in SessionIDs
      PROVE  /\ Ended(sessions', s) <=> Ended(sessions, s)
             /\ SessionState(s)' = SessionState(s)
  <2>1. Ended(sessions', s) <=> Ended(sessions, s)
    BY <1>2, <1>6, <1>7, <1>8 DEF Ended, Exists, IsRevoked
  <2> QED BY <1>2, <2>1 DEF SessionState
<1>10. ASSUME NEW s \in SessionIDs
       PROVE  CurrentToken(s)' = IF s = sid /\ ~ Ended(sessions, sid)
                                 THEN nextToken ELSE CurrentToken(s)
  BY <1>6, <1>7, <1>9 DEF CurrentToken
<1>11. nextToken' - 1 = (nextToken - 1) + 1 /\ (nextToken - 1) + 1 = nextToken
  BY <1>2
<1>12. CASE Ended(sessions, sid)
  <2>1. Registry!Waste
    BY <1>9, <1>10, <1>11, <1>12 DEF Registry!Waste
  <2> QED BY <2>1
<1>13. CASE ~ Ended(sessions, sid)
  <2>1. SessionState(sid) = "open"
    BY <1>13, StateFacts
  <2>2. Registry!Rotate(sid)
    BY <1>9, <1>10, <1>11, <1>13, <2>1 DEF Registry!Rotate, Registry!Mint
  <2> QED BY <2>2
<1> QED BY <1>12, <1>13

(* The session use cases implement SessionRegistry: whatever interleaving   *)
(* of logins, refreshes, revocations and deletions, an over session stays   *)
(* over, an open one trades its token only for a newer one, and clients are *)
(* told of ends that happened.                                              *)
THEOREM AuthRefinesSessionRegistry == Spec => ImplementsSessionRegistry
<1>1. Init => Registry!Init
  <2> SUFFICES ASSUME Init PROVE Registry!Init
    OBVIOUS
  <2>1. ASSUME NEW s \in SessionIDs
        PROVE  SessionState(s) = "none" /\ CurrentToken(s) = 0
    <3>1. s >= nextSid /\ Ended(sessions, s)
      BY DEF Init, SessionIDs, NoRows, Ended, Exists
    <3> QED BY <3>1 DEF SessionState, CurrentToken
  <2>2. nextToken - 1 = 0 /\ acked = {}
    BY DEF Init
  <2> QED BY <2>1, <2>2 DEF Registry!Init
<1>2. Inv /\ [Next]_vars => [Registry!Next]_(Registry!vars)
  <2> SUFFICES ASSUME Inv, [Next]_vars PROVE Registry!Next
    OBVIOUS
  <2>1. Inv' /\ Registry!Tell
    BY NextInv, TellStep
  <2>2. \/ \E s \in SessionIDs : Registry!Open(s) \/ Registry!Rotate(s)
        \/ Registry!Waste
        \/ \E ids \in SUBSET SessionIDs : Registry!Close(ids)
    <3>1. CASE \E c \in Calls : LoginCreate(c) \/ RefreshRotate(c)
      BY <2>1, <3>1, OpenStep, RotateStep
    <3>2. CASE ~ \E c \in Calls : LoginCreate(c) \/ RefreshRotate(c)
      <4>1. Settles(sessions, sessions') /\ UNCHANGED mint
        BY <3>2, StepSettlesOrMints, ToldAndMinted
      <4> QED BY <2>1, <4>1, CloseStep
    <3> QED BY <3>1, <3>2
  <2> QED BY <2>1, <2>2 DEF Registry!Next
<1> QED BY <1>1, <1>2, InvInvariant, PTL
    DEF Spec, ImplementsSessionRegistry, Registry!Spec

-----------------------------------------------------------------------------
(* The users underneath.                                                    *)

(* What IdentityService promises about the user u.                          *)
Account(u) == INSTANCE RowLifecycle WITH
  Statuses  <- UserStatuses \ {"gone"},
  Purgeable <- {"DELETED"},
  status    <- userStatus[u]

(* Any step of u that keeps the promise, as the tables here see it: nothing *)
(* else moves, but that a purge takes the sessions of u along.              *)
AccountStep(u) ==
  /\ Account(u)!Next
  /\ userStatus' = [userStatus EXCEPT ![u] = userStatus'[u]]
  /\ sessions' = IF userStatus'[u] = "gone" THEN CascadeDelete(sessions, u)
                                            ELSE sessions
  /\ SeeActive
  /\ reply' = "none"
  /\ UNCHANGED <<clock, call, mint, client, history>>

(* No step gives a user a status that IdentityService could not.            *)
THEOREM UsersFollowRowLifecycle == Spec => \A u \in Users : Account(u)!Spec
<1>1. ASSUME NEW u \in Users PROVE Spec => Account(u)!Spec
  <2>1. Init => Account(u)!Init
    BY DEF Init, Account!Init
  <2>2. Inv /\ [Next]_vars => [Account(u)!Next]_(userStatus[u])
    <3> SUFFICES ASSUME Inv, [Next]_vars, userStatus'[u] # userStatus[u]
                 PROVE  Account(u)!Next
      BY Zenon
    <3>1. userStatus \in [Users -> UserStatuses]
      BY DEF Inv, TypeOK
    <3>2. ASSUME NEW v \in Users, NEW status \in UserStatuses \ {"gone"},
                 UserChanges(v, status)
          PROVE  Account(u)!Next
      BY <3>1, <3>2 DEF UserChanges, Account!Next, Account!Change
    <3>3. ASSUME NEW v \in Users, UserPermanentlyDeleted(v)
          PROVE  Account(u)!Next
      BY <3>1, <3>3 DEF UserPermanentlyDeleted, Account!Next, Account!Delete
    <3> QED BY <3>2, <3>3, WorldMoves DEF world, Tick
  <2> QED BY <2>1, <2>2, InvInvariant, PTL DEF Spec, Account!Spec
<1> QED BY <1>1

(* The sessions are proved against every behaviour of a user that           *)
(* UserAccounts can show: AccountRefinesRowLifecycle bounds what the        *)
(* account does, and in every state that Inv and WindowInv allow each such  *)
(* step is a step here.                                                     *)
THEOREM EveryAccountStepIsCovered ==
  ASSUME Inv, WindowInv, NEW u \in Users, AccountStep(u)
  PROVE  Next
<1>1. /\ userStatus \in [Users -> UserStatuses] /\ lastActive \in [Users -> 1 .. clock]
      /\ \A v \in Users : userStatus[v] = "ACTIVE" => lastActive[v] = clock
  BY DEF Inv, TypeOK, WindowInv
<1>2. Account(u)!Next /\ userStatus[u] # "unborn"
  BY <1>1 DEF AccountStep, UserStatuses
<1>3. CASE Account(u)!Change
  <2>1. /\ userStatus[u] # "gone" /\ userStatus'[u] # "gone"
        /\ userStatus'[u] \in UserStatuses \ {"gone"}
    BY <1>3 DEF Account!Change
  <2>2. UserChanges(u, userStatus'[u])
    BY <2>1 DEF AccountStep, UserChanges
  <2> QED BY <2>1, <2>2 DEF Next
<1>4. CASE Account(u)!Delete
  <2>1. userStatus[u] = "DELETED" /\ userStatus'[u] = "gone"
    BY <1>4 DEF Account!Delete
  <2>2. userStatus' = [userStatus EXCEPT ![u] = "gone"]
    BY <2>1 DEF AccountStep
  <2>3. \A v \in Users : (IF userStatus'[v] = "ACTIVE" THEN clock' ELSE lastActive[v])
                           = lastActive[v]
    BY <1>1, <2>1, <2>2 DEF AccountStep
  <2>4. UNCHANGED lastActive
    BY <1>1, <2>3 DEF AccountStep, SeeActive
  <2>5. UserPermanentlyDeleted(u)
    BY <2>1, <2>2, <2>4 DEF AccountStep, UserPermanentlyDeleted
  <2> QED BY <2>5 DEF Next
<1> QED BY <1>2, <1>3, <1>4 DEF Account!Next, Account!Create

-----------------------------------------------------------------------------
(* Calls end.                                                               *)

(* The round trips a call at pc has ahead, the loop over its list counted   *)
(* as one.                                                                  *)
Ahead(pc) ==
  CASE pc = "idle" -> 0
    [] pc \in {"login.create", "refresh.revoke", "refresh.revokeAll",
               "revoke.update", "revokeAll.update", "revokeAll.each"} -> 1
    [] pc \in {"refresh.rotate", "logout.get", "revokeSession.get",
               "revokeToken.get", "revokeAll.list"} -> 2
    [] pc = "refresh.user" -> 3
    [] pc = "refresh.session" -> 4

Closer(new, old) ==
  \/ Ahead(new.pc) < Ahead(old.pc)
  \/ new.pc = old.pc /\ new.left \subseteq old.left /\ new.left # old.left

(* A call under way is touched only by its own steps, and each of them      *)
(* brings it closer to its answer: no use case retries, loops back or       *)
(* starts over, and RevokeAllSessions visits each listed row once.          *)
CallsGoForward ==
  [][\A c \in Calls :
       (call[c].pc # "idle" /\ call'[c] # call[c]) => Closer(call'[c], call[c])]_vars

LEMMA AheadValues ==
  /\ Ahead("idle") = 0
  /\ Ahead("login.create") = 1 /\ Ahead("refresh.revoke") = 1
  /\ Ahead("refresh.revokeAll") = 1 /\ Ahead("revoke.update") = 1
  /\ Ahead("revokeAll.update") = 1 /\ Ahead("revokeAll.each") = 1
  /\ Ahead("refresh.rotate") = 2 /\ Ahead("logout.get") = 2
  /\ Ahead("revokeSession.get") = 2 /\ Ahead("revokeToken.get") = 2
  /\ Ahead("revokeAll.list") = 2
  /\ Ahead("refresh.user") = 3 /\ Ahead("refresh.session") = 4
BY DEF Ahead

LEMMA GotoCloser ==
  ASSUME Inv, NEW c \in Calls, NEW st, Goto(c, st), Closer(st, call[c])
  PROVE  Closer(call'[c], call[c]) /\ \A d \in Calls \ {c} : call'[d] = call[d]
BY DEF Goto, Inv, TypeOK

LEMMA ReturnCloser ==
  ASSUME Inv, NEW c \in Calls, NEW code, Return(c, code), call[c].pc # "idle"
  PROVE  Closer(call'[c], call[c]) /\ \A d \in Calls \ {c} : call'[d] = call[d]
<1>1. call'[c] = Idle /\ \A d \in Calls \ {c} : call'[d] = call[d]
  BY DEF Return, Inv, TypeOK
<1>2. Idle.pc = "idle" /\ call[c].pc \in PCs
  BY CallFacts DEF Idle, CallState
<1>3. 0 < Ahead(call[c].pc)
  BY <1>2, AheadValues DEF PCs
<1> QED BY <1>1, <1>2, <1>3, AheadValues DEF Closer

(* Every step of a call brings it closer, and moves no other.               *)
LEMMA StepCloser ==
  ASSUME Inv, NEW c \in Calls, Step(c)
  PROVE  Closer(call'[c], call[c]) /\ \A d \in Calls \ {c} : call'[d] = call[d]
<1> DEFINE Goal == Closer(call'[c], call[c]) /\ \A d \in Calls \ {c} : call'[d] = call[d]
<1> SUFFICES Goal
  OBVIOUS
<1>1. call[c] \in CallState
  BY CallFacts
<1>2. call[c].pc # "idle"
  BY DEF Step, LoginCreate, RefreshGetSession, RefreshGetUser, RefreshRevoke,
     RefreshRotate, RefreshReused, RefreshRevokeAll, LogoutGet, RevokeSessionGet,
     RevokeTokenGet, RevokeUpdate, RevokeAllUpdate, RevokeAllList, RevokeAllEach,
     RevokeAllDone, CallFails, At
<1>3. ASSUME \E code : Return(c, code) PROVE Goal
  BY <1>2, <1>3, ReturnCloser
<1>4. ASSUME NEW st, Goto(c, st), Ahead(st.pc) < Ahead(call[c].pc) PROVE Goal
  BY <1>4, GotoCloser DEF Closer
<1> HIDE DEF Goal
<1>5. CASE RefreshGetSession(c)
  <2>1. ASSUME NEW id, NEW snap,
               Goto(c, [call[c] EXCEPT !.pc = "refresh.user", !.sid = id, !.snap = snap])
        PROVE  Goal
    <3> DEFINE st == [call[c] EXCEPT !.pc = "refresh.user", !.sid = id, !.snap = snap]
    <3>1. st.pc = "refresh.user" /\ call[c].pc = "refresh.session"
      BY <1>1, <1>5 DEF CallState, RefreshGetSession, At
    <3> HIDE DEF st
    <3>2. Goto(c, st)
      BY <2>1 DEF st
    <3> QED BY <1>4, <3>1, <3>2, AheadValues
  <2> QED BY <1>3, <1>5, <2>1 DEF RefreshGetSession
<1>6. CASE RefreshGetUser(c)
  <2> DEFINE st1 == [call[c] EXCEPT !.pc = "refresh.rotate"]
             st2(code) == [call[c] EXCEPT !.pc = "refresh.revoke", !.code = code]
  <2>1. /\ st1.pc = "refresh.rotate" /\ call[c].pc = "refresh.user"
        /\ \A code : st2(code).pc = "refresh.revoke"
    BY <1>1, <1>6 DEF CallState, RefreshGetUser, At
  <2>2. Goto(c, st1) \/ \E code : Goto(c, st2(code))
    BY <1>6 DEF RefreshGetUser
  <2> HIDE DEF st1, st2
  <2> QED BY <1>4, <2>1, <2>2, AheadValues
<1>7. CASE RefreshReused(c)
  <2> DEFINE st == [call[c] EXCEPT !.pc = "refresh.revokeAll"]
  <2>1. st.pc = "refresh.revokeAll" /\ call[c].pc = "refresh.rotate" /\ Goto(c, st)
    BY <1>1, <1>7 DEF CallState, RefreshReused, At
  <2> HIDE DEF st
  <2> QED BY <1>4, <2>1, AheadValues
<1>8. CASE LogoutGet(c) \/ RevokeSessionGet(c) \/ RevokeTokenGet(c)
  <2>1. call[c].pc \in {"logout.get", "revokeSession.get", "revokeToken.get"}
    BY <1>8 DEF LogoutGet, RevokeSessionGet, RevokeTokenGet, At
  <2>2. ASSUME NEW id, RevokeRow(c, id) PROVE Goal
    <3> DEFINE st == [call[c] EXCEPT !.pc = "revoke.update", !.sid = id,
                        !.now = clock,
                        !.snap = [NoRows EXCEPT ![id] = sessions[id]]]
    <3>1. st.pc = "revoke.update"
      BY <1>1 DEF CallState
    <3>2. Goto(c, st) \/ \E code : Return(c, code)
      BY <2>2 DEF RevokeRow
    <3> HIDE DEF st
    <3> QED BY <1>3, <1>4, <2>1, <3>1, <3>2, AheadValues
  <2> QED BY <1>3, <1>8, <2>2 DEF LogoutGet, RevokeSessionGet, RevokeTokenGet
<1>9. CASE RevokeAllList(c)
  <2>1. PICK now, snap, left :
          Goto(c, [call[c] EXCEPT !.pc = "revokeAll.each", !.now = now,
                                  !.snap = snap, !.left = left])
    BY <1>9 DEF RevokeAllList
  <2> DEFINE st == [call[c] EXCEPT !.pc = "revokeAll.each", !.now = now,
                                   !.snap = snap, !.left = left]
  <2>2. st.pc = "revokeAll.each" /\ call[c].pc = "revokeAll.list"
    BY <1>1, <1>9 DEF CallState, RevokeAllList, At
  <2>3. Goto(c, st)
    BY <2>1
  <2> HIDE DEF st
  <2> QED BY <1>4, <2>2, <2>3, AheadValues
<1>10. CASE RevokeAllEach(c)
  <2>1. PICK id \in call[c].left :
          \/ Goto(c, [call[c] EXCEPT !.left = @ \ {id}])
          \/ \E code : Return(c, code)
    BY <1>10 DEF RevokeAllEach
  <2> DEFINE st == [call[c] EXCEPT !.left = @ \ {id}]
  <2>2. Closer(st, call[c])
    BY <1>1, <2>1 DEF CallState, Closer
  <2>3. CASE Goto(c, st)
    <3> HIDE DEF st
    <3> QED BY <2>2, <2>3, GotoCloser DEF Goal
  <2> QED BY <1>3, <2>1, <2>3
<1>11. CASE \E code : Return(c, code)
  BY <1>3, <1>11
<1> QED BY <1>5, <1>6, <1>7, <1>8, <1>9, <1>10, <1>11 DEF Step, LoginCreate,
        RefreshRevoke, RefreshRotate, RefreshRevokeAll, RevokeUpdate,
        RevokeAllUpdate, RevokeAllDone, CallFails

(* What EveryCallReturns rests on besides fairness: calls only go forward.  *)
THEOREM CallsAlwaysGoForward == Spec => CallsGoForward
<1>1. ASSUME Inv, Next, NEW c \in Calls, call[c].pc # "idle", call'[c] # call[c]
      PROVE  Closer(call'[c], call[c])
  <2>1. ASSUME NEW d \in Calls, Start(d) PROVE call'[c] = call[c]
    <3>1. call[d].pc = "idle" /\ \E st : call' = [call EXCEPT ![d] = st]
      BY <2>1 DEF Start, LoginBegin, RefreshBegin, LogoutBegin, RevokeSessionBegin,
         RevokeTokenBegin, RevokeAllBegin, RevokeAllExceptBegin, Authenticate,
         Begin, Goto, Return, At
    <3> QED BY <1>1, <3>1 DEF Inv, TypeOK
  <2>2. ASSUME NEW d \in Calls, Step(d) PROVE Closer(call'[c], call[c])
    BY <1>1, <2>2, StepCloser
  <2> QED BY <1>1, <2>1, <2>2 DEF Next, UserChanges, UserPermanentlyDeleted, Tick
<1>2. Inv /\ [Next]_vars =>
        [\A c \in Calls :
           (call[c].pc # "idle" /\ call'[c] # call[c]) => Closer(call'[c], call[c])]_vars
  BY <1>1
<1> QED BY <1>2, InvInvariant, PTL DEF Spec, CallsGoForward
=============================================================================
