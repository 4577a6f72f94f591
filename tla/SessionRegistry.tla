--------------------------- MODULE SessionRegistry ---------------------------
(***************************************************************************)
(* What the sessions of the service promise their clients: a session is    *)
(* opened once, has one current refresh token at a time, each newer than   *)
(* every token before it, and when it is over it is over for good; a       *)
(* client is told that a session is over only when it is.  Deadlines are   *)
(* not part of it.  AuthSessions implements it.                            *)
(***************************************************************************)
EXTENDS Naturals

CONSTANT Ids \* session ids

VARIABLES
  state,  \* of a session: "none" before it is opened, "open", "over"
  token,  \* its current refresh token, 0 if it is not open
  minted, \* refresh tokens are numbered in the order they are generated
  told    \* the sessions some client was told are over

vars == <<state, token, minted, told>>

Init ==
  /\ state = [s \in Ids |-> "none"]
  /\ token = [s \in Ids |-> 0]
  /\ minted = 0
  /\ told = {}

Mint(s) ==
  /\ minted' = minted + 1
  /\ token' = [token EXCEPT ![s] = minted + 1]

Open(s) == state[s] = "none" /\ state' = [state EXCEPT ![s] = "open"] /\ Mint(s)

Rotate(s) == state[s] = "open" /\ UNCHANGED state /\ Mint(s)

(* A token generated for a session that was over by the time it was stored. *)
Waste == minted' = minted + 1 /\ UNCHANGED <<state, token>>

(* A revocation, bulk revocation or deletion of the user ends the sessions  *)
(* that were still open.                                                    *)
Close(ids) ==
  /\ \A s \in ids : state[s] = "open"
  /\ state' = [s \in Ids |-> IF s \in ids THEN "over" ELSE state[s]]
  /\ token' = [s \in Ids |-> IF s \in ids THEN 0 ELSE token[s]]
  /\ UNCHANGED minted

Tell == told \subseteq told' /\ \A s \in told' : state'[s] = "over"

Next ==
  /\ \/ \E s \in Ids : Open(s) \/ Rotate(s)
     \/ Waste
     \/ \E ids \in SUBSET Ids : Close(ids)
  /\ Tell

Spec == Init /\ [][Next]_vars
=============================================================================
