---------------------------- MODULE RowLifecycle ----------------------------
(***************************************************************************)
(* What the services promise each other about the status of a row they     *)
(* own: it is born ACTIVE, then takes any status in any order, and once    *)
(* deleted for good, which only some statuses allow, it never returns.     *)
(* UserAccounts and Catalog implement it; AuthSessions and AccessControl   *)
(* reach into users and roles that change underneath, and rely on no more. *)
(***************************************************************************)
CONSTANTS
  Statuses, \* of a row that exists
  Purgeable \* those of them from which it may be deleted

VARIABLE status \* of a row, "unborn" before it exists, "gone" after

Init == status \in {"unborn", "ACTIVE"}

Create == status = "unborn" /\ status' = "ACTIVE"

Change == status \in Statuses /\ status' \in Statuses

Delete == status \in Purgeable /\ status' = "gone"

Next == Create \/ Change \/ Delete

Spec == Init /\ [][Next]_status
=============================================================================
