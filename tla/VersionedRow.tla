---------------------------- MODULE VersionedRow ----------------------------
(***************************************************************************)
(* What a row with an optimistic-locking etag promises: it is created      *)
(* once, every change either stamps a version never used before or writes  *)
(* an earlier version back, and after its deletion it never returns.       *)
(* Catalog and UserAccounts implement it.                                  *)
(***************************************************************************)
EXTENDS Naturals

VARIABLES
  current, \* the version of the row, 0 if there is none
  minted   \* versions are numbered in the order they are stamped

vars == <<current, minted>>

Init == current \in {0, 1} /\ minted = current

Create == minted = 0 /\ current' = 1 /\ minted' = 1

Stamp == current # 0 /\ current' = minted + 1 /\ minted' = minted + 1

WriteBack == current # 0 /\ current' \in 1 .. minted /\ UNCHANGED minted

Delete == current # 0 /\ current' = 0 /\ UNCHANGED minted

Next == Create \/ Stamp \/ WriteBack \/ Delete

Spec == Init /\ [][Next]_vars
=============================================================================
