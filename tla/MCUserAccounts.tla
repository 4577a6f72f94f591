---------------------------- MODULE MCUserAccounts ----------------------------
(* Small instances of UserAccounts for TLC.                                 *)
EXTENDS UserAccounts, TLC

CONSTANT MaxChanges

(* No action tells two calls, passwords, profiles or codes of a batch apart. *)
Symmetry == Permutations(Calls) \cup Permutations(Passwords)
              \cup Permutations(Profiles) \cup Permutations(CodeIndex)

(* Changes are versions of the row after the first, batches and sessions.   *)
Changes    == (nextEtag - 2) + (nextBatch - 1) + (nextSid - 1)
FewChanges == Changes <= MaxChanges

=============================================================================
