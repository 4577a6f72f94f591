------------------------------ MODULE MCCatalog ------------------------------
(* Small instances of Catalog for TLC.                                      *)
EXTENDS Catalog, TLC

(* No action tells two calls or two permissions apart.                      *)
Symmetry == Permutations(Calls) \cup Permutations(Permissions)

=============================================================================
