------------------------------ MODULE MCListing ------------------------------
(* Instances of Listing for TLC.                                            *)
EXTENDS Listing

MCPageSizes == {-1, 0, 5}
MCIds       == 1 .. 3
MCTimes     == 1 .. 2
MCNames     == 1 .. 2
=============================================================================
