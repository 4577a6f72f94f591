---------------------------- MODULE TokenBuckets ----------------------------
(***************************************************************************)
(* What a rate limiter promises: a bucket per key that always exists, fills *)
(* by one unit per tick up to Capacity, and admits a request by giving up  *)
(* Cost units.  Nothing but admission takes from a bucket and nothing but  *)
(* time gives to it.                                                       *)
(***************************************************************************)
EXTENDS Naturals

CONSTANTS Buckets, Capacity, Cost

VARIABLE fill

Init == fill = [b \in Buckets |-> Capacity]

Elapse == fill' = [b \in Buckets |-> IF fill[b] < Capacity THEN fill[b] + 1
                                     ELSE fill[b]]

Admit(b) == /\ fill[b] >= Cost
            /\ fill' = [fill EXCEPT ![b] = fill[b] - Cost]

Next == Elapse \/ \E b \in Buckets : Admit(b)

Spec == Init /\ [][Next]_fill
=============================================================================
