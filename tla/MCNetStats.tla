------------------------------ MODULE MCNetStats ------------------------------
(* NetStats for TLC: all CPUs run the same programs, and both directions    *)
(* are counted alike.  Two of the three interfaces share a bucket.          *)
EXTENDS NetStats, TLC

BucketOf == 1 :> 1 @@ 2 :> 1 @@ 3 :> 2

Symmetry == Permutations(CPUs) \cup Permutations(Directions)
=============================================================================
