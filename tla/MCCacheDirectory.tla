-------------------------- MODULE MCCacheDirectory --------------------------
(***************************************************************************)
(* An older build p and two processes of a newer one.                      *)
(***************************************************************************)
EXTENDS CacheDirectory, TLC

CONSTANTS p, q, r

TwoBuilds == (p :> 2) @@ (q :> 3) @@ (r :> 3)
Twins == Permutations({q, r})
=============================================================================
