---------------------------- MODULE MCRateLimiter ----------------------------
(* An instance of RateWindow for TLC: one path as slow as its TTL allows, as
   registration is, and one that refills long before its TTL. *)
EXTENDS RateWindow, TLC

CONSTANTS k1, k2, k3

FullOf == k1 :> 4 @@ k2 :> 2 @@ k3 :> 2
CostOf == k1 :> 2 @@ k2 :> 1 @@ k3 :> 1
TTLOf == k1 :> 4 @@ k2 :> 3 @@ k3 :> 3

\* k2 and k3 are two clients of one path.
Symmetry == Permutations(Workers) \cup Permutations({k2, k3})

=============================================================================
