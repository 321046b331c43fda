------------------------------ MODULE TokenBucket ------------------------------
(***************************************************************************)
(* What the rate limiter promises: a bucket for each client and path that  *)
(* is there for ever.  A request takes Cost[k] from it; it refills by 1 a  *)
(* tick.                                                                   *)
(***************************************************************************)
EXTENDS Integers

CONSTANTS Keys, Full, Cost

VARIABLE level

Init == level = [k \in Keys |-> Full[k]]

Admit(k) ==
  /\ level[k] >= Cost[k]
  /\ level' = [level EXCEPT ![k] = @ - Cost[k]]

Refill ==
  level' = [k \in Keys |-> IF level[k] < Full[k] THEN level[k] + 1 ELSE Full[k]]

Next == Refill \/ \E k \in Keys : Admit(k)

Spec == Init /\ [][Next]_level

=============================================================================
