----------------------------- MODULE MCDailyReward -----------------------------
(* Instances of DailyReward for TLC. *)
EXTENDS DailyReward, TLC

\* Users and workers are interchangeable.
Symmetry == Permutations(Users) \cup Permutations(Workers)

=============================================================================
