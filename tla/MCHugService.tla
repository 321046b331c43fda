---------------------------- MODULE MCHugService ----------------------------
(* Instances of HugService for TLC. *)
EXTENDS HugRefinement, TLC

\* Users, hugs and workers are interchangeable: no action or safety property
\* tells two of them apart.
Symmetry ==
  Permutations(Users) \cup Permutations(HugIds) \cup Permutations(Workers)

\* The state without the last response, which no step reads: for the runs whose
\* properties do not speak of it.
StateWithoutReply == <<now, tables, req>>

=============================================================================
