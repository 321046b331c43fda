----------------------------- MODULE MCAccounts -----------------------------
(* Instances of Accounts for TLC. *)
EXTENDS Accounts, TLC

\* No action or property tells two tokens, workers, names or users without
\* a role apart.
Symmetry ==
  Permutations(Tokens) \cup Permutations(Workers)
    \cup Permutations(Names) \cup Permutations(Users \ Admins)

=============================================================================
