------------------------------- MODULE MCWsHub -------------------------------
(* Instances of WsHub for TLC. *)
EXTENDS WsHub

CONSTANTS c1, c2, c3, u1, u2

\* One user with two connections and another with one.
TwoTabs == [c \in Conns |-> IF c = c3 THEN u2 ELSE u1]

=============================================================================
