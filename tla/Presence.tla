------------------------------- MODULE Presence -------------------------------
(***************************************************************************)
(* What the hub promises about who is online: connections join and leave   *)
(* in one step each, and whenever a list of users is broadcast to one of   *)
(* them, it names those who are online at that very moment.                *)
(***************************************************************************)
CONSTANTS
  Conns,  \* connections
  User    \* the user of each connection

VARIABLES
  connected,  \* connections that are there
  told        \* the last list broadcast to each connection

vars == <<connected, told>>

Online == {User[c] : c \in connected}

Init ==
  /\ connected = {}
  /\ told = [c \in Conns |-> {}]

Join(c) ==
  /\ c \notin connected
  /\ connected' = connected \cup {c}
  /\ UNCHANGED told

Leave(c) ==
  /\ c \in connected
  /\ connected' = connected \ {c}
  /\ UNCHANGED told

Tell(c) ==
  /\ c \in connected
  /\ told' = [told EXCEPT ![c] = Online]
  /\ UNCHANGED connected

Next == \E c \in Conns : Join(c) \/ Leave(c) \/ Tell(c)

Spec == Init /\ [][Next]_vars

=============================================================================
