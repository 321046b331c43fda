------------------------- MODULE MCLeaderboardCache -------------------------
(* An instance of LeaderboardCache for TLC: a page of the leaderboard, and
   the activity chart, whose cache lives longer. *)
EXTENDS LeaderboardCache, TLC

CONSTANTS page, activity

TTLOf == page :> 1 @@ activity :> 2

=============================================================================
