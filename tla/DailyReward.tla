------------------------------ MODULE DailyReward ------------------------------
(***************************************************************************)
(* ClaimDailyReward (service/hug/queries.go): a transaction at READ        *)
(* COMMITTED that reads the row of daily_rewards, decides in Go whether    *)
(* today's reward is still to be had, upserts the row and pays.  A         *)
(* statement is a step, the last one together with its COMMIT; an upsert   *)
(* waits while another transaction holds the row.                          *)
(*                                                                         *)
(* Time is counted in ticks, DayLength to a day.  The date in Go is UTC,   *)
(* and so is the one in SQL: the compose files leave the database in UTC.  *)
(* now() in SQL is the time of BEGIN, time.Now() in Go is the real one.    *)
(***************************************************************************)
EXTENDS Integers, FiniteSets, Sequences

CONSTANTS
  Users,
  Workers,     \* requests that may be in progress at the same time
  NoOne,       \* the user of an idle worker
  DayLength,   \* ticks in a day
  BaseReward,  \* 5 coins
  MaxBonus,    \* 5 coins
  MaxAmount,   \* largest value of the INTEGER column balances.amount
  MaxTime      \* bound on the clock

ASSUME ClaimAssumption ==
  /\ NoOne \notin Users
  /\ DayLength \in Nat \ {0}
  /\ {BaseReward, MaxBonus, MaxAmount, MaxTime} \subseteq Nat

VARIABLES
  now,      \* the clock
  rewards,  \* table daily_rewards
  balance,  \* table balances
  req,      \* what each worker is doing
  payments,   \* auxiliary: the days each paid claim began and was checked on
  overlapped  \* auxiliary: users who have had two claims in progress

vars == <<now, rewards, balance, req, payments, overlapped>>

Day(t) == t \div DayLength
NoReward == [streak |-> 0, claimed |-> 0]
Reward == [streak: 1..(Day(MaxTime) + 1), claimed: 0..MaxTime]

Idle == [pc |-> "idle", user |-> NoOne, began |-> 0, checked |-> 0,
         row |-> NoReward]

-----------------------------------------------------------------------------
ClaimDailyReward(w, u) ==
  /\ req[w] = Idle
  /\ req' = [req EXCEPT ![w] =
       [Idle EXCEPT !.pc = "getDailyReward", !.user = u, !.began = now]]
  /\ overlapped' = IF \E x \in Workers : req[x].user = u
                   THEN overlapped \cup {u} ELSE overlapped
  /\ UNCHANGED <<now, rewards, balance, payments>>

\* Mutant of ClaimedToday: the date of the last claim is taken in a local time
\* zone, one tick ahead (.UTC() is missing).
ClaimedTodayLocally(row) == row # NoReward /\ Day(row.claimed + 1) = Day(now)

ClaimedToday(row) == row # NoReward /\ Day(row.claimed) = Day(now)

\* The SELECT, and the check against models.Today().
GetDailyReward(w) ==
  /\ req[w].pc = "getDailyReward"
  /\ IF ClaimedToday(rewards[req[w].user])
     THEN req' = [req EXCEPT ![w] = Idle]
     ELSE req' = [req EXCEPT ![w] = [@ EXCEPT !.pc = "claim", !.checked = now]]
  /\ UNCHANGED <<now, rewards, balance, payments, overlapped>>

\* Mutant of Upserted: a streak goes on after any number of days.
UpsertedForever(row, began) ==
  IF row = NoReward THEN [streak |-> 1, claimed |-> began]
  ELSE IF Day(row.claimed) = Day(began) THEN row
  ELSE [streak |-> row.streak + 1, claimed |-> began]

\* Mutant of Upserted: a claim on the day of the last one adds to the streak.
UpsertedAgain(row, began) ==
  IF row # NoReward /\ Day(began) - Day(row.claimed) \in {0, 1}
  THEN [streak |-> row.streak + 1, claimed |-> began]
  ELSE [streak |-> 1, claimed |-> began]

\* Mutant of Upserted: "already claimed today, no change" is missing.
UpsertedOrReset(row, began) ==
  IF row # NoReward /\ Day(began) - Day(row.claimed) = 1
  THEN [streak |-> row.streak + 1, claimed |-> began]
  ELSE [streak |-> 1, claimed |-> began]

\* INSERT ... ON CONFLICT DO UPDATE of ClaimDailyReward.
Upserted(row, began) ==
  LET claim(streak) == [streak |-> streak, claimed |-> began] IN
    CASE row = NoReward -> claim(1)
      [] row # NoReward /\ Day(row.claimed) = Day(began) - 1 ->
           claim(row.streak + 1)
      [] row # NoReward /\ Day(row.claimed) = Day(began) -> row
      [] OTHER -> claim(1)

Holds(w, u) == req[w].pc = "addBalance" /\ req[w].user = u

\* The upsert.
ClaimReward(w) ==
  LET u == req[w].user IN
    /\ req[w].pc = "claim"
    /\ \A x \in Workers : ~Holds(x, u)
    /\ req' = [req EXCEPT ![w] = [@ EXCEPT !.pc = "addBalance",
                 !.row = Upserted(rewards[u], req[w].began)]]
    /\ UNCHANGED <<now, rewards, balance, payments, overlapped>>

\* Base 5 + min(streak - 1, 5).
Amount(row) ==
  BaseReward + IF row.streak - 1 > MaxBonus THEN MaxBonus ELSE row.streak - 1

\* AddBalance and COMMIT; out of the column's range is an error.
AddBalance(w) ==
  LET r == req[w]
      paid == balance[r.user] + Amount(r.row)
  IN
    /\ r.pc = "addBalance"
    /\ req' = [req EXCEPT ![w] = Idle]
    /\ \/ /\ paid <= MaxAmount
          /\ rewards' = [rewards EXCEPT ![r.user] = r.row]
          /\ balance' = [balance EXCEPT ![r.user] = paid]
          /\ payments' = [payments EXCEPT ![r.user] =
               Append(@, [began |-> Day(r.began), checked |-> Day(r.checked)])]
       \/ paid > MaxAmount /\ UNCHANGED <<rewards, balance, payments>>
    /\ UNCHANGED <<now, overlapped>>

\* The client goes away, or the connection to the database is lost.
Fail(w) ==
  /\ req[w].pc # "idle"
  /\ req' = [req EXCEPT ![w] = Idle]
  /\ UNCHANGED <<now, rewards, balance, payments, overlapped>>

Tick ==
  /\ now < MaxTime
  /\ now' = now + 1
  /\ UNCHANGED <<rewards, balance, req, payments, overlapped>>

Init ==
  /\ now = 0
  /\ rewards = [u \in Users |-> NoReward]
  /\ balance = [u \in Users |-> 0]
  /\ req = [w \in Workers |-> Idle]
  /\ payments = [u \in Users |-> <<>>]
  /\ overlapped = {}

Next ==
  \/ \E w \in Workers :
       \/ \E u \in Users : ClaimDailyReward(w, u)
       \/ GetDailyReward(w) \/ ClaimReward(w) \/ AddBalance(w) \/ Fail(w)
  \/ Tick

Spec == Init /\ [][Next]_vars

-----------------------------------------------------------------------------
TypeOK ==
  /\ now \in 0..MaxTime
  /\ rewards \in [Users -> Reward \cup {NoReward}]
  /\ balance \in [Users -> 0..MaxAmount]
  /\ req \in [Workers -> [
       pc: {"idle", "getDailyReward", "claim", "addBalance"},
       user: Users \cup {NoOne}, began: 0..MaxTime, checked: 0..MaxTime,
       row: Reward \cup {NoReward}]]
  /\ payments \in
       [Users -> Seq([began: 0..Day(MaxTime), checked: 0..Day(MaxTime)])]
  /\ overlapped \subseteq Users

PaidDays(u) == {payments[u][i].began : i \in DOMAIN payments[u]}

\* A streak of n days was earned by claims, committed and paid, that began on
\* each of the n days up to the last one: requests that run next to one
\* another, or across midnight, never lengthen it (ClaimDailyReward's upsert).
StreakEarned ==
  \A u \in Users :
    rewards[u] # NoReward =>
      \A i \in 0..(rewards[u].streak - 1) :
        Day(rewards[u].claimed) - i \in PaidDays(u)

\* Days that were claimed without a break up to day d.
Run(u, d) == {n \in 1..(d + 1) : \A i \in 0..(n - 1) : d - i \in PaidDays(u)}

-----------------------------------------------------------------------------
(* What holds for a user whose claims have never overlapped *)

OneAtATime == Users \ overlapped

\* The streak is all of the unbroken run of claimed days: none is forgotten.
StreakIsRun ==
  \A u \in OneAtATime :
    rewards[u] # NoReward =>
      rewards[u].streak = Cardinality(Run(u, Day(rewards[u].claimed)))

\* A streak is lost only after a day without a claim.
StreakLostByAbsence ==
  [][\A u \in OneAtATime :
       rewards'[u].streak < rewards[u].streak =>
         Day(rewards'[u].claimed) > Day(rewards[u].claimed) + 1]_vars

\* A claim is paid only if its check falls on a day after every day already
\* booked. The check takes the date of time.Now(), the upsert books that of
\* BEGIN: a claim begun before midnight and checked after it is booked on the
\* old day, even if that day is paid already, and leaves the new day to one more
\* claim, but never to two.
PaidOnLaterDay ==
  \A u \in OneAtATime : \A i, j \in DOMAIN payments[u] :
    i < j => payments[u][i].began < payments[u][j].checked

-----------------------------------------------------------------------------
\* What the comment in ClaimDailyReward says: a user whose claim the check let
\* through does not get through again on the same day.
NoDoubleClaim ==
  \A u \in Users : \A i, j \in DOMAIN payments[u] :
    i # j => payments[u][i].checked # payments[u][j].checked

=============================================================================
