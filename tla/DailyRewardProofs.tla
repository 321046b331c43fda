--------------------------- MODULE DailyRewardProofs ---------------------------
(***************************************************************************)
(* Proofs about DailyReward, for any users, number of concurrent claims,   *)
(* length of a day and amounts.                                            *)
(***************************************************************************)
EXTENDS DailyReward, TLAPS, FiniteSetTheorems

-----------------------------------------------------------------------------
(* Days, rows and payments *)

\* Days are numbered from 0 in the order of time.
LEMMA DayIs ==
  /\ Day(MaxTime) \in Nat
  /\ \A t \in 0..MaxTime : Day(t) \in 0..Day(MaxTime)
  /\ \A s, t \in 0..MaxTime : s <= t => Day(s) <= Day(t)
<1>1. DayLength \in Nat \ {0} /\ MaxTime \in Nat
  BY ClaimAssumption
<1>2. \A n \in Nat : n \div DayLength \in Nat
  BY <1>1
<1>3. ASSUME NEW s \in Nat, NEW t \in Nat, s <= t
      PROVE  s \div DayLength <= t \div DayLength
  BY <1>1, <1>3
<1>. QED
  BY <1>1, <1>2, <1>3 DEF Day

\* A row that is there has a streak; it fits its columns.
LEMMA RowIs ==
  /\ NoReward \notin Reward
  /\ \A r \in Reward : /\ r.streak \in 1..(Day(MaxTime) + 1)
                       /\ r.claimed \in 0..MaxTime
  /\ NoReward.claimed = 0 /\ NoReward.streak = 0
BY DEF NoReward, Reward

\* A streak is no longer than the time there was for it.
Possible(row) == row # NoReward => row.streak <= Day(row.claimed) + 1

\* What the upsert makes of a row: the claim is the first of its day and starts
\* a streak or continues one, or the row stays.
LEMMA UpsertedIs ==
  ASSUME NEW row \in Reward \cup {NoReward}, Possible(row), NEW began \in 0..MaxTime
  PROVE  /\ Upserted(row, began) \in Reward /\ Possible(Upserted(row, began))
         /\ \/ /\ row # NoReward /\ Day(row.claimed) = Day(began)
               /\ Upserted(row, began) = row
            \/ /\ row # NoReward /\ Day(row.claimed) = Day(began) - 1
               /\ Upserted(row, began).streak = row.streak + 1
               /\ Upserted(row, began).claimed = began
            \/ /\ Upserted(row, began).streak = 1
               /\ Upserted(row, began).claimed = began
               /\ row # NoReward => /\ Day(row.claimed) # Day(began)
                                    /\ Day(row.claimed) # Day(began) - 1
<1>. DEFINE claim(n) == [streak |-> n, claimed |-> began]
<1>1. /\ Day(began) \in 0..Day(MaxTime) /\ Day(MaxTime) \in Nat
      /\ row # NoReward => Day(row.claimed) \in 0..Day(MaxTime) /\ row \in Reward
      /\ row # NoReward => row.streak \in 1..(Day(MaxTime) + 1)
      /\ row # NoReward => row.streak <= Day(row.claimed) + 1
  BY DayIs, RowIs DEF Possible
<1>2. ASSUME NEW n \in 1..(Day(began) + 1)
      PROVE  /\ claim(n) \in Reward /\ Possible(claim(n))
             /\ claim(n).streak = n /\ claim(n).claimed = began
  BY <1>1, <1>2 DEF Reward, Possible
<1>3. CASE row # NoReward /\ Day(row.claimed) = Day(began) - 1
  <2>0. Day(row.claimed) # Day(began)
    BY <1>1, <1>3
  <2>1. Upserted(row, began) = claim(row.streak + 1)
    BY <1>3, <2>0 DEF Upserted
  <2>2. row.streak + 1 \in 1..(Day(began) + 1)
    BY <1>1, <1>3
  <2>. HIDE DEF claim
  <2>. QED
    BY <1>2, <1>3, <2>1, <2>2
<1>4. CASE row # NoReward /\ Day(row.claimed) = Day(began)
  <2>1. Day(row.claimed) # Day(began) - 1
    BY <1>1, <1>4
  <2>2. Upserted(row, began) = row
    BY <1>4, <2>1 DEF Upserted
  <2>. QED
    BY <1>1, <1>4, <2>2
<1>5. CASE row # NoReward => /\ Day(row.claimed) # Day(began)
                             /\ Day(row.claimed) # Day(began) - 1
  <2>1. Upserted(row, began) = claim(1)
    BY <1>5 DEF Upserted
  <2>2. 1 \in 1..(Day(began) + 1)
    BY <1>1
  <2>. HIDE DEF claim
  <2>. QED
    BY <1>2, <1>5, <2>1, <2>2
<1>. QED
  BY <1>3, <1>4, <1>5

\* The days of u that are paid after a payment is appended.
LEMMA Paying ==
  ASSUME NEW u, NEW S, NEW p \in S, payments[u] \in Seq(S),
         payments'[u] = Append(payments[u], p)
  PROVE  /\ PaidDays(u)' = PaidDays(u) \cup {p.began}
         /\ payments'[u] \in Seq(S)
         /\ \E n \in Nat :
              /\ \A i \in DOMAIN payments[u] : i \in Nat /\ i < n
              /\ DOMAIN payments'[u] = DOMAIN payments[u] \cup {n}
              /\ payments'[u][n] = p
              /\ \A i \in DOMAIN payments[u] : payments'[u][i] = payments[u][i]
<1>. DEFINE n == Len(payments[u]) + 1
<1>1. /\ n \in Nat /\ DOMAIN payments[u] = 1..(n - 1) /\ payments'[u] \in Seq(S)
      /\ DOMAIN payments'[u] = 1..n /\ payments'[u][n] = p
      /\ \A i \in 1..(n - 1) : payments'[u][i] = payments[u][i]
  OBVIOUS
<1>. HIDE DEF n
<1>2. /\ \A i \in DOMAIN payments[u] : i \in Nat /\ i < n
      /\ DOMAIN payments'[u] = DOMAIN payments[u] \cup {n}
  BY <1>1
<1>3. PaidDays(u)' = PaidDays(u) \cup {p.began}
  BY <1>1, <1>2 DEF PaidDays
<1>. QED
  BY <1>1, <1>2, <1>3

-----------------------------------------------------------------------------
(* Claims that may overlap *)

\* What is true of a request: it began no later than now, an idle one has no
\* user, and one that has upserted holds what its upsert makes of the row.
RequestOK(w) ==
  /\ req[w].began <= now
  /\ req[w].user = NoOne <=> req[w].pc = "idle"
  /\ req[w].pc = "addBalance" =>
       req[w].row = Upserted(rewards[req[w].user], req[w].began)

\* One transaction at a time holds a row.
RowHeldByOne ==
  \A v, w \in Workers, u \in Users : Holds(v, u) /\ Holds(w, u) => v = w

Earned ==
  /\ TypeOK
  /\ \A u \in Users : Possible(rewards[u]) /\ rewards[u].claimed <= now
  /\ \A w \in Workers : RequestOK(w)
  /\ RowHeldByOne
  /\ StreakEarned

Requests == [
       pc: {"idle", "getDailyReward", "claim", "addBalance"},
       user: Users \cup {NoOne}, began: 0..MaxTime, checked: 0..MaxTime,
       row: Reward \cup {NoReward}]

Payment == [began: 0..Day(MaxTime), checked: 0..Day(MaxTime)]

LEMMA RequestIs ==
  ASSUME NEW r \in Requests
  PROVE  /\ r.pc \in {"idle", "getDailyReward", "claim", "addBalance"}
         /\ r.user \in Users \cup {NoOne}
         /\ r.began \in 0..MaxTime /\ r.checked \in 0..MaxTime
         /\ r.row \in Reward \cup {NoReward}
BY DEF Requests

LEMMA IdleIs ==
  /\ Idle \in Requests /\ Idle.pc = "idle" /\ Idle.user = NoOne /\ Idle.began = 0
BY ClaimAssumption DEF Idle, Requests

\* A request becomes another.
LEMMA WithStart ==
  ASSUME NEW u \in Users, NEW t \in 0..MaxTime
  PROVE  LET n == [Idle EXCEPT !.pc = "getDailyReward", !.user = u, !.began = t] IN
         /\ n \in Requests
         /\ n.pc = "getDailyReward" /\ n.user = u /\ n.began = t
<1>. DEFINE a == [Idle EXCEPT !.pc = "getDailyReward"]
            b == [a EXCEPT !.user = u]
            n == [b EXCEPT !.began = t]
<1>1. a \in Requests /\ a.pc = "getDailyReward"
  BY IdleIs DEF Requests
<1>. HIDE DEF a
<1>2. b \in Requests /\ b.pc = "getDailyReward" /\ b.user = u
  BY <1>1 DEF Requests
<1>. HIDE DEF b
<1>3. n \in Requests /\ n.pc = "getDailyReward" /\ n.user = u /\ n.began = t
  BY <1>2 DEF Requests
<1>4. n = [Idle EXCEPT !.pc = "getDailyReward", !.user = u, !.began = t]
  BY DEF a, b
<1>. QED
  BY <1>3, <1>4

LEMMA WithCheck ==
  ASSUME NEW r \in Requests, NEW t \in 0..MaxTime
  PROVE  LET n == [r EXCEPT !.pc = "claim", !.checked = t] IN
         /\ n \in Requests
         /\ n.pc = "claim" /\ n.user = r.user /\ n.began = r.began /\ n.checked = t
BY DEF Requests

LEMMA WithRow ==
  ASSUME NEW r \in Requests, NEW x \in Reward
  PROVE  LET n == [r EXCEPT !.pc = "addBalance", !.row = x] IN
         /\ n \in Requests
         /\ n.pc = "addBalance" /\ n.user = r.user /\ n.began = r.began
         /\ n.checked = r.checked /\ n.row = x
BY DEF Requests

\* Worker w's request becomes r.
LEMMA OneRequest ==
  ASSUME TypeOK, NEW w \in Workers, NEW r \in Requests, req' = [req EXCEPT ![w] = r]
  PROVE  /\ req' \in [Workers -> Requests] /\ req'[w] = r
         /\ \A v \in Workers : v # w => req'[v] = req[v]
<1>1. req \in [Workers -> Requests]
  BY DEF TypeOK, Requests
<1>. QED
  BY <1>1

\* A request moves, and no row changes.
LEMMA MoveEarned ==
  ASSUME Earned, NEW w \in Workers, NEW r \in Requests, req' = [req EXCEPT ![w] = r],
         UNCHANGED <<now, rewards, balance, payments>>, overlapped' \subseteq Users,
         r.began <= now, r.user = NoOne <=> r.pc = "idle",
         r.pc = "addBalance" =>
           /\ r.row = Upserted(rewards[r.user], r.began)
           /\ \A x \in Workers : ~Holds(x, r.user)
  PROVE  Earned'
<1>1. /\ req' \in [Workers -> Requests] /\ req'[w] = r
      /\ \A v \in Workers : v # w => req'[v] = req[v]
  BY OneRequest DEF Earned
<1>2. TypeOK'
  BY <1>1 DEF Earned, TypeOK, Requests, Reward, NoReward, Day
<1>3. \A v \in Workers : v # w => RequestOK(v)'
  BY <1>1 DEF Earned, RequestOK, Upserted, NoReward, Day
<1>4. RequestOK(w)'
  BY <1>1 DEF RequestOK, Upserted, NoReward, Day
<1>5. RowHeldByOne'
  BY <1>1 DEF Earned, RowHeldByOne, Holds
<1>6. StreakEarned'
  BY DEF Earned, StreakEarned, NoReward, Day, PaidDays
<1>7. \A u \in Users : Possible(rewards[u])' /\ rewards'[u].claimed <= now'
  BY DEF Earned, Possible, NoReward, Day
<1>. QED
  BY <1>2, <1>3, <1>4, <1>5, <1>6, <1>7 DEF Earned

\* What commits: the row the transaction holds, and a payment.
Pays(w) ==
  LET r == req[w] IN
    /\ r.pc = "addBalance" /\ r.user \in Users
    /\ r.row = Upserted(rewards[r.user], r.began)
    /\ r.row \in Reward
    /\ rewards' = [rewards EXCEPT ![r.user] = r.row]
    /\ payments' = [payments EXCEPT ![r.user] =
         Append(@, [began |-> Day(r.began), checked |-> Day(r.checked)])]
    /\ UNCHANGED <<now, overlapped>>
    /\ balance' \in [Users -> 0..MaxAmount]
    /\ req' = [req EXCEPT ![w] = Idle]

LEMMA HeldRow ==
  ASSUME Earned, NEW w \in Workers, req[w].pc = "addBalance"
  PROVE  /\ req[w].user \in Users
         /\ req[w].row = Upserted(rewards[req[w].user], req[w].began)
         /\ req[w].row \in Reward
         /\ req[w].began \in 0..MaxTime
<1>1. req[w] \in Requests /\ RequestOK(w)
  BY DEF Earned, TypeOK, Requests
<1>2. /\ req[w].user \in Users /\ req[w].began \in 0..MaxTime
      /\ req[w].row = Upserted(rewards[req[w].user], req[w].began)
  BY <1>1, RequestIs DEF RequestOK
<1>3. /\ rewards[req[w].user] \in Reward \cup {NoReward}
      /\ Possible(rewards[req[w].user])
  BY <1>2 DEF Earned, TypeOK
<1>. QED
  BY <1>2, <1>3, UpsertedIs

LEMMA AddBalanceDoes ==
  ASSUME Earned, NEW w \in Workers, AddBalance(w)
  PROVE  \/ /\ req' = [req EXCEPT ![w] = Idle]
            /\ UNCHANGED <<now, rewards, balance, payments, overlapped>>
         \/ Pays(w)
<1>. DEFINE r == req[w]
            paid == balance[r.user] + Amount(r.row)
<1>1. /\ r.pc = "addBalance" /\ r.user \in Users /\ r.row \in Reward
      /\ r.row = Upserted(rewards[r.user], r.began)
  BY HeldRow DEF AddBalance
<1>2. r.row.streak \in Nat /\ r.row.streak >= 1
  BY <1>1, RowIs, DayIs
<1>3. BaseReward \in Nat /\ MaxBonus \in Nat /\ MaxAmount \in Nat
  BY ClaimAssumption
<1>. HIDE DEF r
<1>4. Amount(r.row) \in Nat
  BY <1>2, <1>3 DEF Amount
<1>5. balance \in [Users -> 0..MaxAmount]
  BY DEF Earned, TypeOK
<1>6. paid \in Nat
  BY <1>1, <1>3, <1>4, <1>5
<1>7. CASE paid <= MaxAmount
  <2>1. [balance EXCEPT ![r.user] = paid] \in [Users -> 0..MaxAmount]
    BY <1>1, <1>5, <1>6, <1>7
  <2>2. /\ rewards' = [rewards EXCEPT ![r.user] = r.row]
        /\ payments' = [payments EXCEPT ![r.user] =
             Append(@, [began |-> Day(r.began), checked |-> Day(r.checked)])]
        /\ balance' = [balance EXCEPT ![r.user] = paid]
        /\ UNCHANGED <<now, overlapped>> /\ req' = [req EXCEPT ![w] = Idle]
    BY <1>3, <1>6, <1>7 DEF AddBalance, r
  <2>. QED
    BY <1>1, <2>1, <2>2 DEF Pays, r
<1>8. CASE ~(paid <= MaxAmount)
  BY <1>8 DEF AddBalance, r
<1>. QED
  BY <1>7, <1>8

\* The row that is paid for has all its days paid.
LEMMA PayEarned ==
  ASSUME Earned, NEW w \in Workers, Pays(w), NEW u \in Users, u = req[w].user
  PROVE  Earned'
<1>. DEFINE row == rewards[u]
            t == req[w].began
            p == [began |-> Day(t), checked |-> Day(req[w].checked)]
<1>1. /\ req[w] \in Requests /\ RequestOK(w) /\ u \in Users
      /\ row \in Reward \cup {NoReward} /\ Possible(row) /\ row.claimed <= now
      /\ now \in 0..MaxTime /\ t <= now
  BY DEF Earned, TypeOK, Requests, Pays, RequestOK
<1>2. t \in 0..MaxTime /\ p \in Payment /\ p.began = Day(t)
  BY <1>1, RequestIs, DayIs DEF Payment
<1>3. /\ rewards \in [Users -> Reward \cup {NoReward}]
      /\ payments \in [Users -> Seq(Payment)]
  BY DEF Earned, TypeOK, Payment
<1>4. /\ rewards' = [rewards EXCEPT ![u] = Upserted(row, t)]
      /\ payments' = [payments EXCEPT ![u] = Append(@, p)]
      /\ req' = [req EXCEPT ![w] = Idle]
      /\ UNCHANGED <<now, overlapped>> /\ balance' \in [Users -> 0..MaxAmount]
  BY DEF Pays
<1>. HIDE DEF p
<1>5. /\ Upserted(row, t) \in Reward /\ Possible(Upserted(row, t))
      /\ \/ row # NoReward /\ Day(row.claimed) = Day(t) /\ Upserted(row, t) = row
         \/ /\ row # NoReward /\ Day(row.claimed) = Day(t) - 1
            /\ Upserted(row, t).streak = row.streak + 1
            /\ Upserted(row, t).claimed = t
         \/ Upserted(row, t).streak = 1 /\ Upserted(row, t).claimed = t
  BY <1>1, <1>2, UpsertedIs
<1>6. /\ rewards' \in [Users -> Reward \cup {NoReward}]
      /\ rewards'[u] = Upserted(row, t)
      /\ \A x \in Users : x # u => rewards'[x] = rewards[x]
  BY <1>1, <1>3, <1>4, <1>5
<1>7. /\ payments'[u] \in Seq(Payment) /\ PaidDays(u)' = PaidDays(u) \cup {Day(t)}
      /\ \A x \in Users : x # u => payments'[x] = payments[x]
  <2>1. payments'[u] = Append(payments[u], p) /\ payments[u] \in Seq(Payment)
    BY <1>1, <1>3, <1>4
  <2>2. /\ payments'[u] \in Seq(Payment)
        /\ PaidDays(u)' = PaidDays(u) \cup {p.began}
    BY <1>2, <2>1, Paying
  <2>3. \A x \in Users : x # u => payments'[x] = payments[x]
    BY <1>3, <1>4
  <2>. QED
    BY <1>2, <2>2, <2>3
<1>8. payments' \in [Users -> Seq(Payment)]
  BY <1>1, <1>3, <1>4, <1>7
<1>9. /\ req' \in [Workers -> Requests] /\ req'[w] = Idle
      /\ \A v \in Workers : v # w => req'[v] = req[v]
  BY <1>4, IdleIs, OneRequest DEF Earned
<1>10. TypeOK'
  BY <1>4, <1>6, <1>8, <1>9 DEF Earned, TypeOK, Requests, Payment, Reward, NoReward, Day
<1>11. \A x \in Users : Possible(rewards[x])' /\ rewards'[x].claimed <= now'
  BY <1>1, <1>4, <1>5, <1>6 DEF Earned, Possible, NoReward, Day
<1>12. \A v \in Workers : v # w => ~(req[v].pc = "addBalance" /\ req[v].user = u)
  BY <1>1 DEF Earned, RowHeldByOne, Holds, Pays
<1>13. \A v \in Workers : RequestOK(v)'
  <2>1. ASSUME NEW v \in Workers, v # w
        PROVE  RequestOK(v)'
    <3>1. /\ req'[v] = req[v] /\ now' = now /\ RequestOK(v)
          /\ req[v].pc = "addBalance" => req[v].user \in Users \ {u}
      BY <1>4, <1>9, <1>12, <2>1, HeldRow DEF Earned
    <3>2. req[v].pc = "addBalance" => rewards'[req[v].user] = rewards[req[v].user]
      BY <1>6, <3>1
    <3>. QED
      BY <3>1, <3>2 DEF RequestOK, Upserted, NoReward, Day
  <2>2. RequestOK(w)'
    BY <1>1, <1>4, <1>9, IdleIs DEF RequestOK
  <2>. QED
    BY <2>1, <2>2
<1>14. RowHeldByOne'
  BY <1>9, IdleIs DEF Earned, RowHeldByOne, Holds
<1>15. StreakEarned'
  <2>1. ASSUME NEW x \in Users, x # u
        PROVE  rewards'[x] = rewards[x] /\ PaidDays(x)' = PaidDays(x)
    BY <1>6, <1>7, <2>1 DEF PaidDays
  <2>. DEFINE n == Upserted(row, t)
  <2>2. ASSUME NEW i \in 0..(n.streak - 1)
        PROVE  Day(n.claimed) - i \in PaidDays(u) \cup {Day(t)}
    <3>1. /\ Day(t) \in Int
          /\ row # NoReward => row.streak \in Nat /\ Day(row.claimed) \in Int
      BY <1>1, <1>2, DayIs, RowIs
    <3>2. row # NoReward => \A k \in 0..(row.streak - 1) :
                                Day(row.claimed) - k \in PaidDays(u)
      BY <1>1 DEF Earned, StreakEarned
    <3>3. CASE row # NoReward /\ n = row
      BY <2>2, <3>2, <3>3
    <3>4. CASE /\ row # NoReward /\ Day(row.claimed) = Day(t) - 1
               /\ n.streak = row.streak + 1 /\ n.claimed = t
      <4>1. CASE i = 0
        BY <3>1, <3>4, <4>1
      <4>2. CASE i # 0
        <5>1. i - 1 \in 0..(row.streak - 1)
          BY <2>2, <3>1, <3>4, <4>2
        <5>2. Day(t) - i = Day(row.claimed) - (i - 1)
          BY <2>2, <3>1, <3>4
        <5>. QED
          BY <3>2, <3>4, <5>1, <5>2
      <4>. QED
        BY <4>1, <4>2
    <3>5. CASE n.streak = 1 /\ n.claimed = t
      BY <2>2, <3>1, <3>5
    <3>. QED
      BY <1>5, <3>3, <3>4, <3>5
  <2>. HIDE DEF n
  <2>3. rewards'[u] = n
    BY <1>6 DEF n
  <2>4. ASSUME NEW x \in Users, rewards'[x] # NoReward,
               NEW i \in 0..(rewards'[x].streak - 1)
        PROVE  Day(rewards'[x].claimed) - i \in PaidDays(x)'
    <3>1. CASE x = u
      BY <1>7, <2>2, <2>3, <2>4, <3>1
    <3>2. CASE x # u
      BY <2>1, <2>4, <3>2 DEF Earned, StreakEarned
    <3>. QED
      BY <3>1, <3>2
  <2>. QED
    BY <2>4 DEF StreakEarned, NoReward, Day
<1>. QED
  BY <1>10, <1>11, <1>13, <1>14, <1>15 DEF Earned

LEMMA NextEarned ==
  ASSUME Earned, [Next]_vars
  PROVE  Earned'
<1>0. /\ \A w \in Workers : req[w] \in Requests /\ RequestOK(w)
      /\ now \in 0..MaxTime /\ MaxTime \in Nat /\ overlapped \subseteq Users
      /\ rewards \in [Users -> Reward \cup {NoReward}]
  BY ClaimAssumption DEF Earned, TypeOK, Requests
<1>1. CASE UNCHANGED vars
  <2>1. UNCHANGED <<now, rewards, balance, req, payments, overlapped>>
    BY <1>1 DEF vars
  <2>2. TypeOK'
    BY <2>1 DEF Earned, TypeOK, Reward, NoReward, Day
  <2>3. \A u \in Users : Possible(rewards[u])' /\ rewards'[u].claimed <= now'
    BY <2>1 DEF Earned, Possible, NoReward, Day
  <2>4. \A w \in Workers : RequestOK(w)'
    BY <1>0, <2>1 DEF RequestOK, Upserted, NoReward, Day
  <2>5. RowHeldByOne' /\ StreakEarned'
    BY <2>1 DEF Earned, RowHeldByOne, Holds, StreakEarned, PaidDays, NoReward, Day
  <2>. QED
    BY <2>2, <2>3, <2>4, <2>5 DEF Earned
<1>2. ASSUME NEW w \in Workers, NEW u \in Users, ClaimDailyReward(w, u)
      PROVE  Earned'
  <2>. DEFINE r == [Idle EXCEPT !.pc = "getDailyReward", !.user = u, !.began = now]
  <2>1. /\ r \in Requests /\ r.pc = "getDailyReward" /\ r.user = u /\ r.began = now
    BY <1>0, WithStart
  <2>2. /\ req' = [req EXCEPT ![w] = r] /\ overlapped' \subseteq Users
        /\ UNCHANGED <<now, rewards, balance, payments>>
    BY <1>0, <1>2 DEF ClaimDailyReward
  <2>3. r.user # NoOne /\ r.pc # "idle" /\ r.pc # "addBalance" /\ r.began <= now
    BY <1>0, <2>1, ClaimAssumption
  <2>. HIDE DEF r
  <2>. QED
    BY <1>0, <2>1, <2>2, <2>3, MoveEarned
<1>3. ASSUME NEW w \in Workers, req' = [req EXCEPT ![w] = Idle],
             UNCHANGED <<now, rewards, balance, payments, overlapped>>
      PROVE  Earned'
  <2>1. /\ Idle \in Requests /\ Idle.user = NoOne /\ Idle.pc = "idle"
        /\ Idle.pc # "addBalance" /\ Idle.began <= now /\ overlapped' \subseteq Users
    BY <1>0, <1>3, IdleIs
  <2>. QED
    BY <1>3, <2>1, MoveEarned
<1>4. ASSUME NEW w \in Workers, GetDailyReward(w)
      PROVE  Earned'
  <2>. DEFINE r == [req[w] EXCEPT !.pc = "claim", !.checked = now]
  <2>1. /\ r \in Requests /\ r.pc = "claim" /\ r.user = req[w].user
        /\ r.began = req[w].began
    BY <1>0, WithCheck
  <2>2. UNCHANGED <<now, rewards, balance, payments, overlapped>>
    BY <1>4 DEF GetDailyReward
  <2>3. CASE req' = [req EXCEPT ![w] = r]
    <3>1. r.user # NoOne /\ r.began <= now
      BY <1>0, <1>4, <2>1 DEF RequestOK, GetDailyReward
    <3>. HIDE DEF r
    <3>. QED
      BY <1>0, <2>1, <2>2, <2>3, <3>1, MoveEarned
  <2>. QED
    BY <1>3, <1>4, <2>2, <2>3 DEF GetDailyReward
<1>5. ASSUME NEW w \in Workers, ClaimReward(w)
      PROVE  Earned'
  <2>. DEFINE x == Upserted(rewards[req[w].user], req[w].began)
              r == [req[w] EXCEPT !.pc = "addBalance", !.row = x]
  <2>1. /\ req[w].user \in Users /\ req[w].began \in 0..MaxTime
        /\ req[w].began <= now
    BY <1>0, <1>5, RequestIs DEF RequestOK, ClaimReward
  <2>2. x \in Reward
    <3>1. /\ rewards[req[w].user] \in Reward \cup {NoReward}
          /\ Possible(rewards[req[w].user])
      BY <1>0, <2>1 DEF Earned
    <3>. QED
      BY <2>1, <3>1, UpsertedIs
  <2>3. req' = [req EXCEPT ![w] = r]
    BY <1>5 DEF ClaimReward
  <2>. HIDE DEF x
  <2>4. /\ r \in Requests /\ r.pc = "addBalance" /\ r.user = req[w].user
        /\ r.began = req[w].began /\ r.row = x
    BY <1>0, <2>2, WithRow
  <2>5. /\ UNCHANGED <<now, rewards, balance, payments, overlapped>>
        /\ \A v \in Workers : ~Holds(v, req[w].user)
    BY <1>5 DEF ClaimReward
  <2>6. r.user # NoOne
    BY <2>1, <2>4, ClaimAssumption
  <2>. HIDE DEF r
  <2>. QED
    BY <1>0, <2>1, <2>3, <2>4, <2>5, <2>6, MoveEarned DEF x
<1>6. ASSUME NEW w \in Workers, AddBalance(w)
      PROVE  Earned'
  BY <1>3, <1>6, AddBalanceDoes, PayEarned DEF Pays
<1>7. ASSUME NEW w \in Workers, Fail(w)
      PROVE  Earned'
  BY <1>3, <1>7 DEF Fail
<1>8. CASE Tick
  <2>1. /\ now' = now + 1 /\ now' \in 0..MaxTime
        /\ UNCHANGED <<rewards, balance, req, payments, overlapped>>
    BY <1>0, <1>8 DEF Tick
  <2>2. TypeOK'
    BY <2>1 DEF Earned, TypeOK, Reward, NoReward, Day
  <2>3. \A u \in Users : Possible(rewards[u])' /\ rewards'[u].claimed <= now'
    <3>1. ASSUME NEW u \in Users
          PROVE  rewards[u].claimed <= now + 1
      <4>1. rewards[u].claimed <= now /\ rewards[u].claimed \in Int
        BY <1>0, RowIs DEF Earned
      <4>. QED
        BY <1>0, <4>1
    <3>. QED
      BY <2>1, <3>1 DEF Earned, Possible, NoReward, Day
  <2>4. \A w \in Workers : RequestOK(w)'
    <3>1. ASSUME NEW w \in Workers
          PROVE  req[w].began <= now + 1
      <4>1. req[w].began <= now /\ req[w].began \in Int
        BY <1>0, RequestIs DEF RequestOK
      <4>. QED
        BY <1>0, <4>1
    <3>. QED
      BY <1>0, <2>1, <3>1 DEF RequestOK, Upserted, NoReward, Day
  <2>5. RowHeldByOne' /\ StreakEarned'
    BY <2>1 DEF Earned, RowHeldByOne, Holds, StreakEarned, PaidDays, NoReward, Day
  <2>. QED
    BY <2>2, <2>3, <2>4, <2>5 DEF Earned
<1>. QED
  BY <1>1, <1>2, <1>4, <1>5, <1>6, <1>7, <1>8 DEF Next

LEMMA InitEarned == Init => Earned
<1>. SUFFICES ASSUME Init PROVE Earned
  OBVIOUS
<1>1. /\ TypeOK
  <2>1. 0 \in 0..MaxTime /\ 0 \in 0..MaxAmount
    BY ClaimAssumption
  <2>2. req \in [Workers -> Requests]
    BY IdleIs DEF Init
  <2>3. \A S : <<>> \in Seq(S)
    OBVIOUS
  <2>4. payments \in [Users -> Seq([began: 0..Day(MaxTime), checked: 0..Day(MaxTime)])]
    BY <2>3 DEF Init
  <2>. QED
    BY <2>1, <2>2, <2>4 DEF Init, TypeOK, Requests
<1>2. \A u \in Users : rewards[u] = NoReward /\ rewards[u].claimed <= now
  BY RowIs DEF Init
<1>3. \A w \in Workers : req[w] = Idle
  BY DEF Init
<1>. QED
  BY <1>1, <1>2, <1>3, IdleIs DEF Earned, Possible, RequestOK, RowHeldByOne, Holds,
     StreakEarned, Init

LEMMA AlwaysEarned == Spec => []Earned
BY InitEarned, NextEarned, PTL DEF Spec

\* Rows, requests and payments keep their types however claims overlap: no
\* streak is longer than the days there were (ClaimDailyReward).
THEOREM TypeCorrect == Spec => []TypeOK
<1>1. Earned => TypeOK
  BY DEF Earned
<1>. QED
  BY <1>1, AlwaysEarned, PTL

\* A streak of n days was earned by committed and paid claims on each of the n
\* days up to the last, however requests overlap and wherever one fails
\* (ClaimDailyReward's upsert).
THEOREM StreaksAreEarned == Spec => []StreakEarned
<1>1. Earned => StreakEarned
  BY DEF Earned
<1>. QED
  BY <1>1, AlwaysEarned, PTL

-----------------------------------------------------------------------------
(* Users whose claims have never overlapped *)

\* Their claims come in the order of their rows; one that has been let through
\* was let through on a day after the last one claimed.
Turn(u) ==
  \A w \in Workers : req[w].user = u /\ rewards[u] # NoReward =>
    /\ rewards[u].claimed <= req[w].began
    /\ req[w].pc \in {"claim", "addBalance"} =>
         Day(rewards[u].claimed) < Day(req[w].checked)

\* No day after the last claim is paid, nor the day before the streak.
Complete(u) ==
  /\ rewards[u] = NoReward => PaidDays(u) = {}
  /\ \A d \in PaidDays(u) : d <= Day(rewards[u].claimed)
  /\ rewards[u] # NoReward =>
       Day(rewards[u].claimed) - rewards[u].streak \notin PaidDays(u)

OneRequestEach ==
  \A u \in OneAtATime : \A v, w \in Workers :
    req[v].user = u /\ req[w].user = u => v = w

Alone ==
  /\ OneRequestEach
  /\ \A u \in OneAtATime : Turn(u) /\ Complete(u)
  /\ PaidOnLaterDay

\* No row, no payment and no user is new.
LEMMA MoveAlone ==
  ASSUME Earned, Alone, UNCHANGED <<rewards, payments>>, overlapped \subseteq overlapped',
         OneRequestEach', \A u \in OneAtATime' : Turn(u)'
  PROVE  Alone'
<1>1. OneAtATime' \subseteq OneAtATime
  BY DEF OneAtATime
<1>2. \A u \in OneAtATime' : Complete(u)'
  BY <1>1 DEF Alone, Complete, PaidDays, Day, NoReward
<1>3. PaidOnLaterDay'
  BY <1>1 DEF Alone, PaidOnLaterDay
<1>. QED
  BY <1>2, <1>3 DEF Alone

\* The request of one worker moves and stays that of its user, or ends.
LEMMA RequestAlone ==
  ASSUME Earned, Alone, UNCHANGED <<rewards, payments, overlapped>>, NEW w \in Workers,
         \A v \in Workers : v # w => req'[v] = req[v],
         \/ req'[w] = Idle
         \/ /\ req'[w].user = req[w].user /\ req'[w].began = req[w].began
            /\ \A u \in OneAtATime :
                 /\ req[w].user = u /\ rewards[u] # NoReward
                 /\ req'[w].pc \in {"claim", "addBalance"}
                 => Day(rewards[u].claimed) < Day(req'[w].checked)
  PROVE  Alone'
<1>1. OneAtATime' = OneAtATime /\ OneAtATime \subseteq Users
  BY DEF OneAtATime
<1>2. \A u \in OneAtATime : u # NoOne
  BY <1>1, ClaimAssumption
<1>3. OneRequestEach'
  BY <1>1, <1>2, IdleIs DEF Alone, OneRequestEach
<1>4. \A u \in OneAtATime' : Turn(u)'
  <2>1. ASSUME NEW u \in OneAtATime, NEW v \in Workers, req'[v].user = u,
               rewards[u] # NoReward
        PROVE  /\ rewards[u].claimed <= req'[v].began
               /\ req'[v].pc \in {"claim", "addBalance"} =>
                    Day(rewards[u].claimed) < Day(req'[v].checked)
    <3>1. CASE v # w
      BY <2>1, <3>1 DEF Alone, Turn
    <3>2. CASE v = w
      <4>1. req'[w] # Idle
        BY <1>2, <2>1, <3>2, IdleIs
      <4>2. req'[w].user = req[w].user /\ req'[w].began = req[w].began
        BY <4>1
      <4>3. rewards[u].claimed <= req[w].began
        BY <2>1, <3>2, <4>2 DEF Alone, Turn
      <4>. QED
        BY <2>1, <3>2, <4>1, <4>2, <4>3
    <3>. QED
      BY <3>1, <3>2
  <2>. QED
    BY <1>1, <2>1 DEF Turn, NoReward, Day
<1>. QED
  BY <1>3, <1>4, MoveAlone

\* What a paid claim of such a user makes of the row.
LEMMA PayInOrder ==
  ASSUME Earned, Alone, NEW w \in Workers, Pays(w), NEW u \in OneAtATime,
         u = req[w].user
  PROVE  LET row == rewards[u]
             t == req[w].began
             n == rewards'[u]
         IN /\ u \in Users /\ row \in Reward \cup {NoReward} /\ n \in Reward
            /\ t \in 0..MaxTime
            /\ \/ row # NoReward /\ Day(row.claimed) = Day(t) /\ n = row
               \/ /\ row # NoReward /\ Day(row.claimed) = Day(t) - 1
                  /\ n.streak = row.streak + 1 /\ n.claimed = t
               \/ /\ n.streak = 1 /\ n.claimed = t
                  /\ row # NoReward => Day(row.claimed) < Day(t) - 1
<1>. DEFINE row == rewards[u]
            t == req[w].began
<1>1. /\ u \in Users /\ row \in Reward \cup {NoReward} /\ Possible(row)
      /\ rewards \in [Users -> Reward \cup {NoReward}]
      /\ t \in 0..MaxTime
  <2>1. req[w] \in Requests
    BY DEF Earned, TypeOK, Requests
  <2>2. u \in Users
    BY DEF OneAtATime
  <2>. QED
    BY <2>1, <2>2, RequestIs DEF Earned, TypeOK
<1>2. rewards'[u] = Upserted(row, t)
  BY <1>1 DEF Pays
<1>3. row # NoReward => /\ row.claimed <= t
                        /\ row.claimed \in 0..MaxTime
  BY <1>1, RowIs DEF Alone, Turn
<1>4. row # NoReward => Day(row.claimed) <= Day(t)
  BY <1>1, <1>3, DayIs
<1>5. /\ Day(t) \in Int
      /\ row # NoReward => Day(row.claimed) \in Int
  BY <1>1, <1>3, DayIs
<1>6. /\ Upserted(row, t) \in Reward
      /\ \/ row # NoReward /\ Day(row.claimed) = Day(t) /\ Upserted(row, t) = row
         \/ /\ row # NoReward /\ Day(row.claimed) = Day(t) - 1
            /\ Upserted(row, t).streak = row.streak + 1
            /\ Upserted(row, t).claimed = t
         \/ /\ Upserted(row, t).streak = 1 /\ Upserted(row, t).claimed = t
            /\ row # NoReward => /\ Day(row.claimed) # Day(t)
                                 /\ Day(row.claimed) # Day(t) - 1
  BY <1>1, UpsertedIs
<1>7. (row # NoReward => /\ Day(row.claimed) # Day(t) /\ Day(row.claimed) # Day(t) - 1)
        => (row # NoReward => Day(row.claimed) < Day(t) - 1)
  BY <1>4, <1>5
<1>. HIDE DEF row, t
<1>8. \/ row # NoReward /\ Day(row.claimed) = Day(t) /\ rewards'[u] = row
      \/ /\ row # NoReward /\ Day(row.claimed) = Day(t) - 1
         /\ rewards'[u].streak = row.streak + 1 /\ rewards'[u].claimed = t
      \/ /\ rewards'[u].streak = 1 /\ rewards'[u].claimed = t
         /\ row # NoReward => Day(row.claimed) < Day(t) - 1
  BY <1>2, <1>6, <1>7
<1>. QED
  BY <1>1, <1>2, <1>6, <1>8 DEF row, t

LEMMA PayAlone ==
  ASSUME Earned, Alone, NEW w \in Workers, Pays(w)
  PROVE  Alone'
<1>1. OneAtATime' = OneAtATime /\ OneAtATime \subseteq Users
  BY DEF OneAtATime, Pays
<1>2. /\ req'[w] = Idle /\ \A v \in Workers : v # w => req'[v] = req[v]
  BY IdleIs, OneRequest DEF Earned, Pays
<1>3. \A u \in OneAtATime : u # NoOne
  BY <1>1, ClaimAssumption
<1>4. OneRequestEach'
  BY <1>1, <1>2, <1>3, IdleIs DEF Alone, OneRequestEach
<1>5. ASSUME NEW u \in OneAtATime, u # req[w].user
      PROVE  /\ rewards'[u] = rewards[u] /\ payments'[u] = payments[u]
             /\ Turn(u)' /\ Complete(u)'
  <2>1. rewards'[u] = rewards[u] /\ payments'[u] = payments[u]
    BY <1>1, <1>5 DEF Earned, TypeOK, Pays
  <2>2. Turn(u)'
    BY <1>2, <1>3, <2>1, IdleIs DEF Alone, Turn, NoReward, Day
  <2>3. Complete(u)'
    BY <2>1 DEF Alone, Complete, PaidDays, NoReward, Day
  <2>. QED
    BY <2>1, <2>2, <2>3
<1>6. ASSUME NEW u \in OneAtATime, u = req[w].user
      PROVE  /\ Turn(u)' /\ Complete(u)'
             /\ \A i, j \in DOMAIN payments'[u] :
                  i < j => payments'[u][i].began < payments'[u][j].checked
  <2>. DEFINE row == rewards[u]
              n == rewards'[u]
              t == req[w].began
              p == [began |-> Day(t), checked |-> Day(req[w].checked)]
  <2>1. /\ u \in Users /\ row \in Reward \cup {NoReward} /\ n \in Reward
        /\ t \in 0..MaxTime
        /\ \/ row # NoReward /\ Day(row.claimed) = Day(t) /\ n = row
           \/ /\ row # NoReward /\ Day(row.claimed) = Day(t) - 1
              /\ n.streak = row.streak + 1 /\ n.claimed = t
           \/ /\ n.streak = 1 /\ n.claimed = t
              /\ row # NoReward => Day(row.claimed) < Day(t) - 1
    BY <1>6, PayInOrder
  <2>2. /\ row = NoReward => PaidDays(u) = {}
        /\ \A d \in PaidDays(u) : d <= Day(row.claimed)
        /\ row # NoReward => Day(row.claimed) - row.streak \notin PaidDays(u)
    BY DEF Alone, Complete
  <2>3. /\ req[w].checked \in 0..MaxTime /\ Day(t) \in Nat /\ Day(req[w].checked) \in Nat
        /\ p \in Payment
    <3>1. req[w] \in Requests
      BY DEF Earned, TypeOK, Requests
    <3>. QED
      BY <2>1, <3>1, RequestIs, DayIs DEF Payment
  <2>4. /\ payments[u] \in Seq(Payment) /\ payments'[u] = Append(payments[u], p)
    BY <1>6, <2>1 DEF Earned, TypeOK, Pays, Payment
  <2>5. /\ p.began = Day(t) /\ p.checked = Day(req[w].checked)
    OBVIOUS
  <2>6. row # NoReward => /\ Day(row.claimed) \in Nat /\ row.streak \in Nat
                          /\ row.streak >= 1
    BY <2>1, RowIs, DayIs
  <2>7. \A d \in PaidDays(u) : d \in Int
    <3>1. \A i \in DOMAIN payments[u] : payments[u][i] \in Payment
      BY <2>4
    <3>. QED
      BY <3>1, DayIs DEF PaidDays, Payment
  <2>. HIDE DEF p
  <2>8. PaidDays(u)' = PaidDays(u) \cup {Day(t)}
    <3>1. p \in Payment
      BY <2>3
    <3>2. PaidDays(u)' = PaidDays(u) \cup {p.began}
      BY <2>4, <3>1, Paying
    <3>. QED
      BY <2>5, <3>2
  <2>9. n # NoReward
    BY <2>1, RowIs
  <2>. HIDE DEF row, n, t
  <2>10. \A d \in PaidDays(u) : d <= Day(n.claimed) /\ d <= Day(t)
    BY <2>1, <2>2, <2>3, <2>6, <2>7
  <2>11. Day(n.claimed) = Day(t)
    BY <2>1
  <2>12. Day(n.claimed) - n.streak \notin PaidDays(u) \cup {Day(t)}
    <3>1. CASE row # NoReward /\ Day(row.claimed) = Day(t) /\ n = row
      BY <2>2, <2>3, <2>6, <3>1
    <3>2. CASE /\ row # NoReward /\ Day(row.claimed) = Day(t) - 1
               /\ n.streak = row.streak + 1 /\ n.claimed = t
      <4>1. Day(n.claimed) - n.streak = Day(row.claimed) - row.streak
        BY <2>3, <2>6, <3>2
      <4>2. Day(n.claimed) - n.streak # Day(t)
        BY <2>3, <2>6, <3>2
      <4>. QED
        BY <2>2, <3>2, <4>1, <4>2
    <3>3. CASE /\ n.streak = 1 /\ n.claimed = t
               /\ row # NoReward => Day(row.claimed) < Day(t) - 1
      BY <2>2, <2>3, <2>6, <2>7, <3>3
    <3>. QED
      BY <2>1, <3>1, <3>2, <3>3
  <2>13. Complete(u)'
    <3>1. \A d \in PaidDays(u) \cup {Day(t)} : d <= Day(n.claimed)
      BY <2>3, <2>10, <2>11
    <3>2. n = rewards'[u]
      BY DEF n
    <3>. QED
      BY <2>8, <2>9, <2>12, <3>1, <3>2 DEF Complete, NoReward, Day
  <2>14. Turn(u)'
    <3>1. \A v \in Workers : req'[v].user # u
      BY <1>2, <1>3, <1>6, IdleIs DEF Alone, OneRequestEach
    <3>. QED
      BY <3>1 DEF Turn
  <2>15. ASSUME NEW i \in DOMAIN payments[u]
         PROVE  payments[u][i].began < Day(req[w].checked)
    <3>1. payments[u][i].began \in PaidDays(u)
      BY DEF PaidDays
    <3>2. row # NoReward
      BY <2>2, <3>1
    <3>3. Day(row.claimed) < Day(req[w].checked)
      BY <1>6, <3>2 DEF Alone, Turn, Pays, row
    <3>. QED
      BY <2>2, <2>3, <2>6, <2>7, <3>1, <3>2, <3>3
  <2>16. PICK k \in Nat :
              /\ \A i \in DOMAIN payments[u] : i \in Nat /\ i < k
              /\ DOMAIN payments'[u] = DOMAIN payments[u] \cup {k}
              /\ payments'[u][k] = p
              /\ \A i \in DOMAIN payments[u] : payments'[u][i] = payments[u][i]
    BY <2>3, <2>4, Paying
  <2>17. ASSUME NEW i \in DOMAIN payments'[u], NEW j \in DOMAIN payments'[u], i < j
         PROVE  payments'[u][i].began < payments'[u][j].checked
    <3>1. i \in DOMAIN payments[u]
      BY <2>16, <2>17
    <3>2. CASE j = k
      BY <2>5, <2>15, <2>16, <3>1, <3>2
    <3>3. CASE j # k
      BY <2>16, <2>17, <3>1, <3>3 DEF Alone, PaidOnLaterDay
    <3>. QED
      BY <3>2, <3>3
  <2>. QED
    BY <2>13, <2>14, <2>17
<1>7. \A u \in OneAtATime' : Turn(u)' /\ Complete(u)'
  BY <1>1, <1>5, <1>6
<1>8. PaidOnLaterDay'
  BY <1>1, <1>5, <1>6 DEF Alone, PaidOnLaterDay
<1>. QED
  BY <1>4, <1>7, <1>8 DEF Alone

LEMMA NextAlone ==
  ASSUME Earned, Alone, [Next]_vars
  PROVE  Alone'
<1>0. \A w \in Workers : req[w] \in Requests /\ RequestOK(w)
  BY DEF Earned, TypeOK, Requests
<1>1. CASE UNCHANGED vars \/ Tick
  <2>1. UNCHANGED <<rewards, payments, overlapped, req>>
    BY <1>1 DEF vars, Tick
  <2>2. OneRequestEach' /\ \A u \in OneAtATime' : Turn(u)'
    BY <2>1 DEF Alone, OneRequestEach, OneAtATime, Turn, NoReward, Day
  <2>. QED
    BY <2>1, <2>2, MoveAlone
<1>2. ASSUME NEW w \in Workers, NEW u \in Users, ClaimDailyReward(w, u)
      PROVE  Alone'
  <2>. DEFINE r == [Idle EXCEPT !.pc = "getDailyReward", !.user = u, !.began = now]
  <2>1. r \in Requests /\ r.pc = "getDailyReward" /\ r.user = u /\ r.began = now
    <3>1. now \in 0..MaxTime
      BY DEF Earned, TypeOK
    <3>. QED
      BY <3>1, WithStart
  <2>2. req' = [req EXCEPT ![w] = r] /\ UNCHANGED <<rewards, payments>>
        /\ req[w] = Idle
        /\ overlapped' = IF \E x \in Workers : req[x].user = u
                         THEN overlapped \cup {u} ELSE overlapped
    BY <1>2 DEF ClaimDailyReward
  <2>. HIDE DEF r
  <2>3. req'[w] = r /\ \A v \in Workers : v # w => req'[v] = req[v]
    BY <2>1, <2>2, OneRequest DEF Earned
  <2>4. overlapped \subseteq overlapped' /\ OneAtATime' \subseteq OneAtATime
    BY <2>2 DEF OneAtATime
  <2>5. u \in OneAtATime' => \A x \in Workers : req[x].user # u
    BY <2>2 DEF OneAtATime
  <2>6. OneRequestEach'
    BY <2>1, <2>3, <2>4, <2>5 DEF Alone, OneRequestEach
  <2>7. ASSUME NEW x \in OneAtATime', NEW v \in Workers, req'[v].user = x,
               rewards[x] # NoReward
        PROVE  /\ rewards[x].claimed <= req'[v].began
               /\ req'[v].pc \in {"claim", "addBalance"} =>
                    Day(rewards[x].claimed) < Day(req'[v].checked)
    <3>1. CASE v # w
      BY <2>3, <2>4, <2>7, <3>1 DEF Alone, Turn
    <3>2. CASE v = w
      <4>1. rewards[u].claimed <= now
        BY DEF Earned
      <4>. QED
        BY <2>1, <2>3, <2>7, <3>2, <4>1
    <3>. QED
      BY <3>1, <3>2
  <2>8. \A x \in OneAtATime' : Turn(x)'
    BY <2>2, <2>7 DEF Turn, NoReward, Day
  <2>. QED
    BY <2>2, <2>4, <2>6, <2>8, MoveAlone
<1>3. ASSUME NEW w \in Workers, req' = [req EXCEPT ![w] = Idle],
             UNCHANGED <<rewards, payments, overlapped>>
      PROVE  Alone'
  <2>1. req'[w] = Idle /\ \A v \in Workers : v # w => req'[v] = req[v]
    BY <1>3, IdleIs, OneRequest DEF Earned
  <2>. QED
    BY <1>3, <2>1, RequestAlone
<1>4. ASSUME NEW w \in Workers, GetDailyReward(w)
      PROVE  Alone'
  <2>. DEFINE r == [req[w] EXCEPT !.pc = "claim", !.checked = now]
  <2>0. UNCHANGED <<rewards, payments, overlapped>>
    BY <1>4 DEF GetDailyReward
  <2>1. CASE req' = [req EXCEPT ![w] = Idle]
    BY <1>3, <2>0, <2>1
  <2>2. CASE ~ClaimedToday(rewards[req[w].user]) /\ req' = [req EXCEPT ![w] = r]
    <3>1. /\ r \in Requests /\ r.user = req[w].user
          /\ r.began = req[w].began /\ r.checked = now
      <4>1. now \in 0..MaxTime
        BY DEF Earned, TypeOK
      <4>. QED
        BY <1>0, <4>1, WithCheck
    <3>. HIDE DEF r
    <3>2. req'[w] = r /\ \A v \in Workers : v # w => req'[v] = req[v]
      BY <2>2, <3>1, OneRequest DEF Earned
    <3>3. rewards[req[w].user] # NoReward =>
            Day(rewards[req[w].user].claimed) < Day(now)
      <4>1. ASSUME rewards[req[w].user] # NoReward, req[w].user \in Users
            PROVE  Day(rewards[req[w].user].claimed) < Day(now)
        <5>1. /\ rewards[req[w].user].claimed \in 0..MaxTime /\ now \in 0..MaxTime
              /\ rewards[req[w].user].claimed <= now
          BY <4>1, RowIs DEF Earned, TypeOK
        <5>. QED
          BY <2>2, <4>1, <5>1, DayIs DEF ClaimedToday
      <4>2. req[w].user \in Users
        BY <1>0, <1>4, RequestIs DEF GetDailyReward, RequestOK
      <4>. QED
        BY <4>1, <4>2
    <3>. QED
      BY <2>0, <3>1, <3>2, <3>3, RequestAlone
  <2>. QED
    BY <1>4, <2>1, <2>2 DEF GetDailyReward
<1>5. ASSUME NEW w \in Workers, ClaimReward(w)
      PROVE  Alone'
  <2>. DEFINE x == Upserted(rewards[req[w].user], req[w].began)
              r == [req[w] EXCEPT !.pc = "addBalance", !.row = x]
  <2>1. /\ req' = [req EXCEPT ![w] = r] /\ req[w].pc = "claim"
        /\ UNCHANGED <<rewards, payments, overlapped>>
    BY <1>5 DEF ClaimReward
  <2>2. req[w].user \in Users /\ req[w].began \in 0..MaxTime
    BY <1>0, <2>1, RequestIs DEF RequestOK
  <2>3. /\ rewards[req[w].user] \in Reward \cup {NoReward}
        /\ Possible(rewards[req[w].user])
    BY <2>2 DEF Earned, TypeOK
  <2>4. x \in Reward
    BY <2>2, <2>3, UpsertedIs
  <2>. HIDE DEF x
  <2>5. /\ r \in Requests /\ r.user = req[w].user
        /\ r.began = req[w].began /\ r.checked = req[w].checked
    BY <1>0, <2>4, WithRow
  <2>. HIDE DEF r
  <2>6. req'[w] = r /\ \A v \in Workers : v # w => req'[v] = req[v]
    BY <2>1, <2>5, OneRequest DEF Earned
  <2>7. \A u \in OneAtATime :
          req[w].user = u /\ rewards[u] # NoReward =>
            Day(rewards[u].claimed) < Day(r.checked)
    BY <2>1, <2>5 DEF Alone, Turn
  <2>. QED
    BY <2>1, <2>5, <2>6, <2>7, RequestAlone
<1>6. ASSUME NEW w \in Workers, AddBalance(w)
      PROVE  Alone'
  BY <1>3, <1>6, AddBalanceDoes, PayAlone
<1>7. ASSUME NEW w \in Workers, Fail(w)
      PROVE  Alone'
  BY <1>3, <1>7 DEF Fail
<1>. QED
  BY <1>1, <1>2, <1>4, <1>5, <1>6, <1>7 DEF Next

LEMMA AlwaysAlone == Spec => []Alone
<1>1. Init => Alone
  <2>. SUFFICES ASSUME Init PROVE Alone
    OBVIOUS
  <2>1. \A u \in Users : u # NoOne /\ rewards[u] = NoReward /\ payments[u] = <<>>
    BY ClaimAssumption DEF Init
  <2>2. \A w \in Workers : req[w].user = NoOne
    BY IdleIs DEF Init
  <2>. QED
    BY <2>1, <2>2 DEF Alone, OneRequestEach, OneAtATime, Turn, Complete, PaidDays,
                      PaidOnLaterDay
<1>2. Earned /\ Alone /\ [Next]_vars => Alone'
  BY NextAlone
<1>. QED
  BY <1>1, <1>2, AlwaysEarned, PTL DEF Spec

\* A user whose claims never overlap is paid only on days after all those paid
\* before, across midnight too (ClaimDailyReward's check and upsert).
THEOREM PaidOnLaterDays == Spec => []PaidOnLaterDay
<1>1. Alone => PaidOnLaterDay
  BY DEF Alone
<1>. QED
  BY <1>1, AlwaysAlone, PTL

\* The streak is the whole unbroken run of claimed days of such a user.
THEOREM StreaksAreRuns == Spec => []StreakIsRun
<1>1. Earned /\ Alone => StreakIsRun
  <2>. SUFFICES ASSUME Earned, Alone, NEW u \in OneAtATime, rewards[u] # NoReward
                PROVE  rewards[u].streak = Cardinality(Run(u, Day(rewards[u].claimed)))
    BY DEF StreakIsRun
  <2>. DEFINE d == Day(rewards[u].claimed)
              k == rewards[u].streak
  <2>1. rewards[u] \in Reward /\ k <= d + 1
    BY DEF Earned, TypeOK, OneAtATime, Possible
  <2>2. k \in Nat /\ k >= 1 /\ d \in Nat
    BY <2>1, RowIs, DayIs
  <2>3. \A i \in 0..(k - 1) : d - i \in PaidDays(u)
    BY DEF Earned, StreakEarned, OneAtATime
  <2>4. d - k \notin PaidDays(u)
    BY DEF Alone, Complete
  <2>. HIDE DEF d, k
  <2>5. ASSUME NEW n \in 1..(d + 1)
        PROVE  (\A i \in 0..(n - 1) : d - i \in PaidDays(u)) <=> n <= k
    <3>1. CASE n <= k
      <4>1. \A i \in 0..(n - 1) : i \in 0..(k - 1)
        BY <2>2, <3>1
      <4>. QED
        BY <2>3, <3>1, <4>1
    <3>2. CASE ~(n <= k)
      <4>1. k \in 0..(n - 1)
        BY <2>2, <3>2
      <4>. QED
        BY <2>4, <3>2, <4>1
    <3>. QED
      BY <3>1, <3>2
  <2>6. Run(u, d) = 1..k
    <3>1. Run(u, d) = {n \in 1..(d + 1) : n <= k}
      BY <2>5 DEF Run
    <3>2. {n \in 1..(d + 1) : n <= k} = 1..k
      BY <2>1, <2>2 DEF d, k
    <3>. QED
      BY <3>1, <3>2
  <2>7. Cardinality(1..k) = k
    BY <2>2, FS_Interval
  <2>. QED
    BY <2>6, <2>7 DEF d, k
<1>. QED
  BY <1>1, AlwaysEarned, AlwaysAlone, PTL

\* Such a user loses a streak only by a day without a claim.
THEOREM StreaksAreKept == Spec => StreakLostByAbsence
<1>. DEFINE Lost(u) == rewards'[u].streak < rewards[u].streak =>
                         Day(rewards'[u].claimed) > Day(rewards[u].claimed) + 1
<1>1. ASSUME Earned, Alone, NEW w \in Workers, Pays(w), NEW u \in OneAtATime
      PROVE  Lost(u)
  <2>1. CASE u # req[w].user
    <3>1. rewards'[u] = rewards[u]
      BY <1>1, <2>1 DEF Pays, Earned, TypeOK, OneAtATime
    <3>2. rewards[u].streak \in Int
      BY <1>1, RowIs, DayIs DEF Earned, TypeOK, OneAtATime
    <3>. QED
      BY <3>1, <3>2
  <2>2. CASE u = req[w].user
    <3>. DEFINE row == rewards[u]
                n == rewards'[u]
                t == req[w].began
    <3>1. /\ u \in Users /\ row \in Reward \cup {NoReward} /\ n \in Reward
          /\ t \in 0..MaxTime
          /\ \/ row # NoReward /\ Day(row.claimed) = Day(t) /\ n = row
             \/ /\ row # NoReward /\ Day(row.claimed) = Day(t) - 1
                /\ n.streak = row.streak + 1 /\ n.claimed = t
             \/ /\ n.streak = 1 /\ n.claimed = t
                /\ row # NoReward => Day(row.claimed) < Day(t) - 1
      BY <1>1, <2>2, PayInOrder
    <3>. HIDE DEF row, n, t
    <3>2. /\ row.streak \in Nat /\ Day(t) \in Nat
          /\ row # NoReward => Day(row.claimed) \in Nat
          /\ row = NoReward => row.streak = 0
      BY <3>1, RowIs, DayIs
    <3>3. n.streak < row.streak => Day(n.claimed) > Day(row.claimed) + 1
      BY <3>1, <3>2
    <3>. QED
      BY <3>3 DEF row, n
  <2>. QED
    BY <2>1, <2>2
<1>2. ASSUME Earned, rewards' = rewards, NEW u \in OneAtATime
      PROVE  Lost(u)
  <2>1. rewards[u].streak \in Int
    BY <1>2, RowIs, DayIs DEF Earned, TypeOK, OneAtATime
  <2>. QED
    BY <1>2, <2>1
<1>. HIDE DEF Lost
<1>3. Earned /\ Alone /\ [Next]_vars => \A u \in OneAtATime : Lost(u)
  <2>. SUFFICES ASSUME Earned, Alone, [Next]_vars PROVE \A u \in OneAtATime : Lost(u)
    OBVIOUS
  <2>1. rewards' = rewards \/ \E w \in Workers : Pays(w)
    BY AddBalanceDoes DEF Next, vars, ClaimDailyReward, GetDailyReward, ClaimReward, Fail,
       Tick
  <2>. QED
    BY <1>1, <1>2, <2>1
<1>4. Earned /\ Alone /\ [Next]_vars =>
        [\A u \in OneAtATime :
           rewards'[u].streak < rewards[u].streak =>
             Day(rewards'[u].claimed) > Day(rewards[u].claimed) + 1]_vars
  BY <1>3 DEF Lost
<1>. QED
  BY <1>4, AlwaysEarned, AlwaysAlone, PTL DEF Spec, StreakLostByAbsence

-----------------------------------------------------------------------------
(* When the check of ClaimDailyReward is enough *)

\* No user has had two claims in progress, and none is in progress at midnight.
ClaimsApart ==
  /\ overlapped = {}
  /\ \A w \in Workers : req[w].pc = "addBalance" =>
       Day(req[w].began) = Day(req[w].checked)

PaidOnTheDay ==
  \A u \in Users : \A i \in DOMAIN payments[u] :
    payments[u][i].began = payments[u][i].checked

LEMMA PayOnTheDay ==
  ASSUME Earned, PaidOnTheDay, ClaimsApart, NEW w \in Workers, AddBalance(w)
  PROVE  PaidOnTheDay'
<1>1. CASE payments' = payments
  BY <1>1 DEF PaidOnTheDay
<1>2. CASE Pays(w)
  <2>. DEFINE v == req[w].user
              payment == [began |-> Day(req[w].began), checked |-> Day(req[w].checked)]
              Paid == [began: 0..Day(MaxTime), checked: 0..Day(MaxTime)]
  <2>1. payment.began = payment.checked
    BY DEF ClaimsApart, AddBalance
  <2>2. /\ payments \in [Users -> Seq(Paid)]
        /\ payments' = [payments EXCEPT ![v] = Append(@, payment)]
        /\ v \in Users
    BY <1>2 DEF Pays, Earned, TypeOK
  <2>. HIDE DEF v, payment, Paid
  <2>3. ASSUME NEW u \in Users, u # v
        PROVE  payments'[u] = payments[u]
    BY <2>2, <2>3
  <2>4. payments'[v] = Append(payments[v], payment) /\ payments[v] \in Seq(Paid)
    BY <2>2
  <2>5. ASSUME NEW i \in DOMAIN payments'[v]
        PROVE  payments'[v][i].began = payments'[v][i].checked
    <3>1. \/ i \in DOMAIN payments[v] /\ payments'[v][i] = payments[v][i]
          \/ payments'[v][i] = payment
      BY <2>4
    <3>. QED
      BY <2>1, <2>2, <3>1 DEF PaidOnTheDay
  <2>. QED
    BY <2>3, <2>5 DEF PaidOnTheDay
<1>. QED
  BY <1>1, <1>2, AddBalanceDoes

\* The promise of the check is broken by claims that overlap or are in progress
\* at midnight, and by nothing else: without these, nobody the check has let
\* through gets through again on the same day.
THEOREM ClaimsAreSingle == Spec /\ []ClaimsApart => []NoDoubleClaim
<1>1. Init => PaidOnTheDay
  BY DEF Init, PaidOnTheDay
<1>2. Earned /\ PaidOnTheDay /\ ClaimsApart /\ [Next]_vars => PaidOnTheDay'
  <2>. SUFFICES ASSUME Earned, PaidOnTheDay, ClaimsApart, [Next]_vars
                PROVE  PaidOnTheDay'
    OBVIOUS
  <2>1. CASE payments' = payments
    BY <2>1 DEF PaidOnTheDay
  <2>2. payments' = payments \/ \E w \in Workers : AddBalance(w)
    BY DEF Next, vars, ClaimDailyReward, GetDailyReward, ClaimReward, Fail, Tick
  <2>. QED
    BY <2>1, <2>2, PayOnTheDay
<1>3. Earned /\ PaidOnTheDay /\ ClaimsApart /\ PaidOnLaterDay => NoDoubleClaim
  <2>. SUFFICES ASSUME Earned, PaidOnTheDay, ClaimsApart, PaidOnLaterDay,
                       NEW u \in Users, NEW i \in DOMAIN payments[u],
                       NEW j \in DOMAIN payments[u], i # j
                PROVE  payments[u][i].checked # payments[u][j].checked
    BY DEF NoDoubleClaim
  <2>. DEFINE Paid == [began: 0..Day(MaxTime), checked: 0..Day(MaxTime)]
  <2>1. payments[u] \in Seq(Paid)
    BY DEF Earned, TypeOK
  <2>2. Day(MaxTime) \in Nat
    BY ClaimAssumption DEF Day
  <2>3. /\ payments[u][i].checked \in Nat /\ payments[u][j].checked \in Nat
        /\ i \in Nat /\ j \in Nat
    <3>. DEFINE s == payments[u]
    <3>1. s \in Seq(Paid) /\ i \in DOMAIN s /\ j \in DOMAIN s
      BY <2>1
    <3>. HIDE DEF s, Paid
    <3>2. i \in Nat /\ j \in Nat /\ s[i] \in Paid /\ s[j] \in Paid
      BY <3>1
    <3>. QED
      BY <2>2, <3>2 DEF s, Paid
  <2>4. /\ payments[u][i].began = payments[u][i].checked
        /\ payments[u][j].began = payments[u][j].checked
    BY DEF PaidOnTheDay
  <2>5. u \in OneAtATime
    BY DEF ClaimsApart, OneAtATime
  <2>6. CASE i < j
    BY <2>3, <2>4, <2>5, <2>6 DEF PaidOnLaterDay
  <2>7. CASE j < i
    BY <2>3, <2>4, <2>5, <2>7 DEF PaidOnLaterDay
  <2>. QED
    BY <2>3, <2>6, <2>7
<1>. QED
  BY <1>1, <1>2, <1>3, AlwaysEarned, PaidOnLaterDays, PTL DEF Spec

=============================================================================
