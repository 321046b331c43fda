---------------------------- MODULE HugLedgerProofs ----------------------------
(***************************************************************************)
(* What HugService promises about its ledger: the status of a hug settles  *)
(* once, the coins of every user are the ones the completed hugs paid and  *)
(* the purchases took, cooldowns are not forgotten; and under which        *)
(* conditions the checks of SuggestHug are enough.                         *)
(***************************************************************************)
EXTENDS HugServiceProofs

-----------------------------------------------------------------------------
(* How a step changes the table hugs *)

\* A row INSERT makes.
NewRows ==
  {row \in Hug : row.status = "pending" /\ row.giver # row.receiver}

\* h gets the status s.
Becomes(h, s) == hugs' = [hugs EXCEPT ![h].status = s]

\* Only w's commits and the expiry job change a hug that is already there, and
\* what they change is pending.
LEMMA HugsChange ==
  ASSUME Inv, [Next]_vars
  PROVE  \/ UNCHANGED hugs
         \/ \E w \in Workers, h \in HugIds :
              /\ InsertHug(w) /\ hugs[h] = NoHug
              /\ \E row \in NewRows : hugs' = [hugs EXCEPT ![h] = row]
         \/ \E h \in HugIds : /\ hugs[h].status = "pending"
                              /\ \/ Becomes(h, "cancelled")
                                 \/ Becomes(h, "declined")
         \/ \E w \in Workers : StartCooldown(w)
         \/ CommitExpired
  <1> USE DEF tables
  <1>1. ASSUME NEW w \in Workers, InsertHug(w)
        PROVE  \E h \in HugIds : /\ hugs[h] = NoHug
                                 /\ \E row \in NewRows :
                                    hugs' = [hugs EXCEPT ![h] = row]
    <2>1. PICK h \in HugIds : hugs[h] = NoHug /\ hugs' = [hugs EXCEPT ![h] =
            [status |-> "pending", giver |-> req[w].user,
             receiver |-> req[w].other, created |-> req[w].began]]
      BY <1>1 DEF InsertHug
    <2>2. /\ req[w].user \in Users /\ req[w].other \in Users
          /\ req[w].user # req[w].other /\ req[w].began \in 0..MaxTime
      BY <1>1 DEF InsertHug, Inv, TypeOK, RequestsOK, Requests, FieldsFit,
         SuggestSteps
    <2>3. QED BY <2>1, <2>2 DEF NewRows, Hug, Statuses
  <1>2. ASSUME NEW w \in Workers, SetDeclineCooldown(w)
        PROVE  \E h \in HugIds : hugs[h].status = "pending" /\ Becomes(h, "declined")
    BY <1>2, UpdatedHug DEF SetDeclineCooldown, AfterHugUpdate, Becomes
  <1>3. ASSUME NEW w \in Workers, UpdateCancelledHug(w)
        PROVE  \/ UNCHANGED hugs
               \/ \E h \in HugIds :
                    hugs[h].status = "pending" /\ Becomes(h, "cancelled")
    BY <1>3 DEF UpdateCancelledHug, Matches, HugRow, NoHug, Becomes
  <1>4. ASSUME NEW w \in Workers, Arrival(w) \/ Fail(w)
        PROVE  UNCHANGED hugs
    BY <1>4 DEF Arrival, SuggestHugToSelf, SuggestHug, UpgradeCooldown,
       AcceptHug, DeclineHug, CancelHug, BuyHugSlot, Arrive, Fail
  <1>5. ASSUME NEW w \in Workers, Step(w), ~InsertHug(w),
               ~SetDeclineCooldown(w), ~UpdateCancelledHug(w), ~StartCooldown(w)
        PROVE  UNCHANGED hugs
    BY <1>5 DEF Step, IsBlockedByEither, CheckSuggestEligibility, GetUserSlots,
       CheckCooldown, UpdateHug, GetHugByID, PayGiver, PayReceiver, AddBalance,
       DeductBalance, GetCooldown, ReduceCooldown, ReadSlots, IncrementSlots,
       AbortDeadlocked
  <1>6. CASE Tick \/ UNCHANGED vars
             \/ \E u, v \in Users : BlockUser(u, v) \/ UnblockUser(u, v)
    BY <1>6 DEF Tick, vars, BlockUser, UnblockUser
  <1>7. ASSUME NEW h \in HugIds, ExpirePendingHug(h)
        PROVE  UNCHANGED hugs
    BY <1>7 DEF ExpirePendingHug
  <1>8. CASE ExpiryFails
    BY <1>8 DEF ExpiryFails
  <1>9. ASSUME NEW u \in Users, NEW amount \in BodyAmounts,
               AdminSetBalance(u, amount)
        PROVE  UNCHANGED hugs
    BY <1>9 DEF AdminSetBalance
  <1>10. QED
    BY <1>1, <1>2, <1>3, <1>4, <1>5, <1>6, <1>7, <1>8, <1>9 DEF Next

LEMMA ExpiringPending ==
  ASSUME Inv, NEW h \in expiring PROVE hugs[h].status = "pending"
  BY DEF Inv, UncommittedWorkHolds, ExpiringIsPending

LEMMA StepSettlesOnce ==
  ASSUME Inv, [Next]_vars, NEW h \in HugIds
  PROVE  SettlesOnce(h)
  <1>0. hugs[h] \in Hug \cup {NoHug} /\ hugs \in [HugIds -> Hug \cup {NoHug}]
    BY DEF Inv, TypeOK
  <1>1. ASSUME hugs[h].status = "pending", NEW s \in Statuses,
               hugs'[h] = [hugs[h] EXCEPT !.status = s]
        PROVE  SettlesOnce(h)
    BY <1>1 DEF SettlesOnce
  <1>2. CASE hugs'[h] = hugs[h]
    <2>1. hugs[h].status = "pending" =>
            hugs[h] = [hugs[h] EXCEPT !.status = "pending"]
      BY <1>0 DEF Hug, NoHug
    <2>2. QED BY <1>2, <2>1 DEF SettlesOnce, Statuses
  <1>3. ASSUME NEW g \in HugIds, hugs[g].status = "pending",
               NEW s \in Statuses, Becomes(g, s)
        PROVE  SettlesOnce(h)
    <2>1. CASE g = h BY <1>0, <1>1, <1>3, <2>1 DEF Becomes
    <2>2. CASE g # h BY <1>0, <1>2, <1>3, <2>2 DEF Becomes
    <2>3. QED BY <2>1, <2>2
  <1>4. ASSUME NEW w \in Workers, StartCooldown(w) PROVE SettlesOnce(h)
    <2>1. req[w].hug \in HugIds /\ hugs[req[w].hug].status = "pending"
          /\ Becomes(req[w].hug, "completed")
      BY <1>4, UpdatedHug DEF StartCooldown, AfterHugUpdate, Becomes
    <2>2. QED BY <1>3, <2>1 DEF Statuses
  <1>5. CASE CommitExpired
    <2>1. CASE h \in expiring
      <3>1. hugs[h].status = "pending"
            /\ hugs'[h] = [hugs[h] EXCEPT !.status = "expired"]
        BY <1>5, <2>1, ExpiringPending DEF CommitExpired
      <3>2. QED BY <1>1, <3>1 DEF Statuses
    <2>2. CASE h \notin expiring
      BY <1>2, <1>5, <2>2 DEF CommitExpired
    <2>3. QED BY <2>1, <2>2
  <1>6. ASSUME NEW g \in HugIds, hugs[g] = NoHug, NEW row,
               hugs' = [hugs EXCEPT ![g] = row]
        PROVE  SettlesOnce(h)
    <2>1. CASE g = h BY <1>6, <2>1 DEF SettlesOnce, NoHug
    <2>2. CASE g # h BY <1>0, <1>2, <1>6, <2>2
    <2>3. QED BY <2>1, <2>2
  <1>7. QED BY <1>2, <1>3, <1>4, <1>5, <1>6, HugsChange DEF Statuses

\* A settled hug never changes, and a pending one changes its status only: no
\* interleaving of accept, decline, cancel and expiry overwrites an outcome.
THEOREM StatusFinal == Spec => StatusIsFinal
  <1>1. Inv /\ [Next]_vars => [\A h \in HugIds : SettlesOnce(h)]_vars
    BY StepSettlesOnce
  <1>2. QED BY <1>1, InvHolds, PTL DEF Spec, StatusIsFinal

-----------------------------------------------------------------------------
(* Coins *)

\* A step that completes no hug and undoes none keeps the completed hugs.
LEMMA SameCompleted ==
  ASSUME NEW u,
         \A h \in HugIds : \/ hugs'[h] = hugs[h]
                           \/ /\ hugs[h].status # "completed"
                              /\ hugs'[h].status # "completed"
  PROVE  Completed(u)' = Completed(u)
  <1>1. ASSUME NEW h \in HugIds
        PROVE  h \in Completed(u)' <=> h \in Completed(u)
    BY DEF Completed, Parties
  <1>2. QED BY <1>1 DEF Completed

LEMMA CompletedFinite ==
  ASSUME NEW u PROVE IsFiniteSet(Completed(u)) /\ Cardinality(Completed(u)) \in Nat
  BY IdAssumption, FS_Subset, FS_CardinalityType DEF Completed

\* Every step but the commit of an accept completes no hug.
LEMMA OtherStepsCompleteNothing ==
  ASSUME Inv, [Next]_vars, \A w \in Workers : ~StartCooldown(w),
         NEW h \in HugIds
  PROVE  \/ hugs'[h] = hugs[h]
         \/ hugs[h].status # "completed" /\ hugs'[h].status # "completed"
  <1> DEFINE Goal == \/ hugs'[h] = hugs[h]
                     \/ /\ hugs[h].status # "completed"
                        /\ hugs'[h].status # "completed"
  <1>0. hugs \in [HugIds -> Hug \cup {NoHug}]
    BY DEF Inv, TypeOK
  <1>1. ASSUME NEW g \in HugIds, hugs[g].status = "pending",
               Becomes(g, "cancelled") \/ Becomes(g, "declined")
        PROVE  Goal
    <2>1. CASE g = h
      <3>1. hugs[h] \in Hug
        BY <1>1, <2>1, PendingIsAHug DEF Inv
      <3>2. PICK s \in {"cancelled", "declined"} :
              hugs'[h] = [hugs[h] EXCEPT !.status = s]
        BY <1>0, <1>1, <2>1 DEF Becomes
      <3>3. hugs'[h].status # "completed"
        BY <3>1, <3>2 DEF Hug
      <3>4. QED BY <1>1, <2>1, <3>3
    <2>2. CASE g # h BY <1>0, <1>1, <2>2 DEF Becomes
    <2>3. QED BY <2>1, <2>2
  <1>2. ASSUME NEW g \in HugIds, hugs[g] = NoHug,
               NEW row, row.status = "pending", hugs' = [hugs EXCEPT ![g] = row]
        PROVE  Goal
    BY <1>0, <1>2 DEF NoHug
  <1>3. CASE CommitExpired
    <2>1. CASE h \in expiring
      <3>1. hugs[h] \in Hug /\ hugs[h].status = "pending"
        BY <2>1, ExpiringPending, PendingIsAHug DEF Inv
      <3>2. hugs'[h] = [hugs[h] EXCEPT !.status = "expired"]
        BY <1>3, <2>1 DEF CommitExpired
      <3>3. hugs'[h].status = "expired"
        BY <3>1, <3>2 DEF Hug
      <3>4. QED BY <3>1, <3>3
    <2>2. CASE h \notin expiring BY <1>3, <2>2 DEF CommitExpired
    <2>3. QED BY <2>1, <2>2
  <1>4. QED BY <1>1, <1>2, <1>3, HugsChange DEF NewRows

\* Committing an accept pays both parties, and only them, the coin its hug
\* accounts for.
LEMMA AcceptAccounted ==
  ASSUME Inv, CoinsAccounted, NEW w \in Workers, StartCooldown(w)
  PROVE  CoinsAccounted'
  <1>0. PICK h : h = req[w].hug
    OBVIOUS
  <1>1. h \in HugIds /\ hugs[h].status = "pending" /\ hugs[h] \in Hug
    BY <1>0, UpdatedHug DEF StartCooldown, AfterHugUpdate
  <1>2. /\ hugs'[h] = [hugs[h] EXCEPT !.status = "completed"]
        /\ \A g \in HugIds \ {h} : hugs'[g] = hugs[g]
    BY <1>0, <1>1 DEF StartCooldown, Inv, TypeOK
  <1>3. /\ hugs'[h].status = "completed"
        /\ hugs'[h].giver = hugs[h].giver
        /\ hugs'[h].receiver = hugs[h].receiver
    BY <1>1, <1>2 DEF Hug
  <1>4. SUFFICES ASSUME NEW u \in Users
                 PROVE  balance'[u] + spent'[u]
                          = StartBalance + Cardinality(Completed(u)')
    BY DEF CoinsAccounted
  <1>5. /\ balance[u] \in Nat /\ spent[u] \in Int /\ spent'[u] = spent[u]
        /\ StartBalance \in Nat
    BY AmountAssumption DEF Inv, TypeOK, StartCooldown
  <1>6. balance[u] + spent[u] = StartBalance + Cardinality(Completed(u))
    BY DEF CoinsAccounted
  <1>7. CASE u \in Parties(h)
    <2>1. balance'[u] = balance[u] + 1
      BY <1>0, <1>7 DEF StartCooldown, Credit
    <2>2. ASSUME NEW g \in HugIds
          PROVE  g \in Completed(u)' <=> g \in Completed(u) \cup {h}
      <3>1. CASE g = h BY <1>3, <1>7, <3>1 DEF Completed, Parties
      <3>2. CASE g # h BY <1>2, <3>2 DEF Completed, Parties
      <3>3. QED BY <3>1, <3>2
    <2>3. Completed(u)' = Completed(u) \cup {h}
      BY <1>1, <2>2 DEF Completed
    <2>4. h \notin Completed(u)
      BY <1>1 DEF Completed
    <2>5. Cardinality(Completed(u)') = Cardinality(Completed(u)) + 1
      BY <2>3, <2>4, CompletedFinite, FS_AddElement
    <2>6. QED BY <1>5, <1>6, <2>1, <2>5, CompletedFinite
  <1>8. CASE u \notin Parties(h)
    <2>1. balance'[u] = balance[u]
      BY <1>0, <1>8 DEF StartCooldown, Credit
    <2>2. ASSUME NEW g \in HugIds
          PROVE  g \in Completed(u)' <=> g \in Completed(u)
      <3>1. CASE g = h BY <1>1, <1>3, <1>8, <3>1 DEF Completed, Parties
      <3>2. CASE g # h BY <1>2, <3>2 DEF Completed, Parties
      <3>3. QED BY <3>1, <3>2
    <2>3. Completed(u)' = Completed(u)
      BY <2>2 DEF Completed
    <2>4. QED BY <1>5, <1>6, <2>1, <2>3
  <1>9. QED BY <1>7, <1>8

LEMMA ChargeKeepsTotal ==
  ASSUME Inv, NEW w \in Workers, Charge(w), NEW u \in Users
  PROVE  balance'[u] + spent'[u] = balance[u] + spent[u]
  <1>1. Price(w) \in Int
    BY PriceNat DEF Inv
  <1>2. /\ balance[u] \in Int /\ spent[u] \in Int
        /\ balance \in [Users -> 0..MaxAmount] /\ spent \in [Users -> Int]
    BY AmountAssumption DEF Inv, TypeOK
  <1>3. CASE u = req[w].user
    <2>1. /\ balance'[u] = balance[u] - Price(w)
          /\ spent'[u] = spent[u] + Price(w)
      BY <1>2, <1>3 DEF Charge
    <2>2. QED BY <1>1, <1>2, <2>1
  <1>4. CASE u # req[w].user
    BY <1>2, <1>4 DEF Charge
  <1>5. QED BY <1>3, <1>4

LEMMA OtherStepsKeepTotal ==
  ASSUME Inv, [Next]_vars, \A w \in Workers : ~StartCooldown(w), NEW u \in Users
  PROVE  balance'[u] + spent'[u] = balance[u] + spent[u]
  <1> USE DEF tables
  <1>1. CASE UNCHANGED <<balance, spent>>
    BY <1>1
  <1>2. ASSUME NEW w \in Workers, ReduceCooldown(w) \/ IncrementSlots(w)
        PROVE  balance'[u] + spent'[u] = balance[u] + spent[u]
    <2>1. Charge(w) \/ UNCHANGED <<balance, spent>>
      BY <1>2 DEF ReduceCooldown, IncrementSlots
    <2>2. QED BY <1>1, <2>1, ChargeKeepsTotal
  <1>3. ASSUME NEW w \in Workers, Arrival(w) \/ Fail(w)
        PROVE  UNCHANGED <<balance, spent>>
    BY <1>3 DEF Arrival, SuggestHugToSelf, SuggestHug, UpgradeCooldown,
       AcceptHug, DeclineHug, CancelHug, BuyHugSlot, Arrive, Fail
  <1>4. ASSUME NEW w \in Workers, Step(w), ~StartCooldown(w),
               ~ReduceCooldown(w), ~IncrementSlots(w)
        PROVE  UNCHANGED <<balance, spent>>
    BY <1>4 DEF Step, IsBlockedByEither, CheckSuggestEligibility, GetUserSlots,
       CheckCooldown, InsertHug, UpdateHug, UpdateCancelledHug, GetHugByID,
       PayGiver, PayReceiver, AddBalance, SetDeclineCooldown, DeductBalance,
       GetCooldown, ReadSlots, AbortDeadlocked
  <1>5. CASE Tick \/ UNCHANGED vars
             \/ \E a, b \in Users : BlockUser(a, b) \/ UnblockUser(a, b)
    BY <1>1, <1>5 DEF Tick, vars, BlockUser, UnblockUser
  <1>6. CASE CommitExpired \/ ExpiryFails
    BY <1>1, <1>6 DEF CommitExpired, ExpiryFails
  <1>7. ASSUME NEW h \in HugIds, ExpirePendingHug(h)
        PROVE  UNCHANGED <<balance, spent>>
    BY <1>7 DEF ExpirePendingHug
  <1>8. ASSUME NEW v \in Users, NEW amount \in BodyAmounts,
               AdminSetBalance(v, amount)
        PROVE  balance'[u] + spent'[u] = balance[u] + spent[u]
    <2>1. /\ balance \in [Users -> 0..MaxAmount] /\ spent \in [Users -> Int]
          /\ balance[u] \in Int /\ spent[u] \in Int
          /\ ToInt32(amount) \in Int
      BY ToInt32Bound, AmountAssumption DEF Inv, TypeOK
    <2>2. CASE UNCHANGED <<balance, spent>>
      BY <2>2
    <2>3. CASE /\ balance' = [balance EXCEPT ![v] = ToInt32(amount)]
               /\ spent' = [spent EXCEPT ![v] = @ + balance[v] - ToInt32(amount)]
      BY <2>1, <2>3
    <2>4. QED BY <1>8, <2>2, <2>3 DEF AdminSetBalance
  <1>9. QED BY <1>1, <1>2, <1>3, <1>4, <1>5, <1>6, <1>7, <1>8 DEF Next

\* Every user's coins are the ones at the start, plus one for each completed
\* hug of theirs, less what they have paid: no race, deadlock, failure or
\* rollback loses a coin, pays it twice or pays one party only.
THEOREM Coins == Spec => []CoinsAccounted
  <1>1. Init => CoinsAccounted
    <2> SUFFICES ASSUME Init, NEW u \in Users
                 PROVE  balance[u] + spent[u]
                          = StartBalance + Cardinality(Completed(u))
      BY DEF CoinsAccounted
    <2>1. Completed(u) = {}
      BY DEF Init, Completed, NoHug
    <2>2. Cardinality(Completed(u)) = 0
      BY <2>1, FS_EmptySet
    <2>3. StartBalance \in Nat
      BY AmountAssumption
    <2>4. QED BY <2>2, <2>3 DEF Init
  <1>2. Inv /\ CoinsAccounted /\ [Next]_vars => CoinsAccounted'
    <2> SUFFICES ASSUME Inv, CoinsAccounted, [Next]_vars
                 PROVE  CoinsAccounted'
      OBVIOUS
    <2>1. CASE \E w \in Workers : StartCooldown(w)
      BY <2>1, AcceptAccounted
    <2>2. CASE \A w \in Workers : ~StartCooldown(w)
      BY <2>2, OtherStepsKeepTotal, OtherStepsCompleteNothing, SameCompleted
         DEF CoinsAccounted
    <2>3. QED BY <2>1, <2>2
  <1>3. QED BY <1>1, <1>2, InvHolds, PTL DEF Spec

-----------------------------------------------------------------------------
(* Cooldowns *)

\* A row that exists has at least the minimal cooldown.
GoodRow(row) == row = NoCooldown \/ row.seconds >= MinCooldown
GoodRows == \A p \in Pairs : GoodRow(cooldown[p])

\* Nobody hugs themselves.
TwoParties ==
  \A h \in HugIds : hugs[h] # NoHug => hugs[h].giver # hugs[h].receiver

CooldownInv == GoodRows /\ TwoParties /\ CompletedHugHasCooldown

LEMMA UpsertStarts ==
  ASSUME NEW row \in Cooldown, GoodRow(row), NEW began \in 0..MaxTime
  PROVE  /\ UpsertCooldown(row, began).seconds >= MinCooldown
         /\ UpsertCooldown(row, began).lastHug >= 0
  BY AmountAssumption DEF GoodRow, UpsertCooldown, Cooldown

LEMMA DeclineKeepsStart ==
  ASSUME NEW row \in Cooldown, GoodRow(row), NEW until
  PROVE  /\ SetDecline(row, until).seconds >= MinCooldown
         /\ row.lastHug >= 0 => SetDecline(row, until).lastHug >= 0
  BY AmountAssumption DEF GoodRow, SetDecline, Cooldown, NoCooldown, LongAgo

LEMMA ReducedKeepsStart ==
  ASSUME NEW row \in Cooldown
  PROVE  LET r == [row EXCEPT !.seconds = Reduced(row.seconds)] IN
           r.seconds >= MinCooldown /\ r.lastHug = row.lastHug
  <1>1. Reduced(row.seconds) >= MinCooldown
    BY AmountAssumption DEF Reduced, Cooldown
  <1>2. QED BY <1>1 DEF Cooldown

\* No step forgets that a cooldown was started.
LEMMA CooldownsKeepStart ==
  ASSUME Inv, GoodRows, [Next]_vars, NEW p \in Pairs
  PROVE  /\ GoodRow(cooldown'[p])
         /\ cooldown[p].lastHug >= 0 => cooldown'[p].lastHug >= 0
         /\ cooldown'[p] = cooldown[p] \/ cooldown'[p].seconds >= MinCooldown
  <1> USE DEF tables
  <1> DEFINE Goal == /\ GoodRow(cooldown'[p])
                     /\ cooldown[p].lastHug >= 0 => cooldown'[p].lastHug >= 0
                     /\ \/ cooldown'[p] = cooldown[p]
                        \/ cooldown'[p].seconds >= MinCooldown
  <1>0. /\ cooldown \in [Pairs -> Cooldown] /\ cooldown[p] \in Cooldown
        /\ GoodRow(cooldown[p])
    BY DEF Inv, TypeOK, GoodRows
  <1>1. CASE UNCHANGED cooldown
    BY <1>0, <1>1
  <1>2. ASSUME NEW q, NEW row, cooldown' = [cooldown EXCEPT ![q] = row],
               q = p => /\ row.seconds >= MinCooldown
                        /\ cooldown[p].lastHug >= 0 => row.lastHug >= 0
        PROVE  Goal
    <2>1. CASE q = p BY <1>0, <1>2, <2>1 DEF GoodRow
    <2>2. CASE q # p BY <1>0, <1>2, <2>2
    <2>3. QED BY <2>1, <2>2
  <1>3. ASSUME NEW w \in Workers, StartCooldown(w) PROVE Goal
    <2>1. req[w].began \in 0..MaxTime
      BY DEF Inv, TypeOK, RequestsOK, Requests
    <2>2. PICK q : q = Parties(req[w].hug)
      OBVIOUS
    <2>3. cooldown' = [cooldown EXCEPT ![q] =
                         UpsertCooldown(cooldown[q], req[w].began)]
      BY <1>3, <2>2 DEF StartCooldown
    <2>4. QED BY <1>0, <1>2, <2>1, <2>3, UpsertStarts
  <1>4. ASSUME NEW w \in Workers, SetDeclineCooldown(w) PROVE Goal
    <2>1. PICK q : q = Parties(req[w].hug)
      OBVIOUS
    <2>2. cooldown' = [cooldown EXCEPT ![q] =
                         SetDecline(cooldown[q], now + DeclineCooldown)]
      BY <1>4, <2>1 DEF SetDeclineCooldown
    <2>3. QED BY <1>0, <1>2, <2>2, DeclineKeepsStart
  <1>5. ASSUME NEW w \in Workers, ReduceCooldown(w) PROVE Goal
    <2>1. PICK q : q = {req[w].user, req[w].other}
      OBVIOUS
    <2>2. PICK row : row = IF req[w].pc = "createCooldown"
                           THEN UpsertCooldown(cooldown[q], req[w].began)
                           ELSE cooldown[q]
      OBVIOUS
    <2>3. cooldown' = [cooldown EXCEPT ![q] =
                         [row EXCEPT !.seconds = Reduced(row.seconds)]]
      BY <1>5, <2>1, <2>2 DEF ReduceCooldown
    <2>4. req[w].began \in 0..MaxTime
      BY DEF Inv, TypeOK, RequestsOK, Requests
    <2>5. q = p => /\ row \in Cooldown
                   /\ cooldown[p].lastHug >= 0 => row.lastHug >= 0
      BY <1>0, <2>2, <2>4, UpsertTyped, UpsertStarts
    <2>6. QED BY <1>2, <2>3, <2>5, ReducedKeepsStart
  <1>6. ASSUME NEW w \in Workers, Arrival(w) \/ Fail(w)
        PROVE  UNCHANGED cooldown
    BY <1>6 DEF Arrival, SuggestHugToSelf, SuggestHug, UpgradeCooldown,
       AcceptHug, DeclineHug, CancelHug, BuyHugSlot, Arrive, Fail
  <1>7. ASSUME NEW w \in Workers, Step(w), ~StartCooldown(w),
               ~SetDeclineCooldown(w), ~ReduceCooldown(w)
        PROVE  UNCHANGED cooldown
    BY <1>7 DEF Step, IsBlockedByEither, CheckSuggestEligibility, GetUserSlots,
       CheckCooldown, InsertHug, UpdateHug, UpdateCancelledHug, GetHugByID,
       PayGiver, PayReceiver, AddBalance, DeductBalance, GetCooldown, ReadSlots,
       IncrementSlots, AbortDeadlocked
  <1>8. CASE Tick \/ UNCHANGED vars
             \/ \E a, b \in Users : BlockUser(a, b) \/ UnblockUser(a, b)
    BY <1>1, <1>8 DEF Tick, vars, BlockUser, UnblockUser
  <1>9. CASE CommitExpired \/ ExpiryFails
    BY <1>1, <1>9 DEF CommitExpired, ExpiryFails
  <1>10. ASSUME NEW h \in HugIds, ExpirePendingHug(h)
         PROVE  UNCHANGED cooldown
    BY <1>10 DEF ExpirePendingHug
  <1>11. ASSUME NEW u \in Users, NEW amount \in BodyAmounts,
                AdminSetBalance(u, amount)
         PROVE  UNCHANGED cooldown
    BY <1>11 DEF AdminSetBalance
  <1>12. QED
    BY <1>1, <1>3, <1>4, <1>5, <1>6, <1>7, <1>8, <1>9, <1>10, <1>11 DEF Next

\* A step keeps the parties of a hug that is there.
LEMMA PartiesStay ==
  ASSUME Inv, [Next]_vars, NEW h \in HugIds, hugs[h] # NoHug
  PROVE  /\ hugs'[h].giver = hugs[h].giver
         /\ hugs'[h].receiver = hugs[h].receiver
  <1>1. hugs[h] \in Hug
    BY DEF Inv, TypeOK
  <1>2. CASE hugs[h].status = "pending"
    <2>1. PICK s : hugs'[h] = [hugs[h] EXCEPT !.status = s]
      BY <1>2, StepSettlesOnce DEF SettlesOnce
    <2>2. QED BY <1>1, <2>1 DEF Hug
  <1>3. CASE hugs[h].status # "pending"
    BY <1>1, <1>3, StepSettlesOnce DEF SettlesOnce, Hug, Statuses
  <1>4. QED BY <1>2, <1>3

LEMMA StepKeepsTwoParties ==
  ASSUME Inv, TwoParties, [Next]_vars, NEW h \in HugIds, hugs'[h] # NoHug
  PROVE  hugs'[h].giver # hugs'[h].receiver
  <1>1. CASE hugs[h] # NoHug
    BY <1>1, PartiesStay DEF TwoParties
  <1>2. CASE hugs[h] = NoHug
    <2>0. hugs \in [HugIds -> Hug \cup {NoHug}] /\ hugs[h].status # "pending"
      BY <1>2 DEF Inv, TypeOK, NoHug
    <2>1. PICK g \in HugIds, row \in NewRows : hugs' = [hugs EXCEPT ![g] = row]
      <3>1. ASSUME NEW g \in HugIds, hugs[g].status = "pending", NEW s,
                   Becomes(g, s)
            PROVE  FALSE
        BY <1>2, <2>0, <3>1 DEF Becomes
      <3>2. ASSUME NEW w \in Workers, StartCooldown(w) PROVE FALSE
        BY <3>1, <3>2, UpdatedHug DEF StartCooldown, AfterHugUpdate, Becomes
      <3>3. CommitExpired => FALSE
        BY <1>2, <2>0, ExpiringPending DEF CommitExpired
      <3>4. QED BY <1>2, <3>1, <3>2, <3>3, HugsChange
    <2>2. g = h
      BY <1>2, <2>0, <2>1
    <2>3. QED BY <2>0, <2>1, <2>2 DEF NewRows
  <1>3. QED BY <1>1, <1>2

LEMMA StepKeepsCooldownInv ==
  ASSUME Inv, CooldownInv, [Next]_vars
  PROVE  CooldownInv'
  <1>1. GoodRows'
    BY CooldownsKeepStart DEF CooldownInv, GoodRows, GoodRow
  <1>2. TwoParties'
    BY StepKeepsTwoParties DEF CooldownInv, TwoParties
  <1>3. ASSUME NEW h \in HugIds, hugs'[h].status = "completed",
               NEW p, p = {hugs'[h].giver, hugs'[h].receiver}
        PROVE  cooldown'[p].lastHug >= 0 /\ cooldown'[p].seconds >= MinCooldown
    <2>0. /\ hugs \in [HugIds -> Hug \cup {NoHug}]
          /\ cooldown \in [Pairs -> Cooldown]
      BY DEF Inv, TypeOK
    <2>1. CASE hugs'[h] = hugs[h]
      <3>1. hugs[h] \in Hug /\ p \in Pairs
        BY <1>3, <2>0, <2>1 DEF CooldownInv, TwoParties, NoHug, Hug, Pairs
      <3>2. cooldown[p].lastHug >= 0
        BY <1>3, <2>1 DEF CooldownInv, CompletedHugHasCooldown, Parties
      <3>3. cooldown'[p].lastHug >= 0 /\ GoodRow(cooldown'[p])
        BY <3>1, <3>2, CooldownsKeepStart DEF CooldownInv
      <3>4. cooldown'[p] # NoCooldown
        BY <3>3, AmountAssumption DEF NoCooldown, LongAgo
      <3>5. QED BY <3>3, <3>4 DEF GoodRow
    <2>2. CASE hugs'[h] # hugs[h]
      <3>1. PICK w \in Workers : StartCooldown(w)
        BY <1>3, <2>2, OtherStepsCompleteNothing
      <3>2. PICK g : g = req[w].hug /\ g \in HugIds /\ hugs[g] \in Hug
                     /\ hugs[g].status = "pending"
        BY <3>1, UpdatedHug DEF StartCooldown, AfterHugUpdate
      <3>3. g = h
        BY <2>0, <2>2, <3>1, <3>2 DEF StartCooldown
      <3>4. hugs[h] # NoHug
        BY <3>2, <3>3 DEF NoHug
      <3>5. p = {hugs[h].giver, hugs[h].receiver} /\ p \in Pairs
        BY <1>3, <3>2, <3>3, <3>4, PartiesStay
           DEF Pairs, Hug, CooldownInv, TwoParties
      <3>6. cooldown' = [cooldown EXCEPT ![p] =
                           UpsertCooldown(cooldown[p], req[w].began)]
        BY <3>1, <3>2, <3>3, <3>5 DEF StartCooldown, Parties
      <3>7. req[w].began \in 0..MaxTime
        BY DEF Inv, TypeOK, RequestsOK, Requests
      <3>8. cooldown[p] \in Cooldown /\ GoodRow(cooldown[p])
        BY <2>0, <3>5 DEF CooldownInv, GoodRows
      <3>9. QED BY <2>0, <3>5, <3>6, <3>7, <3>8, UpsertStarts
    <2>3. QED BY <2>1, <2>2
  <1>4. CompletedHugHasCooldown'
    BY <1>3 DEF CompletedHugHasCooldown, Parties
  <1>5. QED BY <1>1, <1>2, <1>4 DEF CooldownInv

LEMMA CooldownInvHolds == Spec => []CooldownInv
  <1>1. Init => CooldownInv
    BY DEF Init, CooldownInv, GoodRows, GoodRow, TwoParties,
       CompletedHugHasCooldown, NoHug
  <1>2. Inv /\ CooldownInv /\ [Next]_vars => CooldownInv'
    BY StepKeepsCooldownInv
  <1>3. QED BY <1>1, <1>2, InvHolds, PTL DEF Spec

\* The pair of a completed hug keeps a started cooldown of at least the minimal
\* length: no later decline, upgrade or race resets it.
THEOREM CompletedHugsCoolDown == Spec => []CompletedHugHasCooldown
  <1>1. CooldownInv => CompletedHugHasCooldown
    BY DEF CooldownInv
  <1>2. QED BY <1>1, CooldownInvHolds, PTL

-----------------------------------------------------------------------------
(* When the checks of SuggestHug are enough.  Nothing but the insert of     *)
(* another suggestion adds to what it has counted.                          *)

\* No user has two suggestions in progress, and no pair has.
UsersApart ==
  \A w, x \in Suggesting : req[w].user = req[x].user => w = x
PairsApart ==
  \A w, x \in Suggesting :
    {req[w].user, req[w].other} = {req[x].user, req[x].other} => w = x

LEMMA SlotsGrow ==
  ASSUME Inv, [Next]_vars, NEW u \in Users
  PROVE  slots[u] \in Nat /\ slots'[u] \in Nat /\ slots'[u] >= slots[u]
  <1> USE DEF tables
  <1>0. slots \in [Users -> 1..MaxHugSlots] /\ slots[u] \in Nat
    BY AmountAssumption DEF Inv, TypeOK
  <1>1. CASE UNCHANGED slots
    BY <1>0, <1>1
  <1>2. ASSUME NEW w \in Workers, IncrementSlots(w)
        PROVE  slots'[u] \in Nat /\ slots'[u] >= slots[u]
    BY <1>0, <1>2 DEF IncrementSlots
  <1>3. ASSUME NEW w \in Workers, Arrival(w) \/ Fail(w) PROVE UNCHANGED slots
    BY <1>3 DEF Arrival, SuggestHugToSelf, SuggestHug, UpgradeCooldown,
       AcceptHug, DeclineHug, CancelHug, BuyHugSlot, Arrive, Fail
  <1>4. ASSUME NEW w \in Workers, Step(w), ~IncrementSlots(w)
        PROVE  UNCHANGED slots
    BY <1>4 DEF Step, IsBlockedByEither, CheckSuggestEligibility, GetUserSlots,
       CheckCooldown, InsertHug, UpdateHug, UpdateCancelledHug, GetHugByID,
       PayGiver, PayReceiver, AddBalance, StartCooldown, SetDeclineCooldown,
       DeductBalance, GetCooldown, ReduceCooldown, ReadSlots, AbortDeadlocked
  <1>5. CASE \/ Tick \/ UNCHANGED vars \/ CommitExpired \/ ExpiryFails
             \/ \E a, b \in Users : BlockUser(a, b) \/ UnblockUser(a, b)
             \/ \E a \in Users, n \in BodyAmounts : AdminSetBalance(a, n)
             \/ \E h \in HugIds : ExpirePendingHug(h)
    BY <1>1, <1>5 DEF Tick, vars, BlockUser, UnblockUser, CommitExpired,
       ExpiryFails, AdminSetBalance, ExpirePendingHug
  <1>6. QED BY <1>0, <1>1, <1>2, <1>3, <1>4, <1>5 DEF Next

LEMMA TimeGoesOn ==
  ASSUME Inv, [Next]_vars
  PROVE  now \in Nat /\ now' \in Nat /\ now' >= now
  <1> USE DEF tables
  <1>0. now \in Nat
    BY AmountAssumption DEF Inv, TypeOK
  <1>1. CASE UNCHANGED now
    BY <1>0, <1>1
  <1>2. CASE Tick
    BY <1>0, <1>2 DEF Tick
  <1>3. ASSUME NEW w \in Workers, Arrival(w) \/ Fail(w) PROVE UNCHANGED now
    BY <1>3 DEF Arrival, SuggestHugToSelf, SuggestHug, UpgradeCooldown,
       AcceptHug, DeclineHug, CancelHug, BuyHugSlot, Arrive, Fail
  <1>4. ASSUME NEW w \in Workers, Step(w) PROVE UNCHANGED now
    BY <1>4 DEF Step, IsBlockedByEither, CheckSuggestEligibility, GetUserSlots,
       CheckCooldown, InsertHug, UpdateHug, UpdateCancelledHug, GetHugByID,
       PayGiver, PayReceiver, AddBalance, StartCooldown, SetDeclineCooldown,
       DeductBalance, GetCooldown, ReduceCooldown, ReadSlots, IncrementSlots,
       AbortDeadlocked
  <1>5. CASE \/ UNCHANGED vars \/ CommitExpired \/ ExpiryFails
             \/ \E a, b \in Users : BlockUser(a, b) \/ UnblockUser(a, b)
             \/ \E a \in Users, n \in BodyAmounts : AdminSetBalance(a, n)
             \/ \E h \in HugIds : ExpirePendingHug(h)
    BY <1>1, <1>5 DEF vars, BlockUser, UnblockUser, CommitExpired, ExpiryFails,
       AdminSetBalance, ExpirePendingHug
  <1>6. QED BY <1>1, <1>2, <1>3, <1>4, <1>5 DEF Next

\* A suggestion that was there before a step and is live after it was live.
LEMMA LiveStays ==
  ASSUME Inv, [Next]_vars, NEW h \in HugIds, hugs[h] # NoHug, Live(h, now)'
  PROVE  /\ Live(h, now)
         /\ hugs'[h].giver = hugs[h].giver
         /\ hugs'[h].receiver = hugs[h].receiver
  <1>1. hugs[h] \in Hug
    BY DEF Inv, TypeOK
  <1>2. hugs[h].status = "pending" /\ hugs'[h].created = hugs[h].created
    <2>1. CASE hugs[h].status = "pending"
      <3>1. PICK s : hugs'[h] = [hugs[h] EXCEPT !.status = s]
        BY <2>1, StepSettlesOnce DEF SettlesOnce
      <3>2. QED BY <1>1, <2>1, <3>1 DEF Hug
    <2>2. CASE hugs[h].status # "pending"
      BY <1>1, <2>2, StepSettlesOnce DEF SettlesOnce, Hug, Statuses, Live
    <2>3. QED BY <2>1, <2>2
  <1>3. hugs[h].created \in Int /\ Window \in Nat
    BY <1>1, AmountAssumption DEF Hug
  <1>4. Live(h, now)
    BY <1>2, <1>3, TimeGoesOn DEF Live
  <1>5. QED BY <1>4, PartiesStay

\* A row appears by an insert.
LEMMA RowIsInserted ==
  ASSUME Inv, [Next]_vars, NEW h \in HugIds, hugs[h] = NoHug, hugs'[h] # NoHug
  PROVE  \E w \in Workers :
           /\ InsertHug(w)
           /\ hugs'[h].giver = req[w].user /\ hugs'[h].receiver = req[w].other
  <1>0. hugs \in [HugIds -> Hug \cup {NoHug}] /\ hugs[h].status # "pending"
    BY DEF Inv, TypeOK, NoHug
  <1>1. ASSUME NEW g \in HugIds, hugs[g].status = "pending", NEW s, Becomes(g, s)
        PROVE  FALSE
    BY <1>0, <1>1 DEF Becomes
  <1>2. ASSUME NEW w \in Workers, StartCooldown(w) PROVE FALSE
    BY <1>1, <1>2, UpdatedHug DEF StartCooldown, AfterHugUpdate, Becomes
  <1>3. CommitExpired => FALSE
    BY <1>0, ExpiringPending DEF CommitExpired
  <1>4. PICK w \in Workers : InsertHug(w)
    BY <1>1, <1>2, <1>3, HugsChange
  <1>5. PICK g \in HugIds : hugs' = [hugs EXCEPT ![g] =
          [status |-> "pending", giver |-> req[w].user,
           receiver |-> req[w].other, created |-> req[w].began]]
    BY <1>4 DEF InsertHug
  <1>6. g = h
    BY <1>0, <1>5
  <1>7. QED BY <1>0, <1>4, <1>5, <1>6

LEMMA OutgoingShrinks ==
  ASSUME Inv, [Next]_vars, NEW u,
         \A w \in Workers : InsertHug(w) => req[w].user # u
  PROVE  Outgoing(u, now)' \subseteq Outgoing(u, now)
  <1> SUFFICES ASSUME NEW h \in HugIds, Live(h, now)', hugs'[h].giver = u
               PROVE  Live(h, now) /\ hugs[h].giver = u
    BY DEF Outgoing
  <1>1. hugs'[h] # NoHug
    BY DEF Live, NoHug
  <1>2. QED BY <1>1, LiveStays, RowIsInserted

LEMMA PendingShrinks ==
  ASSUME Inv, [Next]_vars, NEW u, NEW v,
         \A w \in Workers : InsertHug(w) => req[w].user # u \/ req[w].other # v
  PROVE  PendingBetween(u, v, now)' \subseteq PendingBetween(u, v, now)
  <1> SUFFICES ASSUME NEW h \in HugIds, Live(h, now)', hugs'[h].giver = u,
                      hugs'[h].receiver = v
               PROVE  Live(h, now) /\ hugs[h].giver = u /\ hugs[h].receiver = v
    BY DEF PendingBetween, Outgoing
  <1>1. hugs'[h] # NoHug
    BY DEF Live, NoHug
  <1>2. QED BY <1>1, LiveStays, RowIsInserted

LEMMA OutgoingFinite ==
  ASSUME NEW u, NEW t
  PROVE  IsFiniteSet(Outgoing(u, t)) /\ Cardinality(Outgoing(u, t)) \in Nat
  BY IdAssumption, FS_Subset, FS_CardinalityType DEF Outgoing

\* What a suggestion relies on after its checks.
Checked == {"checkCooldown", "insertHug"}
Counted == Checked \cup {"getUserSlots"}

\* How a request gets there.
LEMMA CountedStep ==
  ASSUME Inv, [Next]_vars, NEW w \in Workers, req'[w].pc \in Counted
  PROVE  \/ req'[w] = req[w] /\ ~InsertHug(w)
         \/ CheckSuggestEligibility(w) \/ GetUserSlots(w) \/ CheckCooldown(w)
  <1> USE DEF tables
  <1>0. req \in [Workers -> Requests]
    BY DEF Inv, TypeOK, RequestsOK
  <1>1. Idle.pc \notin Counted
    BY DEF Idle, Counted, Checked
  <1>2. ASSUME NEW x \in Workers, NEW r, req' = [req EXCEPT ![x] = r],
               r.pc \notin Counted
        PROVE  x # w /\ req'[w] = req[w]
    BY <1>0, <1>2
  <1>3. ASSUME NEW x \in Workers, NEW code, Finish(x, code)
        PROVE  x # w /\ req'[w] = req[w]
    BY <1>1, <1>2, <1>3 DEF Finish
  <1>4. ASSUME NEW x \in Workers, NEW pc, Goto(x, pc), pc \notin Counted
        PROVE  x # w /\ req'[w] = req[w]
    <2>1. req' = [req EXCEPT ![x] = [req[x] EXCEPT !.pc = pc]]
      BY <1>0, <1>4 DEF Goto
    <2>2. [req[x] EXCEPT !.pc = pc].pc = pc
      BY <1>0 DEF Requests
    <2>3. QED BY <1>2, <1>4, <2>1, <2>2
  <1>5. ASSUME InsertHug(w) PROVE FALSE
    BY <1>0, <1>1, <1>5 DEF InsertHug
  <1>6. CASE UNCHANGED req
    BY <1>5, <1>6
  <1>7. ASSUME NEW x \in Workers, Arrival(x) PROVE req'[w] = req[w]
    <2> USE DEF Arrive, Request, Transaction, Idle, Counted, Checked
    <2>1. ASSUME NEW u \in Users, NEW v \in Users,
                 \/ SuggestHug(x, u, v) \/ UpgradeCooldown(x, u, v)
                 \/ BuyHugSlot(x, u)
          PROVE  req'[w] = req[w]
      BY <1>2, <2>1 DEF SuggestHug, UpgradeCooldown, BuyHugSlot
    <2>2. ASSUME NEW u \in Users, NEW h \in KnownHugs,
                 \/ AcceptHug(x, u, h) \/ DeclineHug(x, u, h)
                 \/ CancelHug(x, u, h)
          PROVE  req'[w] = req[w]
      BY <1>2, <2>2 DEF AcceptHug, DeclineHug, CancelHug
    <2>3. ASSUME NEW u \in Users, SuggestHugToSelf(x, u) PROVE UNCHANGED req
      BY <2>3 DEF SuggestHugToSelf
    <2>4. QED BY <1>7, <2>1, <2>2, <2>3 DEF Arrival
  <1>8. ASSUME NEW x \in Workers, Fail(x) PROVE req'[w] = req[w]
    BY <1>3, <1>8 DEF Fail
  <1>9. ASSUME NEW x \in Workers, x # w, Step(x) PROVE req'[w] = req[w]
    <2>1. CASE \/ CheckSuggestEligibility(x) \/ GetUserSlots(x) \/ ReadSlots(x)
               \/ InsertHug(x)
      BY <1>0, <1>9, <2>1 DEF CheckSuggestEligibility, GetUserSlots, ReadSlots,
         InsertHug, Finish
    <2>2. CASE ~(\/ CheckSuggestEligibility(x) \/ GetUserSlots(x) \/ ReadSlots(x)
                 \/ InsertHug(x))
      <3>1. (\E code : Finish(x, code)) \/ (\E pc : Goto(x, pc))
        BY <1>9, <2>2 DEF Step, IsBlockedByEither, CheckCooldown, UpdateHug,
           UpdateCancelledHug, GetHugByID, PayGiver, PayReceiver, AddBalance,
           StartCooldown, SetDeclineCooldown, DeductBalance, GetCooldown,
           ReduceCooldown, IncrementSlots, AbortDeadlocked
      <3>2. QED BY <1>0, <1>9, <3>1 DEF Finish, Goto
    <2>3. QED BY <2>1, <2>2
  <1>10. ASSUME Step(w)
         PROVE  CheckSuggestEligibility(w) \/ GetUserSlots(w) \/ CheckCooldown(w)
    <2>1. CASE ReadSlots(w)
      <3>1. PICK r : r = [req[w] EXCEPT !.pc = "paySlot",
                                        !.count = slots[req[w].user]]
        OBVIOUS
      <3>2. r.pc = "paySlot"
        BY <1>0, <3>1 DEF Requests
      <3>3. req' = [req EXCEPT ![w] = r] \/ Finish(w, "MAX_SLOTS_REACHED")
        BY <1>0, <2>1, <3>1 DEF ReadSlots
      <3>4. QED BY <1>2, <1>3, <3>2, <3>3 DEF Counted, Checked
    <2>2. CASE ~ReadSlots(w) /\ ~CheckSuggestEligibility(w) /\ ~GetUserSlots(w)
               /\ ~CheckCooldown(w)
      <3>1. \/ \E code : Finish(w, code)
            \/ \E pc : Goto(w, pc) /\ pc \notin Counted
        BY <1>5, <1>10, <2>2 DEF Step, IsBlockedByEither, UpdateHug,
           UpdateCancelledHug, GetHugByID, PayGiver, PayReceiver, AddBalance,
           StartCooldown, SetDeclineCooldown, DeductBalance, GetCooldown,
           ReduceCooldown, IncrementSlots, AbortDeadlocked, Counted, Checked
      <3>2. QED BY <1>3, <1>4, <3>1
    <2>3. QED BY <2>1, <2>2
  <1>11. CASE \/ Tick \/ UNCHANGED vars \/ CommitExpired \/ ExpiryFails
              \/ \E a, b \in Users : BlockUser(a, b) \/ UnblockUser(a, b)
              \/ \E a \in Users, n \in BodyAmounts : AdminSetBalance(a, n)
              \/ \E h \in HugIds : ExpirePendingHug(h)
    BY <1>6, <1>11 DEF Tick, vars, BlockUser, UnblockUser, CommitExpired,
       ExpiryFails, AdminSetBalance, ExpirePendingHug
  <1>12. QED BY <1>5, <1>7, <1>8, <1>9, <1>10, <1>11 DEF Next

\* What such a step leaves in the request.
LEMMA CountedRequest ==
  ASSUME Inv, [Next]_vars, NEW w \in Workers, req'[w].pc \in Counted,
         ~(req'[w] = req[w] /\ ~InsertHug(w))
  PROVE  /\ UNCHANGED <<now, hugs, cooldown, slots>>
         /\ req'[w].user = req[w].user /\ req'[w].other = req[w].other
         /\ \/ /\ req'[w].pc = "getUserSlots"
               /\ req'[w].count = Cardinality(Outgoing(req[w].user, now))
               /\ req'[w].pair =
                    (PendingBetween(req[w].user, req[w].other, now) # {})
               /\ req'[w].reverse =
                    (PendingBetween(req[w].other, req[w].user, now) # {})
            \/ /\ req'[w].pc = "checkCooldown" /\ req[w].pc = "getUserSlots"
               /\ ~NoFreeSlot(req[w]) /\ ~req[w].pair /\ ~req[w].reverse
            \/ /\ req'[w].pc = "insertHug" /\ req[w].pc = "checkCooldown"
               /\ ~DeclineActive({req[w].user, req[w].other})
               /\ ~CooldownActive({req[w].user, req[w].other})
  <1> USE DEF tables
  <1>0. req \in [Workers -> Requests] /\ req[w] \in Requests
    BY DEF Inv, TypeOK, RequestsOK
  <1>1. CASE CheckSuggestEligibility(w)
    <2>1. PICK r : r = [req[w] EXCEPT !.pc = "getUserSlots",
                   !.began = now,
                   !.count = Cardinality(Outgoing(req[w].user, now)),
                   !.pair = PendingBetween(req[w].user, req[w].other, now) # {},
                   !.reverse = PendingBetween(req[w].other, req[w].user, now) # {}]
      OBVIOUS
    <2>2. req'[w] = r /\ UNCHANGED <<now, hugs, cooldown, slots>>
      BY <1>0, <1>1, <2>1 DEF CheckSuggestEligibility
    <2>3. /\ r.pc = "getUserSlots" /\ r.user = req[w].user
          /\ r.other = req[w].other
          /\ r.count = Cardinality(Outgoing(req[w].user, now))
          /\ r.pair = (PendingBetween(req[w].user, req[w].other, now) # {})
          /\ r.reverse = (PendingBetween(req[w].other, req[w].user, now) # {})
      BY <1>0, <2>1 DEF Requests
    <2>4. QED BY <2>2, <2>3
  <1>2. CASE GetUserSlots(w)
    <2>1. \A code : ~Finish(w, code)
      BY <1>0 DEF Finish, Idle, Counted, Checked
    <2>2. PICK r : r = [Request("checkCooldown", req[w].user, req[w].other, NoOne)
                          EXCEPT !.began = req[w].began]
      OBVIOUS
    <2>3. /\ req'[w] = r /\ UNCHANGED <<now, hugs, cooldown, slots>>
          /\ req[w].pc = "getUserSlots" /\ ~NoFreeSlot(req[w]) /\ ~req[w].pair
          /\ ~req[w].reverse
      BY <1>0, <1>2, <2>1, <2>2 DEF GetUserSlots, ReversePending
    <2>4. r.pc = "checkCooldown" /\ r.user = req[w].user /\ r.other = req[w].other
      BY <2>2 DEF Request, Idle
    <2>5. QED BY <2>3, <2>4
  <1>3. CASE CheckCooldown(w)
    <2>1. \A code : ~Finish(w, code)
      BY <1>0 DEF Finish, Idle, Counted, Checked
    <2>2. PICK r : r = [req[w] EXCEPT !.pc = "insertHug"]
      OBVIOUS
    <2>3. /\ req'[w] = r /\ UNCHANGED <<now, hugs, cooldown, slots>>
          /\ req[w].pc = "checkCooldown"
          /\ ~DeclineActive({req[w].user, req[w].other})
          /\ ~CooldownActive({req[w].user, req[w].other})
      BY <1>0, <1>3, <2>1, <2>2 DEF CheckCooldown, Goto
    <2>4. r.pc = "insertHug" /\ r.user = req[w].user /\ r.other = req[w].other
      BY <1>0, <2>2 DEF Requests
    <2>5. QED BY <2>3, <2>4
  <1>4. QED BY <1>1, <1>2, <1>3, CountedStep

\* While one suggestion goes on, no other of its user (its pair) inserts.
LEMMA NoRivalInserts ==
  ASSUME Inv, NEW w \in Workers, req[w].pc \in Counted, ~InsertHug(w)
  PROVE  \A x \in Workers : InsertHug(x) =>
           /\ UsersApart => req[x].user # req[w].user
           /\ PairsApart =>
                {req[x].user, req[x].other} # {req[w].user, req[w].other}
  BY DEF InsertHug, UsersApart, PairsApart, Suggesting, SuggestSteps, Counted,
     Checked

-----------------------------------------------------------------------------
(* Slots *)

\* The count a suggestion was let through by is not too low any more.
CountHolds(r) ==
  /\ r.pc = "getUserSlots" => Cardinality(Outgoing(r.user, now)) <= r.count
  /\ r.pc \in Checked => Cardinality(Outgoing(r.user, now)) < slots[r.user]

CountsHold == \A w \in Workers : CountHolds(req[w])

LEMMA NextKeepsCounts ==
  ASSUME Inv, UsersApart, CountsHold, [Next]_vars
  PROVE  CountsHold'
  <1> SUFFICES ASSUME NEW w \in Workers, req'[w].pc \in Counted
               PROVE  CountHolds(req[w])'
    BY DEF CountsHold, CountHolds, Counted, Checked
  <1>0. /\ req[w] \in Requests /\ FieldsFit(req[w]) /\ CountHolds(req[w])
    BY DEF Inv, TypeOK, RequestsOK, CountsHold
  <1>1. CASE req'[w] = req[w] /\ ~InsertHug(w)
    <2>1. PICK u : u = req[w].user
      OBVIOUS
    <2>2. u \in Users
      BY <1>0, <1>1, <2>1 DEF FieldsFit, Counted, Checked
    <2>3. Outgoing(u, now)' \subseteq Outgoing(u, now)
      BY <1>1, <2>1, NoRivalInserts, OutgoingShrinks
    <2>4. /\ Cardinality(Outgoing(u, now))' <= Cardinality(Outgoing(u, now))
          /\ Cardinality(Outgoing(u, now)) \in Nat
          /\ Cardinality(Outgoing(u, now))' \in Nat
      BY <2>3, OutgoingFinite, FS_Subset, FS_CardinalityType
    <2>5. slots[u] \in Nat /\ slots'[u] \in Nat /\ slots'[u] >= slots[u]
      BY <2>2, SlotsGrow
    <2>6. req[w].count \in Nat
      BY <1>0 DEF Requests
    <2>7. QED BY <1>0, <1>1, <2>1, <2>4, <2>5, <2>6 DEF CountHolds
  <1>2. CASE ~(req'[w] = req[w] /\ ~InsertHug(w))
    <2>1. PICK u : u = req[w].user
      OBVIOUS
    <2>2. /\ UNCHANGED <<now, hugs, slots>> /\ req'[w].user = u
      BY <1>2, <2>1, CountedRequest
    <2>3. Outgoing(u, now)' = Outgoing(u, now)
      BY <2>2 DEF Outgoing, Live
    <2>4. Cardinality(Outgoing(u, now)) \in Nat
      BY OutgoingFinite
    <2>5. CASE req'[w].pc = "getUserSlots"
      <3>1. req'[w].count = Cardinality(Outgoing(u, now))
        BY <1>2, <2>1, <2>5, CountedRequest
      <3>2. QED BY <2>2, <2>3, <2>4, <2>5, <3>1 DEF CountHolds, Checked
    <2>6. CASE req'[w].pc = "checkCooldown"
      <3>1. req[w].pc = "getUserSlots" /\ ~NoFreeSlot(req[w])
        BY <1>2, <2>6, CountedRequest
      <3>2. u \in Users /\ req[w].count \in Nat
        BY <1>0, <2>1, <3>1 DEF FieldsFit, Requests
      <3>3. slots[u] \in Nat
        BY <3>2, SlotsGrow
      <3>4. Cardinality(Outgoing(u, now)) < slots[u]
        BY <1>0, <2>1, <2>4, <3>1, <3>2, <3>3 DEF CountHolds, NoFreeSlot
      <3>5. QED BY <2>2, <2>3, <2>6, <3>4 DEF CountHolds
    <2>7. CASE req'[w].pc = "insertHug"
      <3>1. req[w].pc = "checkCooldown"
        BY <1>2, <2>7, CountedRequest
      <3>2. Cardinality(Outgoing(u, now)) < slots[u]
        BY <1>0, <2>1, <3>1 DEF CountHolds, Checked
      <3>3. QED BY <2>2, <2>3, <2>7, <3>2 DEF CountHolds
    <2>8. QED BY <2>5, <2>6, <2>7 DEF Counted, Checked
  <1>3. QED BY <1>1, <1>2

LEMMA NextKeepsSlots ==
  ASSUME Inv, CountsHold, WithinSlots, [Next]_vars
  PROVE  WithinSlots'
  <1> SUFFICES ASSUME NEW u \in Users
               PROVE  Cardinality(Outgoing(u, now)') <= slots'[u]
    BY DEF WithinSlots
  <1>1. slots[u] \in Nat /\ slots'[u] \in Nat /\ slots'[u] >= slots[u]
    BY SlotsGrow
  <1>2. IsFiniteSet(Outgoing(u, now)) /\ Cardinality(Outgoing(u, now)) \in Nat
        /\ Cardinality(Outgoing(u, now)) <= slots[u]
    BY OutgoingFinite DEF WithinSlots
  <1>3. CASE \A w \in Workers : InsertHug(w) => req[w].user # u
    <2>1. Outgoing(u, now)' \subseteq Outgoing(u, now)
      BY <1>3, OutgoingShrinks
    <2>2. Cardinality(Outgoing(u, now)') <= Cardinality(Outgoing(u, now))
      BY <1>2, <2>1, FS_Subset
    <2>3. Cardinality(Outgoing(u, now)') \in Nat
      BY <1>2, <2>1, FS_Subset, FS_CardinalityType
    <2>4. QED BY <1>1, <1>2, <2>2, <2>3
  <1>4. ASSUME NEW w \in Workers, InsertHug(w), req[w].user = u
        PROVE  Cardinality(Outgoing(u, now)') <= slots'[u]
    <2>1. Cardinality(Outgoing(u, now)) < slots[u]
      BY <1>4 DEF CountsHold, CountHolds, InsertHug, Checked
    <2>2. PICK h \in HugIds : \A g \in HugIds : g # h => hugs'[g] = hugs[g]
      BY <1>4 DEF InsertHug, Inv, TypeOK
    <2>3. UNCHANGED now
      BY <1>4 DEF InsertHug
    <2>4. Outgoing(u, now)' \subseteq Outgoing(u, now) \cup {h}
      BY <2>2, <2>3 DEF Outgoing, Live
    <2>5. /\ IsFiniteSet(Outgoing(u, now) \cup {h})
          /\ Cardinality(Outgoing(u, now) \cup {h}) <=
               Cardinality(Outgoing(u, now)) + 1
      <3>1. PICK S : S = Outgoing(u, now)
        OBVIOUS
      <3>2. /\ IsFiniteSet(S \cup {h})
            /\ Cardinality(S \cup {h}) = IF h \in S THEN Cardinality(S)
                                         ELSE Cardinality(S) + 1
        BY <1>2, <3>1, FS_AddElement
      <3>3. QED BY <1>2, <3>1, <3>2
    <2>6. /\ Cardinality(Outgoing(u, now)') <= Cardinality(Outgoing(u, now) \cup {h})
          /\ Cardinality(Outgoing(u, now)') \in Nat
          /\ Cardinality(Outgoing(u, now) \cup {h}) \in Nat
      BY <2>4, <2>5, FS_Subset, FS_CardinalityType
    <2>7. QED BY <1>1, <1>2, <2>1, <2>5, <2>6
  <1>5. QED BY <1>3, <1>4

\* As long as no user has two suggestions in progress, nobody gets more live
\* suggestions than slots, whatever else runs next to them: accepts, declines,
\* cancels, purchases of slots and the expiry job.
THEOREM SlotsAreKept == Spec /\ []UsersApart => []WithinSlots
  <1>1. Init => CountsHold /\ WithinSlots
    <2> SUFFICES ASSUME Init
                 PROVE  CountsHold /\ WithinSlots
      OBVIOUS
    <2>1. CountsHold
      BY DEF Init, CountsHold, CountHolds, Idle, Checked
    <2>2. ASSUME NEW u \in Users PROVE Outgoing(u, now) = {}
      BY DEF Init, Outgoing, Live, NoHug
    <2>3. QED BY <2>1, <2>2, FS_EmptySet DEF Init, WithinSlots
  <1>2. Inv /\ UsersApart /\ CountsHold /\ WithinSlots /\ [Next]_vars
          => CountsHold' /\ WithinSlots'
    BY NextKeepsCounts, NextKeepsSlots
  <1>3. QED BY <1>1, <1>2, InvHolds, PTL DEF Spec

-----------------------------------------------------------------------------
(* Pairs *)

\* A pair a suggestion found without a live one is still without one.
PairIsFree(r) ==
  /\ r.pc = "getUserSlots" =>
       /\ ~r.pair => PendingBetween(r.user, r.other, now) = {}
       /\ ~r.reverse => PendingBetween(r.other, r.user, now) = {}
  /\ r.pc \in Checked =>
       /\ PendingBetween(r.user, r.other, now) = {}
       /\ PendingBetween(r.other, r.user, now) = {}

PairsAreFree == \A w \in Workers : PairIsFree(req[w])

LEMMA NextKeepsFree ==
  ASSUME Inv, PairsApart, PairsAreFree, [Next]_vars
  PROVE  PairsAreFree'
  <1> SUFFICES ASSUME NEW w \in Workers, req'[w].pc \in Counted
               PROVE  PairIsFree(req[w])'
    BY DEF PairsAreFree, PairIsFree, Counted, Checked
  <1>0. PICK u, v : u = req[w].user /\ v = req[w].other
    OBVIOUS
  <1>1. CASE req'[w] = req[w] /\ ~InsertHug(w)
    <2>1. ASSUME NEW x \in Workers, InsertHug(x)
          PROVE  {req[x].user, req[x].other} # {u, v}
      BY <1>0, <1>1, <2>1, NoRivalInserts
    <2>2. /\ PendingBetween(u, v, now)' \subseteq PendingBetween(u, v, now)
          /\ PendingBetween(v, u, now)' \subseteq PendingBetween(v, u, now)
      BY <2>1, PendingShrinks
    <2>3. QED BY <1>0, <1>1, <2>2 DEF PairsAreFree, PairIsFree
  <1>2. CASE ~(req'[w] = req[w] /\ ~InsertHug(w))
    <2>1. UNCHANGED <<now, hugs>> /\ req'[w].user = u /\ req'[w].other = v
      BY <1>0, <1>2, CountedRequest
    <2>2. /\ PendingBetween(u, v, now)' = PendingBetween(u, v, now)
          /\ PendingBetween(v, u, now)' = PendingBetween(v, u, now)
      BY <2>1 DEF PendingBetween, Outgoing, Live
    <2>3. PairIsFree(req[w])
      BY DEF PairsAreFree
    <2>4. CASE req'[w].pc = "getUserSlots"
      <3>1. /\ req'[w].pair = (PendingBetween(u, v, now) # {})
            /\ req'[w].reverse = (PendingBetween(v, u, now) # {})
        BY <1>0, <1>2, <2>4, CountedRequest
      <3>2. QED BY <2>1, <2>2, <2>4, <3>1 DEF PairIsFree, Checked
    <2>5. CASE req'[w].pc = "checkCooldown"
      <3>1. req[w].pc = "getUserSlots" /\ ~req[w].pair /\ ~req[w].reverse
        BY <1>2, <2>5, CountedRequest
      <3>2. QED BY <1>0, <2>1, <2>2, <2>3, <2>5, <3>1 DEF PairIsFree
    <2>6. CASE req'[w].pc = "insertHug"
      <3>1. req[w].pc = "checkCooldown"
        BY <1>2, <2>6, CountedRequest
      <3>2. QED BY <1>0, <2>1, <2>2, <2>3, <2>6, <3>1 DEF PairIsFree, Checked
    <2>7. QED BY <2>4, <2>5, <2>6 DEF Counted, Checked
  <1>3. QED BY <1>1, <1>2

LEMMA NextKeepsOnePending ==
  ASSUME Inv, PairsAreFree, OnePendingPerPair, [Next]_vars
  PROVE  OnePendingPerPair'
  <1> SUFFICES ASSUME NEW u \in Users, NEW v \in Users
               PROVE  Cardinality(PendingBetween(u, v, now)'
                                  \cup PendingBetween(v, u, now)') <= 1
    BY DEF OnePendingPerPair
  <1> DEFINE S == PendingBetween(u, v, now) \cup PendingBetween(v, u, now)
             T == PendingBetween(u, v, now)' \cup PendingBetween(v, u, now)'
  <1>1. /\ IsFiniteSet(S) /\ Cardinality(S) \in Nat /\ Cardinality(S) <= 1
    <2>1. S \subseteq HugIds
      BY DEF PendingBetween, Outgoing
    <2>2. IsFiniteSet(S) /\ Cardinality(S) \in Nat
      BY <2>1, IdAssumption, FS_Subset, FS_CardinalityType
    <2>3. QED BY <2>2 DEF OnePendingPerPair
  <1>2. CASE \A w \in Workers : InsertHug(w) => {req[w].user, req[w].other} # {u, v}
    <2>1. T \subseteq S
      BY <1>2, PendingShrinks
    <2> HIDE DEF S, T
    <2>2. Cardinality(T) <= Cardinality(S) /\ Cardinality(T) \in Nat
      BY <1>1, <2>1, FS_Subset, FS_CardinalityType
    <2>3. Cardinality(T) <= 1
      BY <1>1, <2>2
    <2>4. QED BY <2>3 DEF T
  <1>3. ASSUME NEW w \in Workers, InsertHug(w), {req[w].user, req[w].other} = {u, v}
        PROVE  Cardinality(T) <= 1
    <2>1. S = {}
      <3>1. /\ PendingBetween(req[w].user, req[w].other, now) = {}
            /\ PendingBetween(req[w].other, req[w].user, now) = {}
        BY <1>3 DEF PairsAreFree, PairIsFree, InsertHug, Checked
      <3>2. QED BY <1>3, <3>1
    <2>2. PICK h \in HugIds : \A g \in HugIds : g # h => hugs'[g] = hugs[g]
      BY <1>3 DEF InsertHug, Inv, TypeOK
    <2>3. UNCHANGED now
      BY <1>3 DEF InsertHug
    <2>4. T \subseteq S \cup {h}
      BY <2>2, <2>3 DEF PendingBetween, Outgoing, Live
    <2>5. T \subseteq {h}
      BY <2>1, <2>4
    <2> HIDE DEF T
    <2>6. Cardinality(T) <= Cardinality({h}) /\ Cardinality({h}) = 1
      BY <2>5, FS_Singleton, FS_Subset
    <2>7. QED BY <2>6
  <1>4. QED BY <1>2, <1>3

\* As long as no pair has two suggestions in progress, no pair gets two live
\* ones, in whichever direction and whatever else runs next to them.
THEOREM PairsAreKept == Spec /\ []PairsApart => []OnePendingPerPair
  <1>1. Init => PairsAreFree /\ OnePendingPerPair
    <2> SUFFICES ASSUME Init
                 PROVE  PairsAreFree /\ OnePendingPerPair
      OBVIOUS
    <2>1. PairsAreFree
      BY DEF Init, PairsAreFree, PairIsFree, Idle, Checked
    <2>2. ASSUME NEW u \in Users, NEW v \in Users
          PROVE  PendingBetween(u, v, now) \cup PendingBetween(v, u, now) = {}
      BY DEF Init, PendingBetween, Outgoing, Live, NoHug
    <2>3. QED BY <2>1, <2>2, FS_EmptySet DEF OnePendingPerPair
  <1>2. Inv /\ PairsApart /\ PairsAreFree /\ OnePendingPerPair /\ [Next]_vars
          => PairsAreFree' /\ OnePendingPerPair'
    BY NextKeepsFree, NextKeepsOnePending
  <1>3. QED BY <1>1, <1>2, InvHolds, PTL DEF Spec

-----------------------------------------------------------------------------
(* Cooldowns of suggestions *)

\* The pair whose cooldown the next statement of x commits.
CommitsCooldownOf(x) ==
  CASE req[x].pc \in {"startCooldown", "setDeclineCooldown"} ->
         Parties(req[x].hug)
    [] req[x].pc \in {"createCooldown", "reduceCooldown"} ->
         {req[x].user, req[x].other}
    [] OTHER -> {}

\* Nobody commits a cooldown of a pair between the check and the insert of a
\* suggestion of the pair.
AnswersApart ==
  \A w, x \in Workers :
    req[w].pc = "insertHug" => CommitsCooldownOf(x) # {req[w].user, req[w].other}

LEMMA OtherCooldownsStay ==
  ASSUME Inv, [Next]_vars, NEW p \in Pairs,
         \A x \in Workers : CommitsCooldownOf(x) # p
  PROVE  cooldown'[p] = cooldown[p]
  <1> USE DEF tables
  <1>0. cooldown \in [Pairs -> Cooldown]
    BY DEF Inv, TypeOK
  <1>1. ASSUME NEW q, q # p, NEW row, cooldown' = [cooldown EXCEPT ![q] = row]
        PROVE  cooldown'[p] = cooldown[p]
    BY <1>0, <1>1
  <1>2. ASSUME NEW x \in Workers, StartCooldown(x) \/ SetDeclineCooldown(x)
        PROVE  cooldown'[p] = cooldown[p]
    <2>1. PICK q : q = Parties(req[x].hug)
      OBVIOUS
    <2>2. q # p
      BY <1>2, <2>1 DEF CommitsCooldownOf, StartCooldown, SetDeclineCooldown
    <2>3. \E row : cooldown' = [cooldown EXCEPT ![q] = row]
      BY <1>2, <2>1 DEF StartCooldown, SetDeclineCooldown
    <2>4. QED BY <1>1, <2>2, <2>3
  <1>3. ASSUME NEW x \in Workers, ReduceCooldown(x)
        PROVE  cooldown'[p] = cooldown[p]
    <2>1. PICK q : q = {req[x].user, req[x].other}
      OBVIOUS
    <2>2. q # p
      BY <1>3, <2>1 DEF CommitsCooldownOf, ReduceCooldown
    <2>3. \E row : cooldown' = [cooldown EXCEPT ![q] = row]
      BY <1>3, <2>1 DEF ReduceCooldown
    <2>4. QED BY <1>1, <2>2, <2>3
  <1>4. ASSUME NEW x \in Workers, Arrival(x) \/ Fail(x) PROVE UNCHANGED cooldown
    BY <1>4 DEF Arrival, SuggestHugToSelf, SuggestHug, UpgradeCooldown,
       AcceptHug, DeclineHug, CancelHug, BuyHugSlot, Arrive, Fail
  <1>5. ASSUME NEW x \in Workers, Step(x), ~StartCooldown(x),
               ~SetDeclineCooldown(x), ~ReduceCooldown(x)
        PROVE  UNCHANGED cooldown
    BY <1>5 DEF Step, IsBlockedByEither, CheckSuggestEligibility, GetUserSlots,
       CheckCooldown, InsertHug, UpdateHug, UpdateCancelledHug, GetHugByID,
       PayGiver, PayReceiver, AddBalance, DeductBalance, GetCooldown, ReadSlots,
       IncrementSlots, AbortDeadlocked
  <1>6. CASE \/ Tick \/ UNCHANGED vars \/ CommitExpired \/ ExpiryFails
             \/ \E a, b \in Users : BlockUser(a, b) \/ UnblockUser(a, b)
             \/ \E a \in Users, n \in BodyAmounts : AdminSetBalance(a, n)
             \/ \E h \in HugIds : ExpirePendingHug(h)
    BY <1>6 DEF Tick, vars, BlockUser, UnblockUser, CommitExpired, ExpiryFails,
       AdminSetBalance, ExpirePendingHug
  <1>7. QED BY <1>2, <1>3, <1>4, <1>5, <1>6 DEF Next

\* A cooldown that is over stays over.
LEMMA OverStaysOver ==
  ASSUME Inv, [Next]_vars, NEW p \in Pairs, cooldown'[p] = cooldown[p],
         ~DeclineActive(p), ~CooldownActive(p)
  PROVE  ~DeclineActive(p)' /\ ~CooldownActive(p)'
  <1>1. cooldown[p] \in Cooldown
    BY DEF Inv, TypeOK
  <1>2. PICK row : row = cooldown[p]
    OBVIOUS
  <1>3. /\ row.declineUntil \in Int /\ row.lastHug \in Int /\ row.seconds \in Int
    BY <1>1, <1>2, AmountAssumption DEF Cooldown, Times, LongAgo
  <1>4. /\ ~(row.declineUntil > now) /\ ~(now - row.lastHug < row.seconds)
    BY <1>2 DEF DeclineActive, CooldownActive
  <1>5. ~(row.declineUntil > now') /\ ~(now' - row.lastHug < row.seconds)
    BY <1>3, <1>4, TimeGoesOn
  <1>6. QED BY <1>2, <1>5 DEF DeclineActive, CooldownActive

\* The cooldown a suggestion has checked is still over.
CooldownChecked ==
  \A w \in Workers : req[w].pc = "insertHug" =>
    /\ ~DeclineActive({req[w].user, req[w].other})
    /\ ~CooldownActive({req[w].user, req[w].other})

LEMMA NextKeepsChecked ==
  ASSUME Inv, AnswersApart, CooldownChecked, [Next]_vars
  PROVE  CooldownChecked'
  <1> SUFFICES ASSUME NEW w \in Workers, req'[w].pc = "insertHug",
                      NEW p, p = {req'[w].user, req'[w].other}
               PROVE  ~DeclineActive(p)' /\ ~CooldownActive(p)'
    BY DEF CooldownChecked, DeclineActive, CooldownActive
  <1>1. CASE req'[w] = req[w] /\ ~InsertHug(w)
    <2>1. p \in Pairs
      BY <1>1 DEF Inv, TypeOK, RequestsOK, FieldsFit, SuggestSteps, Pairs
    <2>2. cooldown'[p] = cooldown[p]
      BY <1>1, <2>1, OtherCooldownsStay DEF AnswersApart
    <2>3. ~DeclineActive(p) /\ ~CooldownActive(p)
      BY <1>1 DEF CooldownChecked
    <2>4. QED BY <2>1, <2>2, <2>3, OverStaysOver
  <1>2. CASE ~(req'[w] = req[w] /\ ~InsertHug(w))
    <2>1. /\ UNCHANGED <<now, cooldown>>
          /\ ~DeclineActive(p) /\ ~CooldownActive(p)
      BY <1>2, CountedRequest DEF Counted, Checked
    <2>2. QED BY <2>1 DEF DeclineActive, CooldownActive
  <1>3. QED BY <1>1, <1>2

\* Only an insert answers that the hug is suggested.
LEMMA InsertAnswers ==
  ASSUME Inv, [Next]_vars, reply'.code = "HUG_SUGGESTED"
  PROVE  UNCHANGED vars \/ \E w \in Workers : InsertHug(w)
  <1> USE DEF NoReply, Finish, Goto
  <1>1. ASSUME NEW w \in Workers, Arrival(w) \/ Fail(w) PROVE FALSE
    BY <1>1 DEF Arrival, SuggestHugToSelf, SuggestHug, UpgradeCooldown,
       AcceptHug, DeclineHug, CancelHug, BuyHugSlot, Arrive, Fail
  <1>2. ASSUME NEW w \in Workers, Step(w), ~InsertHug(w) PROVE FALSE
    <2>1. CASE \/ IsBlockedByEither(w) \/ CheckSuggestEligibility(w)
               \/ GetUserSlots(w) \/ CheckCooldown(w)
      BY <2>1 DEF IsBlockedByEither, CheckSuggestEligibility, GetUserSlots,
         CheckCooldown
    <2>2. CASE \/ UpdateHug(w) \/ UpdateCancelledHug(w) \/ GetHugByID(w)
      BY <2>2 DEF UpdateHug, UpdateCancelledHug, GetHugByID
    <2>3. CASE \/ PayGiver(w) \/ PayReceiver(w) \/ StartCooldown(w)
               \/ SetDeclineCooldown(w)
      BY <2>3 DEF PayGiver, PayReceiver, AddBalance, StartCooldown,
         SetDeclineCooldown
    <2>4. CASE \/ DeductBalance(w) \/ GetCooldown(w) \/ ReduceCooldown(w)
               \/ ReadSlots(w) \/ IncrementSlots(w) \/ AbortDeadlocked(w)
      BY <2>4 DEF DeductBalance, GetCooldown, ReduceCooldown, ReadSlots,
         IncrementSlots, AbortDeadlocked
    <2>5. QED BY <1>2, <2>1, <2>2, <2>3, <2>4 DEF Step
  <1>3. ASSUME \/ Tick \/ CommitExpired \/ ExpiryFails
               \/ \E a, b \in Users : BlockUser(a, b) \/ UnblockUser(a, b)
               \/ \E a \in Users, n \in BodyAmounts : AdminSetBalance(a, n)
               \/ \E h \in HugIds : ExpirePendingHug(h)
        PROVE  FALSE
    BY <1>3 DEF Tick, BlockUser, UnblockUser, CommitExpired, ExpiryFails,
       AdminSetBalance, ExpirePendingHug
  <1>4. QED BY <1>1, <1>2, <1>3 DEF Next

\* As long as no answer or upgrade of a pair commits between the check of a
\* suggestion and its insert, no hug is suggested while the pair cools down,
\* however long the request takes.
THEOREM CooldownsAreKept == Spec /\ []AnswersApart => []SuggestedAfterCooldown
  <1>1. Init => CooldownChecked /\ SuggestedAfterCooldown
    BY DEF Init, CooldownChecked, SuggestedAfterCooldown, Idle, NoReply
  <1>2. Inv /\ CooldownChecked /\ SuggestedAfterCooldown /\ [Next]_vars
          => SuggestedAfterCooldown'
    <2> SUFFICES ASSUME Inv, CooldownChecked, SuggestedAfterCooldown, [Next]_vars,
                        reply'.code = "HUG_SUGGESTED"
                 PROVE  SuggestedAfterCooldown'
      BY DEF SuggestedAfterCooldown
    <2>1. CASE UNCHANGED vars
      BY <2>1 DEF vars, SuggestedAfterCooldown, DeclineActive, CooldownActive,
         Parties
    <2>2. ASSUME NEW w \in Workers, InsertHug(w)
          PROVE  SuggestedAfterCooldown'
      <3>1. PICK h \in HugIds :
              /\ hugs' = [hugs EXCEPT ![h] =
                   [status |-> "pending", giver |-> req[w].user,
                    receiver |-> req[w].other, created |-> req[w].began]]
              /\ reply' = [code |-> "HUG_SUGGESTED", hug |-> h]
        BY <2>2 DEF InsertHug
      <3>2. PICK p : p = {req[w].user, req[w].other}
        OBVIOUS
      <3>3. {hugs'[h].giver, hugs'[h].receiver} = p
        BY <3>1, <3>2 DEF Inv, TypeOK
      <3>4. /\ ~DeclineActive(p) /\ ~CooldownActive(p) /\ UNCHANGED <<now, cooldown>>
        BY <2>2, <3>2 DEF CooldownChecked, InsertHug
      <3>5. QED
        BY <3>1, <3>3, <3>4 DEF SuggestedAfterCooldown, Parties, DeclineActive,
           CooldownActive
    <2>3. QED BY <2>1, <2>2, InsertAnswers
  <1>3. Inv /\ AnswersApart /\ CooldownChecked /\ [Next]_vars => CooldownChecked'
    BY NextKeepsChecked
  <1>4. QED BY <1>1, <1>2, <1>3, InvHolds, PTL DEF Spec

\* Where requests never overlap, nothing needs to be kept apart.
OneAtATime == \A w, x \in Workers : w = x

\* Served one at a time, the checks of SuggestHug keep all that the documents
\* promise of suggestions, whatever the users, hugs and times: every failure of
\* these promises needs two requests that overlap.
THEOREM SerialPromises ==
  ASSUME OneAtATime
  PROVE  Spec => [](WithinSlots /\ OnePendingPerPair /\ SuggestedAfterCooldown)
  <1>1. UsersApart
    BY DEF OneAtATime, UsersApart, Suggesting
  <1>2. PairsApart
    BY DEF OneAtATime, PairsApart, Suggesting
  <1>3. AnswersApart
    <2> SUFFICES ASSUME NEW w \in Workers, NEW x \in Workers,
                        req[w].pc = "insertHug"
                 PROVE  CommitsCooldownOf(x) # {req[w].user, req[w].other}
      BY DEF AnswersApart
    <2>1. CommitsCooldownOf(x) = {}
      BY DEF OneAtATime, CommitsCooldownOf
    <2>2. QED BY <2>1
  <1>4. Spec => [](UsersApart /\ PairsApart /\ AnswersApart)
    BY <1>1, <1>2, <1>3, PTL
  <1>5. QED
    BY <1>4, SlotsAreKept, PairsAreKept, CooldownsAreKept, PTL

=============================================================================
