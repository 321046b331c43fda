--------------------------- MODULE HugServiceProofs ---------------------------
(***************************************************************************)
(* Proofs about HugService: types, the soundness of uncommitted work, the  *)
(* finality of a hug's status and the accounting of coins, for any number  *)
(* of users, hugs and concurrent requests.                                 *)
(***************************************************************************)
EXTENDS HugService, FiniteSetTheorems, TLAPS

Inv == TypeOK /\ UncommittedWorkHolds

-----------------------------------------------------------------------------
(* Typing of requests *)

LEMMA IdleFits == Idle \in Requests /\ FieldsFit(Idle)
  BY IdAssumption, AmountAssumption DEF Idle, Requests, FieldsFit, SuggestSteps,
     AnswerSteps, AfterHugUpdate, UpgradeSteps, SlotSteps

\* Replacing one request by a well-formed one keeps all of them well-formed.
LEMMA OneRequestFits ==
  ASSUME TypeOK, NEW w \in Workers, NEW r \in Requests, FieldsFit(r),
         req' = [req EXCEPT ![w] = r]
  PROVE  RequestsOK'
  <1>1. req' \in [Workers -> Requests]
    BY DEF TypeOK, RequestsOK
  <1>2. ASSUME NEW x \in Workers PROVE FieldsFit(req'[x])
    <2>1. CASE x = w BY <2>1 DEF TypeOK, RequestsOK
    <2>2. CASE x # w BY <2>2 DEF TypeOK, RequestsOK
    <2>3. QED BY <2>1, <2>2
  <1>3. QED BY <1>1, <1>2 DEF RequestsOK, FieldsFit

LEMMA FinishFits ==
  ASSUME TypeOK, NEW w \in Workers, NEW code, Finish(w, code)
  PROVE  RequestsOK'
  BY IdleFits, OneRequestFits DEF Finish

LEMMA GotoFits ==
  ASSUME TypeOK, NEW w \in Workers, NEW pc, Goto(w, pc),
         [req[w] EXCEPT !.pc = pc] \in Requests,
         FieldsFit([req[w] EXCEPT !.pc = pc])
  PROVE  RequestsOK'
  <1>1. req' = [req EXCEPT ![w] = [req[w] EXCEPT !.pc = pc]]
    BY DEF Goto, TypeOK, RequestsOK
  <1>2. QED BY <1>1, OneRequestFits

-----------------------------------------------------------------------------
(* Arithmetic of prices and cooldowns *)

LEMMA SlotCostNat == ASSUME NEW n \in Nat PROVE SlotCost(n) \in Nat
  <1>1. SlotPrice \in Nat
    BY AmountAssumption
  <1>2. CASE n <= 1
    BY <1>2 DEF SlotCost
  <1>3. CASE ~(n <= 1)
    <2>1. n - 1 \in Nat
      BY <1>3
    <2>2. \A m, p \in Nat : m * p \in Nat
      OBVIOUS
    <2>3. (n - 1) * SlotPrice \in Nat
      BY <1>1, <2>1, <2>2
    <2>4. QED BY <1>3, <2>3 DEF SlotCost
  <1>4. QED BY <1>2, <1>3

LEMMA PriceNat ==
  ASSUME TypeOK, NEW w \in Workers PROVE Price(w) \in Nat
  <1>1. req[w] \in Requests
    BY DEF TypeOK, RequestsOK
  <1>2. req[w].count + 1 \in Nat
    BY <1>1 DEF Requests
  <1>3. SlotCost(req[w].count + 1) \in Nat
    BY <1>2, SlotCostNat
  <1>4. UpgradeCost \in Nat
    BY AmountAssumption
  <1>5. QED BY <1>3, <1>4 DEF Price

\* A time that has come is a time of the tables.
LEMMA NowIsATime ==
  ASSUME NEW t \in 0..MaxTime
  PROVE  t \in Times /\ t + DeclineCooldown \in Times /\ LongAgo \in Times
  BY AmountAssumption DEF Times, LongAgo

LEMMA UpsertTyped ==
  ASSUME NEW row \in Cooldown, NEW began \in 0..MaxTime
  PROVE  UpsertCooldown(row, began) \in Cooldown
  BY NowIsATime, AmountAssumption DEF UpsertCooldown, Cooldown, NoCooldown

LEMMA DeclineTyped ==
  ASSUME NEW row \in Cooldown, NEW t \in 0..MaxTime
  PROVE  SetDecline(row, t + DeclineCooldown) \in Cooldown
  BY NowIsATime, AmountAssumption DEF SetDecline, Cooldown, NoCooldown

LEMMA ReducedTyped ==
  ASSUME NEW row \in Cooldown
  PROVE  [row EXCEPT !.seconds = Reduced(row.seconds)] \in Cooldown
  <1>1. Reduced(row.seconds) \in MinCooldown..DefaultCooldown
    BY AmountAssumption DEF Reduced, Cooldown
  <1>2. QED BY <1>1 DEF Cooldown

-----------------------------------------------------------------------------
(* Type correctness, by action *)

\* Steps that leave the tables alone.
LEMMA QuietStep ==
  ASSUME TypeOK, UNCHANGED <<now, tables>>, RequestsOK'
  PROVE  TypeOK'
  BY DEF TypeOK, tables

LEMMA ArrivalTyped ==
  ASSUME TypeOK, NEW w \in Workers, Arrival(w)
  PROVE  TypeOK'
  <1> USE DEF Arrive
  <1>1. now \in 0..MaxTime /\ 0 \in 0..MaxTime
    BY AmountAssumption DEF TypeOK
  <1>2. ASSUME NEW u \in Users, NEW v \in Users, SuggestHug(w, u, v)
        PROVE  TypeOK'
    <2>1. /\ Request("isBlockedByEither", u, v, NoOne) \in Requests
          /\ FieldsFit(Request("isBlockedByEither", u, v, NoOne))
      BY <1>1, <1>2, IdAssumption DEF SuggestHug, Request, Idle, Requests, FieldsFit,
         SuggestSteps, AnswerSteps, AfterHugUpdate, UpgradeSteps, SlotSteps
    <2>2. QED BY <1>2, <2>1, OneRequestFits, QuietStep DEF SuggestHug
  <1>3. ASSUME NEW u \in Users, NEW v \in Users, UpgradeCooldown(w, u, v)
        PROVE  TypeOK'
    <2>1. /\ Transaction("payUpgrade", u, v, NoOne) \in Requests
          /\ FieldsFit(Transaction("payUpgrade", u, v, NoOne))
      BY <1>1, IdAssumption DEF Transaction, Request, Idle, Requests, FieldsFit,
         SuggestSteps, AnswerSteps, AfterHugUpdate, UpgradeSteps, SlotSteps
    <2>2. QED BY <1>3, <2>1, OneRequestFits, QuietStep DEF UpgradeCooldown
  <1>4. ASSUME NEW u \in Users, BuyHugSlot(w, u)
        PROVE  TypeOK'
    <2>1. /\ Request("readSlots", u, NoOne, NoOne) \in Requests
          /\ FieldsFit(Request("readSlots", u, NoOne, NoOne))
      BY <1>1, IdAssumption DEF Request, Idle, Requests, FieldsFit,
         SuggestSteps, AnswerSteps, AfterHugUpdate, UpgradeSteps, SlotSteps
    <2>2. QED BY <1>4, <2>1, OneRequestFits, QuietStep DEF BuyHugSlot
  <1>5. ASSUME NEW u \in Users, NEW h \in KnownHugs,
               \/ AcceptHug(w, u, h) \/ DeclineHug(w, u, h) \/ CancelHug(w, u, h)
        PROVE  TypeOK'
    <2>1. /\ Transaction("acceptHug", u, NoOne, h) \in Requests
          /\ FieldsFit(Transaction("acceptHug", u, NoOne, h))
          /\ Request("declineHug", u, NoOne, h) \in Requests
          /\ FieldsFit(Request("declineHug", u, NoOne, h))
          /\ Request("cancelHug", u, NoOne, h) \in Requests
          /\ FieldsFit(Request("cancelHug", u, NoOne, h))
      BY <1>1, IdAssumption DEF KnownHugs, Transaction, Request, Idle, Requests,
         FieldsFit, SuggestSteps, AnswerSteps, AfterHugUpdate, UpgradeSteps,
         SlotSteps
    <2>2. QED
      BY <1>5, <2>1, OneRequestFits, QuietStep DEF AcceptHug, DeclineHug, CancelHug
  <1>6. ASSUME NEW u \in Users, SuggestHugToSelf(w, u)
        PROVE  TypeOK'
    BY <1>6 DEF SuggestHugToSelf, TypeOK, RequestsOK, tables
  <1>7. QED
    BY <1>2, <1>3, <1>4, <1>5, <1>6 DEF Arrival

LEMMA SuggestTyped ==
  ASSUME TypeOK, NEW w \in Workers,
         \/ IsBlockedByEither(w) \/ CheckSuggestEligibility(w)
         \/ GetUserSlots(w) \/ CheckCooldown(w) \/ InsertHug(w)
  PROVE  TypeOK'
  <1> USE DEF SuggestSteps, AnswerSteps, AfterHugUpdate, UpgradeSteps, SlotSteps
  <1>0. /\ req[w] \in Requests /\ FieldsFit(req[w])
        /\ now \in 0..MaxTime /\ 0 \in 0..MaxTime
    BY AmountAssumption DEF TypeOK, RequestsOK
  <1>1. CASE IsBlockedByEither(w)
    <2>1. req[w].pc = "isBlockedByEither" =>
            /\ [req[w] EXCEPT !.pc = "checkEligibility"] \in Requests
            /\ FieldsFit([req[w] EXCEPT !.pc = "checkEligibility"])
      BY <1>0 DEF Requests, FieldsFit
    <2>2. QED BY <1>1, <2>1, FinishFits, GotoFits, QuietStep DEF IsBlockedByEither
  <1>2. CASE CheckSuggestEligibility(w)
    <2> DEFINE u == req[w].user
               v == req[w].other
               r == [req[w] EXCEPT !.pc = "getUserSlots", !.began = now,
                       !.count = Cardinality(Outgoing(u, now)),
                       !.pair = PendingBetween(u, v, now) # {},
                       !.reverse = PendingBetween(v, u, now) # {}]
    <2>1. Cardinality(Outgoing(u, now)) \in Nat
      BY IdAssumption, FS_Subset, FS_CardinalityType DEF Outgoing
    <2>2. r \in Requests /\ FieldsFit(r)
      BY <1>0, <1>2, <2>1 DEF CheckSuggestEligibility, Requests, FieldsFit
    <2>3. req' = [req EXCEPT ![w] = r]
      BY <1>2 DEF CheckSuggestEligibility
    <2>4. QED
      BY <1>2, <2>2, <2>3, OneRequestFits, QuietStep DEF CheckSuggestEligibility
  <1>3. CASE GetUserSlots(w)
    <2> DEFINE r == [Request("checkCooldown", req[w].user, req[w].other, NoOne)
                       EXCEPT !.began = req[w].began]
    <2>1. req[w].pc = "getUserSlots" => r \in Requests /\ FieldsFit(r)
      BY <1>0 DEF Request, Idle, Requests, FieldsFit
    <2>2. CASE req' = [req EXCEPT ![w] = r]
      BY <1>3, <2>1, <2>2, OneRequestFits, QuietStep DEF GetUserSlots
    <2>3. CASE req' # [req EXCEPT ![w] = r]
      BY <1>3, <2>3, FinishFits, QuietStep DEF GetUserSlots
    <2>4. QED BY <2>2, <2>3
  <1>4. CASE CheckCooldown(w)
    <2>1. req[w].pc = "checkCooldown" =>
            /\ [req[w] EXCEPT !.pc = "insertHug"] \in Requests
            /\ FieldsFit([req[w] EXCEPT !.pc = "insertHug"])
      BY <1>0 DEF Requests, FieldsFit
    <2>2. QED BY <1>4, <2>1, FinishFits, GotoFits, QuietStep DEF CheckCooldown
  <1>5. CASE InsertHug(w)
    <2>1. PICK h \in HugIds : hugs' = [hugs EXCEPT ![h] =
            [status |-> "pending", giver |-> req[w].user,
             receiver |-> req[w].other, created |-> req[w].began]]
      BY <1>5 DEF InsertHug
    <2>2. [status |-> "pending", giver |-> req[w].user,
           receiver |-> req[w].other, created |-> req[w].began] \in Hug
      BY <1>0, <1>5 DEF InsertHug, Requests, FieldsFit, Hug, Statuses
    <2>3. hugs' \in [HugIds -> Hug \cup {NoHug}]
      BY <2>1, <2>2 DEF TypeOK
    <2>4. RequestsOK'
      BY <1>5, IdleFits, OneRequestFits DEF InsertHug
    <2>5. QED BY <1>5, <2>3, <2>4 DEF InsertHug, TypeOK
  <1>6. QED BY <1>1, <1>2, <1>3, <1>4, <1>5

\* Changing the status of a hug keeps the table well-typed.
LEMMA StatusTyped ==
  ASSUME TypeOK, NEW h \in HugIds, NEW s \in Statuses, hugs[h] \in Hug,
         hugs' = [hugs EXCEPT ![h].status = s]
  PROVE  hugs' \in [HugIds -> Hug \cup {NoHug}]
  <1>1. [hugs[h] EXCEPT !.status = s] \in Hug
    BY DEF Hug
  <1>2. hugs' = [hugs EXCEPT ![h] = [hugs[h] EXCEPT !.status = s]]
    BY DEF TypeOK
  <1>3. QED BY <1>1, <1>2 DEF TypeOK

LEMMA PendingIsAHug ==
  ASSUME TypeOK, NEW h \in HugIds, hugs[h].status = "pending"
  PROVE  /\ hugs[h] \in Hug
         /\ hugs[h].giver \in Users /\ hugs[h].receiver \in Users
  BY DEF TypeOK, NoHug, Hug

LEMMA AnswerTyped ==
  ASSUME Inv, NEW w \in Workers,
         \/ UpdateHug(w) \/ UpdateCancelledHug(w) \/ GetHugByID(w)
         \/ PayGiver(w) \/ PayReceiver(w)
  PROVE  TypeOK'
  <1> USE DEF SuggestSteps, AnswerSteps, AfterHugUpdate, UpgradeSteps, SlotSteps
  <1>0. TypeOK /\ req[w] \in Requests /\ FieldsFit(req[w])
    BY DEF Inv, TypeOK, RequestsOK
  <1>1. CASE UpdateHug(w)
    <2> DEFINE pc == IF ~Matches(w) THEN "getHugByID"
                     ELSE IF req[w].pc = "acceptHug" THEN "payGiver"
                     ELSE "setDeclineCooldown"
    <2>1. Matches(w) => req[w].hug \in HugIds
      BY DEF Matches, HugRow, NoHug
    <2>2. /\ [req[w] EXCEPT !.pc = pc] \in Requests
          /\ FieldsFit([req[w] EXCEPT !.pc = pc])
      BY <1>0, <1>1, <2>1 DEF UpdateHug, Requests, FieldsFit
    <2>3. Goto(w, pc)
      BY <1>1 DEF UpdateHug
    <2>4. QED BY <1>0, <1>1, <2>2, <2>3, GotoFits, QuietStep DEF UpdateHug
  <1>2. CASE UpdateCancelledHug(w)
    <2>1. CASE Matches(w)
      <3>1. req[w].hug \in HugIds /\ hugs[req[w].hug].status = "pending"
        BY <2>1 DEF Matches, HugRow, NoHug
      <3>2. hugs' \in [HugIds -> Hug \cup {NoHug}]
        BY <1>0, <1>2, <2>1, <3>1, PendingIsAHug, StatusTyped
           DEF UpdateCancelledHug, Statuses
      <3>3. RequestsOK'
        BY <1>0, <1>2, <2>1, FinishFits DEF UpdateCancelledHug
      <3>4. QED BY <1>0, <1>2, <3>2, <3>3 DEF UpdateCancelledHug, TypeOK
    <2>2. CASE ~Matches(w)
      <3>1. /\ [req[w] EXCEPT !.pc = "getHugByID"] \in Requests
            /\ FieldsFit([req[w] EXCEPT !.pc = "getHugByID"])
        BY <1>0, <1>2 DEF UpdateCancelledHug, Requests, FieldsFit
      <3>2. RequestsOK'
        BY <1>0, <1>2, <2>2, <3>1, GotoFits DEF UpdateCancelledHug
      <3>3. QED
        BY <1>0, <1>2, <2>2, <3>2, QuietStep DEF UpdateCancelledHug, tables
    <2>3. QED BY <2>1, <2>2
  <1>3. CASE GetHugByID(w)
    BY <1>0, <1>3, FinishFits, QuietStep DEF GetHugByID
  <1>4. CASE PayGiver(w)
    <2>1. req[w].pc = "payGiver" =>
            /\ [req[w] EXCEPT !.pc = "payReceiver"] \in Requests
            /\ FieldsFit([req[w] EXCEPT !.pc = "payReceiver"])
      BY <1>0 DEF Requests, FieldsFit
    <2>2. QED
      BY <1>0, <1>4, <2>1, FinishFits, GotoFits, QuietStep DEF PayGiver, AddBalance
  <1>5. CASE PayReceiver(w)
    <2>1. req[w].pc = "payReceiver" =>
            /\ [req[w] EXCEPT !.pc = "startCooldown"] \in Requests
            /\ FieldsFit([req[w] EXCEPT !.pc = "startCooldown"])
      BY <1>0 DEF Requests, FieldsFit
    <2>2. QED
      BY <1>0, <1>5, <2>1, FinishFits, GotoFits, QuietStep DEF PayReceiver, AddBalance
  <1>6. QED BY <1>1, <1>2, <1>3, <1>4, <1>5

\* The hug a committing accept or decline works on.
LEMMA UpdatedHug ==
  ASSUME Inv, NEW w \in Workers, req[w].pc \in AfterHugUpdate
  PROVE  /\ req[w].hug \in HugIds
         /\ hugs[req[w].hug].status = "pending"
         /\ hugs[req[w].hug] \in Hug
         /\ hugs[req[w].hug].giver \in Users
         /\ hugs[req[w].hug].receiver \in Users
  BY PendingIsAHug
     DEF Inv, TypeOK, RequestsOK, FieldsFit, UncommittedWorkHolds,
         HandlersWorkHolds, UpdatedHugIsPending

LEMMA StartCooldownTyped ==
  ASSUME Inv, NEW w \in Workers, StartCooldown(w)
  PROVE  TypeOK'
  <1> DEFINE h == req[w].hug
  <1>0. TypeOK /\ req[w].pc = "startCooldown" /\ req[w].pc \in AfterHugUpdate
    BY DEF Inv, StartCooldown, AfterHugUpdate
  <1>1. h \in HugIds /\ hugs[h] \in Hug /\ Parties(h) \subseteq Users
    BY <1>0, UpdatedHug DEF Parties
  <1>2. hugs' \in [HugIds -> Hug \cup {NoHug}]
    BY <1>0, <1>1, StatusTyped DEF StartCooldown, Statuses
  <1>3. balance' \in [Users -> 0..MaxAmount]
    <2>1. HeldBalances(w) = Parties(h)
      BY <1>0 DEF HeldBalances, AfterPayment
    <2>2. \A u \in Parties(h) : balance[u] < MaxAmount
      BY <1>0, <2>1 DEF Inv, UncommittedWorkHolds, HandlersWorkHolds, CreditFits
    <2>3. \A u \in Users : balance[u] \in 0..MaxAmount
      BY <1>0 DEF TypeOK
    <2>4. QED BY <2>2, <2>3, AmountAssumption DEF StartCooldown, Credit
  <1>4. cooldown' \in [Pairs -> Cooldown]
    <2>1. req[w].began \in 0..MaxTime
      BY <1>0 DEF TypeOK, RequestsOK, Requests
    <2>2. \A row \in Cooldown : UpsertCooldown(row, req[w].began) \in Cooldown
      BY <2>1, UpsertTyped
    <2>3. QED BY <1>0, <2>2 DEF StartCooldown, TypeOK
  <1>5. RequestsOK'
    BY <1>0, FinishFits DEF StartCooldown
  <1>6. QED BY <1>0, <1>2, <1>3, <1>4, <1>5 DEF StartCooldown, TypeOK

LEMMA SetDeclineCooldownTyped ==
  ASSUME Inv, NEW w \in Workers, SetDeclineCooldown(w)
  PROVE  TypeOK'
  <1> DEFINE h == req[w].hug
  <1>0. TypeOK /\ req[w].pc \in AfterHugUpdate
    BY DEF Inv, SetDeclineCooldown, AfterHugUpdate
  <1>1. h \in HugIds /\ hugs[h] \in Hug
    BY <1>0, UpdatedHug
  <1>2. hugs' \in [HugIds -> Hug \cup {NoHug}]
    BY <1>0, <1>1, StatusTyped DEF SetDeclineCooldown, Statuses
  <1>3. cooldown' \in [Pairs -> Cooldown]
    <2>1. now \in 0..MaxTime
      BY <1>0 DEF TypeOK
    <2>2. \A row \in Cooldown : SetDecline(row, now + DeclineCooldown) \in Cooldown
      BY <2>1, DeclineTyped
    <2>3. QED BY <1>0, <2>2 DEF SetDeclineCooldown, TypeOK
  <1>4. RequestsOK'
    BY <1>0, FinishFits DEF SetDeclineCooldown
  <1>5. QED BY <1>0, <1>2, <1>3, <1>4 DEF SetDeclineCooldown, TypeOK

\* What a paying request takes is in the balance.
LEMMA ChargeTyped ==
  ASSUME Inv, NEW w \in Workers, req[w].pc \in AfterPayment, Charge(w)
  PROVE  balance' \in [Users -> 0..MaxAmount] /\ spent' \in [Users -> Int]
  <1>1. req[w].user \in Users
    BY DEF Inv, TypeOK, RequestsOK, FieldsFit, AfterPayment
  <1>2. Price(w) \in Nat /\ balance[req[w].user] \in 0..MaxAmount
        /\ spent[req[w].user] \in Int
    BY <1>1, PriceNat DEF Inv, TypeOK
  <1>3. balance[req[w].user] >= Price(w)
    BY DEF Inv, UncommittedWorkHolds, HandlersWorkHolds, PaymentCovered, CanPay
  <1>4. /\ balance[req[w].user] - Price(w) \in 0..MaxAmount
        /\ spent[req[w].user] + Price(w) \in Int
    BY <1>2, <1>3, AmountAssumption
  <1>5. QED BY <1>1, <1>4 DEF Charge, Inv, TypeOK

LEMMA PurchaseTyped ==
  ASSUME Inv, NEW w \in Workers,
         \/ DeductBalance(w) \/ GetCooldown(w) \/ ReduceCooldown(w)
         \/ ReadSlots(w) \/ IncrementSlots(w)
  PROVE  TypeOK'
  <1> USE DEF SuggestSteps, AnswerSteps, AfterHugUpdate, UpgradeSteps, SlotSteps
  <1>0. TypeOK /\ req[w] \in Requests /\ FieldsFit(req[w])
    BY DEF Inv, TypeOK, RequestsOK
  <1>1. CASE DeductBalance(w)
    <2> DEFINE pc == IF req[w].pc = "payUpgrade" THEN "getCooldown"
                     ELSE "incrementSlots"
    <2>1. /\ [req[w] EXCEPT !.pc = pc] \in Requests
          /\ FieldsFit([req[w] EXCEPT !.pc = pc])
      BY <1>0, <1>1 DEF DeductBalance, Requests, FieldsFit
    <2>2. Goto(w, pc) \/ Finish(w, "INSUFFICIENT_BALANCE")
      BY <1>1 DEF DeductBalance
    <2>3. QED
      BY <1>0, <1>1, <2>1, <2>2, FinishFits, GotoFits, QuietStep DEF DeductBalance
  <1>2. CASE GetCooldown(w)
    <2> DEFINE pc == IF cooldown[{req[w].user, req[w].other}] = NoCooldown
                     THEN "createCooldown" ELSE "reduceCooldown"
    <2>1. req[w].user # req[w].other =>
            /\ [req[w] EXCEPT !.pc = pc] \in Requests
            /\ FieldsFit([req[w] EXCEPT !.pc = pc])
      BY <1>0, <1>2 DEF GetCooldown, Requests, FieldsFit
    <2>2. \/ req[w].user # req[w].other /\ Goto(w, pc)
          \/ Finish(w, "INTERNAL_ERROR")
      BY <1>2 DEF GetCooldown
    <2>3. QED
      BY <1>0, <1>2, <2>1, <2>2, FinishFits, GotoFits, QuietStep DEF GetCooldown
  <1>3. CASE ReduceCooldown(w)
    <2> DEFINE p == {req[w].user, req[w].other}
               row == IF req[w].pc = "createCooldown"
                      THEN UpsertCooldown(cooldown[p], req[w].began)
                      ELSE cooldown[p]
    <2>1. p \in Pairs
      BY <1>0, <1>3 DEF ReduceCooldown, FieldsFit, Pairs
    <2>2. row \in Cooldown
      BY <1>0, <2>1, UpsertTyped DEF TypeOK, Requests
    <2>3. [row EXCEPT !.seconds = Reduced(row.seconds)] \in Cooldown
      BY <2>2, ReducedTyped
    <2>4. cooldown' = [cooldown EXCEPT ![p] =
                        [row EXCEPT !.seconds = Reduced(row.seconds)]]
      BY <1>3 DEF ReduceCooldown
    <2>5. cooldown' \in [Pairs -> Cooldown]
      BY <1>0, <2>3, <2>4 DEF TypeOK
    <2>6. balance' \in [Users -> 0..MaxAmount] /\ spent' \in [Users -> Int]
      BY <1>3, ChargeTyped DEF ReduceCooldown, AfterPayment
    <2>7. RequestsOK'
      BY <1>0, <1>3, FinishFits DEF ReduceCooldown
    <2>8. QED BY <1>0, <1>3, <2>5, <2>6, <2>7 DEF ReduceCooldown, TypeOK
  <1>4. CASE ReadSlots(w)
    <2> DEFINE r == [req[w] EXCEPT !.pc = "paySlot", !.count = slots[req[w].user]]
    <2>1. req[w].user \in Users /\ slots[req[w].user] \in 1..MaxHugSlots
      BY <1>0, <1>4 DEF ReadSlots, FieldsFit, TypeOK
    <2>2. r \in Requests /\ FieldsFit(r)
      <3>0. slots[req[w].user] \in Nat
        BY <2>1, AmountAssumption
      <3>1. r \in Requests
        BY <1>0, <3>0 DEF Requests
      <3>2. r.pc = "paySlot" /\ r.user = req[w].user
            /\ r.count = slots[req[w].user]
        BY <1>0 DEF Requests
      <3>3. QED BY <2>1, <3>1, <3>2 DEF FieldsFit
    <2>3. req' = [req EXCEPT ![w] = r] \/ Finish(w, "MAX_SLOTS_REACHED")
      BY <1>0, <1>4 DEF ReadSlots, TypeOK, RequestsOK
    <2>4. QED
      BY <1>0, <1>4, <2>2, <2>3, FinishFits, OneRequestFits, QuietStep DEF ReadSlots
  <1>5. CASE IncrementSlots(w)
    <2>1. RequestsOK'
      BY <1>0, <1>5, FinishFits DEF IncrementSlots
    <2>2. CASE slots[req[w].user] < MaxHugSlots
      <3>1. req[w].user \in Users /\ slots[req[w].user] + 1 \in 1..MaxHugSlots
        BY <1>0, <1>5, <2>2, AmountAssumption DEF IncrementSlots, FieldsFit, TypeOK
      <3>2. slots' \in [Users -> 1..MaxHugSlots]
        BY <1>0, <1>5, <2>2, <3>1 DEF IncrementSlots, TypeOK
      <3>3. balance' \in [Users -> 0..MaxAmount] /\ spent' \in [Users -> Int]
        BY <1>5, <2>2, ChargeTyped DEF IncrementSlots, AfterPayment
      <3>4. QED BY <1>0, <1>5, <2>1, <3>2, <3>3 DEF IncrementSlots, TypeOK
    <2>3. CASE ~(slots[req[w].user] < MaxHugSlots)
      BY <1>0, <1>5, <2>1, <2>3, QuietStep DEF IncrementSlots, tables
    <2>4. QED BY <2>2, <2>3
  <1>6. QED BY <1>1, <1>2, <1>3, <1>4, <1>5

-----------------------------------------------------------------------------
(* Uncommitted work, from the point of view of one worker *)

\* What UncommittedWorkHolds says of worker w alone.
OwnWork(w) ==
  /\ req[w].pc \in AfterHugUpdate =>
       /\ hugs[req[w].hug].status = "pending"
       /\ hugs[req[w].hug].receiver = req[w].user
  /\ req[w].pc \in AfterPayment => CanPay(w)
  /\ req[w].pc \in {"payReceiver", "startCooldown"} =>
       \A u \in HeldBalances(w) : balance[u] < MaxAmount

\* A step of w leaves the other requests, the job and the rows they hold alone.
Undisturbed(w) ==
  /\ \A x \in Workers \ {w} :
       /\ req'[x] = req[x]
       /\ \A h \in HeldHugs(x) : hugs'[h] = hugs[h]
       /\ \A u \in HeldBalances(x) : balance'[u] = balance[u]
  /\ expiring' = expiring
  /\ \A h \in expiring : hugs'[h] = hugs[h]

LEMMA WorkIsOwnWork ==
  HandlersWorkHolds <=> LocksExclusive /\ \A w \in Workers : OwnWork(w)
  BY DEF HandlersWorkHolds, UpdatedHugIsPending, PaymentCovered, CreditFits,
     OwnWork

LEMMA OthersKeepWork ==
  ASSUME Inv, NEW w \in Workers, Undisturbed(w), NEW x \in Workers \ {w}
  PROVE  /\ HeldHugs(x)' = HeldHugs(x)
         /\ HeldBalances(x)' = HeldBalances(x)
         /\ OwnWork(x)'
  <1> USE DEF AfterHugUpdate, AfterPayment
  <1>1. OwnWork(x)
    BY WorkIsOwnWork DEF Inv, UncommittedWorkHolds
  <1>2. req'[x] = req[x]
    BY DEF Undisturbed
  <1>3. req[x].pc \in AfterHugUpdate => hugs'[req[x].hug] = hugs[req[x].hug]
    BY DEF Undisturbed, HeldHugs
  <1>4. HeldHugs(x)' = HeldHugs(x)
    BY <1>2 DEF HeldHugs
  <1>5. HeldBalances(x)' = HeldBalances(x)
    BY <1>2, <1>3 DEF HeldBalances, Parties
  <1>6. \A u \in HeldBalances(x) : balance'[u] = balance[u]
    BY DEF Undisturbed
  <1>7. req[x].pc \in AfterPayment => CanPay(x)'
    <2>1. SUFFICES ASSUME req[x].pc \in AfterPayment PROVE CanPay(x)'
      OBVIOUS
    <2>2. balance'[req[x].user] = balance[req[x].user]
      BY <1>6, <2>1 DEF HeldBalances
    <2>3. Price(x)' = Price(x)
      BY <1>2 DEF Price, SlotCost
    <2>4. QED BY <1>1, <1>2, <2>1, <2>2, <2>3 DEF OwnWork, CanPay
  <1>8. OwnWork(x)'
    BY <1>1, <1>2, <1>3, <1>5, <1>6, <1>7 DEF OwnWork
  <1>9. QED BY <1>4, <1>5, <1>8

\* The step of w keeps everyone's work if it keeps its own and takes no row
\* another transaction holds.
LEMMA WorkKept ==
  ASSUME Inv, NEW w \in Workers, Undisturbed(w), OwnWork(w)',
         \A x \in Workers \ {w} :
           /\ HeldHugs(w)' \cap HeldHugs(x) = {}
           /\ HeldBalances(w)' \cap HeldBalances(x) = {},
         HeldHugs(w)' \cap expiring = {}
  PROVE  UncommittedWorkHolds'
  <1>1. \A x \in Workers : OwnWork(x)'
    BY OthersKeepWork
  <1>2. \A x \in Workers \ {w} :
          HeldHugs(x)' = HeldHugs(x) /\ HeldBalances(x)' = HeldBalances(x)
    BY OthersKeepWork
  <1>3. LocksExclusive
    BY DEF Inv, UncommittedWorkHolds, HandlersWorkHolds
  <1>4. LocksExclusive'
    <2> SUFFICES ASSUME NEW x \in Workers, NEW y \in Workers, x # y
                 PROVE  /\ HeldHugs(x)' \cap HeldHugs(y)' = {}
                        /\ HeldBalances(x)' \cap HeldBalances(y)' = {}
      BY DEF LocksExclusive
    <2>1. CASE x = w BY <1>2, <2>1
    <2>2. CASE y = w BY <1>2, <2>2
    <2>3. CASE x # w /\ y # w BY <1>2, <1>3, <2>3 DEF LocksExclusive
    <2>4. QED BY <2>1, <2>2, <2>3
  <1>5. HandlersWorkHolds'
    BY <1>1, <1>4 DEF HandlersWorkHolds, UpdatedHugIsPending, PaymentCovered,
       CreditFits, OwnWork
  <1>6. ExpiringIsPending'
    <2> SUFFICES ASSUME NEW h \in expiring
                 PROVE  /\ hugs'[h].status = "pending"
                        /\ \A x \in Workers : h \notin HeldHugs(x)'
      BY DEF ExpiringIsPending, Undisturbed
    <2>1. /\ hugs[h].status = "pending"
          /\ \A x \in Workers : h \notin HeldHugs(x)
      BY DEF Inv, UncommittedWorkHolds, ExpiringIsPending
    <2>2. QED BY <1>2, <2>1 DEF Undisturbed
  <1>7. QED BY <1>5, <1>6 DEF UncommittedWorkHolds

\* A request that holds nothing after the step owes nothing.
LEMMA NothingHeld ==
  ASSUME Inv, NEW w \in Workers, Undisturbed(w),
         req'[w].pc \notin AfterHugUpdate \cup AfterPayment
  PROVE  UncommittedWorkHolds'
  <1>1. OwnWork(w)' /\ HeldHugs(w)' = {} /\ HeldBalances(w)' = {}
    BY DEF OwnWork, HeldHugs, HeldBalances, AfterHugUpdate
  <1>2. QED BY <1>1, WorkKept

\* The rows w holds are not those others hold: changing only them disturbs
\* nobody.
LEMMA OwnRowsOnly ==
  ASSUME Inv, NEW w \in Workers, NEW r, req' = [req EXCEPT ![w] = r],
         UNCHANGED expiring,
         \A h \in HugIds \ HeldHugs(w) : hugs'[h] = hugs[h],
         \A u \in Users \ HeldBalances(w) : balance'[u] = balance[u]
  PROVE  Undisturbed(w) /\ req'[w] = r
  <1>1. req'[w] = r /\ \A x \in Workers \ {w} : req'[x] = req[x]
    BY DEF Inv, TypeOK, RequestsOK
  <1>2. ASSUME NEW x \in Workers \ {w}
        PROVE  HeldHugs(x) \subseteq HugIds /\ HeldBalances(x) \subseteq Users
    <2>1. FieldsFit(req[x])
      BY DEF Inv, TypeOK, RequestsOK
    <2>2. req[x].pc \in AfterHugUpdate =>
            req[x].hug \in HugIds /\ Parties(req[x].hug) \subseteq Users
      BY UpdatedHug DEF Parties
    <2>3. HeldHugs(x) \subseteq HugIds
      BY <2>2 DEF HeldHugs
    <2>4. req[x].pc \in AfterPayment => req[x].user \in Users
      BY <2>1 DEF FieldsFit, AfterPayment
    <2>5. HeldBalances(x) \subseteq Users
      BY <2>2, <2>4 DEF HeldBalances, Parties, AfterHugUpdate, AfterPayment
    <2>6. QED BY <2>3, <2>5
  <1>3. ASSUME NEW x \in Workers \ {w}
        PROVE  /\ HeldHugs(x) \cap HeldHugs(w) = {}
               /\ HeldBalances(x) \cap HeldBalances(w) = {}
    BY DEF Inv, UncommittedWorkHolds, HandlersWorkHolds, LocksExclusive
  <1>4. \A h \in expiring : h \in HugIds /\ h \notin HeldHugs(w)
    BY DEF Inv, TypeOK, UncommittedWorkHolds, ExpiringIsPending
  <1>5. QED BY <1>1, <1>2, <1>3, <1>4 DEF Undisturbed

LEMMA QuietGoto ==
  ASSUME Inv, NEW w \in Workers, NEW pc, Goto(w, pc), UNCHANGED tables
  PROVE  /\ Undisturbed(w)
         /\ req'[w] = [req[w] EXCEPT !.pc = pc] /\ req'[w].pc = pc
         /\ req'[w].hug = req[w].hug /\ req'[w].user = req[w].user
         /\ req'[w].count = req[w].count
  <1>1. req' = [req EXCEPT ![w] = [req[w] EXCEPT !.pc = pc]]
    BY DEF Goto, Inv, TypeOK, RequestsOK
  <1>2. req[w] \in Requests
    BY DEF Inv, TypeOK, RequestsOK
  <1>3. Undisturbed(w) /\ req'[w] = [req[w] EXCEPT !.pc = pc]
    BY <1>1, OwnRowsOnly DEF tables
  <1>4. QED BY <1>2, <1>3 DEF Requests

LEMMA FinishKeepsWork ==
  ASSUME Inv, NEW w \in Workers, NEW code, Finish(w, code),
         UNCHANGED expiring,
         \A h \in HugIds \ HeldHugs(w) : hugs'[h] = hugs[h],
         \A u \in Users \ HeldBalances(w) : balance'[u] = balance[u]
  PROVE  UncommittedWorkHolds'
  <1>1. Undisturbed(w) /\ req'[w] = Idle
    BY OwnRowsOnly DEF Finish
  <1>2. Idle.pc \notin AfterHugUpdate \cup AfterPayment
    BY DEF Idle, AfterHugUpdate, AfterPayment
  <1>3. QED BY <1>1, <1>2, NothingHeld

-----------------------------------------------------------------------------
(* Uncommitted work, by action *)

\* w moves on to a statement before which it has updated nothing.
LEMMA UnlockedStep ==
  ASSUME Inv, NEW w \in Workers, NEW r, req' = [req EXCEPT ![w] = r],
         r.pc \notin AfterHugUpdate \cup AfterPayment,
         UNCHANGED <<hugs, balance, expiring>>
  PROVE  UncommittedWorkHolds'
  <1>1. Undisturbed(w) /\ req'[w] = r
    BY OwnRowsOnly
  <1>2. QED BY <1>1, NothingHeld

LEMMA GotoUnlocked ==
  ASSUME Inv, NEW w \in Workers, NEW pc, Goto(w, pc), UNCHANGED tables,
         pc \notin AfterHugUpdate \cup AfterPayment
  PROVE  UncommittedWorkHolds'
  <1>1. Undisturbed(w) /\ req'[w].pc = pc
    BY QuietGoto
  <1>2. QED BY <1>1, NothingHeld

LEMMA ArrivalKeepsWork ==
  ASSUME Inv, NEW w \in Workers, Arrival(w)
  PROVE  UncommittedWorkHolds'
  <1> USE DEF Arrive, Request, Transaction, Idle, AfterHugUpdate, AfterPayment,
              tables
  <1>1. ASSUME NEW u \in Users, NEW v \in Users,
               SuggestHug(w, u, v) \/ UpgradeCooldown(w, u, v) \/ BuyHugSlot(w, u)
        PROVE  UncommittedWorkHolds'
    BY <1>1, UnlockedStep DEF SuggestHug, UpgradeCooldown, BuyHugSlot
  <1>2. ASSUME NEW u \in Users, NEW h \in KnownHugs,
               \/ AcceptHug(w, u, h) \/ DeclineHug(w, u, h) \/ CancelHug(w, u, h)
        PROVE  UncommittedWorkHolds'
    BY <1>2, UnlockedStep DEF AcceptHug, DeclineHug, CancelHug
  <1>3. ASSUME NEW u \in Users, SuggestHugToSelf(w, u)
        PROVE  UncommittedWorkHolds'
    <2>1. req' = [req EXCEPT ![w] = Idle]
      BY <1>3 DEF SuggestHugToSelf, Inv, TypeOK, RequestsOK
    <2>2. QED BY <1>3, <2>1, UnlockedStep DEF SuggestHugToSelf
  <1>4. QED BY <1>1, <1>2, <1>3 DEF Arrival

LEMMA SuggestKeepsWork ==
  ASSUME Inv, NEW w \in Workers,
         \/ IsBlockedByEither(w) \/ CheckSuggestEligibility(w)
         \/ GetUserSlots(w) \/ CheckCooldown(w) \/ InsertHug(w)
  PROVE  UncommittedWorkHolds'
  <1> USE DEF AfterHugUpdate, AfterPayment, tables
  <1>0. req[w] \in Requests /\ req \in [Workers -> Requests]
    BY DEF Inv, TypeOK, RequestsOK
  <1>1. CASE IsBlockedByEither(w)
    <2>1. /\ Finish(w, "USER_BLOCKED") \/ Goto(w, "checkEligibility")
          /\ UNCHANGED tables /\ UNCHANGED <<hugs, balance, expiring>>
      BY <1>1 DEF IsBlockedByEither
    <2>2. QED BY <2>1, FinishKeepsWork, GotoUnlocked
  <1>2. CASE CheckSuggestEligibility(w)
    <2>1. PICK r : req' = [req EXCEPT ![w] = r] /\ r.pc = "getUserSlots"
      <3> DEFINE u == req[w].user
                 v == req[w].other
                 r == [req[w] EXCEPT !.pc = "getUserSlots", !.began = now,
                         !.count = Cardinality(Outgoing(u, now)),
                         !.pair = PendingBetween(u, v, now) # {},
                         !.reverse = PendingBetween(v, u, now) # {}]
      <3>1. req' = [req EXCEPT ![w] = r]
        BY <1>2 DEF CheckSuggestEligibility
      <3>2. r.pc = "getUserSlots"
        BY <1>0 DEF Requests
      <3>3. QED BY <3>1, <3>2
    <2>2. QED BY <1>2, <2>1, UnlockedStep DEF CheckSuggestEligibility
  <1>3. CASE GetUserSlots(w)
    BY <1>3, FinishKeepsWork, UnlockedStep DEF GetUserSlots, Request, Idle
  <1>4. CASE CheckCooldown(w)
    <2>1. /\ \/ \E code : Finish(w, code)
             \/ Goto(w, "insertHug")
          /\ UNCHANGED tables /\ UNCHANGED <<hugs, balance, expiring>>
      BY <1>4 DEF CheckCooldown
    <2>2. QED BY <2>1, FinishKeepsWork, GotoUnlocked
  <1>5. CASE InsertHug(w)
    <2>1. PICK h \in HugIds : hugs[h] = NoHug /\ hugs' = [hugs EXCEPT ![h] =
            [status |-> "pending", giver |-> req[w].user,
             receiver |-> req[w].other, created |-> req[w].began]]
      BY <1>5 DEF InsertHug
    <2>2. \A x \in Workers : \A g \in HeldHugs(x) : g # h
      BY <2>1, UpdatedHug DEF HeldHugs, NoHug
    <2>3. \A x \in Workers : \A g \in HeldHugs(x) : hugs'[g] = hugs[g]
      BY <2>1, <2>2, UpdatedHug DEF HeldHugs, Inv, TypeOK
    <2>4. \A g \in expiring : hugs'[g] = hugs[g]
      <3>1. \A g \in expiring : g # h
        BY <2>1 DEF Inv, UncommittedWorkHolds, ExpiringIsPending, NoHug
      <3>2. QED BY <2>1, <3>1 DEF Inv, TypeOK
    <2>5. Undisturbed(w) /\ req'[w] = Idle
      BY <1>0, <1>5, <2>3, <2>4 DEF InsertHug, Undisturbed
    <2>6. QED BY <2>5, NothingHeld DEF Idle
  <1>6. QED BY <1>1, <1>2, <1>3, <1>4, <1>5

\* A statement that is not kept waiting takes rows nobody else holds.
LEMMA FreeRows ==
  ASSUME NEW w \in Workers, Free(w), NEW x \in Workers \ {w}
  PROVE  /\ WantedHugs(w) \cap HeldHugs(x) = {}
         /\ WantedBalances(w) \cap HeldBalances(x) = {}
  BY DEF Free, WaitsFor

LEMMA FreeOfTheJob ==
  ASSUME NEW w \in Workers, Free(w) PROVE WantedHugs(w) \cap expiring = {}
  BY DEF Free

LEMMA UpdateHugKeepsWork ==
  ASSUME Inv, NEW w \in Workers, UpdateHug(w)
  PROVE  UncommittedWorkHolds'
  <1> USE DEF tables
  <1>1. CASE ~Matches(w)
    <2>1. Goto(w, "getHugByID") /\ UNCHANGED tables
      BY <1>1 DEF UpdateHug
    <2>2. QED BY <2>1, GotoUnlocked DEF AfterHugUpdate, AfterPayment
  <1>2. CASE Matches(w)
    <2> DEFINE h == req[w].hug
    <2>0. req[w].pc \in {"acceptHug", "declineHug"} /\ Free(w)
          /\ UNCHANGED <<hugs, balance, expiring>>
      BY DEF UpdateHug
    <2>1. PICK pc \in {"payGiver", "setDeclineCooldown"} : Goto(w, pc)
      BY <1>2 DEF UpdateHug
    <2>2. Undisturbed(w) /\ req'[w].pc = pc /\ req'[w].hug = h
          /\ req'[w].user = req[w].user
      BY <2>1, QuietGoto DEF UpdateHug
    <2>3. h \in HugIds /\ hugs[h].status = "pending"
          /\ hugs[h].receiver = req[w].user
      BY <1>2, <2>0 DEF Matches, HugRow, NoHug
    <2>4. OwnWork(w)'
      BY <2>0, <2>2, <2>3 DEF OwnWork, AfterPayment
    <2>5. HeldHugs(w)' = WantedHugs(w)
      BY <1>2, <2>0, <2>2 DEF HeldHugs, WantedHugs, AfterHugUpdate
    <2>6. HeldBalances(w)' = {}
      BY <2>2 DEF HeldBalances, AfterPayment
    <2>7. QED
      BY <2>0, <2>2, <2>4, <2>5, <2>6, FreeRows, FreeOfTheJob, WorkKept
  <1>3. QED BY <1>1, <1>2

LEMMA CancelKeepsWork ==
  ASSUME Inv, NEW w \in Workers, UpdateCancelledHug(w) \/ GetHugByID(w)
  PROVE  UncommittedWorkHolds'
  <1> USE DEF tables
  <1>1. CASE GetHugByID(w)
    BY <1>1, FinishKeepsWork DEF GetHugByID
  <1>2. CASE UpdateCancelledHug(w) /\ ~Matches(w)
    <2>1. Goto(w, "getHugByID") /\ UNCHANGED tables
      BY <1>2 DEF UpdateCancelledHug
    <2>2. QED BY <2>1, GotoUnlocked DEF AfterHugUpdate, AfterPayment
  <1>3. CASE UpdateCancelledHug(w) /\ Matches(w)
    <2> DEFINE h == req[w].hug
    <2>1. WantedHugs(w) = {h} /\ Free(w)
      BY <1>3 DEF UpdateCancelledHug, WantedHugs
    <2>2. \A x \in Workers \ {w} : h \notin HeldHugs(x)
      BY <2>1, FreeRows
    <2>3. \A g \in HugIds \ {h} : hugs'[g] = hugs[g]
      BY <1>3 DEF UpdateCancelledHug, Inv, TypeOK
    <2>4. /\ \A x \in Workers \ {w} : \A g \in HeldHugs(x) : hugs'[g] = hugs[g]
          /\ \A g \in expiring : hugs'[g] = hugs[g]
      <3>1. \A g \in expiring : g \in HugIds /\ g # h
        BY <2>1, FreeOfTheJob DEF Inv, TypeOK
      <3>2. QED BY <2>2, <2>3, <3>1, UpdatedHug DEF HeldHugs
    <2>5. Undisturbed(w) /\ req'[w] = Idle
      BY <1>3, <2>4 DEF UpdateCancelledHug, Finish, Undisturbed, Inv, TypeOK, RequestsOK
    <2>6. QED BY <2>5, NothingHeld DEF Idle, AfterHugUpdate, AfterPayment
  <1>4. QED BY <1>1, <1>2, <1>3

LEMMA PayKeepsWork ==
  ASSUME Inv, NEW w \in Workers, PayGiver(w) \/ PayReceiver(w)
  PROVE  UncommittedWorkHolds'
  <1> DEFINE h == req[w].hug
  <1>0. /\ hugs[h].status = "pending" /\ hugs[h].receiver = req[w].user
        /\ req[w].pc \in {"payGiver", "payReceiver"}
        /\ req[w].pc \in AfterHugUpdate
        /\ OwnWork(w) /\ Free(w) /\ UNCHANGED tables
        /\ UNCHANGED <<hugs, balance, expiring>>
    BY WorkIsOwnWork DEF OwnWork, Inv, UncommittedWorkHolds, PayGiver, PayReceiver, AddBalance,
       AfterHugUpdate, tables
  <1>1. CASE Finish(w, "INTERNAL_ERROR")
    BY <1>0, <1>1, FinishKeepsWork
  <1>2. CASE ~Finish(w, "INTERNAL_ERROR")
    <2> DEFINE u == IF req[w].pc = "payGiver"
                    THEN hugs[h].giver ELSE hugs[h].receiver
               pc == IF req[w].pc = "payGiver"
                     THEN "payReceiver" ELSE "startCooldown"
    <2>1. Goto(w, pc) /\ balance[u] < MaxAmount
      BY <1>2 DEF PayGiver, PayReceiver, AddBalance
    <2>2. /\ Undisturbed(w) /\ req'[w].pc = pc /\ req'[w].hug = h
          /\ req'[w].user = req[w].user
      <3>1. PICK q : q = pc
        OBVIOUS
      <3>2. Goto(w, q)
        BY <2>1, <3>1
      <3> HIDE DEF pc
      <3>3. QED BY <1>0, <3>1, <3>2, QuietGoto
    <2>3. HeldHugs(w)' = HeldHugs(w)
      BY <1>0, <2>2 DEF HeldHugs, AfterHugUpdate
    <2>4. WantedBalances(w) = {u}
      BY <1>0 DEF WantedBalances
    <2>5. HeldBalances(w)' = HeldBalances(w) \cup {u}
      BY <1>0, <2>2 DEF HeldBalances, AfterPayment, Parties
    <2>6. \A x \in Workers \ {w} :
            HeldHugs(w) \cap HeldHugs(x) = {}
            /\ HeldBalances(w) \cap HeldBalances(x) = {}
      BY DEF Inv, UncommittedWorkHolds, HandlersWorkHolds, LocksExclusive
    <2>7. \A a \in HeldBalances(w) : balance[a] < MaxAmount
      BY <1>0 DEF OwnWork, HeldBalances, AfterPayment
    <2>8. OwnWork(w)'
      BY <1>0, <2>1, <2>2, <2>5, <2>7 DEF OwnWork, AfterPayment
    <2>9. HeldHugs(w) \cap expiring = {}
      BY DEF Inv, UncommittedWorkHolds, ExpiringIsPending
    <2>10. QED
      BY <1>0, <2>2, <2>3, <2>4, <2>5, <2>6, <2>8, <2>9, FreeRows, WorkKept
  <1>3. QED BY <1>1, <1>2

LEMMA CommitAnswerKeepsWork ==
  ASSUME Inv, NEW w \in Workers, StartCooldown(w) \/ SetDeclineCooldown(w)
  PROVE  UncommittedWorkHolds'
  <1> DEFINE h == req[w].hug
  <1>1. HeldHugs(w) = {h}
    BY DEF HeldHugs, AfterHugUpdate, StartCooldown, SetDeclineCooldown
  <1>2. \A g \in HugIds \ {h} : hugs'[g] = hugs[g]
    BY DEF StartCooldown, SetDeclineCooldown, Inv, TypeOK
  <1>3. CASE StartCooldown(w)
    <2>1. HeldBalances(w) = Parties(h)
      BY <1>3 DEF HeldBalances, AfterPayment, StartCooldown
    <2>2. \A u \in Users \ Parties(h) : balance'[u] = balance[u]
      BY <1>3 DEF StartCooldown, Credit
    <2>3. Finish(w, "HUG_ACCEPTED") /\ UNCHANGED expiring
      BY <1>3 DEF StartCooldown
    <2>4. QED BY <1>1, <1>2, <2>1, <2>2, <2>3, FinishKeepsWork
  <1>4. CASE SetDeclineCooldown(w)
    BY <1>1, <1>2, <1>4, FinishKeepsWork DEF SetDeclineCooldown
  <1>5. QED BY <1>3, <1>4

LEMMA PurchaseKeepsWork ==
  ASSUME Inv, NEW w \in Workers,
         \/ DeductBalance(w) \/ GetCooldown(w) \/ ReduceCooldown(w)
         \/ ReadSlots(w) \/ IncrementSlots(w)
  PROVE  UncommittedWorkHolds'
  <1> USE DEF tables
  <1>0. req[w] \in Requests
    BY DEF Inv, TypeOK, RequestsOK
  <1>1. CASE DeductBalance(w) /\ ~CanPay(w)
    BY <1>1, FinishKeepsWork DEF DeductBalance
  <1>2. CASE DeductBalance(w) /\ CanPay(w)
    <2> DEFINE pc == IF req[w].pc = "payUpgrade" THEN "getCooldown"
                     ELSE "incrementSlots"
    <2>1. /\ Goto(w, pc) /\ Free(w) /\ UNCHANGED tables
          /\ req[w].pc \in {"payUpgrade", "paySlot"}
          /\ UNCHANGED <<hugs, balance, expiring>>
      BY <1>2 DEF DeductBalance
    <2>2. /\ Undisturbed(w) /\ req'[w].pc = pc
          /\ req'[w].user = req[w].user /\ req'[w].count = req[w].count
      BY <2>1, QuietGoto
    <2>3. Price(w)' = Price(w)
      BY <2>1, <2>2 DEF Price, SlotCost
    <2>4. OwnWork(w)'
      BY <1>2, <2>1, <2>2, <2>3 DEF OwnWork, CanPay, AfterHugUpdate
    <2>5. HeldHugs(w)' = {}
      BY <2>2 DEF HeldHugs, AfterHugUpdate
    <2>6. HeldBalances(w)' = WantedBalances(w)
      BY <1>2, <2>1, <2>2 DEF HeldBalances, WantedBalances, AfterPayment
    <2>7. QED BY <2>1, <2>2, <2>4, <2>5, <2>6, FreeRows, WorkKept
  <1>3. CASE GetCooldown(w) /\ Finish(w, "INTERNAL_ERROR")
    BY <1>3, FinishKeepsWork DEF GetCooldown
  <1>4. CASE GetCooldown(w) /\ ~Finish(w, "INTERNAL_ERROR")
    <2>1. PICK pc \in {"createCooldown", "reduceCooldown"} :
            Goto(w, pc) /\ UNCHANGED tables
      BY <1>4 DEF GetCooldown
    <2>2. /\ Undisturbed(w) /\ req'[w].pc = pc
          /\ req'[w].user = req[w].user /\ req'[w].count = req[w].count
          /\ UNCHANGED <<hugs, balance, expiring>> /\ req[w].pc = "getCooldown"
      BY <1>4, <2>1, QuietGoto DEF GetCooldown
    <2>3. OwnWork(w)
      BY WorkIsOwnWork DEF Inv, UncommittedWorkHolds
    <2>4. OwnWork(w)'
      BY <2>2, <2>3 DEF OwnWork, CanPay, Price, AfterHugUpdate, AfterPayment
    <2>5. HeldHugs(w)' = HeldHugs(w) /\ HeldBalances(w)' = HeldBalances(w)
      BY <2>2 DEF HeldHugs, HeldBalances, AfterHugUpdate, AfterPayment
    <2>6. /\ LocksExclusive
          /\ HeldHugs(w) \cap expiring = {}
      BY DEF Inv, UncommittedWorkHolds, HandlersWorkHolds, ExpiringIsPending
    <2>7. QED
      BY <2>2, <2>4, <2>5, <2>6, WorkKept DEF LocksExclusive
  <1>5. CASE ReduceCooldown(w) \/ IncrementSlots(w)
    <2>1. HeldBalances(w) = {req[w].user}
      BY <1>5 DEF HeldBalances, AfterPayment, ReduceCooldown, IncrementSlots
    <2>2. \A u \in Users \ {req[w].user} : balance'[u] = balance[u]
      BY <1>5 DEF ReduceCooldown, IncrementSlots, Charge, Inv, TypeOK
    <2>3. UNCHANGED <<hugs, expiring>> /\ \E code : Finish(w, code)
      BY <1>5 DEF ReduceCooldown, IncrementSlots
    <2>4. QED BY <2>1, <2>2, <2>3, FinishKeepsWork
  <1>6. CASE ReadSlots(w) /\ slots[req[w].user] >= MaxHugSlots
    BY <1>6, FinishKeepsWork DEF ReadSlots
  <1>7. CASE ReadSlots(w) /\ ~(slots[req[w].user] >= MaxHugSlots)
    <2> DEFINE r == [req[w] EXCEPT !.pc = "paySlot", !.count = slots[req[w].user]]
    <2>1. req' = [req EXCEPT ![w] = r]
      BY <1>7 DEF ReadSlots, Inv, TypeOK, RequestsOK
    <2>2. r.pc = "paySlot"
      BY <1>0 DEF Requests
    <2>3. r.pc \notin AfterHugUpdate \cup AfterPayment
      BY <2>2 DEF AfterHugUpdate, AfterPayment
    <2>4. QED BY <1>7, <2>1, <2>3, UnlockedStep DEF ReadSlots
  <1>8. QED BY <1>1, <1>2, <1>3, <1>4, <1>5, <1>6, <1>7

-----------------------------------------------------------------------------
(* The inductive invariant *)

LEMMA StepKeepsInv ==
  ASSUME Inv, NEW w \in Workers, Step(w)
  PROVE  Inv'
  <1>1. CASE AbortDeadlocked(w)
    BY <1>1, FinishFits, QuietStep, FinishKeepsWork
       DEF AbortDeadlocked, Inv, tables
  <1>2. CASE ~AbortDeadlocked(w)
    <2>1. TypeOK'
      BY <1>2, SuggestTyped, AnswerTyped, StartCooldownTyped,
         SetDeclineCooldownTyped, PurchaseTyped DEF Step, Inv
    <2>2. UncommittedWorkHolds'
      BY <1>2, SuggestKeepsWork, UpdateHugKeepsWork, CancelKeepsWork,
         PayKeepsWork, CommitAnswerKeepsWork, PurchaseKeepsWork DEF Step
    <2>3. QED BY <2>1, <2>2 DEF Inv
  <1>3. QED BY <1>1, <1>2

\* Steps that touch neither hugs nor balances nor requests.
LEMMA AsideKeepsWork ==
  ASSUME Inv, UNCHANGED <<hugs, balance, req>>
  PROVE  /\ HandlersWorkHolds'
         /\ \A w \in Workers : HeldHugs(w)' = HeldHugs(w)
         /\ expiring' \subseteq expiring => UncommittedWorkHolds'
  <1>1. ASSUME NEW w \in Workers
        PROVE  /\ HeldHugs(w)' = HeldHugs(w)
               /\ HeldBalances(w)' = HeldBalances(w)
               /\ CanPay(w)' <=> CanPay(w)
    <2>1. HeldHugs(w)' = HeldHugs(w)
      BY DEF HeldHugs
    <2>2. HeldBalances(w)' = HeldBalances(w)
      BY DEF HeldBalances, Parties
    <2>3. CanPay(w)' <=> CanPay(w)
      BY DEF CanPay, Price, SlotCost
    <2>4. QED BY <2>1, <2>2, <2>3
  <1>2. HandlersWorkHolds'
    BY <1>1 DEF Inv, UncommittedWorkHolds, HandlersWorkHolds, LocksExclusive,
       UpdatedHugIsPending, PaymentCovered, CreditFits
  <1>3. expiring' \subseteq expiring => ExpiringIsPending'
    BY <1>1 DEF Inv, UncommittedWorkHolds, ExpiringIsPending
  <1>4. QED BY <1>1, <1>2, <1>3 DEF UncommittedWorkHolds

\* The job takes a row no transaction holds.
LEMMA ExpireHugKeepsInv ==
  ASSUME Inv, NEW h \in HugIds, ExpirePendingHug(h)
  PROVE  Inv'
  <1> USE DEF ExpirePendingHug
  <1>1. TypeOK'
    BY DEF Inv, TypeOK, RequestsOK, FieldsFit
  <1>2. ExpiringIsPending'
    <2>1. \A w \in Workers : HeldHugs(w)' = HeldHugs(w)
      BY AsideKeepsWork
    <2>2. QED
      BY <2>1 DEF Inv, UncommittedWorkHolds, ExpiringIsPending, Overdue
  <1>3. QED
    BY <1>1, <1>2, AsideKeepsWork DEF Inv, UncommittedWorkHolds

\* Committing, it changes the rows it has taken, and nobody holds those.
LEMMA CommitExpiredKeepsInv ==
  ASSUME Inv, CommitExpired
  PROVE  Inv'
  <1> USE DEF CommitExpired
  <1>0. /\ expiring \subseteq HugIds
        /\ \A h \in expiring : /\ hugs[h].status = "pending"
                               /\ \A w \in Workers : h \notin HeldHugs(w)
    BY DEF Inv, TypeOK, UncommittedWorkHolds, ExpiringIsPending
  <1>1. ASSUME NEW h \in HugIds PROVE hugs'[h] \in Hug \cup {NoHug}
    <2>1. CASE h \in expiring
      <3>1. hugs[h] \in Hug
        BY <1>0, <2>1, PendingIsAHug DEF Inv
      <3>2. [hugs[h] EXCEPT !.status = "expired"] \in Hug
        BY <3>1 DEF Hug, Statuses
      <3>3. QED BY <2>1, <3>2
    <2>2. CASE h \notin expiring
      BY <2>2 DEF Inv, TypeOK
    <2>3. QED BY <2>1, <2>2
  <1>2. TypeOK'
    BY <1>1 DEF Inv, TypeOK, RequestsOK, FieldsFit
  <1>3. \A w \in Workers : \A h \in HeldHugs(w) : hugs'[h] = hugs[h]
    BY <1>0, UpdatedHug DEF HeldHugs
  <1>4. ASSUME NEW w \in Workers
        PROVE  OwnWork(w)' /\ HeldHugs(w)' = HeldHugs(w)
               /\ HeldBalances(w)' = HeldBalances(w)
    <2>1. OwnWork(w)
      BY WorkIsOwnWork DEF Inv, UncommittedWorkHolds
    <2>2. req[w].pc \in AfterHugUpdate => hugs'[req[w].hug] = hugs[req[w].hug]
      BY <1>3 DEF HeldHugs
    <2>3. HeldHugs(w)' = HeldHugs(w)
      BY DEF HeldHugs
    <2>4. HeldBalances(w)' = HeldBalances(w)
      BY <2>2 DEF HeldBalances, Parties, AfterHugUpdate, AfterPayment
    <2>5. OwnWork(w)'
      BY <2>1, <2>2, <2>4 DEF OwnWork, CanPay, Price, SlotCost
    <2>6. QED BY <2>3, <2>4, <2>5
  <1>5. HandlersWorkHolds'
    BY <1>4 DEF Inv, UncommittedWorkHolds, HandlersWorkHolds, LocksExclusive,
       UpdatedHugIsPending, PaymentCovered, CreditFits, OwnWork
  <1>6. QED BY <1>2, <1>5 DEF Inv, UncommittedWorkHolds, ExpiringIsPending

\* What int32() returns is at most the largest INTEGER.
LEMMA ToInt32Bound ==
  ASSUME NEW n \in BodyAmounts
  PROVE  ToInt32(n) \in Int /\ ToInt32(n) <= MaxAmount
  <1> DEFINE width == 2 * (MaxAmount + 1)
             k == n + MaxAmount + 1
  <1>1. width \in Nat /\ width > 0 /\ k \in Nat /\ MaxAmount \in Nat
        /\ width = MaxAmount + 1 + MaxAmount + 1
    BY AmountAssumption
  <1>2. \A a, b \in Nat : b > 0 => a % b \in 0..(b - 1)
    OBVIOUS
  <1>3. k % width \in 0..(width - 1)
    BY <1>1, <1>2
  <1> HIDE DEF width, k
  <1>4. (k % width) - (MaxAmount + 1) \in Int
        /\ (k % width) - (MaxAmount + 1) <= MaxAmount
    BY <1>1, <1>3
  <1>5. QED BY <1>4 DEF ToInt32, width, k

\* An administrator waits for the transactions that hold the balance.
LEMMA SetBalanceKeepsInv ==
  ASSUME Inv, NEW u \in Users, NEW amount \in BodyAmounts,
         AdminSetBalance(u, amount)
  PROVE  Inv'
  <1>0. UNCHANGED <<now, hugs, cooldown, slots, blocks, expiring, req>>
    BY DEF AdminSetBalance
  <1>1. CASE ToInt32(amount) >= 0
    <2>1. ToInt32(amount) \in 0..MaxAmount
      BY <1>1, ToInt32Bound, AmountAssumption
    <2>2. balance[u] \in Int /\ spent[u] \in Int
      BY AmountAssumption DEF Inv, TypeOK
    <2>3. /\ balance' = [balance EXCEPT ![u] = ToInt32(amount)]
          /\ spent' = [spent EXCEPT ![u] = @ + balance[u] - ToInt32(amount)]
      BY <1>1 DEF AdminSetBalance
    <2>4. /\ balance' \in [Users -> 0..MaxAmount]
          /\ spent' \in [Users -> Int]
      BY <2>1, <2>2, <2>3, AmountAssumption DEF Inv, TypeOK
    <2>5. TypeOK'
      BY <1>0, <2>4 DEF Inv, TypeOK, RequestsOK, FieldsFit
    <2>6. ASSUME NEW w \in Workers
          PROVE  OwnWork(w)' /\ HeldHugs(w)' = HeldHugs(w)
                 /\ HeldBalances(w)' = HeldBalances(w)
      <3>1. OwnWork(w) /\ u \notin HeldBalances(w)
        BY WorkIsOwnWork DEF Inv, UncommittedWorkHolds, AdminSetBalance
      <3>2. HeldHugs(w)' = HeldHugs(w) /\ HeldBalances(w)' = HeldBalances(w)
        BY <1>0 DEF HeldHugs, HeldBalances, Parties
      <3>3. \A v \in HeldBalances(w) : balance'[v] = balance[v]
        <4> SUFFICES ASSUME NEW v \in HeldBalances(w)
                     PROVE  balance'[v] = balance[v]
          OBVIOUS
        <4>1. v # u
          BY <3>1
        <4>2. balance = [x \in Users |-> balance[x]]
          BY DEF Inv, TypeOK
        <4>3. QED BY <2>3, <4>1, <4>2
      <3>4. Price(w)' = Price(w)
        BY <1>0 DEF Price, SlotCost
      <3>5. req[w].pc \in AfterPayment => CanPay(w)'
        BY <1>0, <3>1, <3>3, <3>4
           DEF OwnWork, CanPay, HeldBalances, AfterPayment
      <3>6. OwnWork(w)'
        BY <1>0, <3>1, <3>2, <3>3, <3>5 DEF OwnWork
      <3>7. QED BY <3>2, <3>6
    <2>7. HandlersWorkHolds'
      BY <2>6 DEF Inv, UncommittedWorkHolds, HandlersWorkHolds, LocksExclusive,
         UpdatedHugIsPending, PaymentCovered, CreditFits, OwnWork
    <2>8. ExpiringIsPending'
      BY <1>0, <2>6 DEF Inv, UncommittedWorkHolds, ExpiringIsPending
    <2>9. QED BY <2>5, <2>7, <2>8 DEF Inv, UncommittedWorkHolds
  <1>2. CASE ~(ToInt32(amount) >= 0)
    <2>1. UNCHANGED <<balance, spent>>
      BY <1>2 DEF AdminSetBalance
    <2>2. TypeOK'
      BY <1>0, <2>1 DEF Inv, TypeOK, RequestsOK, FieldsFit
    <2>3. QED BY <1>0, <2>1, <2>2, AsideKeepsWork DEF Inv
  <1>3. QED BY <1>1, <1>2

THEOREM InitInv == Init => Inv
  <1> SUFFICES ASSUME Init PROVE Inv
    OBVIOUS
  <1>1. RequestsOK
    BY IdleFits DEF Init, RequestsOK
  <1>2. NoCooldown \in Cooldown
    BY AmountAssumption DEF NoCooldown, Cooldown, Times, LongAgo
  <1>3. TypeOK
    BY <1>1, <1>2, AmountAssumption DEF Init, TypeOK
  <1>4. \A w \in Workers : req[w].pc = "idle"
    BY DEF Init, Idle
  <1>5. UncommittedWorkHolds
    BY <1>4 DEF Init, UncommittedWorkHolds, HandlersWorkHolds, LocksExclusive,
       UpdatedHugIsPending, PaymentCovered, CreditFits, ExpiringIsPending,
       HeldHugs, HeldBalances, AfterHugUpdate, AfterPayment
  <1>6. QED BY <1>3, <1>5 DEF Inv

THEOREM NextInv == Inv /\ [Next]_vars => Inv'
  <1> SUFFICES ASSUME Inv, [Next]_vars PROVE Inv'
    OBVIOUS
  <1>1. ASSUME NEW w \in Workers, Arrival(w) PROVE Inv'
    BY <1>1, ArrivalTyped, ArrivalKeepsWork DEF Inv
  <1>2. ASSUME NEW w \in Workers, Step(w) PROVE Inv'
    BY <1>2, StepKeepsInv
  <1>3. ASSUME NEW w \in Workers, Fail(w) PROVE Inv'
    BY <1>3, FinishFits, QuietStep, FinishKeepsWork DEF Fail, Inv, tables
  <1>4. ASSUME NEW u \in Users, NEW v \in Users,
               BlockUser(u, v) \/ UnblockUser(u, v)
        PROVE  Inv'
    <2>1. blocks' \subseteq Users \X Users
      BY <1>4 DEF BlockUser, UnblockUser, Inv, TypeOK
    <2>2. UNCHANGED <<now, hugs, cooldown, balance, slots, expiring, req, spent>>
      BY <1>4 DEF BlockUser, UnblockUser
    <2>3. TypeOK'
      BY <2>1, <2>2 DEF Inv, TypeOK, RequestsOK, FieldsFit
    <2>4. QED BY <2>2, <2>3, AsideKeepsWork DEF Inv
  <1>5. ASSUME NEW h \in HugIds, ExpirePendingHug(h) PROVE Inv'
    BY <1>5, ExpireHugKeepsInv
  <1>6. CASE CommitExpired
    BY <1>6, CommitExpiredKeepsInv
  <1>7. CASE ExpiryFails
    <2>1. TypeOK'
      BY <1>7 DEF ExpiryFails, Inv, TypeOK, RequestsOK, FieldsFit
    <2>2. QED BY <1>7, <2>1, AsideKeepsWork DEF ExpiryFails, Inv
  <1>8. CASE Tick
    <2>1. now' \in 0..MaxTime
      BY <1>8, AmountAssumption DEF Tick, Inv, TypeOK
    <2>2. UNCHANGED <<hugs, cooldown, balance, slots, blocks, expiring, req, spent>>
      BY <1>8 DEF Tick, tables
    <2>3. TypeOK'
      BY <2>1, <2>2 DEF Inv, TypeOK, RequestsOK, FieldsFit
    <2>4. QED BY <2>2, <2>3, AsideKeepsWork DEF Inv
  <1>9. CASE UNCHANGED vars
    <2>1. UNCHANGED <<now, hugs, cooldown, balance, slots, blocks, expiring, req,
                      spent>>
      BY <1>9 DEF vars
    <2>2. TypeOK'
      BY <2>1 DEF Inv, TypeOK, RequestsOK, FieldsFit
    <2>3. QED BY <2>1, <2>2, AsideKeepsWork DEF Inv
  <1>10. ASSUME NEW u \in Users, NEW amount \in BodyAmounts,
                AdminSetBalance(u, amount)
         PROVE  Inv'
    BY <1>10, SetBalanceKeepsInv
  <1>11. QED
    BY <1>1, <1>2, <1>3, <1>4, <1>5, <1>6, <1>7, <1>8, <1>9, <1>10 DEF Next

THEOREM InvHolds == Spec => []Inv
  BY InitInv, NextInv, PTL DEF Spec

\* Every table keeps its types and its CHECK constraints, whatever the number
\* of users, hugs and requests in progress.
THEOREM TypeCorrect == Spec => []TypeOK
  <1>1. Inv => TypeOK
    BY DEF Inv
  <1>2. QED BY <1>1, InvHolds, PTL

\* The row locks and the guarded UPDATEs keep what a transaction has seen and
\* updated true until it commits, however many transactions run next to it.
THEOREM UncommittedWork == Spec => []UncommittedWorkHolds
  <1>1. Inv => UncommittedWorkHolds
    BY DEF Inv
  <1>2. QED BY <1>1, InvHolds, PTL

-----------------------------------------------------------------------------
(* Deadlocks *)

\* A transaction that has updated a row waits for no hug, so whoever waits for
\* a hug holds nothing.
LEMMA HugsComeFirst ==
  ASSUME NEW w \in Workers, WantedHugs(w) # {}
  PROVE  HeldHugs(w) = {} /\ HeldBalances(w) = {}
  <1>1. req[w].pc \in {"acceptHug", "declineHug", "cancelHug"}
    BY DEF WantedHugs
  <1>2. QED
    BY <1>1 DEF HeldHugs, HeldBalances, AfterHugUpdate, AfterPayment

\* Only an accept that has paid the giver both holds a balance and waits.
LEMMA OnlyPayReceiverHoldsAndWants ==
  ASSUME NEW w \in Workers, HeldBalances(w) # {},
         WantedHugs(w) # {} \/ WantedBalances(w) # {}
  PROVE  /\ req[w].pc = "payReceiver"
         /\ HeldBalances(w) = {hugs[req[w].hug].giver}
         /\ WantedBalances(w) = {hugs[req[w].hug].receiver}
  <1>1. WantedBalances(w) # {}
    BY HugsComeFirst
  <1>2. req[w].pc \in {"payGiver", "payReceiver", "payUpgrade", "paySlot"}
    BY <1>1 DEF WantedBalances
  <1>3. req[w].pc \in {"payReceiver", "startCooldown"} \cup AfterPayment
    BY DEF HeldBalances
  <1>4. req[w].pc = "payReceiver"
    BY <1>2, <1>3 DEF AfterPayment
  <1>5. QED
    BY <1>4 DEF HeldBalances, WantedBalances, AfterPayment

\* Of those that wait in a circle, one waits for a balance: a hug is held by an
\* accept that goes on to pay, or by the job, which waits for such an accept.
LEMMA SomeoneWaitsForABalance ==
  ASSUME NEW waiting \in SUBSET Workers, NEW job \in BOOLEAN,
         waiting # {}, AllWait(waiting, job)
  PROVE  \E x, y \in waiting :
           x # y /\ WantedBalances(x) \cap HeldBalances(y) # {}
  <1>1. ASSUME NEW x \in waiting, HeldHugs(x) # {}
        PROVE  \E y \in waiting :
                 x # y /\ WantedBalances(x) \cap HeldBalances(y) # {}
    <2>1. WantedHugs(x) = {}
      BY <1>1, HugsComeFirst
    <2>2. QED
      BY <2>1 DEF AllWait, WaitsFor
  <1>2. PICK x \in waiting : TRUE
    OBVIOUS
  <1>3. CASE \E y \in waiting : WaitsFor(x, y)
    <2>1. PICK y \in waiting : WaitsFor(x, y)
      BY <1>3
    <2>2. CASE WantedHugs(x) \cap HeldHugs(y) # {}
      BY <1>1, <2>2
    <2>3. CASE WantedBalances(x) \cap HeldBalances(y) # {}
      BY <2>1, <2>3 DEF WaitsFor
    <2>4. QED BY <2>1, <2>2, <2>3 DEF WaitsFor
  <1>4. CASE job
    <2>1. PICK y \in waiting : JobWaitsFor(y)
      BY <1>4 DEF AllWait
    <2>2. QED BY <1>1, <2>1 DEF JobWaitsFor
  <1>5. QED BY <1>2, <1>3, <1>4 DEF AllWait

LEMMA CirclesHaveRings == Inv => OnlyAcceptsDeadlock
  <1> SUFFICES ASSUME Inv, NEW waiting \in SUBSET Workers, NEW job \in BOOLEAN,
                      waiting # {}, AllWait(waiting, job)
               PROVE  \E ring \in SUBSET waiting : ring # {} /\ AcceptRing(ring)
    BY DEF OnlyAcceptsDeadlock
  <1> DEFINE ring == {x \in waiting : req[x].pc = "payReceiver"}
  <1>1. ASSUME NEW y \in waiting, HeldBalances(y) # {}
        PROVE  /\ y \in ring
               /\ HeldBalances(y) = {hugs[req[y].hug].giver}
               /\ WantedBalances(y) = {hugs[req[y].hug].receiver}
    <2>1. WantedHugs(y) # {} \/ WantedBalances(y) # {}
      BY DEF AllWait, WaitsFor
    <2>2. QED BY <1>1, <2>1, OnlyPayReceiverHoldsAndWants
  <1>2. ring # {}
    <2>1. PICK x \in waiting, y \in waiting :
            x # y /\ WantedBalances(x) \cap HeldBalances(y) # {}
      BY SomeoneWaitsForABalance
    <2>2. QED BY <1>1, <2>1
  <1>3. ASSUME NEW x \in ring
        PROVE  /\ WantedHugs(x) = {}
               /\ HeldBalances(x) = {hugs[req[x].hug].giver}
               /\ WantedBalances(x) = {hugs[req[x].hug].receiver}
    BY DEF WantedHugs, HeldBalances, WantedBalances, AfterPayment
  <1>4. ASSUME NEW x \in ring
        PROVE  /\ hugs[req[x].hug].status = "pending"
               /\ \E y \in ring \ {x} :
                    hugs[req[y].hug].giver = hugs[req[x].hug].receiver
    <2>1. hugs[req[x].hug].status = "pending"
      BY DEF Inv, UncommittedWorkHolds, HandlersWorkHolds, UpdatedHugIsPending,
         AfterHugUpdate
    <2>2. PICK y \in waiting : WaitsFor(x, y)
      BY <1>3 DEF AllWait
    <2>3. x # y /\ WantedBalances(x) \cap HeldBalances(y) # {}
      BY <1>3, <2>2 DEF WaitsFor
    <2>4. y \in ring /\ HeldBalances(y) = {hugs[req[y].hug].giver}
      BY <1>1, <2>3
    <2>5. hugs[req[y].hug].giver = hugs[req[x].hug].receiver
      BY <1>3, <2>3, <2>4
    <2>6. QED BY <2>1, <2>3, <2>4, <2>5
  <1>5. ASSUME NEW x \in ring, NEW y \in ring, x # y
        PROVE  hugs[req[x].hug].giver # hugs[req[y].hug].giver
    <2>1. HeldBalances(x) \cap HeldBalances(y) = {}
      BY <1>5 DEF Inv, UncommittedWorkHolds, HandlersWorkHolds, LocksExclusive
    <2>2. QED BY <1>3, <2>1
  <1>6. AcceptRing(ring)
    BY <1>4, <1>5 DEF AcceptRing
  <1>7. QED BY <1>2, <1>6

\* However many requests are in progress, they and the expiry job wait in a
\* circle only around a ring of accepts that pay each other's givers.
THEOREM OnlyAcceptsBlock == Spec => []OnlyAcceptsDeadlock
  BY CirclesHaveRings, InvHolds, PTL

=============================================================================
