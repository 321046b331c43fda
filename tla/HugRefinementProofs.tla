-------------------------- MODULE HugRefinementProofs --------------------------
(***************************************************************************)
(* HugService implements HugLedger, for any number of users, hugs and      *)
(* concurrent requests.                                                    *)
(***************************************************************************)
EXTENDS HugRefinement, HugLedgerProofs

-----------------------------------------------------------------------------
(* What a request has read and still relies on                             *)

Pricing == {"paySlot", "incrementSlots"}
Relying == Pricing \cup {"reduceCooldown"}

\* The slots a purchase was priced by are still there, and so is the row of
\* the cooldown an upgrade has found.
StillThere(r) ==
  /\ r.pc \in Pricing => r.count <= slots[r.user]
  /\ r.pc = "reduceCooldown" =>
       cooldown[{r.user, r.other}].seconds >= MinCooldown

ReadsHold == \A w \in Workers : StillThere(req[w])

LEMMA RowsStay ==
  ASSUME Inv, GoodRows, [Next]_vars, NEW p \in Pairs,
         cooldown[p].seconds >= MinCooldown
  PROVE  cooldown'[p].seconds >= MinCooldown
  BY CooldownsKeepStart

\* The fields StillThere reads fit.
Fits(r) ==
  /\ r.pc \in Relying => r.user \in Users
  /\ r.pc \in Pricing => r.count \in Nat
  /\ r.pc = "reduceCooldown" => {r.user, r.other} \in Pairs

LEMMA RequestFits ==
  ASSUME Inv, NEW w \in Workers PROVE Fits(req[w])
  <1>1. req[w] \in Requests /\ FieldsFit(req[w])
    BY DEF Inv, TypeOK, RequestsOK
  <1>2. QED
    BY <1>1 DEF Fits, FieldsFit, Requests, Relying, Pricing, Pairs, UpgradeSteps,
       SlotSteps

LEMMA StillThereStays ==
  ASSUME Inv, GoodRows, [Next]_vars, NEW r, Fits(r), StillThere(r)
  PROVE  /\ r.pc \in Pricing => r.count <= slots'[r.user]
         /\ r.pc = "reduceCooldown" =>
              cooldown'[{r.user, r.other}].seconds >= MinCooldown
  <1>1. r.pc \in Pricing => r.count <= slots'[r.user]
    BY SlotsGrow DEF Fits, StillThere, Relying
  <1>2. r.pc = "reduceCooldown" =>
          cooldown'[{r.user, r.other}].seconds >= MinCooldown
    BY RowsStay DEF Fits, StillThere
  <1>3. QED BY <1>1, <1>2

\* A step that replaces one request by one whose reads hold keeps ReadsHold.
LEMMA OneRequestHolds ==
  ASSUME Inv, GoodRows, ReadsHold, [Next]_vars, NEW w \in Workers, NEW r,
         req' = [req EXCEPT ![w] = r],
         r.pc \in Relying => Fits(r) /\ StillThere(r)
  PROVE  ReadsHold'
  <1> SUFFICES ASSUME NEW x \in Workers
               PROVE  StillThere(req[x])'
    BY DEF ReadsHold
  <1>0. req \in [Workers -> Requests]
    BY DEF Inv, TypeOK, RequestsOK
  <1>1. CASE x = w
    <2>1. req'[x] = r
      BY <1>0, <1>1
    <2>2. CASE r.pc \in Relying
      BY <2>1, <2>2, StillThereStays DEF StillThere
    <2>3. CASE r.pc \notin Relying
      BY <2>1, <2>3 DEF StillThere, Relying
    <2>4. QED BY <2>2, <2>3
  <1>2. CASE x # w
    <2>1. req'[x] = req[x]
      BY <1>0, <1>2
    <2>2. Fits(req[x]) /\ StillThere(req[x])
      BY RequestFits DEF ReadsHold
    <2>3. QED BY <2>1, <2>2, StillThereStays DEF StillThere
  <1>3. QED BY <1>1, <1>2

LEMMA FinishHolds ==
  ASSUME Inv, GoodRows, ReadsHold, [Next]_vars, NEW w \in Workers, NEW code,
         Finish(w, code)
  PROVE  ReadsHold'
  <1>1. Idle.pc \notin Relying
    BY DEF Idle, Relying, Pricing
  <1>2. QED BY <1>1, OneRequestHolds DEF Finish

LEMMA GotoHolds ==
  ASSUME Inv, GoodRows, ReadsHold, [Next]_vars, NEW w \in Workers, NEW pc,
         Goto(w, pc),
         \/ pc \notin Relying
         \/ pc \in Pricing /\ req[w].pc \in Pricing
         \/ /\ pc = "reduceCooldown" /\ req[w].user \in Users
            /\ {req[w].user, req[w].other} \in Pairs
            /\ cooldown[{req[w].user, req[w].other}].seconds >= MinCooldown
  PROVE  ReadsHold'
  <1>1. req[w] \in Requests /\ Fits(req[w]) /\ StillThere(req[w])
        /\ req \in [Workers -> Requests]
    BY RequestFits DEF Inv, TypeOK, RequestsOK, ReadsHold
  <1>2. PICK r : r = [req[w] EXCEPT !.pc = pc]
    OBVIOUS
  <1>3. r.pc = pc /\ r.user = req[w].user /\ r.count = req[w].count
        /\ r.other = req[w].other
    BY <1>1, <1>2 DEF Requests
  <1>4. req' = [req EXCEPT ![w] = r]
    BY <1>1, <1>2 DEF Goto
  <1>5. r.pc \in Relying => Fits(r) /\ StillThere(r)
    BY <1>1, <1>3 DEF Fits, StillThere, Pricing, Relying
  <1>6. QED BY <1>4, <1>5, OneRequestHolds

\* ReadSlots counts the slots a purchase is priced by, and GetCooldown finds the
\* row an upgrade reduces; the other statements read nothing that is relied on.
LEMMA StepKeepsReads ==
  ASSUME Inv, GoodRows, ReadsHold, [Next]_vars, NEW w \in Workers, Step(w)
  PROVE  ReadsHold'
  <1> USE DEF tables
  <1>0. req[w] \in Requests /\ FieldsFit(req[w]) /\ req \in [Workers -> Requests]
    BY DEF Inv, TypeOK, RequestsOK
  <1>1. CASE ReadSlots(w)
    <2> DEFINE r == [req[w] EXCEPT !.pc = "paySlot", !.count = slots[req[w].user]]
    <2>1. req' = [req EXCEPT ![w] = r] \/ Finish(w, "MAX_SLOTS_REACHED")
      BY <1>0, <1>1 DEF ReadSlots
    <2>2. req[w].user \in Users /\ slots[req[w].user] \in Nat
      BY <1>0, <1>1, SlotsGrow DEF ReadSlots, FieldsFit, SlotSteps, Requests, Inv,
         TypeOK, UpgradeSteps, SuggestSteps
    <2>3. r.user = req[w].user /\ r.count = slots[req[w].user] /\ r.pc = "paySlot"
      BY <1>0 DEF Requests
    <2> HIDE DEF r
    <2>4. Fits(r) /\ StillThere(r)
      BY <2>2, <2>3 DEF Fits, StillThere
    <2>5. CASE Finish(w, "MAX_SLOTS_REACHED")
      BY <2>5, FinishHolds
    <2>6. CASE req' = [req EXCEPT ![w] = r]
      BY <2>4, <2>6, OneRequestHolds
    <2>7. QED BY <2>1, <2>5, <2>6
  <1>2. CASE GetCooldown(w)
    <2> DEFINE p == {req[w].user, req[w].other}
    <2>1. CASE req[w].user = req[w].other
      BY <1>2, <2>1, FinishHolds DEF GetCooldown
    <2>2. CASE req[w].user # req[w].other
      <3>1. req[w].user \in Users /\ p \in Pairs
        BY <1>0, <1>2, <2>2 DEF GetCooldown, FieldsFit, UpgradeSteps, Pairs
      <3>2. CASE cooldown[p] = NoCooldown
        <4>1. Goto(w, "createCooldown")
          BY <1>2, <2>2, <3>2 DEF GetCooldown
        <4>2. QED BY <4>1, GotoHolds DEF Relying, Pricing
      <3>3. CASE cooldown[p] # NoCooldown
        <4>1. Goto(w, "reduceCooldown")
          BY <1>2, <2>2, <3>3 DEF GetCooldown
        <4>2. cooldown[p].seconds >= MinCooldown
          BY <3>1, <3>3 DEF GoodRows, GoodRow
        <4>3. QED BY <3>1, <4>1, <4>2, GotoHolds
      <3>4. QED BY <3>2, <3>3
    <2>3. QED BY <2>1, <2>2
  <1>3. CASE CheckSuggestEligibility(w)
    <2> DEFINE u == req[w].user
               v == req[w].other
               r == [req[w] EXCEPT !.pc = "getUserSlots", !.began = now,
                       !.count = Cardinality(Outgoing(u, now)),
                       !.pair = PendingBetween(u, v, now) # {},
                       !.reverse = PendingBetween(v, u, now) # {}]
    <2>1. req' = [req EXCEPT ![w] = r]
      BY <1>3 DEF CheckSuggestEligibility
    <2>2. r.pc = "getUserSlots"
      BY <1>0 DEF Requests
    <2>3. QED BY <2>1, <2>2, OneRequestHolds DEF Relying, Pricing
  <1>4. CASE GetUserSlots(w)
    <2> DEFINE r == [Request("checkCooldown", req[w].user, req[w].other, NoOne)
                       EXCEPT !.began = req[w].began]
    <2>1. req' = [req EXCEPT ![w] = r] \/ \E code : Finish(w, code)
      BY <1>4 DEF GetUserSlots
    <2>2. r.pc = "checkCooldown"
      BY DEF Request, Idle
    <2>3. QED BY <2>1, <2>2, FinishHolds, OneRequestHolds DEF Relying, Pricing
  <1>5. CASE InsertHug(w)
    <2>1. Idle.pc \notin Relying
      BY DEF Idle, Relying, Pricing
    <2>2. req' = [req EXCEPT ![w] = Idle]
      BY <1>5 DEF InsertHug
    <2>3. QED BY <2>1, <2>2, OneRequestHolds
  <1>6. CASE DeductBalance(w)
    <2>1. \/ \E code : Finish(w, code)
          \/ Goto(w, "getCooldown")
          \/ Goto(w, "incrementSlots") /\ req[w].pc = "paySlot"
      BY <1>6 DEF DeductBalance
    <2>2. QED BY <2>1, FinishHolds, GotoHolds DEF Relying, Pricing
  <1>7. CASE ~ReadSlots(w) /\ ~CheckSuggestEligibility(w) /\ ~GetUserSlots(w)
             /\ ~InsertHug(w) /\ ~DeductBalance(w) /\ ~GetCooldown(w)
    <2>1. \/ \E code : Finish(w, code)
          \/ \E pc : Goto(w, pc) /\ pc \notin Relying
      BY <1>7 DEF Step, IsBlockedByEither, CheckCooldown, UpdateHug,
         UpdateCancelledHug, GetHugByID, PayGiver, PayReceiver, AddBalance,
         StartCooldown, SetDeclineCooldown, ReduceCooldown,
         IncrementSlots, AbortDeadlocked, Relying, Pricing
    <2>2. QED BY <2>1, FinishHolds, GotoHolds
  <1>8. QED BY <1>1, <1>2, <1>3, <1>4, <1>5, <1>6, <1>7

LEMMA NextKeepsReads ==
  ASSUME Inv, GoodRows, ReadsHold, [Next]_vars
  PROVE  ReadsHold'
  <1> USE DEF tables
  <1>1. CASE UNCHANGED req
    BY <1>1, RequestFits, StillThereStays DEF ReadsHold, StillThere
  <1>2. ASSUME NEW w \in Workers, Step(w) PROVE ReadsHold'
    BY <1>2, StepKeepsReads
  <1>3. ASSUME NEW w \in Workers, Fail(w) PROVE ReadsHold'
    BY <1>3, FinishHolds DEF Fail
  <1>4. ASSUME NEW w \in Workers, Arrival(w) PROVE ReadsHold'
    <2> USE DEF Arrive, Request, Transaction, Idle, Relying, Pricing
    <2>1. ASSUME NEW u \in Users, NEW v \in Users,
                 \/ SuggestHug(w, u, v) \/ UpgradeCooldown(w, u, v)
                 \/ BuyHugSlot(w, u)
          PROVE  ReadsHold'
      BY <2>1, OneRequestHolds DEF SuggestHug, UpgradeCooldown, BuyHugSlot
    <2>2. ASSUME NEW u \in Users, NEW h \in KnownHugs,
                 \/ AcceptHug(w, u, h) \/ DeclineHug(w, u, h)
                 \/ CancelHug(w, u, h)
          PROVE  ReadsHold'
      BY <2>2, OneRequestHolds DEF AcceptHug, DeclineHug, CancelHug
    <2>3. ASSUME NEW u \in Users, SuggestHugToSelf(w, u) PROVE UNCHANGED req
      BY <2>3 DEF SuggestHugToSelf
    <2>4. QED BY <1>1, <1>4, <2>1, <2>2, <2>3 DEF Arrival
  <1>5. CASE \/ Tick \/ UNCHANGED vars \/ CommitExpired \/ ExpiryFails
             \/ \E a, b \in Users : BlockUser(a, b) \/ UnblockUser(a, b)
             \/ \E a \in Users, n \in BodyAmounts : AdminSetBalance(a, n)
             \/ \E h \in HugIds : ExpirePendingHug(h)
    BY <1>1, <1>5 DEF Tick, vars, BlockUser, UnblockUser, CommitExpired,
       ExpiryFails, AdminSetBalance, ExpirePendingHug
  <1>6. QED BY <1>2, <1>3, <1>4, <1>5 DEF Next

-----------------------------------------------------------------------------
(* The mapped state *)

LEMMA RowOfHug ==
  ASSUME NEW row \in Hug
  PROVE  /\ row # NoHug
         /\ LedgerRow(row) = [status |-> row.status, giver |-> row.giver,
                             receiver |-> row.receiver]
         /\ \A s \in Statuses :
              LedgerRow([row EXCEPT !.status = s])
                = [LedgerRow(row) EXCEPT !.status = s]
  <1>1. row # NoHug
    BY DEF Hug, NoHug, Statuses
  <1>2. ASSUME NEW s \in Statuses
        PROVE  LedgerRow([row EXCEPT !.status = s])
                 = [LedgerRow(row) EXCEPT !.status = s]
    <2>1. [row EXCEPT !.status = s] \in Hug
      BY DEF Hug
    <2>2. [row EXCEPT !.status = s] # NoHug
      BY <2>1 DEF Hug, NoHug, Statuses
    <2>3. QED BY <1>1, <2>2 DEF LedgerRow, Hug
  <1>3. QED BY <1>1, <1>2 DEF LedgerRow

\* A hug's status and parties are those the ledger shows.
LEMMA MappedHug ==
  ASSUME Inv, NEW h \in HugIds, hugs[h].status = "pending"
  PROVE  /\ LedgerHugs[h].status = "pending"
         /\ Ledger!Parties(h) = Parties(h)
         /\ Parties(h) \subseteq Users
  BY PendingIsAHug, RowOfHug DEF Inv, LedgerHugs, Ledger!Parties, Parties

\* Changing a status changes it in the ledger.
LEMMA MappedStatus ==
  ASSUME Inv, NEW h \in HugIds, hugs[h].status = "pending",
         NEW s \in Statuses, Becomes(h, s)
  PROVE  LedgerHugs' = [LedgerHugs EXCEPT ![h].status = s]
  <1>0. hugs[h] \in Hug /\ hugs \in [HugIds -> Hug \cup {NoHug}]
    BY PendingIsAHug DEF Inv, TypeOK
  <1>1. ASSUME NEW g \in HugIds
        PROVE  LedgerRow(hugs'[g])
                 = IF g = h THEN [LedgerRow(hugs[g]) EXCEPT !.status = s]
                            ELSE LedgerRow(hugs[g])
    <2>1. CASE g = h
      <3>1. hugs'[g] = [hugs[g] EXCEPT !.status = s]
        BY <1>0, <2>1 DEF Becomes
      <3>2. QED BY <1>0, <2>1, <3>1, RowOfHug
    <2>2. CASE g # h
      BY <1>0, <2>2 DEF Becomes
    <2>3. QED BY <2>1, <2>2
  <1>2. QED BY <1>1 DEF LedgerHugs

LEMMA MappedCooldown ==
  ASSUME Inv, NEW p \in Pairs, NEW row, cooldown' = [cooldown EXCEPT ![p] = row]
  PROVE  LedgerSeconds' = [LedgerSeconds EXCEPT ![p] = row.seconds]
  <1>1. cooldown \in [Pairs -> Cooldown]
    BY DEF Inv, TypeOK
  <1>2. \A q \in Pairs : cooldown'[q] = IF q = p THEN row ELSE cooldown[q]
    BY <1>1
  <1>3. \A q \in Pairs : cooldown'[q].seconds
                         = IF q = p THEN row.seconds ELSE cooldown[q].seconds
    BY <1>2
  <1>4. LedgerSeconds' = [q \in Pairs |-> cooldown'[q].seconds]
    BY DEF LedgerSeconds
  <1>5. QED BY <1>3, <1>4 DEF LedgerSeconds

\* Both upserts open a cooldown that is not there and keep one that is.
LEMMA UpsertOpens ==
  ASSUME NEW row \in Cooldown, GoodRow(row), NEW t
  PROVE  /\ UpsertCooldown(row, t).seconds = Ledger!Opened(row.seconds)
         /\ SetDecline(row, t).seconds = Ledger!Opened(row.seconds)
  <1>1. CASE row = NoCooldown
    BY <1>1 DEF NoCooldown, UpsertCooldown, SetDecline, Ledger!Opened
  <1>2. CASE row # NoCooldown
    <2>1. row.seconds # 0
      BY <1>2, AmountAssumption DEF GoodRow, Cooldown
    <2>2. QED
      BY <1>2, <2>1 DEF UpsertCooldown, SetDecline, Ledger!Opened, Cooldown
  <1>3. QED BY <1>1, <1>2

-----------------------------------------------------------------------------
(* Every step is a step of the ledger, or changes nothing in it *)

RefInv == Inv /\ CooldownInv /\ ReadsHold

LEMMA QuietInLedger ==
  ASSUME UNCHANGED <<hugs, cooldown, balance, slots>>
  PROVE  UNCHANGED Ledger!vars
  BY DEF Ledger!vars, LedgerHugs, LedgerSeconds

LEMMA InsertSuggests ==
  ASSUME RefInv, NEW w \in Workers, InsertHug(w)
  PROVE  Ledger!Next
  <1> DEFINE row == [status |-> "pending", giver |-> req[w].user,
                     receiver |-> req[w].other, created |-> req[w].began]
  <1>1. PICK h \in HugIds : hugs[h] = NoHug /\ hugs' = [hugs EXCEPT ![h] = row]
    BY DEF InsertHug
  <1>2. /\ req[w].user \in Users /\ req[w].other \in Users
        /\ req[w].user # req[w].other /\ req[w].began \in 0..MaxTime
    BY DEF RefInv, InsertHug, Inv, TypeOK, RequestsOK, Requests, FieldsFit,
       SuggestSteps
  <1>3. row \in Hug
    BY <1>2 DEF Hug, Statuses
  <1>4. LedgerRow(row) = Ledger!Hug("pending", req[w].user, req[w].other)
    BY <1>3, RowOfHug DEF Ledger!Hug
  <1>5. LedgerHugs[h] = Ledger!NoHug
    BY <1>1 DEF LedgerHugs, LedgerRow, NoHug, Ledger!NoHug
  <1>6. LedgerHugs' = [LedgerHugs EXCEPT ![h] = LedgerRow(row)]
    <2>1. \A g \in HugIds : hugs'[g] = IF g = h THEN row ELSE hugs[g]
      BY <1>1 DEF RefInv, Inv, TypeOK
    <2>2. QED BY <2>1 DEF LedgerHugs
  <1>7. UNCHANGED <<balance, slots, LedgerSeconds>>
    BY DEF InsertHug, LedgerSeconds
  <1>8. Ledger!Suggest(h, req[w].user, req[w].other)
    BY <1>2, <1>4, <1>5, <1>6, <1>7 DEF Ledger!Suggest
  <1>9. QED BY <1>2, <1>8 DEF Ledger!Next

LEMMA CancelCancels ==
  ASSUME RefInv, NEW w \in Workers, UpdateCancelledHug(w)
  PROVE  Ledger!Next \/ UNCHANGED Ledger!vars
  <1> DEFINE h == req[w].hug
  <1>0. UNCHANGED <<cooldown, balance, slots>>
    BY DEF UpdateCancelledHug
  <1>1. CASE Matches(w)
    <2>1. h \in HugIds /\ hugs[h].status = "pending"
      BY <1>1 DEF Matches, HugRow, NoHug
    <2>2. Becomes(h, "cancelled") /\ "cancelled" \in Statuses
      BY <1>1 DEF UpdateCancelledHug, Becomes, Statuses
    <2>3. LedgerHugs' = [LedgerHugs EXCEPT ![h].status = "cancelled"]
      BY <2>1, <2>2, MappedStatus DEF RefInv
    <2>4. UNCHANGED <<balance, slots, LedgerSeconds>>
      BY <1>0 DEF LedgerSeconds
    <2>5. Ledger!Cancel(h)
      BY <2>1, <2>3, <2>4, MappedHug DEF RefInv, Ledger!Cancel
    <2>6. QED BY <2>1, <2>5 DEF Ledger!Next
  <1>2. CASE ~Matches(w)
    BY <1>0, <1>2, QuietInLedger DEF UpdateCancelledHug
  <1>3. QED BY <1>1, <1>2

\* The hug of an answer about to commit is pending and between two users.
LEMMA AnsweredHug ==
  ASSUME RefInv, NEW w \in Workers, req[w].pc \in AfterHugUpdate
  PROVE  /\ req[w].hug \in HugIds /\ hugs[req[w].hug].status = "pending"
         /\ Parties(req[w].hug) \in Pairs
         /\ Parties(req[w].hug) \subseteq Users
  <1>1. PICK h : h = req[w].hug
    OBVIOUS
  <1>2. /\ h \in HugIds /\ hugs[h].status = "pending" /\ hugs[h] \in Hug
        /\ hugs[h].giver \in Users /\ hugs[h].receiver \in Users
    BY <1>1, UpdatedHug DEF RefInv
  <1>3. hugs[h].giver # hugs[h].receiver
    BY <1>2, RowOfHug DEF RefInv, CooldownInv, TwoParties
  <1>4. QED BY <1>1, <1>2, <1>3 DEF Parties, Pairs

LEMMA AcceptCompletes ==
  ASSUME RefInv, NEW w \in Workers, StartCooldown(w)
  PROVE  Ledger!Next
  <1>0. PICK h : h = req[w].hug
    OBVIOUS
  <1>1. /\ h \in HugIds /\ hugs[h].status = "pending"
        /\ Parties(h) \in Pairs /\ Parties(h) \subseteq Users
    BY <1>0, AnsweredHug DEF StartCooldown, AfterHugUpdate
  <1>2. LedgerHugs[h].status = "pending" /\ Ledger!Parties(h) = Parties(h)
    BY <1>1, MappedHug DEF RefInv
  <1>3. \A u \in Parties(h) : balance[u] < MaxAmount
    <2>1. HeldBalances(w) = Parties(h)
      BY <1>0 DEF StartCooldown, HeldBalances, AfterPayment
    <2>2. QED
      BY <2>1 DEF RefInv, Inv, UncommittedWorkHolds, HandlersWorkHolds,
         CreditFits, StartCooldown
  <1>4. LedgerHugs' = [LedgerHugs EXCEPT ![h].status = "completed"]
    <2>1. Becomes(h, "completed") /\ "completed" \in Statuses
      BY <1>0 DEF StartCooldown, Becomes, Statuses
    <2>2. QED BY <1>1, <2>1, MappedStatus DEF RefInv
  <1>5. balance' = [u \in Users |->
                     IF u \in Parties(h) THEN balance[u] + 1 ELSE balance[u]]
        /\ UNCHANGED slots
    BY <1>0 DEF StartCooldown, Credit
  <1>6. LedgerSeconds' = [LedgerSeconds EXCEPT ![Parties(h)] = Ledger!Opened(@)]
    <2>1. PICK row : row = UpsertCooldown(cooldown[Parties(h)], req[w].began)
      OBVIOUS
    <2>2. cooldown' = [cooldown EXCEPT ![Parties(h)] = row]
      BY <1>0, <2>1 DEF StartCooldown
    <2>3. /\ cooldown[Parties(h)] \in Cooldown
          /\ GoodRow(cooldown[Parties(h)])
      BY <1>1 DEF RefInv, Inv, TypeOK, CooldownInv, GoodRows
    <2>4. row.seconds = Ledger!Opened(LedgerSeconds[Parties(h)])
      BY <1>1, <2>1, <2>3, UpsertOpens DEF LedgerSeconds
    <2>5. QED BY <1>1, <2>2, <2>4, MappedCooldown DEF RefInv
  <1>7. Ledger!Complete(h)
    BY <1>2, <1>3, <1>4, <1>5, <1>6 DEF Ledger!Complete
  <1>8. QED BY <1>1, <1>7 DEF Ledger!Next

LEMMA DeclineDeclines ==
  ASSUME RefInv, NEW w \in Workers, SetDeclineCooldown(w)
  PROVE  Ledger!Next
  <1>0. PICK h : h = req[w].hug
    OBVIOUS
  <1>1. /\ h \in HugIds /\ hugs[h].status = "pending"
        /\ Parties(h) \in Pairs
    BY <1>0, AnsweredHug DEF SetDeclineCooldown, AfterHugUpdate
  <1>2. LedgerHugs[h].status = "pending" /\ Ledger!Parties(h) = Parties(h)
    BY <1>1, MappedHug DEF RefInv
  <1>3. LedgerHugs' = [LedgerHugs EXCEPT ![h].status = "declined"]
    <2>1. Becomes(h, "declined") /\ "declined" \in Statuses
      BY <1>0 DEF SetDeclineCooldown, Becomes, Statuses
    <2>2. QED BY <1>1, <2>1, MappedStatus DEF RefInv
  <1>4. LedgerSeconds' = [LedgerSeconds EXCEPT ![Parties(h)] = Ledger!Opened(@)]
    <2>1. PICK row :
            row = SetDecline(cooldown[Parties(h)], now + DeclineCooldown)
      OBVIOUS
    <2>2. cooldown' = [cooldown EXCEPT ![Parties(h)] = row]
      BY <1>0, <2>1 DEF SetDeclineCooldown
    <2>3. /\ cooldown[Parties(h)] \in Cooldown
          /\ GoodRow(cooldown[Parties(h)])
      BY <1>1 DEF RefInv, Inv, TypeOK, CooldownInv, GoodRows
    <2>4. row.seconds = Ledger!Opened(LedgerSeconds[Parties(h)])
      BY <1>1, <2>1, <2>3, UpsertOpens DEF LedgerSeconds
    <2>5. QED BY <1>1, <2>2, <2>4, MappedCooldown DEF RefInv
  <1>5. UNCHANGED <<balance, slots>>
    BY DEF SetDeclineCooldown
  <1>6. Ledger!Decline(h)
    BY <1>2, <1>3, <1>4, <1>5 DEF Ledger!Decline
  <1>7. QED BY <1>1, <1>6 DEF Ledger!Next

\* What worker w has paid at its commit was in the balance.
LEMMA CoveredCharge ==
  ASSUME RefInv, NEW w \in Workers, req[w].pc \in AfterPayment
  PROVE  /\ req[w].user \in Users
         /\ Price(w) <= balance[req[w].user]
  <1>1. req[w].user \in Users
    BY DEF RefInv, Inv, TypeOK, RequestsOK, FieldsFit, AfterPayment
  <1>2. CanPay(w)
    BY DEF RefInv, Inv, UncommittedWorkHolds, HandlersWorkHolds, PaymentCovered
  <1>3. Price(w) \in Nat /\ balance[req[w].user] \in Int
    BY <1>1, PriceNat, AmountAssumption DEF RefInv, Inv, TypeOK
  <1>4. QED BY <1>1, <1>2, <1>3 DEF CanPay

LEMMA UpgradeShortens ==
  ASSUME RefInv, NEW w \in Workers, ReduceCooldown(w)
  PROVE  Ledger!Next
  <1>0. PICK u, v : u = req[w].user /\ v = req[w].other
    OBVIOUS
  <1>1. u \in Users /\ v \in Users /\ u # v /\ {u, v} \in Pairs
    BY <1>0 DEF ReduceCooldown, RefInv, Inv, TypeOK, RequestsOK, FieldsFit,
       UpgradeSteps, Pairs
  <1>2. Price(w) = UpgradeCost /\ UpgradeCost <= balance[u]
    BY <1>0, CoveredCharge DEF ReduceCooldown, Price, AfterPayment
  <1>3. balance' = [balance EXCEPT ![u] = @ - UpgradeCost]
    BY <1>0, <1>2 DEF ReduceCooldown, Charge
  <1>4. LedgerSeconds' =
          [LedgerSeconds EXCEPT ![{u, v}] = Ledger!Reduced(Ledger!Opened(@))]
    <2>1. PICK old : old = cooldown[{u, v}] /\ old \in Cooldown /\ GoodRow(old)
      BY <1>1 DEF RefInv, Inv, TypeOK, CooldownInv, GoodRows
    <2>2. PICK row : row = IF req[w].pc = "createCooldown"
                           THEN UpsertCooldown(old, req[w].began) ELSE old
      OBVIOUS
    <2>3. cooldown' = [cooldown EXCEPT ![{u, v}] =
                         [row EXCEPT !.seconds = Reduced(row.seconds)]]
      BY <1>0, <2>1, <2>2 DEF ReduceCooldown
    <2>4. /\ row \in Cooldown
          /\ Reduced(row.seconds) = Ledger!Reduced(Ledger!Opened(old.seconds))
      <3>1. req[w].began \in 0..MaxTime
        BY DEF RefInv, Inv, TypeOK, RequestsOK, Requests
      <3>2. CASE req[w].pc = "createCooldown"
        <4>1. row \in Cooldown /\ row.seconds = Ledger!Opened(old.seconds)
          BY <2>1, <2>2, <3>1, <3>2, UpsertTyped, UpsertOpens
        <4>2. QED BY <4>1 DEF Reduced, Ledger!Reduced
      <3>3. CASE req[w].pc # "createCooldown"
        <4>1. row = old
          BY <2>2, <3>3
        <4>2. old.seconds >= MinCooldown
          BY <1>0, <2>1, <3>3 DEF RefInv, ReadsHold, StillThere, ReduceCooldown
        <4>3. old.seconds # 0
          BY <2>1, <4>2, AmountAssumption DEF Cooldown
        <4>4. QED
          BY <2>1, <4>1, <4>3 DEF Reduced, Ledger!Reduced, Ledger!Opened
      <3>4. QED BY <3>2, <3>3
    <2>5. PICK new : new = [row EXCEPT !.seconds = Reduced(row.seconds)]
      OBVIOUS
    <2>6. /\ cooldown' = [cooldown EXCEPT ![{u, v}] = new]
          /\ new.seconds
               = Ledger!Reduced(Ledger!Opened(LedgerSeconds[{u, v}]))
      BY <1>1, <2>1, <2>3, <2>4, <2>5 DEF Cooldown, LedgerSeconds
    <2>7. QED BY <1>1, <2>6, MappedCooldown DEF RefInv
  <1>5. UNCHANGED <<LedgerHugs, slots>>
    BY DEF ReduceCooldown, LedgerHugs
  <1>6. Ledger!ShortenCooldown(u, v)
    BY <1>1, <1>2, <1>3, <1>4, <1>5 DEF Ledger!ShortenCooldown
  <1>7. QED BY <1>1, <1>6 DEF Ledger!Next

LEMMA PurchaseBuys ==
  ASSUME RefInv, NEW w \in Workers, IncrementSlots(w)
  PROVE  Ledger!Next \/ UNCHANGED Ledger!vars
  <1>0. PICK u : u = req[w].user
    OBVIOUS
  <1>1. CASE slots[u] < MaxHugSlots
    <2>0. PICK n : n = req[w].count
      OBVIOUS
    <2>1. /\ n \in 1..MaxHugSlots /\ n <= slots[u] /\ u \in Users
          /\ slots[u] \in Nat
      <3>1. req[w].pc = "incrementSlots"
        BY DEF IncrementSlots
      <3>2. FieldsFit(req[w]) /\ slots \in [Users -> 1..MaxHugSlots]
        BY DEF RefInv, Inv, TypeOK, RequestsOK
      <3>3. u \in Users /\ n \in 1..MaxHugSlots
        BY <1>0, <2>0, <3>1, <3>2 DEF FieldsFit
      <3>4. n <= slots[u]
        BY <1>0, <2>0, <3>1 DEF RefInv, ReadsHold, StillThere, Pricing
      <3>5. slots[u] \in Nat
        BY <3>2, <3>3
      <3>6. QED BY <3>3, <3>4, <3>5
    <2>2. n \in 1..slots[u]
      BY <2>1, AmountAssumption
    <2>3. Price(w) = Ledger!SlotCost(n + 1)
      BY <2>0 DEF IncrementSlots, Price, SlotCost, Ledger!SlotCost
    <2>4. Ledger!SlotCost(n + 1) <= balance[u]
      BY <1>0, <2>3, CoveredCharge DEF IncrementSlots, AfterPayment
    <2>5. /\ balance' = [balance EXCEPT ![u] = @ - Ledger!SlotCost(n + 1)]
          /\ slots' = [slots EXCEPT ![u] = @ + 1]
      BY <1>0, <1>1, <2>3 DEF IncrementSlots, Charge
    <2>6. UNCHANGED <<LedgerHugs, LedgerSeconds>>
      BY DEF IncrementSlots, LedgerHugs, LedgerSeconds
    <2>7. Ledger!BuySlot(u)
      BY <1>1, <2>2, <2>4, <2>5, <2>6 DEF Ledger!BuySlot
    <2>8. QED BY <2>1, <2>7 DEF Ledger!Next
  <1>2. CASE ~(slots[u] < MaxHugSlots)
    BY <1>0, <1>2, QuietInLedger DEF IncrementSlots
  <1>3. QED BY <1>1, <1>2

LEMMA ExpiryExpires ==
  ASSUME RefInv, CommitExpired
  PROVE  Ledger!Next
  <1>1. expiring \subseteq HugIds
    BY DEF RefInv, Inv, TypeOK
  <1>2. \A h \in expiring : hugs[h].status = "pending" /\ hugs[h] \in Hug
    BY <1>1, ExpiringPending, PendingIsAHug DEF RefInv, Inv
  <1>3. \A h \in expiring : LedgerHugs[h].status = "pending"
    BY <1>1, <1>2, MappedHug DEF RefInv
  <1>4. ASSUME NEW h \in HugIds
        PROVE  LedgerRow(hugs'[h])
                 = IF h \in expiring
                   THEN [LedgerRow(hugs[h]) EXCEPT !.status = "expired"]
                   ELSE LedgerRow(hugs[h])
    BY <1>2, RowOfHug DEF CommitExpired, Statuses
  <1>5. LedgerHugs' = [h \in HugIds |-> IF h \in expiring
          THEN [LedgerHugs[h] EXCEPT !.status = "expired"] ELSE LedgerHugs[h]]
    BY <1>4 DEF LedgerHugs
  <1>6. UNCHANGED <<balance, slots, LedgerSeconds>>
    BY DEF CommitExpired, LedgerSeconds
  <1>7. Ledger!Expire(expiring)
    BY <1>3, <1>5, <1>6 DEF Ledger!Expire
  <1>8. QED BY <1>1, <1>7 DEF Ledger!Next

LEMMA AdministratorSets ==
  ASSUME RefInv, NEW u \in Users, NEW n \in BodyAmounts, AdminSetBalance(u, n)
  PROVE  Ledger!Next \/ UNCHANGED Ledger!vars
  <1>0. UNCHANGED <<hugs, cooldown, slots>>
    BY DEF AdminSetBalance
  <1>1. CASE ToInt32(n) >= 0
    <2>1. ToInt32(n) \in LedgerAmounts
      BY <1>1, ToInt32Bound, AmountAssumption DEF LedgerAmounts
    <2>2. UNCHANGED <<LedgerHugs, slots, LedgerSeconds>>
      BY <1>0 DEF LedgerHugs, LedgerSeconds
    <2>3. Ledger!SetBalance(u, ToInt32(n))
      BY <1>1, <2>2 DEF AdminSetBalance, Ledger!SetBalance
    <2>4. QED BY <2>1, <2>3 DEF Ledger!Next
  <1>2. CASE ~(ToInt32(n) >= 0)
    BY <1>0, <1>2, QuietInLedger DEF AdminSetBalance
  <1>3. QED BY <1>1, <1>2

LEMMA StepRefines ==
  ASSUME RefInv, [Next]_vars
  PROVE  Ledger!Next \/ UNCHANGED Ledger!vars
  <1> USE DEF tables
  <1>1. ASSUME NEW w \in Workers, Arrival(w) \/ Fail(w)
        PROVE  UNCHANGED <<hugs, cooldown, balance, slots>>
    BY <1>1 DEF Arrival, SuggestHugToSelf, SuggestHug, UpgradeCooldown,
       AcceptHug, DeclineHug, CancelHug, BuyHugSlot, Arrive, Fail
  <1>2. ASSUME NEW w \in Workers, Step(w), ~InsertHug(w),
               ~UpdateCancelledHug(w), ~StartCooldown(w),
               ~SetDeclineCooldown(w), ~ReduceCooldown(w), ~IncrementSlots(w)
        PROVE  UNCHANGED <<hugs, cooldown, balance, slots>>
    BY <1>2 DEF Step, IsBlockedByEither, CheckSuggestEligibility, GetUserSlots,
       CheckCooldown, UpdateHug, GetHugByID, PayGiver, PayReceiver, AddBalance,
       DeductBalance, GetCooldown, ReadSlots, AbortDeadlocked
  <1>3. ASSUME \/ Tick \/ UNCHANGED vars \/ ExpiryFails
               \/ \E a, b \in Users : BlockUser(a, b) \/ UnblockUser(a, b)
               \/ \E h \in HugIds : ExpirePendingHug(h)
        PROVE  UNCHANGED <<hugs, cooldown, balance, slots>>
    BY <1>3 DEF Tick, vars, BlockUser, UnblockUser, ExpiryFails, ExpirePendingHug
  <1>4. ASSUME NEW w \in Workers, Step(w)
        PROVE  Ledger!Next \/ UNCHANGED Ledger!vars
    BY <1>2, <1>4, QuietInLedger, InsertSuggests, CancelCancels,
       AcceptCompletes, DeclineDeclines, UpgradeShortens, PurchaseBuys
  <1>5. QED
    BY <1>1, <1>3, <1>4, QuietInLedger, ExpiryExpires, AdministratorSets DEF Next

THEOREM RefInvHolds == Spec => []RefInv
  <1>1. Init => CooldownInv /\ ReadsHold
    BY DEF Init, CooldownInv, GoodRows, GoodRow, TwoParties,
       CompletedHugHasCooldown, NoHug, ReadsHold, StillThere, Idle, Pricing
  <1>2. Inv /\ CooldownInv /\ ReadsHold /\ [Next]_vars
          => (CooldownInv /\ ReadsHold)'
    BY StepKeepsCooldownInv, NextKeepsReads DEF CooldownInv
  <1>3. Inv /\ CooldownInv /\ ReadsHold => RefInv
    BY DEF RefInv
  <1>4. QED BY <1>1, <1>2, <1>3, InvHolds, PTL DEF Spec

\* However the statements of any number of requests, the expiry job and
\* administrators interleave, fail or deadlock, hugs, coins, slots and cooldowns
\* change as in a sequence of the ledger's atomic steps.
THEOREM Refines == Spec => ImplementsLedger
  <1>1. Init => Ledger!Init
    BY DEF Init, Ledger!Init, LedgerHugs, LedgerRow, LedgerSeconds, NoHug,
       Ledger!NoHug, Ledger!Pairs, Pairs, NoCooldown
  <1>2. RefInv /\ [Next]_vars => [Ledger!Next]_(Ledger!vars)
    BY StepRefines
  <1>3. QED
    BY <1>1, <1>2, RefInvHolds, PTL DEF Spec, Ledger!Spec, ImplementsLedger

=============================================================================
