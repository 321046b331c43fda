------------------------------ MODULE HugService ------------------------------
(***************************************************************************)
(* The hug service (service/hug) over PostgreSQL at READ COMMITTED, the    *)
(* isolation level RunInTx gets by default.  A worker is an HTTP (or       *)
(* Telegram callback) handler.  Every SQL statement is a step of its own,  *)
(* so the statements of different handlers interleave.  A statement reads  *)
(* committed rows, an UPDATE or an upsert waits while another transaction  *)
(* holds the row, and the writes of a transaction reach the tables in the  *)
(* step that commits it.  The last statement of a transaction and its      *)
(* COMMIT are one step: the statement takes no row another step waits for  *)
(* in between.  Leaving a transaction by an error undoes nothing here,     *)
(* because nothing has reached the tables yet.                             *)
(*                                                                         *)
(* Time is counted in ticks; the time.Now() of the program and the now()   *)
(* of the database are one clock.                                          *)
(***************************************************************************)
EXTENDS Integers, FiniteSets

CONSTANTS
  Users,            \* registered users
  HugIds,           \* identifiers of hugs (a bound: how many can be made)
  UnknownHug,       \* an identifier that never names a hug
  NoOne,            \* the value of an unused field
  Workers,          \* requests that may be in progress at the same time
  Operations,       \* the requests clients send
  DefaultCooldown,  \* defaultCooldownSeconds
  Reduction,        \* cooldownReductionPerUpgrade
  MinCooldown,      \* minCooldownSeconds
  DeclineCooldown,  \* declineCooldownSeconds
  Window,           \* 24 hours
  UpgradeCost,      \* upgradeCost
  SlotPrice,        \* 10 coins in models.SlotCost
  MaxHugSlots,      \* models.MaxHugSlots
  MaxAmount,        \* largest value of the INTEGER column balances.amount
  StartBalance,     \* coins of every user at the start
  BodyAmounts,      \* bound: amounts an administrator may send, which the
                    \*   schema gives a minimum of 0 and no maximum
  MaxTime           \* bound on the clock

AllOperations == {"suggest", "accept", "decline", "cancel", "upgrade",
                  "buySlot", "block", "setBalance"}

ASSUME IdAssumption ==
  /\ UnknownHug \notin HugIds
  /\ NoOne \notin Users \cup HugIds \cup {UnknownHug}
  /\ IsFiniteSet(HugIds) /\ IsFiniteSet(Workers)
  /\ Operations \subseteq AllOperations

ASSUME AmountAssumption ==
  /\ {Reduction, DeclineCooldown, Window, UpgradeCost, SlotPrice,
      MaxTime} \subseteq Nat
  /\ MinCooldown \in Nat \ {0}
  /\ DefaultCooldown \in Nat /\ MinCooldown <= DefaultCooldown
  /\ MaxHugSlots \in Nat \ {0}
  /\ MaxAmount \in Nat /\ StartBalance \in 0..MaxAmount
  /\ BodyAmounts \subseteq Nat

VARIABLES
  now,       \* the clock
  hugs,      \* table hugs
  cooldown,  \* table hug_cooldowns, by pair
  balance,   \* table balances; 0 also stands for a missing row
  slots,     \* column users.hug_slots
  blocks,    \* table user_blocks, <<blocker, blocked>>
  expiring,  \* hugs the expiry job has updated and not yet committed
  req,       \* what each worker is doing
  reply,     \* the response sent in the last step
  spent      \* auxiliary, not in the code: coins each user has paid so far,
             \* less those administrators gave

tables == <<hugs, cooldown, balance, slots, blocks, expiring, spent>>
vars == <<now, hugs, cooldown, balance, slots, blocks, expiring, req, reply,
          spent>>

-----------------------------------------------------------------------------
(* Rows *)

Statuses == {"pending", "completed", "declined", "expired", "cancelled"}
NoHug == [status |-> "none"]
Hug == [status: Statuses, giver: Users, receiver: Users, created: 0..MaxTime]

\* '2000-01-01' in SetDeclineCooldown, and a NULL decline_cooldown_until:
\* further back than any cooldown reaches.
LongAgo == 0 - (DefaultCooldown + 1)

Pairs == {p \in SUBSET Users : \E a, b \in Users : a # b /\ p = {a, b}}
Times == LongAgo..(MaxTime + DeclineCooldown)
Cooldown == [lastHug: Times, seconds: {0} \cup MinCooldown..DefaultCooldown,
             declineUntil: Times]
NoCooldown == [lastHug |-> LongAgo, seconds |-> 0, declineUntil |-> LongAgo]

SlotCost(n) == IF n <= 1 THEN 0 ELSE (n - 1) * SlotPrice

HugRow(h) == IF h \in HugIds THEN hugs[h] ELSE NoHug

\* status = 'pending' AND created_at > now() - INTERVAL '24 hours'
Live(h, t) == hugs[h].status = "pending" /\ hugs[h].created > t - Window
Outgoing(u, t) == {h \in HugIds : Live(h, t) /\ hugs[h].giver = u}
PendingBetween(u, v, t) == {h \in Outgoing(u, t) : hugs[h].receiver = v}

-----------------------------------------------------------------------------
(* Requests *)

Idle == [pc |-> "idle", user |-> NoOne, other |-> NoOne, hug |-> NoOne,
         began |-> 0, count |-> 0, pair |-> FALSE, reverse |-> FALSE]

NoReply == [code |-> "none", hug |-> NoOne]

\* The request of worker w goes on with statement pc.
Goto(w, pc) == req' = [req EXCEPT ![w].pc = pc] /\ reply' = NoReply

\* The handler of worker w returns.
Finish(w, code) ==
  /\ req' = [req EXCEPT ![w] = Idle]
  /\ reply' = [code |-> code, hug |-> req[w].hug]

\* A request arrives.
Arrive(w, op, request) ==
  /\ op \in Operations
  /\ req[w] = Idle
  /\ req' = [req EXCEPT ![w] = request]
  /\ reply' = NoReply
  /\ UNCHANGED <<now, tables>>

-----------------------------------------------------------------------------
(* Row locks *)

Parties(h) == {hugs[h].giver, hugs[h].receiver}

\* The statements after the update of a hug, and after a payment.
AfterHugUpdate == {"payGiver", "payReceiver", "startCooldown",
                   "setDeclineCooldown"}
AfterPayment == {"getCooldown", "reduceCooldown", "createCooldown",
                 "incrementSlots"}

\* The rows the transaction of worker w has updated and not yet committed.
HeldHugs(w) == IF req[w].pc \in AfterHugUpdate THEN {req[w].hug} ELSE {}
\* Mutant of HeldBalances: AcceptHug locks the receiver's balance before it
\* pays the giver.
HeldReceiverFirst(w) ==
  CASE req[w].pc = "payGiver" -> {hugs[req[w].hug].receiver}
    [] req[w].pc \in {"payReceiver", "startCooldown"} -> Parties(req[w].hug)
    [] req[w].pc \in AfterPayment -> {req[w].user}
    [] OTHER -> {}

HeldBalances(w) ==
  CASE req[w].pc = "payReceiver" -> {hugs[req[w].hug].giver}
    [] req[w].pc = "startCooldown" -> Parties(req[w].hug)
    [] req[w].pc \in AfterPayment -> {req[w].user}
    [] OTHER -> {}

\* Mutant of Matches: the WHERE clause without AND status = 'pending'.
MatchesAnyStatus(w) ==
  LET row == HugRow(req[w].hug) IN
    /\ row.status # "none"
    /\ req[w].user = IF req[w].pc = "cancelHug" THEN row.giver ELSE row.receiver

\* The WHERE clause of the guarded updates of AcceptHug, DeclineHug, CancelHug.
Matches(w) ==
  LET row == HugRow(req[w].hug) IN
    /\ row.status = "pending"
    /\ req[w].user = IF req[w].pc = "cancelHug" THEN row.giver ELSE row.receiver

Price(w) == IF req[w].pc \in {"paySlot", "incrementSlots"}
            THEN SlotCost(req[w].count + 1) ELSE UpgradeCost

\* WHERE amount >= @delta in DeductBalance
CanPay(w) == balance[req[w].user] >= Price(w)

\* The rows the next statement of worker w updates, if it matches one.
WantedHugs(w) ==
  IF req[w].pc \in {"acceptHug", "declineHug", "cancelHug"} /\ Matches(w)
  THEN {req[w].hug} ELSE {}
WantedBalances(w) ==
  CASE req[w].pc = "payGiver" -> {hugs[req[w].hug].giver}
    [] req[w].pc = "payReceiver" -> {hugs[req[w].hug].receiver}
    [] req[w].pc \in {"payUpgrade", "paySlot"} /\ CanPay(w) -> {req[w].user}
    [] OTHER -> {}

WaitsFor(w, x) ==
  /\ x # w
  /\ \/ WantedHugs(w) \cap HeldHugs(x) # {}
     \/ WantedBalances(w) \cap HeldBalances(x) # {}

Free(w) ==
  /\ \A x \in Workers : ~WaitsFor(w, x)
  /\ WantedHugs(w) \cap expiring = {}

-----------------------------------------------------------------------------
(* SuggestHug *)

Request(pc, u, v, h) ==
  [Idle EXCEPT !.pc = pc, !.user = u, !.other = v, !.hug = h]

\* A request whose transaction uses now(), which BEGIN fixes.
Transaction(pc, u, v, h) == [Request(pc, u, v, h) EXCEPT !.began = now]

SuggestSteps == {"isBlockedByEither", "checkEligibility", "getUserSlots",
                 "checkCooldown", "insertHug"}
Suggesting == {w \in Workers : req[w].pc \in SuggestSteps}

\* A bound, not in the code: HugIds can serve every suggestion in progress.
IdsLeft ==
  Cardinality({h \in HugIds : hugs[h] = NoHug}) > Cardinality(Suggesting)

SuggestHug(w, u, v) ==
  /\ u # v
  /\ IdsLeft
  /\ Arrive(w, "suggest", Request("isBlockedByEither", u, v, NoOne))

SuggestHugToSelf(w, u) ==
  /\ "suggest" \in Operations /\ req[w] = Idle
  /\ reply' = [NoReply EXCEPT !.code = "CANNOT_HUG_SELF"]
  /\ UNCHANGED <<now, tables, req>>

\* Outside the transaction.  GetByID of the receiver follows; users stay.
IsBlockedByEither(w) ==
  /\ req[w].pc = "isBlockedByEither"
  /\ IF {<<req[w].user, req[w].other>>, <<req[w].other, req[w].user>>}
          \cap blocks # {}
     THEN Finish(w, "USER_BLOCKED")
     ELSE Goto(w, "checkEligibility")
  /\ UNCHANGED <<now, tables>>

\* BEGIN, then the one statement that counts and looks for pending hugs.
CheckSuggestEligibility(w) ==
  LET u == req[w].user
      v == req[w].other
  IN
    /\ req[w].pc = "checkEligibility"
    /\ req' = [req EXCEPT ![w] = [@ EXCEPT
                 !.pc = "getUserSlots",
                 !.began = now,
                 !.count = Cardinality(Outgoing(u, now)),
                 !.pair = PendingBetween(u, v, now) # {},
                 !.reverse = PendingBetween(v, u, now) # {}]]
    /\ reply' = NoReply
    /\ UNCHANGED <<now, tables>>

\* Mutant of NoFreeSlot: > instead of >=.
OverSlots(r) == r.count > slots[r.user]

NoFreeSlot(r) == r.count >= slots[r.user]

\* Mutant of ReversePending: the reverse direction is not looked at.
ReverseIgnored(r) == FALSE

ReversePending(r) == r.reverse

GetUserSlots(w) ==
  LET r == req[w] IN
    /\ r.pc = "getUserSlots"
    /\ \/ NoFreeSlot(r) /\ Finish(w, "ALREADY_HAS_PENDING_HUG")
       \/ ~NoFreeSlot(r) /\ r.pair /\ Finish(w, "PENDING_HUG_EXISTS")
       \/ /\ ~NoFreeSlot(r) /\ ~r.pair /\ ReversePending(r)
          /\ Finish(w, "REVERSE_PENDING_HUG_EXISTS")
       \/ /\ ~NoFreeSlot(r) /\ ~r.pair /\ ~ReversePending(r)
          /\ req' = [req EXCEPT ![w] = [Request("checkCooldown", r.user,
                       r.other, NoOne) EXCEPT !.began = r.began]]
          /\ reply' = NoReply
    /\ UNCHANGED <<now, tables>>

DeclineActive(p) == cooldown[p].declineUntil > now
CooldownActive(p) == now - cooldown[p].lastHug < cooldown[p].seconds

\* Mutant of CheckCooldown: the decline cooldown is forgotten.
CheckRegularCooldown(w) ==
  LET p == {req[w].user, req[w].other} IN
    /\ req[w].pc = "checkCooldown"
    /\ \/ CooldownActive(p) /\ Finish(w, "HUG_COOLDOWN_ACTIVE")
       \/ ~CooldownActive(p) /\ Goto(w, "insertHug")
    /\ UNCHANGED <<now, tables>>

CheckCooldown(w) ==
  LET p == {req[w].user, req[w].other} IN
    /\ req[w].pc = "checkCooldown"
    /\ \/ DeclineActive(p) /\ Finish(w, "DECLINE_COOLDOWN_ACTIVE")
       \/ /\ ~DeclineActive(p) /\ CooldownActive(p)
          /\ Finish(w, "HUG_COOLDOWN_ACTIVE")
       \/ ~DeclineActive(p) /\ ~CooldownActive(p) /\ Goto(w, "insertHug")
    /\ UNCHANGED <<now, tables>>

\* INSERT and COMMIT; no unique index, so the insert waits for nobody.
InsertHug(w) ==
  /\ req[w].pc = "insertHug"
  /\ \E h \in HugIds :
       /\ hugs[h] = NoHug
       /\ hugs' = [hugs EXCEPT ![h] =
            [status |-> "pending", giver |-> req[w].user,
             receiver |-> req[w].other, created |-> req[w].began]]
       /\ reply' = [code |-> "HUG_SUGGESTED", hug |-> h]
  /\ req' = [req EXCEPT ![w] = Idle]
  /\ UNCHANGED <<now, cooldown, balance, slots, blocks, expiring, spent>>

-----------------------------------------------------------------------------
(* AcceptHug, DeclineHug, CancelHug *)

KnownHugs == {h \in HugIds : hugs[h] # NoHug} \cup {UnknownHug}

AcceptHug(w, u, h) ==
  Arrive(w, "accept", Transaction("acceptHug", u, NoOne, h))
DeclineHug(w, u, h) ==
  Arrive(w, "decline", Request("declineHug", u, NoOne, h))
CancelHug(w, u, h) ==
  Arrive(w, "cancel", Request("cancelHug", u, NoOne, h))

\* Mutant of UpdateHug: the check that a row came back (h == nil) is missing.
UpdateHugUnchecked(w) ==
  LET r == req[w] IN
    /\ r.pc \in {"acceptHug", "declineHug"}
    /\ Free(w)
    /\ Goto(w, IF r.pc = "acceptHug" THEN "payGiver" ELSE "setDeclineCooldown")
    /\ UNCHANGED <<now, tables>>

\* UPDATE hugs SET status = ... WHERE id AND receiver_id AND 'pending'.
UpdateHug(w) ==
  LET r == req[w] IN
    /\ r.pc \in {"acceptHug", "declineHug"}
    /\ Free(w)
    /\ Goto(w, IF ~Matches(w) THEN "getHugByID"
               ELSE IF r.pc = "acceptHug" THEN "payGiver"
               ELSE "setDeclineCooldown")
    /\ UNCHANGED <<now, tables>>

\* The cancelling UPDATE runs alone and commits by itself.
UpdateCancelledHug(w) ==
  LET h == req[w].hug IN
    /\ req[w].pc = "cancelHug"
    /\ Free(w)
    /\ IF Matches(w)
       THEN /\ hugs' = [hugs EXCEPT ![h].status = "cancelled"]
            /\ Finish(w, "HUG_CANCELLED")
       ELSE /\ Goto(w, "getHugByID")
            /\ UNCHANGED hugs
    /\ UNCHANGED <<now, cooldown, balance, slots, blocks, expiring, spent>>

\* Mutant of GetHugByID: a refused update is tried again while there is a hug.
RetryRefused(w) ==
  /\ req[w].pc = "getHugByID"
  /\ IF HugRow(req[w].hug).status = "none" THEN Finish(w, "HUG_NOT_FOUND")
     ELSE Goto(w, "acceptHug")
  /\ UNCHANGED <<now, tables>>

\* The update matched nothing: a second read decides what to answer.
GetHugByID(w) ==
  LET status == HugRow(req[w].hug).status IN
    /\ req[w].pc = "getHugByID"
    /\ Finish(w, CASE status = "none" -> "HUG_NOT_FOUND"
                   [] status = "pending" -> "HUG_EXPIRED"
                   [] OTHER -> "HUG_NOT_PENDING")
    /\ UNCHANGED <<now, tables>>

\* balances.amount + 1 in an INTEGER column; out of range is an error.
AddBalance(w, u, next) ==
  /\ Free(w)
  /\ IF balance[u] < MaxAmount THEN Goto(w, next) ELSE Finish(w, "INTERNAL_ERROR")
  /\ UNCHANGED <<now, tables>>

PayGiver(w) ==
  /\ req[w].pc = "payGiver"
  /\ AddBalance(w, hugs[req[w].hug].giver, "payReceiver")

PayReceiver(w) ==
  /\ req[w].pc = "payReceiver"
  /\ AddBalance(w, hugs[req[w].hug].receiver, "startCooldown")

\* INSERT ... ON CONFLICT DO UPDATE SET last_hug_at = now()
UpsertCooldown(row, began) ==
  IF row = NoCooldown
  THEN [lastHug |-> began, seconds |-> DefaultCooldown, declineUntil |-> LongAgo]
  ELSE [row EXCEPT !.lastHug = began]

\* Mutant of Credit: the giver's coin is forgotten.
CreditReceiver(h) ==
  balance' = [balance EXCEPT ![hugs[h].receiver] = @ + 1]

\* The two coins of AcceptHug reach the balances.
Credit(h) ==
  balance' = [u \in Users |->
    IF u \in Parties(h) THEN balance[u] + 1 ELSE balance[u]]

\* UpsertCooldown and the COMMIT of AcceptHug.
StartCooldown(w) ==
  LET h == req[w].hug IN
    /\ req[w].pc = "startCooldown"
    /\ hugs' = [hugs EXCEPT ![h].status = "completed"]
    /\ Credit(h)
    /\ cooldown' = [cooldown EXCEPT ![Parties(h)] =
         UpsertCooldown(@, req[w].began)]
    /\ Finish(w, "HUG_ACCEPTED")
    /\ UNCHANGED <<now, slots, blocks, expiring, spent>>

\* Mutant of SetDecline: the conflict branch also takes the inserted
\* last_hug_at.
SetDeclineAndStart(row, until) ==
  [lastHug |-> LongAgo, declineUntil |-> until,
   seconds |-> IF row = NoCooldown THEN DefaultCooldown ELSE row.seconds]

\* INSERT ... ON CONFLICT DO UPDATE SET decline_cooldown_until
SetDecline(row, until) ==
  IF row = NoCooldown
  THEN [lastHug |-> LongAgo, seconds |-> DefaultCooldown, declineUntil |-> until]
  ELSE [row EXCEPT !.declineUntil = until]

\* SetDeclineCooldown and the COMMIT of DeclineHug.
SetDeclineCooldown(w) ==
  LET h == req[w].hug IN
    /\ req[w].pc = "setDeclineCooldown"
    /\ hugs' = [hugs EXCEPT ![h].status = "declined"]
    /\ cooldown' = [cooldown EXCEPT ![Parties(h)] =
         SetDecline(@, now + DeclineCooldown)]
    /\ Finish(w, "HUG_DECLINED")
    /\ UNCHANGED <<now, balance, slots, blocks, expiring, spent>>

-----------------------------------------------------------------------------
(* UpgradeCooldown and BuyHugSlot *)

UpgradeCooldown(w, u, v) ==
  Arrive(w, "upgrade", Transaction("payUpgrade", u, v, NoOne))
BuyHugSlot(w, u) ==
  Arrive(w, "buySlot", Request("readSlots", u, NoOne, NoOne))

\* Mutant of DeductBalance: the balance is read first and deducted later.
ReadBalance(w) ==
  /\ req[w].pc \in {"payUpgrade", "paySlot"}
  /\ \/ ~CanPay(w) /\ Finish(w, "INSUFFICIENT_BALANCE")
     \/ /\ CanPay(w)
        /\ Goto(w, IF req[w].pc = "payUpgrade" THEN "getCooldown"
                   ELSE "incrementSlots")
  /\ UNCHANGED <<now, tables>>

\* UPDATE balances SET amount = amount - @delta WHERE amount >= @delta
DeductBalance(w) ==
  /\ req[w].pc \in {"payUpgrade", "paySlot"}
  /\ Free(w)
  /\ \/ ~CanPay(w) /\ Finish(w, "INSUFFICIENT_BALANCE")
     \/ /\ CanPay(w)
        /\ Goto(w, IF req[w].pc = "payUpgrade" THEN "getCooldown"
                   ELSE "incrementSlots")
  /\ UNCHANGED <<now, tables>>

\* A pair with oneself has no row, and inserting one breaks the CHECK.
GetCooldown(w) ==
  LET p == {req[w].user, req[w].other} IN
    /\ req[w].pc = "getCooldown"
    /\ \/ req[w].user = req[w].other /\ Finish(w, "INTERNAL_ERROR")
       \/ /\ req[w].user # req[w].other
          /\ Goto(w, IF cooldown[p] = NoCooldown THEN "createCooldown"
                     ELSE "reduceCooldown")
    /\ UNCHANGED <<now, tables>>

\* GREATEST(cooldown_seconds - @reduction, 300)
Reduced(seconds) ==
  IF seconds - Reduction > MinCooldown THEN seconds - Reduction ELSE MinCooldown

\* The coins worker w pays leave the balance when its transaction commits.
Charge(w) ==
  /\ balance' = [balance EXCEPT ![req[w].user] = @ - Price(w)]
  /\ spent' = [spent EXCEPT ![req[w].user] = @ + Price(w)]

\* Mutant of ReduceCooldown: where no row was seen one is written whole, without
\* a last hug, over whatever is there by now.
ReduceSeenCooldown(w) ==
  LET r == req[w]
      p == {r.user, r.other}
      row == IF r.pc = "createCooldown"
             THEN [lastHug |-> LongAgo, seconds |-> DefaultCooldown,
                   declineUntil |-> LongAgo]
             ELSE cooldown[p]
  IN
    /\ r.pc \in {"createCooldown", "reduceCooldown"}
    /\ cooldown' = [cooldown EXCEPT ![p] =
         [row EXCEPT !.seconds = Reduced(row.seconds)]]
    /\ Charge(w)
    /\ Finish(w, "COOLDOWN_UPGRADED")
    /\ UNCHANGED <<now, hugs, slots, blocks, expiring>>

\* UpsertCooldown when no row was seen, ReduceCooldown and COMMIT.
ReduceCooldown(w) ==
  LET r == req[w]
      p == {r.user, r.other}
      row == IF r.pc = "createCooldown"
             THEN UpsertCooldown(cooldown[p], r.began) ELSE cooldown[p]
  IN
    /\ r.pc \in {"createCooldown", "reduceCooldown"}
    /\ cooldown' = [cooldown EXCEPT ![p] =
         [row EXCEPT !.seconds = Reduced(row.seconds)]]
    /\ Charge(w)
    /\ Finish(w, "COOLDOWN_UPGRADED")
    /\ UNCHANGED <<now, hugs, slots, blocks, expiring>>

\* GetUserSlots in BuyHugSlot: the price of the next slot is fixed here.
ReadSlots(w) ==
  LET owned == slots[req[w].user] IN
    /\ req[w].pc = "readSlots"
    /\ IF owned >= MaxHugSlots
       THEN Finish(w, "MAX_SLOTS_REACHED")
       ELSE /\ req' = [req EXCEPT ![w].pc = "paySlot", ![w].count = owned]
            /\ reply' = NoReply
    /\ UNCHANGED <<now, tables>>

\* Mutant of IncrementSlots: running into the limit keeps the payment.
IncrementSlotsNoRollback(w) ==
  LET u == req[w].user IN
    /\ req[w].pc = "incrementSlots"
    /\ IF slots[u] < MaxHugSlots
       THEN /\ slots' = [slots EXCEPT ![u] = @ + 1]
            /\ Charge(w)
            /\ Finish(w, "SLOT_BOUGHT")
       ELSE /\ balance' = [balance EXCEPT ![u] = @ - Price(w)]
            /\ Finish(w, "MAX_SLOTS_REACHED")
            /\ UNCHANGED <<slots, spent>>
    /\ UNCHANGED <<now, hugs, cooldown, blocks, expiring>>

\* IncrementUserSlots WHERE hug_slots < 5, and COMMIT.
IncrementSlots(w) ==
  LET u == req[w].user IN
    /\ req[w].pc = "incrementSlots"
    /\ IF slots[u] < MaxHugSlots
       THEN /\ slots' = [slots EXCEPT ![u] = @ + 1]
            /\ Charge(w)
            /\ Finish(w, "SLOT_BOUGHT")
       ELSE /\ Finish(w, "MAX_SLOTS_REACHED")
            /\ UNCHANGED <<slots, balance, spent>>
    /\ UNCHANGED <<now, hugs, cooldown, blocks, expiring>>

-----------------------------------------------------------------------------
(* Single-statement operations, the ticker and failures *)

BlockUser(u, v) ==
  /\ "block" \in Operations /\ u # v
  /\ blocks' = blocks \cup {<<u, v>>}
  /\ reply' = NoReply
  /\ UNCHANGED <<now, hugs, cooldown, balance, slots, expiring, req, spent>>

UnblockUser(u, v) ==
  /\ "block" \in Operations
  /\ blocks' = blocks \ {<<u, v>>}
  /\ reply' = NoReply
  /\ UNCHANGED <<now, hugs, cooldown, balance, slots, expiring, req, spent>>

\* int32(req.Body.Amount): 2 * (MaxAmount + 1) values, from -(MaxAmount + 1).
ToInt32(n) ==
  ((n + MaxAmount + 1) % (2 * (MaxAmount + 1))) - (MaxAmount + 1)

\* AdminSetBalance overwrites the amount, once no transaction holds the row; a
\* negative one breaks the CHECK.
AdminSetBalance(u, amount) ==
  /\ "setBalance" \in Operations
  /\ \A w \in Workers : u \notin HeldBalances(w)
  /\ IF ToInt32(amount) >= 0
     THEN /\ balance' = [balance EXCEPT ![u] = ToInt32(amount)]
          /\ spent' = [spent EXCEPT ![u] = @ + balance[u] - ToInt32(amount)]
          /\ reply' = NoReply
     ELSE /\ reply' = [NoReply EXCEPT !.code = "INTERNAL_ERROR"]
          /\ UNCHANGED <<balance, spent>>
  /\ UNCHANGED <<now, hugs, cooldown, slots, blocks, expiring, req>>

\* Mutant of Overdue: the job's UPDATE without status = 'pending'.
OldHug(h) == hugs[h] # NoHug /\ hugs[h].created <= now - Window

Overdue(h) == hugs[h].status = "pending" /\ hugs[h].created <= now - Window

\* Mutant of ExpirePendingHug: < instead of <=.
ExpireOlderHug(h) ==
  /\ Overdue(h) /\ hugs[h].created < now - Window
  /\ h \notin expiring
  /\ \A w \in Workers : h \notin HeldHugs(w)
  /\ expiring' = expiring \cup {h}
  /\ reply' = NoReply
  /\ UNCHANGED <<now, hugs, cooldown, balance, slots, blocks, req, spent>>

\* The job of app.go: its UPDATE takes the overdue rows one by one, waits for
\* those others hold and keeps what it has taken.
ExpirePendingHug(h) ==
  /\ Overdue(h) /\ h \notin expiring
  /\ \A w \in Workers : h \notin HeldHugs(w)
  /\ expiring' = expiring \cup {h}
  /\ reply' = NoReply
  /\ UNCHANGED <<now, hugs, cooldown, balance, slots, blocks, req, spent>>

\* The UPDATE ends, which commits it.
CommitExpired ==
  /\ expiring # {}
  /\ hugs' = [h \in HugIds |-> IF h \in expiring
                 THEN [hugs[h] EXCEPT !.status = "expired"] ELSE hugs[h]]
  /\ expiring' = {}
  /\ reply' = NoReply
  /\ UNCHANGED <<now, cooldown, balance, slots, blocks, req, spent>>

\* The UPDATE fails, which is logged; the ticker tries again.
ExpiryFails ==
  /\ expiring # {}
  /\ expiring' = {}
  /\ reply' = NoReply
  /\ UNCHANGED <<now, hugs, cooldown, balance, slots, blocks, req, spent>>

Tick ==
  /\ now < MaxTime
  /\ now' = now + 1
  /\ reply' = NoReply
  /\ UNCHANGED <<tables, req>>

\* The client goes away, or the connection to the database is lost.
Fail(w) ==
  /\ req[w].pc # "idle"
  /\ Finish(w, "INTERNAL_ERROR")
  /\ UNCHANGED <<now, tables>>

\* Transactions that all wait for one another.
Deadlocked(w) ==
  \E cycle \in SUBSET Workers :
    /\ w \in cycle
    /\ \A x \in cycle : \E y \in cycle : WaitsFor(x, y)

\* PostgreSQL aborts a member of the cycle.
AbortDeadlocked(w) ==
  /\ Deadlocked(w)
  /\ Finish(w, "INTERNAL_ERROR")
  /\ UNCHANGED <<now, tables>>

-----------------------------------------------------------------------------
Arrival(w) ==
  \E u \in Users :
    \/ SuggestHugToSelf(w, u)
    \/ \E v \in Users : SuggestHug(w, u, v) \/ UpgradeCooldown(w, u, v)
    \/ \E h \in KnownHugs :
         AcceptHug(w, u, h) \/ DeclineHug(w, u, h) \/ CancelHug(w, u, h)
    \/ BuyHugSlot(w, u)

\* The next statement of the request worker w serves.
Step(w) ==
  \/ IsBlockedByEither(w) \/ CheckSuggestEligibility(w) \/ GetUserSlots(w)
  \/ CheckCooldown(w) \/ InsertHug(w)
  \/ UpdateHug(w) \/ UpdateCancelledHug(w) \/ GetHugByID(w)
  \/ PayGiver(w) \/ PayReceiver(w) \/ StartCooldown(w)
  \/ SetDeclineCooldown(w)
  \/ DeductBalance(w) \/ GetCooldown(w) \/ ReduceCooldown(w)
  \/ ReadSlots(w) \/ IncrementSlots(w)
  \/ AbortDeadlocked(w)

Init ==
  /\ now = 0
  /\ hugs = [h \in HugIds |-> NoHug]
  /\ cooldown = [p \in Pairs |-> NoCooldown]
  /\ balance = [u \in Users |-> StartBalance]
  /\ slots = [u \in Users |-> 1]
  /\ blocks = {}
  /\ expiring = {}
  /\ req = [w \in Workers |-> Idle]
  /\ reply = NoReply
  /\ spent = [u \in Users |-> 0]

Next ==
  \/ \E w \in Workers : Arrival(w) \/ Step(w) \/ Fail(w)
  \/ \E u, v \in Users : BlockUser(u, v) \/ UnblockUser(u, v)
  \/ \E u \in Users, amount \in BodyAmounts : AdminSetBalance(u, amount)
  \/ \E h \in HugIds : ExpirePendingHug(h)
  \/ CommitExpired \/ ExpiryFails
  \/ Tick

Spec == Init /\ [][Next]_vars

(* A handler keeps executing, and PostgreSQL serves the waiters of a row in *)
(* the order they came: a statement that could run again and again runs,    *)
(* hence strong fairness.  The job's UPDATE, which the ticker tries for     *)
(* ever, takes some row again and again while there is one to take, and     *)
(* does not always fail.  The clock moves.                                  *)
(* Requests need not arrive and nothing needs to fail.                      *)
Fairness ==
  /\ \A w \in Workers : SF_vars(Step(w))
  /\ SF_vars(\E h \in HugIds : ExpirePendingHug(h))
  /\ SF_vars(CommitExpired)
  /\ WF_vars(Tick)

FairSpec == Spec /\ Fairness

-----------------------------------------------------------------------------
(* Safety *)

AnswerSteps == {"acceptHug", "declineHug", "cancelHug", "getHugByID"}
UpgradeSteps == {"payUpgrade", "getCooldown", "reduceCooldown",
                 "createCooldown"}
SlotSteps == {"readSlots", "paySlot", "incrementSlots"}

Requests == [pc: {"idle"} \cup SuggestSteps \cup AnswerSteps
                      \cup AfterHugUpdate \cup UpgradeSteps \cup SlotSteps,
  user: Users \cup {NoOne},
  other: Users \cup {NoOne}, hug: HugIds \cup {UnknownHug, NoOne},
  began: 0..MaxTime, count: Nat, pair: BOOLEAN, reverse: BOOLEAN]

\* Every statement finds the fields it uses.
FieldsFit(r) ==
  /\ r.pc # "idle" => r.user \in Users
  /\ r.pc \in SuggestSteps \cup UpgradeSteps => r.other \in Users
  /\ r.pc \in SuggestSteps \cup {"reduceCooldown", "createCooldown"} =>
       r.user # r.other
  /\ r.pc \in AnswerSteps => r.hug \in HugIds \cup {UnknownHug}
  /\ r.pc \in AfterHugUpdate => r.hug \in HugIds
  /\ r.pc \in {"paySlot", "incrementSlots"} => r.count \in 1..MaxHugSlots

RequestsOK ==
  /\ req \in [Workers -> Requests]
  /\ \A w \in Workers : FieldsFit(req[w])

\* Types, which carry the database CHECKs: balances.amount >= 0 and within
\* INTEGER, the five statuses, at most MaxHugSlots slots, a cooldown never
\* reduced below its minimum.
TypeOK ==
  /\ now \in 0..MaxTime
  /\ hugs \in [HugIds -> Hug \cup {NoHug}]
  /\ cooldown \in [Pairs -> Cooldown]
  /\ balance \in [Users -> 0..MaxAmount]
  /\ slots \in [Users -> 1..MaxHugSlots]
  /\ blocks \subseteq Users \X Users
  /\ expiring \subseteq HugIds
  /\ RequestsOK
  /\ spent \in [Users -> Int]

\* No row is updated by two unfinished transactions.
LocksExclusive ==
  \A w, x \in Workers : w # x =>
    /\ HeldHugs(w) \cap HeldHugs(x) = {}
    /\ HeldBalances(w) \cap HeldBalances(x) = {}

\* A hug about to be paid for or declined is pending, for this receiver.
UpdatedHugIsPending ==
  \A w \in Workers : req[w].pc \in AfterHugUpdate =>
    /\ hugs[req[w].hug].status = "pending"
    /\ hugs[req[w].hug].receiver = req[w].user

\* Coins that passed WHERE amount >= delta are still there.
PaymentCovered ==
  \A w \in Workers : req[w].pc \in AfterPayment => CanPay(w)

\* A balance that was incremented still fits its column.
CreditFits ==
  \A w \in Workers : req[w].pc \in {"payReceiver", "startCooldown"} =>
    \A u \in HeldBalances(w) : balance[u] < MaxAmount

\* The hugs the job is about to expire are pending, and nobody else's.
ExpiringIsPending ==
  \A h \in expiring :
    /\ hugs[h].status = "pending"
    /\ \A w \in Workers : h \notin HeldHugs(w)

HandlersWorkHolds ==
  LocksExclusive /\ UpdatedHugIsPending /\ PaymentCovered /\ CreditFits

\* What a transaction found in the rows it updated is still so when it goes on
\* and commits: the hug it accepts or declines is pending and its receiver's
\* own, the coins it takes are there, the coin it gives fits, and no other
\* unfinished transaction has updated the row (RunInTx, AcceptHug, DeclineHug,
\* DeductBalance, ExpirePendingHugs), whatever accepts, declines, cancels,
\* expires or pays next to it.
UncommittedWorkHolds == HandlersWorkHolds /\ ExpiringIsPending

\* The job's UPDATE has yet to take a row that worker w holds.
JobWaitsFor(w) == \E h \in HeldHugs(w) : Overdue(h)

\* Nobody in waiting goes on before another of them, or the job, does; and the
\* job, if it is one of them, not before one of waiting.
AllWait(waiting, job) ==
  /\ \A x \in waiting :
       \/ \E y \in waiting : WaitsFor(x, y)
       \/ job /\ WantedHugs(x) \cap expiring # {}
  /\ job => \E y \in waiting : JobWaitsFor(y)

\* Accepts in progress that pay each other's givers: each has updated a pending
\* hug and paid its giver, and waits for the balance of its receiver, who is
\* the giver another of them has paid.
AcceptRing(ring) ==
  /\ \A x \in ring :
       /\ req[x].pc = "payReceiver"
       /\ hugs[req[x].hug].status = "pending"
       /\ \E y \in ring \ {x} :
            hugs[req[y].hug].giver = hugs[req[x].hug].receiver
  /\ \A x, y \in ring : x # y =>
       hugs[req[x].hug].giver # hugs[req[y].hug].giver

\* AcceptHug pays the giver and then the receiver in an order nothing fixes, so
\* accepts can deadlock; nothing else can.  Whatever waits in a circle, the
\* expiry job included, waits for a ring of accepts: a decline, a cancellation,
\* a purchase or the job alone never has to be aborted to let the rest go on.
OnlyAcceptsDeadlock ==
  \A waiting \in SUBSET Workers, job \in BOOLEAN :
    waiting # {} /\ AllWait(waiting, job) =>
      \E ring \in SUBSET waiting : ring # {} /\ AcceptRing(ring)

Completed(u) == {h \in HugIds : hugs[h].status = "completed" /\ u \in Parties(h)}

\* Each completed hug has paid its two users one coin each, once, and nothing
\* else has; a payment is never lost, repeated or left half done by a race, a
\* failure, a deadlock, a rollback or an administrator (AcceptHug, BuyHugSlot,
\* UpgradeCooldown, AdminSetBalance).
CoinsAccounted ==
  \A u \in Users :
    balance[u] + spent[u] = StartBalance + Cardinality(Completed(u))

SettlesOnce(h) ==
  /\ hugs[h].status \notin {"none", "pending"} => hugs'[h] = hugs[h]
  /\ hugs[h].status = "pending" =>
       hugs'[h] \in {[hugs[h] EXCEPT !.status = s] : s \in Statuses}

\* PLAN.md's diagram: completed, declined, cancelled and expired are final,
\* and a hug keeps its giver, its receiver and its time of creation.
StatusIsFinal == [][\A h \in HugIds : SettlesOnce(h)]_vars

\* The cooldown a completed hug started is never forgotten: no decline or
\* upgrade of the pair resets last_hug_at to the past '2000-01-01'.
CompletedHugHasCooldown ==
  \A h \in HugIds : hugs[h].status = "completed" =>
    LET row == cooldown[Parties(h)] IN
      row.lastHug >= 0 /\ row.seconds >= MinCooldown

-----------------------------------------------------------------------------
(* What SuggestHug checks.  These hold while requests do not overlap, and   *)
(* HugLedgerProofs shows which overlaps they stand.                         *)

\* A user has no more live suggestions than slots.  service/hug/hug.go says
\* the transaction around the checks and the insert prevents such races.
WithinSlots ==
  \A u \in Users : Cardinality(Outgoing(u, now)) <= slots[u]

\* PLAN.md, "One pending per pair", in either direction.
OnePendingPerPair ==
  \A u, v \in Users :
    Cardinality(PendingBetween(u, v, now) \cup PendingBetween(v, u, now)) <= 1

\* No suggestion is made while the pair is cooling down.
SuggestedAfterCooldown ==
  reply.code = "HUG_SUGGESTED" =>
    ~DeclineActive(Parties(reply.hug)) /\ ~CooldownActive(Parties(reply.hug))

-----------------------------------------------------------------------------
(* Liveness *)

\* Every handler answers: no statement waits for ever, deadlocks included.
EveryRequestAnswered ==
  \A w \in Workers : req[w].pc # "idle" ~> req[w].pc = "idle"

\* A suggestion nobody answers does not stay pending after its 24 hours.
OverdueHugsLeave ==
  \A h \in HugIds : Overdue(h) ~> hugs[h].status # "pending"

=============================================================================
