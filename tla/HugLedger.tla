------------------------------- MODULE HugLedger -------------------------------
(***************************************************************************)
(* What the hug service promises its users about hugs, coins, slots and    *)
(* cooldowns, without transactions, locks, requests or a clock: every      *)
(* change is one atomic step.  HugRefinement shows that HugService         *)
(* implements it.                                                          *)
(***************************************************************************)
EXTENDS Integers

CONSTANTS Users, HugIds, DefaultCooldown, Reduction, MinCooldown, UpgradeCost,
          SlotPrice, MaxHugSlots, MaxAmount, StartBalance,
          Amounts   \* what an administrator may set a balance to

VARIABLES
  hugs,     \* status and parties of every hug
  balance,  \* coins of every user
  slots,    \* hug slots of every user
  seconds   \* length of the cooldown of a pair, 0 while it has none

vars == <<hugs, balance, slots, seconds>>

Pairs == {p \in SUBSET Users : \E a, b \in Users : a # b /\ p = {a, b}}
NoHug == [status |-> "none"]
Hug(status, u, v) == [status |-> status, giver |-> u, receiver |-> v]
Parties(h) == {hugs[h].giver, hugs[h].receiver}

\* The price of the n-th slot.
SlotCost(n) == IF n <= 1 THEN 0 ELSE (n - 1) * SlotPrice

\* A pair gets the default cooldown with its first hug, decline or upgrade.
Opened(s) == IF s = 0 THEN DefaultCooldown ELSE s
Reduced(s) ==
  IF s - Reduction > MinCooldown THEN s - Reduction ELSE MinCooldown

Init ==
  /\ hugs = [h \in HugIds |-> NoHug]
  /\ balance = [u \in Users |-> StartBalance]
  /\ slots = [u \in Users |-> 1]
  /\ seconds = [p \in Pairs |-> 0]

-----------------------------------------------------------------------------
Suggest(h, u, v) ==
  /\ u # v
  /\ hugs[h] = NoHug
  /\ hugs' = [hugs EXCEPT ![h] = Hug("pending", u, v)]
  /\ UNCHANGED <<balance, slots, seconds>>

\* The receiver accepts: both get a coin and their cooldown starts.
Complete(h) ==
  /\ hugs[h].status = "pending"
  /\ \A u \in Parties(h) : balance[u] < MaxAmount
  /\ hugs' = [hugs EXCEPT ![h].status = "completed"]
  /\ balance' = [u \in Users |->
                   IF u \in Parties(h) THEN balance[u] + 1 ELSE balance[u]]
  /\ seconds' = [seconds EXCEPT ![Parties(h)] = Opened(@)]
  /\ UNCHANGED slots

Decline(h) ==
  /\ hugs[h].status = "pending"
  /\ hugs' = [hugs EXCEPT ![h].status = "declined"]
  /\ seconds' = [seconds EXCEPT ![Parties(h)] = Opened(@)]
  /\ UNCHANGED <<balance, slots>>

Cancel(h) ==
  /\ hugs[h].status = "pending"
  /\ hugs' = [hugs EXCEPT ![h].status = "cancelled"]
  /\ UNCHANGED <<balance, slots, seconds>>

\* Several suggestions expire together.
Expire(overdue) ==
  /\ \A h \in overdue : hugs[h].status = "pending"
  /\ hugs' = [h \in HugIds |-> IF h \in overdue
                 THEN [hugs[h] EXCEPT !.status = "expired"] ELSE hugs[h]]
  /\ UNCHANGED <<balance, slots, seconds>>

\* A purchase pays the price of the user's next slot, or of one they have got
\* in the meantime: overlapping purchases may pay less, never more, and never
\* coins that are not there.
BuySlot(u) ==
  \E owned \in 1..slots[u] :
    LET price == SlotCost(owned + 1) IN
      /\ slots[u] < MaxHugSlots
      /\ price <= balance[u]
      /\ slots' = [slots EXCEPT ![u] = @ + 1]
      /\ balance' = [balance EXCEPT ![u] = @ - price]
      /\ UNCHANGED <<hugs, seconds>>

ShortenCooldown(u, v) ==
  /\ u # v
  /\ UpgradeCost <= balance[u]
  /\ balance' = [balance EXCEPT ![u] = @ - UpgradeCost]
  /\ seconds' = [seconds EXCEPT ![{u, v}] = Reduced(Opened(@))]
  /\ UNCHANGED <<hugs, slots>>

\* An administrator's amount replaces the balance.
SetBalance(u, amount) ==
  /\ balance' = [balance EXCEPT ![u] = amount]
  /\ UNCHANGED <<hugs, slots, seconds>>

Next ==
  \/ \E overdue \in SUBSET HugIds : Expire(overdue)
  \/ \E h \in HugIds : Complete(h) \/ Decline(h) \/ Cancel(h)
  \/ \E h \in HugIds, u, v \in Users : Suggest(h, u, v)
  \/ \E u \in Users : BuySlot(u)
  \/ \E u, v \in Users : ShortenCooldown(u, v)
  \/ \E u \in Users, amount \in Amounts : SetBalance(u, amount)

Spec == Init /\ [][Next]_vars

=============================================================================
