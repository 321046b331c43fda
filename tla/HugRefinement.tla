----------------------------- MODULE HugRefinement -----------------------------
(***************************************************************************)
(* HugService implements HugLedger: what its interleaved statements commit *)
(* is a sequence of the ledger's atomic steps.                             *)
(***************************************************************************)
EXTENDS HugService

\* The row of a hug without its time of creation.
LedgerRow(row) ==
  IF row = NoHug THEN NoHug
  ELSE [status |-> row.status, giver |-> row.giver, receiver |-> row.receiver]

LedgerHugs == [h \in HugIds |-> LedgerRow(hugs[h])]
LedgerSeconds == [p \in Pairs |-> cooldown[p].seconds]

\* The amounts the requests of administrators come to in the column.
LedgerAmounts == {ToInt32(n) : n \in BodyAmounts} \cap 0..MaxAmount

Ledger == INSTANCE HugLedger
  WITH hugs <- LedgerHugs, seconds <- LedgerSeconds, Amounts <- LedgerAmounts

\* Every commit of a handler, of the expiry job or of an administrator is one
\* step of the ledger, and no other statement shows: no interleaving of
\* transactions pays for a hug twice or for one party, settles a hug twice,
\* charges coins that are not there, charges a slot more than its price, or
\* reduces a cooldown that was not paid for (service/hug, ExpirePendingHugs,
\* AdminSetBalance).
ImplementsLedger == Ledger!Spec

=============================================================================
