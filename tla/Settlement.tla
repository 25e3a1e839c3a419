----------------------------- MODULE Settlement -----------------------------
(***************************************************************************)
(* The settlement of a matter, its liens and its approval chain:           *)
(* src/app/actions/settlements.ts.  Gross, fee and costs are one value,    *)
(* `amounts', since the code only asks whether they changed; a lien is its *)
(* amount.                                                                 *)
(*                                                                         *)
(* Every action is three steps: the request with the permission it was     *)
(* checked for (Receive), the transaction that waits for the matter's      *)
(* advisory lock and reads the settlement (Enter), and what it writes on   *)
(* the strength of what it read.  Others may run between any two of them.  *)
(***************************************************************************)
EXTENDS Naturals

CONSTANTS
  Process,     \* running server actions
  Step,        \* steps of the approval chain
  Amounts,     \* what gross, fee and costs may be
  Lien,        \* ids of liens
  LienAmounts  \* what a lien may come to

ASSUME SettlementAssumption ==
  /\ Step /= {}
  /\ Amounts \subseteq Nat \ {0}
  /\ LienAmounts \subseteq Nat \ {0}

Statuses     == {"pending", "approved", "disbursed", "closed"}
StepStatuses == {"pending", "approved", "rejected"}
Paid         == {"disbursed", "closed"}      \* the money has moved
SignedOff    == {"approved"} \cup Paid

VARIABLES
  settlement, \* the row and its chain; status "none" while the matter has none
  lien,       \* the amount of each lien, 0 for none
  ask,        \* what each running action was asked to do
  inside,     \* the actions that hold the matter's advisory lock
  saw,        \* the settlement each of those read
  vouched,    \* history: the numbers when the chain was last completed
  reopened    \* history: a complete chain was put back to pending by a save

vars == <<settlement, lien, ask, inside, saw, vouched, reopened>>

NoSettlement == [status |-> "none", amounts |-> 0, step |-> [s \in Step |-> "pending"]]
NoLien       == [l \in Lien |-> 0]
Idle         == [op |-> "idle"]

Saves   == [op : {"save"}, to : Statuses, amounts : Amounts, approver : BOOLEAN]
Signs   == [op : {"sign"}, step : Step, status : StepStatuses]
Adds    == [op : {"add"}, amount : LienAmounts]
Changes == [op : {"change"}, lien : Lien, amount : LienAmounts]
Removes == [op : {"remove"}, lien : Lien]
Asks    == Saves \cup Signs \cup Adds \cup Changes \cup Removes

Init ==
  /\ settlement = NoSettlement /\ lien = NoLien
  /\ ask = [p \in Process |-> Idle]
  /\ inside = {} /\ saw = [p \in Process |-> NoSettlement]
  /\ vouched = [amounts |-> 0, lien |-> NoLien] /\ reopened = FALSE

Complete(step) == \A s \in Step : step[s] = "approved"

-----------------------------------------------------------------------------
\* The request arrives; only upsertSettlement may find no settlement.
Receive(p) ==
  /\ ask[p] = Idle
  /\ \E a \in Asks :
       /\ a \in Saves \/ settlement.status /= "none"
       /\ a \in Changes \cup Removes => lien[a.lien] /= 0
       /\ ask' = [ask EXCEPT ![p] = a]
  /\ UNCHANGED <<settlement, lien, inside, saw, vouched, reopened>>

EnterUnlocked(p) ==   \* mutant: the transaction without pg_advisory_xact_lock
  /\ ask[p] /= Idle /\ p \notin inside
  /\ inside' = inside \cup {p}
  /\ saw' = [saw EXCEPT ![p] = settlement]
  /\ UNCHANGED <<settlement, lien, ask, vouched, reopened>>

\* pg_advisory_xact_lock, and the read of the settlement and its steps under it.
Enter(p) ==
  /\ ask[p] /= Idle /\ inside = {}
  /\ inside' = {p}
  /\ saw' = [saw EXCEPT ![p] = settlement]
  /\ UNCHANGED <<settlement, lien, ask, vouched, reopened>>

\* The transaction ends, which releases the lock.
Leave(p) ==
  /\ inside' = inside \ {p}
  /\ saw' = [saw EXCEPT ![p] = NoSettlement]
  /\ ask' = [ask EXCEPT ![p] = Idle]

\* It is refused, or the database or the platform gave up: nothing is written.
Abort(p) ==
  /\ ask[p] /= Idle
  /\ Leave(p)
  /\ UNCHANGED <<settlement, lien, vouched, reopened>>

Serves(p, op) == p \in inside /\ ask[p].op = op

\* What the history says of a write that leaves the settlement as `row' and the
\* liens as `liens'; `puts' tells a save that puts the status back to pending.
Remember(row, liens, puts) ==
  /\ vouched' = IF Complete(row.step) /\ ~Complete(settlement.step)
                THEN [amounts |-> row.amounts, lien |-> liens] ELSE vouched
  /\ reopened' = /\ row.status = "pending" /\ Complete(row.step)
                 /\ reopened \/ puts

-----------------------------------------------------------------------------
\* upsertSettlement: the first save opens the settlement and seeds the chain.
Open(p) ==
  /\ Serves(p, "save") /\ saw[p].status = "none" /\ ask[p].to = "pending"
  /\ settlement' = [NoSettlement EXCEPT !.status = "pending", !.amounts = ask[p].amounts]
  /\ Leave(p)
  /\ UNCHANGED <<lien, vouched, reopened>>

\* Mutant: a reopened chain, complete but pending, is not reset.
ResetsApprovedOnly(a, row) == a.amounts /= row.amounts /\ row.status = "approved"

\* Sign-offs vouch for numbers: changing these clears a complete chain.
Resets(a, row) ==
  a.amounts /= row.amounts /\ (row.status = "approved" \/ Complete(row.step))

\* The transitions a save may ask for, and from where.
LegalMove(row, to) ==
  CASE to = "pending"   -> TRUE
    [] to = "approved"  -> row.status = "pending" /\ Complete(row.step)
    [] to = "disbursed" -> row.status = "approved"
    [] to = "closed"    -> row.status = "disbursed"

Accepted(a, row) ==
  LET changed == a.amounts /= row.amounts
      moves == a.to /= row.status
  IN /\ moves => a.approver /\ LegalMove(row, a.to)
     /\ changed => row.status \notin Paid /\ (moves => a.to = "pending")
     /\ Resets(a, row) => a.approver

\* The row after an accepted save.
Saved(a, row) ==
  IF Resets(a, row)
  THEN [NoSettlement EXCEPT !.status = "pending", !.amounts = a.amounts]
  ELSE [settlement EXCEPT !.status = a.to, !.amounts = a.amounts]

Update(p) ==
  /\ Serves(p, "save") /\ saw[p].status /= "none"
  /\ Accepted(ask[p], saw[p])
  /\ settlement' = Saved(ask[p], saw[p])
  /\ Remember(settlement', lien, ask[p].to /= saw[p].status)
  /\ Leave(p)
  /\ UNCHANGED lien

-----------------------------------------------------------------------------
\* addSettlementLien, updateSettlementLien, deleteSettlementLien

LiensLockedOnceApproved(row) == row.status = "approved"   \* mutant

\* lienLockReason
LiensLocked(row) == row.status \in SignedOff

AddLien(p) ==
  /\ Serves(p, "add") /\ ~LiensLocked(saw[p])
  /\ \E l \in Lien : lien[l] = 0 /\ lien' = [lien EXCEPT ![l] = ask[p].amount]
  /\ Leave(p)
  /\ UNCHANGED <<settlement, vouched, reopened>>

UpdateLien(p) ==
  /\ Serves(p, "change") /\ ~LiensLocked(saw[p]) /\ lien[ask[p].lien] /= 0
  /\ lien' = [lien EXCEPT ![ask[p].lien] = ask[p].amount]
  /\ Leave(p)
  /\ UNCHANGED <<settlement, vouched, reopened>>

DeleteLien(p) ==
  /\ Serves(p, "remove") /\ ~LiensLocked(saw[p]) /\ lien[ask[p].lien] /= 0
  /\ lien' = [lien EXCEPT ![ask[p].lien] = 0]
  /\ Leave(p)
  /\ UNCHANGED <<settlement, vouched, reopened>>

-----------------------------------------------------------------------------
\* setApprovalStepStatus

\* The status that follows the chain as this transaction sees it after its write.
PromotedOnly(row, step) ==   \* mutant: never demotes
  IF Complete(step) /\ row.status = "pending" THEN "approved" ELSE settlement.status

InStep(row, step) ==
  CASE Complete(step) /\ row.status = "pending"   -> "approved"
    [] ~Complete(step) /\ row.status = "approved" -> "pending"
    [] OTHER -> settlement.status

SetStep(p) ==
  LET a == ask[p]
      seen == [saw[p].step EXCEPT ![a.step] = a.status]
  IN /\ Serves(p, "sign") /\ saw[p].status \notin Paid
     /\ settlement' = [settlement EXCEPT !.step[a.step] = a.status,
                                         !.status = InStep(saw[p], seen)]
     /\ Remember(settlement', lien, FALSE)
     /\ Leave(p)
     /\ UNCHANGED lien

-----------------------------------------------------------------------------
Next ==
  \E p \in Process :
    \/ Receive(p) \/ Enter(p) \/ Abort(p)
    \/ Open(p) \/ Update(p)
    \/ AddLien(p) \/ UpdateLien(p) \/ DeleteLien(p)
    \/ SetStep(p)

Spec == Init /\ [][Next]_vars

-----------------------------------------------------------------------------
Rows == [status : Statuses \cup {"none"}, amounts : Amounts \cup {0},
         step : [Step -> StepStatuses]]

\* Every variable has the shape the program can give it, one action at a time
\* holds the matter's lock, and it has something to do.
TypeOK ==
  /\ settlement \in Rows
  /\ lien \in [Lien -> LienAmounts \cup {0}]
  /\ ask \in [Process -> Asks \cup {Idle}]
  /\ inside \in SUBSET Process
  /\ \A p, q \in inside : p = q
  /\ \A p \in inside : ask[p] /= Idle
  /\ saw \in [Process -> Rows]
  /\ vouched \in [amounts : Amounts \cup {0}, lien : [Lien -> LienAmounts \cup {0}]]
  /\ reopened \in BOOLEAN

\* A settlement that is approved, disbursed or closed has every sign-off,
\* however rejections, resets, amount edits and status saves raced it.
ApprovedMeansSigned ==
  settlement.status \in SignedOff => Complete(settlement.step)

\* Its gross, fee and costs are those the last sign-off completed the chain on,
\* also when it was reopened, edited or approved again in between.
AmountsAreVouched ==
  settlement.status \in SignedOff => settlement.amounts = vouched.amounts

\* Two approvers who sign the last two steps at once do not both believe the
\* other step is open: a complete chain is promoted, unless a save reopened it.
CompleteChainIsPromoted ==
  settlement.status = "pending" /\ Complete(settlement.step) => reopened

\* Once the money has moved nothing that it was computed from changes, be it by
\* an edit that was on its way, until the settlement is reopened.
FrozenOncePaid ==
  [][settlement.status \in Paid /\ settlement'.status \in Paid
     => /\ settlement'.amounts = settlement.amounts
        /\ settlement'.step = settlement.step
        /\ lien' = lien]_vars

\* A sign-off is never taken back by a save of somebody who may only edit.
SignOffsFallToApprovers ==
  [][\A s \in Step :
       settlement.step[s] = "approved" /\ settlement'.step[s] /= "approved"
       => \E p \in inside : p \notin inside'
                            /\ (ask[p] \in Saves => ask[p].approver)]_vars

\* "once the settlement is approved the sign-offs vouch for the current lien
\* numbers (like gross/fee/costs)" (settlements.ts:326-328).
LiensAreVouched == settlement.status \in SignedOff => lien = vouched.lien
=============================================================================
