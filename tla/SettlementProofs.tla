-------------------------- MODULE SettlementProofs --------------------------
(***************************************************************************)
(* What Settlement keeps for any number of actions, steps, amounts and     *)
(* liens.  The argument is the advisory lock: who is inside saw the        *)
(* settlement as it still is (SawCurrent), so its checks hold when it      *)
(* writes; and a complete chain is only ever left standing on the numbers  *)
(* it was completed on (ChainVouches).                                     *)
(***************************************************************************)
EXTENDS Settlement, TLAPS

\* The lock's holder read the settlement that it will overwrite.
SawCurrent == \A p \in inside : saw[p] = settlement

\* Whatever the status, a complete chain vouches for the amounts in the row.
ChainVouches ==
  Complete(settlement.step) => settlement.amounts = vouched.amounts

\* Only a save comes before there is a settlement, and nothing is signed by then.
Unopened ==
  settlement.status = "none" =>
    /\ settlement = NoSettlement
    /\ \A p \in Process : ask[p] \in Saves \cup {Idle}

IInv == TypeOK /\ SawCurrent /\ ApprovedMeansSigned /\ ChainVouches /\ Unopened

-----------------------------------------------------------------------------
\* A chain that was just seeded or reset is not complete (there is a step).
LEMMA FreshChainIncomplete == ~Complete(NoSettlement.step)
  BY SettlementAssumption DEF Complete, NoSettlement

\* A settlement with no row is a row.
LEMMA NoSettlementType == NoSettlement \in Rows
  BY SMT DEF NoSettlement, Rows, StepStatuses

\* The fields of a request that an upsert carries.
LEMMA SaveFields ==
  ASSUME NEW a \in Asks, a.op = "save"
  PROVE  a \in Saves /\ a.to \in Statuses /\ a.amounts \in Amounts /\ a.approver \in BOOLEAN
  BY SMT DEF Asks, Saves, Signs, Adds, Changes, Removes

\* The fields of a request that signs a step.
LEMMA SignFields ==
  ASSUME NEW a \in Asks, a.op = "sign"
  PROVE  a.step \in Step /\ a.status \in StepStatuses /\ a \notin Saves
  BY SMT DEF Asks, Saves, Signs, Adds, Changes, Removes

\* The fields of a request that touches a lien.
LEMMA LienFields ==
  ASSUME NEW a \in Asks, a.op \in {"add", "change", "remove"}
  PROVE  /\ a \notin Saves
         /\ a.op \in {"add", "change"} => a.amount \in LienAmounts
         /\ a.op \in {"change", "remove"} => a.lien \in Lien
  BY SMT DEF Asks, Saves, Signs, Adds, Changes, Removes

\* Leaving the transaction keeps the lock's bookkeeping well-formed.
LEMMA LeaveTypes ==
  ASSUME TypeOK, NEW p \in Process, Leave(p)
  PROVE  /\ ask' \in [Process -> Asks \cup {Idle}]
         /\ inside' \in SUBSET Process
         /\ \A q, r \in inside' : q = r
         /\ \A q \in inside' : ask'[q] /= Idle
         /\ saw' \in [Process -> Rows]
         /\ p \in inside => inside' = {}
  <1>1. ask' \in [Process -> Asks \cup {Idle}]
    BY DEF Leave, TypeOK
  <1>2. inside' \in SUBSET Process /\ (\A q, r \in inside' : q = r)
    BY DEF Leave, TypeOK
  <1>3. \A q \in inside' : ask'[q] /= Idle
    BY DEF Leave, TypeOK
  <1>4. saw' \in [Process -> Rows]
    BY NoSettlementType DEF Leave, TypeOK
  <1>5. p \in inside => inside' = {}
    BY DEF Leave, TypeOK
  <1> QED BY <1>1, <1>2, <1>3, <1>4, <1>5

-----------------------------------------------------------------------------
\* An empty database satisfies the invariant.
LEMMA InitIInv == Init => IInv
  <1> SUFFICES ASSUME Init PROVE IInv
    OBVIOUS
  <1>1. TypeOK
    BY NoSettlementType DEF Init, TypeOK, NoLien
  <1>2. SawCurrent
    BY DEF Init, SawCurrent
  <1>3. ApprovedMeansSigned
    BY DEF Init, ApprovedMeansSigned, NoSettlement, SignedOff, Paid
  <1>4. ChainVouches
    BY FreshChainIncomplete DEF Init, ChainVouches
  <1>5. Unopened
    BY DEF Init, Unopened
  <1> QED BY <1>1, <1>2, <1>3, <1>4, <1>5 DEF IInv

\* A write by the lock's holder keeps the invariant if the row it leaves is a
\* row, is signed off as far as its status says, and vouches for its amounts.
LEMMA WriteKeepsIInv ==
  ASSUME IInv, NEW p \in inside, Leave(p),
         settlement' \in Rows, settlement'.status /= "none", lien' \in [Lien -> LienAmounts \cup {0}],
         vouched' \in [amounts : Amounts \cup {0}, lien : [Lien -> LienAmounts \cup {0}]],
         reopened' \in BOOLEAN, ApprovedMeansSigned', ChainVouches'
  PROVE  IInv'
  <1>1. TypeOK /\ p \in Process
    BY DEF IInv, TypeOK
  <1>2. TypeOK'
    BY <1>1, LeaveTypes DEF TypeOK
  <1>3. SawCurrent'
    BY <1>1, LeaveTypes DEF SawCurrent
  <1> QED BY <1>2, <1>3 DEF IInv, Unopened

\* What the history records is well-typed, and vouches for a chain that was
\* completed now, or that was complete on the same amounts before.
LEMMA RememberVouches ==
  ASSUME IInv, NEW row \in Rows, NEW puts \in BOOLEAN, settlement' = row,
         Remember(row, lien, puts),
         Complete(row.step) /\ Complete(settlement.step) => row.amounts = settlement.amounts
  PROVE  /\ vouched' \in [amounts : Amounts \cup {0}, lien : [Lien -> LienAmounts \cup {0}]]
         /\ reopened' \in BOOLEAN
         /\ ChainVouches'
  <1>1. row.amounts \in Amounts \cup {0}
    BY DEF Rows
  <1>2. vouched' \in [amounts : Amounts \cup {0}, lien : [Lien -> LienAmounts \cup {0}]]
    BY <1>1 DEF Remember, IInv, TypeOK
  <1>3. reopened' \in BOOLEAN
    BY DEF Remember, IInv, TypeOK
  <1>4. ChainVouches'
    <2>1. CASE Complete(row.step) /\ ~Complete(settlement.step)
      BY <2>1 DEF Remember, ChainVouches
    <2>2. CASE ~(Complete(row.step) /\ ~Complete(settlement.step))
      BY <2>2 DEF Remember, ChainVouches, IInv
    <2> QED BY <2>1, <2>2
  <1> QED BY <1>2, <1>3, <1>4

-----------------------------------------------------------------------------
\* upsertSettlement opens a settlement: pending, its chain unsigned.
LEMMA OpenKeepsIInv ==
  ASSUME IInv, NEW p \in Process, Open(p)
  PROVE  IInv'
  <1>1. p \in inside /\ ask[p] \in Asks /\ ask[p].op = "save"
    BY DEF Open, Serves, IInv, TypeOK, Idle
  <1>2. ask[p].amounts \in Amounts
    BY <1>1, SaveFields
  <1>3. settlement' \in Rows /\ settlement'.status = "pending"
        /\ settlement'.step = NoSettlement.step
    BY <1>2, NoSettlementType DEF Open, Rows, Statuses, NoSettlement
  <1>4. ApprovedMeansSigned' /\ ChainVouches'
    BY <1>3, FreshChainIncomplete DEF ApprovedMeansSigned, ChainVouches, SignedOff, Paid, Complete
  <1> QED
    BY <1>1, <1>3, <1>4, WriteKeepsIInv DEF Open, IInv, TypeOK

\* An accepted save: either it resets the chain, or the amounts stay those a
\* complete chain vouches for and the new status has the sign-offs it claims.
LEMMA UpdateKeepsIInv ==
  ASSUME IInv, NEW p \in Process, Update(p)
  PROVE  IInv'
  <1> DEFINE a == ask[p]
             row == Saved(a, settlement)
             puts == a.to /= settlement.status
  <1>1. p \in inside /\ a \in Asks /\ a.op = "save" /\ saw[p] = settlement
    BY DEF Update, Serves, IInv, TypeOK, Idle, SawCurrent
  <1>2. a.to \in Statuses /\ a.amounts \in Amounts
    BY <1>1, SaveFields
  <1>3. /\ settlement.status /= "none" /\ Accepted(a, settlement)
        /\ settlement' = row /\ lien' = lien /\ Leave(p)
        /\ Remember(row, lien, puts)
    BY <1>1 DEF Update
  <1>4. settlement \in Rows
    BY DEF IInv, TypeOK
  <1>5. CASE Resets(a, settlement)
    <2>1. row \in Rows /\ row.status = "pending" /\ row.step = NoSettlement.step
      BY <1>2, <1>5, NoSettlementType DEF Saved, Rows, Statuses, NoSettlement
    <2>2. ~Complete(row.step)
      BY <2>1, FreshChainIncomplete DEF Complete
    <2>3. ApprovedMeansSigned'
      BY <1>3, <2>1 DEF ApprovedMeansSigned, SignedOff, Paid
    <2>4. /\ vouched' \in [amounts : Amounts \cup {0}, lien : [Lien -> LienAmounts \cup {0}]]
          /\ reopened' \in BOOLEAN /\ ChainVouches'
      BY <1>3, <2>1, <2>2, RememberVouches
    <2> QED BY <1>1, <1>3, <2>1, <2>3, <2>4, WriteKeepsIInv DEF IInv, TypeOK
  <1>6. CASE ~Resets(a, settlement)
    <2>1. row = [settlement EXCEPT !.status = a.to, !.amounts = a.amounts]
      BY <1>6 DEF Saved
    <2>2. /\ row \in Rows /\ row.step = settlement.step
          /\ row.status = a.to /\ row.amounts = a.amounts
      BY <1>2, <1>4, <2>1 DEF Rows
    <2>3. Complete(settlement.step) => a.amounts = settlement.amounts
      BY <1>6 DEF Resets
    <2>4. /\ vouched' \in [amounts : Amounts \cup {0}, lien : [Lien -> LienAmounts \cup {0}]]
          /\ reopened' \in BOOLEAN /\ ChainVouches'
      BY <1>3, <2>2, <2>3, RememberVouches
    <2>5. a.to \in SignedOff => Complete(settlement.step)
      BY <1>2, <1>3 DEF Accepted, LegalMove, SignedOff, Paid, IInv, ApprovedMeansSigned
    <2>6. ApprovedMeansSigned'
      BY <1>3, <2>2, <2>5 DEF ApprovedMeansSigned, Complete
    <2>7. settlement'.status /= "none"
      BY <1>2, <1>3, <2>2 DEF Statuses
    <2> QED BY <1>1, <1>3, <2>2, <2>4, <2>6, <2>7, WriteKeepsIInv DEF IInv, TypeOK
  <1> QED BY <1>5, <1>6

\* A step is signed, rejected or reset, and the status follows the chain.
LEMMA SetStepKeepsIInv ==
  ASSUME IInv, NEW p \in Process, SetStep(p)
  PROVE  IInv'
  <1> DEFINE a == ask[p]
             step == [settlement.step EXCEPT ![a.step] = a.status]
             row == [settlement EXCEPT !.step[a.step] = a.status,
                                       !.status = InStep(settlement, step)]
  <1>1. p \in inside /\ a \in Asks /\ a.op = "sign" /\ saw[p] = settlement
    BY DEF SetStep, Serves, IInv, TypeOK, Idle, SawCurrent
  <1>2. a.step \in Step /\ a.status \in StepStatuses
    BY <1>1, SignFields
  <1>3. /\ settlement.status \notin Paid
        /\ settlement' = row /\ lien' = lien /\ Leave(p)
        /\ Remember(row, lien, FALSE)
    BY <1>1 DEF SetStep
  <1>4. settlement \in Rows
    BY DEF IInv, TypeOK
  <1>5. InStep(settlement, step) \in Statuses \cup {"none"}
    BY <1>4 DEF InStep, Rows, Statuses
  <1>6. /\ row \in Rows /\ row.step = step /\ row.amounts = settlement.amounts
        /\ row.status = InStep(settlement, step)
    BY <1>2, <1>4, <1>5 DEF Rows
  <1>7. InStep(settlement, step) \in SignedOff => Complete(step)
    BY <1>3, <1>4 DEF InStep, SignedOff, Paid
  <1>8. ApprovedMeansSigned'
    BY <1>3, <1>6, <1>7 DEF ApprovedMeansSigned
  <1>9. /\ vouched' \in [amounts : Amounts \cup {0}, lien : [Lien -> LienAmounts \cup {0}]]
        /\ reopened' \in BOOLEAN /\ ChainVouches'
    BY <1>3, <1>6, RememberVouches
  <1>10. settlement.status /= "none"
    BY <1>1, SignFields DEF IInv, Unopened, Idle
  <1>11. settlement'.status /= "none"
    BY <1>3, <1>6, <1>10 DEF InStep
  <1> QED BY <1>1, <1>3, <1>6, <1>8, <1>9, <1>11, WriteKeepsIInv DEF IInv, TypeOK

\* A lien is added, changed or removed; the settlement's row is not touched.
LEMMA LienKeepsIInv ==
  ASSUME IInv, NEW p \in Process, AddLien(p) \/ UpdateLien(p) \/ DeleteLien(p)
  PROVE  IInv'
  <1>1. p \in inside /\ ask[p] \in Asks
    BY DEF AddLien, UpdateLien, DeleteLien, Serves, IInv, TypeOK, Idle
  <1>2. lien' \in [Lien -> LienAmounts \cup {0}]
    <2>1. CASE AddLien(p)
      BY <1>1, <2>1, LienFields DEF AddLien, Serves, IInv, TypeOK
    <2>2. CASE UpdateLien(p)
      BY <1>1, <2>2, LienFields DEF UpdateLien, Serves, IInv, TypeOK
    <2>3. CASE DeleteLien(p)
      BY <1>1, <2>3, LienFields DEF DeleteLien, Serves, IInv, TypeOK
    <2> QED BY <2>1, <2>2, <2>3
  <1>3. UNCHANGED <<settlement, vouched, reopened>> /\ Leave(p)
    BY DEF AddLien, UpdateLien, DeleteLien
  <1>4. ApprovedMeansSigned' /\ ChainVouches'
    BY <1>3 DEF IInv, ApprovedMeansSigned, ChainVouches, Complete
  <1>5. settlement'.status /= "none"
    <2>1. ask[p].op \in {"add", "change", "remove"}
      BY DEF AddLien, UpdateLien, DeleteLien, Serves
    <2>2. ask[p] \notin Saves \cup {Idle}
      BY <1>1, <2>1, LienFields DEF Idle
    <2> QED BY <1>3, <2>2 DEF IInv, Unopened
  <1> QED BY <1>1, <1>2, <1>3, <1>4, <1>5, WriteKeepsIInv DEF IInv, TypeOK

\* A request arrives, waits for the lock and reads, or gives up.
LEMMA WaitingKeepsIInv ==
  ASSUME IInv, NEW p \in Process, Receive(p) \/ Enter(p) \/ Abort(p)
  PROVE  IInv'
  <1>1. UNCHANGED <<settlement, lien, vouched, reopened>>
    BY DEF Receive, Enter, Abort
  <1>2. ApprovedMeansSigned' /\ ChainVouches'
    BY <1>1 DEF IInv, ApprovedMeansSigned, ChainVouches, Complete
  <1>3. CASE Receive(p)
    <2>1. TypeOK' /\ SawCurrent'
      BY <1>1, <1>3 DEF Receive, IInv, TypeOK, SawCurrent, Idle, Asks, Saves, Signs, Adds, Changes, Removes
    <2>2. Unopened'
      BY <1>1, <1>3 DEF Receive, IInv, TypeOK, Unopened
    <2> QED BY <1>2, <2>1, <2>2 DEF IInv
  <1>4. CASE Enter(p)
    BY <1>1, <1>2, <1>4 DEF Enter, IInv, TypeOK, SawCurrent, Unopened
  <1>5. CASE Abort(p)
    <2>1. TypeOK'
      BY <1>1, <1>5, LeaveTypes DEF Abort, IInv, TypeOK
    <2>2. SawCurrent'
      BY <1>1, <1>5 DEF Abort, Leave, IInv, TypeOK, SawCurrent
    <2>3. Unopened'
      BY <1>1, <1>5 DEF Abort, Leave, IInv, TypeOK, Unopened
    <2> QED BY <1>2, <2>1, <2>2, <2>3 DEF IInv
  <1> QED BY <1>3, <1>4, <1>5

\* The invariant is inductive.
LEMMA NextKeepsIInv == IInv /\ [Next]_vars => IInv'
  <1> SUFFICES ASSUME IInv, [Next]_vars PROVE IInv'
    OBVIOUS
  <1>1. CASE UNCHANGED vars
    BY <1>1 DEF vars, IInv, TypeOK, SawCurrent, ApprovedMeansSigned, ChainVouches, Complete, Unopened
  <1>2. CASE Next
    <2>1. PICK p \in Process : \/ Receive(p) \/ Enter(p) \/ Abort(p)
                              \/ Open(p) \/ Update(p)
                              \/ AddLien(p) \/ UpdateLien(p) \/ DeleteLien(p)
                              \/ SetStep(p)
      BY <1>2 DEF Next
    <2> QED
      BY <2>1, WaitingKeepsIInv, OpenKeepsIInv, UpdateKeepsIInv, LienKeepsIInv, SetStepKeepsIInv
  <1> QED BY <1>1, <1>2

\* The inductive invariant holds in every state.
THEOREM Invariance == Spec => []IInv
  <1> QED BY InitIInv, NextKeepsIInv, PTL DEF Spec

-----------------------------------------------------------------------------
\* The variables keep their types and one action at a time holds the lock.
THEOREM TypeCorrect == Spec => []TypeOK
  <1>1. IInv => TypeOK
    BY DEF IInv
  <1> QED BY <1>1, Invariance, PTL

\* An approved, disbursed or closed settlement has every sign-off.
THEOREM SignedOffIsSigned == Spec => []ApprovedMeansSigned
  <1>1. IInv => ApprovedMeansSigned
    BY DEF IInv
  <1> QED BY <1>1, Invariance, PTL

\* ... and carries the amounts its chain was completed on.
THEOREM AmountsVouched == Spec => []AmountsAreVouched
  <1>1. IInv => AmountsAreVouched
    BY DEF IInv, ApprovedMeansSigned, ChainVouches, AmountsAreVouched
  <1> QED BY <1>1, Invariance, PTL

\* After the money has moved, amounts, sign-offs and liens stay as they are for
\* as long as nobody reopens the settlement.
THEOREM PaidIsFrozen == Spec => FrozenOncePaid
  <1> DEFINE Frozen == settlement.status \in Paid /\ settlement'.status \in Paid
                       => /\ settlement'.amounts = settlement.amounts
                          /\ settlement'.step = settlement.step
                          /\ lien' = lien
  <1>1. IInv /\ [Next]_vars => Frozen
    <2> SUFFICES ASSUME IInv, [Next]_vars, settlement.status \in Paid, settlement'.status \in Paid
                 PROVE  /\ settlement'.amounts = settlement.amounts
                        /\ settlement'.step = settlement.step
                        /\ lien' = lien
      OBVIOUS
    <2>1. CASE UNCHANGED vars
      BY <2>1 DEF vars
    <2>2. ASSUME NEW p \in Process, Receive(p) \/ Enter(p) \/ Abort(p)
          PROVE  UNCHANGED <<settlement, lien>>
      BY <2>2 DEF Receive, Enter, Abort
    <2>3. ASSUME NEW p \in Process, p \in inside
          PROVE  saw[p] = settlement
      BY <2>3 DEF IInv, SawCurrent
    <2>4. ASSUME NEW p \in Process
          PROVE  ~Open(p) /\ ~AddLien(p) /\ ~UpdateLien(p) /\ ~DeleteLien(p) /\ ~SetStep(p)
      BY <2>3 DEF Open, AddLien, UpdateLien, DeleteLien, SetStep, Serves, LiensLocked, SignedOff, Paid
    <2>5. ASSUME NEW p \in Process, Update(p)
          PROVE  /\ settlement'.amounts = settlement.amounts
                 /\ settlement'.step = settlement.step
                 /\ lien' = lien
      <3>1. saw[p] = settlement
        BY <2>3, <2>5 DEF Update, Serves
      <3>2. ask[p].amounts = settlement.amounts /\ ~Resets(ask[p], settlement)
        BY <2>5, <3>1 DEF Update, Accepted, Resets
      <3>3. settlement' = [settlement EXCEPT !.status = ask[p].to, !.amounts = ask[p].amounts]
        BY <2>5, <3>1, <3>2 DEF Update, Saved
      <3> QED BY <2>5, <3>2, <3>3 DEF Update, IInv, TypeOK, Rows
    <2> QED BY <2>1, <2>2, <2>4, <2>5 DEF Next
  <1> QED BY <1>1, Invariance, PTL DEF Spec, FrozenOncePaid

\* A complete chain is promoted by whoever completes it; it only waits in
\* pending after a save that put it there.
THEOREM CompletionPromotes == Spec => []CompleteChainIsPromoted
  <1>1. Init => CompleteChainIsPromoted
    BY FreshChainIncomplete DEF Init, CompleteChainIsPromoted
  <1>2. IInv /\ CompleteChainIsPromoted /\ [Next]_vars => CompleteChainIsPromoted'
    <2> SUFFICES ASSUME IInv, CompleteChainIsPromoted, [Next]_vars,
                        settlement'.status = "pending", Complete(settlement'.step)
                 PROVE  reopened'
      BY DEF CompleteChainIsPromoted, Complete
    <2>1. CASE UNCHANGED <<settlement, reopened>>
      BY <2>1 DEF CompleteChainIsPromoted
    <2>2. ASSUME NEW p \in Process, Open(p) PROVE FALSE
      BY <2>2, FreshChainIncomplete DEF Open, NoSettlement, Complete
    <2>3. ASSUME NEW p \in Process, Update(p) PROVE reopened'
      <3>1. saw[p] = settlement
        BY <2>3 DEF Update, Serves, IInv, SawCurrent
      <3>2. ~Resets(ask[p], settlement)
        BY <2>3, <3>1, FreshChainIncomplete DEF Update, Saved, NoSettlement, Complete
      <3>3. settlement' = [settlement EXCEPT !.status = ask[p].to, !.amounts = ask[p].amounts]
        BY <2>3, <3>1, <3>2 DEF Update, Saved
      <3>4. ask[p].to = "pending" /\ settlement'.step = settlement.step
        BY <3>3 DEF IInv, TypeOK, Rows
      <3>5. reopened \/ ask[p].to /= settlement.status
        BY <3>4 DEF CompleteChainIsPromoted
      <3> QED BY <2>3, <3>1, <3>5 DEF Update, Remember
    <2>4. ASSUME NEW p \in Process, SetStep(p) PROVE FALSE
      <3> DEFINE step == [settlement.step EXCEPT ![ask[p].step] = ask[p].status]
      <3>1. saw[p] = settlement
        BY <2>4 DEF SetStep, Serves, IInv, SawCurrent
      <3>2. settlement'.status = InStep(settlement, step) /\ settlement'.step = step
        BY <2>4, <3>1 DEF SetStep, IInv, TypeOK, Rows
      <3> QED BY <3>2 DEF InStep
    <2> QED
      BY <2>1, <2>2, <2>3, <2>4
      DEF Next, vars, Receive, Enter, Abort, AddLien, UpdateLien, DeleteLien
  <1> QED BY <1>1, <1>2, Invariance, PTL DEF Spec

\* A save wipes sign-offs only for somebody who may approve.
THEOREM EditorsKeepSignOffs == Spec => SignOffsFallToApprovers
  <1> DEFINE Kept ==
        \A s \in Step :
          settlement.step[s] = "approved" /\ settlement'.step[s] /= "approved"
          => \E p \in inside : p \notin inside' /\ (ask[p] \in Saves => ask[p].approver)
  <1>1. IInv /\ [Next]_vars => Kept
    <2> SUFFICES ASSUME IInv, [Next]_vars, NEW s \in Step,
                        settlement.step[s] = "approved", settlement'.step[s] /= "approved"
                 PROVE  \E p \in inside : p \notin inside' /\ (ask[p] \in Saves => ask[p].approver)
      OBVIOUS
    <2>1. settlement' /= settlement
      OBVIOUS
    <2>2. PICK p \in Process : Open(p) \/ Update(p) \/ SetStep(p)
      BY <2>1 DEF Next, vars, Receive, Enter, Abort, AddLien, UpdateLien, DeleteLien
    <2>3. p \in inside /\ saw[p] = settlement /\ p \notin inside' /\ ask[p] \in Asks
      BY <2>2 DEF Open, Update, SetStep, Serves, Leave, IInv, TypeOK, SawCurrent, Idle
    <2>4. CASE Open(p)
      <3>1. settlement = NoSettlement
        BY <2>3, <2>4 DEF Open, IInv, Unopened
      <3> QED BY <3>1 DEF NoSettlement
    <2>5. CASE Update(p)
      <3>1. Resets(ask[p], settlement)
        BY <2>3, <2>5 DEF Update, Saved, IInv, TypeOK, Rows
      <3>2. ask[p].approver
        BY <2>3, <2>5, <3>1 DEF Update, Accepted
      <3> QED BY <2>3, <3>2
    <2>6. CASE SetStep(p)
      BY <2>3, <2>6, SignFields DEF SetStep, Serves
    <2> QED BY <2>2, <2>4, <2>5, <2>6
  <1> QED BY <1>1, Invariance, PTL DEF Spec, SignOffsFallToApprovers
=============================================================================
