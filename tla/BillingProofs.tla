---------------------------- MODULE BillingProofs ----------------------------
(* Proofs about Billing, for any number of requests, matters, invoices and  *)
(* lines.  The inductive invariant IInv says of every running request what  *)
(* it carries (RequestOK) and which rows it has locked and read (Holds).    *)
(* The argument is rely and guarantee: a step of one request leaves alone   *)
(* what another one holds (Rely), so each step is proved for its own        *)
(* request only.                                                            *)
EXTENDS Billing, FiniteSetTheorems, WellFoundedInduction, TLAPS

-----------------------------------------------------------------------------
(* The inductive invariant.                                                *)

EntryRequest  == [at : {"entry:read"}, entry : Entry, rate : Rates \cup {None}, hours : Hours,
                  chargeable : BOOLEAN, status : PostedStatuses \cup {None}]
StatusRequest == [at : {"status:entry"}, entry : Entry, from : EntryStatuses,
                  to : PostedStatuses]
MintRequest   == [at : {"mint:entries", "mint:retry"}, matter : Matter, kind : Kinds,
                  tries : Nat]
LineRequest   == [at : {"line:read", "line:locked"}, entry : Entry, inv : Invoice,
                  hours : Hours, rate : Rates \cup {None}]
FlipRequest   == [at : {"flip:read"}, inv : Invoice, next : {"void", "paid"}, row : InvoiceRow]
DeleteRequest == [at : {"delete:read", "delete:locked"}, inv : Invoice]
PayRequest    == [at : {"pay:invoice", "pay:commit"}, inv : Invoice, amt : Positive,
                  src : Sources, row : InvoiceRow, bal : Money]
SendRequest   == [at : {"send:invoice", "send:commit"}, inv : Invoice, apply : BOOLEAN,
                  want : Positive \cup {None}, row : InvoiceRow, bal : Money, amt : Money]
TrustRequest  == [at : {"trust:locked"}, matter : Matter, delta : Int, bal : Money]

MintUnderway(r) == r.at \in {"mint:entries", "mint:expenses", "mint:number", "mint:commit"}

RequestOK(r) ==
  /\ r.at = "entry:read" => r \in EntryRequest
  /\ r.at = "status:entry" => r \in StatusRequest
  /\ r.at \in {"mint:entries", "mint:retry"} => r \in MintRequest
  /\ MintUnderway(r) => r.matter \in Matter /\ r.kind \in Kinds /\ r.tries \in Nat
  /\ r.at = "mint:commit" => r.number \in Nat
  /\ r.at \in {"line:read", "line:locked"} => r \in LineRequest
  /\ r.at \in {"approve:shown", "approve:read"} => r.inv \in Invoice
  /\ r.at = "flip:read" => r \in FlipRequest
  /\ r.at \in {"delete:read", "delete:locked"} => r \in DeleteRequest
  /\ r.at \in {"pay:invoice", "pay:commit"} => r \in PayRequest
  /\ r.at \in {"send:invoice", "send:commit"} => r \in SendRequest
  /\ r.at = "trust:locked" => r \in TrustRequest

Holds(p) ==
  LET r == req[p] IN
  /\ PaymentIsCurrent(p) /\ SendIsCurrent(p) /\ TrustIsCurrent(p)
  /\ r.at = "pay:invoice" => r.src = "trust"
  /\ r.at = "send:invoice" => r.apply
  /\ r.at = "send:commit" /\ ~r.apply => r.amt = 0
  /\ MintUnderway(r) => matterLock[r.matter] = p
  /\ r.at = "line:locked" => invoiceLock[r.inv] = p /\ invoice[r.inv].status = "draft"
  /\ r.at = "delete:locked" => invoiceLock[r.inv] = p /\ CanDelete(invoice[r.inv])
  /\ r.at = "flip:read" =>
       /\ MayFlip(r.row, r.next)
       /\ r.row.kind = invoice[r.inv].kind /\ invoice[r.inv].status # "none"

\* A row identifier not yet used carries nothing; every invoice has a matter.
RowsBegun == \A i \in Invoice : IF invoice[i].status = "none"
                               THEN invoice[i].kind = "client" /\ invoiceLock[i] = None
                               ELSE invoice[i].matter \in Matter

MoneyOK == TrustBalanceIsLedger /\ PaidIsSumOfPayments /\ StatusTellsPayments
RequestsOK == /\ req = [p \in Proc |-> req[p]]
              /\ \A p \in Proc : RequestOK(req[p]) /\ Holds(p)

IInv == TypeOK /\ MoneyOK /\ RowsBegun /\ RequestsOK

\* What a step of another request leaves alone for q.
Rely(q) ==
  /\ req'[q] = req[q]
  /\ \A i \in Invoice : invoiceLock[i] = q => invoiceLock'[i] = q /\ invoice'[i] = invoice[i]
  /\ \A m \in Matter : matterLock[m] = q =>
       matterLock'[m] = q /\ trustBalance'[m] = trustBalance[m]
  /\ \A i \in Invoice : invoice[i].status # "none" =>
       invoice'[i].status # "none" /\ invoice'[i].kind = invoice[i].kind

\* What a step of p does.
Guarantee(p) ==
  /\ TypeOK' /\ MoneyOK' /\ RowsBegun'
  /\ req' = [q \in Proc |-> req'[q]]
  /\ \A q \in Proc \ {p} : Rely(q)
  /\ RequestOK(req'[p]) /\ Holds(p)'

\* What a request carries and holds survives the steps of the others.
LEMMA RelyKeeps ==
  ASSUME NEW q \in Proc, IInv, Rely(q)
  PROVE  RequestOK(req'[q]) /\ Holds(q)'
<1> DEFINE r == req[q]
<1>1. RequestOK(r) /\ Holds(q) /\ req'[q] = r
  BY DEF IInv, RequestsOK, Rely
<1>2. RequestOK(req'[q])
  BY <1>1
<1>3. PaymentIsCurrent(q)'
  <2>1. CASE r.at \in {"pay:invoice", "pay:commit"}
    <3>1. r.inv \in Invoice /\ invoiceLock[r.inv] = q /\ invoice[r.inv] = r.row
          /\ Payable(r.row, r.amt)
      BY <1>1, <2>1 DEF RequestOK, PayRequest, Holds, PaymentIsCurrent
    <3>2. invoiceLock'[r.inv] = q /\ invoice'[r.inv] = r.row
      BY <3>1 DEF Rely
    <3>3. r.row.matter \in Matter
      BY <3>1 DEF IInv, RowsBegun, Payable
    <3>4. r.at = "pay:commit" /\ r.src = "trust" =>
            /\ matterLock'[r.row.matter] = q
            /\ r.bal = trustBalance'[r.row.matter] /\ r.amt <= r.bal
      BY <1>1, <3>3 DEF Holds, PaymentIsCurrent, Rely
    <3> QED BY <1>1, <3>1, <3>2, <3>4 DEF PaymentIsCurrent
  <2>2. CASE r.at \notin {"pay:invoice", "pay:commit"}
    BY <1>1, <2>2 DEF PaymentIsCurrent
  <2> QED BY <2>1, <2>2
<1>4. SendIsCurrent(q)'
  <2>1. CASE r.at \in {"send:invoice", "send:commit"}
    <3>1. r.inv \in Invoice /\ invoiceLock[r.inv] = q /\ invoice[r.inv] = r.row
          /\ Sendable(r.row)
      BY <1>1, <2>1 DEF RequestOK, SendRequest, Holds, SendIsCurrent
    <3>2. invoiceLock'[r.inv] = q /\ invoice'[r.inv] = r.row
      BY <3>1 DEF Rely
    <3>3. r.row.matter \in Matter
      BY <3>1 DEF IInv, RowsBegun, Sendable
    <3>4. r.at = "send:commit" /\ r.apply =>
            /\ matterLock'[r.row.matter] = q
            /\ r.bal = trustBalance'[r.row.matter] /\ r.amt \in 1 .. CapOf(r.row, r.bal)
      BY <1>1, <3>3 DEF Holds, SendIsCurrent, Rely
    <3> QED BY <1>1, <3>1, <3>2, <3>4 DEF SendIsCurrent
  <2>2. CASE r.at \notin {"send:invoice", "send:commit"}
    BY <1>1, <2>2 DEF SendIsCurrent
  <2> QED BY <2>1, <2>2
<1>5. TrustIsCurrent(q)'
  <2>1. r.at = "trust:locked" => r.matter \in Matter
    BY <1>1 DEF RequestOK, TrustRequest
  <2> QED BY <1>1, <2>1 DEF Holds, TrustIsCurrent, Rely
<1>6. MintUnderway(r) => matterLock'[r.matter] = q
  BY <1>1 DEF RequestOK, Holds, Rely
<1>7. r.at = "line:locked" => invoiceLock'[r.inv] = q /\ invoice'[r.inv].status = "draft"
  BY <1>1 DEF RequestOK, LineRequest, Holds, Rely
<1>8. r.at = "delete:locked" => invoiceLock'[r.inv] = q /\ CanDelete(invoice'[r.inv])
  BY <1>1 DEF RequestOK, DeleteRequest, Holds, Rely
<1>9. r.at = "flip:read" =>
        /\ MayFlip(r.row, r.next)
        /\ r.row.kind = invoice'[r.inv].kind /\ invoice'[r.inv].status # "none"
  BY <1>1 DEF RequestOK, FlipRequest, Holds, Rely
<1>10. Holds(q)'
  BY <1>1, <1>3, <1>4, <1>5, <1>6, <1>7, <1>8, <1>9 DEF Holds
<1> QED BY <1>2, <1>10

\* A step that does what Guarantee says preserves the invariant.
LEMMA GuaranteeKeeps ==
  ASSUME NEW p \in Proc, IInv, Guarantee(p)
  PROVE  IInv'
<1>1. \A q \in Proc : RequestOK(req'[q]) /\ Holds(q)'
  BY RelyKeeps DEF Guarantee
<1> QED BY <1>1 DEF Guarantee, IInv, RequestsOK

\* The empty database satisfies the invariant.
LEMMA InitOK == Init => IInv
<1> SUFFICES ASSUME Init PROVE IInv
  OBVIOUS
<1>1. TypeOK
  BY BillingAssumption DEF Init, TypeOK, EntryRow, ExpenseRow, InvoiceRow, Kinds, Money
<1>2. MoneyOK
  BY DEF Init, MoneyOK, TrustBalanceIsLedger, PaidIsSumOfPayments, StatusTellsPayments
<1>3. RequestsOK
  BY DEF Init, RequestsOK, RequestOK, Holds, MintUnderway, Idle,
         PaymentIsCurrent, SendIsCurrent, TrustIsCurrent
<1>4. RowsBegun
  BY DEF Init, RowsBegun
<1> QED BY <1>1, <1>2, <1>3, <1>4 DEF IInv

-----------------------------------------------------------------------------
(* Steps that write no invoice, no money and no lock.                      *)

\* A request's step moves that request and no other.
LEMMA GotoMoves ==
  ASSUME NEW p \in Proc, IInv, NEW r, Goto(p, r)
  PROVE  /\ req' = [q \in Proc |-> req'[q]]
         /\ req'[p] = r /\ \A q \in Proc \ {p} : req'[q] = req[q]
BY DEF IInv, RequestsOK, Goto

\* A step that writes no invoice and no money keeps the money facts.
LEMMA MoneyUntouched ==
  ASSUME IInv, UNCHANGED <<invoice, money>>
  PROVE  MoneyOK'
BY DEF IInv, MoneyOK, money, TrustBalanceIsLedger, PaidIsSumOfPayments, StatusTellsPayments

\* A request at any of these places holds nothing.
Free(r) == r.at \in {"idle", "entry:read", "status:entry", "mint:retry", "line:read",
                     "approve:shown", "approve:read", "delete:read"}

\* A request that holds nothing has nothing to keep.
LEMMA FreeHolds ==
  ASSUME NEW p \in Proc, Free(req[p])'
  PROVE  Holds(p)'
BY DEF Free, Holds, MintUnderway, PaymentIsCurrent, SendIsCurrent, TrustIsCurrent

\* A request's step that writes time entries or expenses only.
LEMMA QuietStep ==
  ASSUME NEW p \in Proc, IInv, NEW r, Goto(p, r), UNCHANGED <<invoice, money, locks>>,
         TypeOK', RequestOK(r), Holds(p)'
  PROVE  IInv'
<1>1. MoneyOK' /\ RowsBegun'
  BY MoneyUntouched DEF IInv, RowsBegun, locks
<1>2. /\ req' = [q \in Proc |-> req'[q]] /\ req'[p] = r
      /\ \A q \in Proc \ {p} : req'[q] = req[q]
  BY GotoMoves
<1>3. \A q \in Proc \ {p} : Rely(q)
  BY <1>2 DEF Rely, money, locks
<1> QED BY <1>1, <1>2, <1>3, GuaranteeKeeps DEF Guarantee

\* A request's step that only reads.
LEMMA ReadStep ==
  ASSUME NEW p \in Proc, IInv, NEW r, Goto(p, r),
         UNCHANGED <<entry, expense, invoice, money, locks>>, RequestOK(r), Holds(p)'
  PROVE  IInv'
BY QuietStep DEF IInv, TypeOK, money, locks

\* A request that has ended holds nothing.
LEMMA IdleIsFree ==
  ASSUME NEW p \in Proc, IInv, Goto(p, Idle)
  PROVE  RequestOK(Idle) /\ Holds(p)'
<1>1. RequestOK(Idle)
  BY DEF RequestOK, Idle, MintUnderway
<1>2. req'[p].at = "idle"
  BY GotoMoves DEF Idle
<1> QED BY <1>1, <1>2, FreeHolds DEF Free

\* A request that ends with a write to a time entry or an expense.
LEMMA IdleStep ==
  ASSUME NEW p \in Proc, IInv, Goto(p, Idle), UNCHANGED <<invoice, money, locks>>, TypeOK'
  PROVE  IInv'
BY IdleIsFree, QuietStep

\* A single statement on a time entry or an expense.
LEMMA LinesStep ==
  ASSUME IInv, TypeOK', UNCHANGED <<invoice, money, locks, req>>
  PROVE  IInv'
<1>1. MoneyOK' /\ RowsBegun'
  BY MoneyUntouched DEF IInv, RowsBegun, locks
<1>2. \A q \in Proc : Rely(q)
  BY DEF Rely, money, locks
<1>3. \A q \in Proc : RequestOK(req'[q]) /\ Holds(q)'
  BY <1>2, RelyKeeps
<1> QED BY <1>1, <1>3 DEF IInv, RequestsOK

\* createTimeEntry, deleteTimeEntry and the expense actions.
LEMMA OneStatementStep ==
  ASSUME IInv, OneStatement
  PROVE  IInv'
<1>1. ASSUME NEW e \in Entry, CreateTimeEntry(e) PROVE IInv'
  <2>1. TypeOK'
    BY <1>1 DEF CreateTimeEntry, IInv, TypeOK, EntryRow, money, locks, EntryStatuses, WipStatuses
  <2> QED BY <1>1, <2>1, LinesStep DEF CreateTimeEntry
<1>2. ASSUME NEW e \in Entry, DeleteTimeEntry(e) PROVE IInv'
  <2>1. TypeOK'
    BY <1>2 DEF DeleteTimeEntry, IInv, TypeOK, EntryRow, money, locks
  <2> QED BY <1>2, <2>1, LinesStep DEF DeleteTimeEntry
<1>3. ASSUME NEW x \in Expense, CreateExpense(x) PROVE IInv'
  <2>1. TypeOK'
    BY <1>3, BillingAssumption
    DEF CreateExpense, IInv, TypeOK, ExpenseRow, money, locks, Positive, Money
  <2> QED BY <1>3, <2>1, LinesStep DEF CreateExpense
<1>4. ASSUME NEW x \in Expense, UpdateExpense(x) PROVE IInv'
  <2>1. PICK a \in ExpenseAmounts, b \in BOOLEAN :
          expense' = [expense EXCEPT ![x] = [@ EXCEPT !.amount = a, !.billable = b]]
    BY <1>4 DEF UpdateExpense
  <2>2. [expense[x] EXCEPT !.amount = a, !.billable = b] \in ExpenseRow
    <3>1. expense[x] \in ExpenseRow
      BY DEF IInv, TypeOK
    <3>2. a \in Money
      BY BillingAssumption DEF Positive, Money
    <3> QED BY <3>1, <3>2 DEF ExpenseRow
  <2>3. TypeOK'
    BY <1>4, <2>1, <2>2 DEF UpdateExpense, IInv, TypeOK, money, locks
  <2> QED BY <1>4, <2>3, LinesStep DEF UpdateExpense
<1>5. ASSUME NEW x \in Expense, DeleteExpense(x) PROVE IInv'
  <2>1. TypeOK'
    BY <1>5 DEF DeleteExpense, IInv, TypeOK, ExpenseRow, money, locks
  <2> QED BY <1>5, <2>1, LinesStep DEF DeleteExpense
<1> QED BY <1>1, <1>2, <1>3, <1>4, <1>5 DEF OneStatement

\* updateTimeEntry and setTimeEntryStatus.
LEMMA TimeEntrySteps ==
  ASSUME NEW p \in Proc, IInv,
         \/ UpdateEntryWrite(p) \/ SetEntryStatusWrite(p)
         \/ \E e \in Entry : UpdateEntryRead(p, e) \/ SetEntryStatusRead(p, e)
  PROVE  IInv'
<1>1. ASSUME NEW e \in Entry, UpdateEntryRead(p, e) PROVE IInv'
  <2>1. PICK h \in Hours, b \in BOOLEAN, s \in PostedStatuses \cup {None} :
          Goto(p, [at |-> "entry:read", entry |-> e, rate |-> entry[e].rate,
                   hours |-> h, chargeable |-> b, status |-> s])
    BY <1>1 DEF UpdateEntryRead
  <2>2. req'[p].at = "entry:read"
    BY <2>1, GotoMoves
  <2>3. entry[e].rate \in Rates \cup {None}
    BY DEF IInv, TypeOK, EntryRow
  <2>4. RequestOK([at |-> "entry:read", entry |-> e, rate |-> entry[e].rate,
                   hours |-> h, chargeable |-> b, status |-> s])
    BY <2>3 DEF RequestOK, EntryRequest, MintUnderway
  <2> QED BY <1>1, <2>1, <2>2, <2>4, FreeHolds, ReadStep DEF Free, UpdateEntryRead
<1>2. ASSUME NEW e \in Entry, SetEntryStatusRead(p, e) PROVE IInv'
  <2>1. PICK s \in PostedStatuses :
          Goto(p, [at |-> "status:entry", entry |-> e, from |-> entry[e].status, to |-> s])
    BY <1>2 DEF SetEntryStatusRead
  <2>2. req'[p].at = "status:entry"
    BY <2>1, GotoMoves
  <2>3. RequestOK([at |-> "status:entry", entry |-> e, from |-> entry[e].status, to |-> s])
    BY <1>2 DEF SetEntryStatusRead, Exists, RequestOK, StatusRequest, MintUnderway
  <2> QED BY <1>2, <2>1, <2>2, <2>3, FreeHolds, ReadStep DEF Free, SetEntryStatusRead
<1>3. CASE UpdateEntryWrite(p)
  <2>1. Goto(p, Idle) /\ UNCHANGED <<expense, invoice, money, locks>>
    BY <1>3 DEF UpdateEntryWrite
  <2>2. req[p] \in EntryRequest
    BY <1>3 DEF UpdateEntryWrite, IInv, RequestsOK, RequestOK
  <2> DEFINE r == req[p]
             status == IF r.status = None THEN entry[r.entry].status ELSE r.status
             amount == IF r.rate = None THEN entry[r.entry].amount ELSE r.rate * r.hours
             row == [entry[r.entry] EXCEPT !.hours = r.hours, !.chargeable = r.chargeable,
                       !.status = status, !.amount = amount]
  <2>3. r.entry \in Entry /\ entry[r.entry] \in EntryRow
    BY <2>2 DEF EntryRequest, IInv, TypeOK
  <2>4. r.hours \in Hours /\ r.chargeable \in BOOLEAN
    BY <2>2 DEF EntryRequest
  <2>5. status \in EntryStatuses \cup {"none", "gone"}
    BY <2>2, <2>3, BillingAssumption DEF EntryRequest, EntryRow
  <2>6. amount \in Money \cup {None}
    BY <2>2, <2>3, BillingAssumption DEF EntryRequest, EntryRow
  <2>7. row \in EntryRow
    <3> HIDE DEF status, amount
    <3> QED BY <2>3, <2>4, <2>5, <2>6 DEF EntryRow
  <2>8. entry' = [entry EXCEPT ![r.entry] = row] \/ entry' = entry
    BY <1>3 DEF UpdateEntryWrite, EditedEntry
  <2>9. TypeOK'
    BY <2>1, <2>3, <2>7, <2>8 DEF IInv, TypeOK, money, locks
  <2> QED BY <2>1, <2>9, IdleStep
<1>4. CASE SetEntryStatusWrite(p)
  <2>1. Goto(p, Idle) /\ UNCHANGED <<expense, invoice, money, locks>>
    BY <1>4 DEF SetEntryStatusWrite
  <2>2. req[p] \in StatusRequest
    BY <1>4 DEF SetEntryStatusWrite, IInv, RequestsOK, RequestOK
  <2> DEFINE r == req[p]  row == [entry[r.entry] EXCEPT !.status = r.to]
  <2>3. r.entry \in Entry /\ entry[r.entry] \in EntryRow /\ r.to \in EntryStatuses
    BY <2>2, BillingAssumption DEF StatusRequest, IInv, TypeOK
  <2>4. row \in EntryRow
    BY <2>3 DEF EntryRow
  <2>5. entry' = [entry EXCEPT ![r.entry] = row] \/ entry' = entry
    BY <1>4, <2>3 DEF SetEntryStatusWrite, IInv, TypeOK
  <2>6. TypeOK'
    BY <2>1, <2>3, <2>4, <2>5 DEF IInv, TypeOK, money, locks
  <2> QED BY <2>1, <2>6, IdleStep
<1> QED BY <1>1, <1>2, <1>3, <1>4

-----------------------------------------------------------------------------
(* Taking and dropping row locks.                                          *)

\* Taking or dropping a matter's row lock takes none from another request.
LEMMA MatterLocking ==
  ASSUME IInv, NEW p \in Proc, NEW m \in Matter,
         LockMatter(p, m) \/ (matterLock[m] = p /\ FreeMatter(m))
  PROVE  /\ matterLock' \in [Matter -> Proc \cup {None}]
         /\ LockMatter(p, m) => matterLock'[m] = p
         /\ \A q \in Proc \ {p}, n \in Matter : matterLock[n] = q => matterLock'[n] = q
BY BillingAssumption DEF IInv, TypeOK, LockMatter, FreeMatter

\* Taking or dropping an invoice's row lock takes none from another request.
LEMMA InvoiceLocking ==
  ASSUME IInv, NEW p \in Proc, NEW i \in Invoice,
         LockInvoice(p, i) \/ (invoiceLock[i] = p /\ FreeInvoice(i))
  PROVE  /\ invoiceLock' \in [Invoice -> Proc \cup {None}]
         /\ LockInvoice(p, i) => invoiceLock'[i] = p
         /\ \A q \in Proc \ {p}, j \in Invoice : invoiceLock[j] = q => invoiceLock'[j] = q
         /\ \A j \in Invoice \ {i} : invoiceLock'[j] = invoiceLock[j]
BY BillingAssumption DEF IInv, TypeOK, LockInvoice, FreeInvoice

\* The end of p's transaction drops p's locks and nobody else's.
LEMMA Releasing ==
  ASSUME IInv, NEW p \in Proc, ReleaseLocks(p)
  PROVE  /\ invoiceLock' \in [Invoice -> Proc \cup {None}]
         /\ matterLock' \in [Matter -> Proc \cup {None}]
         /\ \A q \in Proc \ {p}, i \in Invoice : invoiceLock[i] = q => invoiceLock'[i] = q
         /\ \A q \in Proc \ {p}, m \in Matter : matterLock[m] = q => matterLock'[m] = q
         /\ \A i \in Invoice : invoiceLock[i] = None => invoiceLock'[i] = None
BY DEF ReleaseLocks, IInv, TypeOK

\* Only a matter lock is taken or dropped; no row is written.
LEMMA MatterLockStep ==
  ASSUME IInv, NEW p \in Proc, NEW m \in Matter, NEW r, Goto(p, r),
         LockMatter(p, m) \/ (matterLock[m] = p /\ FreeMatter(m)),
         UNCHANGED <<entry, expense, invoice, money, invoiceLock>>,
         RequestOK(r), Holds(p)'
  PROVE  IInv'
<1>1. MoneyOK' /\ RowsBegun'
  BY MoneyUntouched DEF IInv, RowsBegun
<1>2. /\ req' = [q \in Proc |-> req'[q]] /\ req'[p] = r
      /\ \A q \in Proc \ {p} : req'[q] = req[q]
  BY GotoMoves
<1>3. \A q \in Proc \ {p} : Rely(q)
  BY <1>2, MatterLocking DEF Rely, money
<1>4. TypeOK'
  BY MatterLocking DEF IInv, TypeOK, money
<1> QED BY <1>1, <1>2, <1>3, <1>4, GuaranteeKeeps DEF Guarantee

\* Only an invoice lock is taken or dropped; no row is written.
LEMMA InvoiceLockStep ==
  ASSUME IInv, NEW p \in Proc, NEW i \in Invoice, NEW r, Goto(p, r),
         \/ LockInvoice(p, i) /\ invoice[i].status # "none"
         \/ invoiceLock[i] = p /\ FreeInvoice(i),
         UNCHANGED <<entry, expense, invoice, money, matterLock>>,
         RequestOK(r), Holds(p)'
  PROVE  IInv'
<1>1. MoneyOK'
  BY MoneyUntouched
<1>2. /\ req' = [q \in Proc |-> req'[q]] /\ req'[p] = r
      /\ \A q \in Proc \ {p} : req'[q] = req[q]
  BY GotoMoves
<1>0. LockInvoice(p, i) \/ (invoiceLock[i] = p /\ FreeInvoice(i))
  OBVIOUS
<1>a. /\ invoiceLock' \in [Invoice -> Proc \cup {None}]
      /\ \A q \in Proc \ {p}, j \in Invoice : invoiceLock[j] = q => invoiceLock'[j] = q
      /\ \A j \in Invoice \ {i} : invoiceLock'[j] = invoiceLock[j]
  BY <1>0, InvoiceLocking
<1>3. \A q \in Proc \ {p} : Rely(q)
  BY <1>2, <1>a DEF Rely, money
<1>4. TypeOK'
  BY <1>a DEF IInv, TypeOK, money
<1>5. RowsBegun'
  <2>1. invoice[i].status # "none"
    BY BillingAssumption DEF IInv, RowsBegun
  <2> QED BY <1>a, <2>1 DEF IInv, RowsBegun
<1> QED BY <1>1, <1>2, <1>3, <1>4, <1>5, GuaranteeKeeps DEF Guarantee

-----------------------------------------------------------------------------
(* Minting.                                                                *)

\* A function to the naturals has a largest value on a finite set.
LEMMA LargestValue ==
  ASSUME NEW S, IsFiniteSet(S), S # {}, NEW f, \A x \in S : f[x] \in Nat
  PROVE  \E x \in S : \A y \in S : f[x] >= f[y]
<1> DEFINE HasLargest(T) == \E x \in T : \A y \in T : f[x] >= f[y]
           Bad == {T \in SUBSET S : T # {} /\ ~HasLargest(T)}
           Less == StrictSubsetOrdering(S)
<1>1. SUFFICES ASSUME ~HasLargest(S) PROVE FALSE
  OBVIOUS
<1>2. IsWellFoundedOn(Less, SUBSET S)
  BY FS_StrictSubsetOrderingWellFounded, FS_FiniteSubsetsOfFinite
<1>3. Bad \subseteq SUBSET S /\ Bad # {}
  BY <1>1
<1>4. PICK T \in Bad : \A U \in Bad : ~(<<U, T>> \in Less)
  <2> HIDE DEF Bad, Less
  <2> QED BY <1>2, <1>3, WFMin
<1>5. PICK x \in T : TRUE
  OBVIOUS
<1> DEFINE U == T \ {x}
<1>6. U \in SUBSET S /\ <<U, T>> \in Less
  BY <1>5 DEF StrictSubsetOrdering
<1>7. U = {} \/ HasLargest(U)
  BY <1>4, <1>6
<1>8. HasLargest(T)
  <2>1. CASE U = {}
    <3>1. \A y \in T : f[x] >= f[y]
      BY <1>5, <2>1
    <3> QED BY <1>5, <3>1
  <2>2. CASE HasLargest(U)
    <3>1. PICK u \in U : \A y \in U : f[u] >= f[y]
      BY <2>2
    <3>2. CASE f[x] >= f[u]
      <4>1. \A y \in T : f[x] >= f[y]
        BY <3>1, <3>2, <1>5
      <4> QED BY <1>5, <4>1
    <3>3. CASE ~(f[x] >= f[u])
      <4>1. \A y \in T : f[u] >= f[y]
        BY <3>1, <3>3, <1>5
      <4> QED BY <3>1, <4>1
    <3> QED BY <3>2, <3>3
  <2> QED BY <1>7, <2>1, <2>2
<1> QED BY <1>4, <1>8

\* The number a mint takes is a natural number.
LEMMA NextInvoiceNumberType ==
  ASSUME IInv
  PROVE  NextInvoiceNumber \in Nat
<1> DEFINE f == [i \in Invoice |-> invoice[i].number]
           S == {invoice[i].number : i \in Existing}
<1>1. CASE Existing = {}
  BY <1>1 DEF NextInvoiceNumber
<1>2. CASE Existing # {}
  <2>1. IsFiniteSet(Existing)
    BY FS_Subset, BillingAssumption DEF Existing
  <2>2. \A i \in Existing : f[i] \in Nat /\ f[i] = invoice[i].number
    BY DEF Existing, IInv, TypeOK, InvoiceRow
  <2>3. \E i \in Existing : \A j \in Existing : f[i] >= f[j]
    <3> HIDE DEF f
    <3> QED BY <1>2, <2>1, <2>2, LargestValue
  <2>4. \E n \in S : \A k \in S : n >= k
    <3> HIDE DEF f
    <3>1. PICK i \in Existing : \A j \in Existing : f[i] >= f[j]
      BY <2>3
    <3>2. \A k \in S : invoice[i].number >= k
      BY <2>2, <3>1
    <3> QED BY <3>2
  <2>5. Max(S) \in S
    BY <2>4 DEF Max
  <2>6. S \subseteq Nat
    BY <2>2
  <2> QED BY <1>2, <2>5, <2>6 DEF NextInvoiceNumber
<1> QED BY <1>1, <1>2

\* A mint's read under its matter lock.
LEMMA MintReadStep ==
  ASSUME NEW p \in Proc, IInv, MintUnderway(req[p]), NEW r, Goto(p, r),
         UNCHANGED <<entry, expense, invoice, money, locks>>, RequestOK(r),
         r.at \in {"mint:expenses", "mint:number", "mint:commit"}, r.matter = req[p].matter
  PROVE  IInv'
<1>1. matterLock'[r.matter] = p
  BY DEF IInv, RequestsOK, Holds, locks
<1>2. Holds(p)'
  BY <1>1, GotoMoves
  DEF Holds, MintUnderway, PaymentIsCurrent, SendIsCurrent, TrustIsCurrent
<1> QED BY <1>2, ReadStep

\* A mint's transaction ends without writing.
LEMMA MintEndStep ==
  ASSUME NEW p \in Proc, IInv, MintUnderway(req[p]), NEW r, Goto(p, r),
         UNCHANGED <<entry, expense, invoice, money, invoiceLock>>,
         FreeMatter(req[p].matter), RequestOK(r), r.at \in {"idle", "mint:retry"}
  PROVE  IInv'
<1>1. req[p].matter \in Matter /\ matterLock[req[p].matter] = p
  BY DEF IInv, RequestsOK, RequestOK, Holds
<1>2. Holds(p)'
  BY GotoMoves, FreeHolds DEF Free
<1> QED BY <1>1, <1>2, MatterLockStep

\* generateInvoiceFromWip and bundleAsInternalRecord, all but the commit.
LEMMA MintSteps ==
  ASSUME NEW p \in Proc, IInv,
         \/ \E m \in Matter, k \in Kinds : MintStart(p, m, k)
         \/ MintRetry(p) \/ MintReadEntries(p) \/ MintReadExpenses(p) \/ MintNothing(p)
         \/ MintReadNumber(p) \/ MintCollide(p) \/ MintAbort(p)
  PROVE  IInv'
<1> DEFINE r == req[p]
<1>0. RequestOK(r) /\ Holds(p)
  BY DEF IInv, RequestsOK
<1>1. ASSUME NEW m \in Matter, NEW k \in Kinds, MintStart(p, m, k) PROVE IInv'
  <2> DEFINE n == [at |-> "mint:entries", matter |-> m, kind |-> k, tries |-> 1]
  <2>1. Goto(p, n) /\ LockMatter(p, m)
        /\ UNCHANGED <<entry, expense, invoice, money, invoiceLock>>
    BY <1>1 DEF MintStart
  <2>2. RequestOK(n)
    BY DEF RequestOK, MintRequest, MintUnderway
  <2>3. n.at = "mint:entries" /\ n.matter = m
    OBVIOUS
  <2> HIDE DEF n
  <2>4. req'[p] = n /\ matterLock'[m] = p
    BY <2>1, GotoMoves, MatterLocking
  <2>5. Holds(p)'
    BY <2>3, <2>4
    DEF Holds, MintUnderway, PaymentIsCurrent, SendIsCurrent, TrustIsCurrent
  <2> QED BY <2>1, <2>2, <2>5, MatterLockStep
<1>2. CASE MintRetry(p)
  <2> DEFINE n == [r EXCEPT !.at = "mint:entries"]
  <2>1. Goto(p, n) /\ LockMatter(p, r.matter)
        /\ UNCHANGED <<entry, expense, invoice, money, invoiceLock>>
    BY <1>2 DEF MintRetry
  <2>2. r \in MintRequest
    BY <1>0, <1>2 DEF MintRetry, RequestOK
  <2>3. RequestOK(n) /\ n.at = "mint:entries" /\ n.matter = r.matter /\ r.matter \in Matter
    BY <2>2 DEF RequestOK, MintRequest, MintUnderway
  <2> HIDE DEF n, r
  <2>4. req'[p] = n /\ matterLock'[r.matter] = p
    BY <2>1, <2>3, GotoMoves, MatterLocking
  <2>5. Holds(p)'
    BY <2>3, <2>4
    DEF Holds, MintUnderway, PaymentIsCurrent, SendIsCurrent, TrustIsCurrent
  <2> QED BY <2>1, <2>3, <2>5, MatterLockStep
<1>3. CASE MintReadEntries(p)
  <2>1. MintUnderway(r)
    BY <1>3 DEF MintReadEntries, MintUnderway
  <2> DEFINE E == WipEntries(r.matter)
             n == [at |-> "mint:expenses", matter |-> r.matter, kind |-> r.kind,
                   tries |-> r.tries, entries |-> E, sum |-> SumEntries(entry, E)]
  <2>2. Goto(p, n) /\ UNCHANGED <<entry, expense, invoice, money, locks>>
    BY <1>3 DEF MintReadEntries
  <2>3. RequestOK(n) /\ n.at = "mint:expenses" /\ n.matter = r.matter
    BY <1>0, <2>1 DEF RequestOK, MintUnderway
  <2> QED BY <1>0, <2>1, <2>2, <2>3, MintReadStep
<1>4. CASE MintReadExpenses(p)
  <2>1. MintUnderway(r)
    BY <1>4 DEF MintReadExpenses, MintUnderway
  <2> DEFINE X == WipExpenses(r.matter)
             n == [at |-> "mint:number", matter |-> r.matter, kind |-> r.kind,
                   tries |-> r.tries, entries |-> r.entries, expenses |-> X,
                   total |-> r.sum + SumExpenses(expense, X)]
  <2>2. Goto(p, n) /\ UNCHANGED <<entry, expense, invoice, money, locks>>
    BY <1>4 DEF MintReadExpenses
  <2>3. RequestOK(n) /\ n.at = "mint:number" /\ n.matter = r.matter
    BY <1>0, <2>1 DEF RequestOK, MintUnderway
  <2> QED BY <1>0, <2>1, <2>2, <2>3, MintReadStep
<1>5. CASE MintReadNumber(p)
  <2>1. MintUnderway(r)
    BY <1>5 DEF MintReadNumber, MintUnderway
  <2> DEFINE n == [at |-> "mint:commit", matter |-> r.matter, kind |-> r.kind,
                   tries |-> r.tries, entries |-> r.entries, expenses |-> r.expenses,
                   total |-> r.total, number |-> NextInvoiceNumber]
  <2>2. Goto(p, n) /\ UNCHANGED <<entry, expense, invoice, money, locks>>
    BY <1>5 DEF MintReadNumber
  <2>3. RequestOK(n) /\ n.at = "mint:commit" /\ n.matter = r.matter
    BY <1>0, <2>1, NextInvoiceNumberType DEF RequestOK, MintUnderway
  <2> QED BY <1>0, <2>1, <2>2, <2>3, MintReadStep
<1>6. CASE MintNothing(p)
  <2>1. MintUnderway(r) /\ Goto(p, Idle) /\ FreeMatter(r.matter)
        /\ UNCHANGED <<entry, expense, invoice, money, invoiceLock>>
    BY <1>6 DEF MintNothing, MintUnderway
  <2> QED BY <1>0, <2>1, IdleIsFree, MintEndStep DEF Idle
<1>7. CASE MintAbort(p)
  <2>1. MintUnderway(r) /\ Goto(p, Idle) /\ FreeMatter(r.matter)
        /\ UNCHANGED <<entry, expense, invoice, money, invoiceLock>>
    BY <1>7 DEF MintAbort, MintUnderway
  <2> QED BY <1>0, <2>1, IdleIsFree, MintEndStep DEF Idle
<1>8. CASE MintCollide(p)
  <2> DEFINE n == IF r.tries < NumberAttempts
                  THEN [at |-> "mint:retry", matter |-> r.matter, kind |-> r.kind,
                        tries |-> r.tries + 1]
                  ELSE Idle
  <2>1. MintUnderway(r) /\ Goto(p, n) /\ FreeMatter(r.matter)
        /\ UNCHANGED <<entry, expense, invoice, money, invoiceLock>>
    BY <1>8 DEF MintCollide, MintUnderway
  <2>2. RequestOK(n) /\ n.at \in {"idle", "mint:retry"}
    BY <1>0, <2>1 DEF RequestOK, MintUnderway, MintRequest, Idle
  <2> HIDE DEF n
  <2> QED BY <1>0, <2>1, <2>2, MintEndStep
<1> QED BY <1>1, <1>2, <1>3, <1>4, <1>5, <1>6, <1>7, <1>8

\* The commit of a mint: the new invoice is unpaid, or a fully recorded
\* internal record, and no payment row refers to it yet.
LEMMA MintCommitStep ==
  ASSUME NEW p \in Proc, IInv, MintCommit(p)
  PROVE  IInv'
<1> DEFINE r == req[p]
           record == r.kind = "internal_record"
<1>1. /\ r.at = "mint:commit" /\ r.total \in Money
      /\ FreeMatter(r.matter) /\ Goto(p, Idle) /\ UNCHANGED <<money, invoiceLock>>
  BY DEF MintCommit
<1>2. /\ r.matter \in Matter /\ r.kind \in Kinds /\ r.number \in Nat
      /\ matterLock[r.matter] = p
  BY <1>1 DEF IInv, RequestsOK, RequestOK, Holds, MintUnderway
<1>3. PICK i \in Invoice :
        /\ invoice[i].status = "none"
        /\ invoice' = [invoice EXCEPT ![i] =
             [status |-> IF record THEN "paid" ELSE "draft", kind |-> r.kind,
              matter |-> r.matter, total |-> r.total,
              paid |-> IF record THEN r.total ELSE 0, number |-> r.number]]
        /\ entry' = [e \in Entry |-> IF e \in r.entries
             THEN [entry[e] EXCEPT !.invoice = i, !.status = "billed"] ELSE entry[e]]
        /\ expense' = [x \in Expense |-> IF x \in r.expenses
             THEN [expense[x] EXCEPT !.invoice = i] ELSE expense[x]]
  BY DEF MintCommit
<1> DEFINE row == invoice'[i]
<1>4. /\ row = [status |-> IF record THEN "paid" ELSE "draft", kind |-> r.kind,
                matter |-> r.matter, total |-> r.total,
                paid |-> IF record THEN r.total ELSE 0, number |-> r.number]
      /\ \A j \in Invoice \ {i} : invoice'[j] = invoice[j]
  BY <1>3 DEF IInv, TypeOK
<1>5. invoice' \in [Invoice -> InvoiceRow]
  <2>1. row \in InvoiceRow
    BY <1>1, <1>2, <1>4, BillingAssumption DEF InvoiceRow, LiveStatuses, Money
  <2> QED BY <1>3, <2>1 DEF IInv, TypeOK
<1>6. entry' \in [Entry -> EntryRow]
  <2>1. \A e \in Entry : [entry[e] EXCEPT !.invoice = i, !.status = "billed"] \in EntryRow
    BY DEF IInv, TypeOK, EntryRow, EntryStatuses
  <2> QED BY <1>3, <2>1 DEF IInv, TypeOK
<1>7. expense' \in [Expense -> ExpenseRow]
  <2>1. \A x \in Expense : [expense[x] EXCEPT !.invoice = i] \in ExpenseRow
    BY DEF IInv, TypeOK, ExpenseRow
  <2> QED BY <1>3, <2>1 DEF IInv, TypeOK
<1>8. TypeOK'
  BY <1>1, <1>2, <1>5, <1>6, <1>7, MatterLocking DEF IInv, TypeOK, money
<1>9. MoneyOK'
  <2>1. trustPaid[i] = 0 /\ otherPaid[i] = 0
    <3>1. invoice[i].kind = "client" /\ invoice[i].paid = 0
      BY <1>3 DEF IInv, RowsBegun, MoneyOK, StatusTellsPayments
    <3>2. trustPaid[i] \in Nat /\ otherPaid[i] \in Nat
      BY BillingAssumption DEF IInv, TypeOK, Money
    <3>3. trustPaid[i] + otherPaid[i] = 0
      BY <3>1 DEF IInv, MoneyOK, PaidIsSumOfPayments
    <3> QED BY <3>2, <3>3
  <2>2. TrustBalanceIsLedger'
    BY <1>1 DEF IInv, MoneyOK, TrustBalanceIsLedger, money
  <2>3. PaidIsSumOfPayments'
    <3>1. ~record => row.paid = 0 /\ 0 <= row.total
      BY <1>1, <1>4, BillingAssumption DEF Money
    <3>2. row.kind = "client" => ~record
      BY <1>4
    <3>3. row.kind = "client" => row.paid = trustPaid[i] + otherPaid[i] /\ row.paid <= row.total
      BY <2>1, <3>1, <3>2
    <3>4. \A j \in Invoice \ {i} :
            /\ invoice'[j] = invoice[j]
            /\ trustPaid'[j] = trustPaid[j] /\ otherPaid'[j] = otherPaid[j]
      BY <1>1, <1>4 DEF money
    <3>5. trustPaid'[i] = trustPaid[i] /\ otherPaid'[i] = otherPaid[i]
      BY <1>1 DEF money
    <3> HIDE DEF row
    <3>6. invoice'[i] = row
      BY DEF row
    <3> QED BY <2>1, <3>3, <3>4, <3>5, <3>6 DEF IInv, MoneyOK, PaidIsSumOfPayments
  <2>4. StatusTellsPayments'
    <3>1. row.kind = "client" => row.status = "draft" /\ row.paid = 0
      BY <1>4
    <3> QED BY <1>4, <3>1 DEF IInv, MoneyOK, StatusTellsPayments
  <2> QED BY <2>2, <2>3, <2>4 DEF MoneyOK
<1>10. RowsBegun'
  BY <1>1, <1>2, <1>4 DEF IInv, RowsBegun
<1>11. req' = [q \in Proc |-> req'[q]] /\ \A q \in Proc \ {p} : req'[q] = req[q]
  BY <1>1, GotoMoves
<1>12. \A q \in Proc \ {p} : Rely(q)
  <2>1. \A q \in Proc, j \in Invoice : invoiceLock[j] = q => invoice'[j] = invoice[j]
    BY <1>3, <1>4, BillingAssumption DEF IInv, RowsBegun
  <2>2. \A j \in Invoice : invoice[j].status # "none" => invoice'[j] = invoice[j]
    BY <1>3, <1>4
  <2> QED BY <1>1, <1>2, <1>11, <2>1, <2>2, MatterLocking DEF Rely, money
<1>13. RequestOK(req'[p]) /\ Holds(p)'
  BY <1>1, IdleIsFree, GotoMoves
<1> QED BY <1>8, <1>9, <1>10, <1>11, <1>12, <1>13, GuaranteeKeeps DEF Guarantee

-----------------------------------------------------------------------------
(* Line edits, approval, status changes and deletion.                      *)

\* A request that ends while other requests keep what they rely on.
LEMMA FinishingStep ==
  ASSUME NEW p \in Proc, IInv, Goto(p, Idle), TypeOK', MoneyOK', RowsBegun',
         \A q \in Proc \ {p}, i \in Invoice : invoiceLock[i] = q =>
           invoiceLock'[i] = q /\ invoice'[i] = invoice[i],
         \A q \in Proc \ {p}, m \in Matter : matterLock[m] = q =>
           matterLock'[m] = q /\ trustBalance'[m] = trustBalance[m],
         \A i \in Invoice : invoice[i].status # "none" =>
           invoice'[i].status # "none" /\ invoice'[i].kind = invoice[i].kind
  PROVE  IInv'
<1>1. /\ req' = [q \in Proc |-> req'[q]] /\ \A q \in Proc \ {p} : req'[q] = req[q]
      /\ req'[p] = Idle
  BY GotoMoves
<1>2. \A q \in Proc \ {p} : Rely(q)
  BY <1>1 DEF Rely
<1>3. RequestOK(req'[p]) /\ Holds(p)'
  BY <1>1, IdleIsFree
<1> QED BY <1>1, <1>2, <1>3, GuaranteeKeeps DEF Guarantee

\* A transaction that ends without writing a row drops its own locks only.
LEMMA ReleaseStep ==
  ASSUME NEW p \in Proc, IInv, Goto(p, Idle), ReleaseLocks(p),
         UNCHANGED <<entry, expense, invoice, money>>
  PROVE  IInv'
<1>1. TypeOK'
  BY Releasing DEF IInv, TypeOK, money
<1>2. MoneyOK'
  BY MoneyUntouched
<1>3. RowsBegun'
  BY Releasing DEF IInv, RowsBegun
<1>4. trustBalance' = trustBalance
  BY DEF money
<1> QED BY <1>1, <1>2, <1>3, <1>4, Releasing, FinishingStep

\* What StatusTellsPayments says of one row.
RowTells(row) ==
  CASE row.status = "partial" -> 0 < row.paid /\ row.paid < row.total
    [] row.status = "paid"    -> 0 < row.paid /\ row.paid = row.total
    [] OTHER                  -> row.paid = 0

\* One existing invoice that nobody else has locked is rewritten; no money
\* moves, and the request ends.
LEMMA RowWriteStep ==
  ASSUME NEW p \in Proc, IInv, NEW i \in Invoice, NEW row \in InvoiceRow,
         invoice' = [invoice EXCEPT ![i] = row],
         row.kind = invoice[i].kind, row.matter = invoice[i].matter,
         invoice[i].status # "none", row.status # "none",
         row.kind = "client" => /\ row.paid = invoice[i].paid
                                /\ row.paid <= row.total /\ RowTells(row),
         \/ invoiceLock[i] = None /\ UNCHANGED locks
         \/ invoiceLock[i] = p /\ FreeInvoice(i) /\ UNCHANGED matterLock
         \/ invoiceLock[i] = p /\ ReleaseLocks(p),
         entry' \in [Entry -> EntryRow], expense' \in [Expense -> ExpenseRow],
         UNCHANGED money, Goto(p, Idle)
  PROVE  IInv'
<1>1. invoice'[i] = row /\ \A j \in Invoice \ {i} : invoice'[j] = invoice[j]
  BY DEF IInv, TypeOK
<1>2. /\ invoiceLock' \in [Invoice -> Proc \cup {None}]
      /\ invoiceLock[i] \in {None, p}
      /\ matterLock' \in [Matter -> Proc \cup {None}]
      /\ \A q \in Proc \ {p}, j \in Invoice : invoiceLock[j] = q => invoiceLock'[j] = q
      /\ \A q \in Proc \ {p}, m \in Matter : matterLock[m] = q => matterLock'[m] = q
      /\ \A j \in Invoice \ {i} : invoiceLock[j] = None => invoiceLock'[j] = None
  <2>1. CASE invoiceLock[i] = None /\ UNCHANGED locks
    BY <2>1 DEF IInv, TypeOK, locks
  <2>2. CASE invoiceLock[i] = p /\ FreeInvoice(i) /\ UNCHANGED matterLock
    BY <2>2, InvoiceLocking DEF IInv, TypeOK
  <2>3. CASE invoiceLock[i] = p /\ ReleaseLocks(p)
    BY <2>3, Releasing
  <2> QED BY <2>1, <2>2, <2>3
<1>3. TypeOK'
  BY <1>2 DEF IInv, TypeOK, money
<1>4. MoneyOK'
  <2>1. TrustBalanceIsLedger'
    BY DEF IInv, MoneyOK, TrustBalanceIsLedger, money
  <2>2. trustPaid' = trustPaid /\ otherPaid' = otherPaid
    BY DEF money
  <2>3. PaidIsSumOfPayments'
    BY <1>1, <2>2 DEF IInv, MoneyOK, PaidIsSumOfPayments
  <2>4. StatusTellsPayments'
    BY <1>1 DEF IInv, MoneyOK, StatusTellsPayments, RowTells
  <2> QED BY <2>1, <2>3, <2>4 DEF MoneyOK
<1>5. RowsBegun'
  BY <1>1, <1>2 DEF IInv, RowsBegun
<1>6. /\ req' = [q \in Proc |-> req'[q]] /\ \A q \in Proc \ {p} : req'[q] = req[q]
      /\ req'[p] = Idle
  BY GotoMoves
<1>7. \A q \in Proc \ {p} : Rely(q)
  <2>1. \A q \in Proc \ {p}, j \in Invoice : invoiceLock[j] = q => invoice'[j] = invoice[j]
    BY <1>1, <1>2, BillingAssumption
  <2>2. \A j \in Invoice : invoice[j].status # "none" =>
          invoice'[j].status # "none" /\ invoice'[j].kind = invoice[j].kind
    BY <1>1
  <2>3. trustBalance' = trustBalance
    BY DEF money
  <2> QED BY <1>2, <1>6, <2>1, <2>2, <2>3 DEF Rely
<1>8. RequestOK(req'[p]) /\ Holds(p)'
  BY <1>6, IdleIsFree
<1> QED BY <1>3, <1>4, <1>5, <1>6, <1>7, <1>8, GuaranteeKeeps DEF Guarantee

\* Releasing the lines of an invoice keeps their rows well formed.
LEMMA ReleasedTyped ==
  ASSUME IInv, NEW i \in Invoice
  PROVE  ReleasedEntries(i) \in [Entry -> EntryRow]
         /\ ReleasedExpenses(i) \in [Expense -> ExpenseRow]
<1>1. \A e \in Entry :
        [entry[e] EXCEPT !.invoice = None, !.status = "billable"] \in EntryRow
  BY DEF IInv, TypeOK, EntryRow, EntryStatuses, WipStatuses
<1>2. \A x \in Expense : [expense[x] EXCEPT !.invoice = None] \in ExpenseRow
  BY DEF IInv, TypeOK, ExpenseRow
<1> QED BY <1>1, <1>2 DEF ReleasedEntries, ReleasedExpenses, IInv, TypeOK

\* updateInvoiceLineItem.
LEMMA LineEditSteps ==
  ASSUME NEW p \in Proc, IInv,
         \/ \E e \in Entry : LineEditRead(p, e)
         \/ LineEditLock(p) \/ LineEditCommit(p)
  PROVE  IInv'
<1> DEFINE r == req[p]
<1>0. RequestOK(r) /\ Holds(p)
  BY DEF IInv, RequestsOK
<1>1. ASSUME NEW e \in Entry, LineEditRead(p, e) PROVE IInv'
  <2>1. PICK h \in Hours, c \in Rates \cup {None} :
          Goto(p, [at |-> "line:read", entry |-> e, inv |-> entry[e].invoice,
                   hours |-> h, rate |-> c])
    BY <1>1 DEF LineEditRead
  <2> DEFINE n == [at |-> "line:read", entry |-> e, inv |-> entry[e].invoice,
                   hours |-> h, rate |-> c]
  <2>2. entry[e].invoice \in Invoice
    BY <1>1 DEF LineEditRead, IInv, TypeOK, EntryRow
  <2>3. RequestOK(n) /\ n.at = "line:read"
    BY <2>2 DEF RequestOK, LineRequest, MintUnderway
  <2> HIDE DEF n
  <2>4. Holds(p)'
    BY <2>1, <2>3, GotoMoves, FreeHolds DEF Free, n
  <2> QED BY <1>1, <2>1, <2>3, <2>4, ReadStep DEF LineEditRead, n
<1>2. CASE LineEditLock(p)
  <2>1. r \in LineRequest /\ r.at = "line:read"
    BY <1>0, <1>2 DEF LineEditLock, RequestOK
  <2>2. r.inv \in Invoice
    BY <2>1 DEF LineRequest
  <2>3. CASE invoice[r.inv].status = "draft" /\ entry[r.entry].invoice = r.inv
    <3> DEFINE n == [r EXCEPT !.at = "line:locked"]
    <3>1. /\ LockInvoice(p, r.inv) /\ Goto(p, n) /\ invoice[r.inv].status # "none"
          /\ UNCHANGED <<entry, expense, invoice, money, matterLock>>
      BY <1>2, <2>3 DEF LineEditLock, LockInvoice
    <3>2. RequestOK(n) /\ n.at = "line:locked" /\ n.inv = r.inv
      BY <2>1 DEF RequestOK, LineRequest, MintUnderway
    <3> HIDE DEF n, r
    <3>3. req'[p] = n /\ invoiceLock'[r.inv] = p
      BY <2>2, <3>1, GotoMoves, InvoiceLocking
    <3>4. Holds(p)'
      BY <2>3, <3>1, <3>2, <3>3
      DEF Holds, MintUnderway, PaymentIsCurrent, SendIsCurrent, TrustIsCurrent
    <3> QED BY <2>2, <3>1, <3>2, <3>4, InvoiceLockStep
  <2>4. CASE ~(invoice[r.inv].status = "draft" /\ entry[r.entry].invoice = r.inv)
    <3>1. Goto(p, Idle) /\ UNCHANGED <<entry, expense, invoice, money, locks>>
      BY <1>2, <2>4 DEF LineEditLock, locks
    <3> QED BY <3>1, IdleIsFree, ReadStep
  <2> QED BY <2>3, <2>4
<1>3. CASE LineEditCommit(p)
  <2>1. /\ r \in LineRequest /\ r.at = "line:locked"
        /\ invoiceLock[r.inv] = p /\ invoice[r.inv].status = "draft"
    BY <1>0, <1>3 DEF LineEditCommit, RequestOK, Holds
  <2>2. r.inv \in Invoice /\ r.entry \in Entry /\ r.hours \in Hours
        /\ r.rate \in Rates \cup {None}
    BY <2>1 DEF LineRequest
  <2> DEFINE amount == IF r.rate = None THEN None ELSE r.rate * r.hours
             line == [entry[r.entry] EXCEPT !.hours = r.hours, !.rate = r.rate,
                                            !.amount = amount]
             lines == [entry EXCEPT ![r.entry] = line]
             total == SumEntries(lines, EntriesOf(r.inv))
                        + SumExpenses(expense, ExpensesOf(r.inv))
  <2>3. /\ FreeInvoice(r.inv) /\ Goto(p, Idle) /\ UNCHANGED <<expense, money, matterLock>>
        /\ \/ total \in Money /\ entry' = lines
              /\ invoice' = [invoice EXCEPT ![r.inv].total = total]
           \/ UNCHANGED <<entry, invoice>>
    BY <1>3 DEF LineEditCommit
  <2>4. lines \in [Entry -> EntryRow]
    <3>1. amount \in Money \cup {None}
      BY <2>2, BillingAssumption
    <3>2. entry[r.entry] \in EntryRow
      BY <2>2 DEF IInv, TypeOK
    <3>3. line \in EntryRow
      <4> HIDE DEF amount
      <4> QED BY <2>2, <3>1, <3>2 DEF EntryRow
    <3> QED BY <3>3 DEF IInv, TypeOK
  <2>5. invoice[r.inv] \in InvoiceRow /\ entry \in [Entry -> EntryRow]
        /\ expense' \in [Expense -> ExpenseRow]
    BY <2>2, <2>3 DEF IInv, TypeOK
  <2>6. invoice[r.inv].kind = "client" => invoice[r.inv].paid = 0
    BY <2>1, <2>2 DEF IInv, MoneyOK, StatusTellsPayments
  <2> HIDE DEF lines, total, r
  <2>7. CASE /\ total \in Money /\ entry' = lines
             /\ invoice' = [invoice EXCEPT ![r.inv].total = total]
    <3> DEFINE row == [invoice[r.inv] EXCEPT !.total = total]
    <3>1. row \in InvoiceRow
      BY <2>5, <2>7 DEF InvoiceRow
    <3>2. /\ row.kind = invoice[r.inv].kind /\ row.matter = invoice[r.inv].matter
          /\ row.status = "draft" /\ row.paid = invoice[r.inv].paid /\ row.total = total
      BY <2>1, <2>5 DEF InvoiceRow
    <3>3. row.kind = "client" => /\ row.paid = invoice[r.inv].paid
                                 /\ row.paid <= row.total /\ RowTells(row)
      BY <2>6, <2>7, <3>2, BillingAssumption DEF RowTells, Money
    <3>4. invoice' = [invoice EXCEPT ![r.inv] = row]
      BY <2>7
    <3> HIDE DEF row
    <3> QED BY <2>1, <2>2, <2>3, <2>4, <2>5, <2>7, <3>1, <3>2, <3>3, <3>4, RowWriteStep
  <2>8. CASE UNCHANGED <<entry, invoice>>
    <3>1. invoice[r.inv].status # "none"
      BY <2>1
    <3> QED BY <2>1, <2>2, <2>3, <2>8, <3>1, IdleIsFree, InvoiceLockStep
  <2> QED BY <2>3, <2>7, <2>8
<1> QED BY <1>1, <1>2, <1>3

\* approveInvoice.
LEMMA ApproveSteps ==
  ASSUME NEW p \in Proc, IInv,
         \/ \E i \in Invoice : ApproveOpen(p, i)
         \/ ApproveRead(p) \/ ApproveWrite(p)
  PROVE  IInv'
<1> DEFINE r == req[p]
<1>0. RequestOK(r) /\ Holds(p)
  BY DEF IInv, RequestsOK
<1>1. ASSUME NEW i \in Invoice, ApproveOpen(p, i) PROVE IInv'
  <2> DEFINE n == [at |-> "approve:shown", inv |-> i, shown |-> invoice[i].total]
  <2>1. Goto(p, n) /\ UNCHANGED <<entry, expense, invoice, money, locks>>
    BY <1>1 DEF ApproveOpen
  <2>2. RequestOK(n) /\ n.at = "approve:shown"
    BY DEF RequestOK, MintUnderway
  <2> HIDE DEF n
  <2>3. Holds(p)'
    BY <2>1, <2>2, GotoMoves, FreeHolds DEF Free
  <2> QED BY <2>1, <2>2, <2>3, ReadStep
<1>2. CASE ApproveRead(p)
  <2>1. r.inv \in Invoice
    BY <1>0, <1>2 DEF ApproveRead, RequestOK
  <2> DEFINE n == IF /\ invoice[r.inv].status = "draft" /\ invoice[r.inv].total > 0
                     /\ invoice[r.inv].total = r.shown
                  THEN [at |-> "approve:read", inv |-> r.inv, shown |-> r.shown,
                        total |-> invoice[r.inv].total]
                  ELSE Idle
  <2>2. Goto(p, n) /\ UNCHANGED <<entry, expense, invoice, money, locks>>
    BY <1>2 DEF ApproveRead
  <2>3. RequestOK(n) /\ n.at \in {"idle", "approve:read"}
    BY <2>1 DEF RequestOK, MintUnderway, Idle
  <2> HIDE DEF n
  <2>4. Holds(p)'
    BY <2>2, <2>3, GotoMoves, FreeHolds DEF Free
  <2> QED BY <2>2, <2>3, <2>4, ReadStep
<1>3. CASE ApproveWrite(p)
  <2> DEFINE row == [invoice[r.inv] EXCEPT !.status = "approved"]
  <2>1. r.inv \in Invoice /\ invoiceLock[r.inv] = None
    BY <1>0, <1>3 DEF ApproveWrite, RequestOK
  <2>2. Goto(p, Idle) /\ UNCHANGED <<entry, expense, money, locks>>
    BY <1>3 DEF ApproveWrite
  <2>3. invoice[r.inv] \in InvoiceRow /\ invoice \in [Invoice -> InvoiceRow]
        /\ entry' \in [Entry -> EntryRow] /\ expense' \in [Expense -> ExpenseRow]
    BY <2>1, <2>2 DEF IInv, TypeOK
  <2>4. CASE invoice[r.inv].status = "draft" /\ invoice' = [invoice EXCEPT ![r.inv] = row]
    <3>1. row \in InvoiceRow
      BY <2>3 DEF InvoiceRow, LiveStatuses
    <3>2. /\ row.kind = invoice[r.inv].kind /\ row.matter = invoice[r.inv].matter
          /\ row.status = "approved"
          /\ row.paid = invoice[r.inv].paid /\ row.total = invoice[r.inv].total
      BY <2>3 DEF InvoiceRow
    <3>3. row.kind = "client" => invoice[r.inv].paid = 0 /\ invoice[r.inv].total >= 0
      BY <2>1, <2>3, <2>4, <3>2, BillingAssumption
      DEF IInv, MoneyOK, StatusTellsPayments, InvoiceRow, Money
    <3>4. row.kind = "client" => /\ row.paid = invoice[r.inv].paid
                                 /\ row.paid <= row.total /\ RowTells(row)
      BY <3>2, <3>3 DEF RowTells
    <3> HIDE DEF row, r
    <3> QED BY <2>1, <2>2, <2>3, <2>4, <3>1, <3>2, <3>4, RowWriteStep DEF locks
  <2>5. CASE invoice' = invoice
    BY <2>2, <2>5, IdleIsFree, ReadStep
  <2>6. invoice' = invoice \/ ( /\ invoice[r.inv].status = "draft"
                               /\ invoice' = [invoice EXCEPT ![r.inv].status = "approved"])
    BY <1>3 DEF ApproveWrite
  <2> QED BY <2>4, <2>5, <2>6
<1> QED BY <1>1, <1>2, <1>3

\* setInvoiceStatus: the void and Mark-recorded flips.
LEMMA SetStatusSteps ==
  ASSUME NEW p \in Proc, IInv,
         \/ \E i \in Invoice, next \in {"void", "paid"} : SetStatusRead(p, i, next)
         \/ SetStatusWrite(p)
  PROVE  IInv'
<1> DEFINE r == req[p]
<1>0. RequestOK(r) /\ Holds(p)
  BY DEF IInv, RequestsOK
<1>1. ASSUME NEW i \in Invoice, NEW next \in {"void", "paid"}, SetStatusRead(p, i, next)
      PROVE  IInv'
  <2> DEFINE n == [at |-> "flip:read", inv |-> i, next |-> next, row |-> invoice[i]]
  <2>1. /\ Goto(p, n) /\ UNCHANGED <<entry, expense, invoice, money, locks>>
        /\ MayFlip(invoice[i], next) /\ invoice[i].status # "none"
    BY <1>1 DEF SetStatusRead, Existing
  <2>2. invoice[i] \in InvoiceRow
    BY DEF IInv, TypeOK
  <2>3. RequestOK(n)
    BY <2>2 DEF RequestOK, MintUnderway, FlipRequest
  <2>4. n.at = "flip:read" /\ n.inv = i /\ n.next = next /\ n.row = invoice[i]
    OBVIOUS
  <2> HIDE DEF n
  <2>5. req'[p] = n
    BY <2>1, GotoMoves
  <2>6. Holds(p)'
    BY <2>1, <2>4, <2>5
    DEF Holds, MintUnderway, PaymentIsCurrent, SendIsCurrent, TrustIsCurrent
  <2> QED BY <2>1, <2>3, <2>6, ReadStep
<1>2. CASE SetStatusWrite(p)
  <2> DEFINE i == r.inv
             paid == IF r.next = "paid" THEN r.row.total ELSE r.row.paid
             row == [invoice[i] EXCEPT !.status = r.next, !.paid = paid]
  <2>1. /\ r \in FlipRequest /\ invoiceLock[i] = None
        /\ MayFlip(r.row, r.next)
        /\ r.row.kind = invoice[i].kind /\ invoice[i].status # "none"
    BY <1>0, <1>2 DEF SetStatusWrite, RequestOK, Holds
  <2>2. i \in Invoice /\ r.next \in {"void", "paid"} /\ r.row \in InvoiceRow
    BY <2>1 DEF FlipRequest
  <2>3. Goto(p, Idle) /\ UNCHANGED <<money, locks>>
    BY <1>2 DEF SetStatusWrite
  <2>4. /\ entry' \in [Entry -> EntryRow] /\ expense' \in [Expense -> ExpenseRow]
        /\ invoice[i] \in InvoiceRow
    <3>1. entry' \in {entry, ReleasedEntries(i)} /\ expense' \in {expense, ReleasedExpenses(i)}
      BY <1>2 DEF SetStatusWrite
    <3>2. entry \in [Entry -> EntryRow] /\ expense \in [Expense -> ExpenseRow]
      BY DEF IInv, TypeOK
    <3> QED BY <2>2, <3>1, <3>2, ReleasedTyped DEF IInv, TypeOK
  <2>5. CASE /\ invoice[i].status = r.row.status /\ invoice[i].paid = r.row.paid
             /\ invoice' = [invoice EXCEPT ![i] = row]
    <3>1. paid \in Money
      BY <2>2 DEF InvoiceRow
    <3>2. row \in InvoiceRow
      <4> HIDE DEF paid
      <4> QED BY <2>2, <2>4, <3>1 DEF InvoiceRow, LiveStatuses
    <3>3. /\ row.kind = invoice[i].kind /\ row.matter = invoice[i].matter
          /\ row.status = r.next /\ row.paid = paid /\ row.total = invoice[i].total
      BY <2>4 DEF InvoiceRow
    <3>4. row.kind = "client" => r.next = "void" /\ r.row.paid = 0
      BY <2>1, <2>2, <3>3 DEF MayFlip, CanVoid
    <3>5. invoice[i].total >= 0
      BY <2>4, BillingAssumption DEF InvoiceRow, Money
    <3>6. row.kind = "client" => /\ row.paid = invoice[i].paid
                                 /\ row.paid <= row.total /\ RowTells(row)
      BY <2>5, <3>3, <3>4, <3>5 DEF RowTells
    <3>7. row.status # "none"
      BY <2>2, <3>3
    <3> HIDE DEF row, r, i
    <3> QED BY <2>1, <2>2, <2>3, <2>4, <2>5, <3>2, <3>3, <3>6, <3>7, RowWriteStep DEF locks
  <2>6. CASE UNCHANGED <<entry, expense, invoice>>
    BY <2>3, <2>6, IdleIsFree, ReadStep
  <2> QED BY <1>2, <2>5, <2>6 DEF SetStatusWrite
<1> QED BY <1>1, <1>2

\* deleteInvoice.
LEMMA DeleteSteps ==
  ASSUME NEW p \in Proc, IInv,
         \/ \E i \in Invoice : DeleteRead(p, i)
         \/ DeleteLock(p) \/ DeleteCommit(p)
  PROVE  IInv'
<1> DEFINE r == req[p]
<1>0. RequestOK(r) /\ Holds(p)
  BY DEF IInv, RequestsOK
<1>1. ASSUME NEW i \in Invoice, DeleteRead(p, i) PROVE IInv'
  <2> DEFINE n == [at |-> "delete:read", inv |-> i]
  <2>1. Goto(p, n) /\ UNCHANGED <<entry, expense, invoice, money, locks>>
    BY <1>1 DEF DeleteRead
  <2>2. RequestOK(n) /\ n.at = "delete:read"
    BY DEF RequestOK, MintUnderway, DeleteRequest
  <2> HIDE DEF n
  <2>3. Holds(p)'
    BY <2>1, <2>2, GotoMoves, FreeHolds DEF Free
  <2> QED BY <2>1, <2>2, <2>3, ReadStep
<1>2. CASE DeleteLock(p)
  <2>1. r \in DeleteRequest /\ r.inv \in Invoice
    BY <1>0, <1>2 DEF DeleteLock, RequestOK, DeleteRequest
  <2>2. CASE CanDelete(invoice[r.inv])
    <3> DEFINE n == [r EXCEPT !.at = "delete:locked"]
    <3>1. /\ LockInvoice(p, r.inv) /\ Goto(p, n) /\ invoice[r.inv].status # "none"
          /\ UNCHANGED <<entry, expense, invoice, money, matterLock>>
      BY <1>2, <2>2 DEF DeleteLock, LockInvoice, CanDelete
    <3>2. RequestOK(n) /\ n.at = "delete:locked" /\ n.inv = r.inv
      BY <2>1 DEF RequestOK, DeleteRequest, MintUnderway
    <3> HIDE DEF n, r
    <3>3. req'[p] = n /\ invoiceLock'[r.inv] = p
      BY <2>1, <3>1, GotoMoves, InvoiceLocking
    <3>4. Holds(p)'
      BY <2>2, <3>1, <3>2, <3>3
      DEF Holds, MintUnderway, PaymentIsCurrent, SendIsCurrent, TrustIsCurrent
    <3> QED BY <2>1, <3>1, <3>2, <3>4, InvoiceLockStep
  <2>3. CASE ~CanDelete(invoice[r.inv])
    <3>1. /\ Goto(p, Idle) /\ ReleaseLocks(p)
          /\ UNCHANGED <<entry, expense, invoice, money>>
      BY <1>2, <2>3 DEF DeleteLock
    <3> QED BY <3>1, ReleaseStep
  <2> QED BY <2>2, <2>3
<1>3. CASE DeleteCommit(p)
  <2> DEFINE i == r.inv
             row == [invoice[i] EXCEPT !.status = "deleted"]
  <2>1. i \in Invoice /\ invoiceLock[i] = p /\ CanDelete(invoice[i])
    BY <1>0, <1>3 DEF DeleteCommit, RequestOK, DeleteRequest, Holds
  <2>2. /\ Goto(p, Idle) /\ ReleaseLocks(p) /\ UNCHANGED <<trustBalance, ledger>>
        /\ invoice' = [invoice EXCEPT ![i].status = "deleted"]
        /\ entry' = ReleasedEntries(i) /\ expense' = ReleasedExpenses(i)
        /\ trustPaid' = [trustPaid EXCEPT ![i] = 0] /\ otherPaid' = [otherPaid EXCEPT ![i] = 0]
    BY <1>3 DEF DeleteCommit
  <2>3. invoice[i] \in InvoiceRow
    BY <2>1 DEF IInv, TypeOK
  <2>4. UNCHANGED money
    <3>1. invoice[i].paid = trustPaid[i] + otherPaid[i] /\ invoice[i].paid = 0
      BY <2>1 DEF CanDelete, IInv, MoneyOK, PaidIsSumOfPayments
    <3>2. trustPaid[i] \in Nat /\ otherPaid[i] \in Nat
      BY <2>1, BillingAssumption DEF IInv, TypeOK, Money
    <3>3. trustPaid[i] = 0 /\ otherPaid[i] = 0
      BY <3>1, <3>2
    <3> QED BY <2>1, <2>2, <3>3 DEF IInv, TypeOK, money
  <2>5. row \in InvoiceRow
    BY <2>3 DEF InvoiceRow
  <2>6. /\ row.kind = invoice[i].kind /\ row.matter = invoice[i].matter
        /\ row.status = "deleted" /\ row.paid = invoice[i].paid /\ row.total = invoice[i].total
    BY <2>3 DEF InvoiceRow
  <2>7. row.kind = "client" => /\ row.paid = invoice[i].paid
                               /\ row.paid <= row.total /\ RowTells(row)
    <3>1. invoice[i].paid = 0 /\ invoice[i].total >= 0
      BY <2>1, <2>3, BillingAssumption DEF CanDelete, InvoiceRow, Money
    <3> QED BY <2>6, <3>1 DEF RowTells
  <2>8. invoice' = [invoice EXCEPT ![i] = row]
    BY <2>2
  <2>9. invoice[i].status # "none"
    BY <2>1 DEF CanDelete
  <2>10. entry' \in [Entry -> EntryRow] /\ expense' \in [Expense -> ExpenseRow]
    BY <2>1, <2>2, ReleasedTyped
  <2> HIDE DEF row, i
  <2> QED BY <2>1, <2>2, <2>4, <2>5, <2>6, <2>7, <2>8, <2>9, <2>10, RowWriteStep
<1> QED BY <1>1, <1>2, <1>3

-----------------------------------------------------------------------------
(* Payments and client trust money.                                        *)

\* The matter side of a money movement: the holder of the matter's row lock
\* writes the balance and the ledger together and drops the lock.
LEMMA TrustMoved ==
  ASSUME NEW p \in Proc, IInv, NEW m \in Matter, NEW delta \in Int,
         matterLock[m] = p, FreeMatter(m), trustBalance[m] + delta \in Money,
         trustBalance' = [trustBalance EXCEPT ![m] = trustBalance[m] + delta],
         ledger' = [ledger EXCEPT ![m] = ledger[m] + delta]
  PROVE  /\ trustBalance' \in [Matter -> Money] /\ ledger' \in [Matter -> Money]
         /\ matterLock' \in [Matter -> Proc \cup {None}]
         /\ TrustBalanceIsLedger'
         /\ \A q \in Proc \ {p}, n \in Matter : matterLock[n] = q =>
              matterLock'[n] = q /\ trustBalance'[n] = trustBalance[n]
<1>1. /\ trustBalance \in [Matter -> Money] /\ ledger \in [Matter -> Money]
      /\ \A n \in Matter : trustBalance[n] = ledger[n]
  BY DEF IInv, TypeOK, MoneyOK, TrustBalanceIsLedger
<1>2. \A n \in Matter \ {m} : trustBalance'[n] = trustBalance[n] /\ ledger'[n] = ledger[n]
  BY <1>1
<1>3. trustBalance'[m] = trustBalance[m] + delta /\ ledger'[m] = trustBalance[m] + delta
  BY <1>1
<1>4. TrustBalanceIsLedger'
  BY <1>1, <1>2, <1>3 DEF TrustBalanceIsLedger
<1>5. trustBalance' \in [Matter -> Money] /\ ledger' \in [Matter -> Money]
  BY <1>1
<1>6. /\ matterLock' \in [Matter -> Proc \cup {None}]
      /\ \A q \in Proc \ {p}, n \in Matter : matterLock[n] = q => matterLock'[n] = q
  BY MatterLocking
<1> QED BY <1>2, <1>4, <1>5, <1>6

\* The invoice side: the holder of the invoice's row lock adds one payment to
\* its rows and to paidAmount, stays within the total and drops the lock.
LEMMA PaymentTaken ==
  ASSUME NEW p \in Proc, IInv, NEW i \in Invoice, NEW row \in InvoiceRow, NEW amt \in Nat,
         invoiceLock[i] = p, FreeInvoice(i), invoice' = [invoice EXCEPT ![i] = row],
         invoice[i].kind = "client", row.kind = "client", invoice[i].status # "none",
         row.matter = invoice[i].matter, row.status # "none",
         row.paid = invoice[i].paid + amt, row.paid <= row.total, RowTells(row),
         \/ trustPaid' = [trustPaid EXCEPT ![i] = trustPaid[i] + amt] /\ UNCHANGED otherPaid
         \/ otherPaid' = [otherPaid EXCEPT ![i] = otherPaid[i] + amt] /\ UNCHANGED trustPaid
  PROVE  /\ invoice' \in [Invoice -> InvoiceRow]
         /\ trustPaid' \in [Invoice -> Money] /\ otherPaid' \in [Invoice -> Money]
         /\ invoiceLock' \in [Invoice -> Proc \cup {None}]
         /\ PaidIsSumOfPayments' /\ StatusTellsPayments' /\ RowsBegun'
         /\ \A q \in Proc \ {p}, j \in Invoice : invoiceLock[j] = q =>
              invoiceLock'[j] = q /\ invoice'[j] = invoice[j]
         /\ \A j \in Invoice : invoice[j].status # "none" =>
              invoice'[j].status # "none" /\ invoice'[j].kind = invoice[j].kind
<1>1. /\ invoice \in [Invoice -> InvoiceRow]
      /\ trustPaid \in [Invoice -> Money] /\ otherPaid \in [Invoice -> Money]
  BY DEF IInv, TypeOK
<1>2. invoice'[i] = row /\ \A j \in Invoice \ {i} : invoice'[j] = invoice[j]
  BY <1>1
<1>3. /\ invoiceLock' \in [Invoice -> Proc \cup {None}]
      /\ \A q \in Proc \ {p}, j \in Invoice : invoiceLock[j] = q => invoiceLock'[j] = q
      /\ \A j \in Invoice \ {i} : invoiceLock'[j] = invoiceLock[j]
  BY InvoiceLocking
<1>4. \A j \in Invoice \ {i} : trustPaid'[j] = trustPaid[j] /\ otherPaid'[j] = otherPaid[j]
  BY <1>1
<1>5. row.paid = trustPaid'[i] + otherPaid'[i] /\ row.paid \in Money
      /\ trustPaid'[i] \in Nat /\ otherPaid'[i] \in Nat
  <2>1. /\ invoice[i].paid = trustPaid[i] + otherPaid[i]
        /\ trustPaid[i] \in Nat /\ otherPaid[i] \in Nat
    BY <1>1, BillingAssumption DEF IInv, MoneyOK, PaidIsSumOfPayments, Money
  <2>2. row.paid \in Money
    BY DEF InvoiceRow
  <2>3. \/ trustPaid'[i] = trustPaid[i] + amt /\ otherPaid'[i] = otherPaid[i]
        \/ otherPaid'[i] = otherPaid[i] + amt /\ trustPaid'[i] = trustPaid[i]
    BY <1>1
  <2> QED BY <2>1, <2>2, <2>3
<1>6. trustPaid' \in [Invoice -> Money] /\ otherPaid' \in [Invoice -> Money]
  <2>1. trustPaid'[i] \in Money /\ otherPaid'[i] \in Money
    BY <1>5, BillingAssumption DEF Money
  <2> QED BY <1>1, <1>4, <2>1
<1>7. PaidIsSumOfPayments'
  BY <1>2, <1>4, <1>5 DEF IInv, MoneyOK, PaidIsSumOfPayments
<1>8. StatusTellsPayments'
  BY <1>2 DEF IInv, MoneyOK, StatusTellsPayments, RowTells
<1>9. RowsBegun'
  BY <1>2, <1>3 DEF IInv, RowsBegun
<1>10. \A q \in Proc \ {p}, j \in Invoice : invoiceLock[j] = q => invoice'[j] = invoice[j]
  BY <1>2
<1> QED BY <1>1, <1>2, <1>3, <1>6, <1>7, <1>8, <1>9, <1>10

\* Deposits, disbursements and refunds.
LEMMA TrustSteps ==
  ASSUME NEW p \in Proc, IInv,
         \/ \E m \in Matter, delta \in (-MaxMoney .. MaxMoney) \ {0} : TrustLock(p, m, delta)
         \/ TrustCommit(p)
  PROVE  IInv'
<1>1. ASSUME NEW m \in Matter, NEW delta \in (-MaxMoney .. MaxMoney) \ {0},
             TrustLock(p, m, delta)
      PROVE  IInv'
  <2> DEFINE n == [at |-> "trust:locked", matter |-> m, delta |-> delta,
                   bal |-> trustBalance[m]]
  <2>1. /\ Goto(p, n) /\ LockMatter(p, m) /\ trustBalance[m] + delta \in Money
        /\ UNCHANGED <<entry, expense, invoice, money, invoiceLock>>
    BY <1>1 DEF TrustLock
  <2>2. delta \in Int /\ trustBalance[m] \in Money
    BY BillingAssumption DEF IInv, TypeOK
  <2>3. RequestOK(n)
    BY <2>2 DEF RequestOK, TrustRequest, MintUnderway
  <2>4. /\ n.at = "trust:locked" /\ n.matter = m /\ n.delta = delta
        /\ n.bal = trustBalance[m]
    OBVIOUS
  <2> HIDE DEF n
  <2>5. req'[p] = n /\ matterLock'[m] = p /\ trustBalance' = trustBalance
    BY <2>1, GotoMoves, MatterLocking DEF money
  <2>6. Holds(p)'
    BY <2>1, <2>4, <2>5
    DEF Holds, MintUnderway, PaymentIsCurrent, SendIsCurrent, TrustIsCurrent
  <2> QED BY <2>1, <2>3, <2>6, MatterLockStep
<1>2. CASE TrustCommit(p)
  <2> DEFINE r == req[p]  m == r.matter
  <2>1. r \in TrustRequest /\ matterLock[m] = p /\ r.bal = trustBalance[m]
        /\ r.bal + r.delta \in Money
    BY <1>2 DEF TrustCommit, IInv, RequestsOK, RequestOK, Holds, TrustIsCurrent
  <2>2. m \in Matter /\ r.delta \in Int
    BY <2>1 DEF TrustRequest
  <2>3. /\ trustBalance' = [trustBalance EXCEPT ![m] = trustBalance[m] + r.delta]
        /\ ledger' = [ledger EXCEPT ![m] = ledger[m] + r.delta]
        /\ FreeMatter(m) /\ Goto(p, Idle)
        /\ UNCHANGED <<entry, expense, invoice, trustPaid, otherPaid, invoiceLock>>
    BY <1>2, <2>1 DEF TrustCommit
  <2> HIDE DEF r, m
  <2>4. /\ trustBalance' \in [Matter -> Money] /\ ledger' \in [Matter -> Money]
        /\ matterLock' \in [Matter -> Proc \cup {None}]
        /\ TrustBalanceIsLedger'
        /\ \A q \in Proc \ {p}, n \in Matter : matterLock[n] = q =>
             matterLock'[n] = q /\ trustBalance'[n] = trustBalance[n]
    BY <2>1, <2>2, <2>3, TrustMoved
  <2>5. TypeOK'
    BY <2>3, <2>4 DEF IInv, TypeOK
  <2>6. MoneyOK'
    BY <2>3, <2>4 DEF IInv, MoneyOK, PaidIsSumOfPayments, StatusTellsPayments
  <2>7. RowsBegun'
    BY <2>3 DEF IInv, RowsBegun
  <2> QED BY <2>3, <2>4, <2>5, <2>6, <2>7, FinishingStep
<1> QED BY <1>1, <1>2

\* What the locks and checks of recordInvoicePayment establish.
LEMMA PayLockSteps ==
  ASSUME NEW p \in Proc, IInv,
         \/ \E i \in Invoice, amt \in Positive, src \in Sources : PayLockInvoice(p, i, amt, src)
         \/ PayLockMatter(p) \/ PayRefuse(p)
  PROVE  IInv'
<1> DEFINE r == req[p]
<1>0. RequestOK(r) /\ Holds(p)
  BY DEF IInv, RequestsOK
<1>1. ASSUME NEW i \in Invoice, NEW amt \in Positive, NEW src \in Sources,
             PayLockInvoice(p, i, amt, src)
      PROVE  IInv'
  <2> DEFINE n == [at |-> IF src = "trust" THEN "pay:invoice" ELSE "pay:commit",
                   inv |-> i, amt |-> amt, src |-> src, row |-> invoice[i], bal |-> 0]
  <2>1. /\ Goto(p, n) /\ LockInvoice(p, i) /\ Payable(invoice[i], amt)
        /\ UNCHANGED <<entry, expense, invoice, money, matterLock>>
    BY <1>1 DEF PayLockInvoice
  <2>2. invoice[i] \in InvoiceRow /\ 0 \in Money /\ invoice[i].status # "none"
    BY <2>1, BillingAssumption DEF IInv, TypeOK, Money, Payable
  <2>3. RequestOK(n)
    BY <2>2 DEF RequestOK, PayRequest, MintUnderway
  <2>4. /\ n.at \in {"pay:invoice", "pay:commit"} /\ n.inv = i /\ n.row = invoice[i]
        /\ n.amt = amt /\ n.src = src /\ (n.at = "pay:invoice" <=> src = "trust")
    OBVIOUS
  <2> HIDE DEF n
  <2>5. req'[p] = n /\ invoiceLock'[i] = p /\ invoice' = invoice
    BY <2>1, GotoMoves, InvoiceLocking
  <2>6. PaymentIsCurrent(p)'
    BY <2>1, <2>4, <2>5 DEF PaymentIsCurrent
  <2>7. Holds(p)'
    BY <2>4, <2>5, <2>6 DEF Holds, MintUnderway, SendIsCurrent, TrustIsCurrent
  <2> QED BY <2>1, <2>2, <2>3, <2>7, InvoiceLockStep
<1>2. CASE PayLockMatter(p)
  <2>1. r \in PayRequest /\ r.at = "pay:invoice" /\ r.src = "trust"
        /\ invoiceLock[r.inv] = p /\ invoice[r.inv] = r.row /\ Payable(r.row, r.amt)
    BY <1>0, <1>2 DEF PayLockMatter, RequestOK, Holds, PaymentIsCurrent
  <2>2. r.inv \in Invoice /\ r.row.matter \in Matter
    BY <2>1 DEF PayRequest, Payable, IInv, RowsBegun
  <2> DEFINE m == r.row.matter
             n == [r EXCEPT !.at = "pay:commit", !.bal = trustBalance[m]]
  <2>3. /\ Goto(p, n) /\ LockMatter(p, m) /\ r.amt <= trustBalance[m]
        /\ UNCHANGED <<entry, expense, invoice, money, invoiceLock>>
    BY <1>2 DEF PayLockMatter
  <2>4. trustBalance[m] \in Money
    BY <2>2 DEF IInv, TypeOK
  <2>5. n \in PayRequest
    BY <2>1, <2>4 DEF PayRequest
  <2>6. /\ n.at = "pay:commit" /\ n.inv = r.inv /\ n.row = r.row /\ n.amt = r.amt
        /\ n.src = "trust" /\ n.bal = trustBalance[m]
    BY <2>1 DEF PayRequest
  <2> HIDE DEF n
  <2>7. RequestOK(n)
    BY <2>5, <2>6 DEF RequestOK, MintUnderway
  <2> HIDE DEF r, m
  <2>8. req'[p] = n /\ matterLock'[m] = p /\ trustBalance' = trustBalance
        /\ invoice' = invoice /\ invoiceLock' = invoiceLock
    BY <2>2, <2>3, GotoMoves, MatterLocking DEF money, m
  <2>9. PaymentIsCurrent(p)'
    BY <2>1, <2>3, <2>6, <2>8 DEF PaymentIsCurrent, m
  <2>10. Holds(p)'
    BY <2>6, <2>8, <2>9 DEF Holds, MintUnderway, SendIsCurrent, TrustIsCurrent
  <2> QED BY <2>2, <2>3, <2>7, <2>10, MatterLockStep DEF m
<1>3. CASE PayRefuse(p)
  <2>1. r \in PayRequest /\ r.at = "pay:invoice" /\ invoiceLock[r.inv] = p
    BY <1>0, <1>3 DEF PayRefuse, RequestOK, Holds, PaymentIsCurrent
  <2>2. r.inv \in Invoice
    BY <2>1 DEF PayRequest
  <2>3. /\ FreeInvoice(r.inv) /\ Goto(p, Idle)
        /\ UNCHANGED <<entry, expense, invoice, money, matterLock>>
    BY <1>3 DEF PayRefuse
  <2> QED BY <2>1, <2>2, <2>3, IdleIsFree, InvoiceLockStep
<1> QED BY <1>1, <1>2, <1>3

\* The commit of recordInvoicePayment, from trust or not.
LEMMA PayCommitStep ==
  ASSUME NEW p \in Proc, IInv, PayCommit(p)
  PROVE  IInv'
<1> DEFINE r == req[p]  i == r.inv  m == r.row.matter  paid == r.row.paid + r.amt
           row == [invoice[i] EXCEPT !.paid = paid,
                     !.status = IF paid >= r.row.total THEN "paid" ELSE "partial"]
<1>1. r \in PayRequest /\ r.at = "pay:commit"
      /\ invoiceLock[i] = p /\ invoice[i] = r.row /\ Payable(r.row, r.amt)
  BY DEF PayCommit, IInv, RequestsOK, RequestOK, Holds, PaymentIsCurrent
<1>2. r.src = "trust" => matterLock[m] = p /\ r.bal = trustBalance[m] /\ r.amt <= r.bal
  BY <1>1 DEF IInv, RequestsOK, Holds, PaymentIsCurrent
<1>3. i \in Invoice /\ r.amt \in Nat /\ r.amt > 0 /\ r.row \in InvoiceRow
  BY <1>1, BillingAssumption DEF PayRequest, Positive
<1>4. m \in Matter
  BY <1>1, <1>3 DEF Payable, IInv, RowsBegun
<1>5. /\ r.row.paid \in Nat /\ r.row.total \in Money /\ paid <= r.row.total
      /\ r.row.kind = "client" /\ r.row.status # "none"
  BY <1>1, <1>3, BillingAssumption DEF Payable, Balance, InvoiceRow, Money
<1>6. paid \in Money /\ paid > 0
  BY <1>3, <1>5, BillingAssumption DEF Money
<1>7. row \in InvoiceRow
  <2> HIDE DEF paid
  <2> QED BY <1>1, <1>3, <1>6 DEF InvoiceRow, LiveStatuses
<1>8. /\ row.kind = "client" /\ row.matter = r.row.matter /\ row.paid = paid
      /\ row.total = r.row.total
      /\ row.status = IF paid >= r.row.total THEN "paid" ELSE "partial"
  <2> HIDE DEF paid
  <2> QED BY <1>1, <1>3, <1>5 DEF InvoiceRow
<1>9. row.paid <= row.total /\ row.status # "none" /\ RowTells(row)
  <2>1. r.row.total \in Int /\ paid \in Int
    BY <1>5, <1>6, BillingAssumption DEF Money
  <2> QED BY <1>5, <1>6, <1>8, <2>1 DEF RowTells
<1>10. /\ invoice' = [invoice EXCEPT ![i] = row]
       /\ FreeInvoice(i) /\ Goto(p, Idle) /\ UNCHANGED <<entry, expense>>
  BY DEF PayCommit
<1>11. IF r.src = "trust"
       THEN PayInvoiceFromTrust(i, m, r.bal, r.amt) /\ FreeMatter(m)
       ELSE /\ otherPaid' = [otherPaid EXCEPT ![i] = @ + r.amt]
            /\ UNCHANGED <<trustBalance, ledger, trustPaid, matterLock>>
  BY DEF PayCommit
<1> HIDE DEF row
<1>12. row.paid = invoice[i].paid + r.amt
  BY <1>1, <1>8
<1> HIDE DEF r, i, m, paid
<1>13. \/ trustPaid' = [trustPaid EXCEPT ![i] = trustPaid[i] + r.amt] /\ UNCHANGED otherPaid
       \/ otherPaid' = [otherPaid EXCEPT ![i] = otherPaid[i] + r.amt] /\ UNCHANGED trustPaid
  BY <1>11 DEF PayInvoiceFromTrust
<1>14. /\ invoice' \in [Invoice -> InvoiceRow]
       /\ trustPaid' \in [Invoice -> Money] /\ otherPaid' \in [Invoice -> Money]
       /\ invoiceLock' \in [Invoice -> Proc \cup {None}]
       /\ PaidIsSumOfPayments' /\ StatusTellsPayments' /\ RowsBegun'
       /\ \A q \in Proc \ {p}, j \in Invoice : invoiceLock[j] = q =>
            invoiceLock'[j] = q /\ invoice'[j] = invoice[j]
       /\ \A j \in Invoice : invoice[j].status # "none" =>
            invoice'[j].status # "none" /\ invoice'[j].kind = invoice[j].kind
  BY <1>1, <1>3, <1>5, <1>7, <1>8, <1>9, <1>10, <1>12, <1>13, PaymentTaken DEF m
<1>15. /\ trustBalance' \in [Matter -> Money] /\ ledger' \in [Matter -> Money]
       /\ matterLock' \in [Matter -> Proc \cup {None}]
       /\ TrustBalanceIsLedger'
       /\ \A q \in Proc \ {p}, n \in Matter : matterLock[n] = q =>
            matterLock'[n] = q /\ trustBalance'[n] = trustBalance[n]
  <2>1. CASE r.src = "trust"
    <3>1. trustBalance[m] \in Nat /\ ledger[m] \in Nat /\ trustBalance[m] <= MaxMoney
      BY <1>4, BillingAssumption DEF IInv, TypeOK, Money
    <3>2. r.bal - r.amt = trustBalance[m] + (-r.amt) /\ ledger[m] - r.amt = ledger[m] + (-r.amt)
          /\ -r.amt \in Int /\ trustBalance[m] + (-r.amt) \in Money
      BY <1>2, <1>3, <2>1, <3>1, BillingAssumption DEF Money
    <3>3. /\ trustBalance' = [trustBalance EXCEPT ![m] = trustBalance[m] + (-r.amt)]
          /\ ledger' = [ledger EXCEPT ![m] = ledger[m] + (-r.amt)]
          /\ FreeMatter(m)
      BY <1>11, <2>1, <3>2 DEF PayInvoiceFromTrust
    <3> QED BY <1>2, <1>4, <2>1, <3>2, <3>3, TrustMoved
  <2>2. CASE r.src # "trust"
    BY <1>11, <2>2 DEF IInv, TypeOK, MoneyOK, TrustBalanceIsLedger
  <2> QED BY <2>1, <2>2
<1>16. TypeOK'
  BY <1>10, <1>14, <1>15 DEF IInv, TypeOK
<1>17. MoneyOK'
  BY <1>14, <1>15 DEF MoneyOK
<1> QED BY <1>10, <1>14, <1>15, <1>16, <1>17, FinishingStep

\* What the locks and checks of sendInvoice establish.
LEMMA SendLockSteps ==
  ASSUME NEW p \in Proc, IInv,
         \/ \E i \in Invoice, apply \in BOOLEAN, want \in Positive \cup {None} :
              (apply \/ want = None) /\ SendLockInvoice(p, i, apply, want)
         \/ SendLockMatter(p) \/ SendRefuse(p)
  PROVE  IInv'
<1> DEFINE r == req[p]
<1>0. RequestOK(r) /\ Holds(p)
  BY DEF IInv, RequestsOK
<1>1. ASSUME NEW i \in Invoice, NEW apply \in BOOLEAN, NEW want \in Positive \cup {None},
             SendLockInvoice(p, i, apply, want)
      PROVE  IInv'
  <2> DEFINE n == [at |-> IF apply THEN "send:invoice" ELSE "send:commit", inv |-> i,
                   apply |-> apply, want |-> want, row |-> invoice[i], bal |-> 0, amt |-> 0]
  <2>1. /\ Goto(p, n) /\ LockInvoice(p, i) /\ Sendable(invoice[i])
        /\ UNCHANGED <<entry, expense, invoice, money, matterLock>>
    BY <1>1 DEF SendLockInvoice
  <2>2. invoice[i] \in InvoiceRow /\ 0 \in Money /\ invoice[i].status # "none"
    BY <2>1, BillingAssumption DEF IInv, TypeOK, Money, Sendable
  <2>3. RequestOK(n)
    BY <2>2 DEF RequestOK, SendRequest, MintUnderway
  <2>4. /\ n.at \in {"send:invoice", "send:commit"} /\ n.inv = i /\ n.row = invoice[i]
        /\ n.amt = 0 /\ n.apply = apply /\ (n.at = "send:invoice" <=> apply)
    OBVIOUS
  <2> HIDE DEF n
  <2>5. req'[p] = n /\ invoiceLock'[i] = p /\ invoice' = invoice
    BY <2>1, GotoMoves, InvoiceLocking
  <2>6. SendIsCurrent(p)'
    BY <2>1, <2>4, <2>5 DEF SendIsCurrent
  <2>7. Holds(p)'
    BY <2>4, <2>5, <2>6 DEF Holds, MintUnderway, PaymentIsCurrent, TrustIsCurrent
  <2> QED BY <2>1, <2>2, <2>3, <2>7, InvoiceLockStep
<1>2. CASE SendLockMatter(p)
  <2>1. r \in SendRequest /\ r.at = "send:invoice" /\ r.apply
        /\ invoiceLock[r.inv] = p /\ invoice[r.inv] = r.row /\ Sendable(r.row)
    BY <1>0, <1>2 DEF SendLockMatter, RequestOK, Holds, SendIsCurrent
  <2>2. r.inv \in Invoice /\ r.row.matter \in Matter /\ r.row \in InvoiceRow
    BY <2>1 DEF SendRequest, Sendable, IInv, RowsBegun
  <2> DEFINE m == r.row.matter
             bal == trustBalance[m]
             amt == Applied(r, bal)
             n == [r EXCEPT !.at = "send:commit", !.bal = bal, !.amt = amt]
  <2>3. /\ Goto(p, n) /\ LockMatter(p, m) /\ MayApply(r, bal)
        /\ UNCHANGED <<entry, expense, invoice, money, invoiceLock>>
    BY <1>2 DEF SendLockMatter
  <2>4. bal \in Money
    BY <2>2 DEF IInv, TypeOK
  <2>5. amt \in 1 .. CapOf(r.row, bal) /\ amt \in Money
    <3>1. bal \in Nat /\ bal <= MaxMoney /\ r.row.total \in Nat /\ r.row.paid \in Nat
      BY <2>2, <2>4, BillingAssumption DEF InvoiceRow, Money
    <3>2. CapOf(r.row, bal) \in Int /\ CapOf(r.row, bal) <= MaxMoney
      BY <3>1, BillingAssumption DEF CapOf, Balance
    <3>3. amt \in Int
      BY <2>1, <3>2, BillingAssumption DEF Applied, SendRequest, Positive
    <3> HIDE DEF bal
    <3> QED BY <2>3, <3>2, <3>3, BillingAssumption DEF MayApply, Money
  <2>6. n \in SendRequest
    <3> HIDE DEF amt, bal
    <3> QED BY <2>1, <2>4, <2>5 DEF SendRequest
  <2>7. /\ n.at = "send:commit" /\ n.inv = r.inv /\ n.row = r.row /\ n.amt = amt
        /\ n.apply = r.apply /\ n.bal = bal
    BY <2>1 DEF SendRequest
  <2> HIDE DEF n, amt
  <2>8. RequestOK(n)
    BY <2>6, <2>7 DEF RequestOK, MintUnderway
  <2> HIDE DEF r, m
  <2>9. req'[p] = n /\ matterLock'[m] = p /\ trustBalance' = trustBalance
        /\ invoice' = invoice /\ invoiceLock' = invoiceLock
    BY <2>2, <2>3, GotoMoves, MatterLocking DEF money, m
  <2>10. SendIsCurrent(p)'
    BY <2>1, <2>5, <2>7, <2>9 DEF SendIsCurrent, m
  <2>11. Holds(p)'
    BY <2>1, <2>7, <2>9, <2>10 DEF Holds, MintUnderway, PaymentIsCurrent, TrustIsCurrent
  <2> QED BY <2>2, <2>3, <2>8, <2>11, MatterLockStep DEF m
<1>3. CASE SendRefuse(p)
  <2>1. r \in SendRequest /\ r.at = "send:invoice" /\ invoiceLock[r.inv] = p
    BY <1>0, <1>3 DEF SendRefuse, RequestOK, Holds, SendIsCurrent
  <2>2. r.inv \in Invoice
    BY <2>1 DEF SendRequest
  <2>3. /\ FreeInvoice(r.inv) /\ Goto(p, Idle)
        /\ UNCHANGED <<entry, expense, invoice, money, matterLock>>
    BY <1>3 DEF SendRefuse
  <2> QED BY <2>1, <2>2, <2>3, IdleIsFree, InvoiceLockStep
<1> QED BY <1>1, <1>2, <1>3

\* The commit of sendInvoice, with or without trust applied.
LEMMA SendCommitStep ==
  ASSUME NEW p \in Proc, IInv, SendCommit(p)
  PROVE  IInv'
<1> DEFINE r == req[p]  i == r.inv  m == r.row.matter  paid == r.row.paid + r.amt
           row == [invoice[i] EXCEPT !.paid = paid,
                     !.status = IF paid >= r.row.total THEN "paid"
                                ELSE IF r.apply THEN "partial" ELSE "sent"]
<1>1. r \in SendRequest /\ r.at = "send:commit"
      /\ invoiceLock[i] = p /\ invoice[i] = r.row /\ Sendable(r.row)
  BY DEF SendCommit, IInv, RequestsOK, RequestOK, Holds, SendIsCurrent
<1>2. IF r.apply THEN /\ matterLock[m] = p /\ r.bal = trustBalance[m]
                      /\ r.amt \in 1 .. CapOf(r.row, r.bal)
                 ELSE r.amt = 0
  BY <1>1 DEF IInv, RequestsOK, Holds, SendIsCurrent
<1>3. i \in Invoice /\ r.amt \in Money /\ r.row \in InvoiceRow /\ r.bal \in Money
  BY <1>1 DEF SendRequest
<1>4. m \in Matter
  BY <1>1, <1>3 DEF Sendable, IInv, RowsBegun
<1>5. r.row.paid = 0 /\ r.row.total \in Money /\ r.row.total > 0 /\ r.row.kind = "client"
      /\ r.row.status # "none"
  BY <1>1, <1>3 DEF Sendable, InvoiceRow, IInv, MoneyOK, StatusTellsPayments
<1>6. r.apply => r.amt > 0 /\ r.amt <= r.row.total /\ r.amt <= r.bal
  BY <1>2, <1>3, <1>5, BillingAssumption DEF CapOf, Balance, Money
<1>7. paid = r.amt /\ paid \in Money /\ paid <= r.row.total /\ r.amt \in Nat
  BY <1>2, <1>3, <1>5, <1>6, BillingAssumption DEF Money
<1>8. row \in InvoiceRow
  <2> HIDE DEF paid
  <2> QED BY <1>1, <1>3, <1>7 DEF InvoiceRow, LiveStatuses
<1>9. /\ row.kind = "client" /\ row.matter = r.row.matter /\ row.paid = paid
      /\ row.total = r.row.total
      /\ row.status = IF paid >= r.row.total THEN "paid"
                      ELSE IF r.apply THEN "partial" ELSE "sent"
  <2> HIDE DEF paid
  <2> QED BY <1>1, <1>3, <1>5 DEF InvoiceRow
<1>10. row.paid <= row.total /\ row.status # "none" /\ RowTells(row)
  <2>1. r.row.total \in Int /\ paid \in Int
    BY <1>5, <1>7, BillingAssumption DEF Money
  <2>2. IF r.apply THEN paid > 0 ELSE paid = 0
    BY <1>2, <1>6, <1>7
  <2> HIDE DEF paid, row
  <2> QED BY <1>5, <1>7, <1>9, <2>1, <2>2 DEF RowTells
<1>11. /\ invoice' = [invoice EXCEPT ![i] = row]
       /\ FreeInvoice(i) /\ Goto(p, Idle) /\ UNCHANGED <<entry, expense>>
  BY DEF SendCommit
<1>12. IF r.apply THEN PayInvoiceFromTrust(i, m, r.bal, r.amt) /\ FreeMatter(m)
                  ELSE UNCHANGED <<money, matterLock>>
  BY DEF SendCommit
<1>13. row.paid = invoice[i].paid + r.amt
  BY <1>1, <1>9
<1> HIDE DEF row, r, i, m, paid
<1>14. CASE r.apply
  <2>1. trustPaid' = [trustPaid EXCEPT ![i] = trustPaid[i] + r.amt] /\ UNCHANGED otherPaid
    BY <1>12, <1>14 DEF PayInvoiceFromTrust
  <2>2. /\ invoice' \in [Invoice -> InvoiceRow]
        /\ trustPaid' \in [Invoice -> Money] /\ otherPaid' \in [Invoice -> Money]
        /\ invoiceLock' \in [Invoice -> Proc \cup {None}]
        /\ PaidIsSumOfPayments' /\ StatusTellsPayments' /\ RowsBegun'
        /\ \A q \in Proc \ {p}, j \in Invoice : invoiceLock[j] = q =>
             invoiceLock'[j] = q /\ invoice'[j] = invoice[j]
        /\ \A j \in Invoice : invoice[j].status # "none" =>
             invoice'[j].status # "none" /\ invoice'[j].kind = invoice[j].kind
    BY <1>1, <1>3, <1>5, <1>7, <1>8, <1>9, <1>10, <1>11, <1>13, <2>1, PaymentTaken
  <2>3. /\ trustBalance' \in [Matter -> Money] /\ ledger' \in [Matter -> Money]
        /\ matterLock' \in [Matter -> Proc \cup {None}]
        /\ TrustBalanceIsLedger'
        /\ \A q \in Proc \ {p}, n \in Matter : matterLock[n] = q =>
             matterLock'[n] = q /\ trustBalance'[n] = trustBalance[n]
    <3>1. trustBalance[m] \in Nat /\ ledger[m] \in Nat /\ trustBalance[m] <= MaxMoney
      BY <1>4, BillingAssumption DEF IInv, TypeOK, Money
    <3>2. r.bal - r.amt = trustBalance[m] + (-r.amt) /\ ledger[m] - r.amt = ledger[m] + (-r.amt)
          /\ -r.amt \in Int /\ trustBalance[m] + (-r.amt) \in Money
      BY <1>2, <1>6, <1>7, <1>14, <3>1, BillingAssumption DEF Money
    <3>3. /\ trustBalance' = [trustBalance EXCEPT ![m] = trustBalance[m] + (-r.amt)]
          /\ ledger' = [ledger EXCEPT ![m] = ledger[m] + (-r.amt)]
          /\ FreeMatter(m)
      BY <1>12, <1>14, <3>2 DEF PayInvoiceFromTrust
    <3> QED BY <1>2, <1>4, <1>14, <3>2, <3>3, TrustMoved
  <2>4. TypeOK'
    BY <1>11, <2>2, <2>3 DEF IInv, TypeOK
  <2>5. MoneyOK'
    BY <2>2, <2>3 DEF MoneyOK
  <2> QED BY <1>11, <2>2, <2>3, <2>4, <2>5, FinishingStep
<1>15. CASE ~r.apply
  <2>1. UNCHANGED <<money, matterLock>> /\ row.paid = invoice[i].paid
    BY <1>1, <1>2, <1>5, <1>9, <1>7, <1>12, <1>15
  <2>2. entry' \in [Entry -> EntryRow] /\ expense' \in [Expense -> ExpenseRow]
    BY <1>11 DEF IInv, TypeOK
  <2>3. row.kind = invoice[i].kind /\ row.matter = invoice[i].matter
        /\ invoice[i].status # "none"
    BY <1>1, <1>5, <1>9
  <2> QED BY <1>1, <1>3, <1>8, <1>10, <1>11, <2>1, <2>2, <2>3, RowWriteStep
<1> QED BY <1>14, <1>15

-----------------------------------------------------------------------------
(* Any step, and the theorems.                                             *)

\* A request that is rolled back drops its own locks only.
LEMMA AbortStep ==
  ASSUME NEW p \in Proc, IInv, Abort(p)
  PROVE  IInv'
BY ReleaseStep DEF Abort

\* A step that changes no variable of Billing.
LEMMA StutterStep == ASSUME IInv, UNCHANGED vars PROVE IInv'
<1>1. UNCHANGED <<entry, expense, invoice, money, locks, req>>
  BY DEF vars
<1>2. TypeOK'
  BY <1>1 DEF IInv, TypeOK, money, locks
<1> QED BY <1>1, <1>2, LinesStep

\* IInv is inductive: every action of every request preserves it.
LEMMA NextKeeps == IInv /\ [Next]_vars => IInv'
<1> SUFFICES ASSUME IInv, [Next]_vars PROVE IInv'
  OBVIOUS
<1>1. CASE OneStatement
  BY <1>1, OneStatementStep
<1>2. ASSUME NEW p \in Proc, Begin(p) PROVE IInv'
  BY <1>2, MintSteps, TimeEntrySteps, LineEditSteps, ApproveSteps, DeleteSteps,
     SetStatusSteps, PayLockSteps, SendLockSteps, TrustSteps DEF Begin
<1>3. ASSUME NEW p \in Proc, Continue(p) PROVE IInv'
  BY <1>3, MintSteps, MintCommitStep, TimeEntrySteps, LineEditSteps, ApproveSteps,
     DeleteSteps, SetStatusSteps, PayLockSteps, PayCommitStep, SendLockSteps,
     SendCommitStep, TrustSteps DEF Continue
<1>4. ASSUME NEW p \in Proc, Abort(p) PROVE IInv'
  BY <1>4, AbortStep
<1>5. CASE UNCHANGED vars
  BY <1>5, StutterStep
<1> QED BY <1>1, <1>2, <1>3, <1>4, <1>5 DEF Next

\* IInv holds in every reachable state.
THEOREM Invariance == Spec => []IInv
<1>1. Init => IInv
  BY InitOK
<1>2. IInv /\ [Next]_vars => IInv'
  BY NextKeeps
<1> QED BY <1>1, <1>2, PTL DEF Spec

\* Every stored row keeps the type of its columns: no amount, balance or sum
\* of payments is ever negative or beyond its column's width.
THEOREM TypeCorrect == Spec => []TypeOK
<1>1. IInv => TypeOK
  BY DEF IInv
<1> QED BY <1>1, Invariance, PTL

\* A matter's trust balance is always the sum of its trust ledger, however
\* many deposits, disbursements and payments interleave.
THEOREM TrustBalanceStaysLedger == Spec => []TrustBalanceIsLedger
<1>1. IInv => TrustBalanceIsLedger
  BY DEF IInv, MoneyOK
<1> QED BY <1>1, Invariance, PTL

\* An invoice's paidAmount is always the sum of its payments and within its
\* total, however many payments, sends and voids race.
THEOREM PaidStaysSumOfPayments == Spec => []PaidIsSumOfPayments
<1>1. IInv => PaidIsSumOfPayments
  BY DEF IInv, MoneyOK
<1> QED BY <1>1, Invariance, PTL

\* The status of a client invoice always tells what was collected on it; in
\* particular a voided or deleted invoice has taken no payment.
THEOREM StatusAlwaysTellsPayments == Spec => []StatusTellsPayments
<1>1. IInv => StatusTellsPayments
  BY DEF IInv, MoneyOK
<1> QED BY <1>1, Invariance, PTL

\* What a payment, a send or a trust movement read under its row locks is
\* still true when it writes.
THEOREM SnapshotsStayCurrent == Spec => []SnapshotsAreCurrent
<1>1. IInv => SnapshotsAreCurrent
  BY DEF IInv, RequestsOK, Holds, SnapshotsAreCurrent
<1> QED BY <1>1, Invariance, PTL

-----------------------------------------------------------------------------
(* Billing implements Receivables: under the mapping of Accounts each step  *)
(* of a request is one atomic step on an account and a trust balance, or    *)
(* none at all.                                                             *)

\* A step of Receivables, or one that it does not see.
AbstractStep == [R!Next]_<<trustBalance, Accounts>>

\* What AccountOf reads off a row.
OpenAccount(row, fromTrust) ==
  [state |-> "issued", matter |-> row.matter, charged |-> row.total,
   collected |-> row.paid, fromTrust |-> fromTrust]
IsOpen(row) == row.kind = "client" /\ row.status \in {"sent", "partial", "paid"}
IsVoid(row) == row.kind = "client" /\ row.status = "void"

\* The accounts before and after a step, by the rows before and after it.
LEMMA AccountsRead ==
  /\ \A i \in Invoice :
       /\ IsOpen(invoice[i]) => Accounts[i] = OpenAccount(invoice[i], trustPaid[i])
       /\ IsVoid(invoice[i]) => Accounts[i] = R!Cancelled
       /\ ~IsOpen(invoice[i]) /\ ~IsVoid(invoice[i]) => Accounts[i] = R!NotIssued
  /\ \A i \in Invoice :
       /\ IsOpen(invoice'[i]) => Accounts'[i] = OpenAccount(invoice'[i], trustPaid'[i])
       /\ IsVoid(invoice'[i]) => Accounts'[i] = R!Cancelled
       /\ ~IsOpen(invoice'[i]) /\ ~IsVoid(invoice'[i]) => Accounts'[i] = R!NotIssued
<1>1. ASSUME NEW i \in Invoice
      PROVE  /\ IsOpen(invoice[i]) => AccountOf(i) = OpenAccount(invoice[i], trustPaid[i])
             /\ IsVoid(invoice[i]) => AccountOf(i) = R!Cancelled
             /\ ~IsOpen(invoice[i]) /\ ~IsVoid(invoice[i]) => AccountOf(i) = R!NotIssued
  BY DEF AccountOf, OpenAccount, IsOpen, IsVoid, R!NotIssued, R!Cancelled
<1>2. ASSUME NEW i \in Invoice
      PROVE  /\ IsOpen(invoice'[i]) => AccountOf(i)' = OpenAccount(invoice'[i], trustPaid'[i])
             /\ IsVoid(invoice'[i]) => AccountOf(i)' = R!Cancelled
             /\ ~IsOpen(invoice'[i]) /\ ~IsVoid(invoice'[i]) => AccountOf(i)' = R!NotIssued
  BY DEF AccountOf, OpenAccount, IsOpen, IsVoid, R!NotIssued, R!Cancelled
<1>3. \A i \in Invoice : Accounts[i] = AccountOf(i) /\ Accounts'[i] = AccountOf(i)'
  BY DEF Accounts
<1> QED BY <1>1, <1>2, <1>3

\* A step that moves one account.
LEMMA OneAccount ==
  ASSUME NEW i \in Invoice,
         \A j \in Invoice \ {i} : invoice'[j] = invoice[j] /\ trustPaid'[j] = trustPaid[j]
  PROVE  Accounts' = [Accounts EXCEPT ![i] = Accounts'[i]]
<1>1. \A j \in Invoice \ {i} : Accounts'[j] = Accounts[j]
  BY DEF Accounts, AccountOf
<1>2. Accounts = [j \in Invoice |-> Accounts[j]] /\ Accounts' = [j \in Invoice |-> Accounts'[j]]
  BY DEF Accounts
<1> HIDE DEF Accounts
<1> QED BY <1>1, <1>2

\* A step on an invoice that is on no account before or after is not seen.
LEMMA Unseen ==
  ASSUME NEW i \in Invoice, trustBalance' = trustBalance,
         \A j \in Invoice \ {i} : invoice'[j] = invoice[j] /\ trustPaid'[j] = trustPaid[j],
         ~IsOpen(invoice[i]), ~IsVoid(invoice[i]), ~IsOpen(invoice'[i]), ~IsVoid(invoice'[i])
  PROVE  AbstractStep
<1>1. Accounts'[i] = Accounts[i]
  BY AccountsRead
<1>2. Accounts = [j \in Invoice |-> Accounts[j]]
  BY DEF Accounts
<1>3. Accounts' = [Accounts EXCEPT ![i] = Accounts'[i]]
  BY OneAccount
<1>4. Accounts' = Accounts
  BY <1>1, <1>2, <1>3
<1> QED BY <1>4 DEF AbstractStep

\* A step that writes no invoice and no money is not seen.
LEMMA NothingMoved ==
  ASSUME UNCHANGED <<invoice, money>>
  PROVE  AbstractStep
BY DEF money, AbstractStep, Accounts, AccountOf

\* A deposit, disbursement or refund.
LEMMA TrustTransfers ==
  ASSUME IInv, NEW p \in Proc, TrustCommit(p)
  PROVE  AbstractStep
<1> DEFINE r == req[p]  m == r.matter
<1>1. /\ r \in TrustRequest /\ r.bal = trustBalance[m] /\ r.bal + r.delta \in Money
  BY DEF TrustCommit, IInv, RequestsOK, RequestOK, Holds, TrustIsCurrent
<1>2. m \in Matter /\ r.delta \in Int /\ trustBalance[m] \in Money
  BY <1>1 DEF TrustRequest, IInv, TypeOK
<1>3. /\ trustBalance' = [trustBalance EXCEPT ![m] = trustBalance[m] + r.delta]
      /\ UNCHANGED <<invoice, trustPaid>>
  BY <1>1 DEF TrustCommit
<1>4. r.delta \in -MaxMoney .. MaxMoney
  BY <1>1, <1>2, BillingAssumption DEF Money
<1>5. Accounts' = Accounts
  BY <1>3 DEF Accounts, AccountOf
<1>6. R!Transfer(m, r.delta)
  BY <1>1, <1>3, <1>5 DEF R!Transfer, R!Amount, Money
<1> QED BY <1>2, <1>4, <1>6 DEF AbstractStep, R!Next

\* A payment by the client or from the client's trust money.
LEMMA PaymentCollects ==
  ASSUME IInv, NEW p \in Proc, PayCommit(p)
  PROVE  AbstractStep
<1> DEFINE r == req[p]  i == r.inv  m == r.row.matter  paid == r.row.paid + r.amt
           status == IF paid >= r.row.total THEN "paid" ELSE "partial"
           fromTrust == r.src = "trust"
<1>1. /\ r \in PayRequest /\ i \in Invoice
      /\ invoice[i] = r.row /\ Payable(r.row, r.amt)
      /\ fromTrust => r.bal = trustBalance[m] /\ r.amt <= r.bal
  BY DEF PayCommit, IInv, RequestsOK, RequestOK, Holds, PaymentIsCurrent, PayRequest
<1>2. /\ m \in Matter /\ r.row.kind = "client" /\ r.row.status \in {"sent", "partial"}
      /\ r.amt <= r.row.total - r.row.paid
  BY <1>1 DEF Payable, IInv, RowsBegun, Balance
<1>3. /\ r.row \in InvoiceRow /\ r.amt \in Positive /\ trustBalance[m] \in Money
      /\ r.row.paid \in Nat /\ r.row.total \in Nat /\ r.row.total <= MaxMoney
  BY <1>1, <1>2, BillingAssumption DEF PayRequest, InvoiceRow, Money, IInv, TypeOK
<1>4. /\ invoice' = [invoice EXCEPT ![i] = [@ EXCEPT !.paid = paid, !.status = status]]
      /\ IF fromTrust THEN /\ trustBalance' = [trustBalance EXCEPT ![m] = r.bal - r.amt]
                           /\ trustPaid' = [trustPaid EXCEPT ![i] = @ + r.amt]
                      ELSE UNCHANGED <<trustBalance, trustPaid>>
  BY DEF PayCommit, PayInvoiceFromTrust
<1>5. status \in {"paid", "partial"}
  OBVIOUS
<1> HIDE DEF status
<1>6. /\ invoice'[i].status = status /\ invoice'[i].kind = "client"
      /\ invoice'[i].matter = m /\ invoice'[i].total = r.row.total /\ invoice'[i].paid = paid
      /\ \A j \in Invoice \ {i} : invoice'[j] = invoice[j]
  <2> HIDE DEF paid
  <2> QED BY <1>1, <1>2, <1>3, <1>4 DEF IInv, TypeOK, InvoiceRow
<1>7. /\ trustPaid'[i] = IF fromTrust THEN trustPaid[i] + r.amt ELSE trustPaid[i]
      /\ \A j \in Invoice \ {i} : trustPaid'[j] = trustPaid[j]
  BY <1>1, <1>4 DEF IInv, TypeOK
<1>8. /\ Accounts[i] = OpenAccount(r.row, trustPaid[i])
      /\ Accounts'[i] = OpenAccount(invoice'[i], trustPaid'[i])
  BY <1>1, <1>2, <1>5, <1>6, AccountsRead DEF IsOpen
<1> DEFINE a == Accounts[i]
           b == [a EXCEPT !.collected = @ + r.amt,
                          !.fromTrust = IF fromTrust THEN @ + r.amt ELSE @]
<1>9. /\ a.state = "issued" /\ a.matter = m /\ a.charged = r.row.total
      /\ a.collected = r.row.paid /\ a.fromTrust = trustPaid[i]
      /\ Accounts'[i] = b
  <2>1. /\ a = [state |-> "issued", matter |-> m, charged |-> r.row.total,
                collected |-> r.row.paid, fromTrust |-> trustPaid[i]]
        /\ Accounts'[i] = [state |-> "issued", matter |-> m, charged |-> r.row.total,
                           collected |-> r.row.paid + r.amt, fromTrust |-> trustPaid'[i]]
    BY <1>6, <1>8 DEF OpenAccount
  <2> HIDE DEF a, r, i, m, fromTrust
  <2>2. /\ a.state = "issued" /\ a.matter = m /\ a.charged = r.row.total
        /\ a.collected = r.row.paid /\ a.fromTrust = trustPaid[i]
    BY <2>1
  <2>3. b = [state |-> "issued", matter |-> m, charged |-> r.row.total,
             collected |-> a.collected + r.amt,
             fromTrust |-> IF fromTrust THEN a.fromTrust + r.amt ELSE a.fromTrust]
    <3> DEFINE c == IF fromTrust THEN a.fromTrust + r.amt ELSE a.fromTrust
               d == a.collected + r.amt
    <3>1. b = [a EXCEPT !.collected = d, !.fromTrust = c]
      OBVIOUS
    <3> HIDE DEF b, c, d
    <3>2. b = [state |-> "issued", matter |-> m, charged |-> r.row.total,
               collected |-> d, fromTrust |-> c]
      BY <2>1, <3>1
    <3> QED BY <3>2 DEF c, d
  <2> QED BY <1>7, <2>1, <2>2, <2>3
<1>10. Accounts' = [Accounts EXCEPT ![i] = b]
  BY <1>1, <1>6, <1>7, <1>9, OneAccount
<1>11. trustBalance' = IF fromTrust THEN [trustBalance EXCEPT ![m] = @ - r.amt] ELSE trustBalance
  BY <1>1, <1>4
<1>12. a.collected + r.amt <= a.charged /\ (fromTrust => r.amt <= trustBalance[m])
  BY <1>1, <1>2, <1>3, <1>9, BillingAssumption DEF Positive
<1>13. r.amt \in R!Amount \ {0} /\ fromTrust \in BOOLEAN
  BY <1>3, BillingAssumption DEF R!Amount, Positive
<1> HIDE DEF b, fromTrust
<1>14. R!Collect(i, r.amt, fromTrust)
  <2> HIDE DEF r, i, m
  <2> QED BY <1>9, <1>10, <1>11, <1>12 DEF R!Collect, b
<1> HIDE DEF r, i
<1> QED BY <1>1, <1>13, <1>14 DEF AbstractStep, R!Next

\* A send issues the invoice, with what is applied from trust paid at once.
LEMMA SendIssues ==
  ASSUME IInv, NEW p \in Proc, SendCommit(p)
  PROVE  AbstractStep
<1> DEFINE r == req[p]  i == r.inv  m == r.row.matter  paid == r.row.paid + r.amt
           status == IF paid >= r.row.total THEN "paid"
                     ELSE IF r.apply THEN "partial" ELSE "sent"
<1>1. /\ r \in SendRequest /\ i \in Invoice
      /\ invoice[i] = r.row /\ Sendable(r.row)
      /\ r.apply => r.bal = trustBalance[m] /\ r.amt \in 1 .. CapOf(r.row, r.bal)
      /\ ~r.apply => r.amt = 0
  BY DEF SendCommit, IInv, RequestsOK, RequestOK, Holds, SendIsCurrent, SendRequest
<1>2. /\ m \in Matter /\ r.row.kind = "client" /\ r.row.status = "approved"
      /\ r.row.total > 0 /\ r.row \in InvoiceRow
  BY <1>1 DEF Sendable, IInv, RowsBegun, TypeOK
<1>3. r.row.paid = 0 /\ trustPaid[i] = 0
  <2>1. r.row.paid = 0 /\ 0 = trustPaid[i] + otherPaid[i]
    BY <1>1, <1>2 DEF IInv, MoneyOK, StatusTellsPayments, PaidIsSumOfPayments
  <2>2. trustPaid[i] \in Nat /\ otherPaid[i] \in Nat
    BY <1>1, BillingAssumption DEF IInv, TypeOK, Money
  <2> QED BY <2>1, <2>2
<1>4. /\ r.amt \in Nat /\ trustBalance[m] \in Nat /\ r.row.total \in R!Amount \ {0}
      /\ r.amt <= r.row.total /\ r.amt <= trustBalance[m] /\ r.amt \in R!Amount
  <2>1. /\ trustBalance[m] \in Money /\ r.row.total \in Money /\ r.amt \in Money
    BY <1>1, <1>2 DEF IInv, TypeOK, InvoiceRow, SendRequest
  <2>2. r.apply => r.amt <= r.row.total /\ r.amt <= trustBalance[m]
    BY <1>1, <1>3, <2>1, BillingAssumption DEF CapOf, Balance, Money
  <2> QED BY <1>1, <1>2, <2>1, <2>2, BillingAssumption DEF R!Amount, Money
<1>5. /\ invoice' = [invoice EXCEPT ![i] = [@ EXCEPT !.paid = paid, !.status = status]]
      /\ IF r.apply THEN /\ trustBalance' = [trustBalance EXCEPT ![m] = r.bal - r.amt]
                         /\ trustPaid' = [trustPaid EXCEPT ![i] = @ + r.amt]
                    ELSE UNCHANGED <<trustBalance, trustPaid>>
  BY DEF SendCommit, PayInvoiceFromTrust, money
<1>6. status \in {"paid", "partial", "sent"} /\ paid = r.amt
  BY <1>3, <1>4
<1> HIDE DEF status
<1>7. /\ invoice'[i].status = status /\ invoice'[i].kind = "client"
      /\ invoice'[i].matter = m /\ invoice'[i].total = r.row.total /\ invoice'[i].paid = r.amt
      /\ \A j \in Invoice \ {i} : invoice'[j] = invoice[j]
  <2> HIDE DEF paid
  <2> QED BY <1>1, <1>2, <1>5, <1>6 DEF IInv, TypeOK, InvoiceRow
<1>8. /\ trustPaid'[i] = r.amt
      /\ \A j \in Invoice \ {i} : trustPaid'[j] = trustPaid[j]
  BY <1>1, <1>3, <1>4, <1>5 DEF IInv, TypeOK
<1>9. /\ Accounts[i] = R!NotIssued
      /\ Accounts'[i] = [state |-> "issued", matter |-> m, charged |-> r.row.total,
                         collected |-> r.amt, fromTrust |-> r.amt]
  BY <1>1, <1>2, <1>6, <1>7, <1>8, AccountsRead DEF IsOpen, IsVoid, OpenAccount
<1>10. trustBalance' = [trustBalance EXCEPT ![m] = trustBalance[m] - r.amt]
  BY <1>1, <1>2, <1>4, <1>5 DEF IInv, TypeOK
<1>11. Accounts' = [Accounts EXCEPT ![i] = Accounts'[i]]
  BY <1>1, <1>7, <1>8, OneAccount
<1>12. R!Issue(i, m, r.row.total, r.amt)
  <2> HIDE DEF r, i, m
  <2> QED BY <1>4, <1>9, <1>10, <1>11 DEF R!Issue
<1> HIDE DEF r, i, m
<1> QED BY <1>1, <1>2, <1>4, <1>12 DEF AbstractStep, R!Next

\* A void cancels a client invoice nothing was collected on.
LEMMA VoidCancels ==
  ASSUME IInv, NEW p \in Proc, SetStatusWrite(p)
  PROVE  AbstractStep
<1> DEFINE r == req[p]  i == r.inv
           paid == IF r.next = "paid" THEN r.row.total ELSE r.row.paid
<1>1. /\ r \in FlipRequest /\ i \in Invoice /\ r.next \in {"void", "paid"}
      /\ r.row \in InvoiceRow /\ MayFlip(r.row, r.next) /\ r.row.kind = invoice[i].kind
  BY DEF SetStatusWrite, IInv, RequestsOK, RequestOK, Holds, FlipRequest
<1>2. /\ UNCHANGED money
      /\ \/ invoice' = invoice
         \/ /\ invoice[i].status = r.row.status /\ invoice[i].paid = r.row.paid
            /\ invoice' = [invoice EXCEPT ![i] = [@ EXCEPT !.status = r.next, !.paid = paid]]
  BY DEF SetStatusWrite
<1> HIDE DEF paid
<1>3. ASSUME invoice[i].status = r.row.status, invoice[i].paid = r.row.paid,
             invoice' = [invoice EXCEPT ![i] = [@ EXCEPT !.status = r.next, !.paid = paid]]
      PROVE  AbstractStep
  <2>1. /\ invoice'[i].status = r.next /\ invoice'[i].kind = invoice[i].kind
        /\ \A j \in Invoice \ {i} : invoice'[j] = invoice[j]
    BY <1>1, <1>3 DEF IInv, TypeOK, InvoiceRow
  <2>2. trustBalance' = trustBalance /\ trustPaid' = trustPaid
    BY <1>2 DEF money
  <2>3. CASE r.row.kind = "client"
    <3>1. r.next = "void" /\ r.row.paid = 0 /\ r.row.status \in {"approved", "sent"}
      BY <1>1, <2>3 DEF MayFlip, CanVoid, InvoiceStatusTransitions
    <3>2. Accounts'[i] = R!Cancelled
      BY <1>1, <2>1, <2>3, <3>1, AccountsRead DEF IsOpen, IsVoid
    <3>3. Accounts' = [Accounts EXCEPT ![i] = R!Cancelled]
      BY <1>1, <2>1, <2>2, <3>2, OneAccount
    <3>4. CASE r.row.status = "approved"
      <4>1. Accounts[i] = R!NotIssued
        BY <1>1, <1>3, <3>4, AccountsRead DEF IsOpen, IsVoid
      <4> QED BY <1>1, <2>2, <3>3, <4>1 DEF AbstractStep, R!Next, R!Cancel
    <3>5. CASE r.row.status = "sent"
      <4>1. Accounts[i] = OpenAccount(invoice[i], trustPaid[i])
        BY <1>1, <1>3, <2>3, <3>5, AccountsRead DEF IsOpen
      <4>2. Accounts[i].state = "issued" /\ Accounts[i].collected = 0
        BY <1>3, <3>1, <4>1 DEF OpenAccount
      <4> QED BY <1>1, <2>2, <3>3, <4>2 DEF AbstractStep, R!Next, R!Cancel
    <3> QED BY <3>1, <3>4, <3>5
  <2>4. CASE r.row.kind # "client"
    BY <1>1, <2>1, <2>2, <2>4, Unseen DEF IsOpen, IsVoid
  <2> QED BY <2>3, <2>4
<1> QED BY <1>2, <1>3, NothingMoved

\* Minting, approving, editing and deleting a draft is nothing to the client.
LEMMA DraftsUnseen ==
  ASSUME IInv, NEW p \in Proc,
         MintCommit(p) \/ LineEditCommit(p) \/ ApproveWrite(p) \/ DeleteCommit(p)
  PROVE  AbstractStep
<1> DEFINE r == req[p]
<1>0. RequestOK(r) /\ Holds(p)
  BY DEF IInv, RequestsOK
<1>1. CASE MintCommit(p)
  <2> DEFINE row == [status |-> IF r.kind = "internal_record" THEN "paid" ELSE "draft",
                     kind |-> r.kind, matter |-> r.matter, total |-> r.total,
                     paid |-> IF r.kind = "internal_record" THEN r.total ELSE 0,
                     number |-> r.number]
  <2>1. PICK i \in Invoice : invoice[i].status = "none" /\ invoice' = [invoice EXCEPT ![i] = row]
    BY <1>1 DEF MintCommit
  <2>2. UNCHANGED money
    BY <1>1 DEF MintCommit
  <2>3. ~IsOpen(row) /\ ~IsVoid(row)
    BY DEF IsOpen, IsVoid
  <2> HIDE DEF row
  <2>4. invoice'[i] = row /\ \A j \in Invoice \ {i} : invoice'[j] = invoice[j]
    BY <2>1 DEF IInv, TypeOK
  <2> QED BY <2>1, <2>2, <2>3, <2>4, Unseen DEF IsOpen, IsVoid, money
<1>2. CASE LineEditCommit(p)
  <2> DEFINE i == r.inv
  <2>1. PICK total : invoice' = invoice \/ invoice' = [invoice EXCEPT ![i].total = total]
    BY <1>2 DEF LineEditCommit
  <2>2. i \in Invoice /\ invoice[i].status = "draft" /\ UNCHANGED money
    BY <1>0, <1>2 DEF LineEditCommit, RequestOK, LineRequest, Holds
  <2>3. invoice'[i].status = "draft" /\ \A j \in Invoice \ {i} : invoice'[j] = invoice[j]
    BY <2>1, <2>2 DEF IInv, TypeOK, InvoiceRow
  <2> QED BY <2>2, <2>3, Unseen DEF IsOpen, IsVoid, money
<1>3. CASE ApproveWrite(p)
  <2> DEFINE i == r.inv
  <2>1. /\ i \in Invoice /\ UNCHANGED money
        /\ \/ invoice' = invoice
           \/ invoice[i].status = "draft" /\ invoice' = [invoice EXCEPT ![i].status = "approved"]
    BY <1>0, <1>3 DEF ApproveWrite, RequestOK
  <2>2. ASSUME invoice[i].status = "draft", invoice' = [invoice EXCEPT ![i].status = "approved"]
        PROVE  AbstractStep
    <3>1. invoice'[i].status = "approved" /\ \A j \in Invoice \ {i} : invoice'[j] = invoice[j]
      BY <2>1, <2>2 DEF IInv, TypeOK, InvoiceRow
    <3> QED BY <2>1, <2>2, <3>1, Unseen DEF IsOpen, IsVoid, money
  <2> QED BY <2>1, <2>2, NothingMoved
<1>4. CASE DeleteCommit(p)
  <2> DEFINE i == r.inv
  <2>1. /\ r.at = "delete:locked" /\ trustBalance' = trustBalance
        /\ invoice' = [invoice EXCEPT ![i].status = "deleted"]
        /\ trustPaid' = [trustPaid EXCEPT ![i] = 0]
    BY <1>4 DEF DeleteCommit
  <2>2. i \in Invoice /\ invoice[i].status = "draft"
    BY <1>0, <2>1 DEF RequestOK, DeleteRequest, Holds, CanDelete
  <2>3. /\ invoice'[i].status = "deleted"
        /\ \A j \in Invoice \ {i} : invoice'[j] = invoice[j] /\ trustPaid'[j] = trustPaid[j]
    BY <2>1, <2>2 DEF IInv, TypeOK, InvoiceRow
  <2> QED BY <2>1, <2>2, <2>3, Unseen DEF IsOpen, IsVoid
<1> QED BY <1>1, <1>2, <1>3, <1>4

\* Every other step of a request writes no invoice and no money.
LEMMA OtherSteps ==
  ASSUME NEW p \in Proc,
         \/ Begin(p) \/ Abort(p)
         \/ UpdateEntryWrite(p) \/ SetEntryStatusWrite(p)
         \/ MintRetry(p) \/ MintReadEntries(p) \/ MintReadExpenses(p) \/ MintNothing(p)
         \/ MintReadNumber(p) \/ MintCollide(p) \/ MintAbort(p)
         \/ LineEditLock(p) \/ ApproveRead(p) \/ DeleteLock(p)
         \/ PayLockMatter(p) \/ PayRefuse(p) \/ SendLockMatter(p) \/ SendRefuse(p)
  PROVE  UNCHANGED <<invoice, money>>
<1>1. CASE Begin(p)
  BY <1>1 DEF Begin, MintStart, UpdateEntryRead, SetEntryStatusRead, LineEditRead, ApproveOpen,
     DeleteRead, SetStatusRead, PayLockInvoice, SendLockInvoice, TrustLock
<1>2. CASE Abort(p)
  BY <1>2 DEF Abort
<1>3. CASE ~(Begin(p) \/ Abort(p))
  BY <1>3 DEF UpdateEntryWrite, SetEntryStatusWrite, MintRetry, MintReadEntries,
     MintReadExpenses, MintNothing, MintReadNumber, MintCollide, MintAbort, LineEditLock,
     ApproveRead, DeleteLock, PayLockMatter, PayRefuse, SendLockMatter, SendRefuse
<1> QED BY <1>1, <1>2, <1>3

\* The empty database has no account and no trust money.
LEMMA InitialAccounts == Init => R!Init
<1> SUFFICES ASSUME Init PROVE R!Init
  OBVIOUS
<1>1. \A i \in Invoice : Accounts[i] = R!NotIssued
  BY AccountsRead DEF Init, IsOpen, IsVoid
<1>2. Accounts = [i \in Invoice |-> Accounts[i]]
  BY DEF Accounts
<1>3. Accounts = [i \in Invoice |-> R!NotIssued]
  BY <1>1, <1>2
<1> QED BY <1>3 DEF Init, R!Init

\* Every step of Billing is a step of Receivables or is not seen by it.
LEMMA NextImplements == IInv /\ [Next]_vars => AbstractStep
<1> SUFFICES ASSUME IInv, [Next]_vars PROVE AbstractStep
  OBVIOUS
<1>1. CASE OneStatement
  <2>1. UNCHANGED <<invoice, money>>
    BY <1>1 DEF OneStatement, CreateTimeEntry, DeleteTimeEntry, CreateExpense, UpdateExpense,
       DeleteExpense
  <2> QED BY <2>1, NothingMoved
<1>2. ASSUME NEW p \in Proc, Begin(p) \/ Abort(p) PROVE AbstractStep
  BY <1>2, OtherSteps, NothingMoved
<1>3. ASSUME NEW p \in Proc, Continue(p) PROVE AbstractStep
  BY <1>3, OtherSteps, NothingMoved, DraftsUnseen, VoidCancels, SendIssues, PaymentCollects,
     TrustTransfers DEF Continue
<1>4. CASE UNCHANGED vars
  BY <1>4, NothingMoved DEF vars
<1> QED BY <1>1, <1>2, <1>3, <1>4 DEF Next

\* Billing implements Receivables: however its requests interleave, the client
\* sees accounts and a trust balance on which each operation happens at once.
THEOREM BillingImplementsReceivables == Spec => RefinesReceivables
<1>1. IInv /\ [Next]_vars => [R!Next]_<<trustBalance, Accounts>>
  BY NextImplements DEF AbstractStep
<1> QED BY <1>1, InitialAccounts, Invariance, PTL DEF Spec, RefinesReceivables, R!Spec
=============================================================================
