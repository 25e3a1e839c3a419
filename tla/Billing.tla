------------------------------- MODULE Billing -------------------------------
(***************************************************************************)
(* Invoices, their lines, payments and client trust money: the server      *)
(* actions of src/app/actions/billing and the time-entry and expense       *)
(* actions that write the same rows.                                       *)
(*                                                                         *)
(* A process of Proc is one running request.  A request that takes several *)
(* database steps keeps in req[p] what it has read so far; its reads made  *)
(* before it takes a row lock are stale as soon as they are made.  The     *)
(* database runs at READ COMMITTED: a transaction's writes appear at once, *)
(* in its commit step; SELECT ... FOR UPDATE is invoiceLock / matterLock;  *)
(* a single UPDATE with a predicate is one atomic step that waits for the  *)
(* row lock and evaluates the predicate on the committed row.  A request   *)
(* that is refused at its first database step changes nothing and is not   *)
(* shown.                                                                  *)
(***************************************************************************)
EXTENDS Integers, FiniteSets, FiniteSetsExt

CONSTANTS
  Proc,             \* concurrently running requests
  Matter, Invoice, Entry, Expense,    \* row identifiers, used at most once
  MatterOfEntry, MatterOfExpense,     \* the matter each time entry / expense is logged on
  MaxMoney,         \* largest amount a money column holds
  Hours, Rates,     \* hours and hourly rates users type
  ExpenseAmounts,   \* expense amounts users type
  PostedStatuses,   \* time-entry statuses users post
  NumberAttempts,   \* INVOICE_NUMBER_ATTEMPTS
  Ops,              \* the requests users make in this instance
  None

Money    == 0 .. MaxMoney
Positive == 1 .. MaxMoney
Kinds    == {"client", "internal_record"}
Sources  == {"trust", "other"}

WipStatuses   == {"draft", "submitted", "billable"}
EntryStatuses == WipStatuses \cup {"billed", "written_off"}
LiveStatuses  == {"draft", "approved", "sent", "partial", "paid"}
\* "none": no such row yet.  "gone" and "deleted": the row was deleted.
EntryRow   == [status : EntryStatuses \cup {"none", "gone"}, chargeable : BOOLEAN,
               hours : Hours, rate : Rates \cup {None},
               amount : Money \cup {None}, invoice : Invoice \cup {None}]
ExpenseRow == [status : {"none", "live", "gone"}, billable : BOOLEAN,
               amount : Money, invoice : Invoice \cup {None}]
InvoiceRow == [status : LiveStatuses \cup {"none", "void", "deleted"}, kind : Kinds,
               matter : Matter \cup {None}, total : Money, paid : Money, number : Nat]

ASSUME BillingAssumption ==
  /\ MatterOfEntry \in [Entry -> Matter] /\ MatterOfExpense \in [Expense -> Matter]
  /\ MaxMoney \in Nat /\ NumberAttempts \in Nat \ {0}
  /\ Hours \subseteq Nat /\ Rates \subseteq Positive /\ ExpenseAmounts \subseteq Positive
  /\ \A h \in Hours, r \in Rates : r * h \in Money
  /\ Hours # {} /\ PostedStatuses \subseteq EntryStatuses \ {"billed"}
  /\ IsFiniteSet(Invoice)
  /\ None \notin Proc \cup Matter \cup Invoice /\ None \notin Int

VARIABLES
  entry, expense, invoice,   \* the rows
  trustBalance,              \* Matter.trustBalance
  ledger,                    \* per matter, the sum of its TrustTransaction rows
  trustPaid, otherPaid,      \* per invoice, the sum of its InvoicePayment rows by source
  invoiceLock, matterLock,   \* who holds the row FOR UPDATE
  req                        \* the state of each request

money == <<trustBalance, ledger, trustPaid, otherPaid>>
locks == <<invoiceLock, matterLock>>
vars  == <<entry, expense, invoice, money, locks, req>>

Idle == [at |-> "idle"]

Init ==
  /\ entry   = [e \in Entry |-> [status |-> "none", chargeable |-> FALSE,
                  hours |-> CHOOSE h \in Hours : TRUE, rate |-> None,
                  amount |-> None, invoice |-> None]]
  /\ expense = [x \in Expense |-> [status |-> "none", billable |-> FALSE,
                  amount |-> 0, invoice |-> None]]
  /\ invoice = [i \in Invoice |-> [status |-> "none", kind |-> "client",
                  matter |-> None, total |-> 0, paid |-> 0, number |-> 0]]
  /\ trustBalance = [m \in Matter |-> 0] /\ ledger = [m \in Matter |-> 0]
  /\ trustPaid = [i \in Invoice |-> 0] /\ otherPaid = [i \in Invoice |-> 0]
  /\ invoiceLock = [i \in Invoice |-> None] /\ matterLock = [m \in Matter |-> None]
  /\ req = [p \in Proc |-> Idle]

Goto(p, r) == req' = [req EXCEPT ![p] = r]
LockInvoice(p, i) == invoiceLock[i] = None /\ invoiceLock' = [invoiceLock EXCEPT ![i] = p]
FreeInvoice(i)    == invoiceLock' = [invoiceLock EXCEPT ![i] = None]
LockMatter(p, m)  == matterLock[m] = None /\ matterLock' = [matterLock EXCEPT ![m] = p]
FreeMatter(m)     == matterLock' = [matterLock EXCEPT ![m] = None]
\* A transaction that ends drops every row lock it holds.
ReleaseLocks(p) ==
  /\ invoiceLock' = [i \in Invoice |-> IF invoiceLock[i] = p THEN None ELSE invoiceLock[i]]
  /\ matterLock' = [m \in Matter |-> IF matterLock[m] = p THEN None ELSE matterLock[m]]

-----------------------------------------------------------------------------
(* Lines: time entries and expenses.                                       *)

\* An unpriced line (amount NULL) contributes nothing.
SumEntries(rows, S) ==
  MapThenSumSet(LAMBDA e : IF rows[e].amount = None THEN 0 ELSE rows[e].amount, S)
SumExpenses(rows, S) == MapThenSumSet(LAMBDA x : rows[x].amount, S)

EntriesOf(i)  == {e \in Entry : entry[e].invoice = i}
ExpensesOf(i) == {x \in Expense : expense[x].invoice = i}

Exists(e)      == entry[e].status \in EntryStatuses
WipEntry(e)    == entry[e].status \in WipStatuses /\ entry[e].invoice = None
WipEntries(m)  == {e \in Entry : MatterOfEntry[e] = m /\ WipEntry(e) /\ entry[e].chargeable}
WipExpense(x)  == expense[x].status = "live" /\ expense[x].invoice = None
WipExpenses(m) == {x \in Expense : MatterOfExpense[x] = m /\ WipExpense(x) /\ expense[x].billable}

\* The INSERT's foreign key on the matter waits for a FOR UPDATE lock on it.
CreateTimeEntry(e) ==
  /\ "createTimeEntry" \in Ops
  /\ entry[e].status = "none" /\ matterLock[MatterOfEntry[e]] = None
  /\ \E h \in Hours, b \in BOOLEAN :
       entry' = [entry EXCEPT ![e] = [status |-> "draft", chargeable |-> b, hours |-> h,
                   rate |-> None, amount |-> None, invoice |-> None]]
  /\ UNCHANGED <<expense, invoice, money, locks, req>>

\* updateTimeEntry reads the row, its rate included, ...
UpdateEntryRead(p, e) ==
  /\ "updateTimeEntry" \in Ops /\ req[p] = Idle
  /\ Exists(e) /\ entry[e].status # "billed"
  /\ \E h \in Hours, b \in BOOLEAN, s \in PostedStatuses \cup {None} :
       Goto(p, [at |-> "entry:read", entry |-> e, rate |-> entry[e].rate,
                hours |-> h, chargeable |-> b, status |-> s])
  /\ UNCHANGED <<entry, expense, invoice, money, locks>>

\* ... and writes it with one statement that excludes billed rows, computing
\* the amount from the rate it read; with no rate the amount is left alone.
EditedEntry(r) ==
  LET row == entry[r.entry] IN
  [row EXCEPT !.hours = r.hours, !.chargeable = r.chargeable,
              !.status = IF r.status = None THEN row.status ELSE r.status,
              !.amount = IF r.rate = None THEN row.amount ELSE r.rate * r.hours]

UpdateEntryWriteUnguarded(p) ==
  LET r == req[p] e == r.entry IN
  /\ r.at = "entry:read"
  /\ entry' = [entry EXCEPT ![e] = EditedEntry(r)]
  /\ Goto(p, Idle)
  /\ UNCHANGED <<expense, invoice, money, locks>>

UpdateEntryWrite(p) ==
  LET r == req[p] e == r.entry IN
  /\ r.at = "entry:read"
  /\ entry' = IF Exists(e) /\ entry[e].status # "billed"
              THEN [entry EXCEPT ![e] = EditedEntry(r)] ELSE entry
  /\ Goto(p, Idle)
  /\ UNCHANGED <<expense, invoice, money, locks>>

SetEntryStatusRead(p, e) ==
  /\ "setTimeEntryStatus" \in Ops /\ req[p] = Idle
  /\ Exists(e)
  /\ \E s \in PostedStatuses :
       /\ ~(entry[e].status = "billed" /\ s # "billed" /\ entry[e].invoice # None)
       /\ Goto(p, [at |-> "status:entry", entry |-> e, from |-> entry[e].status, to |-> s])
  /\ UNCHANGED <<entry, expense, invoice, money, locks>>

SetEntryStatusWrite(p) ==
  LET r == req[p] e == r.entry IN
  /\ r.at = "status:entry"
  /\ entry' = IF entry[e].status = r.from THEN [entry EXCEPT ![e].status = r.to] ELSE entry
  /\ Goto(p, Idle)
  /\ UNCHANGED <<expense, invoice, money, locks>>

DeleteTimeEntry(e) ==
  /\ "deleteTimeEntry" \in Ops
  /\ Exists(e) /\ entry[e].status # "billed"
  /\ entry' = [entry EXCEPT ![e].status = "gone"]
  /\ UNCHANGED <<expense, invoice, money, locks, req>>

CreateExpense(x) ==
  /\ "createExpense" \in Ops
  /\ expense[x].status = "none" /\ matterLock[MatterOfExpense[x]] = None
  /\ \E a \in ExpenseAmounts, b \in BOOLEAN :
       expense' = [expense EXCEPT ![x] =
                     [status |-> "live", billable |-> b, amount |-> a, invoice |-> None]]
  /\ UNCHANGED <<entry, invoice, money, locks, req>>

\* One predicated statement; everything it writes was posted.
UpdateExpense(x) ==
  /\ "updateExpense" \in Ops
  /\ WipExpense(x)
  /\ \E a \in ExpenseAmounts, b \in BOOLEAN :
       expense' = [expense EXCEPT ![x] = [@ EXCEPT !.amount = a, !.billable = b]]
  /\ UNCHANGED <<entry, invoice, money, locks, req>>

DeleteExpenseUnguarded(x) ==
  /\ "deleteExpense" \in Ops
  /\ expense[x].status = "live"
  /\ expense' = [expense EXCEPT ![x].status = "gone", ![x].invoice = None]
  /\ UNCHANGED <<entry, invoice, money, locks, req>>

DeleteExpense(x) ==
  /\ "deleteExpense" \in Ops
  /\ WipExpense(x)
  /\ expense' = [expense EXCEPT ![x].status = "gone"]
  /\ UNCHANGED <<entry, invoice, money, locks, req>>

-----------------------------------------------------------------------------
(* generateInvoiceFromWip and bundleAsInternalRecord: lock the matter, read *)
(* the unbilled time, then the expenses, then the highest invoice number,   *)
(* and insert the invoice and link the rows in the commit.  An invoice      *)
(* number another mint took in between aborts the transaction, which is run *)
(* again from the start, at most NumberAttempts times.                      *)

Existing == {i \in Invoice : invoice[i].status \notin {"none", "deleted"}}
NextInvoiceNumber ==
  IF Existing = {} THEN 1 ELSE 1 + Max({invoice[i].number : i \in Existing})

Minting(p) == req[p].at \in {"mint:entries", "mint:expenses", "mint:number",
                             "mint:commit", "mint:retry"}
\* Bound: a mint starts only while a row identifier is left for it.
RoomToMint == Cardinality({p \in Proc : Minting(p)})
                < Cardinality({i \in Invoice : invoice[i].status = "none"})

MintStart(p, m, k) ==
  /\ (IF k = "client" THEN "generateInvoiceFromWip" ELSE "bundleAsInternalRecord") \in Ops
  /\ req[p] = Idle /\ RoomToMint
  /\ LockMatter(p, m)
  /\ Goto(p, [at |-> "mint:entries", matter |-> m, kind |-> k, tries |-> 1])
  /\ UNCHANGED <<entry, expense, invoice, money, invoiceLock>>

MintRetry(p) ==
  /\ req[p].at = "mint:retry"
  /\ LockMatter(p, req[p].matter)
  /\ Goto(p, [req[p] EXCEPT !.at = "mint:entries"])
  /\ UNCHANGED <<entry, expense, invoice, money, invoiceLock>>

MintReadEntries(p) ==
  LET r == req[p] E == WipEntries(r.matter) IN
  /\ r.at = "mint:entries"
  /\ Goto(p, [at |-> "mint:expenses", matter |-> r.matter, kind |-> r.kind,
              tries |-> r.tries, entries |-> E, sum |-> SumEntries(entry, E)])
  /\ UNCHANGED <<entry, expense, invoice, money, locks>>

MintReadExpenses(p) ==
  LET r == req[p] X == WipExpenses(r.matter) IN
  /\ r.at = "mint:expenses"
  /\ r.entries # {} \/ X # {}
  /\ Goto(p, [at |-> "mint:number", matter |-> r.matter, kind |-> r.kind,
              tries |-> r.tries, entries |-> r.entries, expenses |-> X,
              total |-> r.sum + SumExpenses(expense, X)])
  /\ UNCHANGED <<entry, expense, invoice, money, locks>>

MintNothing(p) ==
  /\ req[p].at = "mint:expenses"
  /\ req[p].entries = {} /\ WipExpenses(req[p].matter) = {}
  /\ FreeMatter(req[p].matter) /\ Goto(p, Idle)
  /\ UNCHANGED <<entry, expense, invoice, money, invoiceLock>>

MintReadNumber(p) ==
  LET r == req[p] IN
  /\ r.at = "mint:number"
  /\ Goto(p, [at |-> "mint:commit", matter |-> r.matter, kind |-> r.kind,
              tries |-> r.tries, entries |-> r.entries, expenses |-> r.expenses,
              total |-> r.total, number |-> NextInvoiceNumber])
  /\ UNCHANGED <<entry, expense, invoice, money, locks>>

NumberTaken(n) == \E i \in Existing : invoice[i].number = n

MintCollide(p) ==
  LET r == req[p] IN
  /\ r.at = "mint:commit" /\ NumberTaken(r.number)
  /\ FreeMatter(r.matter)
  /\ Goto(p, IF r.tries < NumberAttempts
             THEN [at |-> "mint:retry", matter |-> r.matter, kind |-> r.kind,
                   tries |-> r.tries + 1]
             ELSE Idle)
  /\ UNCHANGED <<entry, expense, invoice, money, invoiceLock>>

\* linkWipToInvoice: every row read must still be unbilled, or all is undone.
Linkable(r) == (\A e \in r.entries : WipEntry(e)) /\ (\A x \in r.expenses : WipExpense(x))

MintCommit(p) ==
  LET r == req[p] record == r.kind = "internal_record" IN
  /\ r.at = "mint:commit" /\ ~NumberTaken(r.number)
  /\ Linkable(r) /\ r.total \in Money
  /\ \E i \in Invoice :
       /\ invoice[i].status = "none"
       /\ invoice' = [invoice EXCEPT ![i] =
            [status |-> IF record THEN "paid" ELSE "draft", kind |-> r.kind,
             matter |-> r.matter, total |-> r.total,
             paid |-> IF record THEN r.total ELSE 0, number |-> r.number]]
       /\ entry' = [e \in Entry |-> IF e \in r.entries
                      THEN [entry[e] EXCEPT !.invoice = i, !.status = "billed"] ELSE entry[e]]
       /\ expense' = [x \in Expense |-> IF x \in r.expenses
                      THEN [expense[x] EXCEPT !.invoice = i] ELSE expense[x]]
  /\ FreeMatter(r.matter) /\ Goto(p, Idle)
  /\ UNCHANGED <<money, invoiceLock>>

MintAbort(p) ==
  LET r == req[p] IN
  /\ r.at = "mint:commit" /\ ~NumberTaken(r.number)
  /\ ~(Linkable(r) /\ r.total \in Money)
  /\ FreeMatter(r.matter) /\ Goto(p, Idle)
  /\ UNCHANGED <<entry, expense, invoice, money, invoiceLock>>

-----------------------------------------------------------------------------
(* updateInvoiceLineItem: pre-check, lock the invoice, re-check, then write *)
(* the line and recompute the total from every line.                        *)

LineEditRead(p, e) ==
  /\ "updateInvoiceLineItem" \in Ops /\ req[p] = Idle
  /\ Exists(e) /\ entry[e].invoice # None /\ invoice[entry[e].invoice].status = "draft"
  /\ \E h \in Hours, r \in Rates \cup {None} :
       Goto(p, [at |-> "line:read", entry |-> e, inv |-> entry[e].invoice,
                hours |-> h, rate |-> r])
  /\ UNCHANGED <<entry, expense, invoice, money, locks>>

LineEditLockUnchecked(p) ==
  LET r == req[p] IN
  /\ r.at = "line:read"
  /\ LockInvoice(p, r.inv) /\ Goto(p, [r EXCEPT !.at = "line:locked"])
  /\ UNCHANGED <<entry, expense, invoice, money, matterLock>>

LineEditLock(p) ==
  LET r == req[p]
      editable == invoice[r.inv].status = "draft" /\ entry[r.entry].invoice = r.inv
  IN
  /\ r.at = "line:read" /\ invoiceLock[r.inv] = None
  /\ invoiceLock' = IF editable THEN [invoiceLock EXCEPT ![r.inv] = p] ELSE invoiceLock
  /\ Goto(p, IF editable THEN [r EXCEPT !.at = "line:locked"] ELSE Idle)
  /\ UNCHANGED <<entry, expense, invoice, money, matterLock>>

LineEditCommit(p) ==
  LET r == req[p]
      lines == [entry EXCEPT ![r.entry] =
                  [@ EXCEPT !.hours = r.hours, !.rate = r.rate,
                            !.amount = IF r.rate = None THEN None ELSE r.rate * r.hours]]
      total == SumEntries(lines, EntriesOf(r.inv)) + SumExpenses(expense, ExpensesOf(r.inv))
      fits  == total \in Money    \* else the column overflows and all is undone
  IN
  /\ r.at = "line:locked"
  /\ entry'   = IF fits THEN lines ELSE entry
  /\ invoice' = IF fits THEN [invoice EXCEPT ![r.inv].total = total] ELSE invoice
  /\ FreeInvoice(r.inv) /\ Goto(p, Idle)
  /\ UNCHANGED <<expense, money, matterLock>>

-----------------------------------------------------------------------------
(* approveInvoice: the page shows a total; the action reads the invoice,    *)
(* compares, and approves with one statement predicated on what it read.    *)

ApproveOpen(p, i) ==
  /\ "approveInvoice" \in Ops /\ req[p] = Idle
  /\ invoice[i].status = "draft" /\ invoice[i].kind = "client"
  /\ Goto(p, [at |-> "approve:shown", inv |-> i, shown |-> invoice[i].total])
  /\ UNCHANGED <<entry, expense, invoice, money, locks>>

ApproveRead(p) ==
  LET r == req[p] row == invoice[r.inv] IN
  /\ r.at = "approve:shown"
  /\ Goto(p, IF row.status = "draft" /\ row.total > 0 /\ row.total = r.shown
             THEN [at |-> "approve:read", inv |-> r.inv, shown |-> r.shown, total |-> row.total]
             ELSE Idle)
  /\ UNCHANGED <<entry, expense, invoice, money, locks>>

ApproveWriteByStatus(p) ==
  LET r == req[p] IN
  /\ r.at = "approve:read" /\ invoiceLock[r.inv] = None
  /\ invoice' = IF invoice[r.inv].status = "draft"
                THEN [invoice EXCEPT ![r.inv].status = "approved"] ELSE invoice
  /\ Goto(p, Idle)
  /\ UNCHANGED <<entry, expense, money, locks>>

ApproveWrite(p) ==
  LET r == req[p] row == invoice[r.inv] IN
  /\ r.at = "approve:read" /\ invoiceLock[r.inv] = None
  /\ invoice' = IF row.status = "draft" /\ row.kind = "client" /\ row.total = r.total
                THEN [invoice EXCEPT ![r.inv].status = "approved"] ELSE invoice
  /\ Goto(p, Idle)
  /\ UNCHANGED <<entry, expense, money, locks>>

-----------------------------------------------------------------------------
(* setInvoiceStatus, the void and Mark-recorded flips; deleteInvoice.       *)

InvoiceStatusTransitions(s, k) ==
  IF k = "client"
  THEN CASE s = "draft" -> {"approved"}
         [] s = "approved" -> {"sent", "void"}
         [] s = "sent" -> {"partial", "paid", "void"}
         [] s = "partial" -> {"paid"}
         [] OTHER -> {}
  ELSE CASE s = "draft" -> {"paid", "void"}
         [] s = "paid" -> {"void"}
         [] OTHER -> {}

CanVoid(row) == /\ row.kind = "client" => row.paid = 0
                /\ "void" \in InvoiceStatusTransitions(row.status, row.kind)
CanDelete(row) == row.kind = "client" /\ row.paid = 0 /\ row.status = "draft"

\* "paid" is the Mark-recorded flip of a draft internal record.
MayFlip(row, next) == /\ ~(row.kind = "client" /\ next = "paid")
                      /\ next \in InvoiceStatusTransitions(row.status, row.kind)
                      /\ next = "void" => CanVoid(row)

\* The lines of a voided or deleted invoice return to work in progress.
ReleasedEntries(i) == [e \in Entry |-> IF entry[e].invoice = i
                         THEN [entry[e] EXCEPT !.invoice = None, !.status = "billable"]
                         ELSE entry[e]]
ReleasedExpenses(i) == [x \in Expense |-> IF expense[x].invoice = i
                         THEN [expense[x] EXCEPT !.invoice = None] ELSE expense[x]]

SetStatusRead(p, i, next) ==
  /\ "setInvoiceStatus" \in Ops /\ req[p] = Idle
  /\ i \in Existing /\ MayFlip(invoice[i], next)
  /\ Goto(p, [at |-> "flip:read", inv |-> i, next |-> next, row |-> invoice[i]])
  /\ UNCHANGED <<entry, expense, invoice, money, locks>>

SetStatusWriteUnguarded(p) ==
  LET r == req[p] i == r.inv IN
  /\ r.at = "flip:read" /\ invoiceLock[i] = None
  /\ invoice' = [invoice EXCEPT ![i].status = r.next]
  /\ entry' = ReleasedEntries(i) /\ expense' = ReleasedExpenses(i)
  /\ Goto(p, Idle)
  /\ UNCHANGED <<money, locks>>

SetStatusWrite(p) ==
  LET r == req[p] i == r.inv
      claimed == invoice[i].status = r.row.status /\ invoice[i].paid = r.row.paid
      void    == claimed /\ r.next = "void"
  IN
  /\ r.at = "flip:read" /\ invoiceLock[i] = None
  /\ invoice' = IF claimed
                THEN [invoice EXCEPT ![i] = [@ EXCEPT !.status = r.next,
                        !.paid = IF r.next = "paid" THEN r.row.total ELSE r.row.paid]]
                ELSE invoice
  /\ entry'   = IF void THEN ReleasedEntries(i) ELSE entry
  /\ expense' = IF void THEN ReleasedExpenses(i) ELSE expense
  /\ Goto(p, Idle)
  /\ UNCHANGED <<money, locks>>

DeleteReadMatterFirst(p, i) ==
  /\ "deleteInvoice" \in Ops /\ req[p] = Idle
  /\ i \in Existing /\ CanDelete(invoice[i])
  /\ LockMatter(p, invoice[i].matter)
  /\ Goto(p, [at |-> "delete:read", inv |-> i])
  /\ UNCHANGED <<entry, expense, invoice, money, invoiceLock>>

DeleteRead(p, i) ==
  /\ "deleteInvoice" \in Ops /\ req[p] = Idle
  /\ i \in Existing /\ CanDelete(invoice[i])
  /\ Goto(p, [at |-> "delete:read", inv |-> i])
  /\ UNCHANGED <<entry, expense, invoice, money, locks>>

DeleteLock(p) ==
  LET r == req[p] fresh == invoice[r.inv] IN
  /\ r.at = "delete:read" /\ invoiceLock[r.inv] = None
  /\ \/ /\ CanDelete(fresh) /\ LockInvoice(p, r.inv)
        /\ Goto(p, [r EXCEPT !.at = "delete:locked"])
        /\ UNCHANGED matterLock
     \/ ~CanDelete(fresh) /\ ReleaseLocks(p) /\ Goto(p, Idle)
  /\ UNCHANGED <<entry, expense, invoice, money>>

\* Deleting the row drops its payments and nulls its expenses' foreign key.
DeleteCommit(p) ==
  LET i == req[p].inv IN
  /\ req[p].at = "delete:locked"
  /\ invoice' = [invoice EXCEPT ![i].status = "deleted"]
  /\ entry' = ReleasedEntries(i) /\ expense' = ReleasedExpenses(i)
  /\ trustPaid' = [trustPaid EXCEPT ![i] = 0] /\ otherPaid' = [otherPaid EXCEPT ![i] = 0]
  /\ ReleaseLocks(p) /\ Goto(p, Idle)
  /\ UNCHANGED <<trustBalance, ledger>>

-----------------------------------------------------------------------------
(* recordInvoicePayment and sendInvoice: lock the invoice and check it; if  *)
(* trust money is to pay, lock the matter and read its trust balance; then  *)
(* write the payment, the trust ledger leg and the invoice in the commit.   *)

Balance(row) == row.total - row.paid
CapOf(row, bal) == IF bal < Balance(row) THEN bal ELSE Balance(row)

Payable(row, amt) == /\ row.kind = "client" /\ row.status \in {"sent", "partial"}
                     /\ Balance(row) > 0 /\ amt <= Balance(row)
Sendable(row) == row.kind = "client" /\ row.status = "approved" /\ row.total > 0

\* payInvoiceFromTrust: ledger row, trust balance, InvoicePayment row.
PayInvoiceFromTrustUndebited(i, m, bal, amt) ==
  trustPaid' = [trustPaid EXCEPT ![i] = @ + amt]
    /\ UNCHANGED <<ledger, trustBalance, otherPaid>>

PayInvoiceFromTrust(i, m, bal, amt) ==
  /\ ledger' = [ledger EXCEPT ![m] = @ - amt]
  /\ trustBalance' = [trustBalance EXCEPT ![m] = bal - amt]
  /\ trustPaid' = [trustPaid EXCEPT ![i] = @ + amt]
  /\ UNCHANGED otherPaid

PayLockInvoiceUnlocked(p, i, amt, src) ==
  /\ "recordInvoicePayment" \in Ops /\ req[p] = Idle
  /\ Payable(invoice[i], amt)
  /\ Goto(p, [at |-> IF src = "trust" THEN "pay:invoice" ELSE "pay:commit",
              inv |-> i, amt |-> amt, src |-> src, row |-> invoice[i], bal |-> 0])
  /\ UNCHANGED <<entry, expense, invoice, money, locks>>

PayLockInvoice(p, i, amt, src) ==
  /\ "recordInvoicePayment" \in Ops /\ req[p] = Idle
  /\ Payable(invoice[i], amt)
  /\ LockInvoice(p, i)
  /\ Goto(p, [at |-> IF src = "trust" THEN "pay:invoice" ELSE "pay:commit",
              inv |-> i, amt |-> amt, src |-> src, row |-> invoice[i], bal |-> 0])
  /\ UNCHANGED <<entry, expense, invoice, money, matterLock>>

PayLockMatterUnchecked(p) ==
  LET r == req[p] m == r.row.matter IN
  /\ r.at = "pay:invoice"
  /\ LockMatter(p, m)
  /\ Goto(p, [r EXCEPT !.at = "pay:commit", !.bal = trustBalance[m]])
  /\ UNCHANGED <<entry, expense, invoice, money, invoiceLock>>

PayLockMatter(p) ==
  LET r == req[p] m == r.row.matter IN
  /\ r.at = "pay:invoice" /\ r.amt <= trustBalance[m]
  /\ LockMatter(p, m)
  /\ Goto(p, [r EXCEPT !.at = "pay:commit", !.bal = trustBalance[m]])
  /\ UNCHANGED <<entry, expense, invoice, money, invoiceLock>>

PayRefuse(p) ==
  LET r == req[p] m == r.row.matter IN
  /\ r.at = "pay:invoice" /\ matterLock[m] = None /\ r.amt > trustBalance[m]
  /\ FreeInvoice(r.inv) /\ Goto(p, Idle)
  /\ UNCHANGED <<entry, expense, invoice, money, matterLock>>

PayCommit(p) ==
  LET r == req[p] i == r.inv m == r.row.matter paid == r.row.paid + r.amt IN
  /\ r.at = "pay:commit"
  /\ invoice' = [invoice EXCEPT ![i] = [@ EXCEPT !.paid = paid,
                   !.status = IF paid >= r.row.total THEN "paid" ELSE "partial"]]
  /\ IF r.src = "trust"
     THEN PayInvoiceFromTrust(i, m, r.bal, r.amt) /\ FreeMatter(m)
     ELSE /\ otherPaid' = [otherPaid EXCEPT ![i] = @ + r.amt]
          /\ UNCHANGED <<trustBalance, ledger, trustPaid, matterLock>>
  /\ FreeInvoice(i) /\ Goto(p, Idle)
  /\ UNCHANGED <<entry, expense>>

SendLockInvoiceUnlocked(p, i, apply, want) ==
  /\ "sendInvoice" \in Ops /\ req[p] = Idle
  /\ Sendable(invoice[i])
  /\ Goto(p, [at |-> IF apply THEN "send:invoice" ELSE "send:commit", inv |-> i,
              apply |-> apply, want |-> want, row |-> invoice[i], bal |-> 0, amt |-> 0])
  /\ UNCHANGED <<entry, expense, invoice, money, locks>>

\* apply: whether trust is applied; want: the amount typed, None for the cap.
SendLockInvoice(p, i, apply, want) ==
  /\ "sendInvoice" \in Ops /\ req[p] = Idle
  /\ Sendable(invoice[i])
  /\ LockInvoice(p, i)
  /\ Goto(p, [at |-> IF apply THEN "send:invoice" ELSE "send:commit", inv |-> i,
              apply |-> apply, want |-> want, row |-> invoice[i], bal |-> 0, amt |-> 0])
  /\ UNCHANGED <<entry, expense, invoice, money, matterLock>>

Applied(r, bal) == IF r.want = None THEN CapOf(r.row, bal) ELSE r.want
MayApply(r, bal) == Applied(r, bal) > 0 /\ Applied(r, bal) <= CapOf(r.row, bal)

SendLockMatter(p) ==
  LET r == req[p] m == r.row.matter IN
  /\ r.at = "send:invoice" /\ MayApply(r, trustBalance[m])
  /\ LockMatter(p, m)
  /\ Goto(p, [r EXCEPT !.at = "send:commit", !.bal = trustBalance[m],
                       !.amt = Applied(r, trustBalance[m])])
  /\ UNCHANGED <<entry, expense, invoice, money, invoiceLock>>

SendRefuse(p) ==
  LET r == req[p] m == r.row.matter IN
  /\ r.at = "send:invoice" /\ matterLock[m] = None /\ ~MayApply(r, trustBalance[m])
  /\ FreeInvoice(r.inv) /\ Goto(p, Idle)
  /\ UNCHANGED <<entry, expense, invoice, money, matterLock>>

SendCommit(p) ==
  LET r == req[p] i == r.inv m == r.row.matter paid == r.row.paid + r.amt IN
  /\ r.at = "send:commit"
  /\ invoice' = [invoice EXCEPT ![i] = [@ EXCEPT !.paid = paid,
                   !.status = IF paid >= r.row.total THEN "paid"
                              ELSE IF r.apply THEN "partial" ELSE "sent"]]
  /\ IF r.apply
     THEN PayInvoiceFromTrust(i, m, r.bal, r.amt) /\ FreeMatter(m)
     ELSE UNCHANGED <<money, matterLock>>
  /\ FreeInvoice(i) /\ Goto(p, Idle)
  /\ UNCHANGED <<entry, expense>>

-----------------------------------------------------------------------------
(* addTrustTransaction with adjustTrustBalance: a deposit (delta > 0), or a *)
(* disbursement or refund that must not overdraw.                           *)

TrustReadUnlocked(p, m, delta) ==
  /\ "addTrustTransaction" \in Ops /\ req[p] = Idle
  /\ trustBalance[m] + delta \in Money
  /\ Goto(p, [at |-> "trust:locked", matter |-> m, delta |-> delta, bal |-> trustBalance[m]])
  /\ UNCHANGED <<entry, expense, invoice, money, locks>>

TrustLock(p, m, delta) ==
  /\ "addTrustTransaction" \in Ops /\ req[p] = Idle
  /\ trustBalance[m] + delta \in Money
  /\ LockMatter(p, m)
  /\ Goto(p, [at |-> "trust:locked", matter |-> m, delta |-> delta, bal |-> trustBalance[m]])
  /\ UNCHANGED <<entry, expense, invoice, money, invoiceLock>>

TrustCommit(p) ==
  LET r == req[p] m == r.matter IN
  /\ r.at = "trust:locked"
  /\ trustBalance' = [trustBalance EXCEPT ![m] = r.bal + r.delta]
  /\ ledger' = [ledger EXCEPT ![m] = @ + r.delta]
  /\ FreeMatter(m) /\ Goto(p, Idle)
  /\ UNCHANGED <<entry, expense, invoice, trustPaid, otherPaid, invoiceLock>>

-----------------------------------------------------------------------------
\* A user's request reaching its first lasting database step.
Begin(p) ==
  \/ \E m \in Matter, k \in Kinds : MintStart(p, m, k)
  \/ \E e \in Entry : UpdateEntryRead(p, e) \/ SetEntryStatusRead(p, e) \/ LineEditRead(p, e)
  \/ \E i \in Invoice : ApproveOpen(p, i) \/ DeleteRead(p, i)
  \/ \E i \in Invoice, next \in {"void", "paid"} : SetStatusRead(p, i, next)
  \/ \E i \in Invoice, amt \in Positive, src \in Sources : PayLockInvoice(p, i, amt, src)
  \/ \E i \in Invoice, apply \in BOOLEAN, want \in Positive \cup {None} :
       (apply \/ want = None) /\ SendLockInvoice(p, i, apply, want)
  \/ \E m \in Matter, delta \in (-MaxMoney .. MaxMoney) \ {0} : TrustLock(p, m, delta)

\* A running request's next step.
Continue(p) ==
  \/ UpdateEntryWrite(p) \/ SetEntryStatusWrite(p)
  \/ MintRetry(p) \/ MintReadEntries(p) \/ MintReadExpenses(p) \/ MintNothing(p)
  \/ MintReadNumber(p) \/ MintCollide(p) \/ MintCommit(p) \/ MintAbort(p)
  \/ LineEditLock(p) \/ LineEditCommit(p)
  \/ ApproveRead(p) \/ ApproveWrite(p)
  \/ SetStatusWrite(p) \/ DeleteLock(p) \/ DeleteCommit(p)
  \/ PayLockMatter(p) \/ PayRefuse(p) \/ PayCommit(p)
  \/ SendLockMatter(p) \/ SendRefuse(p) \/ SendCommit(p)
  \/ TrustCommit(p)

\* A transaction timeout, a lost connection or a crash before the commit: the
\* database rolls back and drops the locks.
Abort(p) ==
  /\ req[p] # Idle
  /\ ReleaseLocks(p) /\ Goto(p, Idle)
  /\ UNCHANGED <<entry, expense, invoice, money>>

\* Requests that are a single statement.
OneStatement ==
  \/ \E e \in Entry : CreateTimeEntry(e) \/ DeleteTimeEntry(e)
  \/ \E x \in Expense : CreateExpense(x) \/ UpdateExpense(x) \/ DeleteExpense(x)

Next == OneStatement \/ \E p \in Proc : Begin(p) \/ Continue(p) \/ Abort(p)

Spec == Init /\ [][Next]_vars

-----------------------------------------------------------------------------
(* Properties.                                                             *)

\* The stored rows have the types of their columns; in particular no money
\* column is ever negative or beyond its width.
TypeOK ==
  /\ entry \in [Entry -> EntryRow] /\ expense \in [Expense -> ExpenseRow]
  /\ invoice \in [Invoice -> InvoiceRow]
  /\ trustBalance \in [Matter -> Money] /\ ledger \in [Matter -> Money]
  /\ trustPaid \in [Invoice -> Money] /\ otherPaid \in [Invoice -> Money]
  /\ invoiceLock \in [Invoice -> Proc \cup {None}]
  /\ matterLock \in [Matter -> Proc \cup {None}]

\* A matter's stored trust balance is the sum of its trust ledger: no
\* concurrent deposit, disbursement or payment loses another one's update, and
\* (with TypeOK) client money is never overdrawn.
TrustBalanceIsLedger == \A m \in Matter : trustBalance[m] = ledger[m]

\* An invoice's paidAmount is the sum of its payment rows and never exceeds
\* its total, however many payments race; an internal record has no payments.
PaidIsSumOfPayments ==
  \A i \in Invoice :
    IF invoice[i].kind = "client"
    THEN invoice[i].paid = trustPaid[i] + otherPaid[i] /\ invoice[i].paid <= invoice[i].total
    ELSE trustPaid[i] = 0 /\ otherPaid[i] = 0

\* The status of a client invoice tells what was collected: nothing on a void,
\* deleted or merely sent invoice, everything on a paid one.
StatusTellsPayments ==
  \A i \in Invoice :
    LET row == invoice[i] IN
    row.kind = "client" =>
      CASE row.status = "partial" -> 0 < row.paid /\ row.paid < row.total
        [] row.status = "paid"    -> 0 < row.paid /\ row.paid = row.total
        [] OTHER                  -> row.paid = 0

\* What a request read under a row lock is still what the row says when it
\* writes: nobody else's step, with or without the lock, got in between.
PaymentIsCurrent(p) ==
  LET r == req[p] IN
  /\ r.at \in {"pay:invoice", "pay:commit"} =>
       invoiceLock[r.inv] = p /\ invoice[r.inv] = r.row /\ Payable(r.row, r.amt)
  /\ r.at = "pay:commit" /\ r.src = "trust" =>
       /\ matterLock[r.row.matter] = p
       /\ r.bal = trustBalance[r.row.matter] /\ r.amt <= r.bal
SendIsCurrent(p) ==
  LET r == req[p] IN
  /\ r.at \in {"send:invoice", "send:commit"} =>
       invoiceLock[r.inv] = p /\ invoice[r.inv] = r.row /\ Sendable(r.row)
  /\ r.at = "send:commit" /\ r.apply =>
       /\ matterLock[r.row.matter] = p
       /\ r.bal = trustBalance[r.row.matter] /\ r.amt \in 1 .. CapOf(r.row, r.bal)
TrustIsCurrent(p) ==
  LET r == req[p] IN
  r.at = "trust:locked" =>
    matterLock[r.matter] = p /\ r.bal = trustBalance[r.matter] /\ r.bal + r.delta \in Money
SnapshotsAreCurrent ==
  \A p \in Proc : PaymentIsCurrent(p) /\ SendIsCurrent(p) /\ TrustIsCurrent(p)

\* Billing implements Receivables: seen as the accounts of issued client
\* invoices and the trust balances, the requests' interleaved steps are its
\* atomic ones.
AccountOf(i) ==
  LET row == invoice[i]
      unissued == [state |-> "not issued", matter |-> None, charged |-> 0,
                   collected |-> 0, fromTrust |-> 0]
  IN
  CASE row.kind = "client" /\ row.status \in {"sent", "partial", "paid"} ->
         [state |-> "issued", matter |-> row.matter, charged |-> row.total,
          collected |-> row.paid, fromTrust |-> trustPaid[i]]
    [] row.kind = "client" /\ row.status = "void" -> [unissued EXCEPT !.state = "cancelled"]
    [] OTHER -> unissued
Accounts == [i \in Invoice |-> AccountOf(i)]
R == INSTANCE Receivables WITH trust <- trustBalance, account <- Accounts
RefinesReceivables == R!Spec

\* A time entry is billed exactly when it is on an invoice, and a line is only
\* on an existing invoice of its own matter, never on a void or deleted one.
BilledIffLinked ==
  /\ \A e \in Entry : entry[e].status = "billed" <=> entry[e].invoice # None
  /\ \A e \in Entry : entry[e].invoice # None =>
       /\ invoice[entry[e].invoice].status \in LiveStatuses
       /\ invoice[entry[e].invoice].matter = MatterOfEntry[e]
  /\ \A x \in Expense : expense[x].invoice # None =>
       /\ expense[x].status = "live"
       /\ invoice[expense[x].invoice].status \in LiveStatuses
       /\ invoice[expense[x].invoice].matter = MatterOfExpense[x]

\* Every draft or issued invoice still has a line: work on an invoice cannot
\* be deleted, or moved back to work in progress, under it.
InvoiceHasLines ==
  \A i \in Invoice : invoice[i].status \in LiveStatuses => EntriesOf(i) \cup ExpensesOf(i) # {}

\* Once an invoice left draft, its total, its lines and their amounts never
\* change again, except that a void or delete takes all the lines away.
FrozenOnceApproved ==
  [][\A i \in Invoice :
       invoice[i].status \in LiveStatuses \ {"draft"} =>
         /\ invoice'[i].total = invoice[i].total
         /\ \/ invoice'[i].status \in {"void", "deleted"} /\ EntriesOf(i)' \cup ExpensesOf(i)' = {}
            \/ /\ EntriesOf(i)' = EntriesOf(i) /\ ExpensesOf(i)' = ExpensesOf(i)
               /\ \A e \in EntriesOf(i) : entry'[e].amount = entry[e].amount
               /\ \A x \in ExpensesOf(i) : expense'[x].amount = expense[x].amount]_vars

\* The total an invoice is approved with is the total its approver was looking
\* at when the page was drawn, whatever was edited in between.
ApprovedTotalWasShown ==
  [][\A i \in Invoice :
       invoice[i].status = "draft" /\ invoice'[i].status = "approved" =>
         \E p \in Proc : /\ req[p].at = "approve:read" /\ req[p].inv = i
                         /\ req[p].shown = invoice'[i].total]_vars

\* "Lock order is invoice -> matter everywhere an invoice is involved, so
\* deadlocks are impossible" (helpers.ts): no set of requests all wait for row
\* locks of one another, whatever they hold from before and whichever of a
\* payment, send, mint, line edit, flip or delete they are.
WaitsForInvoice(p, i) ==
  req[p].at \in {"line:read", "approve:read", "flip:read", "delete:read"} /\ req[p].inv = i
WaitsForMatter(p, m) ==
  \/ req[p].at \in {"pay:invoice", "send:invoice"} /\ req[p].row.matter = m
  \/ req[p].at = "mint:retry" /\ req[p].matter = m
WaitsFor(p, q) == \/ \E i \in Invoice : WaitsForInvoice(p, i) /\ invoiceLock[i] = q
                  \/ \E m \in Matter : WaitsForMatter(p, m) /\ matterLock[m] = q
NoDeadlock ==
  \A S \in SUBSET Proc : S # {} => \E p \in S : \A q \in S : ~WaitsFor(p, q)

\* What linkWipToInvoice says of itself: a client invoice's total never
\* disagrees with its line items.
TotalIsSumOfLines ==
  \A i \in Invoice : invoice[i].status \in LiveStatuses =>
    invoice[i].total = SumEntries(entry, EntriesOf(i)) + SumExpenses(expense, ExpensesOf(i))

\* What the schema says of TimeEntry.amount: it is hours times rate, and the
\* action that sets it keeps it in sync.
AmountInSync ==
  \A e \in Entry : entry[e].rate # None => entry[e].amount = entry[e].rate * entry[e].hours
=============================================================================
