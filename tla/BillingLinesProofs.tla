-------------------------- MODULE BillingLinesProofs --------------------------
(* Proofs about the lines and the locks of Billing, for any number of        *)
(* requests, matters, invoices and lines: what is on an invoice stays on it, *)
(* an approved invoice is frozen, and no requests deadlock.                  *)
(*                                                                           *)
(* LInv adds to IInv what a request knows of the lines in its hands (Knows,  *)
(* LineHeld) and where in its course it may hold a lock (LocksOK).  Every    *)
(* step is shown to move rows in one of five ways (RowsMove); the properties *)
(* are proved once for each way, in MovesKeepLines.                          *)
EXTENDS BillingProofs

-----------------------------------------------------------------------------
(* The inductive invariant.                                                *)

\* What a request carries besides its types (RequestOK).
Knows(r) ==
  /\ r.at = "status:entry" => r.from # "billed"
  /\ r.at \in {"mint:expenses", "mint:number", "mint:commit"} =>
       \A e \in r.entries : e \in Entry /\ MatterOfEntry[e] = r.matter
  /\ r.at \in {"mint:number", "mint:commit"} =>
       /\ \A x \in r.expenses : x \in Expense /\ MatterOfExpense[x] = r.matter
       /\ r.entries # {} \/ r.expenses # {}
  /\ r.at = "approve:read" => r.shown = r.total

\* A line edit that has locked its invoice still has the line there.
LineHeld(p) == req[p].at = "line:locked" => entry[req[p].entry].invoice = req[p].inv

\* Where a request may hold the lock of invoice i, and of matter m.
InvHolder(r, i) ==
  r.at \in {"line:locked", "delete:locked", "pay:invoice", "pay:commit",
            "send:invoice", "send:commit"} /\ r.inv = i
MatHolder(r, m) ==
  \/ MintUnderway(r) /\ r.matter = m
  \/ r.at = "trust:locked" /\ r.matter = m
  \/ r.at = "pay:commit" /\ r.src = "trust" /\ r.row.matter = m
  \/ r.at = "send:commit" /\ r.apply /\ r.row.matter = m
LocksOK == \A p \in Proc :
  /\ \A i \in Invoice : invoiceLock[i] = p => InvHolder(req[p], i)
  /\ \A m \in Matter : matterLock[m] = p => MatHolder(req[p], m)

LInv == /\ IInv /\ BilledIffLinked /\ InvoiceHasLines /\ LocksOK
        /\ \A p \in Proc : Knows(req[p]) /\ LineHeld(p)

-----------------------------------------------------------------------------
(* The five ways in which a step moves rows.                               *)

\* Only work in progress is created, edited or deleted, or nothing at all.
WipEdit ==
  /\ UNCHANGED invoice
  /\ \A e \in Entry : \/ entry'[e] = entry[e]
                      \/ /\ entry[e].status # "billed" /\ entry'[e].status # "billed"
                         /\ entry'[e].invoice = None
  /\ \A x \in Expense : expense'[x] = expense[x]
                        \/ (expense[x].invoice = None /\ expense'[x].invoice = None)

OthersStay(i) == \A j \in Invoice \ {i} : invoice'[j] = invoice[j]

\* An invoice moves on and keeps its lines; who approves it was shown its total.
StatusMove(i) ==
  /\ UNCHANGED <<entry, expense>> /\ OthersStay(i)
  /\ invoice[i].status \in LiveStatuses /\ invoice'[i].status \in LiveStatuses
  /\ invoice'[i].matter = invoice[i].matter /\ invoice'[i].total = invoice[i].total
  /\ invoice[i].status = "draft" /\ invoice'[i].status = "approved" =>
       \E p \in Proc : /\ req[p].at = "approve:read" /\ req[p].inv = i
                       /\ req[p].shown = invoice'[i].total

\* An invoice is voided or deleted, under no line edit's lock.
LinesReleased(i) ==
  /\ entry' = ReleasedEntries(i) /\ expense' = ReleasedExpenses(i) /\ OthersStay(i)
  /\ invoice'[i].status \in {"void", "deleted"} /\ invoice'[i].total = invoice[i].total
  /\ \A p \in Proc : ~(req[p].at = "line:locked" /\ req[p].inv = i)

\* A new invoice takes work in progress of its matter, at least one row of it.
LinesTaken(i) ==
  /\ invoice[i].status = "none" /\ invoice'[i].status \in LiveStatuses /\ OthersStay(i)
  /\ \E E \in SUBSET Entry, X \in SUBSET Expense :
       /\ E # {} \/ X # {}
       /\ \A e \in E : WipEntry(e) /\ MatterOfEntry[e] = invoice'[i].matter
       /\ \A x \in X : WipExpense(x) /\ MatterOfExpense[x] = invoice'[i].matter
       /\ entry' = [e \in Entry |-> IF e \in E
                      THEN [entry[e] EXCEPT !.invoice = i, !.status = "billed"] ELSE entry[e]]
       /\ expense' = [x \in Expense |-> IF x \in X
                        THEN [expense[x] EXCEPT !.invoice = i] ELSE expense[x]]

\* A line of a draft is rewritten, and the draft's total with it.
LineRewritten(i) ==
  /\ invoice[i].status = "draft" /\ invoice'[i].status = "draft"
  /\ invoice'[i].matter = invoice[i].matter /\ OthersStay(i)
  /\ UNCHANGED expense
  /\ \A e \in Entry : \/ entry'[e] = entry[e]
                      \/ /\ entry[e].invoice = i /\ entry'[e].invoice = i
                         /\ entry'[e].status = entry[e].status

RowsMove == \/ WipEdit
            \/ \E i \in Invoice : \/ StatusMove(i) \/ LinesReleased(i) \/ LinesTaken(i)
                                  \/ LineRewritten(i)

\* The steps of FrozenOnceApproved and ApprovedTotalWasShown.
FrozenStep == \A i \in Invoice :
  invoice[i].status \in LiveStatuses \ {"draft"} =>
    /\ invoice'[i].total = invoice[i].total
    /\ \/ invoice'[i].status \in {"void", "deleted"} /\ EntriesOf(i)' \cup ExpensesOf(i)' = {}
       \/ /\ EntriesOf(i)' = EntriesOf(i) /\ ExpensesOf(i)' = ExpensesOf(i)
          /\ \A e \in EntriesOf(i) : entry'[e].amount = entry[e].amount
          /\ \A x \in ExpensesOf(i) : expense'[x].amount = expense[x].amount
ShownStep == \A i \in Invoice :
  invoice[i].status = "draft" /\ invoice'[i].status = "approved" =>
    \E p \in Proc : /\ req[p].at = "approve:read" /\ req[p].inv = i
                    /\ req[p].shown = invoice'[i].total

\* What a way of moving rows must keep.
LinesKept == /\ BilledIffLinked' /\ InvoiceHasLines' /\ FrozenStep /\ ShownStep
             /\ \A p \in Proc : req'[p] = req[p] => LineHeld(p)'

\* Lines that are on an invoice are in the rows of its matter.
LEMMA LinkedLines ==
  ASSUME LInv
  PROVE  /\ \A e \in Entry : /\ entry[e] \in EntryRow
                             /\ entry[e].invoice \in Invoice \cup {None}
                             /\ entry[e].status = "billed" <=> entry[e].invoice # None
         /\ \A x \in Expense : expense[x] \in ExpenseRow
                               /\ expense[x].invoice \in Invoice \cup {None}
         /\ None \notin Invoice
BY BillingAssumption DEF LInv, IInv, TypeOK, EntryRow, ExpenseRow, BilledIffLinked

\* Work in progress is on no invoice.
LEMMA WipEditKeepsLines ==
  ASSUME LInv, WipEdit
  PROVE  LinesKept
<1>1. /\ \A e \in Entry : entry'[e] = entry[e] \/ entry[e].invoice = None
      /\ \A e \in Entry : entry'[e].invoice = entry[e].invoice
      /\ \A x \in Expense : expense'[x].invoice = expense[x].invoice
      /\ \A x \in Expense : expense'[x] = expense[x] \/ expense[x].invoice = None
      /\ \A e \in Entry : entry'[e].status = "billed" <=> entry'[e].invoice # None
  BY LinkedLines DEF WipEdit
<1>2. \A i \in Invoice : EntriesOf(i)' = EntriesOf(i) /\ ExpensesOf(i)' = ExpensesOf(i)
  BY <1>1 DEF EntriesOf, ExpensesOf
<1>3. BilledIffLinked'
  BY <1>1, LinkedLines DEF WipEdit, LInv, BilledIffLinked
<1>4. InvoiceHasLines'
  BY <1>2 DEF WipEdit, LInv, InvoiceHasLines
<1>5. FrozenStep
  BY <1>1, <1>2, LinkedLines DEF WipEdit, FrozenStep, EntriesOf, ExpensesOf
<1>6. ShownStep
  BY DEF WipEdit, ShownStep
<1>7. ASSUME NEW p \in Proc, req'[p] = req[p], req[p].at = "line:locked"
      PROVE  entry'[req[p].entry].invoice = req[p].inv
  BY <1>1, <1>7 DEF LInv, IInv, RequestsOK, RequestOK, LineRequest, LineHeld
<1> QED BY <1>3, <1>4, <1>5, <1>6, <1>7 DEF LinesKept, LineHeld

\* An invoice that moves on keeps its lines.
LEMMA StatusMoveKeepsLines ==
  ASSUME LInv, NEW i \in Invoice, StatusMove(i)
  PROVE  LinesKept
<1>1. /\ entry' = entry /\ expense' = expense
      /\ \A j \in Invoice : j # i => invoice'[j] = invoice[j]
      /\ \A j \in Invoice :
           invoice'[j].status \in LiveStatuses <=> invoice[j].status \in LiveStatuses
      /\ \A j \in Invoice : /\ invoice'[j].matter = invoice[j].matter
                            /\ invoice'[j].total = invoice[j].total
  BY DEF StatusMove, OthersStay
<1>2. \A j \in Invoice : EntriesOf(j)' = EntriesOf(j) /\ ExpensesOf(j)' = ExpensesOf(j)
  BY <1>1 DEF EntriesOf, ExpensesOf
<1>3. BilledIffLinked'
  BY <1>1, LinkedLines DEF LInv, BilledIffLinked
<1>4. InvoiceHasLines'
  BY <1>1, <1>2 DEF LInv, InvoiceHasLines
<1>5. FrozenStep
  BY <1>1, <1>2 DEF FrozenStep
<1>6. ShownStep
  BY <1>1 DEF ShownStep, StatusMove
<1>7. \A p \in Proc : req'[p] = req[p] => LineHeld(p)'
  BY <1>1 DEF LInv, LineHeld
<1> QED BY <1>3, <1>4, <1>5, <1>6, <1>7 DEF LinesKept

\* A voided or deleted invoice keeps none of its lines, another one all of them.
LEMMA ReleaseKeepsLines ==
  ASSUME LInv, NEW i \in Invoice, LinesReleased(i)
  PROVE  LinesKept
<1>1. /\ \A e \in Entry : IF entry[e].invoice = i
                          THEN entry'[e].invoice = None /\ entry'[e].status = "billable"
                          ELSE entry'[e] = entry[e]
      /\ \A x \in Expense : IF expense[x].invoice = i
                            THEN expense'[x].invoice = None ELSE expense'[x] = expense[x]
  BY LinkedLines DEF LinesReleased, ReleasedEntries, ReleasedExpenses, EntryRow, ExpenseRow
<1>2. /\ \A j \in Invoice : j # i => invoice'[j] = invoice[j]
      /\ invoice'[i].status \in {"void", "deleted"} /\ invoice'[i].total = invoice[i].total
      /\ "void" \notin LiveStatuses /\ "deleted" \notin LiveStatuses
  BY DEF LinesReleased, OthersStay, LiveStatuses
<1>3. \A j \in Invoice : j # i => EntriesOf(j)' = EntriesOf(j) /\ ExpensesOf(j)' = ExpensesOf(j)
  BY <1>1, LinkedLines DEF EntriesOf, ExpensesOf
<1>4. EntriesOf(i)' \cup ExpensesOf(i)' = {}
  BY <1>1, LinkedLines DEF EntriesOf, ExpensesOf
<1>5. BilledIffLinked'
  <2>1. \A e \in Entry : entry'[e].status = "billed" <=> entry'[e].invoice # None
    BY <1>1, LinkedLines
  <2>2. \A e \in Entry : entry'[e].invoice # None =>
          entry'[e] = entry[e] /\ entry[e].invoice \in Invoice /\ entry[e].invoice # i
    BY <1>1, LinkedLines
  <2>3. \A x \in Expense : expense'[x].invoice # None =>
          expense'[x] = expense[x] /\ expense[x].invoice \in Invoice /\ expense[x].invoice # i
    BY <1>1, LinkedLines
  <2> QED BY <1>2, <2>1, <2>2, <2>3 DEF LInv, BilledIffLinked
<1>6. InvoiceHasLines'
  BY <1>2, <1>3 DEF LInv, InvoiceHasLines
<1>7. FrozenStep
  <2> SUFFICES ASSUME NEW j \in Invoice, j # i PROVE
        /\ invoice'[j].total = invoice[j].total
        /\ \A e \in EntriesOf(j) : entry'[e].amount = entry[e].amount
        /\ \A x \in ExpensesOf(j) : expense'[x].amount = expense[x].amount
    BY <1>2, <1>3, <1>4 DEF FrozenStep
  <2> QED BY <1>1, <1>2 DEF EntriesOf, ExpensesOf
<1>8. ShownStep
  BY <1>2 DEF ShownStep
<1>9. ASSUME NEW p \in Proc, req'[p] = req[p], req[p].at = "line:locked"
      PROVE  entry'[req[p].entry].invoice = req[p].inv
  <2>1. req[p].entry \in Entry /\ entry[req[p].entry].invoice = req[p].inv /\ req[p].inv # i
    BY <1>9 DEF LinesReleased, LInv, IInv, RequestsOK, RequestOK, LineRequest, LineHeld
  <2> QED BY <1>1, <2>1
<1> QED BY <1>5, <1>6, <1>7, <1>8, <1>9 DEF LinesKept, LineHeld

\* A new invoice has the lines it took, and took them from no other.
LEMMA TakingKeepsLines ==
  ASSUME LInv, NEW i \in Invoice, LinesTaken(i)
  PROVE  LinesKept
<1>1. PICK E \in SUBSET Entry, X \in SUBSET Expense :
        /\ E # {} \/ X # {}
        /\ \A e \in E : WipEntry(e) /\ MatterOfEntry[e] = invoice'[i].matter
        /\ \A x \in X : WipExpense(x) /\ MatterOfExpense[x] = invoice'[i].matter
        /\ entry' = [e \in Entry |-> IF e \in E
                       THEN [entry[e] EXCEPT !.invoice = i, !.status = "billed"] ELSE entry[e]]
        /\ expense' = [x \in Expense |-> IF x \in X
                         THEN [expense[x] EXCEPT !.invoice = i] ELSE expense[x]]
  BY DEF LinesTaken
<1>2. /\ \A e \in Entry : e \in E \/ entry'[e] = entry[e]
      /\ \A x \in Expense : x \in X \/ expense'[x] = expense[x]
      /\ None # i
  BY <1>1, LinkedLines
<1>21. ASSUME NEW e \in E
       PROVE  /\ entry[e].invoice = None /\ entry'[e].invoice = i
              /\ entry'[e].status = "billed"
  <2>1. entry[e] \in EntryRow /\ entry'[e] = [entry[e] EXCEPT !.invoice = i, !.status = "billed"]
    BY <1>1, LinkedLines
  <2> QED BY <1>1, <2>1 DEF WipEntry, EntryRow
<1>22. ASSUME NEW x \in X
       PROVE  /\ expense[x].invoice = None /\ expense'[x].invoice = i
              /\ expense'[x].status = "live"
  <2>1. expense[x] \in ExpenseRow /\ expense'[x] = [expense[x] EXCEPT !.invoice = i]
    BY <1>1, LinkedLines
  <2> QED BY <1>1, <2>1 DEF WipExpense, ExpenseRow
<1>3. /\ \A j \in Invoice : j # i => invoice'[j] = invoice[j]
      /\ invoice[i].status = "none" /\ invoice'[i].status \in LiveStatuses
      /\ "none" \notin LiveStatuses
  BY DEF LinesTaken, OthersStay, LiveStatuses
<1>4. \A j \in Invoice : j # i => EntriesOf(j)' = EntriesOf(j) /\ ExpensesOf(j)' = ExpensesOf(j)
  BY <1>2, <1>21, <1>22, LinkedLines DEF EntriesOf, ExpensesOf
<1>5. EntriesOf(i)' \cup ExpensesOf(i)' # {}
  BY <1>1, <1>21, <1>22 DEF EntriesOf, ExpensesOf
<1>6. BilledIffLinked'
  <2>1. \A e \in Entry \ E : entry'[e].invoice # None =>
          /\ entry'[e] = entry[e] /\ entry[e].invoice \in Invoice /\ entry[e].invoice # i
    BY <1>2, <1>3, LinkedLines DEF LInv, BilledIffLinked
  <2>2. \A x \in Expense \ X : expense'[x].invoice # None =>
          /\ expense'[x] = expense[x] /\ expense[x].invoice \in Invoice /\ expense[x].invoice # i
    BY <1>2, <1>3, LinkedLines DEF LInv, BilledIffLinked
  <2>3. \A e \in Entry : entry'[e].status = "billed" <=> entry'[e].invoice # None
    BY <1>2, <1>21, LinkedLines
  <2>4. ASSUME NEW e \in Entry, entry'[e].invoice # None
        PROVE  /\ invoice'[entry'[e].invoice].status \in LiveStatuses
               /\ invoice'[entry'[e].invoice].matter = MatterOfEntry[e]
    <3>1. CASE e \in E
      <4>1. entry'[e].invoice = i
        BY <1>21, <3>1
      <4> QED BY <1>1, <1>3, <3>1, <4>1
    <3>2. CASE e \notin E
      <4> DEFINE j == entry[e].invoice
      <4>1. entry'[e] = entry[e] /\ j \in Invoice /\ j # i /\ j # None
        BY <2>1, <2>4, <3>2
      <4>2. invoice[j].status \in LiveStatuses /\ invoice[j].matter = MatterOfEntry[e]
        BY <4>1 DEF LInv, BilledIffLinked
      <4> QED BY <1>3, <4>1, <4>2
    <3> QED BY <3>1, <3>2
  <2>5. ASSUME NEW x \in Expense, expense'[x].invoice # None
        PROVE  /\ expense'[x].status = "live"
               /\ invoice'[expense'[x].invoice].status \in LiveStatuses
               /\ invoice'[expense'[x].invoice].matter = MatterOfExpense[x]
    <3>1. CASE x \in X
      <4>1. expense'[x].invoice = i /\ expense'[x].status = "live"
        BY <1>22, <3>1
      <4> QED BY <1>1, <1>3, <3>1, <4>1
    <3>2. CASE x \notin X
      <4> DEFINE j == expense[x].invoice
      <4>1. expense'[x] = expense[x] /\ j \in Invoice /\ j # i /\ j # None
        BY <2>2, <2>5, <3>2
      <4>2. /\ expense[x].status = "live"
            /\ invoice[j].status \in LiveStatuses /\ invoice[j].matter = MatterOfExpense[x]
        BY <4>1 DEF LInv, BilledIffLinked
      <4> QED BY <1>3, <4>1, <4>2
    <3> QED BY <3>1, <3>2
  <2> QED BY <2>3, <2>4, <2>5 DEF BilledIffLinked
<1>7. InvoiceHasLines'
  BY <1>3, <1>4, <1>5 DEF LInv, InvoiceHasLines
<1>8. FrozenStep
  <2> SUFFICES ASSUME NEW j \in Invoice, j # i PROVE
        /\ invoice'[j].total = invoice[j].total
        /\ \A e \in EntriesOf(j) : entry'[e].amount = entry[e].amount
        /\ \A x \in ExpensesOf(j) : expense'[x].amount = expense[x].amount
    BY <1>3, <1>4 DEF FrozenStep
  <2>1. \A e \in EntriesOf(j) : e \in Entry /\ entry[e].invoice = j /\ e \notin E
    BY <1>21, LinkedLines DEF EntriesOf
  <2>2. \A x \in ExpensesOf(j) : x \in Expense /\ expense[x].invoice = j /\ x \notin X
    BY <1>22, LinkedLines DEF ExpensesOf
  <2> QED BY <1>2, <1>3, <2>1, <2>2
<1>9. ShownStep
  BY <1>3 DEF ShownStep
<1>10. ASSUME NEW p \in Proc, req'[p] = req[p], req[p].at = "line:locked"
       PROVE  entry'[req[p].entry].invoice = req[p].inv
  <2>1. req[p].entry \in Entry /\ entry[req[p].entry].invoice = req[p].inv /\ req[p].inv \in Invoice
    BY <1>10 DEF LInv, IInv, RequestsOK, RequestOK, LineRequest, LineHeld
  <2>2. req[p].entry \notin E
    BY <1>21, <2>1, LinkedLines
  <2> QED BY <1>2, <2>1, <2>2
<1> QED BY <1>6, <1>7, <1>8, <1>9, <1>10 DEF LinesKept, LineHeld

\* A line that is rewritten stays where it is.
LEMMA RewriteKeepsLines ==
  ASSUME LInv, NEW i \in Invoice, LineRewritten(i)
  PROVE  LinesKept
<1>1. /\ \A e \in Entry : entry'[e].invoice = entry[e].invoice /\ entry'[e].status = entry[e].status
      /\ \A e \in Entry : entry[e].invoice # i => entry'[e] = entry[e]
      /\ expense' = expense
  BY DEF LineRewritten
<1>2. /\ \A j \in Invoice : j # i => invoice'[j] = invoice[j]
      /\ \A j \in Invoice : /\ invoice'[j].status = invoice[j].status
                            /\ invoice'[j].matter = invoice[j].matter
      /\ invoice[i].status = "draft"
  BY DEF LineRewritten, OthersStay
<1>3. \A j \in Invoice : EntriesOf(j)' = EntriesOf(j) /\ ExpensesOf(j)' = ExpensesOf(j)
  BY <1>1 DEF EntriesOf, ExpensesOf
<1>4. BilledIffLinked'
  BY <1>1, <1>2, LinkedLines DEF LInv, BilledIffLinked
<1>5. InvoiceHasLines'
  BY <1>2, <1>3 DEF LInv, InvoiceHasLines
<1>6. FrozenStep
  BY <1>1, <1>2, <1>3 DEF FrozenStep, EntriesOf, ExpensesOf
<1>7. ShownStep
  BY <1>2 DEF ShownStep
<1>8. ASSUME NEW p \in Proc, req'[p] = req[p], req[p].at = "line:locked"
      PROVE  entry'[req[p].entry].invoice = req[p].inv
  BY <1>1, <1>8 DEF LInv, IInv, RequestsOK, RequestOK, LineRequest, LineHeld
<1> QED BY <1>4, <1>5, <1>6, <1>7, <1>8 DEF LinesKept, LineHeld

\* However a step moves the rows, the properties of the lines are kept.
LEMMA MovesKeepLines ==
  ASSUME LInv, RowsMove
  PROVE  LinesKept
BY WipEditKeepsLines, StatusMoveKeepsLines, ReleaseKeepsLines, TakingKeepsLines,
   RewriteKeepsLines DEF RowsMove

-----------------------------------------------------------------------------
(* Every step moves the rows in one of these ways, and the locks in order.  *)

\* What a step of p does, apart from what NextKeeps proves of it.
StepOK(p) ==
  /\ RowsMove /\ Knows(req'[p]) /\ LineHeld(p)'
  /\ \A q \in Proc \ {p} : /\ req'[q] = req[q]
                           /\ \A i \in Invoice : invoiceLock'[i] = q => invoiceLock[i] = q
                           /\ \A m \in Matter : matterLock'[m] = q => matterLock[m] = q
  /\ \A i \in Invoice : invoiceLock'[i] = p => InvHolder(req'[p], i)
  /\ \A m \in Matter : matterLock'[m] = p => MatHolder(req'[p], m)

\* Such a step keeps the invariant and is a step of the two action properties.
LEMMA StepKeeps ==
  ASSUME LInv, NEW p \in Proc, StepOK(p), IInv'
  PROVE  LInv' /\ FrozenStep /\ ShownStep
<1>1. LinesKept
  BY MovesKeepLines DEF StepOK
<1>2. \A q \in Proc : Knows(req'[q]) /\ LineHeld(q)'
  BY <1>1 DEF StepOK, LinesKept, LInv
<1>3. LocksOK'
  BY DEF StepOK, LInv, LocksOK
<1> QED BY <1>1, <1>2, <1>3 DEF LInv, LinesKept

\* The places of a request that has no lock.
Lockless(r) == Free(r) \/ r.at = "flip:read"

\* A request that holds no lock has none to its name.
LEMMA HoldsNone ==
  ASSUME LInv, NEW p \in Proc, Lockless(req[p])
  PROVE  /\ \A i \in Invoice : invoiceLock[i] # p
         /\ \A m \in Matter : matterLock[m] # p
BY DEF LInv, LocksOK, Free, Lockless, InvHolder, MatHolder, MintUnderway

\* A request that only reads keeps its locks; the place it moves to may have them.
LEMMA ReadStepOK ==
  ASSUME LInv, NEW p \in Proc, NEW r, Goto(p, r), UNCHANGED <<entry, expense, invoice, locks>>,
         Knows(r), r.at # "line:locked",
         Lockless(req[p]) \/ (MintUnderway(req[p]) /\ MintUnderway(r) /\ r.matter = req[p].matter)
  PROVE  StepOK(p)
<1>1. req'[p] = r /\ \A q \in Proc \ {p} : req'[q] = req[q]
  BY GotoMoves DEF LInv
<1>2. RowsMove
  BY DEF RowsMove, WipEdit
<1>3. invoiceLock' = invoiceLock /\ matterLock' = matterLock
  BY DEF locks
<1>4. \A i \in Invoice : invoiceLock[i] # p
  BY HoldsNone DEF LInv, LocksOK, InvHolder, MintUnderway
<1>5. \A m \in Matter : matterLock[m] = p => MatHolder(r, m)
  BY HoldsNone DEF LInv, LocksOK, MatHolder, MintUnderway
<1> QED BY <1>1, <1>2, <1>3, <1>4, <1>5 DEF StepOK, LineHeld

\* p has dropped every invoice's, every matter's lock it had; nobody took one.
InvDropped(p) == \A i \in Invoice, q \in Proc : invoiceLock'[i] = q => q # p /\ invoiceLock[i] = q
MatDropped(p) == \A m \in Matter, q \in Proc : matterLock'[m] = q => q # p /\ matterLock[m] = q

\* Dropping every lock, the one lock a request may have, or none where it may
\* have none.
LEMMA Dropping ==
  ASSUME LInv, NEW p \in Proc
  PROVE  /\ \A i \in Invoice :
              FreeInvoice(i) /\ (\A j \in Invoice : InvHolder(req[p], j) => j = i) => InvDropped(p)
         /\ UNCHANGED invoiceLock /\ (\A j \in Invoice : ~InvHolder(req[p], j)) => InvDropped(p)
         /\ \A m \in Matter :
              FreeMatter(m) /\ (\A n \in Matter : MatHolder(req[p], n) => n = m) => MatDropped(p)
         /\ UNCHANGED matterLock /\ (\A n \in Matter : ~MatHolder(req[p], n)) => MatDropped(p)
         /\ ReleaseLocks(p) => InvDropped(p) /\ MatDropped(p)
<1>1. /\ \A j \in Invoice : invoiceLock[j] = p => InvHolder(req[p], j)
      /\ \A n \in Matter : matterLock[n] = p => MatHolder(req[p], n)
  BY DEF LInv, LocksOK
<1>2. /\ invoiceLock \in [Invoice -> Proc \cup {None}]
      /\ matterLock \in [Matter -> Proc \cup {None}] /\ None \notin Proc
  BY BillingAssumption DEF LInv, IInv, TypeOK
<1>3. ASSUME NEW i \in Invoice, FreeInvoice(i), \A j \in Invoice : InvHolder(req[p], j) => j = i
      PROVE  InvDropped(p)
  <2>1. \A j \in Invoice : invoiceLock'[j] = IF j = i THEN None ELSE invoiceLock[j]
    BY <1>2, <1>3 DEF FreeInvoice
  <2> QED BY <1>1, <1>2, <1>3, <2>1 DEF InvDropped
<1>4. ASSUME NEW m \in Matter, FreeMatter(m), \A n \in Matter : MatHolder(req[p], n) => n = m
      PROVE  MatDropped(p)
  <2>1. \A n \in Matter : matterLock'[n] = IF n = m THEN None ELSE matterLock[n]
    BY <1>2, <1>4 DEF FreeMatter
  <2> QED BY <1>1, <1>2, <1>4, <2>1 DEF MatDropped
<1>5. UNCHANGED invoiceLock /\ (\A j \in Invoice : ~InvHolder(req[p], j)) => InvDropped(p)
  BY <1>1 DEF InvDropped
<1>6. UNCHANGED matterLock /\ (\A n \in Matter : ~MatHolder(req[p], n)) => MatDropped(p)
  BY <1>1 DEF MatDropped
<1>7. ReleaseLocks(p) => InvDropped(p) /\ MatDropped(p)
  BY <1>2 DEF ReleaseLocks, InvDropped, MatDropped
<1> QED BY <1>3, <1>4, <1>5, <1>6, <1>7

\* A request that ends has dropped its locks.
LEMMA EndStepOK ==
  ASSUME LInv, NEW p \in Proc, Goto(p, Idle), RowsMove, InvDropped(p), MatDropped(p)
  PROVE  StepOK(p)
<1>1. req'[p] = Idle /\ \A q \in Proc \ {p} : req'[q] = req[q]
  BY GotoMoves DEF LInv
<1>2. Knows(Idle) /\ Idle.at # "line:locked"
  BY DEF Knows, Idle
<1> QED BY <1>1, <1>2 DEF StepOK, LineHeld, InvDropped, MatDropped

\* A request that only changes rows and had no lock to drop.
LEMMA FreeEndStepOK ==
  ASSUME LInv, NEW p \in Proc, Goto(p, Idle), RowsMove, UNCHANGED locks, Lockless(req[p])
  PROVE  StepOK(p)
<1>1. InvDropped(p) /\ MatDropped(p)
  BY Dropping DEF locks, Free, Lockless, InvHolder, MatHolder, MintUnderway
<1> QED BY <1>1, EndStepOK

\* A request takes the lock of an invoice, having none.
LEMMA InvoiceTaken ==
  ASSUME LInv, NEW p \in Proc, NEW i \in Invoice, NEW r, Goto(p, r), Lockless(req[p]),
         LockInvoice(p, i), UNCHANGED <<entry, expense, invoice, matterLock>>,
         InvHolder(r, i), Knows(r), r.at = "line:locked" => entry[r.entry].invoice = r.inv
  PROVE  StepOK(p)
<1>1. req'[p] = r /\ \A q \in Proc \ {p} : req'[q] = req[q]
  BY GotoMoves DEF LInv
<1>2. RowsMove
  BY DEF RowsMove, WipEdit
<1>3. \A j \in Invoice : invoiceLock'[j] = IF j = i THEN p ELSE invoiceLock[j]
  BY DEF LInv, IInv, TypeOK, LockInvoice
<1>4. /\ \A j \in Invoice : invoiceLock[j] # p
      /\ \A m \in Matter : matterLock'[m] = matterLock[m] /\ matterLock[m] # p
  BY HoldsNone
<1> QED BY <1>1, <1>2, <1>3, <1>4 DEF StepOK, LineHeld

\* A request takes the lock of a matter, having none, and keeps its invoice's.
LEMMA MatterTaken ==
  ASSUME LInv, NEW p \in Proc, NEW m \in Matter, NEW r, Goto(p, r),
         LockMatter(p, m), UNCHANGED <<entry, expense, invoice, invoiceLock>>,
         MatHolder(r, m), Knows(r), r.at # "line:locked",
         \A n \in Matter : ~MatHolder(req[p], n),
         \A i \in Invoice : InvHolder(req[p], i) => InvHolder(r, i)
  PROVE  StepOK(p)
<1>1. req'[p] = r /\ \A q \in Proc \ {p} : req'[q] = req[q]
  BY GotoMoves DEF LInv
<1>2. RowsMove
  BY DEF RowsMove, WipEdit
<1>3. \A n \in Matter : matterLock'[n] = IF n = m THEN p ELSE matterLock[n]
  BY DEF LInv, IInv, TypeOK, LockMatter
<1>4. /\ \A i \in Invoice : invoiceLock'[i] = p => InvHolder(r, i)
      /\ \A n \in Matter : matterLock[n] # p
  BY DEF LInv, LocksOK
<1> QED BY <1>1, <1>2, <1>3, <1>4 DEF StepOK, LineHeld

-----------------------------------------------------------------------------
(* The actions.                                                            *)

\* createTimeEntry, deleteTimeEntry and the expense actions.
LEMMA StatementMoves ==
  ASSUME LInv, OneStatement
  PROVE  WipEdit /\ UNCHANGED <<locks, req>>
<1>1. ASSUME NEW e \in Entry, CreateTimeEntry(e) \/ DeleteTimeEntry(e) PROVE WipEdit
  <2>1. entry[e].status # "billed" /\ entry[e].invoice = None /\ entry[e] \in EntryRow
    BY <1>1, LinkedLines DEF CreateTimeEntry, DeleteTimeEntry
  <2>2. UNCHANGED <<expense, invoice>> /\ \A d \in Entry : d # e => entry'[d] = entry[d]
    BY <1>1 DEF CreateTimeEntry, DeleteTimeEntry, LInv, IInv, TypeOK
  <2>3. entry'[e].status # "billed" /\ entry'[e].invoice = None
    BY <1>1, <2>1 DEF CreateTimeEntry, DeleteTimeEntry, LInv, IInv, TypeOK, EntryRow
  <2> QED BY <2>1, <2>2, <2>3 DEF WipEdit
<1>2. ASSUME NEW x \in Expense, CreateExpense(x) \/ UpdateExpense(x) \/ DeleteExpense(x)
      PROVE  WipEdit
  <2>1. expense[x] \in ExpenseRow /\ expense[x].invoice = None
    BY <1>2, LinkedLines DEF CreateExpense, UpdateExpense, DeleteExpense, WipExpense,
                            LInv, BilledIffLinked
  <2>2. UNCHANGED <<entry, invoice>> /\ \A y \in Expense : y # x => expense'[y] = expense[y]
    BY <1>2 DEF CreateExpense, UpdateExpense, DeleteExpense, LInv, IInv, TypeOK
  <2>3. expense'[x].invoice = None
    <3>1. CASE CreateExpense(x) \/ DeleteExpense(x)
      BY <2>1, <3>1 DEF CreateExpense, DeleteExpense, LInv, IInv, TypeOK, ExpenseRow
    <3>2. CASE UpdateExpense(x)
      <4>1. PICK a \in ExpenseAmounts, b \in BOOLEAN :
              expense' = [expense EXCEPT ![x] = [@ EXCEPT !.amount = a, !.billable = b]]
        BY <3>2 DEF UpdateExpense
      <4>2. expense'[x] = [expense[x] EXCEPT !.amount = a, !.billable = b]
        BY <4>1 DEF LInv, IInv, TypeOK
      <4> QED BY <2>1, <4>2 DEF ExpenseRow
    <3> QED BY <1>2, <3>1, <3>2
  <2> QED BY <2>1, <2>2, <2>3 DEF WipEdit
<1> QED BY <1>1, <1>2 DEF OneStatement, CreateTimeEntry, DeleteTimeEntry, CreateExpense,
                         UpdateExpense, DeleteExpense

\* updateTimeEntry and setTimeEntryStatus.
LEMMA EntryActions ==
  ASSUME LInv, NEW p \in Proc,
         \/ UpdateEntryWrite(p) \/ SetEntryStatusWrite(p)
         \/ \E e \in Entry : UpdateEntryRead(p, e) \/ SetEntryStatusRead(p, e)
  PROVE  StepOK(p)
<1> DEFINE r == req[p]
<1>0. RequestOK(r) /\ Knows(r)
  BY DEF LInv, IInv, RequestsOK
<1>1. ASSUME NEW e \in Entry, UpdateEntryRead(p, e) PROVE StepOK(p)
  <2>1. PICK h \in Hours, b \in BOOLEAN, s \in PostedStatuses \cup {None} :
          Goto(p, [at |-> "entry:read", entry |-> e, rate |-> entry[e].rate,
                   hours |-> h, chargeable |-> b, status |-> s])
    BY <1>1 DEF UpdateEntryRead
  <2>2. Knows([at |-> "entry:read", entry |-> e, rate |-> entry[e].rate,
               hours |-> h, chargeable |-> b, status |-> s])
    BY DEF Knows
  <2> QED BY <1>1, <2>1, <2>2, ReadStepOK DEF UpdateEntryRead, Free, Lockless, Idle
<1>2. ASSUME NEW e \in Entry, SetEntryStatusRead(p, e) PROVE StepOK(p)
  <2>1. PICK s \in PostedStatuses :
          /\ ~(entry[e].status = "billed" /\ s # "billed" /\ entry[e].invoice # None)
          /\ Goto(p, [at |-> "status:entry", entry |-> e, from |-> entry[e].status, to |-> s])
    BY <1>2 DEF SetEntryStatusRead
  <2>2. entry[e].status # "billed"
    BY <2>1, LinkedLines, BillingAssumption
  <2>3. Knows([at |-> "status:entry", entry |-> e, from |-> entry[e].status, to |-> s])
    BY <2>2 DEF Knows
  <2> QED BY <1>2, <2>1, <2>3, ReadStepOK DEF SetEntryStatusRead, Free, Lockless, Idle
<1>3. CASE UpdateEntryWrite(p)
  <2> DEFINE e == r.entry
  <2>1. r \in EntryRequest /\ r.at = "entry:read"
    BY <1>0, <1>3 DEF UpdateEntryWrite, RequestOK
  <2>2. e \in Entry /\ entry[e] \in EntryRow
        /\ (r.status = None \/ (r.status \in PostedStatuses /\ r.status # "billed"))
    BY <2>1, LinkedLines, BillingAssumption DEF EntryRequest
  <2>3. EditedEntry(r).invoice = entry[e].invoice
        /\ EditedEntry(r).status = IF r.status = None THEN entry[e].status ELSE r.status
    BY <2>2 DEF EditedEntry, EntryRow
  <2>4. /\ UNCHANGED <<expense, invoice, locks>> /\ Goto(p, Idle)
        /\ entry' = IF Exists(e) /\ entry[e].status # "billed"
                    THEN [entry EXCEPT ![e] = EditedEntry(r)] ELSE entry
    BY <1>3 DEF UpdateEntryWrite
  <2>5. \A d \in Entry : entry'[d] = entry[d]
          \/ (d = e /\ entry[e].status # "billed" /\ entry'[e] = EditedEntry(r))
    BY <2>2, <2>4 DEF LInv, IInv, TypeOK
  <2>6. WipEdit
    BY <2>2, <2>3, <2>4, <2>5, LinkedLines DEF WipEdit
  <2> QED BY <2>1, <2>4, <2>6, FreeEndStepOK DEF RowsMove, Free, Lockless
<1>4. CASE SetEntryStatusWrite(p)
  <2> DEFINE e == r.entry
  <2>1. r \in StatusRequest /\ r.at = "status:entry" /\ r.from # "billed"
    BY <1>0, <1>4 DEF SetEntryStatusWrite, RequestOK, Knows
  <2>2. e \in Entry /\ entry[e] \in EntryRow /\ r.to # "billed"
    BY <2>1, LinkedLines, BillingAssumption DEF StatusRequest
  <2>3. /\ UNCHANGED <<expense, invoice, locks>> /\ Goto(p, Idle)
        /\ entry' = IF entry[e].status = r.from THEN [entry EXCEPT ![e].status = r.to] ELSE entry
    BY <1>4 DEF SetEntryStatusWrite
  <2>4. \A d \in Entry : entry'[d] = entry[d]
          \/ (d = e /\ entry[e].status # "billed" /\ entry'[e].status = r.to
              /\ entry'[e].invoice = entry[e].invoice)
    BY <2>1, <2>2, <2>3 DEF LInv, IInv, TypeOK, EntryRow
  <2>5. WipEdit
    <3> HIDE DEF e
    <3> QED BY <2>2, <2>3, <2>4, LinkedLines DEF WipEdit
  <2> QED BY <2>1, <2>3, <2>5, FreeEndStepOK DEF RowsMove, Free, Lockless
<1> QED BY <1>1, <1>2, <1>3, <1>4

\* generateInvoiceFromWip and bundleAsInternalRecord up to the commit.
LEMMA MintActions ==
  ASSUME LInv, NEW p \in Proc,
         \/ \E m \in Matter, k \in Kinds : MintStart(p, m, k)
         \/ MintRetry(p) \/ MintReadEntries(p) \/ MintReadExpenses(p) \/ MintNothing(p)
         \/ MintReadNumber(p) \/ MintCollide(p) \/ MintAbort(p)
  PROVE  StepOK(p)
<1> DEFINE r == req[p]
<1>0. RequestOK(r) /\ Knows(r)
  BY DEF LInv, IInv, RequestsOK
<1>1. ASSUME NEW m \in Matter, NEW k \in Kinds, MintStart(p, m, k) PROVE StepOK(p)
  <2> DEFINE n == [at |-> "mint:entries", matter |-> m, kind |-> k, tries |-> 1]
  <2>1. Knows(n) /\ MatHolder(n, m) /\ n.at # "line:locked"
    BY DEF Knows, MatHolder, MintUnderway
  <2>2. /\ \A j \in Matter : ~MatHolder(Idle, j)
        /\ \A i \in Invoice : ~InvHolder(Idle, i)
    BY DEF Idle, MatHolder, InvHolder, MintUnderway
  <2> HIDE DEF n
  <2>3. req[p] = Idle /\ LockMatter(p, m) /\ Goto(p, n)
        /\ UNCHANGED <<entry, expense, invoice, invoiceLock>>
    BY <1>1 DEF MintStart, n
  <2> QED BY <2>1, <2>2, <2>3, MatterTaken
<1>2. CASE MintRetry(p)
  <2> DEFINE n == [r EXCEPT !.at = "mint:entries"]
  <2>1. r \in MintRequest /\ r.at = "mint:retry"
    BY <1>0, <1>2 DEF MintRetry, RequestOK
  <2>2. n.at = "mint:entries" /\ n.matter = r.matter /\ r.matter \in Matter
    BY <2>1 DEF MintRequest
  <2>3. LockMatter(p, r.matter) /\ Goto(p, n) /\ UNCHANGED <<entry, expense, invoice, invoiceLock>>
    BY <1>2 DEF MintRetry
  <2> HIDE DEF n
  <2>4. Knows(n) /\ MatHolder(n, r.matter)
    BY <2>2 DEF Knows, MatHolder, MintUnderway
  <2>5. /\ \A j \in Matter : ~MatHolder(r, j)
        /\ \A i \in Invoice : ~InvHolder(r, i)
    BY <2>1 DEF MatHolder, InvHolder, MintUnderway
  <2> QED BY <2>2, <2>3, <2>4, <2>5, MatterTaken
<1>3. CASE MintReadEntries(p)
  <2> DEFINE E == WipEntries(r.matter)
             n == [at |-> "mint:expenses", matter |-> r.matter, kind |-> r.kind,
                   tries |-> r.tries, entries |-> E, sum |-> SumEntries(entry, E)]
  <2>1. r.at = "mint:entries" /\ Goto(p, n) /\ UNCHANGED <<entry, expense, invoice, locks>>
    BY <1>3 DEF MintReadEntries
  <2>2. \A e \in E : e \in Entry /\ MatterOfEntry[e] = r.matter
    BY DEF WipEntries
  <2>3. n.at = "mint:expenses" /\ n.matter = r.matter /\ n.entries = E
    OBVIOUS
  <2> HIDE DEF n, E
  <2>4. Knows(n)
    BY <2>2, <2>3 DEF Knows
  <2> QED BY <2>1, <2>3, <2>4, ReadStepOK DEF MintUnderway
<1>4. CASE MintReadExpenses(p)
  <2> DEFINE X == WipExpenses(r.matter)
             n == [at |-> "mint:number", matter |-> r.matter, kind |-> r.kind,
                   tries |-> r.tries, entries |-> r.entries, expenses |-> X,
                   total |-> r.sum + SumExpenses(expense, X)]
  <2>1. /\ r.at = "mint:expenses" /\ Goto(p, n) /\ UNCHANGED <<entry, expense, invoice, locks>>
        /\ r.entries # {} \/ X # {}
    BY <1>4 DEF MintReadExpenses
  <2>2. \A x \in X : x \in Expense /\ MatterOfExpense[x] = r.matter
    BY DEF WipExpenses
  <2>3. n.at = "mint:number" /\ n.matter = r.matter /\ n.entries = r.entries /\ n.expenses = X
    OBVIOUS
  <2> HIDE DEF n, X
  <2>4. Knows(n)
    BY <1>0, <2>1, <2>2, <2>3 DEF Knows
  <2> QED BY <2>1, <2>3, <2>4, ReadStepOK DEF MintUnderway
<1>5. CASE MintReadNumber(p)
  <2> DEFINE n == [at |-> "mint:commit", matter |-> r.matter, kind |-> r.kind,
                   tries |-> r.tries, entries |-> r.entries, expenses |-> r.expenses,
                   total |-> r.total, number |-> NextInvoiceNumber]
  <2>1. r.at = "mint:number" /\ Goto(p, n) /\ UNCHANGED <<entry, expense, invoice, locks>>
    BY <1>5 DEF MintReadNumber
  <2>2. n.at = "mint:commit" /\ n.matter = r.matter /\ n.entries = r.entries
        /\ n.expenses = r.expenses
    OBVIOUS
  <2> HIDE DEF n
  <2>3. Knows(n)
    BY <1>0, <2>1, <2>2 DEF Knows
  <2> QED BY <2>1, <2>2, <2>3, ReadStepOK DEF MintUnderway
<1>6. ASSUME MintNothing(p) \/ MintAbort(p) \/ MintCollide(p)
      PROVE  /\ MintUnderway(r) /\ FreeMatter(r.matter) /\ r.matter \in Matter
             /\ UNCHANGED <<entry, expense, invoice, invoiceLock>>
             /\ InvDropped(p) /\ MatDropped(p) /\ RowsMove
  <2>1. /\ MintUnderway(r) /\ FreeMatter(r.matter)
        /\ UNCHANGED <<entry, expense, invoice, invoiceLock>>
    BY <1>6 DEF MintNothing, MintAbort, MintCollide, MintUnderway
  <2>2. r.matter \in Matter
    BY <1>0, <2>1 DEF RequestOK
  <2>3. /\ \A i \in Invoice : ~InvHolder(r, i)
        /\ \A n \in Matter : MatHolder(r, n) => n = r.matter
    BY <2>1 DEF InvHolder, MatHolder, MintUnderway
  <2>4. InvDropped(p) /\ MatDropped(p)
    BY <2>1, <2>2, <2>3, Dropping
  <2>5. RowsMove
    BY <2>1 DEF RowsMove, WipEdit
  <2> QED BY <2>1, <2>2, <2>4, <2>5
<1>7. CASE MintNothing(p) \/ MintAbort(p)
  BY <1>6, <1>7, EndStepOK DEF MintNothing, MintAbort
<1>8. CASE MintCollide(p)
  <2> DEFINE n == IF r.tries < NumberAttempts
                  THEN [at |-> "mint:retry", matter |-> r.matter, kind |-> r.kind,
                        tries |-> r.tries + 1]
                  ELSE Idle
  <2>1. Goto(p, n)
    BY <1>8 DEF MintCollide
  <2>2. Knows(n) /\ n.at # "line:locked"
    BY DEF Knows, Idle
  <2> HIDE DEF n
  <2>3. req'[p] = n /\ \A q \in Proc \ {p} : req'[q] = req[q]
    BY <2>1, GotoMoves DEF LInv
  <2> QED BY <1>6, <1>8, <2>2, <2>3 DEF StepOK, LineHeld, InvDropped, MatDropped
<1> QED BY <1>1, <1>2, <1>3, <1>4, <1>5, <1>7, <1>8

\* The commit of a mint takes the lines that linkWipToInvoice found unbilled.
LEMMA MintCommitAction ==
  ASSUME LInv, NEW p \in Proc, MintCommit(p)
  PROVE  StepOK(p)
<1> DEFINE r == req[p]
<1>1. /\ r.at = "mint:commit" /\ Linkable(r) /\ FreeMatter(r.matter) /\ Goto(p, Idle)
      /\ UNCHANGED invoiceLock
  BY DEF MintCommit
<1>2. r.matter \in Matter /\ Knows(r)
  BY <1>1 DEF LInv, IInv, RequestsOK, RequestOK, MintUnderway
<1>3. /\ r.entries \in SUBSET Entry /\ r.expenses \in SUBSET Expense
      /\ r.entries # {} \/ r.expenses # {}
      /\ \A e \in r.entries : WipEntry(e) /\ MatterOfEntry[e] = r.matter
      /\ \A x \in r.expenses : WipExpense(x) /\ MatterOfExpense[x] = r.matter
  BY <1>1, <1>2 DEF Knows, Linkable
<1> DEFINE row == [status |-> IF r.kind = "internal_record" THEN "paid" ELSE "draft",
                   kind |-> r.kind, matter |-> r.matter, total |-> r.total,
                   paid |-> IF r.kind = "internal_record" THEN r.total ELSE 0,
                   number |-> r.number]
<1>4. PICK i \in Invoice :
        /\ invoice[i].status = "none" /\ invoice' = [invoice EXCEPT ![i] = row]
        /\ entry' = [e \in Entry |-> IF e \in r.entries
                       THEN [entry[e] EXCEPT !.invoice = i, !.status = "billed"] ELSE entry[e]]
        /\ expense' = [x \in Expense |-> IF x \in r.expenses
                         THEN [expense[x] EXCEPT !.invoice = i] ELSE expense[x]]
  BY DEF MintCommit
<1>5. /\ \A j \in Invoice \ {i} : invoice'[j] = invoice[j]
      /\ invoice'[i].status \in {"paid", "draft"} /\ invoice'[i].matter = r.matter
  BY <1>4 DEF LInv, IInv, TypeOK
<1>6. LinesTaken(i)
  BY <1>3, <1>4, <1>5 DEF LinesTaken, OthersStay, LiveStatuses
<1>7. /\ \A j \in Invoice : ~InvHolder(r, j)
      /\ \A n \in Matter : MatHolder(r, n) => n = r.matter
  BY <1>1 DEF InvHolder, MatHolder, MintUnderway
<1>8. InvDropped(p) /\ MatDropped(p)
  BY <1>1, <1>2, <1>7, Dropping
<1> QED BY <1>1, <1>6, <1>8, EndStepOK DEF RowsMove

\* updateInvoiceLineItem rewrites a line of a draft that is still on it.
LEMMA LineEditActions ==
  ASSUME LInv, NEW p \in Proc,
         \/ \E e \in Entry : LineEditRead(p, e)
         \/ LineEditLock(p) \/ LineEditCommit(p)
  PROVE  StepOK(p)
<1> DEFINE r == req[p]
<1>0. RequestOK(r) /\ Holds(p) /\ LineHeld(p)
  BY DEF LInv, IInv, RequestsOK
<1>1. ASSUME NEW e \in Entry, LineEditRead(p, e) PROVE StepOK(p)
  <2>1. PICK h \in Hours, c \in Rates \cup {None} :
          Goto(p, [at |-> "line:read", entry |-> e, inv |-> entry[e].invoice,
                   hours |-> h, rate |-> c])
    BY <1>1 DEF LineEditRead
  <2>2. Knows([at |-> "line:read", entry |-> e, inv |-> entry[e].invoice,
               hours |-> h, rate |-> c])
    BY DEF Knows
  <2> QED BY <1>1, <2>1, <2>2, ReadStepOK DEF LineEditRead, Free, Lockless, Idle
<1>2. CASE LineEditLock(p)
  <2>1. r \in LineRequest /\ r.at = "line:read" /\ r.inv \in Invoice
    BY <1>0, <1>2 DEF LineEditLock, RequestOK, LineRequest
  <2>2. CASE invoice[r.inv].status = "draft" /\ entry[r.entry].invoice = r.inv
    <3> DEFINE n == [r EXCEPT !.at = "line:locked"]
    <3>1. LockInvoice(p, r.inv) /\ Goto(p, n) /\ UNCHANGED <<entry, expense, invoice, matterLock>>
      BY <1>2, <2>2 DEF LineEditLock, LockInvoice
    <3>2. n.at = "line:locked" /\ n.inv = r.inv /\ n.entry = r.entry
      BY <2>1 DEF LineRequest
    <3> HIDE DEF n
    <3>3. Knows(n) /\ InvHolder(n, r.inv)
      BY <3>2 DEF Knows, InvHolder
    <3> QED BY <2>1, <2>2, <3>1, <3>2, <3>3, InvoiceTaken DEF Free, Lockless
  <2>3. CASE ~(invoice[r.inv].status = "draft" /\ entry[r.entry].invoice = r.inv)
    BY <1>2, <2>1, <2>3, FreeEndStepOK DEF LineEditLock, RowsMove, WipEdit, locks, Free, Lockless
  <2> QED BY <2>2, <2>3
<1>3. CASE LineEditCommit(p)
  <2> DEFINE e == r.entry  i == r.inv
             line == [entry[e] EXCEPT !.hours = r.hours, !.rate = r.rate,
                        !.amount = IF r.rate = None THEN None ELSE r.rate * r.hours]
             lines == [entry EXCEPT ![e] = line]
             total == SumEntries(lines, EntriesOf(i)) + SumExpenses(expense, ExpensesOf(i))
  <2>1. /\ r.at = "line:locked" /\ FreeInvoice(i) /\ Goto(p, Idle)
        /\ UNCHANGED <<expense, matterLock>>
        /\ \/ entry' = entry /\ invoice' = invoice
           \/ entry' = lines /\ invoice' = [invoice EXCEPT ![i].total = total]
    BY <1>3 DEF LineEditCommit
  <2> HIDE DEF total
  <2>2. r \in LineRequest /\ e \in Entry /\ i \in Invoice
        /\ entry[e].invoice = i /\ invoice[i].status = "draft"
    BY <1>0, <2>1 DEF RequestOK, Holds, LineHeld, LineRequest
  <2>3. line.invoice = i /\ line.status = entry[e].status
    BY <2>2, LinkedLines DEF EntryRow
  <2> HIDE DEF line
  <2>4. \A d \in Entry : lines[d] = IF d = e THEN line ELSE entry[d]
    BY DEF LInv, IInv, TypeOK
  <2> HIDE DEF lines
  <2>5. ASSUME entry' = lines, invoice' = [invoice EXCEPT ![i].total = total]
        PROVE  LineRewritten(i)
    <3>1. invoice'[i].status = invoice[i].status /\ invoice'[i].matter = invoice[i].matter
          /\ \A j \in Invoice \ {i} : invoice'[j] = invoice[j]
      BY <2>2, <2>5 DEF LInv, IInv, TypeOK, InvoiceRow
    <3> HIDE DEF e, i, r
    <3> QED BY <2>1, <2>2, <2>3, <2>4, <2>5, <3>1 DEF LineRewritten, OthersStay
  <2>6. RowsMove
    <3> HIDE DEF lines, i, r, e
    <3> QED BY <2>1, <2>2, <2>5 DEF RowsMove, WipEdit
  <2>7. /\ \A j \in Invoice : InvHolder(r, j) => j = i
        /\ \A n \in Matter : ~MatHolder(r, n)
    BY <2>1 DEF InvHolder, MatHolder, MintUnderway
  <2>8. InvDropped(p) /\ MatDropped(p)
    BY <2>1, <2>2, <2>7, Dropping
  <2> QED BY <2>1, <2>6, <2>8, EndStepOK
<1> QED BY <1>1, <1>2, <1>3

\* approveInvoice approves the total its approver was shown.
LEMMA ApproveActions ==
  ASSUME LInv, NEW p \in Proc,
         \/ \E i \in Invoice : ApproveOpen(p, i)
         \/ ApproveRead(p) \/ ApproveWrite(p)
  PROVE  StepOK(p)
<1> DEFINE r == req[p]  i == r.inv
<1>0. RequestOK(r) /\ Knows(r)
  BY DEF LInv, IInv, RequestsOK
<1>1. ASSUME NEW j \in Invoice, ApproveOpen(p, j) PROVE StepOK(p)
  <2>1. Knows([at |-> "approve:shown", inv |-> j, shown |-> invoice[j].total])
    BY DEF Knows
  <2> QED BY <1>1, <2>1, ReadStepOK DEF ApproveOpen, Idle, Free, Lockless
<1>2. CASE ApproveRead(p)
  <2> DEFINE ok == /\ invoice[i].status = "draft" /\ invoice[i].total > 0
                   /\ invoice[i].total = r.shown
             n == IF ok THEN [at |-> "approve:read", inv |-> i, shown |-> r.shown,
                              total |-> invoice[i].total]
                        ELSE Idle
  <2>1. Goto(p, n) /\ UNCHANGED <<entry, expense, invoice, locks>> /\ r.at = "approve:shown"
    BY <1>2 DEF ApproveRead
  <2>2. Knows(n) /\ n.at # "line:locked"
    BY DEF Knows, Idle
  <2> HIDE DEF n
  <2> QED BY <2>1, <2>2, ReadStepOK DEF Free, Lockless
<1>3. CASE ApproveWrite(p)
  <2>1. i \in Invoice /\ r.shown = r.total /\ r.at = "approve:read"
    BY <1>0, <1>3 DEF ApproveWrite, RequestOK, Knows
  <2>2. /\ Goto(p, Idle) /\ UNCHANGED <<entry, expense, locks>>
        /\ \/ invoice' = invoice
           \/ /\ invoice[i].status = "draft" /\ invoice[i].total = r.total
              /\ invoice' = [invoice EXCEPT ![i].status = "approved"]
    BY <1>3 DEF ApproveWrite
  <2>3. ASSUME invoice[i].status = "draft", invoice[i].total = r.total,
               invoice' = [invoice EXCEPT ![i].status = "approved"]
        PROVE  StatusMove(i)
    <3>1. /\ invoice'[i].status = "approved" /\ invoice'[i].matter = invoice[i].matter
          /\ invoice'[i].total = invoice[i].total
          /\ \A j \in Invoice \ {i} : invoice'[j] = invoice[j]
      BY <2>1, <2>3 DEF LInv, IInv, TypeOK, InvoiceRow
    <3> QED BY <2>1, <2>2, <2>3, <3>1 DEF StatusMove, OthersStay, LiveStatuses
  <2>4. RowsMove
    <3> HIDE DEF i, r
    <3> QED BY <2>1, <2>2, <2>3 DEF RowsMove, WipEdit
  <2> QED BY <2>1, <2>2, <2>4, FreeEndStepOK DEF Free, Lockless
<1> QED BY <1>1, <1>2, <1>3

\* A line edit has locked the invoice of its line.
LEMMA LineEditLocks ==
  ASSUME LInv, NEW q \in Proc, NEW i \in Invoice, req[q].at = "line:locked", req[q].inv = i
  PROVE  invoiceLock[i] = q
BY DEF LInv, IInv, RequestsOK, Holds

\* setInvoiceStatus releases the lines of a voided invoice.
LEMMA SetStatusActions ==
  ASSUME LInv, NEW p \in Proc,
         \/ \E i \in Invoice, next \in {"void", "paid"} : SetStatusRead(p, i, next)
         \/ SetStatusWrite(p)
  PROVE  StepOK(p)
<1> DEFINE r == req[p]  i == r.inv
<1>0. RequestOK(r) /\ Holds(p)
  BY DEF LInv, IInv, RequestsOK
<1>1. ASSUME NEW j \in Invoice, NEW next \in {"void", "paid"}, SetStatusRead(p, j, next)
      PROVE  StepOK(p)
  <2>1. Knows([at |-> "flip:read", inv |-> j, next |-> next, row |-> invoice[j]])
    BY DEF Knows
  <2> QED BY <1>1, <2>1, ReadStepOK DEF SetStatusRead, Idle, Free, Lockless
<1>2. CASE SetStatusWrite(p)
  <2> DEFINE paid == IF r.next = "paid" THEN r.row.total ELSE r.row.paid
  <2>1. /\ r \in FlipRequest /\ invoiceLock[i] = None /\ r.at = "flip:read"
        /\ MayFlip(r.row, r.next)
    BY <1>0, <1>2 DEF SetStatusWrite, RequestOK, Holds
  <2>2. i \in Invoice /\ r.next \in {"void", "paid"} /\ r.row \in InvoiceRow
    BY <2>1 DEF FlipRequest
  <2>3. Goto(p, Idle) /\ UNCHANGED locks
    BY <1>2 DEF SetStatusWrite
  <2>4. \/ UNCHANGED <<entry, expense, invoice>>
        \/ /\ invoice[i].status = r.row.status
           /\ invoice' = [invoice EXCEPT ![i] = [@ EXCEPT !.status = r.next, !.paid = paid]]
           /\ IF r.next = "void"
              THEN entry' = ReleasedEntries(i) /\ expense' = ReleasedExpenses(i)
              ELSE UNCHANGED <<entry, expense>>
    BY <1>2 DEF SetStatusWrite
  <2> HIDE DEF paid
  <2>5. ASSUME invoice[i].status = r.row.status,
               invoice' = [invoice EXCEPT ![i] = [@ EXCEPT !.status = r.next, !.paid = paid]],
               IF r.next = "void"
               THEN entry' = ReleasedEntries(i) /\ expense' = ReleasedExpenses(i)
               ELSE UNCHANGED <<entry, expense>>
        PROVE  LinesReleased(i) \/ StatusMove(i)
    <3>1. /\ invoice'[i].status = r.next /\ invoice'[i].matter = invoice[i].matter
          /\ invoice'[i].total = invoice[i].total
          /\ \A j \in Invoice \ {i} : invoice'[j] = invoice[j]
      BY <2>2, <2>5 DEF LInv, IInv, TypeOK, InvoiceRow
    <3>2. CASE r.next = "void"
      <4>1. \A q \in Proc : ~(req[q].at = "line:locked" /\ req[q].inv = i)
        BY <2>1, <2>2, LineEditLocks, BillingAssumption
      <4> QED BY <2>5, <3>1, <3>2, <4>1 DEF LinesReleased, OthersStay
    <3>3. CASE r.next = "paid"
      <4>1. /\ r.row.kind = "internal_record"
            /\ "paid" \in InvoiceStatusTransitions(r.row.status, r.row.kind)
        BY <2>1, <2>2, <3>3 DEF MayFlip, InvoiceRow, Kinds
      <4>2. r.row.status = "draft"
        BY <4>1 DEF InvoiceStatusTransitions
      <4> QED BY <2>5, <3>1, <3>3, <4>2 DEF StatusMove, OthersStay, LiveStatuses
    <3> QED BY <2>2, <3>2, <3>3
  <2>6. RowsMove
    <3> HIDE DEF r, i
    <3> QED BY <2>2, <2>4, <2>5 DEF RowsMove, WipEdit
  <2> QED BY <2>1, <2>3, <2>6, FreeEndStepOK DEF Lockless
<1> QED BY <1>1, <1>2

\* deleteInvoice releases the lines of a draft under the lock of its row.
LEMMA DeleteActions ==
  ASSUME LInv, NEW p \in Proc,
         \/ \E i \in Invoice : DeleteRead(p, i)
         \/ DeleteLock(p) \/ DeleteCommit(p)
  PROVE  StepOK(p)
<1> DEFINE r == req[p]  i == r.inv
<1>0. RequestOK(r) /\ Holds(p)
  BY DEF LInv, IInv, RequestsOK
<1>1. ASSUME NEW j \in Invoice, DeleteRead(p, j) PROVE StepOK(p)
  <2>1. Knows([at |-> "delete:read", inv |-> j])
    BY DEF Knows
  <2> QED BY <1>1, <2>1, ReadStepOK DEF DeleteRead, Idle, Free, Lockless
<1>2. CASE DeleteLock(p)
  <2>1. r \in DeleteRequest /\ i \in Invoice /\ r.at = "delete:read"
    BY <1>0, <1>2 DEF DeleteLock, RequestOK, DeleteRequest
  <2>2. CASE CanDelete(invoice[i])
    <3> DEFINE n == [r EXCEPT !.at = "delete:locked"]
    <3>1. LockInvoice(p, i) /\ Goto(p, n) /\ UNCHANGED <<entry, expense, invoice, matterLock>>
      BY <1>2, <2>2 DEF DeleteLock, LockInvoice
    <3>2. n.at = "delete:locked" /\ n.inv = i
      BY <2>1 DEF DeleteRequest
    <3> HIDE DEF n
    <3>3. Knows(n) /\ InvHolder(n, i)
      BY <3>2 DEF Knows, InvHolder
    <3> QED BY <2>1, <3>1, <3>2, <3>3, InvoiceTaken DEF Free, Lockless
  <2>3. CASE ~CanDelete(invoice[i])
    <3>1. Goto(p, Idle) /\ ReleaseLocks(p) /\ RowsMove
      BY <1>2, <2>3 DEF DeleteLock, RowsMove, WipEdit
    <3> QED BY <3>1, Dropping, EndStepOK
  <2> QED BY <2>2, <2>3
<1>3. CASE DeleteCommit(p)
  <2>1. /\ r.at = "delete:locked" /\ ReleaseLocks(p) /\ Goto(p, Idle)
        /\ invoice' = [invoice EXCEPT ![i].status = "deleted"]
        /\ entry' = ReleasedEntries(i) /\ expense' = ReleasedExpenses(i)
    BY <1>3 DEF DeleteCommit
  <2>2. i \in Invoice /\ invoiceLock[i] = p
    BY <1>0, <2>1 DEF RequestOK, DeleteRequest, Holds
  <2>3. /\ invoice'[i].status = "deleted" /\ invoice'[i].total = invoice[i].total
        /\ \A j \in Invoice \ {i} : invoice'[j] = invoice[j]
    BY <2>1, <2>2 DEF LInv, IInv, TypeOK, InvoiceRow
  <2>4. \A q \in Proc : ~(req[q].at = "line:locked" /\ req[q].inv = i)
    BY <2>1, <2>2, LineEditLocks
  <2>5. LinesReleased(i)
    BY <2>1, <2>3, <2>4 DEF LinesReleased, OthersStay
  <2>6. RowsMove
    <3> HIDE DEF i
    <3> QED BY <2>2, <2>5 DEF RowsMove
  <2>7. InvDropped(p) /\ MatDropped(p)
    BY <2>1, Dropping
  <2> QED BY <2>1, <2>6, <2>7, EndStepOK
<1> QED BY <1>1, <1>2, <1>3

\* The first locks of recordInvoicePayment and sendInvoice, and their refusals.
LEMMA PayLockActions ==
  ASSUME LInv, NEW p \in Proc,
         \/ \E i \in Invoice, amt \in Positive, src \in Sources : PayLockInvoice(p, i, amt, src)
         \/ \E i \in Invoice, apply \in BOOLEAN, want \in Positive \cup {None} :
              (apply \/ want = None) /\ SendLockInvoice(p, i, apply, want)
         \/ PayRefuse(p) \/ SendRefuse(p)
  PROVE  StepOK(p)
<1> DEFINE r == req[p]
<1>1. ASSUME NEW i \in Invoice, NEW amt \in Positive, NEW src \in Sources,
             PayLockInvoice(p, i, amt, src)
      PROVE  StepOK(p)
  <2> DEFINE n == [at |-> IF src = "trust" THEN "pay:invoice" ELSE "pay:commit",
                   inv |-> i, amt |-> amt, src |-> src, row |-> invoice[i], bal |-> 0]
  <2>1. Knows(n) /\ InvHolder(n, i) /\ n.at # "line:locked"
    BY DEF Knows, InvHolder
  <2> HIDE DEF n
  <2>2. req[p] = Idle /\ LockInvoice(p, i) /\ Goto(p, n)
        /\ UNCHANGED <<entry, expense, invoice, matterLock>>
    BY <1>1 DEF PayLockInvoice, n
  <2> QED BY <2>1, <2>2, InvoiceTaken DEF Idle, Free, Lockless
<1>2. ASSUME NEW i \in Invoice, NEW apply \in BOOLEAN, NEW want \in Positive \cup {None},
             SendLockInvoice(p, i, apply, want)
      PROVE  StepOK(p)
  <2> DEFINE n == [at |-> IF apply THEN "send:invoice" ELSE "send:commit", inv |-> i,
                   apply |-> apply, want |-> want, row |-> invoice[i], bal |-> 0, amt |-> 0]
  <2>1. Knows(n) /\ InvHolder(n, i) /\ n.at # "line:locked"
    BY DEF Knows, InvHolder
  <2> HIDE DEF n
  <2>2. req[p] = Idle /\ LockInvoice(p, i) /\ Goto(p, n)
        /\ UNCHANGED <<entry, expense, invoice, matterLock>>
    BY <1>2 DEF SendLockInvoice, n
  <2> QED BY <2>1, <2>2, InvoiceTaken DEF Idle, Free, Lockless
<1>3. CASE PayRefuse(p) \/ SendRefuse(p)
  <2>1. /\ r.at \in {"pay:invoice", "send:invoice"} /\ FreeInvoice(r.inv) /\ Goto(p, Idle)
        /\ UNCHANGED <<entry, expense, invoice, matterLock>>
    BY <1>3 DEF PayRefuse, SendRefuse
  <2>2. r.inv \in Invoice
    BY <2>1 DEF LInv, IInv, RequestsOK, RequestOK, PayRequest, SendRequest
  <2>3. /\ \A j \in Invoice : InvHolder(r, j) => j = r.inv
        /\ \A m \in Matter : ~MatHolder(r, m)
    BY <2>1 DEF InvHolder, MatHolder, MintUnderway
  <2>4. InvDropped(p) /\ MatDropped(p)
    BY <2>1, <2>2, <2>3, Dropping
  <2>5. RowsMove
    BY <2>1 DEF RowsMove, WipEdit
  <2> QED BY <2>1, <2>4, <2>5, EndStepOK
<1> QED BY <1>1, <1>2, <1>3

\* With the invoice locked, the matter is locked for its trust money.
LEMMA MatterLockActions ==
  ASSUME LInv, NEW p \in Proc, PayLockMatter(p) \/ SendLockMatter(p)
  PROVE  StepOK(p)
<1> DEFINE r == req[p]  m == r.row.matter  bal == trustBalance[m]
<1>0. RequestOK(r) /\ Holds(p)
  BY DEF LInv, IInv, RequestsOK
<1>1. CASE PayLockMatter(p)
  <2> DEFINE n == [r EXCEPT !.at = "pay:commit", !.bal = bal]
  <2>1. /\ r \in PayRequest /\ r.at = "pay:invoice" /\ r.src = "trust"
        /\ Payable(r.row, r.amt) /\ r.inv \in Invoice /\ invoice[r.inv] = r.row
    BY <1>0, <1>1 DEF PayLockMatter, RequestOK, Holds, PaymentIsCurrent, PayRequest
  <2>2. m \in Matter
    BY <2>1 DEF Payable, LInv, IInv, RowsBegun
  <2>3. n.at = "pay:commit" /\ n.inv = r.inv /\ n.src = "trust" /\ n.row.matter = m
    BY <2>1 DEF PayRequest
  <2>4. Goto(p, n) /\ LockMatter(p, m) /\ UNCHANGED <<entry, expense, invoice, invoiceLock>>
    BY <1>1 DEF PayLockMatter
  <2> HIDE DEF n
  <2>5. /\ Knows(n) /\ MatHolder(n, m) /\ n.at # "line:locked"
        /\ \A j \in Matter : ~MatHolder(r, j)
        /\ \A i \in Invoice : InvHolder(r, i) => InvHolder(n, i)
    BY <2>1, <2>3 DEF Knows, MatHolder, InvHolder, MintUnderway
  <2> HIDE DEF m
  <2> QED BY <2>2, <2>4, <2>5, MatterTaken
<1>2. CASE SendLockMatter(p)
  <2> DEFINE amt == Applied(r, bal)
             n == [r EXCEPT !.at = "send:commit", !.bal = bal, !.amt = amt]
  <2>1. /\ r \in SendRequest /\ r.at = "send:invoice" /\ r.apply
        /\ Sendable(r.row) /\ r.inv \in Invoice /\ invoice[r.inv] = r.row
    BY <1>0, <1>2 DEF SendLockMatter, RequestOK, Holds, SendIsCurrent, SendRequest
  <2>2. m \in Matter
    BY <2>1 DEF Sendable, LInv, IInv, RowsBegun
  <2>3. Goto(p, n) /\ LockMatter(p, m) /\ UNCHANGED <<entry, expense, invoice, invoiceLock>>
    BY <1>2 DEF SendLockMatter
  <2> HIDE DEF amt
  <2>4. n.at = "send:commit" /\ n.inv = r.inv /\ n.apply /\ n.row.matter = m
    BY <2>1 DEF SendRequest
  <2> HIDE DEF n
  <2>5. /\ Knows(n) /\ MatHolder(n, m) /\ n.at # "line:locked"
        /\ \A j \in Matter : ~MatHolder(r, j)
        /\ \A i \in Invoice : InvHolder(r, i) => InvHolder(n, i)
    BY <2>1, <2>4 DEF Knows, MatHolder, InvHolder, MintUnderway
  <2> HIDE DEF m
  <2> QED BY <2>2, <2>3, <2>5, MatterTaken
<1> QED BY <1>1, <1>2

\* A payment moves an issued invoice on and drops both locks.
LEMMA PayCommitAction ==
  ASSUME LInv, NEW p \in Proc, PayCommit(p)
  PROVE  StepOK(p)
<1> DEFINE r == req[p]  i == r.inv  m == r.row.matter  paid == r.row.paid + r.amt
           status == IF paid >= r.row.total THEN "paid" ELSE "partial"
<1>1. /\ r \in PayRequest /\ r.at = "pay:commit" /\ i \in Invoice
      /\ invoice[i] = r.row /\ Payable(r.row, r.amt)
  BY DEF PayCommit, LInv, IInv, RequestsOK, RequestOK, Holds, PaymentIsCurrent, PayRequest
<1>2. m \in Matter /\ invoice[i].status \in {"sent", "partial"}
  BY <1>1 DEF Payable, LInv, IInv, RowsBegun
<1>3. /\ invoice' = [invoice EXCEPT ![i] = [@ EXCEPT !.paid = paid, !.status = status]]
      /\ IF r.src = "trust" THEN FreeMatter(m) ELSE UNCHANGED matterLock
      /\ FreeInvoice(i) /\ Goto(p, Idle) /\ UNCHANGED <<entry, expense>>
  BY DEF PayCommit
<1>4. status \in {"paid", "partial"}
  OBVIOUS
<1> HIDE DEF paid, status
<1>5. /\ invoice'[i].status = status /\ invoice'[i].matter = invoice[i].matter
      /\ invoice'[i].total = invoice[i].total
      /\ \A j \in Invoice \ {i} : invoice'[j] = invoice[j]
  BY <1>1, <1>3 DEF LInv, IInv, TypeOK, InvoiceRow
<1>6. StatusMove(i)
  <2> HIDE DEF i, r, m
  <2> QED BY <1>2, <1>3, <1>4, <1>5 DEF StatusMove, OthersStay, LiveStatuses
<1>7. /\ \A j \in Invoice : InvHolder(r, j) => j = i
      /\ \A n \in Matter : MatHolder(r, n) => n = m /\ r.src = "trust"
  BY <1>1 DEF InvHolder, MatHolder, MintUnderway
<1>8. InvDropped(p) /\ MatDropped(p)
  BY <1>1, <1>2, <1>3, <1>7, Dropping
<1>9. RowsMove
  <2> HIDE DEF i
  <2> QED BY <1>1, <1>6 DEF RowsMove
<1> QED BY <1>3, <1>8, <1>9, EndStepOK

\* A send moves an approved invoice on and drops its locks.
LEMMA SendCommitAction ==
  ASSUME LInv, NEW p \in Proc, SendCommit(p)
  PROVE  StepOK(p)
<1> DEFINE r == req[p]  i == r.inv  m == r.row.matter  paid == r.row.paid + r.amt
           status == IF paid >= r.row.total THEN "paid"
                     ELSE IF r.apply THEN "partial" ELSE "sent"
<1>1. /\ r \in SendRequest /\ r.at = "send:commit" /\ i \in Invoice
      /\ invoice[i] = r.row /\ Sendable(r.row)
  BY DEF SendCommit, LInv, IInv, RequestsOK, RequestOK, Holds, SendIsCurrent, SendRequest
<1>2. m \in Matter /\ invoice[i].status = "approved"
  BY <1>1 DEF Sendable, LInv, IInv, RowsBegun
<1>3. /\ invoice' = [invoice EXCEPT ![i] = [@ EXCEPT !.paid = paid, !.status = status]]
      /\ IF r.apply THEN FreeMatter(m) ELSE UNCHANGED matterLock
      /\ FreeInvoice(i) /\ Goto(p, Idle) /\ UNCHANGED <<entry, expense>>
  BY DEF SendCommit
<1>4. status \in {"paid", "partial", "sent"}
  OBVIOUS
<1> HIDE DEF paid, status
<1>5. /\ invoice'[i].status = status /\ invoice'[i].matter = invoice[i].matter
      /\ invoice'[i].total = invoice[i].total
      /\ \A j \in Invoice \ {i} : invoice'[j] = invoice[j]
  BY <1>1, <1>3 DEF LInv, IInv, TypeOK, InvoiceRow
<1>6. StatusMove(i)
  <2> HIDE DEF i, r, m
  <2> QED BY <1>2, <1>3, <1>4, <1>5 DEF StatusMove, OthersStay, LiveStatuses
<1>7. /\ \A j \in Invoice : InvHolder(r, j) => j = i
      /\ \A n \in Matter : MatHolder(r, n) => n = m /\ r.apply
  BY <1>1 DEF InvHolder, MatHolder, MintUnderway
<1>8. InvDropped(p) /\ MatDropped(p)
  BY <1>1, <1>2, <1>3, <1>7, Dropping
<1>9. RowsMove
  <2> HIDE DEF i
  <2> QED BY <1>1, <1>6 DEF RowsMove
<1> QED BY <1>3, <1>8, <1>9, EndStepOK

\* addTrustTransaction has its matter locked while it writes.
LEMMA TrustActions ==
  ASSUME LInv, NEW p \in Proc,
         \/ \E m \in Matter, delta \in (-MaxMoney .. MaxMoney) \ {0} : TrustLock(p, m, delta)
         \/ TrustCommit(p)
  PROVE  StepOK(p)
<1> DEFINE r == req[p]
<1>1. ASSUME NEW m \in Matter, NEW delta \in (-MaxMoney .. MaxMoney) \ {0},
             TrustLock(p, m, delta)
      PROVE  StepOK(p)
  <2> DEFINE n == [at |-> "trust:locked", matter |-> m, delta |-> delta,
                   bal |-> trustBalance[m]]
  <2>1. Knows(n) /\ MatHolder(n, m) /\ n.at # "line:locked"
    BY DEF Knows, MatHolder
  <2> HIDE DEF n
  <2>2. /\ \A j \in Matter : ~MatHolder(Idle, j)
        /\ \A i \in Invoice : ~InvHolder(Idle, i)
    BY DEF Idle, MatHolder, InvHolder, MintUnderway
  <2>3. req[p] = Idle /\ LockMatter(p, m) /\ Goto(p, n)
        /\ UNCHANGED <<entry, expense, invoice, invoiceLock>>
    BY <1>1 DEF TrustLock, n
  <2> QED BY <2>1, <2>2, <2>3, MatterTaken
<1>2. CASE TrustCommit(p)
  <2>1. /\ r.at = "trust:locked" /\ FreeMatter(r.matter) /\ Goto(p, Idle)
        /\ UNCHANGED <<entry, expense, invoice, invoiceLock>>
    BY <1>2 DEF TrustCommit
  <2>2. r.matter \in Matter
    BY <2>1 DEF LInv, IInv, RequestsOK, RequestOK, TrustRequest
  <2>3. /\ \A i \in Invoice : ~InvHolder(r, i)
        /\ \A n \in Matter : MatHolder(r, n) => n = r.matter
    BY <2>1 DEF InvHolder, MatHolder, MintUnderway
  <2>4. InvDropped(p) /\ MatDropped(p)
    BY <2>1, <2>2, <2>3, Dropping
  <2>5. RowsMove
    BY <2>1 DEF RowsMove, WipEdit
  <2> QED BY <2>1, <2>4, <2>5, EndStepOK
<1> QED BY <1>1, <1>2

\* A rollback drops the locks of its request and writes no row.
LEMMA AbortAction ==
  ASSUME LInv, NEW p \in Proc, Abort(p)
  PROVE  StepOK(p)
<1>1. Goto(p, Idle) /\ ReleaseLocks(p) /\ RowsMove
  BY DEF Abort, RowsMove, WipEdit
<1> QED BY <1>1, Dropping, EndStepOK

-----------------------------------------------------------------------------
(* Any step, and the theorems.                                             *)

\* The empty database satisfies the invariant.
LEMMA InitLines == Init => LInv
<1> SUFFICES ASSUME Init PROVE LInv
  OBVIOUS
<1>1. BilledIffLinked /\ InvoiceHasLines
  BY DEF Init, BilledIffLinked, InvoiceHasLines, LiveStatuses
<1>2. LocksOK
  BY BillingAssumption DEF Init, LocksOK
<1>3. \A p \in Proc : Knows(req[p]) /\ LineHeld(p)
  BY DEF Init, Idle, Knows, LineHeld
<1> QED BY <1>1, <1>2, <1>3, InitOK DEF LInv

\* A step that moves no request and no lock.
LEMMA QuietKeeps ==
  ASSUME LInv, WipEdit, UNCHANGED <<locks, req>>, IInv'
  PROVE  LInv' /\ FrozenStep /\ ShownStep
<1>1. LinesKept
  BY WipEditKeepsLines
<1>2. LocksOK'
  BY DEF LInv, LocksOK, locks
<1> QED BY <1>1, <1>2 DEF LInv, LinesKept

\* LInv is inductive, and its steps are those of the two action properties.
LEMMA NextKeepsLines == LInv /\ [Next]_vars => LInv' /\ FrozenStep /\ ShownStep
<1> SUFFICES ASSUME LInv, [Next]_vars PROVE LInv' /\ FrozenStep /\ ShownStep
  OBVIOUS
<1>0. IInv'
  BY NextKeeps DEF LInv
<1>1. CASE OneStatement
  BY <1>0, <1>1, StatementMoves, QuietKeeps
<1>2. ASSUME NEW p \in Proc, Begin(p) PROVE StepOK(p)
  BY <1>2, MintActions, EntryActions, LineEditActions, ApproveActions, DeleteActions,
     SetStatusActions, PayLockActions, TrustActions DEF Begin
<1>3. ASSUME NEW p \in Proc, Continue(p) PROVE StepOK(p)
  BY <1>3, MintActions, MintCommitAction, EntryActions, LineEditActions, ApproveActions,
     DeleteActions, SetStatusActions, PayLockActions, MatterLockActions, PayCommitAction,
     SendCommitAction, TrustActions DEF Continue
<1>4. CASE \E p \in Proc : Begin(p) \/ Continue(p) \/ Abort(p)
  BY <1>0, <1>2, <1>3, <1>4, AbortAction, StepKeeps
<1>5. CASE UNCHANGED vars
  <2>1. WipEdit /\ UNCHANGED <<locks, req>>
    BY <1>5 DEF vars, WipEdit
  <2> QED BY <1>0, <2>1, QuietKeeps
<1> QED BY <1>1, <1>4, <1>5 DEF Next

\* LInv holds in every reachable state.
THEOREM LinesInvariance == Spec => []LInv
<1>1. LInv /\ [Next]_vars => LInv'
  BY NextKeepsLines
<1> QED BY <1>1, InitLines, PTL DEF Spec

\* A time entry is always billed exactly when it is on an invoice, and every
\* line is on a live invoice of its own matter, however mints, edits, voids
\* and deletes race.
THEOREM LinesStayLinked == Spec => []BilledIffLinked
<1>1. LInv => BilledIffLinked
  BY DEF LInv
<1> QED BY <1>1, LinesInvariance, PTL

\* No draft or issued invoice ever loses its last line.
THEOREM InvoicesKeepLines == Spec => []InvoiceHasLines
<1>1. LInv => InvoiceHasLines
  BY DEF LInv
<1> QED BY <1>1, LinesInvariance, PTL

\* A request waits for an invoice with no lock in hand, and for a matter with
\* at most an invoice.
LEMMA WaitersHoldLittle ==
  ASSUME LInv
  PROVE  /\ \A p \in Proc, i, j \in Invoice : WaitsForInvoice(p, i) => invoiceLock[j] # p
         /\ \A p, q \in Proc, m \in Matter : matterLock[m] = p => ~WaitsFor(p, q)
<1>1. ASSUME NEW p \in Proc, NEW i \in Invoice, NEW j \in Invoice,
             WaitsForInvoice(p, i), invoiceLock[j] = p
      PROVE  FALSE
  BY <1>1 DEF LInv, LocksOK, InvHolder, WaitsForInvoice
<1>2. ASSUME NEW p \in Proc, NEW q \in Proc, NEW m \in Matter, matterLock[m] = p, WaitsFor(p, q)
      PROVE  FALSE
  <2>1. MatHolder(req[p], m)
    BY <1>2 DEF LInv, LocksOK
  <2> QED BY <1>2, <2>1
    DEF MatHolder, MintUnderway, WaitsFor, WaitsForInvoice, WaitsForMatter
<1> QED BY <1>1, <1>2

\* However many requests run, no set of them wait for one another's row locks:
\* who holds a matter waits for nothing, and who holds an invoice waits at most
\* for a matter.
THEOREM NeverDeadlocked == Spec => []NoDeadlock
<1>1. ASSUME LInv, NEW S \in SUBSET Proc, S # {},
             \A p \in S : \E q \in S : WaitsFor(p, q)
      PROVE  FALSE
  <2>1. \A p \in S, m \in Matter : matterLock[m] # p
    BY <1>1, WaitersHoldLittle
  <2>2. PICK p \in S, q \in S, i \in Invoice : WaitsForInvoice(p, i) /\ invoiceLock[i] = q
    BY <1>1, <2>1 DEF WaitsFor
  <2>3. PICK t \in S, j \in Invoice : WaitsForInvoice(q, j) /\ invoiceLock[j] = t
    BY <1>1, <2>1, <2>2 DEF WaitsFor
  <2> QED BY <2>2, <2>3, WaitersHoldLittle, <1>1
<1>2. LInv => NoDeadlock
  BY <1>1 DEF NoDeadlock
<1> QED BY <1>2, LinesInvariance, PTL

\* An invoice that left draft keeps its total, its lines and their amounts
\* until a void or delete takes all its lines.
THEOREM ApprovedStaysFrozen == Spec => FrozenOnceApproved
<1>1. LInv /\ [Next]_vars => FrozenStep
  BY NextKeepsLines
<1> QED BY <1>1, LinesInvariance, PTL DEF Spec, FrozenOnceApproved, FrozenStep

\* What is approved is what the approver was shown.
THEOREM ApprovedWasShown == Spec => ApprovedTotalWasShown
<1>1. LInv /\ [Next]_vars => ShownStep
  BY NextKeepsLines
<1> QED BY <1>1, LinesInvariance, PTL DEF Spec, ApprovedTotalWasShown, ShownStep
=============================================================================
