SPECIFICATION Spec
CONSTANTS
  p1 = p1
  p2 = p2
  m1 = m1
  i1 = i1
  i2 = i2
  x1 = x1
  x2 = x2
  None = None
  Proc = {p1, p2}
  Matter = {m1}
  Invoice = {i1, i2}
  Entry = {}
  Expense = {x1, x2}
  MatterOfEntry <- MCMatterOfEntry
  MatterOfExpense <- MCMatterOfExpense
  MaxMoney = 3
  Hours = {1}
  Rates = {1}
  ExpenseAmounts = {1, 2}
  PostedStatuses = {"draft"}
  NumberAttempts = 2
  Ops <- MCOps
SYMMETRY MCSymmetry
INVARIANTS TypeOK TrustBalanceIsLedger PaidIsSumOfPayments StatusTellsPayments SnapshotsAreCurrent NoDeadlock
PROPERTIES RefinesReceivables
