SPECIFICATION Spec
CONSTANTS
  p1 = p1
  p2 = p2
  m1 = m1
  m2 = m2
  i1 = i1
  i2 = i2
  e1 = e1
  x1 = x1
  None = None
  Proc = {p1, p2}
  Matter = {m1, m2}
  Invoice = {i1, i2}
  Entry = {e1}
  Expense = {x1}
  MatterOfEntry <- MCMatterOfEntry
  MatterOfExpense <- MCMatterOfExpense
  MaxMoney = 2
  Hours = {1}
  Rates = {1, 2}
  ExpenseAmounts = {1}
  PostedStatuses = {"written_off"}
  NumberAttempts = 2
  Ops <- MCOps
SYMMETRY MCSymmetry
INVARIANTS BilledIffLinked InvoiceHasLines
PROPERTIES FrozenOnceApproved ApprovedTotalWasShown
CHECK_DEADLOCK FALSE
