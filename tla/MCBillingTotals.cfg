SPECIFICATION Spec
CONSTANTS
  p1 = p1
  p2 = p2
  m1 = m1
  i1 = i1
  e1 = e1
  x1 = x1
  None = None
  Proc = {p1, p2}
  Matter = {m1}
  Invoice = {i1}
  Entry = {e1}
  Expense = {x1}
  MatterOfEntry <- MCMatterOfEntry
  MatterOfExpense <- MCMatterOfExpense
  MaxMoney = 2
  Hours = {1, 2}
  Rates = {1}
  ExpenseAmounts = {1, 2}
  PostedStatuses = {"draft"}
  NumberAttempts = 2
  Ops <- MCMintOps
INVARIANTS TotalIsSumOfLines
CHECK_DEADLOCK FALSE
