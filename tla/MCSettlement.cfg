SPECIFICATION Spec
CONSTANTS
  Process = {p1, p2}
  Step = {s1, s2}
  Amounts = {1, 2}
  Lien = {l1}
  LienAmounts = {1, 2}
  p1 = p1
  p2 = p2
  s1 = s1
  s2 = s2
  l1 = l1
SYMMETRY Symmetric
INVARIANTS TypeOK ApprovedMeansSigned AmountsAreVouched CompleteChainIsPromoted
PROPERTIES FrozenOncePaid
