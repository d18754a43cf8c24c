SPECIFICATION Spec
CONSTANTS
  Debts = {d1, d2}
  Serial = {d2}
  Reqs = {r1, r2, r3, r4, r5}
  Amounts = {1, 2}
SYMMETRY RequestSymmetry
INVARIANTS StatusMatchesBalance WritesAreBacked
PROPERTIES BalanceHistory ImplementsLedger
CHECK_DEADLOCK FALSE
