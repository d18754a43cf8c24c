SPECIFICATION Spec
CONSTANTS
  Debts = {d1}
  Reqs = {r1, r2, r3}
  Amounts = {1, 2, 3}
  Serial = {}
INVARIANTS BalanceIsExact
CHECK_DEADLOCK FALSE
