SPECIFICATION Spec
CONSTANTS
  Users = {u1, u2, u3}
  Groups = {g1, g2}
  Reqs = {q1, q2, q3, q4}
  Nobody = Nobody
  GroupLimit = 1
  MemberLimit = 2
  MaxFlight = 2
  Amounts = {1, 2}
  Times = {1}
  Window = 1
  Details = 2
  Overview = 1
SYMMETRY Symmetry
INVARIANTS RowsFit TotalsAgree ChatExpenseLandsOnce
PROPERTIES SavingsLimitsKept BudgetChecksHold
