SPECIFICATION Spec
CONSTANTS
  Users = {u1, u2}
  Promos = {p1}
  Reqs = {r1, r2, r3}
  MaxUses = 1
  TrialLength = 1
  PromoLength = 1
  Month = 2
  Year = 3
  AdminLengths = {1}
  Expiries = {0, 2}
  MaxTime = 2
SYMMETRY Symmetry
INVARIANTS PromoCountIsBacked EntitlementEnds ChecksHold
PROPERTY DecisionsStand
CHECK_DEADLOCK FALSE
