SPECIFICATION Spec
CONSTANTS
  N = 3
  Users = {t1}
  NoUser = NoUser
  Reqs = {r1, r2, r3, r4}
SYMMETRY RequestSymmetry
INVARIANT PayoutsInOrder
PROPERTIES ImplementsRotation SerialRunsInOrder
CHECK_DEADLOCK FALSE
