SPECIFICATION TxSpec
CONSTANTS
  Reqs = {q1, q2, q3}
  Keys = {k1, k2}
  NoKey = NoKey
SYMMETRY RequestSymmetry
INVARIANTS KeyedAnswers FailsOnlyAfterDelete OneLiveRowPerKey
CHECK_DEADLOCK FALSE
