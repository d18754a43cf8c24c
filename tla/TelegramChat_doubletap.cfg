SPECIFICATION Spec
CONSTANTS
  Reqs = {u1, u2, u3}
  Keys = {u1, u2, u3}
  NoKey = NoKey
SYMMETRY UpdateSymmetry
INVARIANT OneRecordPerConfirm
CHECK_DEADLOCK FALSE
