SPECIFICATION FairSpec
CONSTANTS
  Reqs = {u1, u2, u3}
  Keys = {u1, u2, u3}
  NoKey = NoKey
INVARIANT SavedAsConfirmed
PROPERTIES NeverHandledTwice EveryUpdateAnswered
CHECK_DEADLOCK FALSE
