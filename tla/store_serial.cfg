\* Three commands, no process dies or stalls; disk errors may happen.
SPECIFICATION Spec
CONSTANTS
  p1 = p1
  p2 = p2
  p3 = p3
  Proc <- MCProc
  MaxTries = 2
  MaxCrashes = 0
  MaxCuts = 0
  CanStall = FALSE
INVARIANTS MutualExclusion NoLostWrite DocFollowsState
PROPERTIES ImplementsAtomicStore
