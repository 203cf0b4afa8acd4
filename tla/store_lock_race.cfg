\* A killed process leaves its lock; two others, neither of which stalls, wait for it.
SPECIFICATION Spec
CONSTANTS
  p1 = p1
  p2 = p2
  p3 = p3
  Proc <- MCProc
  MaxTries = 2
  MaxCrashes = 1
  MaxCuts = 0
  CanStall = FALSE
INVARIANTS NoLostWrite
