\* Two commands that may stall; one may be killed and the power may go once.
SPECIFICATION FairSpec
CONSTANTS
  p1 = p1
  p2 = p2
  p3 = p3
  Proc <- MCPair
  MaxTries = 2
  MaxCrashes = 1
  MaxCuts = 1
  CanStall = TRUE
INVARIANTS TypeOK
PROPERTIES CutKeepsOneWrite EveryCommandEnds
