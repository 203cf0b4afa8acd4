SPECIFICATION Spec
CONSTANTS
  p1 = p1
  p2 = p2
  noConfig = noConfig
  unnamed = unnamed
  h1 = h1
  r2 = r2
  op1 = op1
  r1 = r1
  MaxTree = 0
  Config <- BaseOnly
  NoConfig = noConfig
  BaseConfig <- Base
  Op <- Nothing
  Unnamed = unnamed
  Ref = {r1}
  FitRef = {r1}
  Hit <- Nothing
  Diff <- FitnessDiff
  OtherDiffs <- NoOtherDiffs
  Passing <- FitnessPassing
  TestPassing = {0}
  FitPassing <- FitnessFails
  Detects = {0}
  Proc <- TwoProcs
  Kinds = {"refactor"}
  Declarations <- FitnessDeclarations
  UserGates <- Nothing
  HandEdits = FALSE
INVARIANTS FitnessCovered
