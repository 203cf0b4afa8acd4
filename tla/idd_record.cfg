\* One process, and everything that is declared and answered for a feature.
SPECIFICATION Spec
CONSTANTS
  p1 = p1
  p2 = p2
  noConfig = noConfig
  unnamed = unnamed
  op1 = op1
  r1 = r1
  r2 = r2
  h1 = h1
  MaxTree = 1
  Config <- BaseOnly
  NoConfig = noConfig
  BaseConfig <- Base
  Op = {op1}
  Unnamed = unnamed
  Ref = {r1, r2}
  FitRef = {r2}
  Hit <- Nothing
  Diff <- RecordDiff
  OtherDiffs <- NoOtherDiffs
  Passing <- RecordPassing
  TestPassing = {1}
  FitPassing <- RecordFitPassing
  Detects = {1}
  Proc <- OneProc
  Kinds = {"feature"}
  Declarations <- RecordDeclarations
  UserGates = {"irreversible-operation", "adr-amend-or-contradict"}
  HandEdits = TRUE
INVARIANTS ImpactsAnswered
