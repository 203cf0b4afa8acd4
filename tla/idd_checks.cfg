\* Checks, runs and closes of two processes raced by edits of the tree and of
\* the configuration, for a document, a feature and a bug.
SPECIFICATION Spec
CONSTANTS
  p1 = p1
  p2 = p2
  noConfig = noConfig
  unnamed = unnamed
  op1 = op1
  r1 = r1
  r2 = r2
  h1 = h1
  MaxTree = 3
  Config <- BaseAndEdited
  NoConfig = noConfig
  BaseConfig <- Base
  Op <- Nothing
  Unnamed = unnamed
  Ref <- Nothing
  FitRef <- Nothing
  Hit = {h1}
  Diff <- CheckedDiff
  OtherDiffs <- CheckedOtherDiffs
  Passing <- CheckedPassing
  TestPassing = {0, 2, 3}
  FitPassing <- NoFitness
  Detects = {2, 3}
  Proc <- TwoProcs
  Kinds = {"docs", "feature", "bug"}
  Declarations <- NoDeclarations
  UserGates = {"open-facts"}
  HandEdits = FALSE
CONSTRAINT Apart
SYMMETRY ProcSymmetry
INVARIANTS TypeOK EvidenceTrue NoSignalGaps RunsOnlyApproved
PROPERTIES ClosesJustified DecisionsStand
