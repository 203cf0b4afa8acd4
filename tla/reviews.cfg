\* A review of two lenses with a finding each, two outcomes of which are lost; a
\* trust review of three contents; two sessions and one gate; and a lineage with
\* two recipes, two runners and two troubles.
SPECIFICATION WorldSpec
CONSTANTS
  trust = trust
  runtime = runtime
  f = f
  g = g
  h = h
  s1 = s1
  s2 = s2
  g1 = g1
  p1 = p1
  p2 = p2
  a = a
  o = o
  None = None
  Lens <- TwoLenses
  Finding <- Pair
  LensOf <- PairOwners
  Slice <- TwoSlices
  SliceOf <- PairManifest
  Limit = 2
  MaxFailed = 3
  Schemas = {2, 3}
  UpgradeIn = {"reviewing"}
  MaxUnknown = 2
INVARIANTS
  AllTyped ApprovedResolved SlicesTellFindings CorrectionBounded
  SatisfiedByApproval FenceSound RunOnce VerifiedByRuns ScopeKept
PROPERTIES
  ReviewedOnce SlicesIndependent QualityEnds
   WayOn LineageEnds
