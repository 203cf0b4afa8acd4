\* A chain of lineages may stop: it ends, or waits for a new discovery.
SPECIFICATION Spec
CHECK_DEADLOCK FALSE
CONSTANTS
  f = f
  p1 = p1
  a = a
  o = o
  Finding <- OneFinding
  Path <- Paths
  AllowedOf <- Scopes
  Recipe = {1, 2}
  FindingOf <- Owners
  Needs <- Needing
  Inherited <- NoneLeft
  Proc = {p1}
  MaxTroubles = 2
  MaxGen = 2
INVARIANTS Reconcilable
