\* One change interrupted once, then rolled back.
SPECIFICATION Spec
CONSTANTS
  a = a
  b = b
  specA = specA
  specB = specB
  Change <- One
  Domain <- OneDomain
  Writes <- WritesOne
  Existing = {specA}
  Passing = {1, 2}
  Old = Old
  None = None
  Torn = Torn
  MayEdit = FALSE
  MayReuse = FALSE
  MaxEdition = 2
  MaxFaults = 0
  MaxCrashes = 1
INVARIANTS RollbackRestores
