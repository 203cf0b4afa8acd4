\* The name of an archived change is used again; nothing fails.
SPECIFICATION FairSpec
CONSTANTS
  a = a
  b = b
  specA = specA
  specB = specB
  Change <- One
  Domain <- OneDomain
  Writes <- WritesOne
  Existing = {specA}
  Passing = {1, 2}
  Old = Old
  None = None
  Torn = Torn
  MayEdit = FALSE
  MayReuse = TRUE
  MaxEdition = 2
  MaxFaults = 0
  MaxCrashes = 0
PROPERTIES DeletesOnlyArchived
