\* A fix of the code never fits one bounded correction.
SPECIFICATION FairSpec
CONSTANTS
  trust = trust
  f = f
  None = None
  Lens <- OneLens
  Finding <- OneFinding
  LensOf <- Owner
  Slice <- OneSlice
  SliceOf <- Manifest
  Limit = 1
  MaxFailed = 3
  MaxContent = 2
  Clean = {2}
  Fits <- NoneFits
  MaxReviews = 2
  MaxRestores = 0
CHECK_DEADLOCK FALSE
PROPERTIES WayOn
