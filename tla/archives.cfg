\* A change archived alone through two crashes, one failed call and one edit;
\* two changes archived together through one crash; one close through three.
SPECIFICATION WorldSpec
CONSTANTS
  a = a
  b = b
  specA = specA
  specB = specB
  Change <- Two
  Domain <- Domains
  Writes <- WritesTwo
  Existing = {specA}
  Passing = {1, 2}
  Old = Old
  None = None
  Torn = Torn
  MayEdit = TRUE
  MayReuse = TRUE
  MaxEdition = 2
  MaxFaults = 1
  MaxCrashes = 2
INVARIANTS
  OriginSafe CommittedComplete ReceiptTrue RestoresFailedCommit
  NothingLost 
PROPERTIES NothingBeforeMatch FollowsReducer ArchivesEnd ClosesInTheEnd
