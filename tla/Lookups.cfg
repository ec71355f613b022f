SPECIFICATION FairSpec
CONSTANTS
  Requests = {r1, r2}
  BaseDelay = 2
  MaxDelay = 3
  MaxAttempts = 2
  ChaptersTTL = 1
  CatalogTTL = 1
  Pages = 2
  MaxTrouble = 1
INVARIANTS
  TypeOK
PROPERTIES
  StaleOnlyWhenFailing
  Answered
  CatalogRecovers
  ImplementsSharedLookup
