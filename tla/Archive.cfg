SPECIFICATION FairSpec
CONSTANTS
  PageSize = 2
  StopBoundary = 1
  RefreshPages = 2
  CrawlPages = 2
  MaxEpisode = 5
  MaxDisturbances = 1
  ListingMayVanish = TRUE
  AdminRacesCrawl = TRUE
  WithdrawsPastOverlap = TRUE
INVARIANTS
  TypeOK
  NoOrphanEpisodes
  GapsAreAhead
PROPERTIES
  ArchiveFills
CHECK_DEADLOCK FALSE
