SPECIFICATION Spec
CONSTANTS
  PageSize = 1
  StopBoundary = 1
  RefreshPages = 2
  CrawlPages = 2
  MaxEpisode = 4
  MaxDisturbances = 2
  ListingMayVanish = TRUE
  AdminRacesCrawl = FALSE
  WithdrawsPastOverlap = FALSE
INVARIANTS
  CompleteMeansCrawled
CHECK_DEADLOCK FALSE
