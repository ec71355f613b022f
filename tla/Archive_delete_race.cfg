SPECIFICATION Spec
CONSTANTS
  PageSize = 1
  StopBoundary = 1
  RefreshPages = 2
  CrawlPages = 3
  MaxEpisode = 3
  MaxDisturbances = 2
  ListingMayVanish = FALSE
  AdminRacesCrawl = TRUE
  WithdrawsPastOverlap = FALSE
INVARIANTS
  CompleteMeansCrawled
CHECK_DEADLOCK FALSE
