SPECIFICATION Spec
CONSTANTS
  Feeds = {f1, f2}
  NoFeed = NoFeed
  LastPage = 2
  PagesPerRun = 3
  MaxTrouble = 2
  RecrawlRaces = TRUE
INVARIANTS
  CompleteMeansEveryPage
CHECK_DEADLOCK FALSE
