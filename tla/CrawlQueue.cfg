SPECIFICATION FairSpec
CONSTANTS
  Feeds = {f1, f2}
  NoFeed = NoFeed
  LastPage = 2
  PagesPerRun = 2
  MaxTrouble = 2
  RecrawlRaces = FALSE
INVARIANTS
  TypeOK
  OneCrawlAtATime
  QueuedIsServed
  CompleteMeansEveryPage
PROPERTIES
  RequestedFeedCompletes
  CloseFinishes
  ImplementsCrawlLine
CHECK_DEADLOCK FALSE
