SPECIFICATION Spec
CONSTANTS
  Feeds = {f1, f2}
  Apps = {a1}
  Handlers = {h1}
  CleanupAfter = 1
  HistoryDays = 1
  MaxTime = 2
  MaxRequests = 2
  MaxTrouble = 2
  MaxSubscribers = 1
  HandlersOutliveGrace = FALSE
SYMMETRY Symmetry
INVARIANTS
  TypeOK
  CountsAddUp
  SubscribersKept
  CloseLosesNothing
  TodayNeverOvercounts
PROPERTIES
  CleanupSparesTheUsed
CHECK_DEADLOCK FALSE
