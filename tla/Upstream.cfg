SPECIFICATION FairSpec
CONSTANTS
  Callers = {c1, c2, c3, c4, c5}
  MaxConcurrent = 2
  MaxQueued = 2
  MaxPauses = 2
INVARIANTS
  TypeOK
  QueueIsSound
  PauseHoldsRequestsBack
PROPERTIES
  ImplementsSemaphore
  RequestsEnd
CHECK_DEADLOCK FALSE
