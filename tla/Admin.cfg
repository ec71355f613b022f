SPECIFICATION Spec
CONSTANTS
  Clients = {c1, c2}
  Requests = {q1, q2}
  ClientCapacity = 1
  ClientRefill = 1
  GlobalCapacity = 2
  GlobalRefill = 1
  MaxBuckets = 1
  BucketIdle = 0
  SweepEvery = 1
  MaxTime = 1
  PasskeyOnly = TRUE
  SessionTTL = 1
  CeremonyTTL = 1
  MaxCeremonies = 1
  MaxPasskeys = 1
  MaxIds = 2
  MaxTrouble = 2
SYMMETRY Symmetry
INVARIANTS
  TypeOK
  TotalBounded
  OnlyFailuresCount
  SessionsFollowToken
CHECK_DEADLOCK FALSE
