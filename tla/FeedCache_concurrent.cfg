SPECIFICATION Spec
CONSTANTS
  Requests = {r1, r2}
  Origins = {o1}
  MaxCommits = 2
  MaxSecond = 1
  MaxDate = 2
SYMMETRY Symmetry
INVARIANTS
  TypeOK
  NewestIsFresh
PROPERTIES
  PollsNeverGoBack
  LastModifiedMoves
CHECK_DEADLOCK FALSE
