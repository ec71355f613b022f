SPECIFICATION Spec
CONSTANTS
  Requests = {r1, r2}
  Origins = {o1}
  MaxCommits = 2
  MaxSecond = 1
  MaxDate = 2
PROPERTIES
  ChangesMoveLastModified
CHECK_DEADLOCK FALSE
