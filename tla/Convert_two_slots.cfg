CONSTANTS
  Paths = {p1}
  Requests = {q1}
  NoPath = NoPath
  DeleteFlags = {TRUE}
  Permits = {TRUE, FALSE}
  Concurrency = 2
  MaxTasks = 2
  MaxRestarts = 1
SPECIFICATION Spec
INVARIANTS NothingLost
SYMMETRY Symmetry
CHECK_DEADLOCK FALSE
