CONSTANTS
  Paths = {p1}
  Requests = {q1}
  NoPath = NoPath
  DeleteFlags = {TRUE}
  Permits = {TRUE, FALSE}
  Concurrency = 1
  MaxTasks = 2
  MaxRestarts = 1
SPECIFICATION Spec
INVARIANTS SourceKept
PROPERTIES NoTaskLost
SYMMETRY Symmetry
CHECK_DEADLOCK FALSE
