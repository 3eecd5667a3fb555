CONSTANTS
  Rooms = {r1}
  Infos = {s1, s2}
  Callers = {c1}
  Workers = {w1, w2}
  Nil = Nil
  MaxConcurrent = 1
  MaxAttempts = 1
  RetryWindow = 1
SPECIFICATION Spec
SYMMETRY Symmetry
PROPERTIES GiveUpStopsItsOwn
CHECK_DEADLOCK FALSE
