CONSTANTS
  Rooms = {r1}
  Infos = {s1, s2}
  Callers = {c1}
  Workers = {w1, w2}
  Nil = Nil
  MaxConcurrent = 1
  MaxAttempts = 2
  RetryWindow = 1
SPECIFICATION FairSpec
PROPERTIES RecoveryEnds ShutdownDrains
CHECK_DEADLOCK FALSE
