CONSTANTS
  Rooms = {r1, r2}
  Infos = {s1, s2, s3}
  Callers = {c1, c2}
  Workers = {w1, w2}
  Nil = Nil
  MaxConcurrent = 1
  MaxAttempts = 1
  RetryWindow = 1
SPECIFICATION Spec
SYMMETRY Symmetry
INVARIANTS ReservationExclusive PublishedIsLive OneOwner AnnouncedOnce
PROPERTIES ImplementsRoomSlots
CHECK_DEADLOCK FALSE
