CONSTANTS
  Rooms = {r1, r2}
  Queues = {q1, q2}
  Emitters = {e1, e2}
  Deliverers = {d1}
  Urls = {u1}
  Nil = Nil
  Worker = Worker
  QueueCap = 1
  PendingCap = 1
  MaxAttempts = 1
  MaxEmits = 2
SPECIFICATION FairSpec
INVARIANTS QueueInOrder
PROPERTIES EventuallyDelivered ImplementsRoomQueues
CHECK_DEADLOCK FALSE
