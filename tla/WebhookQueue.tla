------------------------------ MODULE WebhookQueue ------------------------------
(***************************************************************************)
(* The delivery machinery of internal/services/webhook (room_queue.go,     *)
(* webhook.go): emitters put the events of a room into the room's bounded  *)
(* queue and hand the queue to a single dispatcher through the bounded     *)
(* pending channel; the dispatcher takes one event of the queue and gives  *)
(* it to a delivery goroutine, of which at most maxConcurrentDelivers run; *)
(* the goroutine posts it to every URL and hands the queue on if there is  *)
(* more.  A ticker of the dispatcher reschedules queues that missed their  *)
(* turn and evicts queues that have been idle for roomIdleEvict.           *)
(*                                                                         *)
(* The atomic flag q.scheduled is the right to dispatch a queue: whoever   *)
(* sets it owns the queue until it is released.                            *)
(*                                                                         *)
(* Time is abstracted: an idle queue may be evicted at any tick.  A single *)
(* delivery may last 48 s (three POSTs of 15 s and two pauses), longer     *)
(* than roomIdleEvict, so an eviction may fall into a delivery.            *)
(***************************************************************************)
EXTENDS Naturals, FiniteSets, Sequences

CONSTANTS
  Rooms,        \* room identifiers
  Queues,       \* identities of *roomQueue values
  Emitters,     \* goroutines that emit events
  Deliverers,   \* the slots of deliverConcurrent (maxConcurrentDelivers)
  Urls,         \* Service.urls
  Nil,
  Worker,       \* the goroutine of runWorker
  QueueCap,     \* perRoomQueueCap
  PendingCap,   \* pendingWorkCap
  MaxAttempts,  \* maxAttempts of deliverURL
  MaxEmits      \* bound: calls of emit

ASSUME QueueAssumption ==
  /\ QueueCap \in Nat \ {0} /\ PendingCap \in Nat \ {0} /\ MaxAttempts \in Nat \ {0}
  /\ MaxEmits \in Nat
  /\ Nil \notin Queues \cup Rooms
  /\ Worker \notin Emitters \cup Deliverers
  /\ Emitters \cap Deliverers = {}

Procs == Emitters \cup Deliverers \cup {Worker}

VARIABLES
  rooms,      \* Service.rooms: room -> queue, or Nil
  qroom,      \* the room a queue was created for; Nil: not created
  ch,         \* roomQueue.ch: the numbers of the events in it
  closed,     \* roomQueue.closed
  scheduled,  \* roomQueue.scheduled
  idle,       \* roomQueue.emptySince is not zero
  pending,    \* Service.pending
  pc, pq,     \* place and queue of every process
  target,     \* emitters: the room of the event
  tries,      \* emitters: attempt of enqueue
  body,       \* dispatcher and deliveries: the event in hand (0: none)
  left,       \* deliveries: attempts left per URL
  todo,       \* dispatcher: rooms the running Range has not visited yet
  down,       \* Service.ctx was cancelled
  sent, done, \* per queue: events accepted by it, deliveries of it that ended
  emits       \* calls of emit so far

qVars == <<rooms, qroom, ch, closed, idle>>
histVars == <<sent, done, emits>>
vars == <<qVars, scheduled, pending, pc, pq, target, tries, body, left, todo, down,
          histVars>>

Places == {"idle", "get", "send",                        \* emitters
           "free", "post", "after",                      \* deliveries
           "select", "process", "acquire", "reschedule", \* dispatcher
           "evict", "delete", "exited",
           "check", "claim", "push"}                     \* maybeSchedule

Init ==
  /\ rooms = [r \in Rooms |-> Nil]
  /\ qroom = [q \in Queues |-> Nil]
  /\ ch = [q \in Queues |-> <<>>]
  /\ closed = [q \in Queues |-> FALSE]
  /\ scheduled = [q \in Queues |-> FALSE]
  /\ idle = [q \in Queues |-> FALSE]
  /\ pending = <<>>
  /\ pc = [p \in Procs |-> IF p \in Emitters THEN "idle"
                           ELSE IF p \in Deliverers THEN "free" ELSE "select"]
  /\ pq = [p \in Procs |-> Nil]
  /\ target = [e \in Emitters |-> Nil]
  /\ tries = [e \in Emitters |-> 0]
  /\ body = [p \in Procs |-> 0]
  /\ left = [d \in Deliverers |-> [u \in Urls |-> 0]]
  /\ todo = {}
  /\ down = FALSE
  /\ sent = [q \in Queues |-> 0]
  /\ done = [q \in Queues |-> 0]
  /\ emits = 0

GoTo(p, place, q) == /\ pc' = [pc EXCEPT ![p] = place]
                     /\ pq' = [pq EXCEPT ![p] = q]

\* Where a process goes on after maybeSchedule.
Home(p) == IF p \in Emitters THEN "idle"
           ELSE IF p \in Deliverers THEN "free" ELSE "reschedule"

--------------------------------------------------------------------------------
(* maybeSchedule, called by emitters, deliveries and the dispatcher.       *)

\* isClosed
ScheduleCheck(p) ==
  /\ pc[p] = "check"
  /\ IF closed[pq[p]] THEN GoTo(p, Home(p), Nil) ELSE GoTo(p, "claim", pq[p])
  /\ UNCHANGED <<qVars, scheduled, pending, target, tries, body, left, todo, down, histVars>>

\* Faulty: the flag is set without compare-and-swap.
ScheduleClaimBlindly(p) ==
  /\ pc[p] = "claim"
  /\ scheduled' = [scheduled EXCEPT ![pq[p]] = TRUE]
  /\ GoTo(p, "push", pq[p])
  /\ UNCHANGED <<qVars, pending, target, tries, body, left, todo, down, histVars>>

\* claimSchedule
ScheduleClaim(p) ==
  /\ pc[p] = "claim"
  /\ IF scheduled[pq[p]]
     THEN GoTo(p, Home(p), Nil) /\ UNCHANGED scheduled
     ELSE /\ scheduled' = [scheduled EXCEPT ![pq[p]] = TRUE]
          /\ GoTo(p, "push", pq[p])
  /\ UNCHANGED <<qVars, pending, target, tries, body, left, todo, down, histVars>>

\* The select: hand the queue over, or give the claim back when the channel is
\* full or the service stops.
SchedulePush(p) ==
  /\ pc[p] = "push"
  /\ \/ /\ Len(pending) < PendingCap
        /\ pending' = Append(pending, pq[p])
        /\ UNCHANGED scheduled
     \/ /\ Len(pending) >= PendingCap \/ down
        /\ scheduled' = [scheduled EXCEPT ![pq[p]] = FALSE]
        /\ UNCHANGED pending
  /\ GoTo(p, Home(p), Nil)
  /\ UNCHANGED <<qVars, target, tries, body, left, todo, down, histVars>>

MaybeSchedule(p) == ScheduleCheck(p) \/ ScheduleClaim(p) \/ SchedulePush(p)

--------------------------------------------------------------------------------
(* Emitters.                                                               *)

\* emit and the context check of enqueue.
Emit(e, r) ==
  /\ pc[e] = "idle" /\ emits < MaxEmits /\ ~down
  /\ emits' = emits + 1
  /\ target' = [target EXCEPT ![e] = r]
  /\ GoTo(e, "get", Nil)
  /\ UNCHANGED <<qVars, scheduled, pending, tries, body, left, todo, down, sent, done>>

\* getOrCreateQueue: LoadOrStore.
GetQueue(e) ==
  LET r == target[e] IN
  /\ pc[e] = "get"
  /\ \/ /\ rooms[r] # Nil
        /\ GoTo(e, "send", rooms[r])
        /\ UNCHANGED <<rooms, qroom>>
     \/ /\ rooms[r] = Nil
        /\ \E q \in Queues : /\ qroom[q] = Nil
                             /\ qroom' = [qroom EXCEPT ![q] = r]
                             /\ rooms' = [rooms EXCEPT ![r] = q]
                             /\ GoTo(e, "send", q)
  /\ UNCHANGED <<ch, closed, idle, scheduled, pending, target, tries, body, left, todo,
                 down, histVars>>

\* Faulty: trySend without the closed flag.
TrySendToClosed(e) ==
  LET q == pq[e] IN
  /\ pc[e] = "send"
  /\ IF Len(ch[q]) < QueueCap
     THEN /\ sent' = [sent EXCEPT ![q] = @ + 1]
          /\ ch' = [ch EXCEPT ![q] = Append(@, sent[q] + 1)]
          /\ idle' = [idle EXCEPT ![q] = FALSE]
          /\ GoTo(e, "check", q)
     ELSE GoTo(e, "idle", Nil) /\ UNCHANGED <<ch, idle, sent>>
  /\ target' = [target EXCEPT ![e] = Nil]
  /\ UNCHANGED <<tries, rooms, qroom, closed, scheduled, pending, body, left, todo, down,
                 done, emits>>

\* trySend under q.mu: retry once on a closed queue, drop on a full one.
TrySend(e) ==
  LET q == pq[e]
      Ends == /\ target' = [target EXCEPT ![e] = Nil]
              /\ tries' = [tries EXCEPT ![e] = 0]
  IN
  /\ pc[e] = "send"
  /\ \/ /\ closed[q] /\ tries[e] = 0
        /\ tries' = [tries EXCEPT ![e] = 1]
        /\ GoTo(e, "get", Nil)
        /\ UNCHANGED <<target, ch, idle, sent>>
     \/ /\ closed[q] /\ tries[e] = 1
        /\ Ends /\ GoTo(e, "idle", Nil)
        /\ UNCHANGED <<ch, idle, sent>>
     \/ /\ ~closed[q] /\ Len(ch[q]) < QueueCap
        /\ sent' = [sent EXCEPT ![q] = @ + 1]
        /\ ch' = [ch EXCEPT ![q] = Append(@, sent[q] + 1)]
        /\ idle' = [idle EXCEPT ![q] = FALSE]
        /\ Ends /\ GoTo(e, "check", q)
     \/ /\ ~closed[q] /\ Len(ch[q]) >= QueueCap
        /\ Ends /\ GoTo(e, "idle", Nil)
        /\ UNCHANGED <<ch, idle, sent>>
  /\ UNCHANGED <<rooms, qroom, closed, scheduled, pending, body, left, todo, down, done,
                 emits>>

--------------------------------------------------------------------------------
(* The dispatcher: runWorker, one case of its select after the other.      *)

WorkerRest == <<target, tries, left, down, histVars>>

\* case w := <-s.pending
Receive ==
  /\ pc[Worker] = "select"
  /\ pending # <<>>
  /\ pending' = Tail(pending)
  /\ GoTo(Worker, "process", Head(pending))
  /\ UNCHANGED <<qVars, scheduled, body, todo, WorkerRest>>

\* processRoomWork: take the next event, or give the queue back.
Process ==
  LET q == pq[Worker] IN
  /\ pc[Worker] = "process"
  /\ IF ~closed[q] /\ ch[q] # <<>>
     THEN /\ body' = [body EXCEPT ![Worker] = Head(ch[q])]
          /\ ch' = [ch EXCEPT ![q] = Tail(@)]
          /\ GoTo(Worker, "acquire", q)
          /\ UNCHANGED scheduled
     ELSE /\ scheduled' = [scheduled EXCEPT ![q] = FALSE]
          /\ GoTo(Worker, "select", Nil)
          /\ UNCHANGED <<body, ch>>
  /\ UNCHANGED <<rooms, qroom, closed, idle, pending, todo, WorkerRest>>

\* Faulty: the claim is released when the event is handed over.
StartDeliverReleasing(d) ==
  /\ pc[Worker] = "acquire" /\ pc[d] = "free"
  /\ pc' = [pc EXCEPT ![Worker] = "select", ![d] = "post"]
  /\ pq' = [pq EXCEPT ![Worker] = Nil, ![d] = pq[Worker]]
  /\ body' = [body EXCEPT ![Worker] = 0, ![d] = body[Worker]]
  /\ left' = [left EXCEPT ![d] = [u \in Urls |-> MaxAttempts]]
  /\ scheduled' = [scheduled EXCEPT ![pq[Worker]] = FALSE]
  /\ UNCHANGED <<qVars, pending, target, tries, todo, down, histVars>>

\* startDeliver: wait for a slot, then hand event and claim to a delivery.
StartDeliver(d) ==
  /\ pc[Worker] = "acquire" /\ pc[d] = "free"
  /\ pc' = [pc EXCEPT ![Worker] = "select", ![d] = "post"]
  /\ pq' = [pq EXCEPT ![Worker] = Nil, ![d] = pq[Worker]]
  /\ body' = [body EXCEPT ![Worker] = 0, ![d] = body[Worker]]
  /\ left' = [left EXCEPT ![d] = [u \in Urls |-> MaxAttempts]]
  /\ UNCHANGED <<qVars, scheduled, pending, target, tries, todo, down, histVars>>

\* startDeliver: the context ends while it waits; the event is lost.
AcquireFails ==
  /\ pc[Worker] = "acquire" /\ down
  /\ scheduled' = [scheduled EXCEPT ![pq[Worker]] = FALSE]
  /\ body' = [body EXCEPT ![Worker] = 0]
  /\ GoTo(Worker, "select", Nil)
  /\ UNCHANGED <<qVars, pending, todo, WorkerRest>>

\* case <-evictTick.C: rescheduleBackloggedRooms starts.
Tick ==
  /\ pc[Worker] = "select"
  /\ todo' = {r \in Rooms : rooms[r] # Nil}
  /\ GoTo(Worker, "reschedule", Nil)
  /\ UNCHANGED <<qVars, scheduled, pending, body, WorkerRest>>

\* Faulty: the tick only evicts.
RescheduleNothing(r) ==
  /\ pc[Worker] = "reschedule" /\ r \in todo
  /\ todo' = todo \ {r}
  /\ UNCHANGED <<pc, pq, qVars, scheduled, pending, body, WorkerRest>>

\* One step of its Range: the backlog test under q.mu.
Reschedule(r) ==
  /\ pc[Worker] = "reschedule" /\ r \in todo
  /\ todo' = todo \ {r}
  /\ IF rooms[r] # Nil /\ ~closed[rooms[r]] /\ ch[rooms[r]] # <<>>
     THEN GoTo(Worker, "check", rooms[r])
     ELSE UNCHANGED <<pc, pq>>
  /\ UNCHANGED <<qVars, scheduled, pending, body, WorkerRest>>

\* The Range ends; evictIdleRooms starts.
StartEviction ==
  /\ pc[Worker] = "reschedule" /\ todo = {}
  /\ todo' = {r \in Rooms : rooms[r] # Nil}
  /\ GoTo(Worker, "evict", Nil)
  /\ UNCHANGED <<qVars, scheduled, pending, body, WorkerRest>>

\* One step of its Range: close an idle queue under q.mu, or leave it.
Evict(r) ==
  LET q == rooms[r] IN
  /\ pc[Worker] = "evict" /\ r \in todo
  /\ todo' = todo \ {r}
  /\ \/ /\ q # Nil /\ ~closed[q] /\ ch[q] = <<>> /\ idle[q]
        /\ closed' = [closed EXCEPT ![q] = TRUE]
        /\ GoTo(Worker, "delete", q)
     \/ UNCHANGED <<pc, pq, closed>>
  /\ UNCHANGED <<rooms, qroom, ch, idle, scheduled, pending, body, WorkerRest>>

\* compareAndDeleteRoom
DeleteRoom ==
  LET q == pq[Worker] IN
  /\ pc[Worker] = "delete"
  /\ rooms' = [rooms EXCEPT ![qroom[q]] = IF @ = q THEN Nil ELSE @]
  /\ GoTo(Worker, "evict", Nil)
  /\ UNCHANGED <<qroom, ch, closed, idle, scheduled, pending, body, todo, WorkerRest>>

EndTick ==
  /\ pc[Worker] = "evict" /\ todo = {}
  /\ GoTo(Worker, "select", Nil)
  /\ UNCHANGED <<qVars, scheduled, pending, body, todo, WorkerRest>>

\* Faulty: break instead of return, which only leaves the select.
WorkerBreaks ==
  /\ pc[Worker] = "select" /\ down
  /\ GoTo(Worker, "select", Nil)
  /\ UNCHANGED <<qVars, scheduled, pending, body, todo, WorkerRest>>

\* case <-s.ctx.Done()
WorkerExits ==
  /\ pc[Worker] = "select" /\ down
  /\ GoTo(Worker, "exited", Nil)
  /\ UNCHANGED <<qVars, scheduled, pending, body, todo, WorkerRest>>

Dispatch == \/ Process \/ AcquireFails \/ StartEviction \/ DeleteRoom \/ EndTick
            \/ \E d \in Deliverers : StartDeliver(d)
            \/ \E r \in Rooms : Reschedule(r) \/ Evict(r)
            \/ MaybeSchedule(Worker)

--------------------------------------------------------------------------------
(* A delivery.                                                             *)

\* deliverURL: one POST succeeds, fails (and is retried), or the context is done.
Post(d, u) ==
  /\ pc[d] = "post" /\ left[d][u] > 0
  /\ \E n \in {0, left[d][u] - 1} : left' = [left EXCEPT ![d][u] = n]
  /\ UNCHANGED <<qVars, scheduled, pending, pc, pq, target, tries, body, todo, down,
                 histVars>>

\* deliver returns once every URL is done; the claim is released.
DeliverEnds(d) ==
  /\ pc[d] = "post" /\ \A u \in Urls : left[d][u] = 0
  /\ scheduled' = [scheduled EXCEPT ![pq[d]] = FALSE]
  /\ done' = [done EXCEPT ![pq[d]] = @ + 1]
  /\ body' = [body EXCEPT ![d] = 0]
  /\ GoTo(d, "after", pq[d])
  /\ UNCHANGED <<qVars, pending, target, tries, left, todo, down, sent, emits>>

\* The block under q.mu that looks for more and stamps emptySince.
DeliverAfter(d) ==
  LET q == pq[d] IN
  /\ pc[d] = "after"
  /\ IF ~closed[q] /\ ch[q] # <<>>
     THEN GoTo(d, "check", q) ELSE GoTo(d, "free", Nil)
  /\ idle' = [idle EXCEPT ![q] = IF ~closed[q] /\ ch[q] = <<>> THEN TRUE ELSE @]
  /\ UNCHANGED <<rooms, qroom, ch, closed, scheduled, pending, target, tries, body, left,
                 todo, down, histVars>>

Deliver(d) == \/ DeliverEnds(d) \/ DeliverAfter(d) \/ MaybeSchedule(d)
              \/ \E u \in Urls : Post(d, u)

--------------------------------------------------------------------------------
\* The stop hook cancels the context.
Stop == /\ ~down /\ down' = TRUE
        /\ UNCHANGED <<qVars, scheduled, pending, pc, pq, target, tries, body, left, todo,
                       histVars>>

EmitterSteps(e) == GetQueue(e) \/ TrySend(e) \/ MaybeSchedule(e)

Next == \/ \E e \in Emitters : EmitterSteps(e) \/ \E r \in Rooms : Emit(e, r)
        \/ \E d \in Deliverers : Deliver(d)
        \/ Receive \/ Tick \/ WorkerExits \/ Dispatch
        \/ Stop

Spec == Init /\ [][Next]_vars

(* Running goroutines run on, POSTs and pauses end (15 s timeout), and the  *)
(* select of runWorker picks at random among its ready cases, so a case    *)
(* that is ready again and again is picked.  The ticker keeps ticking.     *)
Fairness ==
  /\ \A e \in Emitters : WF_vars(EmitterSteps(e))
  /\ \A d \in Deliverers : WF_vars(Deliver(d))
  /\ WF_vars(Dispatch) /\ SF_vars(Receive) /\ SF_vars(Tick) /\ SF_vars(WorkerExits)

FairSpec == Spec /\ Fairness

--------------------------------------------------------------------------------
(* Properties.                                                             *)

\* Every variable has its type; a process that is not at home has a queue (an
\* emitter from trySend on), and a queue that was ever used belongs to a room.
TypeOK ==
  /\ rooms \in [Rooms -> Queues \cup {Nil}]
  /\ qroom \in [Queues -> Rooms \cup {Nil}]
  /\ ch \in [Queues -> Seq(1..MaxEmits)] /\ \A q \in Queues : Len(ch[q]) <= QueueCap
  /\ closed \in [Queues -> BOOLEAN] /\ scheduled \in [Queues -> BOOLEAN]
  /\ idle \in [Queues -> BOOLEAN]
  /\ pending \in Seq(Queues) /\ Len(pending) <= PendingCap
  /\ pc \in [Procs -> Places]
  /\ pq \in [Procs -> Queues \cup {Nil}]
  /\ \A p \in Procs : pq[p] = Nil <=> pc[p] \in {"idle", "get", "free", "select",
                                              "reschedule", "evict", "exited"}
  /\ target \in [Emitters -> Rooms \cup {Nil}] /\ tries \in [Emitters -> 0..1]
  /\ body \in [Procs -> 0..MaxEmits]
  /\ left \in [Deliverers -> [Urls -> 0..MaxAttempts]]
  /\ todo \in SUBSET Rooms /\ down \in BOOLEAN
  /\ sent \in [Queues -> 0..MaxEmits] /\ done \in [Queues -> 0..MaxEmits]
  /\ emits \in 0..MaxEmits

\* The processes that hold the claim of a queue.
Holders(q) == {p \in Procs : pq[p] = q /\ pc[p] \in {"push", "process", "acquire", "post"}}
Entries(q) == {i \in 1..Len(pending) : pending[i] = q}

\* The scheduled flag is a mutual exclusion: a queue whose flag is set has exactly
\* one owner (an entry of the pending channel, the dispatcher, a delivery, or the
\* caller about to push it), a queue whose flag is clear has none.  Nobody
\* releases a claim it does not hold.
ClaimExclusive ==
  \A q \in Queues :
    Cardinality(Holders(q)) + Cardinality(Entries(q)) = IF scheduled[q] THEN 1 ELSE 0

\* The event of a queue that was taken out and is not delivered yet.
InHand(q) ==
  LET busy == {p \in Procs : pq[p] = q /\ pc[p] \in {"acquire", "post"}}
  IN IF busy = {} THEN <<>> ELSE <<body[CHOOSE p \in busy : TRUE]>>

\* The events a queue accepted are delivered in the order they were accepted, none
\* lost, none twice: what is in hand and in the channel is what was accepted and
\* is not delivered.  (An event in hand when the service stops may be lost.)
QueueInOrder ==
  down \/ \A q \in Queues :
    InHand(q) \o ch[q] = [i \in 1..(sent[q] - done[q]) |-> done[q] + i]

\* Eviction never throws events away: a closed queue holds none, its deliveries'
\* successors go to another queue, and it leaves the map at once.
EvictionIsClean ==
  \A q \in Queues : closed[q] =>
    /\ ch[q] = <<>>
    /\ \A r \in Rooms : rooms[r] = q => pc[Worker] = "delete" /\ pq[Worker] = q

\* Every accepted event is delivered (or given up after maxAttempts), however many
\* wake-ups are missed: the ticker rescues a queue nobody owns.
EventuallyDelivered ==
  \A q \in Queues : \A n \in 1..MaxEmits : sent[q] >= n ~> done[q] >= n \/ down

\* The stop hook's workerWg.Wait returns: the dispatcher and all deliveries end.
StopDrains == down ~> /\ pc[Worker] = "exited"
                      /\ \A d \in Deliverers : pc[d] = "free"

(* What RoomQueues promises of a queue: the events waiting in it are the one in hand
   and those in the channel, and a closed queue is retired.  *)
RoomQ == INSTANCE RoomQueues WITH
  Capacity <- QueueCap, room <- qroom, waiting <- [q \in Queues |-> InHand(q) \o ch[q]],
  accepted <- sent, delivered <- done, retired <- {q \in Queues : closed[q]}, stopped <- down

\* The goroutines implement the promise: a room gets its next queue only after the
\* one before was closed, a queue is closed with one event under way at most, accepts
\* nothing from then on (the closed flag of trySend), and gives its events back in
\* order, one after the other.
ImplementsRoomQueues == RoomQ!Spec

(* A property the repository states and the code does not have.            *)

\* TestSameRoomEventsDeliveredInOrder: events of one room are not delivered side
\* by side.
RoomInOrder ==
  \A c, d \in Deliverers :
    /\ c # d /\ pc[c] = "post" /\ pc[d] = "post"
    => qroom[pq[c]] # qroom[pq[d]]
================================================================================
