------------------------------ MODULE RoomQueues ------------------------------
(***************************************************************************)
(* What the webhook service promises about the events of a room, with none *)
(* of its goroutines: a room has one queue after the other, each of which  *)
(* is opened only when the one before was retired.  A queue gives its      *)
(* events back in the order in which it accepted them.  A queue that was   *)
(* retired (evicted as idle) accepts nothing more and owes one event at    *)
(* most, which is under way.  Only when the service stops may an event     *)
(* leave without being delivered.                                          *)
(***************************************************************************)
EXTENDS Naturals, Sequences

CONSTANTS Rooms,    \* room identifiers
          Queues,   \* identities of queues
          Nil,
          Capacity  \* events a queue holds, besides the one under way

VARIABLES room,      \* queue -> the room it was opened for, or Nil
          waiting,   \* queue -> the events accepted and neither delivered nor lost
          accepted,  \* queue -> how many events it has accepted
          delivered, \* queue -> how many events were delivered
          retired,   \* the queues that accept nothing more
          stopped    \* the service was stopped

vars == <<room, waiting, accepted, delivered, retired, stopped>>

Init == /\ room = [q \in Queues |-> Nil]
        /\ waiting = [q \in Queues |-> <<>>]
        /\ accepted = [q \in Queues |-> 0]
        /\ delivered = [q \in Queues |-> 0]
        /\ retired = {} /\ stopped = FALSE

Open(q, r) == /\ room[q] = Nil
              /\ \A o \in Queues : room[o] = r => o \in retired
              /\ room' = [room EXCEPT ![q] = r]
              /\ UNCHANGED <<waiting, accepted, delivered, retired, stopped>>

\* Events are numbered in the order in which the queue accepts them.
Accept(q) == /\ room[q] # Nil /\ q \notin retired
             /\ Len(waiting[q]) <= Capacity
             /\ accepted' = [accepted EXCEPT ![q] = @ + 1]
             /\ waiting' = [waiting EXCEPT ![q] = Append(@, accepted[q] + 1)]
             /\ UNCHANGED <<room, delivered, retired, stopped>>

\* The oldest event leaves.
Leaves(q) == /\ waiting[q] # <<>>
             /\ waiting' = [waiting EXCEPT ![q] = Tail(@)]
             /\ UNCHANGED <<room, accepted, retired, stopped>>

Deliver(q) == Leaves(q) /\ delivered' = [delivered EXCEPT ![q] = @ + 1]

Lose(q) == Leaves(q) /\ stopped /\ UNCHANGED delivered

Retire(q) == /\ room[q] # Nil /\ q \notin retired /\ Len(waiting[q]) <= 1
             /\ retired' = retired \cup {q}
             /\ UNCHANGED <<room, waiting, accepted, delivered, stopped>>

Stop == /\ ~stopped /\ stopped' = TRUE
        /\ UNCHANGED <<room, waiting, accepted, delivered, retired>>

QueueSteps(q) == \/ Accept(q) \/ Deliver(q) \/ Lose(q) \/ Retire(q)
                 \/ \E r \in Rooms : Open(q, r)

Next == Stop \/ \E q \in Queues : QueueSteps(q)

Spec == Init /\ [][Next]_vars
===============================================================================
