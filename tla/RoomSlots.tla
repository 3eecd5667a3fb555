------------------------------- MODULE RoomSlots -------------------------------
(***************************************************************************)
(* What the recorder promises about capacity, with none of its machinery:  *)
(* a room holds a slot from the moment a start is admitted for it until    *)
(* neither an attempt nor a session of it is left, and no more than        *)
(* MaxConcurrent rooms hold one at the same time                           *)
(* (MAX_CONCURRENT_RECORDINGS).                                            *)
(***************************************************************************)
EXTENDS Naturals, FiniteSets

CONSTANTS Rooms,           \* room identifiers
          MaxConcurrent    \* cfg.MaxConcurrentRecordings

VARIABLE held              \* the rooms that occupy a slot

Init == held = {}

Acquire(r) == /\ r \notin held
              /\ Cardinality(held) < MaxConcurrent
              /\ held' = held \cup {r}

Release(r) == /\ r \in held
              /\ held' = held \ {r}

Next == \E r \in Rooms : Acquire(r) \/ Release(r)

Spec == Init /\ [][Next]_held
================================================================================
