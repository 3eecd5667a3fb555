----------------------------- MODULE RoundRobin -----------------------------
(***************************************************************************)
(* The round-robin coordinator (pkg/coordinator/round_robin.go) that gives *)
(* the shard loops of subcheck their checks and the live file writers      *)
(* their periodic flushes: a goroutine that signals one ready participant  *)
(* per tick, started by the first Register and stopped by the last         *)
(* unregister.  Participants come and go at any time; unregister moves the *)
(* last participant into the hole.                                         *)
(*                                                                         *)
(* Everything under the mutex is one step.  The loop reads the field stop  *)
(* without the mutex, once on every turn, when it enters its select; a     *)
(* stop channel is the number of the loop it was made for.  The length of  *)
(* the tick is left out.                                                   *)
(***************************************************************************)
EXTENDS Integers, Sequences

CONSTANTS
    Participants,  \* the participants that may register
    MaxLoops       \* bound: loops started

ASSUME RoundRobinAssumption == MaxLoops \in Nat \ {0}
ASSUME NobodyIsNobody == Participants \cap {"nobody", "left"} = {}

VARIABLES
    participants,  \* the registered participants, in order
    rr,            \* index of the next candidate, from 0
    stop,          \* the current stop channel, 0 before the first
    running,
    closed,        \* the stop channels that have been closed
    pc,            \* where each loop is
    waits,         \* the stop channel a loop waits on in its select
    target,        \* the participant a loop is about to signal
    signal,        \* a signal is waiting in the participant's channel
    ready          \* what the participant's ready function answers

vars == <<participants, rr, stop, running, closed, pc, waits, target, signal,
          ready>>

Loops == 1..MaxLoops
Nobody == "nobody"
Left == "left"      \* the channel of a participant that has left
Members == {participants[i] : i \in 1..Len(participants)}
IndexOf(p) == CHOOSE i \in 1..Len(participants) : participants[i] = p

Init ==
    /\ participants = <<>> /\ rr = 0
    /\ stop = 0 /\ running = FALSE /\ closed = {}
    /\ pc = [l \in Loops |-> "new"]
    /\ waits = [l \in Loops |-> 0]
    /\ target = [l \in Loops |-> Nobody]
    /\ signal = [p \in Participants |-> FALSE]
    /\ ready \in [Participants -> BOOLEAN]

\* Register with ensureLoopLocked.  A participant that comes back has a new,
\* empty channel.
Register(p) ==
    /\ p \notin Members
    /\ participants' = Append(participants, p)
    /\ signal' = [signal EXCEPT ![p] = FALSE]
    /\ \/ /\ running
          /\ UNCHANGED <<stop, running, pc>>
       \/ /\ ~running /\ stop < MaxLoops
          /\ stop' = stop + 1 /\ running' = TRUE
          /\ pc' = [pc EXCEPT ![stop + 1] = "top"]
    /\ UNCHANGED <<rr, closed, waits, target, ready>>

\* The participants without p: the last one takes its place.
Without(p) ==
    LET n == Len(participants)
    IN  SubSeq([participants EXCEPT ![IndexOf(p)] = participants[n]], 1, n - 1)

\* A loop that was about to signal p still signals the channel p had.
Leave(p) == target' = [l \in Loops |-> IF target[l] = p THEN Left ELSE target[l]]

\* Faulty: the list is not shortened.
unregisterCopying(p) ==
    LET n == Len(participants)
    IN  /\ p \in Members /\ n > 1
        /\ participants' = [participants EXCEPT ![IndexOf(p)] = participants[n]]
        /\ Leave(p)
        /\ UNCHANGED <<rr, stop, running, closed, pc, waits, signal, ready>>

\* Faulty: the loop is stopped when one participant is left.
unregisterStopping(p) ==
    LET n == Len(participants)
    IN  /\ p \in Members
        /\ participants' = Without(p)
        /\ rr' = IF n > 1 /\ rr >= n - 1 THEN rr % (n - 1) ELSE rr
        /\ closed' = IF n <= 2 THEN closed \cup {stop} ELSE closed
        /\ running' = (n > 2)
        /\ Leave(p)
        /\ UNCHANGED <<stop, pc, waits, signal, ready>>

\* Faulty: the channel is forgotten without being closed.
unregisterForgetting(p) ==
    LET n == Len(participants)
    IN  /\ p \in Members
        /\ participants' = Without(p)
        /\ rr' = IF n > 1 /\ rr >= n - 1 THEN rr % (n - 1) ELSE rr
        /\ running' = (n > 1)
        /\ Leave(p)
        /\ UNCHANGED <<stop, closed, pc, waits, signal, ready>>

\* unregister: the index is kept within the rest, and the last one out stops
\* the loop.
unregister(p) ==
    LET n == Len(participants)
    IN  /\ p \in Members
        /\ participants' = Without(p)
        /\ rr' = IF n > 1 /\ rr >= n - 1 THEN rr % (n - 1) ELSE rr
        /\ IF n = 1 /\ running
           THEN closed' = closed \cup {stop} /\ running' = FALSE
           ELSE UNCHANGED <<closed, running>>
        /\ Leave(p)
        /\ UNCHANGED <<stop, pc, waits, signal, ready>>

\* The loop enters its select: this is where the field stop is read.
EnterSelect(l) ==
    /\ pc[l] = "top"
    /\ pc' = [pc EXCEPT ![l] = "select"]
    /\ waits' = [waits EXCEPT ![l] = stop]
    /\ UNCHANGED <<participants, rr, stop, running, closed, target, signal,
                   ready>>

LoopStops(l) ==
    /\ pc[l] = "select" /\ waits[l] \in closed
    /\ pc' = [pc EXCEPT ![l] = "done"]
    /\ waits' = [waits EXCEPT ![l] = 0]
    /\ UNCHANGED <<participants, rr, stop, running, closed, target, signal,
                   ready>>

\* The ticker fires.
TickFires(l) ==
    /\ pc[l] = "select"
    /\ pc' = [pc EXCEPT ![l] = "tick"]
    /\ waits' = [waits EXCEPT ![l] = 0]
    /\ UNCHANGED <<participants, rr, stop, running, closed, target, signal,
                   ready>>

\* The participant i places after the first candidate.
Candidate(first, i) == participants[((first + i) % Len(participants)) + 1]

\* Faulty: the search starts from the beginning every time.
TickFromStart(l) ==
    /\ pc[l] = "tick"
    /\ \/ /\ \E i \in 0..(Len(participants) - 1) :
                /\ ready[Candidate(0, i)]
                /\ \A j \in 0..(i - 1) : ~ready[Candidate(0, j)]
                /\ target' = [target EXCEPT ![l] = Candidate(0, i)]
          /\ pc' = [pc EXCEPT ![l] = "send"]
       \/ /\ \A p \in Members : ~ready[p]
          /\ pc' = [pc EXCEPT ![l] = "top"]
          /\ UNCHANGED target
    /\ UNCHANGED <<participants, rr, stop, running, closed, waits, signal,
                   ready>>

\* The part of a tick under the mutex: the first ready participant from rr
\* on, all the way round, is the target.
Tick(l) ==
    LET n == Len(participants)
        first == IF n > 0 /\ rr >= n THEN rr % n ELSE rr
    IN  /\ pc[l] = "tick"
        /\ \/ \E i \in 0..(n - 1) :
                /\ ready[Candidate(first, i)]
                /\ \A j \in 0..(i - 1) : ~ready[Candidate(first, j)]
                /\ target' = [target EXCEPT ![l] = Candidate(first, i)]
                /\ rr' = (first + i + 1) % n
                /\ pc' = [pc EXCEPT ![l] = "send"]
           \/ /\ \A p \in Members : ~ready[p]
              /\ rr' = first
              /\ pc' = [pc EXCEPT ![l] = "top"]
              /\ UNCHANGED target
        /\ UNCHANGED <<participants, stop, running, closed, waits, signal,
                       ready>>

\* After the mutex: the non-blocking send.
Send(l) ==
    /\ pc[l] = "send"
    /\ signal' = IF target[l] = Left THEN signal
                 ELSE [signal EXCEPT ![target[l]] = TRUE]
    /\ target' = [target EXCEPT ![l] = Nobody]
    /\ pc' = [pc EXCEPT ![l] = "top"]
    /\ UNCHANGED <<participants, rr, stop, running, closed, waits, ready>>

\* A participant takes its signal.
Receive(p) ==
    /\ signal[p]
    /\ signal' = [signal EXCEPT ![p] = FALSE]
    /\ UNCHANGED <<participants, rr, stop, running, closed, pc, waits, target,
                   ready>>

\* What a participant waits for comes or goes.
Turn(p) ==
    /\ ready' = [ready EXCEPT ![p] = ~@]
    /\ UNCHANGED <<participants, rr, stop, running, closed, pc, waits, target,
                   signal>>

loop(l) == EnterSelect(l) \/ LoopStops(l) \/ TickFires(l) \/ Tick(l) \/ Send(l)

Next ==
    \/ \E p \in Participants :
          Register(p) \/ unregister(p) \/ Receive(p) \/ Turn(p)
    \/ \E l \in Loops : loop(l)

Spec == Init /\ [][Next]_vars

\* A loop goes on and its ticker fires; the participants take their signals;
\* a select whose stop channel is closed does not choose the ticker for ever.
Fairness ==
    /\ \A l \in Loops : WF_vars(loop(l)) /\ SF_vars(LoopStops(l))
    /\ \A p \in Participants : WF_vars(Receive(p))

FairSpec == Spec /\ Fairness

-----------------------------------------------------------------------------
\* Types.  A loop that sends has somebody to send to.
TypeOK ==
    /\ participants \in Seq(Participants)
    /\ \A i, j \in 1..Len(participants) :
          participants[i] = participants[j] => i = j
    /\ rr \in Nat
    /\ stop \in 0..MaxLoops /\ running \in BOOLEAN /\ closed \subseteq Loops
    /\ pc \in [Loops -> {"new", "top", "select", "tick", "send", "done"}]
    /\ waits \in [Loops -> 0..MaxLoops]
    /\ target \in [Loops -> Participants \cup {Nobody, Left}]
    /\ \A l \in Loops : pc[l] = "send" <=> target[l] # Nobody
    /\ signal \in [Participants -> BOOLEAN]
    /\ ready \in [Participants -> BOOLEAN]

\* While anybody is registered there is a loop that will not stop: either it
\* waits on the channel that is still open, or it will read that channel next.
SomebodyTicks ==
    Members # {} =>
        /\ running
        /\ \E l \in Loops : \/ pc[l] \in {"top", "tick", "send"}
                            \/ pc[l] = "select" /\ waits[l] \notin closed

\* When everybody has left for good every loop ends, also one that was inside
\* a tick when its channel was closed.
LoopsEnd ==
    <>[](Members = {}) => <>[](\A l \in Loops : pc[l] \in {"new", "done"})

\* A participant that stays registered and ready is signalled again and
\* again, although others come and go and unregister reorders the list.
EveryoneServed ==
    \A p \in Participants :
        <>[](p \in Members /\ ready[p]) => []<>signal[p]

\* "RoundRobin sends a non-blocking signal to one ready participant per tick"
\* (round_robin.go): there are never two loops on the same channel, each with
\* a ticker of its own.
OneLoop ==
    \A l, m \in Loops :
        l # m /\ pc[l] = "select" /\ pc[m] = "select" => waits[l] # waits[m]
=============================================================================
