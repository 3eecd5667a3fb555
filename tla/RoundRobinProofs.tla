-------------------------- MODULE RoundRobinProofs --------------------------
(***************************************************************************)
(* Proofs about RoundRobin, for any participants and any number of loops:  *)
(* while somebody is registered, the loop that was started last is alive   *)
(* and will not stop.                                                      *)
(***************************************************************************)
EXTENDS RoundRobin, TLAPS

\* The loop of the current channel is at work: it waits on that channel or
\* will read it next.
AtWork ==
    \/ pc[stop] \in {"top", "tick", "send"}
    \/ pc[stop] = "select" /\ waits[stop] = stop

\* What the mutex protects, and the loop of the current channel.  SomebodyTicks
\* alone is not inductive: it does not say that the channel a new loop reads
\* is open, nor which loop survives the end of another one.
LoopInv ==
    /\ running <=> participants # <<>>
    /\ closed \subseteq 1..stop
    /\ \A l \in Loops : l > stop => pc[l] = "new"
    /\ running => stop \in Loops /\ stop \notin closed /\ AtWork

Inv == TypeOK /\ LoopInv

-----------------------------------------------------------------------------
(* Lists of participants.                                                  *)

\* A participant that is in the list has an index.
LEMMA Index ==
  ASSUME participants \in Seq(Participants), NEW p \in Members
  PROVE  IndexOf(p) \in 1..Len(participants) /\ participants[IndexOf(p)] = p
BY DEF Members, IndexOf

\* unregister leaves a list without duplicates, one shorter than before.
LEMMA WithoutList ==
  ASSUME TypeOK, NEW p \in Members
  PROVE  /\ Without(p) \in Seq(Participants)
         /\ Len(Without(p)) = Len(participants) - 1
         /\ \A i, j \in 1..Len(Without(p)) :
               Without(p)[i] = Without(p)[j] => i = j
<1> DEFINE n == Len(participants)
           moved == [participants EXCEPT ![IndexOf(p)] = participants[n]]
<1>1. n \in Nat \ {0} /\ IndexOf(p) \in 1..n
  BY Index DEF TypeOK, Members
<1>2. moved \in Seq(Participants) /\ Len(moved) = n
  BY <1>1 DEF TypeOK
<1>3. Without(p) = SubSeq(moved, 1, n - 1)
  BY DEF Without
<1>4. /\ Without(p) \in Seq(Participants)
      /\ Len(Without(p)) = n - 1
      /\ \A i \in 1..(n - 1) : Without(p)[i] = moved[i]
  BY <1>1, <1>2, <1>3
<1>5. ASSUME NEW i \in 1..(n - 1), NEW j \in 1..(n - 1), moved[i] = moved[j]
      PROVE  i = j
  <2>1. \A k, l \in 1..n : participants[k] = participants[l] => k = l
    BY DEF TypeOK
  <2>2. \A k \in 1..n : moved[k] = IF k = IndexOf(p) THEN participants[n] ELSE participants[k]
    BY DEF TypeOK
  <2> HIDE DEF n, moved
  <2> QED BY <1>1, <1>5, <2>1, <2>2
<1>6. QED
  BY <1>4, <1>5

\* Register keeps the list without duplicates.
LEMMA AppendList ==
  ASSUME TypeOK, NEW p \in Participants, p \notin Members
  PROVE  /\ Append(participants, p) \in Seq(Participants)
         /\ Append(participants, p) # <<>>
         /\ \A i, j \in 1..Len(Append(participants, p)) :
               Append(participants, p)[i] = Append(participants, p)[j] => i = j
<1> DEFINE n == Len(participants)
           s == Append(participants, p)
<1>1. s \in Seq(Participants) /\ Len(s) = n + 1 /\ n \in Nat
  BY DEF TypeOK
<1>2. s # <<>>
  <2>1. Len(<<>>) = 0 /\ Len(s) # 0
    BY <1>1
  <2>2. QED
    BY <2>1
<1>3. s[n + 1] = p /\ \A i \in 1..n : s[i] = participants[i] /\ s[i] # p
  BY DEF TypeOK, Members
<1>4. ASSUME NEW i \in 1..(n + 1), NEW j \in 1..(n + 1), s[i] = s[j]
      PROVE  i = j
  BY <1>1, <1>3, <1>4 DEF TypeOK
<1>5. QED
  BY <1>1, <1>2, <1>4

\* The candidates of a tick are members, and the next index is a natural.
LEMMA Candidates ==
  ASSUME TypeOK, NEW first \in Nat, NEW i \in 0..(Len(participants) - 1)
  PROVE  Candidate(first, i) \in Participants
         /\ (first + i + 1) % Len(participants) \in Nat
<1>1. Len(participants) \in Nat \ {0}
  BY DEF TypeOK
<1>2. (first + i) % Len(participants) \in 0..(Len(participants) - 1)
  BY <1>1
<1>3. QED
  BY <1>1, <1>2 DEF Candidate, TypeOK

-----------------------------------------------------------------------------
(* The invariant.                                                          *)

\* The coordinator starts empty and without a loop.
LEMMA InvInit == Init => Inv
<1> SUFFICES ASSUME Init PROVE Inv
  OBVIOUS
<1>1. TypeOK
  <2>1. participants = <<>> /\ participants \in Seq(Participants) /\ Len(participants) = 0
    BY DEF Init
  <2>2. ready \in [Participants -> BOOLEAN]
    BY DEF Init
  <2>3. QED
    <3>1. \A i, j \in 1..Len(participants) :
             participants[i] = participants[j] => i = j
      BY <2>1
    <3>2. /\ pc \in [Loops -> {"new", "top", "select", "tick", "send", "done"}]
          /\ waits \in [Loops -> 0..MaxLoops]
          /\ target \in [Loops -> Participants \cup {Nobody, Left}]
          /\ \A l \in Loops : pc[l] = "send" <=> target[l] # Nobody
      BY RoundRobinAssumption DEF Init
    <3>3. signal \in [Participants -> BOOLEAN]
      BY DEF Init
    <3>4. rr \in Nat /\ stop \in 0..MaxLoops
      BY RoundRobinAssumption DEF Init
    <3>5. running \in BOOLEAN /\ closed \subseteq Loops
      BY Zenon DEF Init
    <3>6. QED
      BY <2>1, <2>2, <3>1, <3>2, <3>3, <3>4, <3>5 DEF TypeOK
<1>2. LoopInv
  BY DEF Init, LoopInv
<1>3. QED
  BY <1>1, <1>2 DEF Inv

\* Every action keeps the invariant: one step of the proof per action.
LEMMA InvNext == Inv /\ [Next]_vars => Inv'
<1> SUFFICES ASSUME Inv, [Next]_vars PROVE Inv'
  OBVIOUS
<1> USE RoundRobinAssumption
<1>t. TypeOK /\ LoopInv
  BY DEF Inv
<1>1. ASSUME NEW p \in Participants, Register(p) PROVE Inv'
  <2>1. TypeOK'
    <3>1. /\ participants' = Append(participants, p)
          /\ signal' = [signal EXCEPT ![p] = FALSE]
          /\ UNCHANGED <<rr, closed, waits, target, ready>>
          /\ p \notin Members
      BY <1>1 DEF Register
    <3>2. /\ participants' \in Seq(Participants)
          /\ \A i, j \in 1..Len(participants') :
                participants'[i] = participants'[j] => i = j
      BY <1>t, <3>1, AppendList
    <3>3. /\ stop' \in 0..MaxLoops /\ running' \in BOOLEAN
          /\ pc' \in [Loops -> {"new", "top", "select", "tick", "send", "done"}]
          /\ \A l \in Loops : pc'[l] = "send" <=> target[l] # Nobody
      <4>1. CASE running /\ UNCHANGED <<stop, running, pc>>
        BY <1>t, <4>1 DEF TypeOK
      <4>2. CASE /\ stop < MaxLoops /\ stop' = stop + 1 /\ running' = TRUE
                 /\ pc' = [pc EXCEPT ![stop + 1] = "top"]
        <5>1. stop \in Nat /\ stop + 1 \in Loops
          BY <1>t, <4>2 DEF TypeOK, Loops
        <5>2. pc[stop + 1] = "new" /\ target[stop + 1] = Nobody
          BY <1>t, <5>1 DEF TypeOK, LoopInv
        <5>3. QED
          BY <1>t, <4>2, <5>1, <5>2 DEF TypeOK, Loops
      <4>3. QED
        BY <1>1, <4>1, <4>2 DEF Register
    <3>4. QED
      BY <1>t, <3>1, <3>2, <3>3 DEF TypeOK
  <2>2. LoopInv'
    <3>1. CASE running
      BY <1>t, <1>1, <3>1, AppendList DEF Register, TypeOK, LoopInv, AtWork, Loops
    <3>2. CASE ~running
      <4>1. /\ stop < MaxLoops /\ stop' = stop + 1 /\ running' = TRUE
            /\ pc' = [pc EXCEPT ![stop + 1] = "top"]
            /\ closed' = closed /\ participants' # <<>>
        BY <1>t, <1>1, <3>2, AppendList DEF Register
      <4>2. stop \in Nat /\ stop + 1 \in Loops /\ stop' \in Loops
        BY <1>t, <4>1 DEF TypeOK, Loops
      <4>3. closed' \subseteq 1..stop' /\ stop' \notin closed'
        BY <1>t, <4>1, <4>2 DEF LoopInv
      <4>4. \A l \in Loops : l > stop' => pc'[l] = "new"
        BY <1>t, <4>1, <4>2 DEF LoopInv, TypeOK, Loops
      <4>5. pc'[stop'] = "top"
        BY <1>t, <4>1, <4>2 DEF TypeOK
      <4>6. QED
        BY <4>1, <4>2, <4>3, <4>4, <4>5 DEF LoopInv, AtWork
    <3>3. QED
      BY <3>1, <3>2
  <2>3. QED
    BY <2>1, <2>2 DEF Inv
<1>2. ASSUME NEW p \in Participants, unregister(p) PROVE Inv'
  <2> DEFINE n == Len(participants)
  <2>1. /\ p \in Members
        /\ participants' = Without(p)
        /\ Leave(p)
        /\ UNCHANGED <<stop, pc, waits, signal, ready>>
    BY <1>2 DEF unregister
  <2>2. /\ participants' \in Seq(Participants)
        /\ Len(participants') = n - 1
        /\ \A i, j \in 1..Len(participants') :
              participants'[i] = participants'[j] => i = j
    BY <1>t, <2>1, WithoutList
  <2>3. n \in Nat \ {0} /\ participants # <<>> /\ running
    BY <1>t, <2>1 DEF TypeOK, Members, LoopInv
  <2>4. rr' \in Nat
    BY <1>t, <1>2, <2>3 DEF unregister, TypeOK
  <2>5. /\ target' \in [Loops -> Participants \cup {Nobody, Left}]
        /\ \A l \in Loops : pc[l] = "send" <=> target'[l] # Nobody
    <3>1. \A l \in Loops :
             target'[l] = IF target[l] = p THEN Left ELSE target[l]
      BY <2>1 DEF Leave
    <3>2. target' \in [Loops -> Participants \cup {Nobody, Left}]
      BY <1>t, <2>1 DEF Leave, TypeOK
    <3>3. ASSUME NEW l \in Loops PROVE pc[l] = "send" <=> target'[l] # Nobody
      BY <1>t, <3>1, NobodyIsNobody DEF TypeOK, Nobody, Left
    <3>4. QED
      BY <3>2, <3>3
  <2>6. /\ closed' \subseteq Loops /\ closed' \subseteq 1..stop
        /\ running' \in BOOLEAN
        /\ running' <=> participants' # <<>>
        /\ running' => closed' = closed
    <3>1. stop \in Loops /\ closed \subseteq 1..stop /\ closed \subseteq Loops
      BY <1>t, <2>3 DEF LoopInv, TypeOK
    <3>2. participants' = <<>> <=> n = 1
      BY <2>2, <2>3
    <3>3. CASE n = 1
      <4>1. closed' = closed \cup {stop} /\ running' = FALSE
        BY <1>2, <2>3, <3>3 DEF unregister
      <4>2. QED
        BY <3>1, <3>2, <3>3, <4>1, stop \in 1..stop DEF Loops
    <3>4. CASE n # 1
      <4>1. closed' = closed /\ running' = running
        BY <1>2, <3>4 DEF unregister
      <4>2. QED
        BY <2>3, <3>1, <3>2, <3>4, <4>1
    <3>5. QED
      BY <3>3, <3>4
  <2>7. TypeOK'
    BY <1>t, <2>1, <2>2, <2>4, <2>5, <2>6 DEF TypeOK
  <2>8. LoopInv'
    BY <1>t, <2>1, <2>3, <2>6 DEF LoopInv, AtWork
  <2>9. QED
    BY <2>7, <2>8 DEF Inv
<1>3. ASSUME NEW p \in Participants, Receive(p) \/ Turn(p) PROVE Inv'
  <2>1. /\ UNCHANGED <<participants, rr, stop, running, closed, pc, waits, target>>
        /\ signal' \in [Participants -> BOOLEAN]
        /\ ready' \in [Participants -> BOOLEAN]
    BY <1>t, <1>3 DEF Receive, Turn, TypeOK
  <2>2. QED
    BY <1>t, <2>1 DEF Inv, TypeOK, LoopInv, AtWork
<1>4. ASSUME NEW l \in Loops, EnterSelect(l) PROVE Inv'
  <2>1. TypeOK'
    BY <1>t, <1>4 DEF EnterSelect, TypeOK, Loops
  <2>2. LoopInv'
    BY <1>t, <1>4 DEF EnterSelect, TypeOK, LoopInv, AtWork, Loops
  <2>3. QED
    BY <2>1, <2>2 DEF Inv
<1>5. ASSUME NEW l \in Loops, LoopStops(l) PROVE Inv'
  <2>1. TypeOK'
    BY <1>t, <1>5 DEF LoopStops, TypeOK, Loops
  <2>2. LoopInv'
    BY <1>t, <1>5 DEF LoopStops, TypeOK, LoopInv, AtWork, Loops
  <2>3. QED
    BY <2>1, <2>2 DEF Inv
<1>6. ASSUME NEW l \in Loops, TickFires(l) PROVE Inv'
  <2>1. TypeOK'
    BY <1>t, <1>6 DEF TickFires, TypeOK, Loops
  <2>2. LoopInv'
    BY <1>t, <1>6 DEF TickFires, TypeOK, LoopInv, AtWork, Loops
  <2>3. QED
    BY <2>1, <2>2 DEF Inv
<1>7. ASSUME NEW l \in Loops, Tick(l) PROVE Inv'
  <2> DEFINE n == Len(participants)
             first == IF n > 0 /\ rr >= n THEN rr % n ELSE rr
  <2>1. n \in Nat /\ first \in Nat
    BY <1>t DEF TypeOK
  <2>2. /\ UNCHANGED <<participants, stop, running, closed, waits, signal, ready>>
        /\ pc[l] = "tick"
    BY <1>7 DEF Tick
  <2>3. CASE \E i \in 0..(n - 1) :
                /\ target' = [target EXCEPT ![l] = Candidate(first, i)]
                /\ rr' = (first + i + 1) % n
                /\ pc' = [pc EXCEPT ![l] = "send"]
    <3>1. PICK i \in 0..(n - 1) :
                /\ target' = [target EXCEPT ![l] = Candidate(first, i)]
                /\ rr' = (first + i + 1) % n
                /\ pc' = [pc EXCEPT ![l] = "send"]
      BY <2>3
    <3>2. Candidate(first, i) \in Participants /\ rr' \in Nat
      BY <1>t, <2>1, <3>1, Candidates
    <3>3. Candidate(first, i) # Nobody
      BY <3>2, NobodyIsNobody DEF Nobody
    <3> HIDE DEF first
    <3>4. TypeOK'
      BY <1>t, <2>2, <3>1, <3>2, <3>3 DEF TypeOK
    <3>5. LoopInv'
      BY <1>t, <2>2, <3>1 DEF TypeOK, LoopInv, AtWork
    <3>6. QED
      BY <3>4, <3>5 DEF Inv
  <2>4. CASE rr' = first /\ pc' = [pc EXCEPT ![l] = "top"] /\ UNCHANGED target
    <3> HIDE DEF first
    <3>1. TypeOK'
      BY <1>t, <2>1, <2>2, <2>4 DEF TypeOK, Nobody
    <3>2. LoopInv'
      BY <1>t, <2>2, <2>4 DEF TypeOK, LoopInv, AtWork
    <3>3. QED
      BY <3>1, <3>2 DEF Inv
  <2>5. QED
    BY <1>7, <2>3, <2>4 DEF Tick
<1>8. ASSUME NEW l \in Loops, Send(l) PROVE Inv'
  <2>1. signal' \in [Participants -> BOOLEAN]
    BY <1>t, <1>8 DEF Send, TypeOK
  <2>2. TypeOK'
    BY <1>t, <1>8, <2>1 DEF Send, TypeOK, Nobody
  <2>3. LoopInv'
    BY <1>t, <1>8 DEF Send, TypeOK, LoopInv, AtWork
  <2>4. QED
    BY <2>2, <2>3 DEF Inv
<1>9. CASE UNCHANGED vars
  BY <1>t, <1>9 DEF vars, Inv, TypeOK, LoopInv, AtWork, Members
<1>10. QED
  BY <1>1, <1>2, <1>3, <1>4, <1>5, <1>6, <1>7, <1>8, <1>9 DEF Next, loop

\* The invariant holds in every reachable state.
LEMMA InvAlways == Spec => []Inv
<1>1. QED
  BY InvInit, InvNext, PTL DEF Spec

-----------------------------------------------------------------------------
(* The theorems.                                                           *)

\* Type correctness: unregister leaves no hole and no duplicate in the list,
\* and a loop that sends has a target.
THEOREM TypeCorrect == Spec => []TypeOK
<1>1. Inv => TypeOK
  BY DEF Inv
<1>2. QED
  BY <1>1, InvAlways, PTL

\* While anybody is registered a loop is alive that will not stop, whatever
\* the order in which participants leave, the last one closes the channel and
\* the next one starts another loop.
THEOREM SomebodyAlwaysTicks == Spec => []SomebodyTicks
<1>1. Inv => SomebodyTicks
  <2> SUFFICES ASSUME Inv, Members # {} PROVE
        /\ running
        /\ \E l \in Loops : \/ pc[l] \in {"top", "tick", "send"}
                            \/ pc[l] = "select" /\ waits[l] \notin closed
    BY DEF SomebodyTicks
  <2>1. participants # <<>>
    BY DEF Members, Inv, TypeOK
  <2>2. running /\ stop \in Loops /\ stop \notin closed /\ AtWork
    BY <2>1 DEF Inv, LoopInv
  <2>3. QED
    BY <2>2 DEF AtWork
<1>2. QED
  BY <1>1, InvAlways, PTL
=============================================================================
