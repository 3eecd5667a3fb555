-------------------------- MODULE WebhookQueueProofs --------------------------
(***************************************************************************)
(* Proofs about WebhookQueue, for any number of rooms, queues, emitters,   *)
(* deliveries and events and any capacities: a queue delivers what it      *)
(* accepted in order and once, and the goroutines implement RoomQueues.    *)
(* What makes it so is the scheduled flag, since whoever has set it is the *)
(* only one that takes events out of the queue, and the closed flag, which *)
(* is set while the queue is in the map and never cleared.                 *)
(***************************************************************************)
EXTENDS WebhookQueue, SequenceTheorems, TLAPS

HolderPlaces == {"push", "process", "acquire", "post"}
BusyPlaces == {"acquire", "post"}

Holds(p, q) == pq[p] = q /\ pc[p] \in HolderPlaces
Busy(p, q) == pq[p] = q /\ pc[p] \in BusyPlaces

\* The places where a process has a queue.
QueuePlaces == HolderPlaces \cup {"send", "after", "delete", "check", "claim"}

\* The types the argument needs: of where the processes are, and of the rest.
PlaceTypes ==
  /\ pc \in [Procs -> Places]
  /\ pq \in [Procs -> Queues \cup {Nil}]
  /\ \A p \in Procs : pc[p] \in QueuePlaces => pq[p] \in Queues
  /\ target \in [Emitters -> Rooms \cup {Nil}]
  /\ \A e \in Emitters : pc[e] \in {"get", "send"} => target[e] \in Rooms

DataTypes ==
  /\ rooms \in [Rooms -> Queues \cup {Nil}]
  /\ ch \in [Queues -> Seq(Nat)]
  /\ scheduled \in [Queues -> BOOLEAN]
  /\ pending \in Seq(Queues)
  /\ body \in [Procs -> Nat]
  /\ todo \subseteq Rooms
  /\ sent \in [Queues -> Nat] /\ done \in [Queues -> Nat]

Types == PlaceTypes /\ DataTypes

\* A queue has one owner at most: a process or an entry of pending, and its flag is set.
Claims ==
  \A q \in Queues :
    /\ \A p \in Procs : Holds(p, q) => scheduled[q]
    /\ \A i \in 1..Len(pending) : pending[i] = q => scheduled[q]
    /\ \A p \in Procs, i \in 1..Len(pending) : ~(Holds(p, q) /\ pending[i] = q)
    /\ \A p, o \in Procs : Holds(p, q) /\ Holds(o, q) => p = o
    /\ \A i, j \in 1..Len(pending) : pending[i] = q /\ pending[j] = q => i = j

\* The channel of q holds what q accepted after the first n events.
InChannel(q, n) ==
  /\ sent[q] = n + Len(ch[q])
  /\ \A i \in 1..Len(ch[q]) : ch[q][i] = n + i

\* QueueInOrder, said of the process that has the event in hand.
Order ==
  \A q \in Queues :
    /\ \A p \in Procs : Busy(p, q) => body[p] = done[q] + 1 /\ InChannel(q, done[q] + 1)
    /\ (\A p \in Procs : ~Busy(p, q)) => InChannel(q, done[q])

Inv == Types /\ Claims /\ (down \/ Order)

LEMMA ProcFacts ==
  /\ Worker \in Procs /\ Worker \notin Emitters /\ Worker \notin Deliverers
  /\ \A e \in Emitters : e \in Procs /\ e \notin Deliverers /\ e # Worker
  /\ \A d \in Deliverers : d \in Procs /\ d \notin Emitters /\ d # Worker
BY QueueAssumption DEF Procs

\* Whoever has scheduled a queue, or could not, goes on without it.
LEMMA HomeFacts ==
  ASSUME NEW p
  PROVE  Home(p) \in Places \ {"get", "send"} /\ Home(p) \notin QueuePlaces /\ Home(p) \notin HolderPlaces
BY DEF Home, Places, QueuePlaces, HolderPlaces

\* A process that goes somewhere else keeps the types.
LEMMA Moves ==
  ASSUME PlaceTypes, NEW p \in Procs, NEW place \in Places \ {"get", "send"}, NEW q \in Queues \cup {Nil},
         place \in QueuePlaces => q \in Queues,
         GoTo(p, place, q), UNCHANGED target
  PROVE  PlaceTypes'
BY ProcFacts DEF PlaceTypes, GoTo

-------------------------------------------------------------------------------
(* Steps that leave the owners alone.                                      *)

\* A step that moves no claim and takes no event keeps the claims.
LEMMA SameClaims ==
  ASSUME Claims,
         \A p \in Procs, q \in Queues : Holds(p, q)' => Holds(p, q),
         UNCHANGED <<scheduled, pending>>
  PROVE  Claims'
BY DEF Claims, Holds

\* A step that leaves the channels and what is in hand keeps the order.
LEMMA SameOrder ==
  ASSUME down \/ Order,
         \A p \in Procs, q \in Queues : Busy(p, q)' <=> Busy(p, q),
         \A p \in Procs, q \in Queues : Busy(p, q) => body'[p] = body[p],
         UNCHANGED <<ch, sent, done, down>>
  PROVE  down' \/ Order'
<1> SUFFICES ASSUME ~down PROVE Order'
  OBVIOUS
<1>1. ASSUME NEW q \in Queues, NEW p \in Procs, Busy(p, q)'
      PROVE  body'[p] = done'[q] + 1 /\ InChannel(q, done[q] + 1)'
  <2>1. Busy(p, q) /\ body'[p] = body[p]
    BY <1>1
  <2>2. body[p] = done[q] + 1 /\ InChannel(q, done[q] + 1)
    BY <2>1 DEF Order
  <2> QED BY <2>1, <2>2 DEF InChannel
<1>2. ASSUME NEW q \in Queues, \A p \in Procs : ~Busy(p, q)'
      PROVE  InChannel(q, done[q])'
  <2>1. InChannel(q, done[q])
    BY <1>2 DEF Order
  <2> QED BY <2>1 DEF InChannel
<1> QED BY <1>1, <1>2 DEF Order

\* A process that goes from one place without a claim to another.
LEMMA Quiet ==
  ASSUME Inv, NEW p \in Procs, NEW place, NEW q, GoTo(p, place, q),
         pc[p] \notin HolderPlaces, place \notin HolderPlaces,
         UNCHANGED <<scheduled, pending, ch, sent, done, body, down>>
  PROVE  Claims' /\ (down' \/ Order')
<1>1. \A o \in Procs, r \in Queues : Holds(o, r)' => Holds(o, r)
  BY DEF Inv, Types, PlaceTypes, DataTypes, GoTo, Holds
<1>2. \A o \in Procs, r \in Queues : Busy(o, r)' <=> Busy(o, r)
  BY DEF Inv, Types, PlaceTypes, DataTypes, GoTo, Busy, HolderPlaces, BusyPlaces
<1> QED BY <1>1, <1>2, SameClaims, SameOrder DEF Inv

\* The same when no process moves.
LEMMA Still ==
  ASSUME Inv, UNCHANGED <<pc, pq, scheduled, pending, ch, sent, done, body>>,
         down' = down \/ down'
  PROVE  Claims' /\ (down' \/ Order')
BY SameClaims DEF Inv, Holds, Order, Busy, InChannel

-------------------------------------------------------------------------------
(* The steps.                                                              *)

LEMMA CheckStep ==
  ASSUME Inv, NEW p \in Procs, ScheduleCheck(p)
  PROVE  Inv'
<1>1. Types'
  <2>1. pq[p] \in Queues /\ (GoTo(p, Home(p), Nil) \/ GoTo(p, "claim", pq[p])) /\ UNCHANGED target
    BY DEF ScheduleCheck, Inv, Types, PlaceTypes, QueuePlaces, HolderPlaces, qVars, histVars
  <2>2. PlaceTypes'
    BY <2>1, HomeFacts, Moves DEF Inv, Types, Places
  <2>3. DataTypes'
    BY <2>1 DEF ScheduleCheck, Inv, Types, DataTypes, qVars, histVars
  <2> QED BY <2>2, <2>3 DEF Types
<1>2. Home(p) \notin HolderPlaces /\ "claim" \notin HolderPlaces /\ "check" \notin HolderPlaces
  BY DEF Home, HolderPlaces
<1>3. Claims' /\ (down' \/ Order')
  BY <1>2, Quiet DEF ScheduleCheck, qVars, histVars
<1> QED BY <1>1, <1>3 DEF Inv

\* The compare-and-swap: a queue whose flag is clear has no owner.
LEMMA ClaimStep ==
  ASSUME Inv, NEW p \in Procs, ScheduleClaim(p)
  PROVE  Inv'
<1>1. Types'
  <2>1. pq[p] \in Queues /\ (GoTo(p, Home(p), Nil) \/ GoTo(p, "push", pq[p])) /\ UNCHANGED target
    BY DEF ScheduleClaim, Inv, Types, PlaceTypes, QueuePlaces, HolderPlaces, qVars, histVars
  <2>2. PlaceTypes'
    BY <2>1, HomeFacts, Moves DEF Inv, Types, Places
  <2>3. DataTypes'
    BY <2>1 DEF ScheduleClaim, Inv, Types, DataTypes, qVars, histVars
  <2> QED BY <2>2, <2>3 DEF Types
<1>2. CASE scheduled[pq[p]]
  <2>1. Home(p) \notin HolderPlaces /\ "claim" \notin HolderPlaces
    BY DEF Home, HolderPlaces
  <2> QED BY <1>1, <1>2, <2>1, Quiet DEF ScheduleClaim, qVars, histVars, Inv
<1>3. CASE ~scheduled[pq[p]]
  <2>1. /\ pq[p] \in Queues /\ GoTo(p, "push", pq[p])
        /\ scheduled' = [scheduled EXCEPT ![pq[p]] = TRUE]
        /\ UNCHANGED <<pending, ch, sent, done, body, down>>
    BY <1>3 DEF ScheduleClaim, Inv, Types, PlaceTypes, QueuePlaces, qVars, histVars
  <2>2. \A o \in Procs, q \in Queues : Holds(o, q)' => Holds(o, q) \/ (o = p /\ q = pq[p])
    BY <2>1 DEF GoTo, Inv, Types, PlaceTypes, Holds
  <2>3. \A o \in Procs : ~Holds(o, pq[p])
    BY <1>3, <2>1 DEF Inv, Claims
  <2>4. \A i \in 1..Len(pending) : pending[i] # pq[p]
    BY <1>3, <2>1 DEF Inv, Claims
  <2>5. Claims'
    <3>1. scheduled'[pq[p]] /\ \A q \in Queues : scheduled[q] => scheduled'[q]
      BY <2>1 DEF Inv, Types, DataTypes
    <3>2. CASE Claims
      <4> SUFFICES ASSUME NEW q \in Queues
                   PROVE  /\ \A o \in Procs : Holds(o, q)' => scheduled'[q]
                          /\ \A i \in 1..Len(pending') : pending'[i] = q => scheduled'[q]
                          /\ \A o \in Procs, i \in 1..Len(pending') : ~(Holds(o, q)' /\ pending'[i] = q)
                          /\ \A o, r \in Procs : Holds(o, q)' /\ Holds(r, q)' => o = r
                          /\ \A i, j \in 1..Len(pending') : pending'[i] = q /\ pending'[j] = q => i = j
        BY Zenon DEF Claims
      <4>1. pending' = pending
        BY <2>1
      <4>2. \A o \in Procs : Holds(o, q)' => scheduled'[q]
        BY <2>2, <3>1, <3>2 DEF Claims
      <4>3. \A i \in 1..Len(pending) : pending[i] = q => scheduled'[q]
        BY <3>1, <3>2 DEF Claims
      <4>4. \A o \in Procs, i \in 1..Len(pending) : ~(Holds(o, q)' /\ pending[i] = q)
        BY <2>2, <2>4, <3>2 DEF Claims
      <4>5. \A o, r \in Procs : Holds(o, q)' /\ Holds(r, q)' => o = r
        BY <2>2, <2>3, <3>2 DEF Claims
      <4>6. \A i, j \in 1..Len(pending) : pending[i] = q /\ pending[j] = q => i = j
        BY <3>2 DEF Claims
      <4> QED BY <4>1, <4>2, <4>3, <4>4, <4>5, <4>6
    <3> QED BY <3>2 DEF Inv
  <2>6. \A o \in Procs, q \in Queues : Busy(o, q)' <=> Busy(o, q)
    BY <2>1 DEF ScheduleClaim, GoTo, Inv, Types, PlaceTypes, Busy, BusyPlaces
  <2>7. down' \/ Order'
    BY <2>1, <2>6, SameOrder DEF Inv
  <2> QED BY <1>1, <2>5, <2>7 DEF Inv
<1> QED BY <1>2, <1>3

\* The claim goes into pending with its queue, or is given back.
LEMMA PushStep ==
  ASSUME Inv, NEW p \in Procs, SchedulePush(p)
  PROVE  Inv'
<1>1. Types'
  <2>1. pq[p] \in Queues /\ (GoTo(p, Home(p), Nil)) /\ UNCHANGED target
    BY DEF SchedulePush, Inv, Types, PlaceTypes, QueuePlaces, HolderPlaces, qVars, histVars
  <2>2. PlaceTypes'
    BY <2>1, HomeFacts, Moves DEF Inv, Types, Places
  <2>3. DataTypes'
    <3>1. pending' = Append(pending, pq[p]) \/ pending' = pending
      BY DEF SchedulePush
    <3>2. pending' \in Seq(Queues)
      <4>1. pending \in Seq(Queues)
        BY DEF Inv, Types, DataTypes
      <4> QED BY <2>1, <3>1, <4>1, AppendProperties
    <3>3. scheduled' = [scheduled EXCEPT ![pq[p]] = FALSE] \/ scheduled' = scheduled
      BY DEF SchedulePush
    <3>4. scheduled' \in [Queues -> BOOLEAN]
      BY <2>1, <3>3 DEF Inv, Types, DataTypes
    <3> QED BY <3>2, <3>4 DEF SchedulePush, Inv, Types, DataTypes, qVars, histVars
  <2> QED BY <2>2, <2>3 DEF Types
<1>2. /\ pq[p] \in Queues /\ Holds(p, pq[p]) /\ GoTo(p, Home(p), Nil)
      /\ UNCHANGED <<ch, sent, done, body, down>>
  BY DEF SchedulePush, Inv, Types, PlaceTypes, QueuePlaces, HolderPlaces, Holds, qVars, histVars
<1>3. Home(p) \notin HolderPlaces
  BY DEF Home, HolderPlaces
<1>4. \A o \in Procs, q \in Queues : Holds(o, q)' => Holds(o, q) /\ o # p /\ q # pq[p]
  BY <1>2, <1>3 DEF GoTo, Inv, Types, PlaceTypes, Claims, Holds
<1>5. \A i \in 1..Len(pending) : pending[i] # pq[p]
  BY <1>2 DEF Inv, Claims
<1>6. ASSUME pending' = Append(pending, pq[p]), UNCHANGED scheduled
      PROVE  Claims'
  <2>1. /\ Len(pending') = Len(pending) + 1 /\ Len(pending) \in Nat
        /\ \A i \in 1..Len(pending') :
             pending'[i] = IF i = Len(pending) + 1 THEN pq[p] ELSE pending[i]
    BY <1>2, <1>6 DEF Inv, Types, DataTypes
  <2>2. scheduled[pq[p]]
    BY <1>2 DEF Inv, Claims
  <2> SUFFICES ASSUME NEW q \in Queues
               PROVE  /\ \A o \in Procs : Holds(o, q)' => scheduled'[q]
                      /\ \A i \in 1..Len(pending') : pending'[i] = q => scheduled'[q]
                      /\ \A o \in Procs, i \in 1..Len(pending') : ~(Holds(o, q)' /\ pending'[i] = q)
                      /\ \A o, r \in Procs : Holds(o, q)' /\ Holds(r, q)' => o = r
                      /\ \A i, j \in 1..Len(pending') : pending'[i] = q /\ pending'[j] = q => i = j
    BY DEF Claims
  <2>3. \A i \in 1..Len(pending') : i \in 1..Len(pending) \/ i = Len(pending) + 1
    BY <2>1
  <2> QED BY <1>4, <1>5, <1>6, <2>1, <2>2, <2>3 DEF Inv, Claims
<1>7. ASSUME scheduled' = [scheduled EXCEPT ![pq[p]] = FALSE], UNCHANGED pending
      PROVE  Claims'
  <2>1. \A q \in Queues : q # pq[p] => scheduled'[q] = scheduled[q]
    BY <1>2, <1>7 DEF Inv, Types, DataTypes
  <2> SUFFICES ASSUME NEW q \in Queues
               PROVE  /\ \A o \in Procs : Holds(o, q)' => scheduled'[q]
                      /\ \A i \in 1..Len(pending) : pending[i] = q => scheduled'[q]
                      /\ \A o \in Procs, i \in 1..Len(pending) : ~(Holds(o, q)' /\ pending[i] = q)
                      /\ \A o, r \in Procs : Holds(o, q)' /\ Holds(r, q)' => o = r
                      /\ \A i, j \in 1..Len(pending) : pending[i] = q /\ pending[j] = q => i = j
    BY <1>7 DEF Claims
  <2> QED BY <1>4, <1>5, <2>1 DEF Inv, Claims
<1>8. Claims'
  BY <1>6, <1>7 DEF SchedulePush, Inv
<1>9. \A o \in Procs, q \in Queues : Busy(o, q)' <=> Busy(o, q)
  BY <1>2, <1>3 DEF SchedulePush, GoTo, Inv, Types, PlaceTypes, Busy, BusyPlaces, HolderPlaces
<1>10. down' \/ Order'
  BY <1>2, <1>9, SameOrder DEF Inv
<1> QED BY <1>1, <1>8, <1>10 DEF Inv

\* Emitters: the event goes to the end of the channel, which changes nobody's claim.
LEMMA EmitterStep ==
  ASSUME Inv, NEW e \in Emitters, GetQueue(e) \/ TrySend(e) \/ \E r \in Rooms : Emit(e, r)
  PROVE  Inv'
<1> USE ProcFacts
<1> DEFINE q == pq[e]
<1>0. \A place \in {"get", "send", "idle", "check"} : place \notin HolderPlaces /\ place \in Places
  BY DEF HolderPlaces, Places
<1>1. ASSUME NEW r \in Rooms, Emit(e, r) PROVE Inv'
  <2>1. PlaceTypes'
    BY <1>1 DEF Emit, GoTo, Inv, Types, PlaceTypes, QueuePlaces, HolderPlaces, Places
  <2>2. DataTypes'
    BY <1>1 DEF Emit, Inv, Types, DataTypes, qVars
  <2>3. Claims' /\ (down' \/ Order')
    BY <1>0, <1>1, Quiet DEF Emit, HolderPlaces, qVars
  <2> QED BY <2>1, <2>2, <2>3 DEF Inv, Types
<1>2. CASE GetQueue(e)
  <2>1. PICK r \in Queues : /\ GoTo(e, "send", r)
                            /\ rooms' = rooms \/ rooms' = [rooms EXCEPT ![target[e]] = r]
    BY <1>2 DEF GetQueue, Inv, Types, PlaceTypes, DataTypes
  <2>2. PlaceTypes'
    BY <1>2, <2>1 DEF GetQueue, GoTo, Inv, Types, PlaceTypes, QueuePlaces, HolderPlaces, Places
  <2>3. DataTypes'
    BY <1>2, <2>1 DEF GetQueue, Inv, Types, DataTypes, histVars
  <2>4. Claims' /\ (down' \/ Order')
    BY <1>0, <1>2, <2>1, Quiet DEF GetQueue, histVars
  <2> QED BY <2>2, <2>3, <2>4 DEF Inv, Types
<1>3. CASE TrySend(e)
  <2>1. q \in Queues /\ pc[e] = "send"
    BY <1>3 DEF TrySend, Inv, Types, PlaceTypes, QueuePlaces
  <2>2. /\ GoTo(e, "get", Nil) \/ GoTo(e, "idle", Nil) \/ GoTo(e, "check", q)
        /\ UNCHANGED <<rooms, scheduled, pending, body, todo, done, down>>
    BY <1>3 DEF TrySend
  <2>3. PlaceTypes'
    <3>1. CASE GoTo(e, "get", Nil) /\ UNCHANGED target
      BY <2>1, <3>1 DEF GoTo, Inv, Types, PlaceTypes, QueuePlaces, HolderPlaces, Places
    <3>2. CASE /\ GoTo(e, "idle", Nil) \/ GoTo(e, "check", q)
               /\ target' = [target EXCEPT ![e] = Nil]
      BY <2>1, <3>2 DEF GoTo, Inv, Types, PlaceTypes, QueuePlaces, HolderPlaces, Places
    <3> QED BY <1>3, <3>1, <3>2 DEF TrySend
  <2>4. CASE UNCHANGED <<ch, sent>>
    <3>1. Claims' /\ (down' \/ Order')
      BY <1>0, <2>1, <2>2, <2>4, Quiet
    <3> QED BY <2>2, <2>3, <2>4, <3>1 DEF Inv, Types, DataTypes
  <2>5. CASE /\ sent' = [sent EXCEPT ![q] = @ + 1]
             /\ ch' = [ch EXCEPT ![q] = Append(@, sent[q] + 1)]
    <3>1. DataTypes'
      <4>1. ch[q] \in Seq(Nat) /\ sent[q] + 1 \in Nat
        BY <2>1 DEF Inv, Types, DataTypes
      <4>2. Append(ch[q], sent[q] + 1) \in Seq(Nat)
        BY <4>1
      <4>3. sent' \in [Queues -> Nat] /\ ch' \in [Queues -> Seq(Nat)]
        BY <2>5, <4>1, <4>2 DEF Inv, Types, DataTypes
      <4> QED BY <2>2, <4>3 DEF Inv, Types, DataTypes
    <3>2. \A p \in Procs, r \in Queues : Holds(p, r)' => Holds(p, r)
      BY <1>0, <2>2, <2>1 DEF GoTo, Inv, Types, PlaceTypes, Holds
    <3>3. \A p \in Procs, r \in Queues : Busy(p, r)' <=> Busy(p, r)
      BY <1>0, <2>2, <2>1 DEF GoTo, Inv, Types, PlaceTypes, Busy, BusyPlaces
    <3>4. Claims'
      BY <2>2, <3>2, SameClaims DEF Inv
    <3>5. ASSUME NEW r \in Queues, NEW n \in Nat, InChannel(r, n)
          PROVE  sent'[r] = n + Len(ch'[r]) /\ \A i \in 1..Len(ch'[r]) : ch'[r][i] = n + i
      <4>1. CASE r # q
        <5>1. sent'[r] = sent[r] /\ ch'[r] = ch[r]
          BY <2>1, <2>5, <4>1 DEF Inv, Types, DataTypes
        <5> QED BY <3>5, <5>1 DEF InChannel
      <4>2. CASE r = q
        <5>1. /\ ch[q] \in Seq(Nat) /\ Len(ch[q]) \in Nat /\ ch'[q] = Append(ch[q], sent[q] + 1)
              /\ sent[q] \in Nat /\ sent'[q] = sent[q] + 1
          <6>1. ch \in [Queues -> Seq(Nat)] /\ sent \in [Queues -> Nat]
            BY DEF Inv, Types, DataTypes
          <6>2. ch[q] \in Seq(Nat) /\ sent[q] \in Nat
            BY <2>1, <6>1
          <6>3. Len(ch[q]) \in Nat
            BY <6>2
          <6>4. ch'[q] = Append(ch[q], sent[q] + 1) /\ sent'[q] = sent[q] + 1
            BY <2>1, <2>5, <6>1
          <6> QED BY <6>2, <6>3, <6>4
        <5>2. /\ Len(ch'[q]) = Len(ch[q]) + 1
              /\ \A i \in 1..Len(ch'[q]) :
                   ch'[q][i] = IF i = Len(ch[q]) + 1 THEN sent[q] + 1 ELSE ch[q][i]
          BY <5>1
        <5>3. sent[q] = n + Len(ch[q]) /\ \A i \in 1..Len(ch[q]) : ch[q][i] = n + i
          BY <3>5, <4>2 DEF InChannel
        <5>4. ASSUME NEW i \in 1..Len(ch'[q]) PROVE ch'[q][i] = n + i
          <6>1. CASE i = Len(ch[q]) + 1
            BY <5>1, <5>2, <5>3, <6>1
          <6>2. CASE i # Len(ch[q]) + 1
            <7>1. i \in 1..Len(ch[q])
              BY <5>1, <5>2, <6>2
            <7>2. ch'[q][i] = ch[q][i]
              BY <5>2, <6>2
            <7> QED BY <5>3, <7>1, <7>2
          <6> QED BY <6>1, <6>2
        <5> QED BY <4>2, <5>1, <5>2, <5>3, <5>4
      <4> QED BY <4>1, <4>2
    <3>6. ASSUME Order, ~down PROVE Order'
      <4>1. ASSUME NEW r \in Queues, NEW p \in Procs, Busy(p, r)'
            PROVE  body'[p] = done'[r] + 1 /\ InChannel(r, done[r] + 1)'
        <5>1. body[p] = done[r] + 1 /\ InChannel(r, done[r] + 1) /\ done[r] + 1 \in Nat
          BY <3>3, <3>6, <4>1 DEF Order, Inv, Types, DataTypes
        <5> QED BY <2>2, <3>5, <5>1 DEF InChannel
      <4>2. ASSUME NEW r \in Queues, \A p \in Procs : ~Busy(p, r)'
            PROVE  InChannel(r, done[r])'
        <5>1. InChannel(r, done[r]) /\ done[r] \in Nat
          BY <3>3, <3>6, <4>2 DEF Order, Inv, Types, DataTypes
        <5> QED BY <2>2, <3>5, <5>1 DEF InChannel
      <4> QED BY <4>1, <4>2 DEF Order
    <3> QED BY <2>2, <2>3, <3>1, <3>4, <3>6 DEF Inv, Types
  <2> QED BY <1>3, <2>4, <2>5 DEF TrySend
<1> QED BY <1>1, <1>2, <1>3

\* The dispatcher without a claim: ticks and evictions.
LEMMA TickStep ==
  ASSUME Inv,
         \/ Tick \/ StartEviction \/ DeleteRoom \/ EndTick \/ WorkerExits
         \/ \E r \in Rooms : Reschedule(r) \/ Evict(r)
  PROVE  Inv'
<1> USE ProcFacts
<1>0. \A place \in {"select", "reschedule", "evict", "delete", "exited", "check"} :
         place \notin HolderPlaces /\ place \in Places \ {"get", "send"}
  BY DEF HolderPlaces, Places
<1>1. \A place \in {"select", "reschedule", "evict", "exited"} : place \notin QueuePlaces
  BY DEF QueuePlaces, HolderPlaces
<1>2. ASSUME NEW place \in {"select", "reschedule", "evict", "delete", "exited", "check"},
             NEW q \in Queues \cup {Nil}, GoTo(Worker, place, q), pc[Worker] \notin HolderPlaces,
             place \in {"delete", "check"} => q \in Queues,
             UNCHANGED <<target, scheduled, pending, ch, sent, done, body, down>>,
             rooms' \in [Rooms -> Queues \cup {Nil}], todo' \subseteq Rooms
      PROVE  Inv'
  <2>1. PlaceTypes'
    BY <1>0, <1>1, <1>2, Moves DEF Inv, Types
  <2>2. DataTypes'
    BY <1>2 DEF Inv, Types, DataTypes
  <2>3. Claims' /\ (down' \/ Order')
    BY <1>0, <1>2, Quiet
  <2> QED BY <2>1, <2>2, <2>3 DEF Inv, Types
<1>3. ASSUME UNCHANGED <<pc, pq, target, scheduled, pending, ch, sent, done, body, down, rooms>>,
             todo' \subseteq Rooms
      PROVE  Inv'
  <2>1. Claims' /\ (down' \/ Order')
    BY <1>3, Still DEF Inv
  <2> QED BY <1>3, <2>1 DEF Inv, Types, PlaceTypes, DataTypes
<1>4. todo \subseteq Rooms /\ rooms \in [Rooms -> Queues \cup {Nil}]
  BY DEF Inv, Types, DataTypes
<1>5. CASE Tick
  BY <1>0, <1>2, <1>4, <1>5 DEF Tick, qVars, WorkerRest, histVars
<1>6. CASE StartEviction
  BY <1>0, <1>2, <1>4, <1>6 DEF StartEviction, qVars, WorkerRest, histVars
<1>7. CASE DeleteRoom
  <2>1. rooms' \in [Rooms -> Queues \cup {Nil}]
    BY <1>4, <1>7 DEF DeleteRoom
  <2> QED BY <1>0, <1>2, <1>4, <1>7, <2>1 DEF DeleteRoom, WorkerRest, histVars
<1>8. CASE EndTick
  BY <1>0, <1>2, <1>4, <1>8 DEF EndTick, qVars, WorkerRest, histVars
<1>9. CASE WorkerExits
  BY <1>0, <1>2, <1>4, <1>9 DEF WorkerExits, qVars, WorkerRest, histVars
<1>10. ASSUME NEW r \in Rooms, Reschedule(r) PROVE Inv'
  <2>1. /\ pc[Worker] \notin HolderPlaces /\ todo' \subseteq Rooms /\ rooms[r] \in Queues \cup {Nil}
        /\ UNCHANGED <<target, scheduled, pending, ch, sent, done, body, down, rooms>>
    BY <1>0, <1>4, <1>10 DEF Reschedule, qVars, WorkerRest, histVars
  <2>2. CASE rooms[r] # Nil /\ GoTo(Worker, "check", rooms[r])
    BY <1>2, <1>4, <2>1, <2>2
  <2>3. CASE UNCHANGED <<pc, pq>>
    BY <1>3, <2>1, <2>3
  <2> QED BY <1>10, <2>2, <2>3 DEF Reschedule
<1>11. ASSUME NEW r \in Rooms, Evict(r) PROVE Inv'
  <2>1. /\ pc[Worker] \notin HolderPlaces /\ todo' \subseteq Rooms /\ rooms[r] \in Queues \cup {Nil}
        /\ UNCHANGED <<target, scheduled, pending, ch, sent, done, body, down, rooms>>
    BY <1>0, <1>4, <1>11 DEF Evict, WorkerRest, histVars
  <2>2. CASE rooms[r] # Nil /\ GoTo(Worker, "delete", rooms[r])
    BY <1>2, <1>4, <2>1, <2>2
  <2>3. CASE UNCHANGED <<pc, pq>>
    BY <1>3, <2>1, <2>3
  <2> QED BY <1>11, <2>2, <2>3 DEF Evict
<1> QED BY <1>5, <1>6, <1>7, <1>8, <1>9, <1>10, <1>11

\* The claim goes from the entry of pending to the dispatcher.
LEMMA ReceiveStep ==
  ASSUME Inv, Receive
  PROVE  Inv'
<1> USE ProcFacts
<1> DEFINE q == Head(pending)
<1>1. /\ q \in Queues /\ Len(pending) \in Nat \ {0} /\ pending' \in Seq(Queues) /\ pending[1] = q
      /\ Len(pending') = Len(pending) - 1
      /\ \A i \in 1..Len(pending') : pending'[i] = pending[i + 1] /\ i + 1 \in 2..Len(pending)
  <2>1. pending \in Seq(Queues) /\ pending # <<>> /\ pending' = Tail(pending)
    BY DEF Inv, Types, DataTypes, Receive
  <2> QED BY <2>1, HeadTailProperties
<1>2. /\ pc[Worker] = "select" /\ GoTo(Worker, "process", q)
      /\ UNCHANGED <<rooms, scheduled, ch, sent, done, body, down, target, todo>>
  BY DEF Receive, qVars, WorkerRest, histVars
<1>3. PlaceTypes'
  <2>1. "process" \in Places \ {"get", "send"}
    BY DEF Places
  <2> QED BY <1>1, <1>2, <2>1, Moves DEF Inv, Types
<1>4. DataTypes'
  BY <1>1, <1>2 DEF Inv, Types, DataTypes
<1>5. \A p \in Procs, r \in Queues : Holds(p, r)' => Holds(p, r) \/ (p = Worker /\ r = q)
  BY <1>1, <1>2 DEF GoTo, Inv, Types, PlaceTypes, Holds
<1>6. Claims'
  <2> SUFFICES ASSUME NEW r \in Queues
               PROVE  /\ \A p \in Procs : Holds(p, r)' => scheduled'[r]
                      /\ \A i \in 1..Len(pending') : pending'[i] = r => scheduled'[r]
                      /\ \A p \in Procs, i \in 1..Len(pending') : ~(Holds(p, r)' /\ pending'[i] = r)
                      /\ \A p, o \in Procs : Holds(p, r)' /\ Holds(o, r)' => p = o
                      /\ \A i, j \in 1..Len(pending') : pending'[i] = r /\ pending'[j] = r => i = j
    BY DEF Claims
  <2>1. scheduled[q] /\ \A p \in Procs : ~Holds(p, q)
    BY <1>1 DEF Inv, Claims
  <2>2. \A i \in 1..Len(pending') : pending'[i] # q
    <3>1. \A i \in 1..Len(pending) : pending[i] = q => i = 1
      BY <1>1 DEF Inv, Claims
    <3> QED BY <1>1, <3>1
  <2>3. \A p \in Procs : Holds(p, r)' => scheduled'[r]
    BY <1>2, <1>5, <2>1 DEF Inv, Claims
  <2>4. \A i \in 1..Len(pending') : pending'[i] = r => scheduled'[r]
    BY <1>1, <1>2 DEF Inv, Claims
  <2>5. \A p \in Procs, i \in 1..Len(pending') : ~(Holds(p, r)' /\ pending'[i] = r)
    BY <1>1, <1>5, <2>2 DEF Inv, Claims
  <2>6. \A p, o \in Procs : Holds(p, r)' /\ Holds(o, r)' => p = o
    BY <1>5, <2>1 DEF Inv, Claims
  <2>7. \A i, j \in 1..Len(pending') : pending'[i] = r /\ pending'[j] = r => i = j
    <3> TAKE i, j \in 1..Len(pending')
    <3> HAVE pending'[i] = r /\ pending'[j] = r
    <3>1. i + 1 \in 1..Len(pending) /\ j + 1 \in 1..Len(pending)
      BY <1>1
    <3>2. i + 1 = j + 1
      BY <1>1, <3>1 DEF Inv, Claims
    <3> QED BY <3>2
  <2> QED BY <2>3, <2>4, <2>5, <2>6, <2>7
<1>7. \A p \in Procs, r \in Queues : Busy(p, r)' <=> Busy(p, r)
  BY <1>2 DEF GoTo, Inv, Types, PlaceTypes, Busy, BusyPlaces
<1>8. down' \/ Order'
  BY <1>2, <1>7, SameOrder DEF Inv
<1> QED BY <1>3, <1>4, <1>6, <1>8 DEF Inv, Types

\* A process that gives its claim back and goes where it needs none.
LEMMA Releases ==
  ASSUME Inv, NEW p \in Procs, NEW q \in Queues, Holds(p, q), NEW place, NEW r, GoTo(p, place, r),
         place \notin HolderPlaces, scheduled' = [scheduled EXCEPT ![q] = FALSE], UNCHANGED pending
  PROVE  Claims'
<1>1. \A o \in Procs, t \in Queues : Holds(o, t)' => Holds(o, t) /\ t # q
  BY DEF GoTo, Inv, Types, PlaceTypes, Claims, Holds
<1>2. \A i \in 1..Len(pending) : pending[i] # q
  BY DEF Inv, Claims
<1> QED BY <1>1, <1>2 DEF Inv, Claims, Types, DataTypes

\* The dispatcher has the claim, so no delivery has an event of the queue: the head of the
\* channel is the next one.
LEMMA ProcessStep ==
  ASSUME Inv, Process
  PROVE  Inv'
<1> USE ProcFacts
<1>0. PICK q \in Queues : q = pq[Worker]
  BY DEF Process, Inv, Types, PlaceTypes, QueuePlaces, HolderPlaces
<1>1. /\ q = pq[Worker] /\ pc[Worker] = "process" /\ Holds(Worker, q)
      /\ UNCHANGED <<rooms, pending, target, sent, done, down, todo>>
  BY <1>0 DEF Process, HolderPlaces, Holds, WorkerRest, histVars
<1>2. CASE /\ ch[q] # <<>> /\ body' = [body EXCEPT ![Worker] = Head(ch[q])]
           /\ ch' = [ch EXCEPT ![q] = Tail(@)] /\ GoTo(Worker, "acquire", q) /\ UNCHANGED scheduled
  <2>1. /\ Head(ch[q]) \in Nat /\ Head(ch[q]) = ch[q][1] /\ Tail(ch[q]) \in Seq(Nat)
        /\ Len(ch[q]) \in Nat \ {0} /\ Len(Tail(ch[q])) = Len(ch[q]) - 1
        /\ \A i \in 1..Len(Tail(ch[q])) : Tail(ch[q])[i] = ch[q][i + 1] /\ i + 1 \in 1..Len(ch[q])
    <3>1. ch[q] \in Seq(Nat) /\ ch[q] # <<>>
      BY <1>1, <1>2 DEF Inv, Types, DataTypes
    <3> QED BY <3>1, HeadTailProperties
  <2>2. PlaceTypes'
    <3>1. "acquire" \in Places \ {"get", "send"}
      BY DEF Places
    <3> QED BY <1>1, <1>2, <3>1, Moves DEF Inv, Types
  <2>3. DataTypes'
    BY <1>1, <1>2, <2>1 DEF Inv, Types, DataTypes
  <2>4. Claims'
    <3>1. \A p \in Procs, r \in Queues : Holds(p, r)' => Holds(p, r)
      BY <1>1, <1>2 DEF GoTo, Inv, Types, PlaceTypes, Holds, HolderPlaces
    <3> QED BY <1>1, <1>2, <3>1, SameClaims DEF Inv
  <2>5. ASSUME ~down, Order PROVE Order'
    <3>1. \A p \in Procs : ~Busy(p, q)
      <4>1. \A p \in Procs : Busy(p, q) => Holds(p, q)
        BY DEF Busy, Holds, BusyPlaces, HolderPlaces
      <4>2. ~Busy(Worker, q)
        BY <1>1 DEF Busy, BusyPlaces
      <4> QED BY <1>1, <4>1, <4>2 DEF Inv, Claims
    <3>2. InChannel(q, done[q]) /\ done[q] \in Nat
      BY <1>1, <2>5, <3>1 DEF Order, Inv, Types, DataTypes
    <3>3. ch[q][1] = done[q] + 1 /\ sent[q] = done[q] + 1 + (Len(ch[q]) - 1)
      <4>1. Len(ch[q]) \in Nat /\ 1 \in 1..Len(ch[q])
        BY <2>1
      <4>2. sent[q] = done[q] + Len(ch[q]) /\ ch[q][1] = done[q] + 1
        BY <3>2, <4>1 DEF InChannel
      <4> QED BY <3>2, <4>1, <4>2
    <3>4. InChannel(q, done[q] + 1)'
      <4>1. ch'[q] = Tail(ch[q])
        BY <1>1, <1>2 DEF Inv, Types, DataTypes
      <4>3. Len(Tail(ch[q])) = Len(ch[q]) - 1
        BY <2>1
      <4>2. \A i \in 1..Len(Tail(ch[q])) : Tail(ch[q])[i] = done[q] + 1 + i
        <5> SUFFICES ASSUME NEW i \in 1..Len(Tail(ch[q]))
                     PROVE  Tail(ch[q])[i] = done[q] + 1 + i
          OBVIOUS
        <5>1. Tail(ch[q])[i] = ch[q][i + 1]
          BY <2>1, <4>3
        <5>2. Len(ch[q]) \in Nat /\ i + 1 \in 1..Len(ch[q])
          BY <2>1, <4>3
        <5>3. ch[q][i + 1] = done[q] + (i + 1)
          BY <3>2, <5>2 DEF InChannel
        <5> QED BY <3>2, <5>1, <5>2, <5>3
      <4>4. sent' = sent /\ done' = done
        BY <1>1
      <4>5. sent'[q] = done'[q] + 1 + Len(ch'[q])
        BY <3>3, <4>1, <4>3, <4>4
      <4>6. \A i \in 1..Len(ch'[q]) : ch'[q][i] = done'[q] + 1 + i
        BY <4>1, <4>2, <4>4
      <4> QED BY <4>4, <4>5, <4>6 DEF InChannel
    <3>5. body'[Worker] = done'[q] + 1
      BY <1>1, <1>2, <2>1, <3>3 DEF Inv, Types, DataTypes
    <3>6. /\ Busy(Worker, q)'
          /\ \A r \in Queues \ {q}, p \in Procs : Busy(p, r)' <=> Busy(p, r)
          /\ \A p \in Procs : Busy(p, q)' => p = Worker
      BY <1>1, <1>2, <3>1 DEF GoTo, Inv, Types, PlaceTypes, Busy, BusyPlaces
    <3>7. \A r \in Queues \ {q} : ch'[r] = ch[r] /\ \A p \in Procs : Busy(p, r) => body'[p] = body[p]
      BY <1>1, <1>2 DEF Inv, Types, DataTypes, Busy
    <3>8. ASSUME NEW r \in Queues \ {q}, NEW n, InChannel(r, n)
          PROVE  sent'[r] = n + Len(ch'[r]) /\ \A i \in 1..Len(ch'[r]) : ch'[r][i] = n + i
      BY <1>1, <3>7, <3>8 DEF InChannel
    <3>9. ASSUME NEW r \in Queues, NEW p \in Procs, Busy(p, r)'
          PROVE  body'[p] = done'[r] + 1 /\ InChannel(r, done[r] + 1)'
      <4>1. CASE r = q
        BY <3>4, <3>5, <3>6, <3>9, <4>1
      <4>2. CASE r # q
        <5>1. Busy(p, r) /\ body'[p] = body[p]
          BY <3>6, <3>7, <3>9, <4>2
        <5>2. body[p] = done[r] + 1 /\ InChannel(r, done[r] + 1)
          BY <2>5, <5>1 DEF Order
        <5> QED BY <1>1, <3>8, <4>2, <5>1, <5>2 DEF InChannel
      <4> QED BY <4>1, <4>2
    <3>10. ASSUME NEW r \in Queues, \A p \in Procs : ~Busy(p, r)'
           PROVE  InChannel(r, done[r])'
      <4>1. r # q
        BY <3>6, <3>10
      <4>2. InChannel(r, done[r])
        BY <2>5, <3>6, <3>10, <4>1 DEF Order
      <4> QED BY <1>1, <3>8, <4>1, <4>2 DEF InChannel
    <3> QED BY <3>9, <3>10 DEF Order
  <2> QED BY <1>1, <2>2, <2>3, <2>4, <2>5 DEF Inv, Types
<1>3. CASE /\ scheduled' = [scheduled EXCEPT ![q] = FALSE] /\ GoTo(Worker, "select", Nil)
           /\ UNCHANGED <<body, ch>>
  <2>1. "select" \in Places \ {"get", "send"} /\ "select" \notin QueuePlaces /\ "select" \notin HolderPlaces
    BY DEF Places, QueuePlaces, HolderPlaces
  <2>2. PlaceTypes'
    BY <1>1, <1>3, <2>1, Moves DEF Inv, Types
  <2>3. DataTypes'
    BY <1>1, <1>3 DEF Inv, Types, DataTypes
  <2>4. Claims'
    BY <1>1, <1>3, <2>1, Releases
  <2>5. \A p \in Procs, r \in Queues : Busy(p, r)' <=> Busy(p, r)
    BY <1>1, <1>3 DEF GoTo, Inv, Types, PlaceTypes, Busy, BusyPlaces
  <2>6. down' \/ Order'
    BY <1>1, <1>3, <2>5, SameOrder DEF Inv
  <2> QED BY <2>2, <2>3, <2>4, <2>6 DEF Inv, Types
<1> QED BY <1>1, <1>2, <1>3 DEF Process

\* The claim and the event go from the dispatcher to a delivery.
LEMMA StartStep ==
  ASSUME Inv, NEW d \in Deliverers, StartDeliver(d)
  PROVE  Inv'
<1> USE ProcFacts
<1>0. PICK q \in Queues : q = pq[Worker]
  BY DEF StartDeliver, Inv, Types, PlaceTypes, QueuePlaces, HolderPlaces
<1>1. /\ q = pq[Worker] /\ pc[Worker] = "acquire" /\ pc[d] = "free"
      /\ pc' = [pc EXCEPT ![Worker] = "select", ![d] = "post"]
      /\ pq' = [pq EXCEPT ![Worker] = Nil, ![d] = q]
      /\ body' = [body EXCEPT ![Worker] = 0, ![d] = body[Worker]]
      /\ UNCHANGED <<rooms, ch, scheduled, pending, target, sent, done, down, todo>>
  BY <1>0 DEF StartDeliver, qVars, histVars
<1>2. Types'
  BY <1>1 DEF Inv, Types, PlaceTypes, DataTypes, QueuePlaces, HolderPlaces, Places
<1>3. \A p \in Procs, r \in Queues :
         /\ Holds(p, r)' => (p = d /\ r = q) \/ (p # d /\ p # Worker /\ Holds(p, r))
         /\ Busy(p, r)' => (p = d /\ r = q) \/ (p # d /\ p # Worker /\ Busy(p, r))
         /\ Busy(p, r) => (p = Worker /\ r = q) \/ Busy(p, r)'
  BY <1>1 DEF Inv, Types, PlaceTypes, Holds, HolderPlaces, Busy, BusyPlaces
<1>4. Holds(Worker, q) /\ Busy(Worker, q) /\ Busy(d, q)'
  BY <1>1 DEF Inv, Types, PlaceTypes, Holds, HolderPlaces, Busy, BusyPlaces
<1>5. Claims'
  BY <1>1, <1>3, <1>4 DEF Inv, Claims
<1>6. ASSUME ~down, Order PROVE Order'
  <2>1. ASSUME NEW r \in Queues, NEW p \in Procs, Busy(p, r)'
        PROVE  body'[p] = done'[r] + 1 /\ InChannel(r, done[r] + 1)'
    <3>1. PICK o \in Procs : Busy(o, r) /\ body'[p] = body[o]
      BY <1>1, <1>3, <1>4, <2>1 DEF Inv, Types, DataTypes
    <3>2. body[o] = done[r] + 1 /\ InChannel(r, done[r] + 1)
      BY <1>6, <3>1 DEF Order
    <3> QED BY <1>1, <3>1, <3>2 DEF InChannel
  <2>2. ASSUME NEW r \in Queues, \A p \in Procs : ~Busy(p, r)'
        PROVE  InChannel(r, done[r])'
    <3>1. \A p \in Procs : ~Busy(p, r)
      BY <1>3, <1>4, <2>2
    <3> QED BY <1>1, <1>6, <3>1 DEF Order, InChannel
  <2> QED BY <2>1, <2>2 DEF Order
<1> QED BY <1>1, <1>2, <1>5, <1>6 DEF Inv

\* The service stops: the event in hand is lost, the claim given back.
LEMMA AcquireFailsStep ==
  ASSUME Inv, AcquireFails
  PROVE  Inv'
<1> USE ProcFacts
<1>0. PICK q \in Queues : q = pq[Worker]
  BY DEF AcquireFails, Inv, Types, PlaceTypes, QueuePlaces, HolderPlaces
<1>1. /\ Holds(Worker, q) /\ GoTo(Worker, "select", Nil) /\ down /\ down' = down
      /\ scheduled' = [scheduled EXCEPT ![q] = FALSE] /\ body' = [body EXCEPT ![Worker] = 0]
      /\ UNCHANGED <<rooms, ch, pending, target, sent, done, todo>>
  BY <1>0 DEF AcquireFails, Holds, HolderPlaces, qVars, WorkerRest, histVars
<1>2. "select" \in Places \ {"get", "send"} /\ "select" \notin QueuePlaces /\ "select" \notin HolderPlaces
  BY DEF Places, QueuePlaces, HolderPlaces
<1>3. PlaceTypes'
  BY <1>1, <1>2, Moves DEF Inv, Types
<1>4. DataTypes'
  BY <1>1 DEF Inv, Types, DataTypes
<1>5. Claims'
  BY <1>1, <1>2, Releases
<1> QED BY <1>1, <1>3, <1>4, <1>5 DEF Inv, Types

\* The end of a delivery: its event is the oldest one, and nobody else has one of the queue.
LEMMA DeliverEndsStep ==
  ASSUME Inv, NEW d \in Deliverers, DeliverEnds(d)
  PROVE  Inv'
<1> USE ProcFacts
<1>0. PICK q \in Queues : q = pq[d]
  BY DEF DeliverEnds, Inv, Types, PlaceTypes, QueuePlaces, HolderPlaces
<1>1. /\ Holds(d, q) /\ Busy(d, q) /\ pc[d] = "post" /\ GoTo(d, "after", q)
      /\ scheduled' = [scheduled EXCEPT ![q] = FALSE] /\ body' = [body EXCEPT ![d] = 0]
      /\ done' = [done EXCEPT ![q] = @ + 1]
      /\ UNCHANGED <<rooms, ch, pending, target, sent, todo, down>>
  BY <1>0 DEF DeliverEnds, Holds, HolderPlaces, Busy, BusyPlaces, qVars
<1>2. "after" \in Places \ {"get", "send"} /\ "after" \notin HolderPlaces
  BY DEF Places, HolderPlaces
<1>3. PlaceTypes'
  BY <1>1, <1>2, Moves DEF Inv, Types
<1>4. DataTypes'
  BY <1>1 DEF Inv, Types, DataTypes
<1>5. Claims'
  BY <1>1, <1>2, Releases
<1>6. ASSUME ~down, Order PROVE Order'
  <2>1. \A p \in Procs, r \in Queues : Busy(p, r)' <=> Busy(p, r) /\ p # d
    BY <1>1 DEF GoTo, Inv, Types, PlaceTypes, Busy, BusyPlaces
  <2>2. \A p \in Procs : Busy(p, q) => p = d
    BY <1>1 DEF Inv, Claims, Busy, Holds, BusyPlaces, HolderPlaces
  <2>3. \A r \in Queues : r # q => ~Busy(d, r)
    BY <1>1 DEF Busy
  <2>4. /\ done'[q] = done[q] + 1
        /\ \A r \in Queues : r # q => done'[r] = done[r]
        /\ \A p \in Procs : p # d => body'[p] = body[p]
    BY <1>1 DEF Inv, Types, DataTypes
  <2>5. ASSUME NEW r \in Queues, NEW p \in Procs, Busy(p, r)'
        PROVE  body'[p] = done'[r] + 1 /\ InChannel(r, done[r] + 1)'
    <3>1. r # q /\ Busy(p, r) /\ p # d
      BY <2>1, <2>2, <2>5
    <3>2. body[p] = done[r] + 1 /\ InChannel(r, done[r] + 1)
      BY <1>6, <3>1 DEF Order
    <3> QED BY <1>1, <2>4, <3>1, <3>2 DEF InChannel
  <2>6. ASSUME NEW r \in Queues, \A p \in Procs : ~Busy(p, r)'
        PROVE  InChannel(r, done[r])'
    <3>1. CASE r = q
      <4>1. InChannel(q, done[q] + 1)
        BY <1>1, <1>6 DEF Order
      <4> QED BY <1>1, <2>4, <3>1, <4>1 DEF InChannel
    <3>2. CASE r # q
      <4>1. InChannel(r, done[r])
        BY <1>6, <2>1, <2>3, <2>6, <3>2 DEF Order
      <4> QED BY <1>1, <2>4, <3>2, <4>1 DEF InChannel
    <3> QED BY <3>1, <3>2
  <2> QED BY <2>5, <2>6 DEF Order
<1> QED BY <1>1, <1>3, <1>4, <1>5, <1>6 DEF Inv, Types

\* After a delivery, and its POSTs.
LEMMA DeliverOtherStep ==
  ASSUME Inv, NEW d \in Deliverers, DeliverAfter(d) \/ \E u \in Urls : Post(d, u)
  PROVE  Inv'
<1> USE ProcFacts
<1>1. CASE DeliverAfter(d)
  <2>1. /\ pc[d] = "after" /\ pq[d] \in Queues
        /\ GoTo(d, "check", pq[d]) \/ GoTo(d, "free", Nil)
        /\ UNCHANGED <<rooms, ch, scheduled, pending, target, body, sent, done, todo, down>>
    BY <1>1 DEF DeliverAfter, Inv, Types, PlaceTypes, QueuePlaces, histVars
  <2>2. /\ "check" \in Places \ {"get", "send"} /\ "free" \in Places \ {"get", "send"}
        /\ "free" \notin QueuePlaces /\ \A place \in {"check", "free", "after"} : place \notin HolderPlaces
    BY DEF Places, QueuePlaces, HolderPlaces
  <2>3. PlaceTypes'
    BY <2>1, <2>2, Moves DEF Inv, Types
  <2>4. Claims' /\ (down' \/ Order')
    BY <2>1, <2>2, Quiet
  <2> QED BY <2>1, <2>3, <2>4 DEF Inv, Types, DataTypes
<1>2. ASSUME NEW u \in Urls, Post(d, u) PROVE Inv'
  <2>1. UNCHANGED <<pc, pq, target, rooms, ch, scheduled, pending, body, sent, done, todo, down>>
    BY <1>2 DEF Post, qVars, histVars
  <2>2. Claims' /\ (down' \/ Order')
    BY <2>1, Still
  <2> QED BY <2>1, <2>2 DEF Inv, Types, PlaceTypes, DataTypes
<1> QED BY <1>1, <1>2

-------------------------------------------------------------------------------
(* The theorem.                                                            *)

LEMMA InitInv == Init => Inv
<1> SUFFICES ASSUME Init PROVE Inv
  OBVIOUS
<1> USE ProcFacts
<1>1. \A p \in Procs : pc[p] \in {"idle", "free", "select"} /\ pq[p] = Nil
  BY DEF Init
<1>2. PlaceTypes
  BY <1>1 DEF Init, PlaceTypes, Places, QueuePlaces, HolderPlaces
<1>3. DataTypes
  BY DEF Init, DataTypes
<1>4. \A p \in Procs, q \in Queues : ~Holds(p, q) /\ ~Busy(p, q)
  BY <1>1 DEF Holds, HolderPlaces, Busy, BusyPlaces
<1>5. Claims
  BY <1>4 DEF Init, Claims
<1>6. Order
  BY <1>4 DEF Init, Order, InChannel
<1> QED BY <1>2, <1>3, <1>5, <1>6 DEF Inv, Types

LEMMA NextInv == Inv /\ [Next]_vars => Inv'
<1> SUFFICES ASSUME Inv, [Next]_vars PROVE Inv'
  OBVIOUS
<1>1. ASSUME NEW p \in Procs, MaybeSchedule(p) PROVE Inv'
  BY <1>1, CheckStep, ClaimStep, PushStep DEF MaybeSchedule
<1>2. ASSUME NEW e \in Emitters, EmitterSteps(e) \/ \E r \in Rooms : Emit(e, r) PROVE Inv'
  BY <1>1, <1>2, EmitterStep, ProcFacts DEF EmitterSteps
<1>3. ASSUME NEW d \in Deliverers, Deliver(d) PROVE Inv'
  BY <1>1, <1>3, DeliverEndsStep, DeliverOtherStep, ProcFacts DEF Deliver
<1>4. CASE Receive \/ Tick \/ WorkerExits
  BY <1>4, ReceiveStep, TickStep
<1>5. CASE Dispatch
  BY <1>1, <1>5, ProcessStep, AcquireFailsStep, StartStep, TickStep, ProcFacts DEF Dispatch
<1>6. CASE Stop
  <2>1. UNCHANGED <<pc, pq, target, rooms, ch, scheduled, pending, body, sent, done, todo>> /\ down'
    BY <1>6 DEF Stop, qVars, histVars
  <2>2. Claims'
    BY <2>1, SameClaims DEF Inv, Holds
  <2> QED BY <2>1, <2>2 DEF Inv, Types, PlaceTypes, DataTypes
<1>7. CASE UNCHANGED vars
  <2>1. UNCHANGED <<pc, pq, target, rooms, ch, scheduled, pending, body, sent, done, todo, down>>
    BY <1>7 DEF vars, qVars, histVars
  <2>2. Claims' /\ (down' \/ Order')
    BY <2>1, Still
  <2> QED BY <2>1, <2>2 DEF Inv, Types, PlaceTypes, DataTypes
<1> QED BY <1>2, <1>3, <1>4, <1>5, <1>6, <1>7 DEF Next

LEMMA Elements ==
  ASSUME NEW s \in Seq(Nat)
  PROVE  s = [i \in 1..Len(s) |-> s[i]]
OBVIOUS

\* What is said of the process with the event in hand is what QueueInOrder says of sequences.
LEMMA InOrder == Inv => QueueInOrder
<1> SUFFICES ASSUME Inv, ~down, NEW q \in Queues
             PROVE  InHand(q) \o ch[q] = [i \in 1..(sent[q] - done[q]) |-> done[q] + i]
  BY DEF QueueInOrder
<1> DEFINE busy == {p \in Procs : pq[p] = q /\ pc[p] \in {"acquire", "post"}}
           rest == [i \in 1..(sent[q] - done[q]) |-> done[q] + i]
<1>1. ch[q] \in Seq(Nat) /\ sent[q] \in Nat /\ done[q] \in Nat /\ Len(ch[q]) \in Nat
  BY DEF Inv, Types, DataTypes
<1>2. CASE busy = {}
  <2>1. InChannel(q, done[q])
    BY <1>2 DEF Inv, Order, Busy, BusyPlaces
  <2>2. InHand(q) = <<>>
    BY <1>2 DEF InHand
  <2>3. <<>> \o ch[q] = ch[q]
    BY <1>1
  <2>4. ch[q] = rest
    <3>1. sent[q] - done[q] = Len(ch[q]) /\ \A i \in 1..Len(ch[q]) : ch[q][i] = done[q] + i
      BY <1>1, <2>1 DEF InChannel
    <3>2. ch[q] = [i \in 1..Len(ch[q]) |-> ch[q][i]]
      BY <1>1, Elements
    <3>3. rest = [i \in 1..Len(ch[q]) |-> done[q] + i]
      BY <3>1
    <3>4. [i \in 1..Len(ch[q]) |-> ch[q][i]] = [i \in 1..Len(ch[q]) |-> done[q] + i]
      BY <3>1
    <3> QED BY <3>2, <3>3, <3>4
  <2> QED BY <2>2, <2>3, <2>4
<1>3. CASE busy # {}
  <2> DEFINE p == CHOOSE p \in busy : TRUE
  <2>1. p \in busy
    BY <1>3
  <2>2. body[p] = done[q] + 1 /\ InChannel(q, done[q] + 1)
    BY <2>1 DEF Inv, Order, Busy, BusyPlaces
  <2>3. InHand(q) = <<done[q] + 1>>
    BY <1>3, <2>2 DEF InHand
  <2> HIDE DEF p, busy
  <2> DEFINE all == <<done[q] + 1>> \o ch[q]
  <2>4. /\ all \in Seq(Nat) /\ Len(all) = Len(ch[q]) + 1
        /\ \A i \in 1..Len(all) : all[i] = IF i = 1 THEN done[q] + 1 ELSE ch[q][i - 1]
    BY <1>1
  <2>5. sent[q] - done[q] = Len(ch[q]) + 1
    BY <1>1, <2>2 DEF InChannel
  <2> HIDE DEF all
  <2>6. ASSUME NEW i \in 1..Len(all) PROVE all[i] = done[q] + i
    <3>1. CASE i = 1
      BY <2>4, <3>1
    <3>2. CASE i # 1
      <4>1. i - 1 \in 1..Len(ch[q]) /\ all[i] = ch[q][i - 1]
        BY <1>1, <2>4, <3>2
      <4>2. ch[q][i - 1] = done[q] + 1 + (i - 1)
        BY <2>2, <4>1 DEF InChannel
      <4>3. done[q] + 1 + (i - 1) = done[q] + i
        BY <1>1
      <4> QED BY <4>1, <4>2, <4>3
    <3> QED BY <3>1, <3>2
  <2>7. all = rest
    BY <1>1, <2>4, <2>5, <2>6
  <2> QED BY <2>3, <2>7 DEF all
<1> QED BY <1>2, <1>3

\* A queue has one owner at most at any time, through every missed, retried and abandoned
\* hand-over between emitters, dispatcher and deliveries (q.scheduled).
THEOREM OneOwnerPerQueue == Spec => []Claims
<1>1. Inv => Claims
  BY DEF Inv
<1> QED BY <1>1, InitInv, NextInv, PTL DEF Spec

\* Until the service stops, every queue delivers what it accepted in the order it accepted it,
\* nothing lost and nothing twice (trySend, processRoomWork, startDeliver).
THEOREM DeliveredInOrder == Spec => []QueueInOrder
BY InitInv, NextInv, InOrder, PTL DEF Spec

-------------------------------------------------------------------------------
(* The queues as RoomQueues sees them.                                     *)

\* What else RoomQueues needs to hear: the map of the rooms holds the queue of a room that
\* is not closed, and an emitter or an eviction only has queues that belong to a room.
MapTypes == qroom \in [Queues -> Rooms \cup {Nil}] /\ closed \in [Queues -> BOOLEAN]
InMap == \A r \in Rooms : rooms[r] # Nil => qroom[rooms[r]] = r
Current == \A q \in Queues : qroom[q] # Nil /\ ~closed[q] => rooms[qroom[q]] = q
Opened == \A e \in Emitters : pc[e] = "send" => qroom[pq[e]] # Nil
Deleting == pc[Worker] = "delete" => closed[pq[Worker]]

MapInv == MapTypes /\ InMap /\ Current /\ Opened /\ Deleting

\* InHand of given places, queues and events.
HandOf(places, queues, events, q) ==
  LET busy == {p \in Procs : queues[p] = q /\ places[p] \in {"acquire", "post"}}
  IN IF busy = {} THEN <<>> ELSE <<events[CHOOSE p \in busy : TRUE]>>

LEMMA HandIs ==
  ASSUME NEW q
  PROVE  /\ InHand(q) = HandOf(pc, pq, body, q)
         /\ InHand(q)' = HandOf(pc', pq', body', q)
BY DEF InHand, HandOf

LEMMA NoHand ==
  ASSUME NEW pl, NEW qs, NEW bd, NEW q, \A p \in Procs : ~(qs[p] = q /\ pl[p] \in BusyPlaces)
  PROVE  HandOf(pl, qs, bd, q) = <<>>
BY DEF HandOf, BusyPlaces

LEMMA OneHand ==
  ASSUME NEW pl, NEW qs, NEW bd, NEW q, NEW p \in Procs, qs[p] = q /\ pl[p] \in BusyPlaces,
         \A o \in Procs : qs[o] = q /\ pl[o] \in BusyPlaces => o = p
  PROVE  HandOf(pl, qs, bd, q) = <<bd[p]>>
<1> DEFINE busy == {o \in Procs : qs[o] = q /\ pl[o] \in {"acquire", "post"}}
<1>1. busy = {p}
  BY DEF BusyPlaces
<1>2. (CHOOSE o \in busy : TRUE) = p
  BY <1>1
<1> QED BY <1>1, <1>2 DEF HandOf

\* A queue has one event in hand at most: that of its owner.
LEMMA HandNow ==
  ASSUME Inv, NEW q \in Queues
  PROVE  /\ \A p \in Procs : Busy(p, q) => InHand(q) = <<body[p]>>
         /\ (\A p \in Procs : ~Busy(p, q)) => InHand(q) = <<>>
<1>1. ASSUME NEW p \in Procs, Busy(p, q) PROVE InHand(q) = <<body[p]>>
  <2>1. \A o \in Procs : Busy(o, q) => o = p
    BY <1>1 DEF Inv, Claims, Busy, Holds, BusyPlaces, HolderPlaces
  <2>2. /\ pq[p] = q /\ pc[p] \in BusyPlaces
        /\ \A o \in Procs : pq[o] = q /\ pc[o] \in BusyPlaces => o = p
    BY <1>1, <2>1 DEF Busy
  <2>3. HandOf(pc, pq, body, q) = <<body[p]>>
    <3> DEFINE busy == {o \in Procs : pq[o] = q /\ pc[o] \in {"acquire", "post"}}
    <3>1. busy = {p}
      BY <2>2 DEF BusyPlaces
    <3>2. busy # {} /\ (CHOOSE o \in busy : TRUE) = p
      BY <3>1
    <3> QED BY <3>2 DEF HandOf
  <2> QED BY <2>3, HandIs
<1>2. ASSUME \A p \in Procs : ~Busy(p, q) PROVE InHand(q) = <<>>
  <2>1. HandOf(pc, pq, body, q) = <<>>
    BY <1>2, NoHand DEF Busy
  <2> QED BY <2>1, HandIs
<1> QED BY <1>1, <1>2

\* The same of the next state.
LEMMA HandNext ==
  ASSUME Inv', NEW q \in Queues
  PROVE  /\ \A p \in Procs : Busy(p, q)' => InHand(q)' = <<body'[p]>>
         /\ (\A p \in Procs : ~Busy(p, q)') => InHand(q)' = <<>>
<1>1. ASSUME NEW p \in Procs, Busy(p, q)' PROVE InHand(q)' = <<body'[p]>>
  <2>1. \A o \in Procs : Busy(o, q)' => o = p
    BY <1>1 DEF Inv, Claims, Busy, Holds, BusyPlaces, HolderPlaces
  <2>2. /\ pq'[p] = q /\ pc'[p] \in BusyPlaces
        /\ \A o \in Procs : pq'[o] = q /\ pc'[o] \in BusyPlaces => o = p
    BY <1>1, <2>1 DEF Busy
  <2>3. HandOf(pc', pq', body', q) = <<body'[p]>>
    BY <2>2, OneHand
  <2> QED BY <2>3, HandIs
<1>2. ASSUME \A p \in Procs : ~Busy(p, q)' PROVE InHand(q)' = <<>>
  <2>1. HandOf(pc', pq', body', q) = <<>>
    BY <1>2, NoHand DEF Busy
  <2> QED BY <2>1, HandIs
<1> QED BY <1>1, <1>2

\* The state of RoomQueues.
Waiting == [q \in Queues |-> InHand(q) \o ch[q]]
Retired == {q \in Queues : closed[q]}

LEMMA WaitingTypes ==
  ASSUME Inv, NEW q \in Queues
  PROVE  /\ InHand(q) \in Seq(Nat) /\ Len(InHand(q)) \in 0..1
         /\ ch[q] \in Seq(Nat) /\ Waiting[q] = InHand(q) \o ch[q]
         /\ Waiting[q] \in Seq(Nat) /\ Len(Waiting[q]) = Len(InHand(q)) + Len(ch[q])
<1>1. ch[q] \in Seq(Nat) /\ \A p \in Procs : body[p] \in Nat
  BY DEF Inv, Types, DataTypes
<1>2. InHand(q) = <<>> \/ \E p \in Procs : InHand(q) = <<body[p]>>
  BY HandNow
<1>3. InHand(q) \in Seq(Nat) /\ Len(InHand(q)) \in 0..1
  <2>1. CASE InHand(q) = <<>>
    BY <2>1
  <2>2. ASSUME NEW p \in Procs, InHand(q) = <<body[p]>>
        PROVE  InHand(q) \in Seq(Nat) /\ Len(InHand(q)) \in 0..1
    BY <1>1, <2>2
  <2> QED BY <1>2, <2>1, <2>2
<1>4. Waiting[q] = InHand(q) \o ch[q]
  BY DEF Waiting
<1>5. Waiting[q] \in Seq(Nat) /\ Len(Waiting[q]) = Len(InHand(q)) + Len(ch[q])
  BY <1>1, <1>3, <1>4
<1> QED BY <1>1, <1>3, <1>4, <1>5

\* A step that changes no queue and takes no event.
LEMMA HandSame ==
  ASSUME Inv, Inv', NEW q \in Queues,
         \A p \in Procs : Busy(p, q)' <=> Busy(p, q),
         \A p \in Procs : Busy(p, q) => body'[p] = body[p]
  PROVE  InHand(q)' = InHand(q)
<1>1. CASE \E p \in Procs : Busy(p, q)
  <2>1. PICK p \in Procs : Busy(p, q)
    BY <1>1
  <2>2. InHand(q) = <<body[p]>> /\ InHand(q)' = <<body'[p]>>
    BY <2>1, HandNow, HandNext
  <2> QED BY <2>1, <2>2
<1>2. CASE \A p \in Procs : ~Busy(p, q)
  BY <1>2, HandNow, HandNext
<1> QED BY <1>1, <1>2

LEMMA WaitingSame ==
  ASSUME Inv, Inv', \A p \in Procs, q \in Queues : Busy(p, q)' <=> Busy(p, q),
         \A p \in Procs, q \in Queues : Busy(p, q) => body'[p] = body[p],
         UNCHANGED ch
  PROVE  Waiting' = Waiting
BY HandSame DEF Waiting

\* A process that goes from one place to another with nothing in hand.
LEMMA QuietWaiting ==
  ASSUME Inv, Inv', NEW p \in Procs, NEW place, NEW q, GoTo(p, place, q),
         pc[p] \notin BusyPlaces, place \notin BusyPlaces, UNCHANGED <<ch, body>>
  PROVE  Waiting' = Waiting
<1>1. \A o \in Procs, r \in Queues : Busy(o, r)' <=> Busy(o, r)
  BY DEF Inv, Types, PlaceTypes, GoTo, Busy
<1> QED BY <1>1, WaitingSame

QueueState == <<qroom, Waiting, sent, done, Retired, down>>

\* A step that sends no process to a place the map matters for.
LEMMA MapStays ==
  ASSUME MapInv, UNCHANGED <<rooms, qroom, closed>>,
         \A f \in Procs : pc'[f] \in {"send", "delete"} => pc[f] = pc'[f] /\ pq'[f] = pq[f]
  PROVE  MapInv'
<1>1. MapTypes' /\ InMap' /\ Current'
  BY DEF MapInv, MapTypes, InMap, Current
<1>2. Opened'
  BY ProcFacts DEF MapInv, Opened
<1>3. Deleting'
  BY ProcFacts DEF MapInv, Deleting
<1> QED BY <1>1, <1>2, <1>3 DEF MapInv

\* A process that goes from one place to another with nothing in hand, to no place RoomQueues
\* hears of.
LEMMA QuietStep ==
  ASSUME Inv, Inv', MapInv, NEW p \in Procs, NEW place, NEW q, GoTo(p, place, q),
         pc[p] \notin BusyPlaces, place \notin BusyPlaces \cup {"send", "delete"},
         UNCHANGED <<rooms, qroom, closed, ch, body, sent, done, down>>
  PROVE  MapInv' /\ UNCHANGED QueueState
<1>1. Waiting' = Waiting
  BY QuietWaiting
<1>2. \A o \in Procs : pc'[o] \in {"send", "delete"} => pc[o] = pc'[o] /\ pq'[o] = pq[o]
  BY DEF GoTo, Inv, Types, PlaceTypes
<1>3. MapInv'
  BY <1>2, MapStays
<1> QED BY <1>1, <1>3 DEF QueueState, Retired

\* No process moves.
LEMMA StillStep ==
  ASSUME Inv, Inv', MapInv, UNCHANGED <<pc, pq, body, rooms, qroom, closed, ch>>
  PROVE  MapInv' /\ UNCHANGED <<qroom, Waiting, Retired>>
<1>1. Waiting' = Waiting
  <2>1. \A p \in Procs, q \in Queues : (Busy(p, q)' <=> Busy(p, q)) /\ body'[p] = body[p]
    BY DEF Busy
  <2> QED BY <2>1, WaitingSame
<1>2. MapInv'
  BY MapStays
<1> QED BY <1>1, <1>2 DEF Retired

LEMMA ScheduleMap ==
  ASSUME Inv, Inv', MapInv, NEW p \in Procs, MaybeSchedule(p)
  PROVE  MapInv' /\ UNCHANGED QueueState
<1>1. PICK place \in {Home(p), "claim", "push"}, q \in {Nil, pq[p]} : GoTo(p, place, q)
  BY DEF MaybeSchedule, ScheduleCheck, ScheduleClaim, SchedulePush
<1>2. pc[p] \notin BusyPlaces
  BY DEF MaybeSchedule, ScheduleCheck, ScheduleClaim, SchedulePush, BusyPlaces
<1>3. place \notin BusyPlaces \cup {"send", "delete"}
  BY HomeFacts DEF BusyPlaces, QueuePlaces, HolderPlaces
<1>4. UNCHANGED <<rooms, qroom, closed, ch, body, sent, done, down>>
  BY DEF MaybeSchedule, ScheduleCheck, ScheduleClaim, SchedulePush, qVars, histVars
<1> QED BY <1>1, <1>2, <1>3, <1>4, QuietStep

\* The steps of the dispatcher that take no event and close no queue.
LEMMA WorkerMap ==
  ASSUME Inv, Inv', MapInv,
         \/ Receive \/ Tick \/ WorkerExits \/ StartEviction \/ EndTick
         \/ \E r \in Rooms : Reschedule(r)
  PROVE  MapInv' /\ UNCHANGED QueueState
<1> USE ProcFacts
<1>1. UNCHANGED <<rooms, qroom, closed, ch, body, sent, done, down>>
  BY DEF Receive, Tick, WorkerExits, StartEviction, EndTick, Reschedule, WorkerRest, qVars, histVars
<1>2. CASE UNCHANGED <<pc, pq>>
  BY <1>1, <1>2, StillStep DEF QueueState
<1>3. CASE \E place \in {"process", "reschedule", "exited", "evict", "select", "check"} :
             \E q : GoTo(Worker, place, q)
  <2>1. PICK place \in {"process", "reschedule", "exited", "evict", "select", "check"} :
             \E q : GoTo(Worker, place, q)
    BY <1>3
  <2>2. PICK q : GoTo(Worker, place, q)
    BY <2>1
  <2>3. pc[Worker] \in {"select", "reschedule", "evict"}
    BY DEF Receive, Tick, WorkerExits, StartEviction, EndTick, Reschedule
  <2> QED BY <1>1, <2>2, <2>3, QuietStep DEF BusyPlaces
<1> QED BY <1>2, <1>3 DEF Receive, Tick, WorkerExits, StartEviction, EndTick, Reschedule

\* An emitter that takes the queue in the map, or opens one for a room that has none.
LEMMA GetQueueMap ==
  ASSUME Inv, Inv', MapInv, NEW e \in Emitters, GetQueue(e)
  PROVE  /\ MapInv' /\ UNCHANGED <<Waiting, sent, done, Retired, down>>
         /\ \/ UNCHANGED qroom
            \/ \E q \in Queues, r \in Rooms : RoomQ!Open(q, r)
<1> USE ProcFacts
<1> DEFINE r == target[e]
<1>1. /\ pc[e] = "get" /\ r \in Rooms
      /\ UNCHANGED <<ch, closed, body, sent, done, down>>
  BY DEF GetQueue, histVars, Inv, Types, PlaceTypes
<1>2. PICK q \in Queues : /\ GoTo(e, "send", q)
                          /\ \/ q = rooms[r] /\ rooms[r] # Nil /\ UNCHANGED <<rooms, qroom>>
                             \/ /\ rooms[r] = Nil /\ qroom[q] = Nil
                                /\ qroom' = [qroom EXCEPT ![q] = r]
                                /\ rooms' = [rooms EXCEPT ![r] = q]
  BY <1>1 DEF GetQueue, Inv, Types, DataTypes
<1>3. Waiting' = Waiting
  BY <1>1, <1>2, QuietWaiting DEF BusyPlaces
<1>4. Retired' = Retired
  BY <1>1 DEF Retired
<1>5. /\ pc' = [pc EXCEPT ![e] = "send"] /\ pq' = [pq EXCEPT ![e] = q]
      /\ pc \in [Procs -> Places] /\ pq \in [Procs -> Queues \cup {Nil}]
      /\ rooms \in [Rooms -> Queues \cup {Nil}] /\ Nil \notin Queues \cup Rooms
  BY <1>2, QueueAssumption DEF GoTo, Inv, Types, PlaceTypes, DataTypes
<1>6. Deleting'
  BY <1>1, <1>5 DEF MapInv, Deleting
<1>7. CASE q = rooms[r] /\ rooms[r] # Nil /\ UNCHANGED <<rooms, qroom>>
  <2>1. qroom[q] # Nil
    BY <1>1, <1>5, <1>7 DEF MapInv, InMap
  <2>2. Opened'
    BY <1>5, <1>7, <2>1 DEF MapInv, Opened
  <2> QED BY <1>1, <1>3, <1>4, <1>6, <1>7, <2>2 DEF MapInv, MapTypes, InMap, Current
<1>8. CASE /\ rooms[r] = Nil /\ qroom[q] = Nil
           /\ qroom' = [qroom EXCEPT ![q] = r]
           /\ rooms' = [rooms EXCEPT ![r] = q]
  <2>1. MapTypes'
    BY <1>1, <1>8 DEF MapInv, MapTypes
  <2>2. /\ qroom'[q] = r /\ \A o \in Queues : o # q => qroom'[o] = qroom[o]
        /\ rooms'[r] = q /\ \A s \in Rooms : s # r => rooms'[s] = rooms[s]
    BY <1>1, <1>5, <1>8 DEF MapInv, MapTypes
  <2>3. InMap'
    BY <1>1, <1>5, <1>8, <2>2 DEF MapInv, InMap
  <2>4. Current'
    BY <1>1, <1>5, <1>8, <2>2 DEF MapInv, MapTypes, Current
  <2>5. Opened'
    <3>1. ASSUME NEW f \in Emitters, pc'[f] = "send" PROVE qroom'[pq'[f]] # Nil
      <4>1. CASE f = e
        BY <1>1, <1>5, <2>2, <4>1
      <4>2. CASE f # e
        <5>1. pc[f] = "send" /\ pq'[f] = pq[f] /\ pq[f] \in Queues
          BY <1>5, <3>1, <4>2 DEF Inv, Types, PlaceTypes, QueuePlaces
        <5>2. qroom[pq[f]] # Nil
          BY <5>1 DEF MapInv, Opened
        <5> QED BY <1>8, <2>2, <5>1, <5>2
      <4> QED BY <4>1, <4>2
    <3> QED BY <3>1 DEF Opened
  <2>6. \A o \in Queues : qroom[o] = r => o \in Retired
    BY <1>1, <1>5, <1>8 DEF MapInv, Current, Retired
  <2>7. RoomQ!Open(q, r)
    BY <1>1, <1>3, <1>4, <1>8, <2>6 DEF RoomQ!Open, Waiting, Retired
  <2> QED BY <1>1, <1>3, <1>4, <1>6, <2>1, <2>3, <2>4, <2>5, <2>7 DEF MapInv
<1> QED BY <1>2, <1>7, <1>8

LEMMA AppendConcat ==
  ASSUME NEW s \in Seq(Nat), NEW t \in Seq(Nat), NEW x \in Nat
  PROVE  s \o Append(t, x) = Append(s \o t, x)
<1>1. Append(t, x) = t \o <<x>>
  BY AppendIsConcat
<1>2. s \o t \in Seq(Nat) /\ <<x>> \in Seq(Nat)
  OBVIOUS
<1>3. Append(s \o t, x) = (s \o t) \o <<x>>
  BY <1>2, AppendIsConcat
<1>4. (s \o t) \o <<x>> = s \o (t \o <<x>>)
  BY <1>2, ConcatAssociative, SMTT(20)
<1> QED BY <1>1, <1>3, <1>4

\* An event accepted: only by a queue that is not closed, at the end of its channel.
LEMMA TrySendMap ==
  ASSUME Inv, Inv', MapInv, NEW e \in Emitters, TrySend(e)
  PROVE  MapInv' /\ (UNCHANGED QueueState \/ \E q \in Queues : RoomQ!Accept(q))
<1> USE ProcFacts
<1>0. PICK q \in Queues : q = pq[e]
  BY DEF TrySend, Inv, Types, PlaceTypes, QueuePlaces
<1>1. /\ q = pq[e] /\ pc[e] = "send" /\ qroom[q] # Nil
      /\ UNCHANGED <<rooms, qroom, closed, body, done, down>>
      /\ GoTo(e, "get", Nil) \/ GoTo(e, "idle", Nil) \/ GoTo(e, "check", q)
  BY <1>0 DEF TrySend, MapInv, Opened
<1>2. CASE UNCHANGED <<ch, sent>>
  BY <1>1, <1>2, QuietStep DEF BusyPlaces
<1>3. CASE /\ ~closed[q] /\ Len(ch[q]) < QueueCap
           /\ sent' = [sent EXCEPT ![q] = @ + 1]
           /\ ch' = [ch EXCEPT ![q] = Append(@, sent[q] + 1)]
  <2>1. MapInv'
    <3>1. \A f \in Procs : pc'[f] \in {"send", "delete"} => pc[f] = pc'[f] /\ pq'[f] = pq[f]
      BY <1>1 DEF GoTo, Inv, Types, PlaceTypes
    <3> QED BY <1>1, <3>1, MapStays
  <2>2. \A o \in Queues : InHand(o)' = InHand(o)
    <3>1. \A p \in Procs, o \in Queues : Busy(p, o)' <=> Busy(p, o)
      BY <1>1 DEF GoTo, Inv, Types, PlaceTypes, Busy, BusyPlaces
    <3> QED BY <1>1, <3>1, HandSame
  <2>3. ASSUME NEW o \in Queues
        PROVE  Waiting'[o] = IF o = q THEN Append(Waiting[q], sent[q] + 1) ELSE Waiting[o]
    <3>1. Waiting'[o] = InHand(o) \o ch'[o]
      BY <2>2 DEF Waiting
    <3>2. CASE o = q
      <4>1. InHand(q) \in Seq(Nat) /\ ch[q] \in Seq(Nat)
        BY WaitingTypes
      <4>2. ch'[q] = Append(ch[q], sent[q] + 1)
        BY <1>1, <1>3 DEF Inv, Types, DataTypes
      <4>3. InHand(q) \o Append(ch[q], sent[q] + 1) = Append(InHand(q) \o ch[q], sent[q] + 1)
        <5>1. sent[q] + 1 \in Nat
          <6>1. sent[q] \in Nat
            BY DEF Inv, Types, DataTypes
          <6> QED BY <6>1
        <5> QED BY <4>1, <5>1, AppendConcat
      <4> QED BY <1>1, <3>1, <3>2, <4>2, <4>3 DEF Waiting
    <3>3. CASE o # q
      BY <1>3, <3>1, <3>3 DEF Waiting, Inv, Types, DataTypes
    <3> QED BY <3>2, <3>3
  <2>4. Waiting' = [Waiting EXCEPT ![q] = Append(@, sent[q] + 1)]
    BY <1>1, <2>3 DEF Waiting
  <2>5. Len(Waiting[q]) <= QueueCap
    <3>1. /\ Len(InHand(q)) \in 0..1 /\ Len(ch[q]) \in Nat
          /\ Len(Waiting[q]) = Len(InHand(q)) + Len(ch[q])
      BY WaitingTypes
    <3>2. \A m \in 0..1, n \in Nat : n < QueueCap => m + n <= QueueCap
      BY QueueAssumption
    <3> QED BY <1>3, <3>1, <3>2
  <2>6. RoomQ!Accept(q)
    BY <1>1, <1>3, <2>4, <2>5 DEF RoomQ!Accept, Waiting
  <2> QED BY <1>1, <2>1, <2>6
<1> QED BY <1>0, <1>2, <1>3 DEF TrySend

\* The oldest event goes from the channel into the dispatcher's hand.
LEMMA ProcessMap ==
  ASSUME Inv, Inv', MapInv, Process
  PROVE  MapInv' /\ UNCHANGED QueueState
<1> USE ProcFacts
<1>0. PICK q \in Queues : q = pq[Worker]
  BY DEF Process, Inv, Types, PlaceTypes, QueuePlaces, HolderPlaces
<1>1. /\ q = pq[Worker] /\ pc[Worker] = "process"
      /\ UNCHANGED <<rooms, qroom, closed, sent, done, down>>
  BY <1>0 DEF Process, WorkerRest, histVars
<1>2. CASE GoTo(Worker, "select", Nil) /\ UNCHANGED <<body, ch>>
  BY <1>1, <1>2, QuietStep DEF BusyPlaces
<1>3. CASE /\ ch[q] # <<>> /\ GoTo(Worker, "acquire", q)
           /\ body' = [body EXCEPT ![Worker] = Head(ch[q])]
           /\ ch' = [ch EXCEPT ![q] = Tail(@)]
  <2>1. MapInv'
    <3>1. \A f \in Procs : pc'[f] \in {"send", "delete"} => pc[f] = pc'[f] /\ pq'[f] = pq[f]
      BY <1>3 DEF GoTo, Inv, Types, PlaceTypes
    <3> QED BY <1>1, <3>1, MapStays
  <2>2. \A p \in Procs : ~Busy(p, q)
    <3>1. Holds(Worker, q) /\ ~Busy(Worker, q)
      BY <1>1 DEF Holds, HolderPlaces, Busy, BusyPlaces
    <3> QED BY <1>1, <3>1 DEF Inv, Claims, Busy, Holds, BusyPlaces, HolderPlaces
  <2>3. ASSUME NEW o \in Queues PROVE Waiting'[o] = Waiting[o]
    <3>1. CASE o = q
      <4>1. InHand(q) = <<>>
        BY <1>1, <2>2, HandNow
      <4>2. Busy(Worker, q)' /\ body'[Worker] = Head(ch[q])
        BY <1>1, <1>3 DEF GoTo, Inv, Types, PlaceTypes, DataTypes, Busy, BusyPlaces
      <4>3. InHand(q)' = <<Head(ch[q])>>
        BY <1>1, <4>2, HandNext
      <4>4. ch[q] \in Seq(Nat) /\ ch'[q] = Tail(ch[q])
        BY <1>1, <1>3 DEF Inv, Types, DataTypes
      <4>5. <<Head(ch[q])>> \o Tail(ch[q]) = <<>> \o ch[q]
        BY <1>3, <4>4
      <4> QED BY <1>1, <3>1, <4>1, <4>3, <4>4, <4>5 DEF Waiting
    <3>2. CASE o # q
      <4>1. \A p \in Procs : (Busy(p, o)' <=> Busy(p, o)) /\ (Busy(p, o) => body'[p] = body[p])
        <5>1. \A p \in Procs : p # Worker => pc'[p] = pc[p] /\ pq'[p] = pq[p] /\ body'[p] = body[p]
          BY <1>1, <1>3 DEF GoTo, Inv, Types, PlaceTypes, DataTypes
        <5>2. pq[Worker] = q /\ pq'[Worker] = q
          BY <1>1, <1>3 DEF GoTo, Inv, Types, PlaceTypes
        <5>3. ~Busy(Worker, o) /\ ~Busy(Worker, o)'
          BY <3>2, <5>2 DEF Busy
        <5> QED BY <5>1, <5>3 DEF Busy
      <4>2. InHand(o)' = InHand(o)
        BY <4>1, HandSame
      <4>3. ch'[o] = ch[o]
        BY <1>3, <3>2 DEF Inv, Types, DataTypes
      <4> QED BY <4>2, <4>3 DEF Waiting
    <3> QED BY <3>1, <3>2
  <2>4. Waiting' = Waiting
    BY <2>3 DEF Waiting
  <2> QED BY <1>1, <2>1, <2>4 DEF QueueState, Retired
<1> QED BY <1>0, <1>2, <1>3 DEF Process

\* The event goes from the dispatcher's hand to a delivery.
LEMMA StartDeliverMap ==
  ASSUME Inv, Inv', MapInv, NEW d \in Deliverers, StartDeliver(d)
  PROVE  MapInv' /\ UNCHANGED QueueState
<1> USE ProcFacts
<1>0. PICK q \in Queues : q = pq[Worker]
  BY DEF StartDeliver, Inv, Types, PlaceTypes, QueuePlaces, HolderPlaces
<1>1. /\ q = pq[Worker] /\ pc[Worker] = "acquire" /\ pc[d] = "free"
      /\ pc' = [pc EXCEPT ![Worker] = "select", ![d] = "post"]
      /\ pq' = [pq EXCEPT ![Worker] = Nil, ![d] = q]
      /\ body' = [body EXCEPT ![Worker] = 0, ![d] = body[Worker]]
      /\ UNCHANGED <<rooms, qroom, closed, ch, sent, done, down>>
  BY <1>0 DEF StartDeliver, qVars, histVars
<1>2. MapInv'
  <2>1. \A f \in Procs : pc'[f] \in {"send", "delete"} => pc[f] = pc'[f] /\ pq'[f] = pq[f]
    BY <1>1 DEF Inv, Types, PlaceTypes
  <2> QED BY <1>1, <2>1, MapStays
<1>3. ASSUME NEW o \in Queues PROVE InHand(o)' = InHand(o)
  <2>1. CASE o = q
    <3>1. Busy(Worker, q) /\ Busy(d, q)' /\ body'[d] = body[Worker]
      BY <1>1 DEF Inv, Types, PlaceTypes, DataTypes, Busy, BusyPlaces
    <3>2. InHand(q) = <<body[Worker]>> /\ InHand(q)' = <<body'[d]>>
      BY <3>1, HandNow, HandNext
    <3> QED BY <2>1, <3>1, <3>2
  <2>2. CASE o # q
    <3>1. \A p \in Procs : (Busy(p, o)' <=> Busy(p, o)) /\ (Busy(p, o) => body'[p] = body[p])
      <4>1. \A p \in Procs : p # Worker /\ p # d =>
                                pc'[p] = pc[p] /\ pq'[p] = pq[p] /\ body'[p] = body[p]
        BY <1>1 DEF Inv, Types, PlaceTypes, DataTypes
      <4>2. pq[Worker] # o /\ pq'[Worker] # o /\ pq'[d] # o
        BY <1>1, <2>2, QueueAssumption DEF Inv, Types, PlaceTypes
      <4>3. ~Busy(d, o)
        BY <1>1 DEF Busy, BusyPlaces
      <4>4. ~Busy(Worker, o) /\ ~Busy(Worker, o)' /\ ~Busy(d, o)'
        BY <4>2 DEF Busy
      <4>5. \A p \in Procs : p # Worker /\ p # d => (Busy(p, o)' <=> Busy(p, o))
        BY <4>1 DEF Busy
      <4> QED BY <4>1, <4>3, <4>4, <4>5
    <3> QED BY <3>1, HandSame
  <2> QED BY <2>1, <2>2
<1>4. Waiting' = Waiting
  BY <1>1, <1>3 DEF Waiting
<1> QED BY <1>1, <1>2, <1>4 DEF QueueState, Retired

\* The event in hand goes: what waits is what is in the channel.
LEMMA HandLeaves ==
  ASSUME Inv, Inv', NEW p \in Procs, NEW q \in Queues, NEW place, NEW r \in Queues \cup {Nil},
         Busy(p, q), GoTo(p, place, r), place \notin BusyPlaces,
         \A o \in Procs : o # p => body'[o] = body[o], UNCHANGED ch
  PROVE  Waiting[q] # <<>> /\ Waiting' = [Waiting EXCEPT ![q] = Tail(@)]
<1>1. \A o \in Procs : Busy(o, q) => o = p
  BY DEF Inv, Claims, Busy, Holds, BusyPlaces, HolderPlaces
<1>2. \A o \in Procs, x \in Queues : Busy(o, x)' <=> Busy(o, x) /\ o # p
  BY DEF GoTo, Inv, Types, PlaceTypes, Busy
<1>3. InHand(q) = <<body[p]>> /\ InHand(q)' = <<>>
  BY <1>1, <1>2, HandNow, HandNext
<1>4. ch[q] \in Seq(Nat) /\ body[p] \in Nat
  BY DEF Inv, Types, DataTypes
<1>5. Waiting[q] = <<body[p]>> \o ch[q] /\ Waiting'[q] = <<>> \o ch[q]
  BY <1>3 DEF Waiting
<1>6. <<body[p]>> \o ch[q] # <<>> /\ Tail(<<body[p]>> \o ch[q]) = <<>> \o ch[q]
  BY <1>4
<1>7. ASSUME NEW x \in Queues, x # q PROVE Waiting'[x] = Waiting[x]
  <2>1. ~Busy(p, x)
    BY <1>7 DEF Busy
  <2>2. \A o \in Procs : (Busy(o, x)' <=> Busy(o, x)) /\ (Busy(o, x) => body'[o] = body[o])
    BY <1>2, <2>1
  <2>3. InHand(x)' = InHand(x)
    BY <2>2, HandSame
  <2> QED BY <2>3 DEF Waiting
<1> QED BY <1>5, <1>6, <1>7 DEF Waiting

\* The service stops, and the event in hand is lost.
LEMMA AcquireFailsMap ==
  ASSUME Inv, Inv', MapInv, AcquireFails
  PROVE  MapInv' /\ \E q \in Queues : RoomQ!Lose(q)
<1> USE ProcFacts
<1>0. PICK q \in Queues : q = pq[Worker]
  BY DEF AcquireFails, Inv, Types, PlaceTypes, QueuePlaces, HolderPlaces
<1>1. /\ Busy(Worker, q) /\ GoTo(Worker, "select", Nil) /\ down
      /\ \A o \in Procs : o # Worker => body'[o] = body[o]
      /\ UNCHANGED <<rooms, qroom, closed, ch, sent, done, down>>
  BY <1>0 DEF AcquireFails, Busy, BusyPlaces, qVars, WorkerRest, histVars, Inv, Types, DataTypes
<1>2. MapInv'
  <2>1. \A f \in Procs : pc'[f] \in {"send", "delete"} => pc[f] = pc'[f] /\ pq'[f] = pq[f]
    BY <1>1 DEF GoTo, Inv, Types, PlaceTypes
  <2> QED BY <1>1, <2>1, MapStays
<1>3. Waiting[q] # <<>> /\ Waiting' = [Waiting EXCEPT ![q] = Tail(@)]
  BY <1>1, HandLeaves DEF BusyPlaces
<1>4. RoomQ!Lose(q)
  BY <1>1, <1>3 DEF RoomQ!Lose, RoomQ!Leaves, Waiting
<1> QED BY <1>2, <1>4

\* The event in hand is delivered.
LEMMA DeliverEndsMap ==
  ASSUME Inv, Inv', MapInv, NEW d \in Deliverers, DeliverEnds(d)
  PROVE  MapInv' /\ \E q \in Queues : RoomQ!Deliver(q)
<1> USE ProcFacts
<1>0. PICK q \in Queues : q = pq[d]
  BY DEF DeliverEnds, Inv, Types, PlaceTypes, QueuePlaces, HolderPlaces
<1>1. /\ Busy(d, q) /\ GoTo(d, "after", q) /\ done' = [done EXCEPT ![q] = @ + 1]
      /\ \A o \in Procs : o # d => body'[o] = body[o]
      /\ UNCHANGED <<rooms, qroom, closed, ch, sent, down>>
  BY <1>0 DEF DeliverEnds, Busy, BusyPlaces, qVars, Inv, Types, DataTypes
<1>2. MapInv'
  <2>1. \A f \in Procs : pc'[f] \in {"send", "delete"} => pc[f] = pc'[f] /\ pq'[f] = pq[f]
    BY <1>1 DEF GoTo, Inv, Types, PlaceTypes
  <2> QED BY <1>1, <2>1, MapStays
<1>3. Waiting[q] # <<>> /\ Waiting' = [Waiting EXCEPT ![q] = Tail(@)]
  BY <1>1, HandLeaves DEF BusyPlaces
<1>4. RoomQ!Deliver(q)
  BY <1>1, <1>3 DEF RoomQ!Deliver, RoomQ!Leaves, Waiting
<1> QED BY <1>2, <1>4

\* The other steps of emitters and deliveries.
LEMMA OtherMap ==
  ASSUME Inv, Inv', MapInv,
         \/ \E e \in Emitters, r \in Rooms : Emit(e, r)
         \/ \E d \in Deliverers : DeliverAfter(d) \/ \E u \in Urls : Post(d, u)
  PROVE  MapInv' /\ UNCHANGED QueueState
<1> USE ProcFacts
<1>1. UNCHANGED <<rooms, qroom, closed, ch, body, sent, done, down>>
  BY DEF Emit, DeliverAfter, Post, qVars, histVars
<1>2. ASSUME NEW e \in Emitters, NEW r \in Rooms, Emit(e, r)
      PROVE  MapInv' /\ UNCHANGED QueueState
  <2>1. GoTo(e, "get", Nil) /\ pc[e] = "idle"
    BY <1>2 DEF Emit
  <2> QED BY <1>1, <2>1, QuietStep DEF BusyPlaces
<1>3. ASSUME NEW d \in Deliverers, DeliverAfter(d)
      PROVE  MapInv' /\ UNCHANGED QueueState
  <2>1. /\ GoTo(d, "check", pq[d]) \/ GoTo(d, "free", Nil)
        /\ pc[d] = "after"
    BY <1>3 DEF DeliverAfter
  <2> QED BY <1>1, <2>1, QuietStep DEF BusyPlaces
<1>4. ASSUME NEW d \in Deliverers, NEW u \in Urls, Post(d, u)
      PROVE  MapInv' /\ UNCHANGED QueueState
  <2>1. UNCHANGED <<pc, pq>>
    BY <1>4 DEF Post
  <2> QED BY <1>1, <2>1, StillStep DEF QueueState
<1> QED BY <1>2, <1>3, <1>4

\* An eviction closes a queue whose channel is empty: one event at most is under way.
LEMMA EvictMap ==
  ASSUME Inv, Inv', MapInv, NEW r \in Rooms, Evict(r)
  PROVE  MapInv' /\ (UNCHANGED QueueState \/ \E q \in Queues : RoomQ!Retire(q))
<1> USE ProcFacts
<1>1. pc[Worker] = "evict" /\ UNCHANGED <<rooms, qroom, ch, body, sent, done, down>>
  BY DEF Evict, WorkerRest, histVars
<1>2. CASE UNCHANGED <<pc, pq, closed>>
  BY <1>1, <1>2, StillStep DEF QueueState
<1>3. CASE /\ rooms[r] # Nil /\ ~closed[rooms[r]] /\ ch[rooms[r]] = <<>>
           /\ closed' = [closed EXCEPT ![rooms[r]] = TRUE]
           /\ GoTo(Worker, "delete", rooms[r])
  <2>1. PICK q \in Queues : q = rooms[r]
    BY <1>3 DEF Inv, Types, DataTypes
  <2>2. /\ ~closed[q] /\ ch[q] = <<>> /\ qroom[q] = r /\ r # Nil
        /\ closed' = [closed EXCEPT ![q] = TRUE] /\ GoTo(Worker, "delete", q)
    BY <1>3, <2>1, QueueAssumption DEF MapInv, InMap
  <2>3. Waiting' = Waiting
    BY <1>1, <2>2, QuietWaiting DEF BusyPlaces
  <2>4. \A o \in Queues : closed'[o] <=> closed[o] \/ o = q
    BY <2>2 DEF MapInv, MapTypes
  <2>5. MapInv'
    <3>1. MapTypes' /\ InMap'
      BY <1>1, <2>2 DEF MapInv, MapTypes, InMap
    <3>2. Current'
      BY <1>1, <2>4 DEF MapInv, Current
    <3>3. Opened'
      BY <1>1, <2>2 DEF MapInv, Opened, GoTo, Inv, Types, PlaceTypes
    <3>4. Deleting'
      BY <2>2, <2>4 DEF Deleting, GoTo, Inv, Types, PlaceTypes
    <3> QED BY <3>1, <3>2, <3>3, <3>4 DEF MapInv
  <2>6. Retired' = Retired \cup {q} /\ q \notin Retired
    BY <2>2, <2>4 DEF Retired
  <2>7. Len(Waiting[q]) <= 1
    <3>1. Len(InHand(q)) \in 0..1 /\ Len(Waiting[q]) = Len(InHand(q)) + Len(ch[q])
      BY WaitingTypes
    <3>2. Len(ch[q]) = 0
      BY <2>2
    <3>3. \A m \in 0..1 : m + 0 <= 1
      OBVIOUS
    <3> QED BY <3>1, <3>2, <3>3
  <2>8. RoomQ!Retire(q)
    BY <1>1, <2>2, <2>3, <2>6, <2>7 DEF RoomQ!Retire, Waiting, Retired
  <2> QED BY <2>5, <2>8
<1> QED BY <1>2, <1>3 DEF Evict

\* The closed queue leaves the map, unless the room has another one already.
LEMMA DeleteRoomMap ==
  ASSUME Inv, Inv', MapInv, DeleteRoom
  PROVE  MapInv' /\ UNCHANGED QueueState
<1> USE ProcFacts
<1>0. PICK q \in Queues : q = pq[Worker]
  BY DEF DeleteRoom, Inv, Types, PlaceTypes, QueuePlaces
<1>1. /\ pc[Worker] = "delete" /\ closed[q] /\ GoTo(Worker, "evict", Nil)
      /\ rooms' = [rooms EXCEPT ![qroom[q]] = IF @ = q THEN Nil ELSE @]
      /\ UNCHANGED <<qroom, ch, closed, body, sent, done, down>>
  BY <1>0 DEF DeleteRoom, WorkerRest, histVars, MapInv, Deleting
<1>2. \A r \in Rooms : rooms'[r] = IF r = qroom[q] /\ rooms[r] = q THEN Nil ELSE rooms[r]
  BY <1>1 DEF Inv, Types, DataTypes
<1>3. Waiting' = Waiting
  BY <1>1, QuietWaiting DEF BusyPlaces
<1>4. InMap'
  BY <1>1, <1>2 DEF MapInv, InMap
<1>5. Current'
  <2>1. ASSUME NEW o \in Queues, qroom[o] # Nil, ~closed[o] PROVE rooms'[qroom[o]] = o
    <3>1. rooms[qroom[o]] = o /\ qroom[o] \in Rooms /\ o # q
      BY <1>1, <2>1 DEF MapInv, MapTypes, Current
    <3> QED BY <1>2, <3>1
  <2> QED BY <1>1, <2>1 DEF Current
<1>6. Opened' /\ Deleting'
  BY <1>1 DEF MapInv, Opened, Deleting, GoTo, Inv, Types, PlaceTypes
<1> QED BY <1>1, <1>3, <1>4, <1>5, <1>6 DEF MapInv, MapTypes, QueueState, Retired

-------------------------------------------------------------------------------
(* The refinement.                                                         *)

LEMMA InitMap == Init => MapInv /\ RoomQ!Init
<1> SUFFICES ASSUME Init PROVE MapInv /\ RoomQ!Init
  OBVIOUS
<1>1. MapInv
  BY ProcFacts DEF Init, MapInv, MapTypes, InMap, Current, Opened, Deleting
<1>2. \A q \in Queues : InHand(q) = <<>>
  <2>1. \A p \in Procs : pc[p] \notin BusyPlaces
    BY DEF Init, BusyPlaces
  <2> QED BY <2>1, NoHand, HandIs
<1>3. [q \in Queues |-> InHand(q) \o ch[q]] = [q \in Queues |-> <<>>]
  BY <1>2 DEF Init
<1>4. {q \in Queues : closed[q]} = {}
  BY DEF Init
<1> QED BY <1>1, <1>3, <1>4 DEF Init, RoomQ!Init

\* Every step of a goroutine is a step of the queues, or none.
LEMMA NextMap == Inv /\ Inv' /\ MapInv /\ [Next]_vars => MapInv' /\ [RoomQ!Next]_RoomQ!vars
<1> SUFFICES ASSUME Inv, Inv', MapInv, [Next]_vars PROVE MapInv' /\ [RoomQ!Next]_RoomQ!vars
  OBVIOUS
<1>0. UNCHANGED QueueState => UNCHANGED RoomQ!vars
  BY DEF QueueState, Waiting, Retired, RoomQ!vars
<1>1. ASSUME NEW p \in Procs, MaybeSchedule(p) PROVE MapInv' /\ UNCHANGED QueueState
  BY <1>1, ScheduleMap
<1>2. ASSUME NEW e \in Emitters, EmitterSteps(e) \/ \E r \in Rooms : Emit(e, r)
      PROVE  MapInv' /\ [RoomQ!Next]_RoomQ!vars
  <2>1. CASE GetQueue(e)
    <3>1. CASE UNCHANGED qroom
      BY <1>0, <2>1, <3>1, GetQueueMap DEF QueueState
    <3>2. ASSUME NEW q \in Queues, NEW r \in Rooms, RoomQ!Open(q, r)
          PROVE  [RoomQ!Next]_RoomQ!vars
      BY <3>2 DEF RoomQ!Next, RoomQ!QueueSteps
    <3> QED BY <2>1, <3>1, <3>2, GetQueueMap
  <2>2. CASE TrySend(e)
    BY <1>0, <2>2, TrySendMap DEF RoomQ!Next, RoomQ!QueueSteps
  <2>3. CASE MaybeSchedule(e) \/ \E r \in Rooms : Emit(e, r)
    BY <1>0, <1>1, <2>3, OtherMap, ProcFacts
  <2> QED BY <1>2, <2>1, <2>2, <2>3 DEF EmitterSteps
<1>3. ASSUME NEW d \in Deliverers, Deliver(d) PROVE MapInv' /\ [RoomQ!Next]_RoomQ!vars
  <2>1. CASE DeliverEnds(d)
    BY <2>1, DeliverEndsMap DEF RoomQ!Next, RoomQ!QueueSteps
  <2>2. CASE DeliverAfter(d) \/ MaybeSchedule(d) \/ \E u \in Urls : Post(d, u)
    BY <1>0, <1>1, <2>2, OtherMap, ProcFacts
  <2> QED BY <1>3, <2>1, <2>2 DEF Deliver
<1>4. CASE Receive \/ Tick \/ WorkerExits
  BY <1>0, <1>4, WorkerMap
<1>5. CASE Dispatch
  <2>1. CASE AcquireFails
    BY <2>1, AcquireFailsMap DEF RoomQ!Next, RoomQ!QueueSteps
  <2>2. ASSUME NEW r \in Rooms, Evict(r) PROVE MapInv' /\ [RoomQ!Next]_RoomQ!vars
    BY <1>0, <2>2, EvictMap DEF RoomQ!Next, RoomQ!QueueSteps
  <2>3. CASE StartEviction \/ EndTick \/ \E r \in Rooms : Reschedule(r)
    BY <1>0, <2>3, WorkerMap
  <2>4. CASE Process \/ DeleteRoom \/ \E d \in Deliverers : StartDeliver(d)
    BY <1>0, <2>4, ProcessMap, DeleteRoomMap, StartDeliverMap
  <2>5. CASE MaybeSchedule(Worker)
    BY <1>0, <1>1, <2>5, ProcFacts
  <2> QED BY <1>5, <2>1, <2>2, <2>3, <2>4, <2>5 DEF Dispatch
<1>6. CASE Stop
  <2>1. /\ UNCHANGED <<pc, pq, body, rooms, qroom, closed, ch, sent, done>>
        /\ ~down /\ down' = TRUE
    BY <1>6 DEF Stop, qVars, histVars
  <2>2. MapInv' /\ UNCHANGED <<qroom, Waiting, Retired>>
    BY <2>1, StillStep
  <2>3. RoomQ!Stop
    BY <2>1, <2>2 DEF RoomQ!Stop, Waiting, Retired
  <2> QED BY <2>2, <2>3 DEF RoomQ!Next
<1>7. CASE UNCHANGED vars
  <2>1. UNCHANGED <<pc, pq, body, rooms, qroom, closed, ch, sent, done, down>>
    BY <1>7 DEF vars, qVars, histVars
  <2>2. MapInv' /\ UNCHANGED <<qroom, Waiting, Retired>>
    BY <2>1, StillStep
  <2> QED BY <1>0, <2>1, <2>2 DEF QueueState
<1> QED BY <1>2, <1>3, <1>4, <1>5, <1>6, <1>7 DEF Next

\* The goroutines of the webhook service, with every hand-over, missed wake-up and eviction,
\* behave like queues that a room has one after the other, each in order and closed for
\* new events once it is retired (getOrCreateQueue, trySend, startDeliver, evictIdleRooms).
THEOREM QueuesOfRooms == Spec => ImplementsRoomQueues
<1>1. Init => Inv /\ MapInv /\ RoomQ!Init
  BY InitInv, InitMap
<1>2. Inv /\ MapInv /\ [Next]_vars => Inv' /\ MapInv' /\ [RoomQ!Next]_RoomQ!vars
  BY NextInv, NextMap
<1> QED BY <1>1, <1>2, PTL DEF Spec, ImplementsRoomQueues, RoomQ!Spec
===============================================================================
