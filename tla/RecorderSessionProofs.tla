------------------------- MODULE RecorderSessionProofs -------------------------
(***************************************************************************)
(* Proofs about RecorderSession, for any number of rooms, sessions, calls  *)
(* and goroutines and any limits.                                          *)
(***************************************************************************)
EXTENDS RecorderSession, TLAPS, FiniteSetTheorems

--------------------------------------------------------------------------------
(* Type correctness: the parts of TypeOK a step leaves alone, the moves of *)
(* one process, then one step per action.                                  *)

\* A group of variables that does not change keeps its types.
LEMMA Frames ==
  /\ MapsTyped /\ UNCHANGED mapVars => MapsTyped'
  /\ EndsTyped /\ UNCHANGED endVars => EndsTyped'
  /\ CallersTyped /\ UNCHANGED callerVars => CallersTyped'
  /\ WorkersTyped /\ UNCHANGED workerVars => WorkersTyped'
  /\ SideTyped /\ UNCHANGED sideVars => SideTyped'
BY DEF MapsTyped, EndsTyped, CallersTyped, WorkersTyped, SideTyped,
       mapVars, endVars, callerVars, workerVars, sideVars

\* A call of Start that moves inside internalStart, or returns, stays typed.
LEMMA CallerMoves ==
  ASSUME NEW c \in Callers, CallersTyped
  PROVE  /\ cpc[c] # "idle" /\ CallerTo(c, "connect") => CallersTyped'
         /\ cpc[c] # "idle" /\ CallerTo(c, "confirm") => CallersTyped'
         /\ CallerReturns(c) => CallersTyped'
BY DEF CallersTyped, CallerTo, CallerReturns, CallerPlaces

\* A goroutine that moves inside recover(), or ends, stays typed.
LEMMA WorkerMoves ==
  ASSUME NEW w \in Workers, WorkersTyped
  PROVE  /\ \A place \in WorkerPlaces :
              wpc[w] # "free" /\ WorkerTo(w, place) => WorkersTyped'
         /\ Leave(w) => WorkersTyped'
<1>1. ASSUME NEW place \in WorkerPlaces, wpc[w] # "free", WorkerTo(w, place)
      PROVE  WorkersTyped'
  BY <1>1 DEF WorkersTyped, WorkerTo
<1>2. ASSUME Leave(w) PROVE WorkersTyped'
  BY <1>2 DEF WorkersTyped, Leave, WorkerPlaces
<1>3. QED
  BY <1>1, <1>2

\* Adding an event to one session's sequence keeps the sequences typed.
LEMMA Events ==
  ASSUME SideTyped, NEW s \in Infos, NEW e \in {"started", "ended"}
  PROVE  [events EXCEPT ![s] = Append(@, e)] \in [Infos -> Seq({"started", "ended"})]
<1>1. events[s] \in Seq({"started", "ended"})
  BY DEF SideTyped
<1>2. Append(events[s], e) \in Seq({"started", "ended"})
  BY <1>1
<1>3. QED
  BY <1>2 DEF SideTyped

\* NewService leaves every map, call and goroutine typed.
LEMMA TypeInit == Init => TypeOK
<1> SUFFICES ASSUME Init PROVE TypeOK
  OBVIOUS
<1>1. MapsTyped /\ EndsTyped
  BY DEF Init, MapsTyped, EndsTyped
<1>2. CallersTyped
  BY DEF Init, CallersTyped, CallerPlaces
<1>3. WorkersTyped
  BY DEF Init, WorkersTyped, WorkerPlaces
<1>4. SideTyped
  <2>1. <<>> \in Seq({"started", "ended"})
    OBVIOUS
  <2>2. QED
    BY <2>1 DEF Init, SideTyped
<1>5. QED
  BY <1>1, <1>2, <1>3, <1>4 DEF TypeOK

\* Every action keeps the types: one step of the proof per action.
LEMMA TypeStep == TypeOK /\ [Next]_vars => TypeOK'
<1> SUFFICES ASSUME TypeOK, [Next]_vars PROVE TypeOK'
  OBVIOUS
<1> USE NilAssumption, Frames DEF TypeOK, mapVars, endVars, callerVars, workerVars,
        sideVars
<1>1. ASSUME NEW c \in Callers, NEW r \in Rooms, StartCheck(c, r) PROVE TypeOK'
  BY <1>1 DEF StartCheck, StatusOf, CallersTyped, CallerPlaces
<1>2. ASSUME NEW c \in Callers, StartReserve(c) PROVE TypeOK'
  <2>1. CallersTyped'
    BY <1>2, CallerMoves DEF StartReserve
  <2>2. pending' \in SUBSET Rooms
    BY <1>2 DEF StartReserve, Reserve, MapsTyped, CallersTyped
  <2>3. QED
    BY <1>2, <2>1, <2>2 DEF StartReserve, MapsTyped
<1>3. ASSUME NEW c \in Callers, StartFail(c) PROVE TypeOK'
  BY <1>3, CallerMoves DEF StartFail, Abort, MapsTyped
<1>4. ASSUME NEW c \in Callers, StartConnected(c) PROVE TypeOK'
  BY <1>4, CallerMoves DEF StartConnected
<1>5. ASSUME NEW c \in Callers, NEW s \in Infos, StartConfirm(c, s) PROVE TypeOK'
  BY <1>5 DEF StartConfirm, MapsTyped, CallersTyped, CallerPlaces, SideTyped
<1>6. ASSUME NEW c \in Callers, NEW w \in Workers, StartAnnounce(c, w) PROVE TypeOK'
  <2>1. CallersTyped'
    BY <1>6, CallerMoves DEF StartAnnounce
  <2>2. WorkersTyped'
    BY <1>6 DEF StartAnnounce, WorkersTyped, CallersTyped, WorkerPlaces
  <2>3. events' \in [Infos -> Seq({"started", "ended"})]
    BY <1>6, Events DEF StartAnnounce, CallersTyped
  <2>4. QED
    BY <1>6, <2>1, <2>2, <2>3 DEF StartAnnounce, SideTyped
<1>7. ASSUME NEW r \in Rooms, UserStop(r) PROVE TypeOK'
  BY <1>7 DEF UserStop, StopTake, MapsTyped, EndsTyped
<1>8. ASSUME NEW s \in Infos, StopFinish(s) PROVE TypeOK'
  <2>1. events' \in [Infos -> Seq({"started", "ended"})]
    BY <1>8, Events DEF StopFinish
  <2>2. QED
    BY <1>8, <2>1 DEF StopFinish, EndsTyped, SideTyped
<1>9. ASSUME Shutdown PROVE TypeOK'
  BY <1>9 DEF Shutdown, EndsTyped
<1>10. ASSUME NEW w \in Workers, CaptureEnds(w) PROVE TypeOK'
  BY <1>10, WorkerMoves DEF CaptureEnds, WorkerPlaces, LoopPlaces
<1>11. ASSUME NEW w \in Workers, RecoverLoad(w) PROVE TypeOK'
  BY <1>11, WorkerMoves DEF RecoverLoad, StatusOf, MapsTyped, WorkersTyped, WorkerPlaces, LoopPlaces
<1>12. ASSUME NEW w \in Workers, RecoverMark(w) PROVE TypeOK'
  BY <1>12, WorkerMoves DEF RecoverMark, MapsTyped, SideTyped, WorkerPlaces, LoopPlaces
<1>13. ASSUME NEW w \in Workers, RecoverRetry(w) PROVE TypeOK'
  BY <1>13, WorkerMoves DEF RecoverRetry, WorkerPlaces, LoopPlaces
<1>14. ASSUME NEW w \in Workers, RecoverReserve(w) PROVE TypeOK'
  BY <1>14, WorkerMoves DEF RecoverReserve, Reserve, MapsTyped, WorkersTyped, WorkerPlaces, LoopPlaces
<1>15. ASSUME NEW w \in Workers, RecoverFail(w) PROVE TypeOK'
  BY <1>15, WorkerMoves DEF RecoverFail, Abort, MapsTyped, WorkerPlaces, LoopPlaces
<1>16. ASSUME NEW w \in Workers, RecoverConnected(w) PROVE TypeOK'
  BY <1>16, WorkerMoves DEF RecoverConnected, Abort, MapsTyped, WorkerPlaces, LoopPlaces
<1>17. ASSUME NEW w \in Workers, RecoverConfirm(w) PROVE TypeOK'
  BY <1>17, WorkerMoves DEF RecoverConfirm, MapsTyped, WorkersTyped, WorkerPlaces, LoopPlaces
<1>18. ASSUME NEW w \in Workers, RecoverRecheck(w) PROVE TypeOK'
  BY <1>18, WorkerMoves DEF RecoverRecheck, WorkersTyped, WorkerPlaces, LoopPlaces
<1>19. ASSUME NEW w \in Workers, RecoverTail(w) PROVE TypeOK'
  BY <1>19, WorkerMoves DEF RecoverTail, SideTyped, WorkerPlaces, LoopPlaces
<1>20. ASSUME NEW w \in Workers, RecoverBackoff(w) PROVE TypeOK'
  BY <1>20, WorkerMoves DEF RecoverBackoff, WorkerPlaces, LoopPlaces
<1>21. ASSUME NEW w \in Workers, RecoverWake(w) PROVE TypeOK'
  BY <1>21 DEF RecoverWake, WorkersTyped, WorkerPlaces, LoopPlaces
<1>22. ASSUME NEW w \in Workers, RecoverInterrupted(w) PROVE TypeOK'
  BY <1>22, WorkerMoves DEF RecoverInterrupted, WorkerPlaces, LoopPlaces
<1>23. ASSUME NEW w \in Workers, RecoverGiveUp(w) PROVE TypeOK'
  BY <1>23, WorkerMoves DEF RecoverGiveUp, StopTake, MapsTyped, EndsTyped, WorkersTyped, WorkerPlaces, LoopPlaces
<1>24. CASE UNCHANGED vars
  BY <1>24 DEF vars
<1>25. QED
  BY <1>1, <1>2, <1>3, <1>4, <1>5, <1>6, <1>7, <1>8, <1>9, <1>10, <1>11, <1>12, <1>13, <1>14, <1>15, <1>16, <1>17, <1>18, <1>19, <1>20, <1>21, <1>22, <1>23, <1>24 DEF Next, Caller, Recovery

\* Every reachable state has the declared types, and a goroutine inside recover()
\* always holds a room and a session (recover never runs on a nil *Info).
THEOREM TypeCorrect == Spec => []TypeOK
<1>1. TypeOK /\ [Next]_vars => TypeOK'
  BY TypeStep
<1>2. QED
  BY <1>1, TypeInit, PTL DEF Spec

--------------------------------------------------------------------------------
(* The reservation: inductive together with the types.                     *)

\* Nothing is reserved and nobody is inside internalStart at first.
LEMMA ReservationInit == Init => ReservationExclusive
BY DEF Init, ReservationExclusive, CallerHolds, WorkerHolds, Holding

\* What a step must leave alone to leave the reservation alone.
LEMMA SameHolders ==
  ASSUME ReservationExclusive, pending' = pending,
         \A c \in Callers, r \in Rooms : CallerHolds(c, r)' <=> CallerHolds(c, r),
         \A w \in Workers, r \in Rooms : WorkerHolds(w, r)' <=> WorkerHolds(w, r)
  PROVE  ReservationExclusive'
BY DEF ReservationExclusive

\* Only Reserve, ConfirmWith and Abort move a reservation, each for the attempt
\* that makes the call.
LEMMA ReservationStep ==
  TypeOK /\ ReservationExclusive /\ [Next]_vars => ReservationExclusive'
<1> SUFFICES ASSUME TypeOK, ReservationExclusive, [Next]_vars
             PROVE  ReservationExclusive'
  OBVIOUS
<1> USE DEF TypeOK, MapsTyped, CallersTyped, WorkersTyped, CallerPlaces, WorkerPlaces,
        LoopPlaces, Holding, ReservationExclusive, CallerHolds, WorkerHolds,
        mapVars, callerVars, workerVars
<1>1. ASSUME NEW c \in Callers, NEW r \in Rooms, StartCheck(c, r) PROVE ReservationExclusive'
  <2>1. \A d \in Callers, o \in Rooms : CallerHolds(d, o)' <=> CallerHolds(d, o)
    BY <1>1 DEF StartCheck, StatusOf
  <2>2. \A v \in Workers, o \in Rooms : WorkerHolds(v, o)' <=> WorkerHolds(v, o)
    BY <1>1 DEF StartCheck, StatusOf
  <2>3. pending' = pending
    BY <1>1 DEF StartCheck, StatusOf
  <2>4. QED
    BY <2>1, <2>2, <2>3, SameHolders
<1>2. ASSUME NEW c \in Callers, StartReserve(c) PROVE ReservationExclusive'
  <2>1. \A v \in Workers, r \in Rooms : WorkerHolds(v, r)' <=> WorkerHolds(v, r)
    BY <1>2 DEF StartReserve
  <2>2. CASE croom[c] \notin pending /\ Admissible(croom[c])
    <3>1. pending' = pending \cup {croom[c]} /\ croom[c] \notin pending
      BY <1>2, <2>2 DEF StartReserve, Reserve
    <3>2. \A d \in Callers, r \in Rooms :
            CallerHolds(d, r)' <=> CallerHolds(d, r) \/ (d = c /\ r = croom[c])
      BY <1>2, <2>2 DEF StartReserve, CallerTo
    <3>3. QED
      <4> HIDE DEF CallerHolds, WorkerHolds
      <4> QED BY <2>1, <3>1, <3>2
  <2>3. CASE ~(croom[c] \notin pending /\ Admissible(croom[c]))
    <3>1. pending' = pending
      BY <1>2, <2>3 DEF StartReserve
    <3>2. \A d \in Callers, r \in Rooms : CallerHolds(d, r)' <=> CallerHolds(d, r)
      BY <1>2, <2>3 DEF StartReserve, CallerReturns
    <3>3. QED
      BY <2>1, <3>1, <3>2, SameHolders
  <2>4. QED
    BY <2>2, <2>3
<1>3. ASSUME NEW c \in Callers, StartFail(c) PROVE ReservationExclusive'
  BY <1>3 DEF StartFail, Abort, CallerReturns
<1>4. ASSUME NEW c \in Callers, StartConnected(c) PROVE ReservationExclusive'
  BY <1>4 DEF StartConnected, CallerTo
<1>5. ASSUME NEW c \in Callers, NEW s \in Infos, StartConfirm(c, s) PROVE ReservationExclusive'
  <2>1. \A v \in Workers, r \in Rooms : WorkerHolds(v, r)' <=> WorkerHolds(v, r)
    BY <1>5 DEF StartConfirm
  <2>2. pending' = pending \ {croom[c]} /\ CallerHolds(c, croom[c])
    BY <1>5 DEF StartConfirm
  <2>3. \A d \in Callers, r \in Rooms : CallerHolds(d, r)' <=> CallerHolds(d, r) /\ d # c
    BY <1>5 DEF StartConfirm
  <2>4. \A r \in Rooms : CallerHolds(c, r) => r = croom[c]
    OBVIOUS
  <2>5. QED
    <3> HIDE DEF CallerHolds, WorkerHolds
    <3> QED BY <2>1, <2>2, <2>3, <2>4
<1>6. ASSUME NEW c \in Callers, NEW w \in Workers, StartAnnounce(c, w) PROVE ReservationExclusive'
  <2>1. \A d \in Callers, r \in Rooms : CallerHolds(d, r)' <=> CallerHolds(d, r)
    BY <1>6 DEF StartAnnounce, CallerReturns
  <2>2. \A v \in Workers, r \in Rooms : WorkerHolds(v, r)' <=> WorkerHolds(v, r)
    BY <1>6 DEF StartAnnounce, CallerReturns
  <2>3. pending' = pending
    BY <1>6 DEF StartAnnounce, CallerReturns
  <2>4. QED
    BY <2>1, <2>2, <2>3, SameHolders
<1>7. ASSUME NEW r \in Rooms, UserStop(r) PROVE ReservationExclusive'
  BY <1>7 DEF UserStop, StopTake
<1>8. ASSUME NEW s \in Infos, StopFinish(s) PROVE ReservationExclusive'
  <2>1. \A c \in Callers, r \in Rooms : CallerHolds(c, r)' <=> CallerHolds(c, r)
    BY <1>8 DEF StopFinish
  <2>2. \A v \in Workers, r \in Rooms : WorkerHolds(v, r)' <=> WorkerHolds(v, r)
    BY <1>8 DEF StopFinish
  <2>3. pending' = pending
    BY <1>8 DEF StopFinish
  <2>4. QED
    BY <2>1, <2>2, <2>3, SameHolders
<1>9. ASSUME Shutdown PROVE ReservationExclusive'
  BY <1>9 DEF Shutdown
<1>10. ASSUME NEW w \in Workers, CaptureEnds(w) PROVE ReservationExclusive'
  BY <1>10 DEF CaptureEnds, WorkerTo
<1>11. ASSUME NEW w \in Workers, RecoverLoad(w) PROVE ReservationExclusive'
  <2>1. \A c \in Callers, r \in Rooms : CallerHolds(c, r)' <=> CallerHolds(c, r)
    BY <1>11 DEF RecoverLoad, StatusOf, Leave
  <2>2. \A v \in Workers, r \in Rooms : WorkerHolds(v, r)' <=> WorkerHolds(v, r)
    BY <1>11 DEF RecoverLoad, StatusOf, Leave
  <2>3. pending' = pending
    BY <1>11 DEF RecoverLoad, StatusOf, Leave
  <2>4. QED
    BY <2>1, <2>2, <2>3, SameHolders
<1>12. ASSUME NEW w \in Workers, RecoverMark(w) PROVE ReservationExclusive'
  <2>1. \A d \in Callers, o \in Rooms : CallerHolds(d, o)' <=> CallerHolds(d, o)
    BY <1>12 DEF RecoverMark, WorkerTo
  <2>2. \A v \in Workers, o \in Rooms : WorkerHolds(v, o)' <=> WorkerHolds(v, o)
    BY <1>12 DEF RecoverMark, WorkerTo
  <2>3. pending' = pending
    BY <1>12 DEF RecoverMark, WorkerTo
  <2>4. QED
    BY <2>1, <2>2, <2>3, SameHolders
<1>13. ASSUME NEW w \in Workers, RecoverRetry(w) PROVE ReservationExclusive'
  <2>1. \A c \in Callers, r \in Rooms : CallerHolds(c, r)' <=> CallerHolds(c, r)
    BY <1>13 DEF RecoverRetry, WorkerTo, Leave
  <2>2. \A v \in Workers, r \in Rooms : WorkerHolds(v, r)' <=> WorkerHolds(v, r)
    BY <1>13 DEF RecoverRetry, WorkerTo, Leave
  <2>3. pending' = pending
    BY <1>13 DEF RecoverRetry, WorkerTo, Leave
  <2>4. QED
    BY <2>1, <2>2, <2>3, SameHolders
<1>14. ASSUME NEW w \in Workers, RecoverReserve(w) PROVE ReservationExclusive'
  BY <1>14 DEF RecoverReserve, Reserve, WorkerTo
<1>15. ASSUME NEW w \in Workers, RecoverFail(w) PROVE ReservationExclusive'
  BY <1>15 DEF RecoverFail, Abort, WorkerTo, Leave
<1>16. ASSUME NEW w \in Workers, RecoverConnected(w) PROVE ReservationExclusive'
  <2>1. CASE StillPublished(w)
    BY <1>16, <2>1 DEF RecoverConnected, WorkerTo
  <2>2. CASE ~StillPublished(w)
    <3>1. wpc[w] = "connect" /\ pending' = pending \ {wroom[w]}
      BY <1>16, <2>2 DEF RecoverConnected, Abort
    <3>2. \A c \in Callers, r \in Rooms : CallerHolds(c, r)' <=> CallerHolds(c, r)
      BY <1>16 DEF RecoverConnected
    <3>3. \A v \in Workers, r \in Rooms :
            WorkerHolds(v, r)' <=> WorkerHolds(v, r) /\ v # w
      BY <1>16, <2>2 DEF RecoverConnected, Leave
    <3>4. WorkerHolds(w, wroom[w])
      BY <3>1
    <3>5. QED
      BY <3>1, <3>2, <3>3, <3>4
  <2>3. QED
    BY <2>1, <2>2
<1>17. ASSUME NEW w \in Workers, RecoverConfirm(w) PROVE ReservationExclusive'
  BY <1>17 DEF RecoverConfirm, WorkerTo
<1>18. ASSUME NEW w \in Workers, RecoverRecheck(w) PROVE ReservationExclusive'
  <2>1. \A c \in Callers, r \in Rooms : CallerHolds(c, r)' <=> CallerHolds(c, r)
    BY <1>18 DEF RecoverRecheck, Leave
  <2>2. \A v \in Workers, r \in Rooms : WorkerHolds(v, r)' <=> WorkerHolds(v, r)
    BY <1>18 DEF RecoverRecheck, Leave
  <2>3. pending' = pending
    BY <1>18 DEF RecoverRecheck, Leave
  <2>4. QED
    BY <2>1, <2>2, <2>3, SameHolders
<1>19. ASSUME NEW w \in Workers, RecoverTail(w) PROVE ReservationExclusive'
  <2>1. \A d \in Callers, o \in Rooms : CallerHolds(d, o)' <=> CallerHolds(d, o)
    BY <1>19 DEF RecoverTail, Leave
  <2>2. \A v \in Workers, o \in Rooms : WorkerHolds(v, o)' <=> WorkerHolds(v, o)
    BY <1>19 DEF RecoverTail, Leave
  <2>3. pending' = pending
    BY <1>19 DEF RecoverTail, Leave
  <2>4. QED
    BY <2>1, <2>2, <2>3, SameHolders
<1>20. ASSUME NEW w \in Workers, RecoverBackoff(w) PROVE ReservationExclusive'
  <2>1. \A d \in Callers, o \in Rooms : CallerHolds(d, o)' <=> CallerHolds(d, o)
    BY <1>20 DEF RecoverBackoff, WorkerTo, Leave
  <2>2. \A v \in Workers, o \in Rooms : WorkerHolds(v, o)' <=> WorkerHolds(v, o)
    BY <1>20 DEF RecoverBackoff, WorkerTo, Leave
  <2>3. pending' = pending
    BY <1>20 DEF RecoverBackoff, WorkerTo, Leave
  <2>4. QED
    BY <2>1, <2>2, <2>3, SameHolders
<1>21. ASSUME NEW w \in Workers, RecoverWake(w) PROVE ReservationExclusive'
  <2>1. \A d \in Callers, o \in Rooms : CallerHolds(d, o)' <=> CallerHolds(d, o)
    BY <1>21 DEF RecoverWake
  <2>2. \A v \in Workers, o \in Rooms : WorkerHolds(v, o)' <=> WorkerHolds(v, o)
    BY <1>21 DEF RecoverWake
  <2>3. pending' = pending
    BY <1>21 DEF RecoverWake
  <2>4. QED
    BY <2>1, <2>2, <2>3, SameHolders
<1>22. ASSUME NEW w \in Workers, RecoverInterrupted(w) PROVE ReservationExclusive'
  <2>1. \A d \in Callers, o \in Rooms : CallerHolds(d, o)' <=> CallerHolds(d, o)
    BY <1>22 DEF RecoverInterrupted, Leave
  <2>2. \A v \in Workers, o \in Rooms : WorkerHolds(v, o)' <=> WorkerHolds(v, o)
    BY <1>22 DEF RecoverInterrupted, Leave
  <2>3. pending' = pending
    BY <1>22 DEF RecoverInterrupted, Leave
  <2>4. QED
    BY <2>1, <2>2, <2>3, SameHolders
<1>23. ASSUME NEW w \in Workers, RecoverGiveUp(w) PROVE ReservationExclusive'
  <2>1. \A d \in Callers, o \in Rooms : CallerHolds(d, o)' <=> CallerHolds(d, o)
    BY <1>23 DEF RecoverGiveUp, StopTake, Leave
  <2>2. \A v \in Workers, o \in Rooms : WorkerHolds(v, o)' <=> WorkerHolds(v, o)
    BY <1>23 DEF RecoverGiveUp, StopTake, Leave
  <2>3. pending' = pending
    BY <1>23 DEF RecoverGiveUp, StopTake, Leave
  <2>4. QED
    BY <2>1, <2>2, <2>3, SameHolders
<1>24. CASE UNCHANGED vars
  BY <1>24 DEF vars
<1> HIDE DEF TypeOK, MapsTyped, CallersTyped, WorkersTyped, CallerPlaces, WorkerPlaces,
        LoopPlaces, Holding, ReservationExclusive, CallerHolds, WorkerHolds,
        mapVars, callerVars, workerVars
<1>25. QED
  BY <1>1, <1>2, <1>3, <1>4, <1>5, <1>6, <1>7, <1>8, <1>9, <1>10, <1>11, <1>12, <1>13, <1>14, <1>15, <1>16, <1>17, <1>18, <1>19, <1>20, <1>21, <1>22, <1>23, <1>24 DEF Next, Caller, Recovery

\* The deferred Abort and the Confirm of a start or a recovery attempt release
\* only its own reservation, and no two attempts hold one room: for any number
\* of calls, goroutines and rooms.
THEOREM Reservation == Spec => []ReservationExclusive
<1>1. TypeOK /\ ReservationExclusive /\ [Next]_vars => ReservationExclusive'
  BY ReservationStep
<1>2. QED
  BY <1>1, ReservationInit, TypeCorrect, PTL DEF Spec

--------------------------------------------------------------------------------
(* The limit, and the abstract specification RoomSlots.                    *)

Held == Published \cup pending

\* What one step may do to the rooms that hold a slot.
HeldMoves ==
  \/ Held' = Held
  \/ \E r \in Held : Held' = Held \ {r}
  \/ \E r \in Rooms \ Held : /\ Held' = Held \cup {r}
                            /\ Cardinality(Held') <= MaxConcurrent

\* The sets whose sizes are compared are finite.
LEMMA HeldFinite ==
  ASSUME TypeOK
  PROVE  IsFiniteSet(Held) /\ IsFiniteSet(Published) /\ IsFiniteSet(pending)
<1>1. Published \subseteq Rooms /\ pending \subseteq Rooms
  BY DEF TypeOK, MapsTyped, Published
<1>2. QED
  BY <1>1, RoomsAssumption, FS_Subset DEF Held

\* A successful Reserve takes one more slot and only below the limit, or none for
\* a room that already has its slot: the validation's sum of both sets bounds
\* their union, and the exemption is for rooms that are in the map.
LEMMA ReserveMoves ==
  ASSUME TypeOK, NEW r \in Rooms, Reserve(r), recording' = recording
  PROVE  HeldMoves
<1>1. Published' = Published
  BY DEF Published
<1>2. Held' = Held \cup {r}
  BY <1>1 DEF Held, Reserve
<1>3. CASE r \in Held
  BY <1>2, <1>3 DEF HeldMoves
<1>4. CASE r \notin Held
  <2>1. ~OverLimit(r) /\ StatusOf(r) # "recovering"
    BY <1>4 DEF Reserve, Admissible, Held, Published, StatusOf
  <2>2. IsFiniteSet(Published) /\ IsFiniteSet(pending \cup {r})
    BY HeldFinite, FS_AddElement
  <2>3. /\ Cardinality(Published) \in Nat
        /\ Cardinality(pending \cup {r}) \in Nat
        /\ Cardinality(Published \cap (pending \cup {r})) \in Nat
    BY <2>2, FS_CardinalityType, FS_Intersection
  <2>4. Cardinality(Published \cup (pending \cup {r})) =
          Cardinality(Published) + Cardinality(pending \cup {r})
            - Cardinality(Published \cap (pending \cup {r}))
    BY <2>2, FS_Union
  <2>5. Cardinality(Published) + Cardinality(pending \cup {r}) <= MaxConcurrent
    BY <2>1, <2>3, LimitsAssumption DEF OverLimit
  <2>6. Cardinality(Published \cup (pending \cup {r})) <= MaxConcurrent
    BY <2>3, <2>4, <2>5, LimitsAssumption
  <2>7. Held' = Published \cup (pending \cup {r})
    BY <1>2 DEF Held
  <2>8. QED
    BY <1>2, <1>4, <2>6, <2>7 DEF HeldMoves
<1>5. QED
  BY <1>3, <1>4

\* Releasing the reservation of a room keeps its slot or gives it back.
LEMMA AbortMoves ==
  ASSUME TypeOK, NEW r \in pending, recording' = recording, pending' = pending \ {r}
  PROVE  HeldMoves
<1>1. Published' = Published
  BY DEF Published
<1>2. CASE r \in Published
  BY <1>1, <1>2 DEF HeldMoves, Held
<1>3. CASE r \notin Published
  BY <1>1, <1>3 DEF HeldMoves, Held
<1>4. QED
  BY <1>2, <1>3

\* Stop gives the slot back, unless an attempt still reserves the room.
LEMMA StopMoves ==
  ASSUME TypeOK, NEW r \in Rooms, StopTake(r)
  PROVE  HeldMoves
<1>1. Published' = Published \ {r} /\ pending' = pending /\ r \in Published
  BY NilAssumption DEF StopTake, Published, TypeOK, MapsTyped
<1>2. CASE r \in pending
  BY <1>1, <1>2 DEF HeldMoves, Held
<1>3. CASE r \notin pending
  BY <1>1, <1>3 DEF HeldMoves, Held
<1>4. QED
  BY <1>2, <1>3

\* Every action leaves the rooms with a slot as they are, adds one below the
\* limit, or takes some away.
LEMMA HeldStep ==
  TypeOK /\ ReservationExclusive /\ [Next]_vars => HeldMoves
<1> SUFFICES ASSUME TypeOK, ReservationExclusive, [Next]_vars PROVE HeldMoves
  OBVIOUS
<1>0. ASSUME recording' = recording, pending' = pending PROVE HeldMoves
  BY <1>0 DEF HeldMoves, Held, Published
<1>h. /\ \A c \in Callers : cpc[c] \in Holding => croom[c] \in pending
      /\ \A w \in Workers : wpc[w] \in Holding => wroom[w] \in pending
  BY DEF ReservationExclusive, CallerHolds, WorkerHolds, TypeOK, CallersTyped,
         WorkersTyped, Holding
<1>1. ASSUME NEW c \in Callers, NEW r \in Rooms, StartCheck(c, r) PROVE HeldMoves
  BY <1>1, <1>0 DEF StartCheck, mapVars
<1>2. ASSUME NEW c \in Callers, StartReserve(c) PROVE HeldMoves
  BY <1>2, <1>0, ReserveMoves DEF StartReserve, TypeOK, CallersTyped
<1>3. ASSUME NEW c \in Callers, StartFail(c) PROVE HeldMoves
  BY <1>3, <1>h, AbortMoves DEF StartFail, Abort, Holding
<1>4. ASSUME NEW c \in Callers, StartConnected(c) PROVE HeldMoves
  BY <1>4, <1>0 DEF StartConnected, mapVars
<1>5. ASSUME NEW c \in Callers, NEW s \in Infos, StartConfirm(c, s) PROVE HeldMoves
  <2>1. croom[c] \in pending
    BY <1>5, <1>h DEF StartConfirm, Holding
  <2>2. croom[c] \in Rooms
    BY <2>1 DEF TypeOK, MapsTyped
  <2>3. Published' = Published \cup {croom[c]}
    BY <1>5, <2>2, NilAssumption DEF StartConfirm, Published, TypeOK, MapsTyped
  <2>4. pending' = pending \ {croom[c]}
    BY <1>5 DEF StartConfirm
  <2>5. QED
    BY <2>1, <2>3, <2>4 DEF HeldMoves, Held
<1>6. ASSUME NEW c \in Callers, NEW w \in Workers, StartAnnounce(c, w) PROVE HeldMoves
  BY <1>6, <1>0 DEF StartAnnounce, mapVars
<1>7. ASSUME NEW r \in Rooms, UserStop(r) PROVE HeldMoves
  BY <1>7, StopMoves DEF UserStop
<1>8. ASSUME NEW s \in Infos, StopFinish(s) PROVE HeldMoves
  BY <1>8, <1>0 DEF StopFinish, mapVars
<1>9. ASSUME Shutdown PROVE HeldMoves
  BY <1>9, <1>0 DEF Shutdown, mapVars
<1>10. ASSUME NEW w \in Workers, CaptureEnds(w) PROVE HeldMoves
  BY <1>10, <1>0 DEF CaptureEnds, mapVars
<1>11. ASSUME NEW w \in Workers, RecoverLoad(w) PROVE HeldMoves
  BY <1>11, <1>0 DEF RecoverLoad, mapVars
<1>12. ASSUME NEW w \in Workers, RecoverMark(w) PROVE HeldMoves
  BY <1>12, <1>0 DEF RecoverMark, mapVars
<1>13. ASSUME NEW w \in Workers, RecoverRetry(w) PROVE HeldMoves
  BY <1>13, <1>0 DEF RecoverRetry, mapVars
<1>14. ASSUME NEW w \in Workers, RecoverReserve(w) PROVE HeldMoves
  <2>1. CASE Reserve(wroom[w])
    BY <1>14, <2>1, ReserveMoves DEF RecoverReserve, TypeOK, WorkersTyped
  <2>2. CASE UNCHANGED pending
    BY <1>14, <2>2, <1>0 DEF RecoverReserve
  <2>3. QED
    BY <1>14, <2>1, <2>2 DEF RecoverReserve
<1>15. ASSUME NEW w \in Workers, RecoverFail(w) PROVE HeldMoves
  BY <1>15, <1>h, AbortMoves DEF RecoverFail, Abort, Holding
<1>16. ASSUME NEW w \in Workers, RecoverConnected(w) PROVE HeldMoves
  <2>1. CASE StillPublished(w)
    BY <1>16, <2>1, <1>0 DEF RecoverConnected
  <2>2. CASE ~StillPublished(w)
    BY <1>16, <2>2, <1>h, AbortMoves DEF RecoverConnected, Abort, Holding
  <2>3. QED
    BY <2>1, <2>2
<1>17. ASSUME NEW w \in Workers, RecoverConfirm(w) PROVE HeldMoves
  BY <1>17, <1>h, AbortMoves DEF RecoverConfirm, Holding
<1>18. ASSUME NEW w \in Workers, RecoverRecheck(w) PROVE HeldMoves
  BY <1>18, <1>0 DEF RecoverRecheck, mapVars
<1>19. ASSUME NEW w \in Workers, RecoverTail(w) PROVE HeldMoves
  BY <1>19, <1>0 DEF RecoverTail, mapVars
<1>20. ASSUME NEW w \in Workers, RecoverBackoff(w) PROVE HeldMoves
  BY <1>20, <1>0 DEF RecoverBackoff, mapVars
<1>21. ASSUME NEW w \in Workers, RecoverWake(w) PROVE HeldMoves
  BY <1>21, <1>0 DEF RecoverWake, mapVars
<1>22. ASSUME NEW w \in Workers, RecoverInterrupted(w) PROVE HeldMoves
  BY <1>22, <1>0 DEF RecoverInterrupted, mapVars
<1>23. ASSUME NEW w \in Workers, RecoverGiveUp(w) PROVE HeldMoves
  BY <1>23, <1>0, StopMoves DEF RecoverGiveUp, TypeOK, WorkersTyped, mapVars
<1>24. CASE UNCHANGED vars
  BY <1>24, <1>0 DEF vars, mapVars
<1>25. QED
  BY <1>1, <1>2, <1>3, <1>4, <1>5, <1>6, <1>7, <1>8, <1>9, <1>10, <1>11, <1>12, <1>13, <1>14, <1>15, <1>16, <1>17, <1>18, <1>19, <1>20, <1>21, <1>22, <1>23, <1>24 DEF Next, Caller, Recovery

\* MAX_CONCURRENT_RECORDINGS holds for sessions and admitted starts together, in
\* every interleaving of starts, stops, recoveries and give-ups.
THEOREM LimitHolds == Spec => []WithinLimit
<1>1. Init => WithinLimit
  <2>1. Init => Published \cup pending = {}
    BY DEF Init, Published
  <2>2. QED
    BY <2>1, FS_EmptySet, LimitsAssumption DEF WithinLimit
<1>2. TypeOK /\ ReservationExclusive /\ WithinLimit /\ [Next]_vars => WithinLimit'
  <2> SUFFICES ASSUME TypeOK, ReservationExclusive, WithinLimit, [Next]_vars
               PROVE  Cardinality(Held') <= MaxConcurrent
    BY DEF WithinLimit, Held
  <2>1. Cardinality(Held) <= MaxConcurrent
    BY DEF WithinLimit, Held
  <2>2. ASSUME NEW r \in Held, Held' = Held \ {r}
        PROVE  Cardinality(Held') <= MaxConcurrent
    <3>1. Cardinality(Held) \in Nat /\ Cardinality(Held \ {r}) = Cardinality(Held) - 1
      BY HeldFinite, FS_CardinalityType, FS_RemoveElement
    <3>2. QED
      BY <2>1, <2>2, <3>1, LimitsAssumption
  <2>3. QED
    BY <2>1, <2>2, HeldStep DEF HeldMoves
<1>3. QED
  BY <1>1, <1>2, TypeCorrect, Reservation, PTL DEF Spec

\* The recorder implements RoomSlots: every step is the acquisition of a slot below
\* the limit by a room that has none, the release of one, or neither.
THEOREM Refinement == Spec => ImplementsRoomSlots
<1>1. Init => Slots!Init
  BY DEF Init, Slots!Init, Published
<1>2. TypeOK /\ ReservationExclusive /\ [Next]_vars
        => [Slots!Next]_(Published \cup pending)
  <2> SUFFICES ASSUME TypeOK, ReservationExclusive, [Next]_vars, Held' # Held
               PROVE  Slots!Next
    BY DEF Held
  <2>1. ASSUME NEW r \in Held, Held' = Held \ {r} PROVE Slots!Next
    <3>1. r \in Rooms
      BY DEF Held, Published, TypeOK, MapsTyped
    <3>2. QED
      BY <2>1, <3>1 DEF Slots!Next, Slots!Release, Held
  <2>2. ASSUME NEW r \in Rooms \ Held, Held' = Held \cup {r},
               Cardinality(Held') <= MaxConcurrent
        PROVE  Slots!Next
    <3>1. Cardinality(Held) \in Nat /\ Cardinality(Held \cup {r}) = Cardinality(Held) + 1
      BY HeldFinite, FS_CardinalityType, FS_AddElement
    <3>2. Cardinality(Held) < MaxConcurrent
      BY <2>2, <3>1, LimitsAssumption
    <3>3. Slots!Acquire(r)
      <4>1. Slots!Cardinality(Held) = Cardinality(Held)
        BY DEF Slots!Cardinality, Cardinality
      <4>2. QED
        BY <2>2, <3>2, <4>1 DEF Slots!Acquire, Held
    <3>4. QED
      BY <3>3 DEF Slots!Next
  <2>3. QED
    BY <2>1, <2>2, HeldStep DEF HeldMoves
<1>3. QED
  BY <1>1, <1>2, TypeCorrect, Reservation, PTL DEF Spec, ImplementsRoomSlots, Slots!Spec

--------------------------------------------------------------------------------
(* A session in the map is live.                                           *)

\* PublishedIsLive is not inductive alone: a commit must find a session that Stop
\* has never seen.
LiveInv ==
  /\ PublishedIsLive
  /\ \A s \in cancelled \cup stopping : roomOf[s] \in Rooms

\* Taking a session out of the map: no other room holds it.
LEMMA TakeKeepsLive ==
  ASSUME TypeOK, LiveInv, NEW r \in Rooms, StopTake(r), UNCHANGED roomOf
  PROVE  LiveInv'
<1>1. recording[r] \in Infos /\ roomOf[recording[r]] = r
  BY NilAssumption DEF StopTake, TypeOK, MapsTyped, LiveInv, PublishedIsLive
<1>2. QED
  BY <1>1, NilAssumption DEF StopTake, TypeOK, MapsTyped, LiveInv, PublishedIsLive

\* Every action keeps stopped sessions out of the map and each session under
\* its own room.
LEMMA LiveStep == TypeOK /\ LiveInv /\ [Next]_vars => LiveInv'
<1> SUFFICES ASSUME TypeOK, LiveInv, [Next]_vars PROVE LiveInv'
  OBVIOUS
<1>0. ASSUME UNCHANGED <<recording, cancelled, stopping, roomOf>> PROVE LiveInv'
  BY <1>0 DEF LiveInv, PublishedIsLive
<1>1. ASSUME NEW c \in Callers, NEW s \in Infos, StartConfirm(c, s) PROVE LiveInv'
  BY <1>1, NilAssumption
  DEF StartConfirm, LiveInv, PublishedIsLive, TypeOK, MapsTyped, EndsTyped,
      CallersTyped, SideTyped, endVars
<1>2. ASSUME NEW r \in Rooms, UserStop(r) PROVE LiveInv'
  BY <1>2, TakeKeepsLive DEF UserStop, sideVars
<1>3. ASSUME NEW s \in Infos, StopFinish(s) PROVE LiveInv'
  BY <1>3 DEF StopFinish, LiveInv, PublishedIsLive, mapVars
<1>4. ASSUME Shutdown PROVE LiveInv'
  BY <1>4, <1>0 DEF Shutdown, mapVars, sideVars
<1>5. ASSUME NEW w \in Workers, RecoverGiveUp(w) PROVE LiveInv'
  BY <1>5, <1>0, TakeKeepsLive
  DEF RecoverGiveUp, mapVars, endVars, sideVars, TypeOK, WorkersTyped
<1>6. ASSUME NEW c \in Callers, NEW r \in Rooms, StartCheck(c, r) PROVE LiveInv'
  BY <1>6, <1>0 DEF StartCheck, mapVars, endVars, sideVars
<1>7. ASSUME NEW c \in Callers, StartReserve(c) PROVE LiveInv'
  BY <1>7, <1>0 DEF StartReserve, mapVars, endVars, sideVars
<1>8. ASSUME NEW c \in Callers, StartFail(c) PROVE LiveInv'
  BY <1>8, <1>0 DEF StartFail, mapVars, endVars, sideVars
<1>9. ASSUME NEW c \in Callers, StartConnected(c) PROVE LiveInv'
  BY <1>9, <1>0 DEF StartConnected, mapVars, endVars, sideVars
<1>10. ASSUME NEW c \in Callers, NEW w \in Workers, StartAnnounce(c, w) PROVE LiveInv'
  BY <1>10, <1>0 DEF StartAnnounce, mapVars, endVars, sideVars
<1>11. ASSUME NEW w \in Workers, CaptureEnds(w) PROVE LiveInv'
  BY <1>11, <1>0 DEF CaptureEnds, mapVars, endVars, sideVars
<1>12. ASSUME NEW w \in Workers, RecoverLoad(w) PROVE LiveInv'
  BY <1>12, <1>0 DEF RecoverLoad, mapVars, endVars, sideVars
<1>13. ASSUME NEW w \in Workers, RecoverMark(w) PROVE LiveInv'
  BY <1>13, <1>0 DEF RecoverMark, mapVars, endVars, sideVars
<1>14. ASSUME NEW w \in Workers, RecoverRetry(w) PROVE LiveInv'
  BY <1>14, <1>0 DEF RecoverRetry, mapVars, endVars, sideVars
<1>15. ASSUME NEW w \in Workers, RecoverReserve(w) PROVE LiveInv'
  BY <1>15, <1>0 DEF RecoverReserve, mapVars, endVars, sideVars
<1>16. ASSUME NEW w \in Workers, RecoverFail(w) PROVE LiveInv'
  BY <1>16, <1>0 DEF RecoverFail, mapVars, endVars, sideVars
<1>17. ASSUME NEW w \in Workers, RecoverConnected(w) PROVE LiveInv'
  BY <1>17, <1>0 DEF RecoverConnected, mapVars, endVars, sideVars
<1>18. ASSUME NEW w \in Workers, RecoverConfirm(w) PROVE LiveInv'
  BY <1>18, <1>0 DEF RecoverConfirm, mapVars, endVars, sideVars
<1>19. ASSUME NEW w \in Workers, RecoverRecheck(w) PROVE LiveInv'
  BY <1>19, <1>0 DEF RecoverRecheck, mapVars, endVars, sideVars
<1>20. ASSUME NEW w \in Workers, RecoverTail(w) PROVE LiveInv'
  BY <1>20, <1>0 DEF RecoverTail, mapVars, endVars, sideVars
<1>21. ASSUME NEW w \in Workers, RecoverBackoff(w) PROVE LiveInv'
  BY <1>21, <1>0 DEF RecoverBackoff, mapVars, endVars, sideVars
<1>22. ASSUME NEW w \in Workers, RecoverWake(w) PROVE LiveInv'
  BY <1>22, <1>0 DEF RecoverWake, mapVars, endVars, sideVars
<1>23. ASSUME NEW w \in Workers, RecoverInterrupted(w) PROVE LiveInv'
  BY <1>23, <1>0 DEF RecoverInterrupted, mapVars, endVars, sideVars
<1>24. CASE UNCHANGED vars
  BY <1>24, <1>0 DEF vars, mapVars, endVars, sideVars
<1>25. QED
  BY <1>1, <1>2, <1>3, <1>4, <1>5, <1>6, <1>7, <1>8, <1>9, <1>10, <1>11, <1>12, <1>13, <1>14, <1>15, <1>16, <1>17, <1>18, <1>19, <1>20, <1>21, <1>22, <1>23, <1>24 DEF Next, Caller, Recovery

\* Whatever Stop and the recovery commit interleave to, the map never holds a
\* session that was stopped, and holds every session under its own room.
THEOREM LiveSessions == Spec => []PublishedIsLive
<1>1. Init => LiveInv
  BY DEF Init, LiveInv, PublishedIsLive
<1>2. TypeOK /\ LiveInv /\ [Next]_vars => LiveInv'
  BY LiveStep
<1>3. LiveInv => PublishedIsLive
  BY DEF LiveInv
<1>4. QED
  BY <1>1, <1>2, <1>3, TypeCorrect, PTL DEF Spec

--------------------------------------------------------------------------------
(* What the webhook service is told of a session, and who captures and     *)
(* recovers it.                                                            *)

Announces(c, s) == cpc[c] = "announce" /\ cinfo[c] = s

\* The event e has been sent for s.
Told(s, e) == \E i \in 1..Len(events[s]) : events[s][i] = e

\* AnnouncedOnce is not inductive: what was told of a session says who may not act on it again.
ToldInv ==
  /\ \A s \in Infos : Told(s, "ended") => s \in cancelled /\ s \notin stopping
  /\ \A s \in Infos : roomOf[s] = Nil => ~Told(s, "started")
  /\ \A c \in Callers, s \in Infos : Announces(c, s) => roomOf[s] # Nil /\ ~Told(s, "started")
  /\ \A c, d \in Callers, s \in Infos : Announces(c, s) /\ Announces(d, s) => c = d
  /\ AnnouncedOnce

\* Appending an event that was not told keeps every event unique.
LEMMA ToldOnce ==
  ASSUME NEW q \in Seq({"started", "ended"}), NEW e \in {"started", "ended"},
         \A i \in 1..Len(q) : q[i] # e,
         \A i, j \in 1..Len(q) : q[i] = q[j] => i = j
  PROVE  /\ \A i, j \in 1..Len(Append(q, e)) : Append(q, e)[i] = Append(q, e)[j] => i = j
         /\ \A o : (\E i \in 1..Len(Append(q, e)) : Append(q, e)[i] = o) =>
                     o = e \/ \E i \in 1..Len(q) : q[i] = o
<1>1. /\ Len(q) \in Nat /\ Len(Append(q, e)) = Len(q) + 1
      /\ \A i \in 1..Len(Append(q, e)) :
           Append(q, e)[i] = IF i = Len(q) + 1 THEN e ELSE q[i]
  OBVIOUS
<1>2. \A i \in 1..Len(Append(q, e)) : i = Len(q) + 1 \/ i \in 1..Len(q)
  BY <1>1
<1> QED BY <1>1, <1>2

\* One more event, told of s for the first time.
LEMMA Tells ==
  ASSUME TypeOK, AnnouncedOnce, NEW s \in Infos, NEW e \in {"started", "ended"}, ~Told(s, e),
         events' = [events EXCEPT ![s] = Append(@, e)]
  PROVE  /\ AnnouncedOnce'
         /\ \A t \in Infos : \A o : Told(t, o)' => Told(t, o) \/ (t = s /\ o = e)
<1>1. /\ events[s] \in Seq({"started", "ended"}) /\ events'[s] = Append(events[s], e)
      /\ \A t \in Infos : t # s => events'[t] = events[t]
  BY DEF TypeOK, SideTyped
<1>2. /\ \A i \in 1..Len(events[s]) : events[s][i] # e
      /\ \A i, j \in 1..Len(events[s]) : events[s][i] = events[s][j] => i = j
  BY DEF Told, AnnouncedOnce
<1>3. /\ \A i, j \in 1..Len(events'[s]) : events'[s][i] = events'[s][j] => i = j
      /\ \A o : (\E i \in 1..Len(events'[s]) : events'[s][i] = o) =>
                  o = e \/ \E i \in 1..Len(events[s]) : events[s][i] = o
  BY <1>1, <1>2, ToldOnce
<1>4. AnnouncedOnce'
  BY <1>1, <1>3 DEF AnnouncedOnce
<1>5. ASSUME NEW t \in Infos, NEW o, Told(t, o)' PROVE Told(t, o) \/ (t = s /\ o = e)
  BY <1>1, <1>3, <1>5 DEF Told
<1> QED BY <1>4, <1>5

\* Steps that tell nothing, announce nothing new and cancel nothing.
LEMMA TellsNothing ==
  ASSUME ToldInv, UNCHANGED <<events, roomOf>>,
         \A c \in Callers, s \in Infos : Announces(c, s)' => Announces(c, s),
         cancelled \subseteq cancelled', \A s \in stopping' : s \in stopping \/ s \notin cancelled
  PROVE  ToldInv'
BY DEF ToldInv, Told, AnnouncedOnce

\* One step of the proof per action that disturbs what was told.
LEMMA ToldStep == TypeOK /\ LiveInv /\ ToldInv /\ [Next]_vars => ToldInv'
<1> SUFFICES ASSUME TypeOK, LiveInv, ToldInv, [Next]_vars PROVE ToldInv'
  OBVIOUS
<1>1. ASSUME NEW c \in Callers, NEW s \in Infos, StartConfirm(c, s) PROVE ToldInv'
  <2>1. \A d \in Callers, t \in Infos : Announces(d, t)' => Announces(d, t) \/ (d = c /\ t = s)
    BY <1>1 DEF StartConfirm, Announces, TypeOK, CallersTyped
  <2>2. \A d \in Callers : ~Announces(d, s)
    BY <1>1 DEF StartConfirm, ToldInv
  <2>3. ~Told(s, "started")
    BY <1>1 DEF StartConfirm, ToldInv
  <2>4. /\ roomOf'[s] # Nil /\ \A t \in Infos : t # s => roomOf'[t] = roomOf[t]
        /\ UNCHANGED <<events, cancelled, stopping>>
    BY <1>1, NilAssumption DEF StartConfirm, TypeOK, SideTyped, CallersTyped, endVars
  <2>5. \A t \in Infos : \A e : Told(t, e)' <=> Told(t, e)
    BY <2>4 DEF Told
  <2> QED BY <2>1, <2>2, <2>3, <2>4, <2>5 DEF ToldInv, AnnouncedOnce
<1>2. ASSUME NEW c \in Callers, NEW w \in Workers, StartAnnounce(c, w) PROVE ToldInv'
  <2>1. PICK s \in Infos : s = cinfo[c] /\ Announces(c, s)
    BY <1>2 DEF StartAnnounce, Announces, TypeOK, CallersTyped
  <2>2. ~Told(s, "started") /\ roomOf[s] # Nil
    BY <2>1 DEF ToldInv
  <2>3. /\ events' = [events EXCEPT ![s] = Append(@, "started")]
        /\ UNCHANGED <<roomOf, cancelled, stopping>>
    BY <1>2, <2>1 DEF StartAnnounce, endVars
  <2>4. /\ AnnouncedOnce'
        /\ \A t \in Infos : \A o : Told(t, o)' => Told(t, o) \/ (t = s /\ o = "started")
    BY <2>2, <2>3, Tells DEF ToldInv
  <2>5. \A d \in Callers, t \in Infos : Announces(d, t)' => Announces(d, t) /\ d # c
    BY <1>2 DEF StartAnnounce, CallerReturns, Announces, TypeOK, CallersTyped
  <2>6. \A d \in Callers, t \in Infos : Announces(d, t)' => t # s
    BY <2>1, <2>5 DEF ToldInv
  <2> QED BY <2>2, <2>3, <2>4, <2>5, <2>6 DEF ToldInv
<1>3. ASSUME NEW s \in Infos, StopFinish(s) PROVE ToldInv'
  <2>1. /\ s \in stopping /\ events' = [events EXCEPT ![s] = Append(@, "ended")]
        /\ cancelled' = cancelled \cup {s} /\ stopping' = stopping \ {s} /\ UNCHANGED <<roomOf, cpc, cinfo>>
    BY <1>3 DEF StopFinish, callerVars
  <2>2. ~Told(s, "ended")
    BY <2>1 DEF ToldInv
  <2>3. /\ AnnouncedOnce'
        /\ \A t \in Infos : \A o : Told(t, o)' => Told(t, o) \/ (t = s /\ o = "ended")
    BY <2>1, <2>2, Tells DEF ToldInv
  <2>4. \A d \in Callers, t \in Infos : Announces(d, t)' <=> Announces(d, t)
    BY <2>1 DEF Announces
  <2> QED BY <2>1, <2>3, <2>4 DEF ToldInv
<1>4. ASSUME NEW r \in Rooms, StopTake(r), UNCHANGED <<events, roomOf, cpc, cinfo>> PROVE ToldInv'
  <2>1. recording[r] \notin cancelled /\ stopping' = stopping \cup {recording[r]} /\ cancelled' = cancelled
    BY <1>4 DEF StopTake, LiveInv, PublishedIsLive
  <2> QED BY <1>4, <2>1, TellsNothing DEF Announces
<1>5. ASSUME NEW r \in Rooms, UserStop(r) PROVE ToldInv'
  BY <1>4, <1>5 DEF UserStop, callerVars, sideVars
<1>6. ASSUME UNCHANGED <<events, roomOf, cpc, cinfo, cancelled, stopping>> PROVE ToldInv'
  BY <1>6, TellsNothing DEF Announces
<1>7. ASSUME NEW w \in Workers, RecoverGiveUp(w) PROVE ToldInv'
  BY <1>4, <1>6, <1>7 DEF RecoverGiveUp, callerVars, sideVars, endVars, TypeOK, WorkersTyped
<1>8. ASSUME NEW w \in Workers, CaptureEnds(w) \/ (Recovery(w) /\ ~RecoverGiveUp(w)) PROVE ToldInv'
  <2>1. UNCHANGED <<events, roomOf, cpc, cinfo, cancelled, stopping>>
    BY <1>8 DEF CaptureEnds, Recovery, RecoverLoad, RecoverMark, RecoverRetry, RecoverReserve, RecoverFail,
                RecoverConnected, RecoverConfirm, RecoverRecheck, RecoverTail, RecoverBackoff, RecoverWake,
                RecoverInterrupted, callerVars, sideVars, endVars
  <2> QED BY <1>6, <2>1
<1>9. ASSUME NEW c \in Callers,
             StartReserve(c) \/ StartFail(c) \/ StartConnected(c) \/ \E r \in Rooms : StartCheck(c, r)
      PROVE  ToldInv'
  <2>1. \A d \in Callers, s \in Infos : Announces(d, s)' => Announces(d, s)
    BY <1>9 DEF StartReserve, StartFail, StartConnected, StartCheck, CallerTo, CallerReturns, Announces,
                TypeOK, CallersTyped
  <2>2. UNCHANGED <<events, roomOf, cancelled, stopping>>
    BY <1>9 DEF StartReserve, StartFail, StartConnected, StartCheck, sideVars, endVars
  <2> QED BY <2>1, <2>2, TellsNothing
<1>10. ASSUME Shutdown PROVE ToldInv'
  BY <1>6, <1>10 DEF Shutdown, callerVars, sideVars
<1>11. CASE UNCHANGED vars
  BY <1>6, <1>11 DEF vars, callerVars, sideVars, endVars
<1> QED BY <1>1, <1>2, <1>3, <1>5, <1>7, <1>8, <1>9, <1>10, <1>11 DEF Next, Caller

\* TypeOK and LiveInv, as one invariant of the specification.
LEMMA Live == Spec => [](TypeOK /\ LiveInv)
<1>1. Init => LiveInv
  BY DEF Init, LiveInv, PublishedIsLive
<1> QED BY <1>1, LiveStep, TypeCorrect, PTL DEF Spec

\* However calls of Stop, give-ups, recoveries and slow Starts race, emitSessionStarted and
\* emitSessionEnded are called at most once for a session.
THEOREM ToldAtMostOnce == Spec => []AnnouncedOnce
<1>1. Init => ToldInv
  BY DEF Init, ToldInv, Told, Announces, AnnouncedOnce
<1>2. ToldInv => AnnouncedOnce
  BY DEF ToldInv
<1> QED BY <1>1, <1>2, ToldStep, Live, PTL DEF Spec

--------------------------------------------------------------------------------
(* One owner per session.                                                  *)

\* Goroutines and announcing calls act for a session of their own room.
Rooted ==
  /\ \A w \in Workers : wpc[w] = "free" => wroom[w] = Nil /\ winfo[w] = Nil
  /\ \A w \in Workers : wpc[w] # "free" => roomOf[winfo[w]] = wroom[w]
  /\ \A c \in Callers : cpc[c] = "announce" => roomOf[cinfo[c]] = croom[c]
  /\ \A s \in clean : roomOf[s] \in Rooms

\* While the map holds a clean session, the goroutines and the announcing calls of its room are
\* its own: recover(), which looks the session up by room, finds the one it was started for.
AloneInRoom ==
  \A s \in clean : recording[roomOf[s]] = s =>
    /\ \A w \in Workers : wroom[w] = roomOf[s] => winfo[w] = s
    /\ \A c \in Callers : cpc[c] = "announce" /\ croom[c] = roomOf[s] => cinfo[c] = s

\* OneOwner, the call that has yet to start the first goroutine included.
OneActs ==
  \A s \in clean :
    /\ \A v, w \in Workers : v # w /\ winfo[v] = s /\ winfo[w] = s => "tail" \in {wpc[v], wpc[w]}
    /\ \A c \in Callers, w \in Workers : ~(Announces(c, s) /\ winfo[w] = s)
    /\ \A c, d \in Callers : Announces(c, s) /\ Announces(d, s) => c = d

OwnInv == Rooted /\ AloneInRoom /\ OneActs

\* The goroutine w of the old state is in the new one what it was, or has ended.
GoesOn(w) ==
  \/ wpc'[w] = "free" /\ wroom'[w] = Nil /\ winfo'[w] = Nil
  \/ /\ wpc'[w] # "free" /\ wpc[w] # "free" /\ wroom'[w] = wroom[w] /\ winfo'[w] = winfo[w]
     /\ wpc[w] = "tail" => wpc'[w] = "tail"

\* Steps that give no session another owner.
LEMMA NoNewOwner ==
  ASSUME TypeOK, OwnInv,
         \A r \in Rooms : recording'[r] \in {recording[r], Nil},
         UNCHANGED <<roomOf, clean>>,
         \A c \in Callers : cpc'[c] = "announce" =>
           cpc[c] = "announce" /\ croom'[c] = croom[c] /\ cinfo'[c] = cinfo[c],
         \A w \in Workers : GoesOn(w)
  PROVE  OwnInv'
<1>1. Rooted'
  BY DEF OwnInv, Rooted, GoesOn
<1>2. \A s \in clean : s \in Infos /\ s # Nil /\ roomOf[s] \in Rooms /\ roomOf[s] # Nil
  BY NilAssumption DEF OwnInv, Rooted, TypeOK, SideTyped
<1>3. AloneInRoom'
  BY <1>2 DEF OwnInv, AloneInRoom, GoesOn
<1>4. \A w \in Workers, s \in clean :
         winfo'[w] = s => winfo[w] = s /\ (wpc[w] = "tail" => wpc'[w] = "tail")
  BY <1>2 DEF GoesOn
<1>5. \A c \in Callers, s \in clean : Announces(c, s)' => Announces(c, s)
  BY DEF Announces
<1>6. OneActs'
  BY <1>4, <1>5 DEF OwnInv, OneActs
<1> QED BY <1>1, <1>3, <1>6 DEF OwnInv

\* commitSession: the new session is clean only if nobody is left of the room's earlier ones;
\* a session it replaces in the map stays out of it.
LEMMA ConfirmOwner ==
  ASSUME TypeOK, OwnInv, NEW c \in Callers, NEW s \in Infos, StartConfirm(c, s)
  PROVE  OwnInv'
<1>1. PICK r \in Rooms : r = croom[c]
  BY DEF StartConfirm, TypeOK, CallersTyped
<1>2. /\ roomOf[s] = Nil /\ cpc[c] = "confirm" /\ UNCHANGED <<wpc, wroom, winfo, croom>>
      /\ roomOf'[s] = r /\ \A t \in Infos : t # s => roomOf'[t] = roomOf[t]
      /\ recording'[r] = s /\ \A q \in Rooms : q # r => recording'[q] = recording[q]
      /\ cpc'[c] = "announce" /\ cinfo'[c] = s
      /\ \A d \in Callers : d # c => cpc'[d] = cpc[d] /\ cinfo'[d] = cinfo[d]
      /\ clean' = IF Quiet(r) THEN clean \cup {s} ELSE clean
  BY <1>1 DEF StartConfirm, TypeOK, CallersTyped, MapsTyped, SideTyped, workerVars
<1>3. /\ \A w \in Workers : winfo[w] # s
      /\ \A d \in Callers : ~Announces(d, s)
      /\ s \notin clean
  BY <1>2, NilAssumption DEF OwnInv, Rooted, Announces, TypeOK, WorkersTyped, CallersTyped
<1>4. /\ \A w \in Workers : wpc[w] # "free" => winfo[w] \in Infos
      /\ \A d \in Callers : cpc[d] = "announce" => cinfo[d] \in Infos /\ cinfo[d] # s
      /\ clean \subseteq Infos
  BY <1>3 DEF TypeOK, WorkersTyped, CallersTyped, SideTyped, Announces
<1>5. Rooted'
  BY <1>1, <1>2, <1>3, <1>4 DEF OwnInv, Rooted
<1>6. ASSUME NEW t \in clean', recording'[roomOf'[t]] = t
      PROVE  /\ \A w \in Workers : wroom'[w] = roomOf'[t] => winfo'[w] = t
             /\ \A d \in Callers : cpc'[d] = "announce" /\ croom'[d] = roomOf'[t] => cinfo'[d] = t
  <2>1. CASE t = s
    BY <1>1, <1>2, <1>3, <1>6, <2>1 DEF Quiet
  <2>2. CASE t # s
    <3>1. t \in clean /\ roomOf'[t] = roomOf[t] /\ roomOf[t] \in Rooms
      BY <1>2, <1>4, <2>2 DEF OwnInv, Rooted
    <3>2. roomOf[t] # r /\ recording[roomOf[t]] = t
      BY <1>2, <1>6, <2>2, <3>1
    <3> QED BY <1>1, <1>2, <3>1, <3>2 DEF OwnInv, AloneInRoom
  <2> QED BY <2>1, <2>2
<1>7. AloneInRoom'
  BY <1>6 DEF AloneInRoom
<1>8. \A d \in Callers, t \in Infos : Announces(d, t)' => Announces(d, t) \/ (d = c /\ t = s)
  BY <1>2 DEF Announces
<1>9. \A t \in clean' : t \in clean \/ t = s
  BY <1>2
<1>10. OneActs'
  <2>1. ASSUME NEW t \in clean'
        PROVE  /\ \A v, w \in Workers : v # w /\ winfo'[v] = t /\ winfo'[w] = t => "tail" \in {wpc'[v], wpc'[w]}
               /\ \A d \in Callers, w \in Workers : ~(Announces(d, t)' /\ winfo'[w] = t)
               /\ \A d, e \in Callers : Announces(d, t)' /\ Announces(e, t)' => d = e
    <3>1. CASE t = s
      BY <1>2, <1>3, <1>8, <3>1
    <3>2. CASE t # s
      BY <1>2, <1>4, <1>8, <1>9, <3>2 DEF OwnInv, OneActs
    <3> QED BY <3>1, <3>2
  <2> QED BY <2>1 DEF OneActs
<1> QED BY <1>5, <1>7, <1>10 DEF OwnInv

\* internalStart after the commit: the goroutine takes over from the call.
LEMMA AnnounceOwner ==
  ASSUME TypeOK, OwnInv, NEW c \in Callers, NEW n \in Workers, StartAnnounce(c, n)
  PROVE  OwnInv'
<1>1. PICK s \in Infos, r \in Rooms : s = cinfo[c] /\ r = croom[c] /\ Announces(c, s)
  BY DEF StartAnnounce, Announces, TypeOK, CallersTyped
<1>2. /\ wpc[n] = "free" /\ wpc'[n] = "capture" /\ wroom'[n] = r /\ winfo'[n] = s
      /\ \A w \in Workers : w # n => wpc'[w] = wpc[w] /\ wroom'[w] = wroom[w] /\ winfo'[w] = winfo[w]
      /\ cpc'[c] = "idle"
      /\ \A d \in Callers : d # c => cpc'[d] = cpc[d] /\ croom'[d] = croom[d] /\ cinfo'[d] = cinfo[d]
      /\ UNCHANGED <<recording, roomOf, clean>>
  BY <1>1 DEF StartAnnounce, CallerReturns, TypeOK, CallersTyped, WorkersTyped, mapVars
<1>3. roomOf[s] = r
  BY <1>1 DEF OwnInv, Rooted, Announces
<1>4. Rooted'
  BY <1>2, <1>3 DEF OwnInv, Rooted
<1>5. AloneInRoom'
  BY <1>1, <1>2, <1>3 DEF OwnInv, AloneInRoom, Announces
<1>6. \A d \in Callers, t \in Infos : Announces(d, t)' => Announces(d, t) /\ d # c
  BY <1>2 DEF Announces
<1>7. clean \subseteq Infos
  BY DEF TypeOK, SideTyped
<1>8. ASSUME NEW t \in clean
      PROVE  /\ \A v, w \in Workers : v # w /\ winfo'[v] = t /\ winfo'[w] = t => "tail" \in {wpc'[v], wpc'[w]}
             /\ \A d \in Callers, w \in Workers : ~(Announces(d, t)' /\ winfo'[w] = t)
             /\ \A d, e \in Callers : Announces(d, t)' /\ Announces(e, t)' => d = e
  <2>1. CASE t = s
    <3>1. \A w \in Workers : winfo[w] # s
      BY <1>1, <1>8, <2>1 DEF OwnInv, OneActs
    <3>2. \A d \in Callers : ~Announces(d, s)'
      BY <1>1, <1>6, <1>8, <2>1 DEF OwnInv, OneActs
    <3> QED BY <1>2, <2>1, <3>1, <3>2
  <2>2. CASE t # s
    <3>1. \A w \in Workers : winfo'[w] = t => winfo[w] = t /\ wpc'[w] = wpc[w]
      BY <1>2, <2>2
    <3> QED BY <1>6, <1>7, <3>1 DEF OwnInv, OneActs
  <2> QED BY <2>1, <2>2
<1>9. OneActs'
  BY <1>2, <1>8 DEF OneActs
<1> QED BY <1>4, <1>5, <1>9 DEF OwnInv

\* recover() looks the session up by room: it finds its own, or one that is not clean.
LEMMA LoadOwner ==
  ASSUME TypeOK, OwnInv, PublishedIsLive, NEW w \in Workers, RecoverLoad(w)
  PROVE  OwnInv'
<1>1. /\ wpc[w] = "load" /\ wroom[w] \in Rooms
      /\ UNCHANGED <<recording, roomOf, clean, cpc, croom, cinfo>>
  BY DEF RecoverLoad, mapVars, sideVars, callerVars, TypeOK, WorkersTyped
<1>2. CASE Leave(w)
  BY <1>1, <1>2, NoNewOwner DEF Leave, GoesOn, OwnInv, Rooted, TypeOK, WorkersTyped
<1>3. CASE /\ StatusOf(wroom[w]) = "recording" /\ wpc' = [wpc EXCEPT ![w] = "mark"]
           /\ winfo' = [winfo EXCEPT ![w] = recording[wroom[w]]] /\ wroom' = wroom
  <2>1. PICK s \in Infos : s = recording[wroom[w]] /\ roomOf[s] = wroom[w]
    BY <1>1, <1>3 DEF StatusOf, PublishedIsLive, TypeOK, MapsTyped
  <2>2. s \in clean => winfo[w] = s
    BY <1>1, <2>1 DEF OwnInv, AloneInRoom
  <2>3. /\ wpc'[w] = "mark" /\ winfo'[w] = s
        /\ \A v \in Workers : v # w => wpc'[v] = wpc[v] /\ winfo'[v] = winfo[v]
    BY <1>3, <2>1 DEF TypeOK, WorkersTyped
  <2>4. Rooted'
    BY <1>1, <1>3, <2>1, <2>3 DEF OwnInv, Rooted
  <2>5. AloneInRoom'
    BY <1>1, <1>3, <2>1, <2>3 DEF OwnInv, AloneInRoom
  <2>6. \A v \in Workers, t \in clean : winfo'[v] = t => winfo[v] = t /\ (wpc[v] = "tail" => wpc'[v] = "tail")
    BY <1>1, <2>2, <2>3
  <2>7. OneActs'
    BY <1>1, <2>6 DEF OwnInv, OneActs, Announces
  <2> QED BY <2>4, <2>5, <2>7 DEF OwnInv
<1> QED BY <1>2, <1>3 DEF RecoverLoad

\* A recovery that succeeds starts the next capture and is at its end itself.
LEMMA RecheckOwner ==
  ASSUME TypeOK, OwnInv, NEW w \in Workers, RecoverRecheck(w)
  PROVE  OwnInv'
<1>1. /\ wpc[w] = "recheck" /\ wroom[w] \in Rooms /\ winfo[w] \in Infos
      /\ UNCHANGED <<recording, roomOf, clean, cpc, croom, cinfo>>
  BY DEF RecoverRecheck, mapVars, sideVars, callerVars, TypeOK, WorkersTyped
<1>2. CASE Leave(w)
  BY <1>1, <1>2, NoNewOwner DEF Leave, GoesOn, OwnInv, Rooted, TypeOK, WorkersTyped
<1>3. ASSUME NEW n \in Workers, wpc[n] = "free",
             wpc' = [wpc EXCEPT ![w] = "tail", ![n] = "capture"],
             wroom' = [wroom EXCEPT ![n] = wroom[w]], winfo' = [winfo EXCEPT ![n] = winfo[w]]
      PROVE  OwnInv'
  <2>1. /\ n # w /\ wpc'[w] = "tail" /\ wpc'[n] = "capture" /\ wroom'[n] = wroom[w] /\ winfo'[n] = winfo[w]
        /\ \A v \in Workers : v # n => wroom'[v] = wroom[v] /\ winfo'[v] = winfo[v]
        /\ \A v \in Workers : v # n /\ v # w => wpc'[v] = wpc[v]
    BY <1>1, <1>3 DEF TypeOK, WorkersTyped
  <2>2. Rooted'
    <3>1. roomOf[winfo[w]] = wroom[w]
      BY <1>1 DEF OwnInv, Rooted
    <3>2. ASSUME NEW v \in Workers
          PROVE  /\ wpc'[v] = "free" => wroom'[v] = Nil /\ winfo'[v] = Nil
                 /\ wpc'[v] # "free" => roomOf'[winfo'[v]] = wroom'[v]
      <4>1. CASE v \in {w, n}
        BY <1>1, <2>1, <3>1, <4>1
      <4>2. CASE v \notin {w, n}
        BY <1>1, <2>1, <4>2 DEF OwnInv, Rooted
      <4> QED BY <4>1, <4>2
    <3> QED BY <1>1, <3>2 DEF OwnInv, Rooted
  <2>3. AloneInRoom'
    BY <1>1, <2>1 DEF OwnInv, AloneInRoom
  <2>4. ASSUME NEW t \in clean, NEW u \in Workers, NEW v \in Workers, u # v, winfo'[u] = t, winfo'[v] = t
        PROVE  "tail" \in {wpc'[u], wpc'[v]}
    <3>1. CASE winfo[w] = t
      <4>1. \A x \in Workers : x # w /\ winfo[x] = t => wpc[x] = "tail"
        BY <1>1, <3>1 DEF OwnInv, OneActs
      <4> QED BY <2>1, <2>4, <4>1
    <3>2. CASE winfo[w] # t
      <4>1. u # n /\ v # n /\ u # w /\ v # w
        BY <2>1, <2>4, <3>2
      <4> QED BY <2>1, <2>4, <4>1 DEF OwnInv, OneActs
    <3> QED BY <3>1, <3>2
  <2>5. \A v \in Workers, t \in clean : winfo'[v] = t => \E u \in Workers : winfo[u] = t
    BY <2>1
  <2>6. OneActs'
    BY <1>1, <2>4, <2>5 DEF OwnInv, OneActs, Announces
  <2> QED BY <2>2, <2>3, <2>6 DEF OwnInv
<1> QED BY <1>2, <1>3 DEF RecoverRecheck

\* No action gives a clean session a second owner.
LEMMA OwnStep == TypeOK /\ LiveInv /\ OwnInv /\ [Next]_vars => OwnInv'
<1> SUFFICES ASSUME TypeOK, LiveInv, OwnInv, [Next]_vars PROVE OwnInv'
  OBVIOUS
<1>0. ASSUME NEW w \in Workers PROVE (UNCHANGED workerVars => GoesOn(w)) /\ (Leave(w) => GoesOn(w))
  BY DEF GoesOn, Leave, workerVars, OwnInv, Rooted, TypeOK, WorkersTyped
<1>1. ASSUME NEW c \in Callers, NEW s \in Infos, StartConfirm(c, s) PROVE OwnInv'
  BY <1>1, ConfirmOwner
<1>2. ASSUME NEW c \in Callers, NEW w \in Workers, StartAnnounce(c, w) PROVE OwnInv'
  BY <1>2, AnnounceOwner
<1>3. ASSUME NEW w \in Workers, RecoverLoad(w) PROVE OwnInv'
  BY <1>3, LoadOwner DEF LiveInv
<1>4. ASSUME NEW w \in Workers, RecoverRecheck(w) PROVE OwnInv'
  BY <1>4, RecheckOwner
<1>5. ASSUME UNCHANGED <<callerVars, workerVars, roomOf, clean>>,
             \A r \in Rooms : recording'[r] \in {recording[r], Nil}
      PROVE  OwnInv'
  BY <1>0, <1>5, NoNewOwner DEF callerVars
<1>6. ASSUME NEW c \in Callers,
             StartReserve(c) \/ StartFail(c) \/ StartConnected(c) \/ \E r \in Rooms : StartCheck(c, r)
      PROVE  OwnInv'
  <2>1. \A d \in Callers : cpc'[d] = "announce" =>
          cpc[d] = "announce" /\ croom'[d] = croom[d] /\ cinfo'[d] = cinfo[d]
    BY <1>6 DEF StartReserve, StartFail, StartConnected, StartCheck, CallerTo, CallerReturns, TypeOK, CallersTyped
  <2>2. UNCHANGED <<recording, workerVars, roomOf, clean>>
    BY <1>6 DEF StartReserve, StartFail, StartConnected, StartCheck, mapVars, sideVars
  <2> QED BY <1>0, <2>1, <2>2, NoNewOwner
<1>7. ASSUME NEW w \in Workers, wpc[w] \notin {"free", "tail"},
             \E place \in WorkerPlaces \ {"free"} : WorkerTo(w, place),
             UNCHANGED <<callerVars, recording, roomOf, clean>>
      PROVE  OwnInv'
  <2>1. \A v \in Workers : GoesOn(v)
    BY <1>7 DEF WorkerTo, GoesOn, OwnInv, Rooted, TypeOK, WorkersTyped
  <2> QED BY <1>7, <2>1, NoNewOwner DEF callerVars
<1>8. ASSUME NEW w \in Workers, Leave(w), UNCHANGED <<callerVars, roomOf, clean>>,
             \A r \in Rooms : recording'[r] \in {recording[r], Nil}
      PROVE  OwnInv'
  <2>1. \A v \in Workers : GoesOn(v)
    BY <1>8 DEF Leave, GoesOn, OwnInv, Rooted, TypeOK, WorkersTyped
  <2> QED BY <1>8, <2>1, NoNewOwner DEF callerVars
<1>9. ASSUME NEW w \in Workers,
             \/ CaptureEnds(w) \/ RecoverMark(w) \/ RecoverRetry(w) \/ RecoverReserve(w) \/ RecoverFail(w)
             \/ RecoverConnected(w) \/ RecoverConfirm(w) \/ RecoverTail(w) \/ RecoverBackoff(w)
             \/ RecoverInterrupted(w)
      PROVE  OwnInv'
  <2>1. UNCHANGED <<callerVars, recording, roomOf, clean>>
    BY <1>9 DEF CaptureEnds, RecoverMark, RecoverRetry, RecoverReserve, RecoverFail, RecoverConnected,
                RecoverConfirm, RecoverTail, RecoverBackoff, RecoverInterrupted, mapVars, sideVars
  <2>2. \/ Leave(w)
        \/ wpc[w] \notin {"free", "tail"} /\ \E place \in WorkerPlaces \ {"free"} : WorkerTo(w, place)
    BY <1>9 DEF CaptureEnds, RecoverMark, RecoverRetry, RecoverReserve, RecoverFail, RecoverConnected,
                RecoverConfirm, RecoverTail, RecoverBackoff, RecoverInterrupted, WorkerPlaces, LoopPlaces
  <2> QED BY <1>7, <1>8, <2>1, <2>2
<1>10. ASSUME NEW w \in Workers, RecoverWake(w) PROVE OwnInv'
  <2>1. \A v \in Workers : GoesOn(v)
    BY <1>10 DEF RecoverWake, GoesOn, OwnInv, Rooted, TypeOK, WorkersTyped
  <2> QED BY <1>10, <2>1, NoNewOwner DEF RecoverWake, mapVars, sideVars, callerVars
<1>11. ASSUME NEW w \in Workers, RecoverGiveUp(w) PROVE OwnInv'
  <2>1. \A r \in Rooms : recording'[r] \in {recording[r], Nil}
    BY <1>11 DEF RecoverGiveUp, StopTake, mapVars, TypeOK, MapsTyped
  <2> QED BY <1>8, <1>11, <2>1 DEF RecoverGiveUp, sideVars
<1>12. ASSUME NEW r \in Rooms, UserStop(r) PROVE OwnInv'
  BY <1>5, <1>12 DEF UserStop, StopTake, sideVars, TypeOK, MapsTyped
<1>13. ASSUME NEW s \in Infos, StopFinish(s) PROVE OwnInv'
  BY <1>5, <1>13 DEF StopFinish, mapVars
<1>14. CASE Shutdown \/ UNCHANGED vars
  BY <1>5, <1>14 DEF Shutdown, vars, mapVars, sideVars
<1> QED
  BY <1>1, <1>2, <1>3, <1>4, <1>6, <1>9, <1>10, <1>11, <1>12, <1>13, <1>14 DEF Next, Caller, Recovery

\* A session that is committed when nobody of the room's earlier sessions is left has one
\* capture, or one goroutine that recovers it, and never both (rotate and recover).
THEOREM OneCapture == Spec => []OneOwner
<1>1. Init => OwnInv
  BY DEF Init, OwnInv, Rooted, AloneInRoom, OneActs
<1>2. OwnInv => OneOwner
  BY DEF OwnInv, OneActs, OneOwner
<1> QED BY <1>1, <1>2, OwnStep, Live, PTL DEF Spec
================================================================================
