---------------------------- MODULE RecorderSession ----------------------------
(***************************************************************************)
(* The session layer of internal/services/recorder: Start, Stop, the       *)
(* reservation of pkg/tx that guards them, and the recovery loop that runs *)
(* in the goroutine of every capture when its stream ends.                 *)
(*                                                                         *)
(* Three kinds of process interleave:                                      *)
(*   - callers:  calls of Start (HTTP handler, subscription check);        *)
(*   - workers:  goroutines started by prepare(): a capture (rotate) and,  *)
(*               deferred behind it, recover();                            *)
(*   - stops:    calls of Stop (HTTP handler, duration check, give-up),    *)
(*               which take a session out of the map in one step and       *)
(*               cancel it in a later one.                                 *)
(*                                                                         *)
(* A worker remembers the room it was started for, and recover() looks the *)
(* session up again by that room.  What the capture itself does (segments, *)
(* files, finalize) is the subject of module RecorderSegments.             *)
(***************************************************************************)
EXTENDS Naturals, FiniteSets, Sequences

CONSTANTS
  Rooms,          \* room identifiers
  Infos,          \* identities of *Info values, one per committed Start
  Callers,        \* calls of Start that may be in flight together
  Workers,        \* identities of the goroutines prepare() starts
  Nil,            \* no session, no room
  MaxConcurrent,  \* cfg.MaxConcurrentRecordings
  MaxAttempts,    \* cfg.MaxRecoveryAttempts
  RetryWindow     \* number of waits (2s or more each) that surely exceed
                  \* cfg.MaxRetryMinutes

ASSUME RoomsAssumption == IsFiniteSet(Rooms)
ASSUME NilAssumption == Nil \notin Rooms \cup Infos
ASSUME LimitsAssumption == /\ MaxConcurrent \in Nat
                           /\ MaxAttempts \in Nat \ {0}
                           /\ RetryWindow \in Nat \ {0}

VARIABLES
  recording,   \* Service.recording: room -> session, or Nil
  status,      \* Info.status
  cancelled,   \* sessions whose own context was cancelled by Stop
  shutdown,    \* Service.ctx was cancelled by the stop hook
  stopping,    \* sessions Stop has taken out of the map and not yet cancelled
  pending,     \* Pending.pending of Service.reser
  cpc, croom, cinfo,         \* callers: place in Start, its room, its session
  wpc, wroom, winfo, wtry,   \* workers: place, room, session, attempt
  roomOf,      \* the room a session was committed for; Nil: not committed yet
  events,      \* per session, the session events handed to the webhook service
  gauge,       \* the room_recording_recovering gauge
  clean        \* sessions committed when no older worker of the room was left

mapVars == <<recording, status, pending>>
endVars == <<cancelled, shutdown, stopping>>
callerVars == <<cpc, croom, cinfo>>
workerVars == <<wpc, wroom, winfo, wtry>>
sideVars == <<roomOf, events, gauge, clean>>
vars == <<mapVars, endVars, callerVars, workerVars, sideVars>>

Statuses == {"recording", "recovering"}

(* The places of a worker.  "free": no such goroutine; "capture": rotate();*)
(* all others: recover().  At "connect" and "confirm" a process holds the  *)
(* reservation of its room.                                                *)
LoopPlaces == {"retry", "reserve", "connect", "confirm", "failed",
               "notlive", "sleep"}
WorkerPlaces == {"free", "capture", "load", "mark", "recheck", "tail",
                 "giveup"} \cup LoopPlaces
CallerPlaces == {"idle", "reserve", "connect", "confirm", "announce"}
Holding == {"connect", "confirm"}

--------------------------------------------------------------------------------
(* State functions of the code.                                            *)

\* GetStatus
StatusOf(r) == IF recording[r] = Nil THEN "idle" ELSE status[recording[r]]

\* The keys of Service.recording.
Published == {r \in Rooms : recording[r] # Nil}

\* Faulty: session contexts derived from context.Background().
DeadUnlessShutdown(s) == s \in cancelled

\* info.ctx.Err() # nil: the session context is a child of the service's.
Dead(s) == shutdown \/ s \in cancelled

\* Faulty: only the sessions are counted.
OverLimitOfSessions(r) ==
  /\ Cardinality(Published \cup {r}) > MaxConcurrent
  /\ StatusOf(r) # "recovering"

\* The validateFunc NewService gives to tx.NewPending, run with the room already
\* added to the pending set.  The lookups are one step: a concurrent Stop can
\* only turn an admission into a refusal.
OverLimit(r) ==
  /\ Cardinality(Published) + Cardinality(pending \cup {r}) > MaxConcurrent
  /\ StatusOf(r) # "recovering"

Admissible(r) == /\ StatusOf(r) # "recording"
                 /\ ~OverLimit(r)

\* PendingTxn.Reserve, when it succeeds.
Reserve(r) == /\ r \notin pending
              /\ Admissible(r)
              /\ pending' = pending \cup {r}

\* PendingTxn.AbortWith on a reserved transaction.
Abort(r) == pending' = pending \ {r}

Init ==
  /\ recording = [r \in Rooms |-> Nil]
  /\ status = [s \in Infos |-> "recording"]
  /\ pending = {}
  /\ cancelled = {} /\ shutdown = FALSE /\ stopping = {}
  /\ cpc = [c \in Callers |-> "idle"]
  /\ croom = [c \in Callers |-> Nil]
  /\ cinfo = [c \in Callers |-> Nil]
  /\ wpc = [w \in Workers |-> "free"]
  /\ wroom = [w \in Workers |-> Nil]
  /\ winfo = [w \in Workers |-> Nil]
  /\ wtry = [w \in Workers |-> 1]
  /\ roomOf = [s \in Infos |-> Nil]
  /\ events = [s \in Infos |-> <<>>]
  /\ gauge = [r \in Rooms |-> "absent"]
  /\ clean = {}

--------------------------------------------------------------------------------
(* Start.                                                                  *)

CallerTo(c, place) ==
  /\ cpc' = [cpc EXCEPT ![c] = place]
  /\ UNCHANGED <<croom, cinfo>>

\* The call returns.
CallerReturns(c) ==
  /\ cpc' = [cpc EXCEPT ![c] = "idle"]
  /\ croom' = [croom EXCEPT ![c] = Nil]
  /\ cinfo' = [cinfo EXCEPT ![c] = Nil]

\* The bound on Start calls: each call in flight can still get a session.
SessionsLeft ==
  Cardinality({c \in Callers : cpc[c] \in Holding \cup {"reserve"}})
    < Cardinality({s \in Infos : roomOf[s] = Nil})

\* Start: the status check in front of everything.
StartCheck(c, r) ==
  /\ cpc[c] = "idle" /\ SessionsLeft
  /\ StatusOf(r) = "idle"
  /\ cpc' = [cpc EXCEPT ![c] = "reserve"]
  /\ croom' = [croom EXCEPT ![c] = r]
  /\ UNCHANGED <<cinfo, mapVars, endVars, workerVars, sideVars>>

\* Faulty: the deferred Abort also runs for a transaction that reserved nothing.
StartReserveAborting(c) ==
  /\ cpc[c] = "reserve"
  /\ IF croom[c] \notin pending /\ Admissible(croom[c])
     THEN Reserve(croom[c]) /\ CallerTo(c, "connect")
     ELSE CallerReturns(c) /\ Abort(croom[c])
  /\ UNCHANGED <<recording, status, endVars, workerVars, sideVars>>

\* internalStart: Reserve, or return its error.
StartReserve(c) ==
  /\ cpc[c] = "reserve"
  /\ IF croom[c] \notin pending /\ Admissible(croom[c])
     THEN Reserve(croom[c]) /\ CallerTo(c, "connect")
     ELSE CallerReturns(c) /\ UNCHANGED pending
  /\ UNCHANGED <<recording, status, endVars, workerVars, sideVars>>

\* internalStart: any error return between Reserve and commitSession (context,
\* disk space, room state, no reachable URL); the deferred Abort releases the room.
StartFail(c) ==
  /\ cpc[c] = "connect"
  /\ Abort(croom[c])
  /\ CallerReturns(c)
  /\ UNCHANGED <<recording, status, endVars, workerVars, sideVars>>

\* connectStream succeeded and sessionReadyForConfirm holds.
StartConnected(c) ==
  /\ cpc[c] = "connect"
  /\ ~shutdown
  /\ CallerTo(c, "confirm")
  /\ UNCHANGED <<mapVars, endVars, workerVars, sideVars>>

\* No goroutine of an earlier session of the room is left, or about to start.
Quiet(r) == /\ \A w \in Workers : wroom[w] # r
            /\ \A c \in Callers : cpc[c] = "announce" => croom[c] # r

\* commitSession, user mode: a new Info is published under the reservation lock.
StartConfirm(c, s) ==
  LET r == croom[c] IN
  /\ cpc[c] = "confirm"
  /\ roomOf[s] = Nil
  /\ roomOf' = [roomOf EXCEPT ![s] = r]
  /\ pending' = pending \ {r}
  /\ status' = [status EXCEPT ![s] = "recording"]
  /\ recording' = [recording EXCEPT ![r] = s]
  /\ gauge' = [gauge EXCEPT ![r] = "off"]
  /\ clean' = IF Quiet(r) THEN clean \cup {s} ELSE clean
  /\ cpc' = [cpc EXCEPT ![c] = "announce"]
  /\ cinfo' = [cinfo EXCEPT ![c] = s]
  /\ UNCHANGED <<croom, endVars, workerVars, events>>

\* internalStart after the commit: emitSessionStarted, then prepare starts the
\* goroutine that captures and, when the capture ends, recovers.
StartAnnounce(c, w) ==
  /\ cpc[c] = "announce"
  /\ wpc[w] = "free"
  /\ events' = [events EXCEPT ![cinfo[c]] = Append(@, "started")]
  /\ wpc' = [wpc EXCEPT ![w] = "capture"]
  /\ wroom' = [wroom EXCEPT ![w] = croom[c]]
  /\ winfo' = [winfo EXCEPT ![w] = cinfo[c]]
  /\ CallerReturns(c)
  /\ UNCHANGED <<wtry, mapVars, endVars, roomOf, gauge, clean>>

--------------------------------------------------------------------------------
(* Stop.                                                                   *)

\* Faulty: Load instead of LoadAndDelete.
StopTakeKeeping(r) ==
  /\ recording[r] # Nil
  /\ stopping' = stopping \cup {recording[r]}
  /\ UNCHANGED <<mapVars, cancelled, shutdown>>

\* Stop: LoadAndDelete on the recording map.
StopTake(r) ==
  /\ recording[r] # Nil
  /\ recording' = [recording EXCEPT ![r] = Nil]
  /\ stopping' = stopping \cup {recording[r]}
  /\ UNCHANGED <<status, pending, cancelled, shutdown>>

\* A call of Stop from the API, or from the duration check.
UserStop(r) == /\ StopTake(r)
               /\ UNCHANGED <<callerVars, workerVars, sideVars>>

\* Faulty: the cancel is forgotten.
StopFinishUncancelled(s) ==
  /\ s \in stopping
  /\ stopping' = stopping \ {s}
  /\ events' = [events EXCEPT ![s] = Append(@, "ended")]
  /\ gauge' = [gauge EXCEPT ![roomOf[s]] = "absent"]
  /\ UNCHANGED <<shutdown, cancelled, mapVars, callerVars, workerVars, roomOf, clean>>

\* Stop, second half: cancel, metrics, SessionEnded, unregister the gauges.
StopFinish(s) ==
  /\ s \in stopping
  /\ stopping' = stopping \ {s}
  /\ cancelled' = cancelled \cup {s}
  /\ events' = [events EXCEPT ![s] = Append(@, "ended")]
  /\ gauge' = [gauge EXCEPT ![roomOf[s]] = "absent"]
  /\ UNCHANGED <<shutdown, mapVars, callerVars, workerVars, roomOf, clean>>

\* The stop hook of the service cancels the parent of every session context.
Shutdown ==
  /\ ~shutdown
  /\ shutdown' = TRUE
  /\ UNCHANGED <<cancelled, stopping, mapVars, callerVars, workerVars, sideVars>>

--------------------------------------------------------------------------------
(* The worker: capture, then recover().                                    *)

WorkerTo(w, place) ==
  /\ wpc' = [wpc EXCEPT ![w] = place]
  /\ UNCHANGED <<wroom, winfo, wtry>>

\* The goroutine ends.
Leave(w) ==
  /\ wpc' = [wpc EXCEPT ![w] = "free"]
  /\ wroom' = [wroom EXCEPT ![w] = Nil]
  /\ winfo' = [winfo EXCEPT ![w] = Nil]
  /\ wtry' = [wtry EXCEPT ![w] = 1]

\* rotate returns: the stream ended, the pipeline failed or the session was
\* cancelled; the deferred recover() is next.
CaptureEnds(w) ==
  /\ wpc[w] = "capture"
  /\ WorkerTo(w, "load")
  /\ UNCHANGED <<callerVars, mapVars, endVars, sideVars>>

\* Faulty: the missing session is not noticed.
RecoverLoadUnchecked(w) ==
  /\ wpc[w] = "load"
  /\ IF StatusOf(wroom[w]) # "recovering"
     THEN /\ wpc' = [wpc EXCEPT ![w] = "mark"]
          /\ winfo' = [winfo EXCEPT ![w] = recording[wroom[w]]]
          /\ UNCHANGED <<wroom, wtry>>
     ELSE Leave(w)
  /\ UNCHANGED <<callerVars, mapVars, endVars, sideVars>>

\* recover: look the session up by room and read its status.
RecoverLoad(w) ==
  /\ wpc[w] = "load"
  /\ IF StatusOf(wroom[w]) = "recording"
     THEN /\ wpc' = [wpc EXCEPT ![w] = "mark"]
          /\ winfo' = [winfo EXCEPT ![w] = recording[wroom[w]]]
          /\ UNCHANGED <<wroom, wtry>>
     ELSE Leave(w)
  /\ UNCHANGED <<callerVars, mapVars, endVars, sideVars>>

\* recover: store the new status, raise the gauge, start counting attempts.
RecoverMark(w) ==
  /\ wpc[w] = "mark"
  /\ status' = [status EXCEPT ![winfo[w]] = "recovering"]
  /\ gauge' = [gauge EXCEPT ![wroom[w]] = "on"]
  /\ WorkerTo(w, "retry")
  /\ UNCHANGED <<recording, pending, endVars, callerVars, roomOf, events, clean>>

\* recover: top of the loop.
RecoverRetry(w) ==
  /\ wpc[w] = "retry"
  /\ IF Dead(winfo[w]) THEN Leave(w) ELSE WorkerTo(w, "reserve")
  /\ UNCHANGED <<callerVars, mapVars, endVars, sideVars>>

\* internalStart in recovery mode: Reserve, and what recover makes of its errors.
RecoverReserve(w) ==
  LET r == wroom[w] IN
  /\ wpc[w] = "reserve"
  /\ \/ Reserve(r) /\ WorkerTo(w, "connect")
     \/ /\ r \in pending \/ StatusOf(r) = "recording"
        /\ WorkerTo(w, "failed") /\ UNCHANGED pending
     \/ /\ r \notin pending /\ StatusOf(r) # "recording" /\ OverLimit(r)
        /\ WorkerTo(w, "giveup") /\ UNCHANGED pending
  /\ UNCHANGED <<callerVars, recording, status, endVars, sideVars>>

\* internalStart in recovery mode returns an error: banned or encrypted room
\* ("giveup"), stream not live, any other error, or a cancelled context.  The
\* lookups do not carry the session context, so the first three can also be
\* returned after a cancellation.
RecoverFail(w) ==
  /\ wpc[w] = "connect"
  /\ Abort(wroom[w])
  /\ \/ \E place \in {"giveup", "notlive", "failed"} : WorkerTo(w, place)
     \/ Dead(winfo[w]) /\ Leave(w)
  /\ UNCHANGED <<callerVars, recording, status, endVars, sideVars>>

\* sessionReadyForConfirm, and the checks at the end of commitSession.
StillPublished(w) == ~Dead(winfo[w]) /\ recording[wroom[w]] = winfo[w]

\* connectStream succeeded; sessionReadyForConfirm decides.
RecoverConnected(w) ==
  /\ wpc[w] = "connect"
  /\ IF StillPublished(w)
     THEN WorkerTo(w, "confirm") /\ UNCHANGED pending
     ELSE Leave(w) /\ Abort(wroom[w])
  /\ UNCHANGED <<callerVars, recording, status, endVars, sideVars>>

\* Faulty: the confirmation publishes the session again, as a user start does.
RecoverConfirmRepublishing(w) ==
  /\ wpc[w] = "confirm"
  /\ pending' = pending \ {wroom[w]}
  /\ status' = [status EXCEPT ![winfo[w]] = "recording"]
  /\ recording' = [recording EXCEPT ![wroom[w]] = winfo[w]]
  /\ WorkerTo(w, "recheck")
  /\ UNCHANGED <<callerVars, endVars, sideVars>>

\* commitSession, recovery mode: ConfirmWith sets the status back.
RecoverConfirm(w) ==
  /\ wpc[w] = "confirm"
  /\ pending' = pending \ {wroom[w]}
  /\ status' = [status EXCEPT ![winfo[w]] = "recording"]
  /\ WorkerTo(w, "recheck")
  /\ UNCHANGED <<callerVars, recording, endVars, sideVars>>

\* Faulty: recover keeps retrying after a success.
RecoverRecheckLooping(w) ==
  /\ wpc[w] = "recheck"
  /\ IF StillPublished(w)
     THEN \E n \in Workers :
            /\ wpc[n] = "free"
            /\ wpc' = [wpc EXCEPT ![w] = "retry", ![n] = "capture"]
            /\ wroom' = [wroom EXCEPT ![n] = wroom[w]]
            /\ winfo' = [winfo EXCEPT ![n] = winfo[w]]
            /\ UNCHANGED wtry
     ELSE Leave(w)
  /\ UNCHANGED <<callerVars, mapVars, endVars, sideVars>>

\* commitSession, recovery mode: the checks behind the confirmation; on success
\* prepare starts the next worker.
RecoverRecheck(w) ==
  /\ wpc[w] = "recheck"
  /\ IF StillPublished(w)
     THEN \E n \in Workers :
            /\ wpc[n] = "free"
            /\ wpc' = [wpc EXCEPT ![w] = "tail", ![n] = "capture"]
            /\ wroom' = [wroom EXCEPT ![n] = wroom[w]]
            /\ winfo' = [winfo EXCEPT ![n] = winfo[w]]
            /\ UNCHANGED wtry
     ELSE Leave(w)
  /\ UNCHANGED <<callerVars, mapVars, endVars, sideVars>>

\* recover after a success: lower the gauge and return.
RecoverTail(w) ==
  /\ wpc[w] = "tail"
  /\ gauge' = [gauge EXCEPT ![wroom[w]] = "off"]
  /\ Leave(w)
  /\ UNCHANGED <<callerVars, mapVars, endVars, roomOf, events, clean>>

\* recover, default branch: return if the room has no session any more, give up
\* after MaxAttempts, or once the retry window of an off-air stream has passed.
RecoverBackoff(w) ==
  /\ wpc[w] \in {"failed", "notlive"}
  /\ \/ recording[wroom[w]] = Nil /\ Leave(w)
     \/ /\ recording[wroom[w]] # Nil
        /\ WorkerTo(w, "giveup")
        /\ wpc[w] = "failed" => wtry[w] >= MaxAttempts
     \/ /\ recording[wroom[w]] # Nil
        /\ WorkerTo(w, "sleep")
        /\ wtry[w] < IF wpc[w] = "failed" THEN MaxAttempts ELSE RetryWindow
  /\ UNCHANGED <<callerVars, mapVars, endVars, sideVars>>

\* Faulty: the attempt is not counted.
RecoverWakeUncounted(w) ==
  /\ wpc[w] = "sleep"
  /\ WorkerTo(w, "retry")
  /\ UNCHANGED <<callerVars, mapVars, endVars, sideVars>>

\* The timer fires; attempt is only compared with the two limits, so it is
\* counted up to the larger one.
RecoverWake(w) ==
  /\ wpc[w] = "sleep"
  /\ wpc' = [wpc EXCEPT ![w] = "retry"]
  /\ wtry' = [wtry EXCEPT ![w] = IF @ < MaxAttempts \/ @ < RetryWindow
                                 THEN @ + 1 ELSE @]
  /\ UNCHANGED <<wroom, winfo, callerVars, mapVars, endVars, sideVars>>

\* The select sees one of the contexts cancelled.
RecoverInterrupted(w) ==
  /\ wpc[w] = "sleep"
  /\ Dead(winfo[w])
  /\ Leave(w)
  /\ UNCHANGED <<callerVars, mapVars, endVars, sideVars>>

\* giveUpRecover: Stop by room number, whatever session the map holds by now.
RecoverGiveUp(w) ==
  /\ wpc[w] = "giveup"
  /\ IF recording[wroom[w]] # Nil
     THEN StopTake(wroom[w])
     ELSE UNCHANGED <<mapVars, endVars>>
  /\ Leave(w)
  /\ UNCHANGED <<callerVars, sideVars>>

--------------------------------------------------------------------------------
Caller(c) ==
  \/ StartReserve(c) \/ StartFail(c) \/ StartConnected(c)
  \/ \E s \in Infos : StartConfirm(c, s)
  \/ \E w \in Workers : StartAnnounce(c, w)

Recovery(w) ==
  \/ RecoverLoad(w) \/ RecoverMark(w) \/ RecoverRetry(w) \/ RecoverReserve(w)
  \/ RecoverFail(w) \/ RecoverConnected(w) \/ RecoverConfirm(w)
  \/ RecoverRecheck(w) \/ RecoverTail(w) \/ RecoverBackoff(w)
  \/ RecoverWake(w) \/ RecoverInterrupted(w) \/ RecoverGiveUp(w)

Next ==
  \/ \E c \in Callers : Caller(c) \/ \E r \in Rooms : StartCheck(c, r)
  \/ \E r \in Rooms : UserStop(r)
  \/ \E s \in Infos : StopFinish(s)
  \/ Shutdown
  \/ \E w \in Workers : CaptureEnds(w) \/ Recovery(w)

Spec == Init /\ [][Next]_vars

(* A goroutine that can run eventually runs, network calls return, a       *)
(* cancelled stream ends its capture.  Nobody has to call Start or Stop,   *)
(* and a healthy capture may go on for ever.                               *)
Fairness ==
  /\ \A c \in Callers : WF_vars(Caller(c))
  /\ \A s \in Infos : WF_vars(StopFinish(s))
  /\ \A w \in Workers : /\ WF_vars(Recovery(w))
                        /\ WF_vars(CaptureEnds(w) /\ Dead(winfo[w]))

FairSpec == Spec /\ Fairness

--------------------------------------------------------------------------------
(* Properties.                                                             *)

MapsTyped ==
  /\ recording \in [Rooms -> Infos \cup {Nil}]
  /\ status \in [Infos -> {"recording", "recovering"}]
  /\ pending \in SUBSET Rooms

EndsTyped == /\ cancelled \in SUBSET Infos
             /\ shutdown \in BOOLEAN
             /\ stopping \in SUBSET Infos

CallersTyped ==
  /\ cpc \in [Callers -> CallerPlaces]
  /\ croom \in [Callers -> Rooms \cup {Nil}]
  /\ cinfo \in [Callers -> Infos \cup {Nil}]
  /\ \A c \in Callers : cpc[c] # "idle" => croom[c] \in Rooms
  /\ \A c \in Callers : cpc[c] = "announce" => cinfo[c] \in Infos

WorkersTyped ==
  /\ wpc \in [Workers -> WorkerPlaces]
  /\ wroom \in [Workers -> Rooms \cup {Nil}]
  /\ winfo \in [Workers -> Infos \cup {Nil}]
  /\ wtry \in [Workers -> Nat]
  /\ \A w \in Workers : wpc[w] # "free" => wroom[w] \in Rooms /\ winfo[w] \in Infos

SideTyped ==
  /\ roomOf \in [Infos -> Rooms \cup {Nil}]
  /\ events \in [Infos -> Seq({"started", "ended"})]
  /\ gauge \in [Rooms -> {"absent", "off", "on"}]
  /\ clean \in SUBSET Infos

\* Every variable has its type; a process that is busy has a room, and a session
\* from the place on where the code holds an *Info.
TypeOK == MapsTyped /\ EndsTyped /\ CallersTyped /\ WorkersTyped /\ SideTyped

CallerHolds(c, r) == cpc[c] \in Holding /\ croom[c] = r
WorkerHolds(w, r) == wpc[w] \in Holding /\ wroom[w] = r

\* A room is reserved exactly while one process is between its Reserve and its
\* Abort or Confirm, and that process is the only one of the room
\* (pkg/tx Pending: the deferred Abort of internalStart and the Confirm of
\* commitSession never release the reservation of somebody else).
ReservationExclusive ==
  \A r \in Rooms :
    /\ r \in pending <=> \/ \E c \in Callers : CallerHolds(c, r)
                         \/ \E w \in Workers : WorkerHolds(w, r)
    /\ \A c, d \in Callers : CallerHolds(c, r) /\ CallerHolds(d, r) => c = d
    /\ \A v, w \in Workers : WorkerHolds(v, r) /\ WorkerHolds(w, r) => v = w
    /\ \A c \in Callers, w \in Workers : ~(CallerHolds(c, r) /\ WorkerHolds(w, r))

\* MAX_CONCURRENT_RECORDINGS: sessions and admitted starts never exceed the limit,
\* although the validation counts a recovering room twice and exempts it.
WithinLimit == Cardinality(Published \cup pending) <= MaxConcurrent

\* A session in the map is one Stop has not touched, under the room it was
\* committed for: nothing, the recovery commit in particular, puts a stopped
\* session back.
PublishedIsLive ==
  \A r \in Rooms : recording[r] # Nil =>
    /\ roomOf[recording[r]] = r
    /\ recording[r] \notin cancelled \cup stopping

\* One capture per session, and at most one goroutine that recovers it: true of the
\* sessions that were committed after the goroutines of the room's earlier
\* sessions had ended (recover() finds its session by room).
OneOwner ==
  \A s \in clean :
    \A v, w \in Workers :
      /\ v # w /\ winfo[v] = s /\ winfo[w] = s
      => "tail" \in {wpc[v], wpc[w]}

\* The webhook service gets SessionStarted and SessionEnded at most once for a
\* session, however many calls of Stop, give-ups and recoveries race.
AnnouncedOnce ==
  \A s \in Infos : \A i, j \in 1..Len(events[s]) :
    events[s][i] = events[s][j] => i = j

\* What the recorder promises about capacity (module RoomSlots).
Slots == INSTANCE RoomSlots WITH held <- Published \cup pending
ImplementsRoomSlots == Slots!Spec

\* A session does not stay in recovery: it records again, or it is given up,
\* stopped or overtaken by the end of the service.
RecoveryEnds ==
  \A r \in Rooms : \A s \in Infos :
    (recording[r] = s /\ status[s] = "recovering" /\ ~shutdown)
      ~> (recording[r] # s \/ status[s] = "recording" \/ shutdown)

\* The stop hook waits for the goroutines of all captures (wg.Wait): after the
\* service context is cancelled they all end, and none is started any more.
ShutdownDrains ==
  [](shutdown => <>[](\A w \in Workers : wpc[w] = "free"))

\* Stop reaches the goroutines: a session it took out of the map is left by all of
\* them, for good, one that a slow Start announces only afterwards included.
StoppedSessionIsLeft ==
  \A s \in Infos : [](s \in stopping => <>[](\A w \in Workers : winfo[w] # s))

(* Properties the repository states and the code does not have.            *)

\* webhook_integration_test.go requires SessionEnded to follow SessionStarted.
StartedBeforeEnded ==
  \A s \in Infos : \A i \in 1..Len(events[s]) :
    events[s][i] = "ended" => \E j \in 1..i : events[s][j] = "started"

\* UnregisterRecorderRoom "drops the room's recording gauges so stopped rooms
\* disappear from current-state queries": with nothing going on in a room, its
\* recovering gauge is absent.
StoppedRoomHasNoGauge ==
  \A r \in Rooms :
    /\ recording[r] = Nil /\ Quiet(r)
    /\ \A s \in stopping : roomOf[s] # r
    => gauge[r] = "absent"

\* The default branch of recover "should check if recording was manually stopped":
\* a goroutine that gives up stops the session it was recovering, no other.
GiveUpStopsItsOwn ==
  [][\A w \in Workers : RecoverGiveUp(w) =>
       recording[wroom[w]] \in {winfo[w], Nil}]_vars

\* Start answers ErrRecordRecovering while a session of the room recovers
\* (TestStart_RejectsRecovering): a commit never replaces a session.
StartNeverReplaces ==
  [][\A c \in Callers, s \in Infos : StartConfirm(c, s) => recording[croom[c]] = Nil]_vars
================================================================================
