----------------------------- MODULE DanmakuSidecar -----------------------------
(***************************************************************************)
(* The sidecar files of internal/services/danmaku: while a room is being   *)
(* recorded, a danmaku session keeps one sidecar file per video segment.   *)
(*                                                                         *)
(* The recorder's capture goroutine announces every new segment (Rotate, a *)
(* channel of capacity one whose latest value wins); finalize(), one       *)
(* goroutine per finished segment, reports a segment whose video was not   *)
(* kept (Discard); the session's write loop owns the files: it opens a     *)
(* sidecar when it takes a rotation and removes one when it applies a      *)
(* discard.  The connection supervisor closes the message channel when the *)
(* recording is cancelled, which ends the write loop.                      *)
(*                                                                         *)
(* The messages themselves are left out; of their channel only its being   *)
(* closed matters here.                                                    *)
(***************************************************************************)
EXTENDS Naturals, FiniteSets

CONSTANT MaxSegments  \* bound: segments of the recording

ASSUME SidecarAssumption == MaxSegments \in Nat \ {0}

Segments == 1..MaxSegments

VARIABLES
  seg,        \* the video segment the recorder is at; 0: none yet
  capPc,        \* capture goroutine: its place in rotate() and Rotate
  tries,      \* sends Rotate has left (for range 2)
  fpc,        \* finalize() of every segment
  recCancelled,  \* the recording context
  closed,     \* the supervisor closed session.msgCh
  mapped,     \* Service.sessions holds the session
  rotateCh,   \* session.rotateCh: the segment in it, or 0
  signal,     \* session.discardCh
  pending,    \* session.pendingDiscards
  exiting,    \* session.exiting
  wpc, req,   \* write loop: place, the rotation in hand
  again,      \* that rotation was found by a discard, which is still to be applied
  cur,        \* the segment whose sidecar has a writer, or 0
  sidecars,      \* sidecar files on disk
  opened,     \* sidecar files ever created
  reached,      \* the last segment the write loop opened, or tried to open
  kept,       \* segments whose video file exists when finalize looks
  overtaken   \* segments opened after their discard had been applied

recVars == <<seg, capPc, tries, fpc, recCancelled, kept>>
chanVars == <<rotateCh, signal, pending>>
writeLoopVars == <<wpc, req, again, cur, reached>>
histVars == <<opened, overtaken>>
sidecarVars == <<recVars, chanVars, writeLoopVars, closed, mapped, exiting, sidecars, histVars>>

SidecarInit ==
  /\ seg = 0 /\ capPc = "segment" /\ tries = 0
  /\ fpc = [k \in Segments |-> "none"]
  /\ recCancelled = FALSE /\ closed = FALSE /\ mapped = FALSE
  /\ rotateCh = 0 /\ signal = FALSE /\ pending = {} /\ exiting = FALSE
  /\ wpc = "none" /\ req = 0 /\ again = FALSE /\ cur = 0
  /\ sidecars = {} /\ reached = 0 /\ kept = {} /\ opened = {} /\ overtaken = {}

--------------------------------------------------------------------------------
(* The recorder.                                                           *)

\* rotate: the first segment of a user start.  StartSession starts supervisor and
\* write loop.
StartSession ==
  /\ capPc = "segment" /\ seg = 0
  /\ seg' = 1
  /\ capPc' = "record"
  /\ mapped' = TRUE
  /\ wpc' = "open" /\ req' = 1
  /\ UNCHANGED <<tries, fpc, recCancelled, kept, chanVars, again, cur, reached, closed, exiting,
                 sidecars, histVars>>

\* rotate: every later segment; a session that has left the map is not notified.
NextSegment ==
  /\ capPc = "segment" /\ seg \in 1..(MaxSegments - 1)
  /\ seg' = seg + 1
  /\ capPc' = IF mapped THEN "send" ELSE "record"
  /\ tries' = 2
  /\ UNCHANGED <<fpc, recCancelled, kept, chanVars, writeLoopVars, closed, mapped, exiting, sidecars,
                 histVars>>

\* Rotate: the sending select; its default goes on to the draining one.
RotateSend ==
  /\ capPc = "send"
  /\ IF rotateCh = 0
     THEN rotateCh' = seg /\ capPc' = "record"
     ELSE capPc' = "drain" /\ UNCHANGED rotateCh
  /\ UNCHANGED <<seg, tries, fpc, recCancelled, kept, signal, pending, writeLoopVars, closed,
                 mapped, exiting, sidecars, histVars>>

\* Faulty: the superseded rotation is taken out, the new one is not sent again.
RotateDrainOnly ==
  /\ capPc = "drain"
  /\ rotateCh' = 0
  /\ tries' = tries - 1
  /\ capPc' = "record"
  /\ UNCHANGED <<seg, fpc, recCancelled, kept, signal, pending, writeLoopVars, closed, mapped,
                 exiting, sidecars, histVars>>

\* Rotate: the draining select; two rounds, then the signal is dropped.
RotateDrain ==
  /\ capPc = "drain"
  /\ rotateCh' = 0
  /\ tries' = tries - 1
  /\ capPc' = IF tries > 1 THEN "send" ELSE "record"
  /\ UNCHANGED <<seg, fpc, recCancelled, kept, signal, pending, writeLoopVars, closed, mapped,
                 exiting, sidecars, histVars>>

\* rev returns: the segment is over and finalize() runs on its own.
SegmentEnds(keep) ==
  /\ capPc = "record"
  /\ capPc' = "segment"
  /\ fpc' = [fpc EXCEPT ![seg] = IF keep THEN "done" ELSE "discard"]
  /\ kept' = IF keep THEN kept \cup {seg} ELSE kept
  /\ UNCHANGED <<seg, tries, recCancelled, chanVars, writeLoopVars, closed, mapped, exiting, sidecars,
                 histVars>>

\* Discard: look the session up; without one the file is removed here.
DiscardLoad(k) ==
  /\ fpc[k] = "discard"
  /\ IF mapped
     THEN fpc' = [fpc EXCEPT ![k] = "queue"] /\ UNCHANGED sidecars
     ELSE fpc' = [fpc EXCEPT ![k] = "done"] /\ sidecars' = sidecars \ {k}
  /\ UNCHANGED <<seg, capPc, tries, recCancelled, kept, chanVars, writeLoopVars, closed, mapped,
                 exiting, histVars>>

\* queueDiscard: Add, then a signal that never blocks.
DiscardQueue(k) ==
  /\ fpc[k] = "queue"
  /\ pending' = pending \cup {k}
  /\ fpc' = [fpc EXCEPT ![k] = "signal"]
  /\ UNCHANGED <<seg, capPc, tries, recCancelled, kept, rotateCh, signal, writeLoopVars, closed,
                 mapped, exiting, sidecars, histVars>>

DiscardSignal(k) ==
  /\ fpc[k] = "signal"
  /\ signal' = TRUE
  /\ fpc' = [fpc EXCEPT ![k] = "check"]
  /\ UNCHANGED <<seg, capPc, tries, recCancelled, kept, rotateCh, pending, writeLoopVars, closed,
                 mapped, exiting, sidecars, histVars>>

\* Faulty: a session that is ending is trusted to apply the discard.
DiscardTrusting(k) ==
  /\ fpc[k] = "check"
  /\ fpc' = [fpc EXCEPT ![k] = "done"]
  /\ UNCHANGED <<seg, capPc, tries, recCancelled, kept, chanVars, writeLoopVars, closed, mapped,
                 exiting, sidecars, histVars>>

\* Discard: if the session is on its way out, remove the file here as well.
DiscardCheck(k) ==
  /\ fpc[k] = "check"
  /\ fpc' = [fpc EXCEPT ![k] = "done"]
  /\ sidecars' = IF exiting THEN sidecars \ {k} ELSE sidecars
  /\ UNCHANGED <<seg, capPc, tries, recCancelled, kept, chanVars, writeLoopVars, closed, mapped,
                 exiting, histVars>>

Discard(k) == DiscardLoad(k) \/ DiscardQueue(k) \/ DiscardSignal(k) \/ DiscardCheck(k)

\* Stop, or the end of the service, cancels the recording context.
CancelRecording ==
  /\ seg > 0 /\ ~recCancelled
  /\ recCancelled' = TRUE
  /\ UNCHANGED <<seg, capPc, tries, fpc, kept, chanVars, writeLoopVars, closed, mapped, exiting,
                 sidecars, histVars>>

\* supervise returns and closes msgCh.
SupervisorEnds ==
  /\ recCancelled /\ ~closed
  /\ closed' = TRUE
  /\ UNCHANGED <<recVars, chanVars, writeLoopVars, mapped, exiting, sidecars, histVars>>

--------------------------------------------------------------------------------
(* The write loop.                                                         *)

\* openSegment: a file and a writer for it, or neither.  A sidecar whose discard was
\* applied before is back again.
OpenSidecar(k) ==
  /\ \/ /\ cur' = k
        /\ sidecars' = sidecars \cup {k}
        /\ opened' = opened \cup {k}
        /\ overtaken' = overtaken \cup
             {x \in {k} \ (kept \cup pending) : fpc[x] \in {"signal", "check", "done"}}
     \/ UNCHANGED <<cur, sidecars, histVars>>
  /\ reached' = k

\* writeLoop: the first sidecar.
OpenFirst ==
  /\ wpc = "open"
  /\ OpenSidecar(req)
  /\ wpc' = "select"
  /\ UNCHANGED <<recVars, chanVars, req, again, closed, mapped, exiting>>

\* writeLoop: the select.  Several ready cases: any of them.
SelectClosed ==
  /\ wpc = "select" /\ closed
  /\ wpc' = "stop"
  /\ UNCHANGED <<recVars, chanVars, req, again, cur, reached, closed, mapped, exiting, sidecars,
                 histVars>>

SelectRotate ==
  /\ wpc = "select" /\ rotateCh # 0
  /\ req' = rotateCh /\ rotateCh' = 0
  /\ wpc' = "rotate"
  /\ UNCHANGED <<recVars, signal, pending, again, cur, reached, closed, mapped, exiting,
                 sidecars,
                 histVars>>

SelectDiscard ==
  /\ wpc = "select" /\ signal
  /\ signal' = FALSE
  /\ wpc' = "peek"
  /\ UNCHANGED <<recVars, rotateCh, pending, req, again, cur, reached, closed, mapped, exiting,
                 sidecars,
                 histVars>>

\* writeLoop, discard case: a rotation that is already there goes first.
Peek ==
  /\ wpc = "peek"
  /\ IF rotateCh # 0
     THEN req' = rotateCh /\ rotateCh' = 0 /\ wpc' = "rotate" /\ again' = TRUE
     ELSE wpc' = "apply" /\ UNCHANGED <<req, rotateCh, again>>
  /\ UNCHANGED <<recVars, signal, pending, cur, reached, closed, mapped, exiting, sidecars,
                 histVars>>

\* Faulty: drainPending does not tell a closed channel and receives for ever.
HandleRotateForever ==
  /\ wpc = "rotate" /\ ~closed
  /\ wpc' = "finalize"
  /\ UNCHANGED <<recVars, chanVars, req, again, cur, reached, closed, mapped, exiting, sidecars,
                 histVars>>

\* handleRotate: drainPending; a closed channel ends the session instead.
HandleRotate ==
  /\ wpc = "rotate"
  /\ wpc' = IF closed THEN "stop" ELSE "finalize"
  /\ UNCHANGED <<recVars, chanVars, req, again, cur, reached, closed, mapped, exiting, sidecars,
                 histVars>>

\* rotateSegment: finalizeSegment closes the writer (footer, drain, fsync).
FinalizeSegment ==
  /\ wpc = "finalize"
  /\ cur' = 0
  /\ wpc' = "reopen"
  /\ UNCHANGED <<recVars, chanVars, req, again, reached, closed, mapped, exiting, sidecars,
                 histVars>>

\* rotateSegment: openSegment, then applyDiscards.
Reopen ==
  /\ wpc = "reopen"
  /\ OpenSidecar(req)
  /\ wpc' = "apply"
  /\ UNCHANGED <<recVars, chanVars, req, again, closed, mapped, exiting>>

\* Faulty: the sidecar being written is abandoned whatever the discard names.
ApplyOneBlindly(k) ==
  /\ wpc \in {"apply", "lastapply"} /\ k \in pending
  /\ pending' = pending \ {k}
  /\ sidecars' = sidecars \ {k, cur}
  /\ cur' = 0
  /\ UNCHANGED <<recVars, rotateCh, signal, wpc, req, again, reached, closed, mapped, exiting,
                 histVars>>

\* applyDiscards: one path of the set; abandonCurrentSidecar if its writer is open.
ApplyOne(k) ==
  /\ wpc \in {"apply", "lastapply"} /\ k \in pending
  /\ pending' = pending \ {k}
  /\ sidecars' = sidecars \ {k}
  /\ cur' = IF cur = k THEN 0 ELSE cur
  /\ UNCHANGED <<recVars, rotateCh, signal, wpc, req, again, reached, closed, mapped, exiting,
                 histVars>>

\* applyDiscards finds the set empty; after a rotation that a discard found, the
\* discard case calls it once more.
ApplyEnds ==
  /\ wpc \in {"apply", "lastapply"} /\ pending = {}
  /\ wpc' = CASE wpc = "lastapply" -> "remove"
              [] wpc = "apply" /\ again -> "apply"
              [] OTHER -> "select"
  /\ again' = FALSE
  /\ UNCHANGED <<recVars, chanVars, req, cur, reached, closed, mapped, exiting, sidecars,
                 histVars>>

\* stopWriteLoop: finalize, then raise the flag Discard looks at.
StopWriteLoop ==
  \/ /\ wpc = "stop"
     /\ cur' = 0 /\ wpc' = "exiting"
     /\ UNCHANGED <<recVars, chanVars, req, again, reached, closed, mapped, exiting, sidecars,
                    histVars>>
  \/ /\ wpc = "exiting"
     /\ exiting' = TRUE /\ wpc' = "lastapply"
     /\ UNCHANGED <<recVars, chanVars, req, again, cur, reached, closed, mapped, sidecars,
                    histVars>>

\* The deferred removeSession.
RemoveSession ==
  /\ wpc = "remove"
  /\ mapped' = FALSE /\ wpc' = "done"
  /\ UNCHANGED <<recVars, chanVars, req, again, cur, reached, closed, exiting, sidecars,
                 histVars>>

WriteLoop ==
  \/ OpenFirst \/ SelectClosed \/ SelectRotate \/ SelectDiscard \/ Peek
  \/ HandleRotate \/ FinalizeSegment \/ Reopen
  \/ \E k \in Segments : ApplyOne(k)
  \/ ApplyEnds \/ StopWriteLoop \/ RemoveSession

--------------------------------------------------------------------------------
SidecarNext ==
  \/ StartSession \/ NextSegment \/ RotateSend \/ RotateDrain
  \/ \E keep \in BOOLEAN : SegmentEnds(keep)
  \/ \E k \in Segments : Discard(k)
  \/ CancelRecording \/ SupervisorEnds \/ WriteLoop

SidecarSpec == SidecarInit /\ [][SidecarNext]_sidecarVars

(* Goroutines that can run do run; a select with a case that is always     *)
(* ready takes it some time (the choice among ready cases is random).      *)
(* Nobody has to rotate, end a segment or stop the recording.              *)
SidecarFairness ==
  /\ WF_sidecarVars(RotateSend \/ RotateDrain) /\ WF_sidecarVars(SupervisorEnds)
  /\ \A k \in Segments : WF_sidecarVars(Discard(k))
  /\ WF_sidecarVars(WriteLoop) /\ SF_sidecarVars(SelectClosed) /\ SF_sidecarVars(SelectRotate)

SidecarFairSpec == SidecarSpec /\ SidecarFairness

--------------------------------------------------------------------------------
(* Properties.                                                             *)

\* Every variable has its type, and the writer's file is on disk.
SidecarTypeOK ==
  /\ seg \in 0..MaxSegments /\ capPc \in {"segment", "send", "drain", "record"}
  /\ tries \in 0..2
  /\ fpc \in [Segments -> {"none", "discard", "queue", "signal", "check", "done"}]
  /\ {recCancelled, closed, mapped, signal, exiting, again} \subseteq BOOLEAN
  /\ rotateCh \in 0..seg /\ req \in 0..seg /\ reached \in 0..seg
  /\ pending \subseteq Segments /\ kept \subseteq Segments /\ overtaken \subseteq Segments
  /\ wpc \in {"none", "open", "select", "peek", "rotate", "finalize", "reopen", "apply",
              "stop", "exiting", "lastapply", "remove", "done"}
  /\ sidecars \subseteq Segments /\ cur \in sidecars \cup {0}

\* The sidecar of a segment whose video is kept stays, and so does the one of the
\* segment that is being recorded, whichever neighbours are discarded meanwhile.
KeptSidecarSurvives ==
  \A k \in opened : fpc[k] = "none" \/ k \in kept => k \in sidecars

\* Nobody is going to work on the discard of k any more: Discard has returned, and the
\* write loop has taken k out of the set or does not look into it again.
Settled(k) ==
  /\ fpc[k] = "done" /\ k \notin kept
  /\ k \in pending => wpc \in {"remove", "done"}

\* A discard is lost in one way only, by being applied before the rotation that opens
\* the file: neither the end of the session, nor its leaving the map, nor two
\* signals that fall into one loses one.
OnlyOvertakenSurvive ==
  \A k \in sidecars : Settled(k) => k \in overtaken

\* Together: at the end the sidecars on disk are those of the kept videos, but for the discards
\* that overtook their rotation (applyPendingDiscards, removeFinalized).
SidecarsMatchVideos == KeptSidecarSurvives /\ OnlyOvertakenSurvive

\* Rotate promises that the session "never lingers on a segment the video already
\* left": when Rotate has returned, its rotation waits in the channel, is in the write
\* loop's hand or has been taken, however many were superseded on the way, unless the
\* session is at its end.
FollowsVideo ==
  capPc = "record" /\ wpc \notin {"stop", "exiting", "lastapply", "remove", "done"} =>
    \/ reached = seg \/ rotateCh = seg
    \/ req = seg /\ wpc \in {"open", "rotate", "finalize", "reopen"}

\* The write loop ends once the recording is cancelled, so the stop hook's wg.Wait
\* returns, whatever rotations and discards arrive meanwhile.
SessionEnds == recCancelled ~> wpc = "done"

\* What the service promises and the code does not keep: "if the video file is never
\* kept, Discard removes the sidecar".
DiscardRemovesSidecar == \A k \in sidecars : ~Settled(k)
================================================================================
