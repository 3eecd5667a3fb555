-------------------------- MODULE RecorderSegments --------------------------
(***************************************************************************)
(* The files of a recording (internal/services/recorder): rotate() opens a *)
(* segment after the other, rev() feeds it until the stream or the segment *)
(* ends, finalize() reports it from a goroutine of its own; a recovery     *)
(* goes on with a new file stamp; a start that finds the disk full deletes *)
(* the room's oldest files, and the file controller those a user names,    *)
(* unless they are listed in writingFiles.                                 *)
(*                                                                         *)
(* Who may start, stop and recover a session is the subject of module      *)
(* RecorderSession; here a room has at most one session and one            *)
(* internalStart at a time, and a session one capture.  The capture of a   *)
(* stopped session winds up while the next session starts.                 *)
(*                                                                         *)
(* A file is named by its room's directory, the title, the stamp in        *)
(* seconds and the number of the segment.  writingFiles and the protection *)
(* from deletion know the base name only, without the directory.  The      *)
(* writer creates a file once the segment is worth one (StreamWriter).     *)
(***************************************************************************)
EXTENDS Integers, FiniteSets

CONSTANTS
    Rooms,
    Title,          \* [Rooms -> titles]
    MaxSessions,    \* bound: sessions of all rooms
    MaxClock,       \* bound: seconds
    MaxRecoveries,  \* bound: recoveries that connect
    MaxSegment,     \* bound: last number of a segment
    MaxNames        \* bound: segments of all sessions

ASSUME SegmentsAssumption ==
    /\ MaxSessions \in Nat \ {0} /\ MaxClock \in Nat
    /\ MaxRecoveries \in Nat /\ MaxSegment \in Nat /\ MaxNames \in Nat
    /\ DOMAIN Title = Rooms

VARIABLES
    clock,        \* the time in seconds
    live,         \* Service.recording: the session of a room, 0 if none
    start,        \* internalStart of a room: place, session (0: by a user), ...
    used,         \* sessions so far
    recoveries,   \* recoveries so far
    room,         \* Info.room, to which a session belongs
    fileTime,     \* Info.fileTime, in seconds
    outputPath,   \* Info.outputPath
    segmentOpen,  \* Info.segmentOpenTime: the segment at whose opening it was set
    capture,      \* rotate() and rev() of a session: place, segment, ...
    final,        \* the goroutines of finalize
    writing,      \* writingFiles
    disk,         \* which session's bytes a file holds, 0: no such file
    taken,        \* the names that segments have had so far
    asked         \* the file a user's deletion has checked, NoFile if none

startVars == <<live, start, used, recoveries>>
info == <<room, fileTime, outputPath, segmentOpen>>
files == <<writing, disk, taken, asked>>
segVars == <<clock, startVars, info, capture, final, files>>

Sessions == 1..MaxSessions
Stamps == 0..(MaxClock + MaxRecoveries)
Files == [room : Rooms, stamp : Stamps, segment : 0..MaxSegment]
NoFile == [segment |-> -1]
NoRoom == "none"
Base(f) == <<Title[f.room], f.stamp, f.segment>>
Older(f, g) == \/ f.stamp < g.stamp
               \/ f.stamp = g.stamp /\ f.segment < g.segment

NoStart == [at |-> "idle", session |-> 0, now |-> 0, list |-> {},
            deleted |-> FALSE, pass |-> 1]
NoCapture == [at |-> "none", segment |-> 0, created |-> FALSE,
              recovered |-> FALSE]

SegInit ==
    /\ clock = 0
    /\ live = [r \in Rooms |-> 0]
    /\ start = [r \in Rooms |-> NoStart]
    /\ used = 0 /\ recoveries = 0
    /\ room = [s \in Sessions |-> NoRoom]
    /\ fileTime = [s \in Sessions |-> 0]
    /\ outputPath = [s \in Sessions |-> NoFile]
    /\ segmentOpen = [s \in Sessions |-> NoFile]
    /\ capture = [s \in Sessions |-> NoCapture]
    /\ final = {}
    /\ writing = {} /\ taken = {} /\ asked = NoFile
    /\ disk = [f \in Files |-> 0]

Second ==
    /\ clock < MaxClock
    /\ clock' = clock + 1
    /\ UNCHANGED <<startVars, info, capture, final, files>>

-----------------------------------------------------------------------------
(* Start, recovery and Stop.                                               *)

UserStart(r) ==
    /\ start[r].at = "idle" /\ live[r] = 0 /\ used < MaxSessions
    /\ start' = [start EXCEPT ![r].at = "disk"]
    /\ UNCHANGED <<clock, live, used, recoveries, info, capture, final, files>>

\* recover(): the capture has ended and nobody has stopped the session.
Recover(s) ==
    /\ capture[s].at = "ended" /\ live[room[s]] = s
    /\ start[room[s]].at = "idle" /\ recoveries < MaxRecoveries
    /\ start' = [start EXCEPT ![room[s]].at = "disk", ![room[s]].session = s]
    /\ recoveries' = recoveries + 1
    /\ UNCHANGED <<clock, live, used, info, capture, final, files>>

Stop(r) ==
    /\ live[r] # 0
    /\ live' = [live EXCEPT ![r] = 0]
    /\ UNCHANGED <<clock, start, used, recoveries, info, capture, final, files>>

\* The base names that protectedBasenames keeps from deletion.
Protected(r) ==
    LET s == start[r].session
    IN  writing \cup IF s # 0 /\ outputPath[s] # NoFile
                     THEN {Base(outputPath[s])} ELSE {}

\* ensureDiskSpace: enough is free, ...
DiskFree(r) ==
    /\ start[r].at = "disk"
    /\ start' = [start EXCEPT ![r].at = "connect", ![r].now = clock]
    /\ UNCHANGED <<clock, live, used, recoveries, info, capture, final, files>>

\* ... or the room's files are listed that may be deleted.
ListDeletable(r) ==
    LET listed == {f \in Files : f.room = r /\ disk[f] # 0
                               /\ Base(f) \notin Protected(r)}
    IN  /\ start[r].at = "disk" /\ listed # {}
        /\ start' = [start EXCEPT ![r].at = "delete", ![r].list = listed,
                                  ![r].deleted = FALSE]
        /\ UNCHANGED <<clock, live, used, recoveries, info, capture, final,
                       files>>

Oldest(r) == CHOOSE f \in start[r].list :
                 \A g \in start[r].list : g = f \/ Older(f, g)

\* deleteUntil: the oldest file is skipped when it is being written by now, ...
CheckOldest(r) ==
    /\ start[r].at = "delete" /\ start[r].list # {}
    /\ start' = IF Base(Oldest(r)) \in writing
                THEN [start EXCEPT ![r].list = @ \ {Oldest(r)}]
                ELSE [start EXCEPT ![r].at = "remove"]
    /\ UNCHANGED <<clock, live, used, recoveries, info, capture, final, files>>

\* ... and removed otherwise.
RemoveOldest(r) ==
    /\ start[r].at = "remove"
    /\ disk' = [disk EXCEPT ![Oldest(r)] = 0]
    /\ start' = [start EXCEPT ![r].at = "delete", ![r].list = @ \ {Oldest(r)},
                              ![r].deleted = TRUE]
    /\ UNCHANGED <<clock, live, used, recoveries, info, capture, final, writing,
                   taken, asked>>

\* The list is done and it was not enough: once more, from the free space on.
ListAgain(r) ==
    /\ start[r].at = "delete" /\ start[r].list = {}
    /\ start[r].deleted /\ start[r].pass = 1
    /\ start' = [start EXCEPT ![r].at = "disk", ![r].deleted = FALSE,
                              ![r].pass = 2]
    /\ UNCHANGED <<clock, live, used, recoveries, info, capture, final, files>>

\* Enough is deleted.  The time for the stamp is read before connecting.
Deleted(r) ==
    /\ start[r].at = "delete" /\ start[r].deleted
    /\ start' = [start EXCEPT ![r].at = "connect", ![r].now = clock,
                              ![r].list = {}, ![r].deleted = FALSE]
    /\ UNCHANGED <<clock, live, used, recoveries, info, capture, final, files>>

\* No space, no stream, no connection; or the session was stopped meanwhile.
StartFails(r) ==
    /\ start[r].at # "idle"
    /\ start' = [start EXCEPT ![r] = NoStart]
    /\ UNCHANGED <<clock, live, used, recoveries, info, capture, final, files>>

\* commitSession and prepare for a new session.
CommitUser(r) ==
    LET s == used + 1
    IN  /\ start[r].at = "connect" /\ start[r].session = 0 /\ used < MaxSessions
        /\ used' = s
        /\ live' = [live EXCEPT ![r] = s]
        /\ room' = [room EXCEPT ![s] = r]
        /\ fileTime' = [fileTime EXCEPT ![s] = start[r].now]
        /\ capture' = [capture EXCEPT ![s].at = "path"]
        /\ start' = [start EXCEPT ![r] = NoStart]
        /\ UNCHANGED <<clock, recoveries, outputPath, segmentOpen, final, files>>

\* Faulty: the stamp of the recovery is the time.
nextFileTimeNow(prev, now) == now

nextFileTime(prev, now) == IF now > prev THEN now ELSE prev + 1

\* commitSession and prepare for a recovery.
CommitRecovery(r) ==
    LET s == start[r].session
    IN  /\ start[r].at = "connect" /\ s # 0 /\ live[r] = s
        /\ fileTime' = [fileTime EXCEPT ![s] = nextFileTime(@, start[r].now)]
        /\ capture' = [capture EXCEPT ![s] = 
           [NoCapture EXCEPT !.at = "path", !.recovered = TRUE]]
        /\ start' = [start EXCEPT ![r] = NoStart]
        /\ UNCHANGED <<clock, live, used, recoveries, room, outputPath,
                       segmentOpen, final, files>>

Starting(r) ==
    \/ DiskFree(r) \/ ListDeletable(r) \/ CheckOldest(r) \/ RemoveOldest(r)
    \/ ListAgain(r) \/ Deleted(r) \/ CommitUser(r) \/ CommitRecovery(r) \/ StartFails(r)

-----------------------------------------------------------------------------
(* rotate() and rev().                                                     *)

Goto(s, l) == capture' = [capture EXCEPT ![s].at = l]

\* Faulty: the session's path is left as it was.
OpenSegmentUnset(s) ==
    /\ capture[s].at = "path"
    /\ Goto(s, "add") \/ Goto(s, "ended")
    /\ UNCHANGED <<clock, startVars, info, final, files>>

\* rotateFilePath, SetOutputPath, BuildPipeline and Open, which creates no
\* file; an error ends the capture.
OpenSegment(s) ==
    /\ capture[s].at = "path" /\ Cardinality(taken) < MaxNames
    /\ outputPath' = [outputPath EXCEPT ![s] =
           [room |-> room[s], stamp |-> fileTime[s],
            segment |-> capture[s].segment]]
    /\ Goto(s, "add") \/ Goto(s, "ended")
    /\ UNCHANGED <<clock, startVars, room, fileTime, segmentOpen, final, files>>

\* The segment's opening time, FileOpening, and the entry in writingFiles.
AddWriting(s) ==
    /\ capture[s].at = "add"
    /\ segmentOpen' = [segmentOpen EXCEPT ![s] = outputPath[s]]
    /\ writing' = writing \cup {Base(outputPath[s])}
    /\ taken' = taken \cup {<<s, outputPath[s]>>}
    /\ Goto(s, "rev")
    /\ UNCHANGED <<clock, startVars, room, fileTime, outputPath, final, disk,
                   asked>>

\* The segment is worth a file: the writer creates it, or truncates the one
\* of that name.  It may happen as late as in Close.
CreateFile(s) ==
    /\ capture[s].at = "rev" /\ ~capture[s].created
    /\ disk' = [disk EXCEPT ![outputPath[s]] = s]
    /\ capture' = [capture EXCEPT ![s].created = TRUE]
    /\ UNCHANGED <<clock, startVars, info, final, writing, taken, asked>>

Finalizer(s) == [session |-> s, file |-> outputPath[s], at |-> "stat",
                 open |-> NoFile]

\* rev has returned and closed the pipe; finalize is started.  The strategy
\* wants another file, or the capture is over.
EndSegment(s) ==
    /\ capture[s].at = "rev"
    /\ final' = final \cup {Finalizer(s)}
    /\ \/ /\ capture[s].segment < MaxSegment
          /\ capture' = [capture EXCEPT ![s].at = "path", ![s].created = FALSE,
                                        ![s].segment = @ + 1]
       \/ Goto(s, "ended")
    /\ UNCHANGED <<clock, startVars, info, files>>

Capturing(s) == OpenSegment(s) \/ AddWriting(s)

-----------------------------------------------------------------------------
(* finalize().                                                             *)

Advance(x, l) == final' = (final \ {x}) \cup {[x EXCEPT !.at = l]}

\* Faulty: a segment without a file returns before the deferred removal.
StatFileReturning(x) ==
    /\ x.at = "stat"
    /\ \/ disk[x.file] # 0 /\ Advance(x, "report")
       \/ disk[x.file] = 0 /\ final' = final \ {x}
    /\ UNCHANGED <<clock, startVars, info, capture, files>>

\* A segment without a file was too small: its sidecar is discarded.
StatFile(x) ==
    /\ x.at = "stat"
    /\ \/ disk[x.file] # 0 /\ Advance(x, "report")
       \/ disk[x.file] = 0 /\ Advance(x, "remove")
    /\ UNCHANGED <<clock, startVars, info, capture, files>>

\* Faulty: the name is given back before the segment is reported.
ReportUnlisted(x) ==
    /\ x.at = "report"
    /\ writing' = writing \ {Base(x.file)}
    /\ Advance(x, "remove")
    /\ UNCHANGED <<clock, startVars, info, capture, disk, taken, asked>>

\* emitFileClosed, or registerConvertSegmentMeta and Enqueue: both read the
\* opening time from the session.  Nothing is reported when the service stops.
Report(x) ==
    /\ x.at = "report"
    /\ \/ final' = (final \ {x}) \cup
              {[x EXCEPT !.at = "remove", !.open = segmentOpen[x.session]]}
       \/ Advance(x, "remove")
    /\ UNCHANGED <<clock, startVars, info, capture, files>>

\* The deferred removal.
RemoveWriting(x) ==
    /\ x.at = "remove"
    /\ writing' = writing \ {Base(x.file)}
    /\ final' = final \ {x}
    /\ UNCHANGED <<clock, startVars, info, capture, disk, taken, asked>>

Finalizing(x) == StatFile(x) \/ Report(x) \/ RemoveWriting(x)

-----------------------------------------------------------------------------
(* The file controller.                                                    *)

\* Faulty: any file may be deleted.
AskDeleteAny(f) ==
    /\ asked = NoFile /\ disk[f] # 0
    /\ asked' = f
    /\ UNCHANGED <<clock, startVars, info, capture, final, writing, disk, taken>>

\* deleteFiles: IsRecording for the path, ...
AskDelete(f) ==
    /\ asked = NoFile /\ disk[f] # 0 /\ Base(f) \notin writing
    /\ asked' = f
    /\ UNCHANGED <<clock, startVars, info, capture, final, writing, disk, taken>>

\* ... then DeleteFiles.  It fails when the file is gone or being converted.
DeleteFile ==
    /\ asked # NoFile
    /\ asked' = NoFile
    /\ disk' = [disk EXCEPT ![asked] = 0] \/ UNCHANGED disk
    /\ UNCHANGED <<clock, startVars, info, capture, final, writing, taken>>

SegNext ==
    \/ Second
    \/ \E r \in Rooms : UserStart(r) \/ Stop(r) \/ Starting(r)
    \/ \E s \in Sessions : \/ Recover(s) \/ Capturing(s)
                           \/ CreateFile(s) \/ EndSegment(s)
    \/ \E x \in final : Finalizing(x)
    \/ \E f \in Files : AskDelete(f)
    \/ DeleteFile

SegSpec == SegInit /\ [][SegNext]_segVars

\* A start returns (network calls have timeouts), the goroutines go on, and a
\* stopped session's stream ends.
SegFairness ==
    /\ \A r \in Rooms : WF_segVars(Starting(r))
    /\ \A s \in Sessions :
          /\ WF_segVars(Capturing(s))
          /\ WF_segVars(EndSegment(s) /\ live[room[s]] # s)
    /\ WF_segVars(\E x \in final : Finalizing(x))

SegFairSpec == SegSpec /\ SegFairness

-----------------------------------------------------------------------------
\* Types.  A capture past its path has a file name, and what is finalized is
\* a name that was listed.
SegTypeOK ==
    /\ clock \in 0..MaxClock
    /\ live \in [Rooms -> 0..MaxSessions]
    /\ start \in [Rooms -> [at : {"idle", "disk", "delete", "remove", "connect"},
                            session : 0..MaxSessions, now : 0..MaxClock,
                            list : SUBSET Files, deleted : BOOLEAN,
                            pass : {1, 2}]]
    /\ used \in 0..MaxSessions /\ recoveries \in 0..MaxRecoveries
    /\ room \in [Sessions -> Rooms \cup {NoRoom}]
    /\ fileTime \in [Sessions -> Stamps]
    /\ outputPath \in [Sessions -> Files \cup {NoFile}]
    /\ segmentOpen \in [Sessions -> Files \cup {NoFile}]
    /\ capture \in [Sessions ->
           [at : {"none", "path", "add", "rev", "ended"},
            segment : 0..MaxSegment, created : BOOLEAN, recovered : BOOLEAN]]
    /\ disk \in [Files -> 0..MaxSessions]
    /\ taken \subseteq Sessions \X Files
    /\ asked \in Files \cup {NoFile}
    /\ \A s \in Sessions :
          capture[s].at \in {"add", "rev"} =>
              outputPath[s] \in Files /\ outputPath[s].room = room[s]
    /\ \A x \in final : <<x.session, x.file>> \in taken
    /\ writing \subseteq {Base(t[2]) : t \in taken}

-----------------------------------------------------------------------------
\* The segments that are being written or not finalized yet.
Open(s, f) == capture[s].at = "rev" /\ outputPath[s] = f
Busy(f) == \/ \E s \in Sessions : Open(s, f)
           \/ \E x \in final : x.file = f

\* Two segments, of different sessions or rooms, have had the same base name.
Shared(b) == \E t, u \in taken : t # u /\ Base(t[2]) = b /\ Base(u[2]) = b

\* IsRecording and the low-disk deletion ask writingFiles: it lists every
\* segment from before its file exists until it has been reported, through
\* rotations, recoveries and overlapping finalizers, unless its base name was
\* used twice.
ListedWhileBusy ==
    \A f \in Files : Busy(f) => Base(f) \in writing \/ Shared(Base(f))

\* Neither the low-disk deletion nor a user's takes a file that is being
\* written or not yet finalized, although both have checked it some time
\* before they remove it (same exception).
DeletionSparesBusy ==
    [][\A f \in Files :
          disk[f] # 0 /\ disk'[f] = 0 => ~Busy(f) \/ Shared(Base(f))]_segVars

\* A session never uses a name twice: rotations count, and a recovery within
\* the same second gets a later stamp.
FreshNames ==
    [][\A s \in Sessions :
          capture[s].at = "add" /\ capture'[s].at = "rev" =>
              <<s, outputPath[s]>> \notin taken]_segVars

\* When the recordings have ended writingFiles becomes empty: no file stays
\* locked as "being recorded".
WritingEnds ==
    <>[](\A r \in Rooms : live[r] = 0) => <>[](writing = {})

\* deleteFiles refuses because of "a file that is being recorded" (the text in
\* file.go is Chinese): a file that is being recorded is not deleted.
ActiveFileKept ==
    [][\A f \in Files : disk[f] # 0 /\ disk'[f] = 0 =>
          ~\E s \in Sessions : Open(s, f)]_segVars

\* "Each recovery attempt creates a NEW file" (recorder.go): the file that a
\* recovered capture creates did not exist.
RecoveryCreatesNew ==
    [][\A s \in Sessions :
          ~capture[s].created /\ capture'[s].created /\ capture[s].recovered =>
              disk[outputPath[s]] = 0]_segVars

\* "RegisterConvertSegmentMeta associates recorder segment metadata with a
\* convert task input path" (webhook/convert.go): the opening time reported
\* with a file is the one of that file.
ReportedWithOwnTime == \A x \in final : x.open \in {NoFile, x.file}
=============================================================================
