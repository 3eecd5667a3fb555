-------------------------- MODULE ConvertQueueProofs --------------------------
(***************************************************************************)
(* Proofs about the local conversion queue, module ConvertQueue, when one  *)
(* task is converted at a time: a source is deleted only when there is a   *)
(* whole output for it, and no task leaves the bucket before that, for any *)
(* paths, requests, tasks, cancellations and crashes.                      *)
(*                                                                         *)
(* With one slot the run that holds it is the only one that touches files. *)
(* A run that has given its slot back may still be at its clean-up while   *)
(* the next one works, but that does not open a file any more.             *)
(***************************************************************************)
EXTENDS ConvertQueue, TLAPS

Working(r) == rpc[r] \notin {"idle", "cleanup"}

\* The slot is what keeps the runs apart.
OneRun ==
  /\ (slots > 0 => \A r \in Runs : ~Working(r))
  /\ \A r, x \in Runs : Working(r) /\ Working(x) => r = x

\* A run has a task, whose path stays, and is the one that its ffmpeg writes for.
HasTask(r) ==
  /\ (rpc[r] # "idle" => rtask[r] \in Tasks /\ path[rtask[r]] \in Paths)
  /\ writes[r] = (IF rpc[r] = "ffmpeg" THEN "staging" ELSE "none")
  /\ (ok[r] => rpc[r] \in {"clean", "finish", "schedule", "cleanup"})

\* What a run knows of its files: from the check on until it replaces the output there
\* is no whole one, so that none is lost that a deletion relies on.
KnowsFiles(r) ==
  /\ (rpc[r] = "open" => killed[r] \/ output[Input(r)] # "whole")
  /\ (rpc[r] \in {"ffmpeg", "validate", "remove", "rename"} => output[Input(r)] # "whole")
  /\ (rpc[r] = "ffmpeg" => staging[Input(r)] = "partial")
  /\ (rpc[r] \in {"validate", "remove", "rename"} => staging[Input(r)] = "whole")
  /\ (rpc[r] = "clean" /\ ok[r] => output[Input(r)] = "whole")
  /\ (rpc[r] \in {"finish", "schedule"} => source[Input(r)] # "present" \/ output[Input(r)] = "whole")

\* What is deleted, or will be, has a whole output.
DeletionsCovered ==
  \A p \in Paths :
    source[p] = "deleted" \/ (p \in deleting /\ source[p] = "present") => output[p] = "whole"

QueueInv ==
  /\ TypeOK
  /\ \A t \in list : path[t] # NoPath
  /\ OneRun
  /\ \A r \in Runs : HasTask(r) /\ KnowsFiles(r)
  /\ \A p \in Paths : output[p] # "mixed"
  /\ DeletionsCovered

--------------------------------------------------------------------------------
(* The start.                                                              *)

LEMMA QueueStarts == ASSUME Concurrency = 1, Init PROVE QueueInv
<1>1. TypeOK
  <2>1. Concurrency \in 0..Concurrency /\ 0 \in 0..MaxRestarts
    BY ConvertAssumption
  <2>2. output \in [Paths -> FileStates] /\ staging \in [Paths -> FileStates]
    BY DEF Init, FileStates
  <2>3. /\ path \in [Tasks -> Paths \cup {NoPath}] /\ request \in [Requests -> Paths \cup {NoPath}]
        /\ cooldown \in [Tasks -> 0..3] /\ processing \in [Tasks -> Runs \cup {0}]
        /\ rtask \in [Runs -> Tasks \cup {0}]
    BY DEF Init
  <2>4. /\ ok \in [Runs -> BOOLEAN] /\ killed \in [Runs -> BOOLEAN]
        /\ writes \in [Runs -> {"none", "staging", "output", "unlinked"}]
        /\ source \in [Paths -> {"present", "marked", "deleted", "gone"}]
    BY DEF Init
  <2>5. rpc \in [Runs -> {"idle", "check", "open", "ffmpeg", "validate", "remove", "rename",
                          "clean", "fail", "finish", "schedule", "cleanup"}]
    BY DEF Init
  <2>6. /\ queue = {} /\ deletes = {} /\ finalized = {} /\ cancelling = {} /\ list = {} /\ deleting = {}
        /\ cancelled = {} /\ down = FALSE /\ restarts = 0 /\ slots = Concurrency
    BY DEF Init
  <2> QED BY <2>1, <2>2, <2>3, <2>4, <2>5, <2>6 DEF TypeOK
<1>2. OneRun /\ \A r \in Runs : HasTask(r) /\ KnowsFiles(r)
  BY DEF Init, OneRun, Working, HasTask, KnowsFiles
<1>3. \A p \in Paths : source[p] = "present" /\ output[p] \in {"none", "partial"}
  BY DEF Init
<1> QED BY <1>1, <1>2, <1>3 DEF QueueInv, DeletionsCovered, Init

--------------------------------------------------------------------------------
(* The steps that leave the runs and what they write alone.                *)

LEMMA InputKnown ==
  ASSUME QueueInv, NEW r \in Runs, rpc[r] # "idle" PROVE rtask[r] \in Tasks /\ Input(r) \in Paths
BY DEF QueueInv, HasTask, Input

LEMMA Undisturbed ==
  ASSUME QueueInv, TypeOK',
         UNCHANGED <<staging, output, slots, rtask, rpc, ok, writes>>,
         \A t \in Tasks : path[t] # NoPath => path'[t] = path[t],
         \A r \in Runs : killed[r] /\ rpc[r] # "idle" => killed'[r],
         \A p \in Paths : source'[p] = "present" => source[p] = "present",
         \A p \in Paths : source'[p] = "deleted" => source[p] = "deleted" \/ (p \in deleting /\ source[p] = "present"),
         deleting' \subseteq deleting,
         \A t \in list' : path'[t] # NoPath
  PROVE  QueueInv'
<1>1. OneRun'
  BY DEF QueueInv, OneRun, Working
<1>2. ASSUME NEW r \in Runs PROVE HasTask(r)' /\ KnowsFiles(r)'
  <2>1. rpc[r] # "idle" => Input(r)' = Input(r) /\ Input(r) \in Paths /\ rtask[r] \in Tasks
    BY InputKnown, ConvertAssumption DEF Input
  <2>2. HasTask(r) /\ KnowsFiles(r)
    BY DEF QueueInv
  <2>3. HasTask(r)'
    BY <2>1, <2>2 DEF HasTask, Input
  <2>4. KnowsFiles(r)'
    BY <2>1, <2>2 DEF KnowsFiles
  <2> QED BY <2>3, <2>4
<1>3. DeletionsCovered'
  BY DEF QueueInv, DeletionsCovered
<1> QED BY <1>1, <1>2, <1>3 DEF QueueInv

LEMMA PutStep ==
  ASSUME QueueInv, NEW t \in Tasks, NEW p \in Paths, NEW delete, Put(t, p, delete),
         finalized' \subseteq Paths, request' \in [Requests -> Paths \cup {NoPath}],
         UNCHANGED <<cancelling, fileVars, loopVars, runVars, deleting, down, restarts, cancelled>>
  PROVE  QueueInv'
<1>1. TypeOK'
  BY ConvertAssumption DEF QueueInv, TypeOK, Put, fileVars, loopVars, runVars
<1>2. \A u \in Tasks : path[u] # NoPath => path'[u] = path[u]
  BY DEF QueueInv, TypeOK, Put
<1>3. \A u \in list' : path'[u] # NoPath
  BY <1>2 DEF QueueInv, TypeOK, loopVars
<1> QED BY <1>1, <1>2, <1>3, Undisturbed DEF fileVars, runVars

LEMMA EnqueueStep == ASSUME QueueInv, Enqueue PROVE QueueInv'
<1>1. ASSUME NEW t \in Tasks, NEW p \in Paths, NEW delete, RecorderEnqueue(t, p, delete) PROVE QueueInv'
  <2>1. finalized' \subseteq Paths /\ request' \in [Requests -> Paths \cup {NoPath}]
    BY <1>1 DEF RecorderEnqueue, QueueInv, TypeOK
  <2> QED BY <1>1, <2>1, PutStep DEF RecorderEnqueue
<1>2. ASSUME NEW t \in Tasks, NEW q \in Requests, NEW delete, RequestEnqueue(q, t, delete) PROVE QueueInv'
  <2>1. request[q] \in Paths /\ finalized' \subseteq Paths /\ request' \in [Requests -> Paths \cup {NoPath}]
    BY <1>2 DEF RequestEnqueue, QueueInv, TypeOK
  <2> QED BY <1>2, <2>1, PutStep DEF RequestEnqueue
<1> QED BY <1>1, <1>2 DEF Enqueue

LEMMA RequestStep == ASSUME QueueInv, NEW q \in Requests, NEW p \in Paths, RequestCheck(q, p) PROVE QueueInv'
<1>1. UNCHANGED <<dbVars, finalized, cancelling, fileVars, loopVars, runVars, deleting, down, restarts, cancelled>>
      /\ request' \in [Requests -> Paths \cup {NoPath}]
  BY DEF RequestCheck, QueueInv, TypeOK
<1>2. TypeOK'
  BY <1>1 DEF QueueInv, TypeOK, dbVars, fileVars, loopVars, runVars
<1> QED BY <1>1, <1>2, Undisturbed DEF QueueInv, TypeOK, dbVars, fileVars, loopVars, runVars

LEMMA CancelStep == ASSUME QueueInv, NEW t \in Tasks, CancelKill(t) \/ CancelDelete(t) PROVE QueueInv'
<1>1. TypeOK'
  <2>1. CASE CancelKill(t)
    BY <2>1 DEF CancelKill, QueueInv, TypeOK, dbVars, fileVars, loopVars
  <2>2. CASE CancelDelete(t)
    BY <2>2 DEF CancelDelete, QueueInv, TypeOK, fileVars, loopVars, runVars
  <2> QED BY <2>1, <2>2
<1>2. /\ UNCHANGED <<path, fileVars, list, slots, rtask, rpc, ok, writes, deleting>>
      /\ \A r \in Runs : killed[r] => killed'[r]
  BY DEF CancelKill, CancelDelete, dbVars, loopVars, runVars
<1> QED BY <1>1, <1>2, Undisturbed DEF QueueInv, TypeOK, fileVars

LEMMA PollStep ==
  ASSUME QueueInv,
         (\E allowed \in Permits : Tick(allowed))
         \/ \E t \in Tasks : Skip(t) \/ DropMissing(t) \/ LimitReached(t)
  PROVE  QueueInv'
<1>1. /\ UNCHANGED <<path, deletes, apiVars, fileVars, runVars, deleting, down, restarts, cancelled>>
      /\ list' \subseteq list \cup queue /\ queue' \subseteq queue
      /\ cooldown' \in [Tasks -> 0..3]
  <2>1. CASE \E allowed \in Permits : Tick(allowed)
    <3>1. \A t \in Tasks : (IF cooldown[t] = 0 THEN 0 ELSE cooldown[t] - 1) \in 0..3
      BY DEF QueueInv, TypeOK
    <3> QED BY <2>1, <3>1 DEF Tick, dbVars
  <2>2. CASE \E t \in Tasks : Skip(t) \/ DropMissing(t) \/ LimitReached(t)
    BY <2>2 DEF Skip, DropMissing, LimitReached, dbVars, QueueInv, TypeOK
  <2> QED BY <2>1, <2>2
<1>2. TypeOK'
  BY <1>1 DEF QueueInv, TypeOK, apiVars, fileVars, runVars
<1> QED BY <1>1, <1>2, Undisturbed DEF QueueInv, TypeOK, fileVars, runVars

LEMMA DeleterSteps ==
  ASSUME QueueInv, NEW p \in Paths, DeleterStep(p) \/ SourceVanishes(p) PROVE QueueInv'
<1>1. /\ UNCHANGED <<dbVars, apiVars, staging, output, loopVars, runVars, down, restarts, cancelled>>
      /\ deleting' \subseteq deleting
      /\ source' \in [Paths -> {"present", "marked", "deleted", "gone"}]
      /\ \A q \in Paths : source'[q] = "present" => source[q] = "present"
      /\ \A q \in Paths : source'[q] = "deleted" => source[q] = "deleted" \/ (q \in deleting /\ source[q] = "present")
  <2>1. source \in [Paths -> {"present", "marked", "deleted", "gone"}]
    BY DEF QueueInv, TypeOK
  <2>2. CASE DeleteSource(p)
    BY <2>1, <2>2 DEF DeleteSource
  <2>3. CASE MarkSource(p)
    BY <2>1, <2>3 DEF MarkSource
  <2>4. CASE DeleteAborts(p)
    BY <2>1, <2>4 DEF DeleteAborts, fileVars
  <2>5. CASE SourceVanishes(p)
    BY <2>1, <2>5 DEF SourceVanishes
  <2> QED BY <2>2, <2>3, <2>4, <2>5 DEF DeleterStep
<1>2. TypeOK'
  BY <1>1 DEF QueueInv, TypeOK, dbVars, apiVars, loopVars, runVars
<1> QED BY <1>1, <1>2, Undisturbed DEF QueueInv, TypeOK, dbVars, loopVars, runVars

LEMMA ShutdownStep == ASSUME QueueInv, Shutdown PROVE QueueInv'
<1>1. TypeOK'
  BY DEF Shutdown, QueueInv, TypeOK, dbVars, apiVars, fileVars, loopVars
<1>2. \A r \in Runs : rpc[r] # "idle" => killed'[r]
  BY DEF Shutdown
<1> QED BY <1>1, <1>2, Undisturbed DEF QueueInv, TypeOK, Shutdown, dbVars, fileVars, loopVars

--------------------------------------------------------------------------------
(* The steps of a run.                                                     *)

\* While a run works it holds the slot, and no other run has a file open.
LEMMA Alone ==
  ASSUME QueueInv, NEW r \in Runs, Working(r)
  PROVE  /\ slots = 0
         /\ Input(r) \in Paths
         /\ \A x \in Runs \ {r} : ~Working(x) /\ writes[x] = "none"
         /\ HasTask(r) /\ KnowsFiles(r)
<1>1. HasTask(r) /\ KnowsFiles(r) /\ Input(r) \in Paths
  BY InputKnown DEF QueueInv, Working
<1>2. slots = 0
  BY ConvertAssumption DEF QueueInv, TypeOK, OneRun
<1>3. \A x \in Runs \ {r} : ~Working(x)
  BY DEF QueueInv, OneRun
<1>4. \A x \in Runs \ {r} : writes[x] = "none"
  BY <1>3 DEF QueueInv, HasTask, Working
<1> QED BY <1>1, <1>2, <1>3, <1>4

\* A step of the run that works.
LEMMA Works ==
  ASSUME QueueInv, NEW r \in Runs, Working(r), TypeOK',
         UNCHANGED <<path, rtask, killed, list>>,
         NEW l, rpc' = [rpc EXCEPT ![r] = l],
         slots' = slots \/ l = "cleanup",
         \A x \in Runs \ {r} : ok'[x] = ok[x] /\ writes'[x] = writes[x],
         HasTask(r)', KnowsFiles(r)', \A p \in Paths : output'[p] # "mixed", DeletionsCovered'
  PROVE  QueueInv'
<1>1. rpc \in [Runs -> {"idle", "check", "open", "ffmpeg", "validate", "remove", "rename",
                        "clean", "fail", "finish", "schedule", "cleanup"}]
  BY DEF QueueInv, TypeOK
<1>2. slots = 0 /\ \A x \in Runs \ {r} : ~Working(x) /\ rpc'[x] = rpc[x]
  BY <1>1, Alone
<1>3. rpc'[r] = l
  BY <1>1
<1>4. OneRun'
  BY <1>2, <1>3, ConvertAssumption DEF OneRun, Working
<1>5. ASSUME NEW x \in Runs PROVE HasTask(x)' /\ KnowsFiles(x)'
  <2>1. CASE x = r
    BY <2>1
  <2>2. CASE x # r
    <3>1. HasTask(x)'
      BY <1>2, <2>2 DEF HasTask, QueueInv
    <3>2. KnowsFiles(x)'
      BY <1>2, <2>2 DEF KnowsFiles, Working
    <3> QED BY <3>1, <3>2
  <2> QED BY <2>1, <2>2
<1> QED BY <1>4, <1>5 DEF QueueInv

\* A run that has no file open leaves the descriptors as they are.
LEMMA NothingMoves ==
  ASSUME QueueInv, NEW r \in Runs, Working(r), rpc[r] # "ffmpeg",
         NEW p, NEW from, from # "none", NEW to
  PROVE  Moved(p, from, to) = writes
<1>1. \A x \in Runs : writes[x] = "none"
  BY Alone DEF HasTask
<1>2. writes \in [Runs -> {"none", "staging", "output", "unlinked"}]
  BY DEF QueueInv, TypeOK
<1> QED BY <1>1, <1>2 DEF Moved

LEMMA CheckStep == ASSUME QueueInv, NEW r \in Runs, Check(r) PROVE QueueInv'
<1>1. /\ UNCHANGED <<dbVars, apiVars, fileVars, loopVars, slots, processing, rtask, ok, killed, writes, deleting,
                     down, restarts, cancelled>>
      /\ rpc[r] = "check"
  BY DEF Check, At
<1>2. PICK l : /\ rpc' = [rpc EXCEPT ![r] = l]
               /\ \/ l = "finish" /\ (source[Input(r)] # "present" \/ Accepts(r, output[Input(r)]))
                  \/ l = "open" /\ Rejects(r, output[Input(r)])
  BY DEF Check, GoTo
<1>3. Working(r)
  BY <1>1 DEF Working
<1>4. TypeOK'
  BY <1>1, <1>2 DEF QueueInv, TypeOK, dbVars, apiVars, fileVars, loopVars
<1>5. rpc'[r] = l
  BY <1>2 DEF QueueInv, TypeOK
<1>6. HasTask(r)'
  BY <1>1, <1>2, <1>3, <1>5, Alone DEF HasTask, dbVars
<1>7. output[Input(r)] # "mixed" /\ Input(r)' = Input(r)
  BY <1>1, <1>3, Alone DEF QueueInv, Input, dbVars
<1>8. KnowsFiles(r)'
  BY <1>1, <1>2, <1>5, <1>7 DEF KnowsFiles, fileVars, Accepts, Rejects
<1>9. DeletionsCovered' /\ \A p \in Paths : output'[p] # "mixed"
  BY <1>1 DEF QueueInv, DeletionsCovered, fileVars
<1> QED BY <1>1, <1>2, <1>3, <1>4, <1>6, <1>8, <1>9, Works DEF dbVars, loopVars

LEMMA OpenStep == ASSUME QueueInv, NEW r \in Runs, OpenStaging(r) PROVE QueueInv'
<1>1. /\ UNCHANGED <<dbVars, apiVars, source, output, loopVars, slots, processing, rtask, ok, killed, deleting,
                     down, restarts, cancelled>>
      /\ rpc[r] = "open"
  BY DEF OpenStaging, At
<1>2. Working(r)
  BY <1>1 DEF Working
<1>3. Input(r)' = Input(r) /\ Input(r) \in Paths
  BY <1>1, <1>2, Alone DEF Input, dbVars
<1>4. DeletionsCovered' /\ \A p \in Paths : output'[p] # "mixed"
  BY <1>1 DEF QueueInv, DeletionsCovered
<1>5. CASE GoTo(r, "clean") /\ UNCHANGED <<staging, writes>>
  <2>1. rpc' = [rpc EXCEPT ![r] = "clean"] /\ rpc'[r] = "clean"
    BY <1>5 DEF GoTo, QueueInv, TypeOK
  <2>2. TypeOK'
    BY <1>1, <1>5, <2>1 DEF QueueInv, TypeOK, dbVars, apiVars, loopVars
  <2>3. HasTask(r)' /\ KnowsFiles(r)'
    BY <1>1, <1>2, <1>5, <2>1, Alone DEF HasTask, KnowsFiles, dbVars
  <2> QED BY <1>1, <1>2, <1>4, <1>5, <2>1, <2>2, <2>3, Works DEF dbVars, loopVars
<1>6. CASE /\ ~killed[r] /\ source[Input(r)] = "present" /\ GoTo(r, "ffmpeg")
           /\ staging' = [staging EXCEPT ![Input(r)] = "partial"]
           /\ writes' = [writes EXCEPT ![r] = "staging"]
  <2>1. rpc' = [rpc EXCEPT ![r] = "ffmpeg"] /\ rpc'[r] = "ffmpeg"
    BY <1>6 DEF GoTo, QueueInv, TypeOK
  <2>2. TypeOK'
    BY <1>1, <1>6, <2>1 DEF QueueInv, TypeOK, dbVars, apiVars, loopVars, FileStates
  <2>3. writes'[r] = "staging" /\ staging'[Input(r)] = "partial" /\ \A x \in Runs \ {r} : writes'[x] = writes[x]
    BY <1>3, <1>6 DEF QueueInv, TypeOK
  <2>4. HasTask(r)'
    BY <1>1, <1>2, <2>1, <2>3, Alone DEF HasTask, dbVars
  <2>5. KnowsFiles(r)'
    BY <1>1, <1>2, <1>3, <1>6, <2>1, <2>3, Alone DEF KnowsFiles
  <2> QED BY <1>1, <1>2, <1>4, <2>1, <2>2, <2>3, <2>4, <2>5, Works DEF dbVars, loopVars
<1> QED BY <1>5, <1>6 DEF OpenStaging

\* Nobody else writes to the file: what ffmpeg leaves is whole.
LEMMA FfmpegDoneStep == ASSUME QueueInv, NEW r \in Runs, FfmpegDone(r) PROVE QueueInv'
<1>1. /\ UNCHANGED <<dbVars, apiVars, source, loopVars, slots, processing, rtask, ok, killed, deleting,
                     down, restarts, cancelled>>
      /\ rpc[r] = "ffmpeg" /\ rpc' = [rpc EXCEPT ![r] = "validate"]
      /\ writes' = [writes EXCEPT ![r] = "none"]
  BY DEF FfmpegDone, At, GoTo
<1>2. Working(r) /\ writes[r] = "staging" /\ staging[Input(r)] = "partial"
  BY <1>1, Alone DEF Working, HasTask, KnowsFiles
<1>3. Input(r)' = Input(r) /\ Input(r) \in Paths
  BY <1>1, <1>2, Alone DEF Input, dbVars
<1>4. Others(r, Input(r), writes[r]) = {}
  BY <1>2, Alone DEF Others
<1>5. output' = output /\ staging' = [staging EXCEPT ![Input(r)] = "whole"]
  <2>1. staging' = [staging EXCEPT ![Input(r)] =
                      IF @ = "partial" /\ Others(r, Input(r), writes[r]) = {} THEN "whole" ELSE "mixed"]
    BY <1>2 DEF FfmpegDone
  <2> QED BY <1>2, <1>4, <2>1 DEF FfmpegDone
<1>6. rpc'[r] = "validate" /\ writes'[r] = "none" /\ staging'[Input(r)] = "whole"
      /\ \A x \in Runs \ {r} : writes'[x] = writes[x]
  BY <1>1, <1>3, <1>5 DEF QueueInv, TypeOK
<1>7. TypeOK'
  BY <1>1, <1>5 DEF QueueInv, TypeOK, dbVars, apiVars, loopVars, FileStates
<1>8. HasTask(r)'
  BY <1>1, <1>2, <1>6, Alone DEF HasTask, dbVars
<1>9. KnowsFiles(r)'
  BY <1>1, <1>2, <1>3, <1>5, <1>6, Alone DEF KnowsFiles
<1>10. DeletionsCovered' /\ \A p \in Paths : output'[p] # "mixed"
  BY <1>1, <1>5 DEF QueueInv, DeletionsCovered
<1> QED BY <1>1, <1>2, <1>6, <1>7, <1>8, <1>9, <1>10, Works DEF dbVars, loopVars

LEMMA FfmpegFailsStep == ASSUME QueueInv, NEW r \in Runs, FfmpegFails(r) PROVE QueueInv'
<1>1. /\ UNCHANGED <<dbVars, apiVars, fileVars, loopVars, slots, processing, rtask, ok, killed, deleting,
                     down, restarts, cancelled>>
      /\ rpc[r] = "ffmpeg" /\ rpc' = [rpc EXCEPT ![r] = "clean"]
      /\ writes' = [writes EXCEPT ![r] = "none"]
  BY DEF FfmpegFails, At, GoTo
<1>2. Working(r) /\ Input(r)' = Input(r)
  BY <1>1 DEF Working, Input, dbVars
<1>3. rpc'[r] = "clean" /\ writes'[r] = "none" /\ \A x \in Runs \ {r} : writes'[x] = writes[x]
  BY <1>1 DEF QueueInv, TypeOK
<1>4. TypeOK'
  BY <1>1 DEF QueueInv, TypeOK, dbVars, apiVars, fileVars, loopVars
<1>5. HasTask(r)' /\ KnowsFiles(r)'
  BY <1>1, <1>2, <1>3, Alone DEF HasTask, KnowsFiles, dbVars
<1>6. DeletionsCovered' /\ \A p \in Paths : output'[p] # "mixed"
  BY <1>1 DEF QueueInv, DeletionsCovered, fileVars
<1> QED BY <1>1, <1>2, <1>3, <1>4, <1>5, <1>6, Works DEF dbVars, loopVars

LEMMA ValidateStep == ASSUME QueueInv, NEW r \in Runs, Validate(r) PROVE QueueInv'
<1>1. /\ UNCHANGED <<dbVars, apiVars, fileVars, loopVars, slots, processing, rtask, ok, killed, writes, deleting,
                     down, restarts, cancelled>>
      /\ rpc[r] = "validate"
  BY DEF Validate, At
<1>2. PICK l \in {"remove", "clean"} : rpc' = [rpc EXCEPT ![r] = l]
  BY DEF Validate, GoTo
<1>3. Working(r) /\ Input(r)' = Input(r)
  BY <1>1 DEF Working, Input, dbVars
<1>4. rpc'[r] = l
  BY <1>2 DEF QueueInv, TypeOK
<1>5. TypeOK'
  BY <1>1, <1>2 DEF QueueInv, TypeOK, dbVars, apiVars, fileVars, loopVars
<1>6. HasTask(r)'
  BY <1>1, <1>3, <1>4, Alone DEF HasTask, dbVars
<1>7. KnowsFiles(r)'
  BY <1>1, <1>3, <1>4, Alone DEF HasTask, KnowsFiles, fileVars
<1>8. DeletionsCovered' /\ \A p \in Paths : output'[p] # "mixed"
  BY <1>1 DEF QueueInv, DeletionsCovered, fileVars
<1> QED BY <1>1, <1>2, <1>3, <1>5, <1>6, <1>7, <1>8, Works DEF dbVars, loopVars

\* The output that is removed is not whole: no deletion relies on it.
LEMMA RemoveStep == ASSUME QueueInv, NEW r \in Runs, RemoveOutput(r) PROVE QueueInv'
<1>1. /\ UNCHANGED <<dbVars, apiVars, source, staging, loopVars, slots, processing, rtask, ok, killed, deleting,
                     down, restarts, cancelled>>
      /\ rpc[r] = "remove" /\ rpc' = [rpc EXCEPT ![r] = "rename"]
      /\ output' = [output EXCEPT ![Input(r)] = "none"]
      /\ writes' = Moved(Input(r), "output", "unlinked")
  BY DEF RemoveOutput, At, GoTo
<1>2. Working(r) /\ Input(r)' = Input(r) /\ Input(r) \in Paths
  BY <1>1, Alone DEF Working, Input, dbVars
<1>3. writes' = writes
  BY <1>1, <1>2, NothingMoves
<1>4. rpc'[r] = "rename" /\ output'[Input(r)] = "none"
  BY <1>1, <1>2 DEF QueueInv, TypeOK
<1>5. TypeOK'
  BY <1>1, <1>3 DEF QueueInv, TypeOK, dbVars, apiVars, loopVars, FileStates
<1>6. HasTask(r)'
  BY <1>1, <1>2, <1>3, <1>4, Alone DEF HasTask, dbVars
<1>7. KnowsFiles(r)'
  BY <1>1, <1>2, <1>4, Alone DEF KnowsFiles
<1>8. output[Input(r)] # "whole"
  BY <1>1, <1>2, Alone DEF KnowsFiles
<1>9. \A p \in Paths : output'[p] = IF p = Input(r) THEN "none" ELSE output[p]
  BY <1>1 DEF QueueInv, TypeOK
<1>10. DeletionsCovered' /\ \A p \in Paths : output'[p] # "mixed"
  BY <1>1, <1>8, <1>9 DEF QueueInv, DeletionsCovered
<1> QED BY <1>1, <1>2, <1>3, <1>5, <1>6, <1>7, <1>10, Works DEF dbVars, loopVars

LEMMA RenameStep == ASSUME QueueInv, NEW r \in Runs, RenameStaging(r) PROVE QueueInv'
<1>1. /\ UNCHANGED <<dbVars, apiVars, source, loopVars, slots, processing, rtask, killed, deleting, down,
                     restarts, cancelled>>
      /\ rpc[r] = "rename" /\ rpc' = [rpc EXCEPT ![r] = "clean"]
  BY DEF RenameStaging, At, GoTo
<1>2. Working(r) /\ Input(r)' = Input(r) /\ Input(r) \in Paths
  BY <1>1, Alone DEF Working, Input, dbVars
<1>3. staging[Input(r)] = "whole"
  BY <1>1, <1>2, Alone DEF KnowsFiles
<1>4. /\ output' = [output EXCEPT ![Input(r)] = "whole"]
      /\ staging' = [staging EXCEPT ![Input(r)] = "none"]
      /\ ok' = [ok EXCEPT ![r] = TRUE]
      /\ writes' = Moved(Input(r), "staging", "output")
  BY <1>3 DEF RenameStaging
<1>5. writes' = writes
  BY <1>1, <1>2, <1>4, NothingMoves
<1>6. /\ rpc'[r] = "clean" /\ output'[Input(r)] = "whole"
      /\ \A p \in Paths : output'[p] = IF p = Input(r) THEN "whole" ELSE output[p]
      /\ \A x \in Runs \ {r} : ok'[x] = ok[x]
  BY <1>1, <1>2, <1>4 DEF QueueInv, TypeOK
<1>7. TypeOK'
  BY <1>1, <1>4, <1>5 DEF QueueInv, TypeOK, dbVars, apiVars, loopVars, FileStates
<1>8. HasTask(r)'
  BY <1>1, <1>2, <1>5, <1>6, Alone DEF HasTask, dbVars
<1>9. KnowsFiles(r)'
  BY <1>1, <1>2, <1>6 DEF KnowsFiles
<1>10. DeletionsCovered' /\ \A p \in Paths : output'[p] # "mixed"
  BY <1>1, <1>6 DEF QueueInv, DeletionsCovered
<1> QED BY <1>1, <1>2, <1>5, <1>6, <1>7, <1>8, <1>9, <1>10, Works DEF dbVars, loopVars

LEMMA CleanStep == ASSUME QueueInv, NEW r \in Runs, CleanStaging(r) PROVE QueueInv'
<1>1. PICK l : /\ rpc' = [rpc EXCEPT ![r] = l]
               /\ l = IF ok[r] THEN "finish" ELSE "fail"
  BY DEF CleanStaging, GoTo
<1>2. /\ UNCHANGED <<dbVars, apiVars, source, output, loopVars, slots, processing, rtask, ok, killed, deleting,
                     down, restarts, cancelled>>
      /\ rpc[r] = "clean"
      /\ staging' = [staging EXCEPT ![Input(r)] = "none"]
      /\ writes' = Moved(Input(r), "staging", "unlinked")
  BY DEF CleanStaging, At
<1>3. Working(r) /\ Input(r)' = Input(r)
  BY <1>2 DEF Working, Input, dbVars
<1>4. writes' = writes
  BY <1>2, <1>3, NothingMoves
<1>5. rpc'[r] = l
  BY <1>1 DEF QueueInv, TypeOK
<1>6. l \in {"finish", "fail"} /\ (l = "finish" <=> ok[r])
  BY <1>1
<1>7. TypeOK'
  BY <1>1, <1>2, <1>4, <1>6 DEF QueueInv, TypeOK, dbVars, apiVars, loopVars, FileStates
<1>8. HasTask(r)'
  BY <1>2, <1>3, <1>4, <1>5, <1>6, Alone DEF HasTask, dbVars
<1>9. KnowsFiles(r)'
  BY <1>2, <1>3, <1>5, <1>6, Alone DEF KnowsFiles
<1>10. DeletionsCovered' /\ \A p \in Paths : output'[p] # "mixed"
  BY <1>2 DEF QueueInv, DeletionsCovered
<1> QED BY <1>1, <1>2, <1>3, <1>4, <1>7, <1>8, <1>9, <1>10, Works DEF dbVars, loopVars

\* The run gives its slot back.
LEMMA FailStep == ASSUME Concurrency = 1, QueueInv, NEW r \in Runs, Fail(r) PROVE QueueInv'
<1>1. /\ UNCHANGED <<dbVars, apiVars, fileVars, list, processing, rtask, ok, killed, writes, deleting, down,
                     restarts, cancelled>>
      /\ rpc[r] = "fail" /\ rpc' = [rpc EXCEPT ![r] = "cleanup"]
      /\ cooldown' = [cooldown EXCEPT ![rtask[r]] = 3] /\ slots' = slots + 1
  BY DEF Fail, At, GoTo
<1>2. Working(r) /\ rpc'[r] = "cleanup"
  BY <1>1 DEF Working, QueueInv, TypeOK
<1>3. slots' \in 0..Concurrency
  BY <1>1, <1>2, Alone
<1>4. TypeOK'
  <2>1. cooldown' \in [Tasks -> 0..3]
    <3>1. cooldown \in [Tasks -> 0..3] /\ 3 \in 0..3
      BY DEF QueueInv, TypeOK
    <3> QED BY <1>1, <3>1
  <2>2. rpc' \in [Runs -> {"idle", "check", "open", "ffmpeg", "validate", "remove", "rename",
                           "clean", "fail", "finish", "schedule", "cleanup"}]
    BY <1>1 DEF QueueInv, TypeOK
  <2> QED BY <1>1, <1>3, <2>1, <2>2 DEF QueueInv, TypeOK, dbVars, apiVars, fileVars
<1>5. HasTask(r)' /\ KnowsFiles(r)'
  BY <1>1, <1>2, Alone DEF HasTask, KnowsFiles, dbVars
<1>6. DeletionsCovered' /\ \A p \in Paths : output'[p] # "mixed"
  BY <1>1 DEF QueueInv, DeletionsCovered, fileVars
<1> QED BY <1>1, <1>2, <1>4, <1>5, <1>6, Works DEF dbVars

LEMMA FinishStep == ASSUME QueueInv, NEW r \in Runs, Finish(r) PROVE QueueInv'
<1>1. /\ UNCHANGED <<path, deletes, apiVars, fileVars, loopVars, slots, processing, rtask, ok, killed, writes,
                     deleting, down, restarts, cancelled>>
      /\ rpc[r] = "finish" /\ rpc' = [rpc EXCEPT ![r] = "schedule"] /\ queue' = queue \ {rtask[r]}
  BY DEF Finish, At, GoTo
<1>2. Working(r) /\ rpc'[r] = "schedule" /\ Input(r)' = Input(r)
  BY <1>1 DEF Working, QueueInv, TypeOK, Input
<1>3. TypeOK'
  BY <1>1 DEF QueueInv, TypeOK, apiVars, fileVars, loopVars
<1>4. HasTask(r)' /\ KnowsFiles(r)'
  BY <1>1, <1>2, Alone DEF HasTask, KnowsFiles, fileVars
<1>5. DeletionsCovered' /\ \A p \in Paths : output'[p] # "mixed"
  BY <1>1 DEF QueueInv, DeletionsCovered, fileVars
<1> QED BY <1>1, <1>2, <1>3, <1>4, <1>5, Works DEF loopVars

\* What is scheduled for deletion has a whole output.
LEMMA ScheduleStep == ASSUME Concurrency = 1, QueueInv, NEW r \in Runs, Schedule(r) PROVE QueueInv'
<1>1. /\ UNCHANGED <<dbVars, apiVars, fileVars, loopVars, processing, rtask, ok, killed, writes, down, restarts,
                     cancelled>>
      /\ rpc[r] = "schedule" /\ rpc' = [rpc EXCEPT ![r] = "cleanup"]
      /\ deleting' \subseteq deleting \cup {Input(r)} /\ slots' = slots + 1
  BY DEF Schedule, At, GoTo
<1>2. Working(r) /\ rpc'[r] = "cleanup"
  BY <1>1 DEF Working, QueueInv, TypeOK
<1>3. Input(r) \in Paths /\ slots' \in 0..Concurrency
  BY <1>1, <1>2, Alone
<1>4. TypeOK'
  BY <1>1, <1>3 DEF QueueInv, TypeOK, dbVars, apiVars, fileVars, loopVars
<1>5. HasTask(r)' /\ KnowsFiles(r)'
  BY <1>1, <1>2, Alone DEF HasTask, KnowsFiles, dbVars
<1>6. source[Input(r)] # "present" \/ output[Input(r)] = "whole"
  BY <1>1, <1>2, Alone DEF KnowsFiles
<1>7. DeletionsCovered' /\ \A p \in Paths : output'[p] # "mixed"
  BY <1>1, <1>6 DEF QueueInv, DeletionsCovered, fileVars
<1> QED BY <1>1, <1>2, <1>4, <1>5, <1>7, Works DEF dbVars, loopVars

\* The end of a run, which may be after the next one has begun to work.
LEMMA CleanUpStep == ASSUME QueueInv, NEW r \in Runs, CleanUp(r) PROVE QueueInv'
<1>1. /\ UNCHANGED <<dbVars, apiVars, fileVars, loopVars, slots, writes, deleting, down, restarts, cancelled>>
      /\ rpc[r] = "cleanup" /\ rpc' = [rpc EXCEPT ![r] = "idle"]
      /\ processing' = [processing EXCEPT ![rtask[r]] = 0]
      /\ rtask' = [rtask EXCEPT ![r] = 0] /\ ok' = [ok EXCEPT ![r] = FALSE]
      /\ killed' = [x \in Runs |-> x # r /\ (killed[x] \/ x = processing[rtask[r]])]
  BY DEF CleanUp, At, GoTo
<1>2. killed' \in [Runs -> BOOLEAN] /\ processing' \in [Tasks -> Runs \cup {0}]
      /\ rtask' \in [Runs -> Tasks \cup {0}] /\ ok' \in [Runs -> BOOLEAN]
  BY <1>1 DEF QueueInv, TypeOK
<1>3. TypeOK'
  BY <1>1, <1>2 DEF QueueInv, TypeOK, dbVars, apiVars, fileVars, loopVars
<1>4. /\ rpc'[r] = "idle" /\ ~ok'[r]
      /\ \A x \in Runs \ {r} : rpc'[x] = rpc[x] /\ rtask'[x] = rtask[x] /\ ok'[x] = ok[x] /\ (killed[x] => killed'[x])
  BY <1>1 DEF QueueInv, TypeOK
<1>5. OneRun'
  BY <1>1, <1>4 DEF QueueInv, OneRun, Working
<1>6. ASSUME NEW x \in Runs PROVE HasTask(x)' /\ KnowsFiles(x)'
  <2>1. CASE x = r
    BY <1>1, <1>4, <2>1 DEF QueueInv, HasTask, KnowsFiles
  <2>2. CASE x # r
    <3>1. HasTask(x) /\ KnowsFiles(x) /\ Input(x)' = Input(x)
      BY <1>1, <1>4, <2>2 DEF QueueInv, Input, dbVars
    <3>2. HasTask(x)'
      BY <1>1, <1>4, <2>2, <3>1 DEF HasTask, dbVars
    <3>3. KnowsFiles(x)'
      BY <1>1, <1>4, <2>2, <3>1 DEF KnowsFiles, fileVars
    <3> QED BY <3>2, <3>3
  <2> QED BY <2>1, <2>2
<1> QED BY <1>1, <1>3, <1>5, <1>6 DEF QueueInv, DeletionsCovered, dbVars, fileVars, loopVars

LEMMA StartStep ==
  ASSUME Concurrency = 1, QueueInv, NEW t \in Tasks, NEW r \in Runs, StartRun(t, r) PROVE QueueInv'
<1>1. /\ UNCHANGED <<dbVars, apiVars, fileVars, cooldown, ok, writes, deleting, down, restarts, cancelled>>
      /\ list' = list \ {t} /\ slots > 0 /\ slots' = slots - 1 /\ t \in list
      /\ rpc[r] = "idle" /\ rpc' = [rpc EXCEPT ![r] = "check"]
      /\ rtask' = [rtask EXCEPT ![r] = t]
      /\ processing' = [processing EXCEPT ![t] = r] /\ killed' = [killed EXCEPT ![r] = down]
  BY DEF StartRun, Due, Visited, Unused
<1>2. slots \in {0, 1} /\ slots' = 0 /\ \A x \in Runs : ~Working(x)
  BY <1>1 DEF QueueInv, TypeOK, OneRun
<1>3. TypeOK'
  <2>1. killed' \in [Runs -> BOOLEAN] /\ processing' \in [Tasks -> Runs \cup {0}]
        /\ rtask' \in [Runs -> Tasks \cup {0}] /\ slots' \in 0..Concurrency
    BY <1>1, <1>2 DEF QueueInv, TypeOK
  <2> QED BY <1>1, <2>1 DEF QueueInv, TypeOK, dbVars, apiVars, fileVars
<1>4. /\ rpc'[r] = "check" /\ rtask'[r] = t
      /\ \A x \in Runs \ {r} : rpc'[x] = rpc[x] /\ rtask'[x] = rtask[x]
  BY <1>1 DEF QueueInv, TypeOK
<1>5. OneRun'
  BY <1>2, <1>4 DEF OneRun, Working
<1>6. path[t] \in Paths /\ path' = path
  BY <1>1 DEF QueueInv, TypeOK, dbVars
<1>7. ASSUME NEW x \in Runs PROVE HasTask(x)' /\ KnowsFiles(x)'
  <2>1. CASE x = r
    <3>1. HasTask(r) /\ ok' = ok /\ writes' = writes
      BY <1>1 DEF QueueInv
    <3> QED BY <1>1, <1>4, <1>6, <2>1, <3>1 DEF HasTask, KnowsFiles
  <2>2. CASE x # r
    <3>1. HasTask(x) /\ ok' = ok /\ writes' = writes /\ rpc'[x] = rpc[x] /\ rtask'[x] = rtask[x]
      BY <1>1, <1>4, <2>2 DEF QueueInv
    <3>2. HasTask(x)'
      BY <1>6, <3>1 DEF HasTask
    <3>3. KnowsFiles(x)'
      BY <1>2, <3>1 DEF KnowsFiles, Working
    <3> QED BY <3>2, <3>3
  <2> QED BY <2>1, <2>2
<1>8. \A u \in list' : path'[u] # NoPath
  BY <1>1, <1>6 DEF QueueInv
<1> QED BY <1>1, <1>3, <1>5, <1>7, <1>8 DEF QueueInv, DeletionsCovered, fileVars

LEMMA RestartStep == ASSUME Concurrency = 1, QueueInv, Restart PROVE QueueInv'
<1>1. /\ UNCHANGED <<dbVars, finalized, fileVars, cancelled>>
      /\ list' = {} /\ cancelling' = {} /\ deleting' = {} /\ down' = FALSE
      /\ slots' = Concurrency /\ restarts' \in 0..MaxRestarts
  BY ConvertAssumption DEF Restart, QueueInv, TypeOK
<1>2. /\ request' \in [Requests -> Paths \cup {NoPath}]
      /\ cooldown' \in [Tasks -> 0..3] /\ processing' \in [Tasks -> Runs \cup {0}]
      /\ rtask' \in [Runs -> Tasks \cup {0}]
  BY DEF Restart
<1>3. /\ ok' \in [Runs -> BOOLEAN] /\ killed' \in [Runs -> BOOLEAN]
      /\ writes' \in [Runs -> {"none", "staging", "output", "unlinked"}]
      /\ rpc' \in [Runs -> {"idle", "check", "open", "ffmpeg", "validate", "remove", "rename",
                           "clean", "fail", "finish", "schedule", "cleanup"}]
  BY DEF Restart
<1>4. TypeOK'
  <2>1. slots' \in 0..Concurrency
    BY <1>1
  <2> QED BY <1>1, <1>2, <1>3, <2>1 DEF QueueInv, TypeOK, dbVars, fileVars
<1>5. \A r \in Runs : rpc'[r] = "idle" /\ writes'[r] = "none" /\ ~ok'[r]
  BY DEF Restart
<1>6. OneRun' /\ \A r \in Runs : HasTask(r)' /\ KnowsFiles(r)'
  BY <1>5 DEF OneRun, Working, HasTask, KnowsFiles
<1> QED BY <1>1, <1>4, <1>6 DEF QueueInv, DeletionsCovered, fileVars

--------------------------------------------------------------------------------
LEMMA QueueStep == ASSUME Concurrency = 1, QueueInv, [Next]_vars PROVE QueueInv'
<1>1. CASE UNCHANGED vars
  <2>1. TypeOK'
    BY <1>1 DEF QueueInv, TypeOK, vars, dbVars, apiVars, fileVars, loopVars, runVars
  <2> QED BY <1>1, <2>1, Undisturbed DEF QueueInv, vars, dbVars, fileVars, loopVars, runVars
<1>2. CASE Visit
  BY <1>2, PollStep, StartStep DEF Visit
<1>3. CASE \E r \in Runs : Run(r)
  BY <1>3, CheckStep, OpenStep, FfmpegDoneStep, FfmpegFailsStep, ValidateStep, RemoveStep, RenameStep, CleanStep,
     FailStep, FinishStep, ScheduleStep, CleanUpStep DEF Run
<1>4. CASE Enqueue \/ Cancel \/ (\E q \in Requests, p \in Paths : RequestCheck(q, p))
  BY <1>4, EnqueueStep, RequestStep, CancelStep DEF Cancel
<1>5. CASE (\E allowed \in Permits : Tick(allowed)) \/ (\E p \in Paths : DeleterStep(p) \/ SourceVanishes(p))
           \/ Shutdown \/ Restart
  BY <1>5, PollStep, DeleterSteps, ShutdownStep, RestartStep
<1> QED BY <1>1, <1>2, <1>3, <1>4, <1>5 DEF Next

\* A source is deleted only when its output is whole, and the output stays so
\* (processTask, sourceDeleter), with one slot.
THEOREM SourcesAreKept == ASSUME Concurrency = 1 PROVE Spec => []SourceKept
<1>1. Init => QueueInv
  BY QueueStarts
<1>2. QueueInv /\ [Next]_vars => QueueInv'
  BY QueueStep
<1>3. QueueInv => SourceKept
  BY DEF QueueInv, DeletionsCovered, SourceKept
<1> QED BY <1>1, <1>2, <1>3, PTL DEF Spec

\* A task leaves the bucket cancelled, converted or without a source
\* (asyncProcessTask, convertFlow), with one slot.
THEOREM TasksAreKept == ASSUME Concurrency = 1 PROVE Spec => NoTaskLost
<1> DEFINE Kept == \A t \in queue \ queue' :
                      t \in cancelling \/ output[path[t]] = "whole" \/ source[path[t]] # "present"
<1>1. Init => QueueInv
  BY QueueStarts
<1>2. QueueInv /\ [Next]_vars => QueueInv'
  BY QueueStep
<1>3. QueueInv /\ [Next]_vars => [Kept]_vars
  <2>1. SUFFICES ASSUME QueueInv, Next, NEW t \in queue \ queue'
                 PROVE  t \in cancelling \/ output[path[t]] = "whole" \/ source[path[t]] # "present"
    OBVIOUS
  <2>2. \/ \E u \in Tasks : CancelDelete(u) \/ DropMissing(u)
        \/ \E r \in Runs : Finish(r)
    <3>1. queue \subseteq queue' => FALSE
      BY <2>1
    <3>2. Enqueue \/ (\E q \in Requests, p \in Paths : RequestCheck(q, p)) => queue \subseteq queue'
      BY DEF Enqueue, Put, RecorderEnqueue, RequestEnqueue, RequestCheck, dbVars
    <3>3. (\E u \in Tasks : CancelKill(u) \/ Skip(u) \/ LimitReached(u) \/ \E r \in Runs : StartRun(u, r))
            => queue' = queue
      BY DEF CancelKill, Skip, LimitReached, StartRun, dbVars
    <3>4. ASSUME NEW r \in Runs, Run(r), ~Finish(r) PROVE queue' = queue
      BY <3>4 DEF Run, Check, OpenStaging, FfmpegDone, FfmpegFails, Validate, RemoveOutput, RenameStaging,
                  CleanStaging, Fail, Schedule, CleanUp, dbVars
    <3>5. (\E allowed \in Permits : Tick(allowed)) \/ (\E p \in Paths : DeleterStep(p) \/ SourceVanishes(p))
            \/ Shutdown \/ Restart => queue' = queue
      BY DEF Tick, DeleterStep, DeleteSource, MarkSource, DeleteAborts, SourceVanishes, Shutdown, Restart, dbVars
    <3> QED BY <2>1, <3>1, <3>2, <3>3, <3>4, <3>5 DEF Next, Cancel, Visit
  <2>3. ASSUME NEW u \in Tasks, CancelDelete(u) PROVE t \in cancelling
    BY <2>1, <2>3 DEF CancelDelete
  <2>4. ASSUME NEW u \in Tasks, DropMissing(u) PROVE source[path[t]] # "present"
    BY <2>1, <2>4 DEF DropMissing, Due
  <2>5. ASSUME NEW r \in Runs, Finish(r) PROVE output[path[t]] = "whole" \/ source[path[t]] # "present"
    BY <2>1, <2>5 DEF Finish, At, QueueInv, KnowsFiles, Input
  <2> QED BY <2>2, <2>3, <2>4, <2>5
<1> QED BY <1>1, <1>2, <1>3, PTL DEF Spec, NoTaskLost
===============================================================================
