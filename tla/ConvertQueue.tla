------------------------------ MODULE ConvertQueue ------------------------------
(***************************************************************************)
(* The local conversion queue of internal/services/convert: a persistent   *)
(* bucket of tasks, a polling loop that starts runs up to a limit, the run *)
(* of one task (ffmpeg into a staging file, check, replacement of the      *)
(* output), and the deletion of the source afterwards.                     *)
(*                                                                         *)
(* Tasks enter from the recorder, which does not look whether its file is  *)
(* queued, and from the API, which looks first.  The process may crash at  *)
(* any point: the bucket and the files stay, the rest starts afresh, and   *)
(* the ffmpeg children die with it.                                        *)
(*                                                                         *)
(* The bucket lists tasks in the order of their random ids: a task here is *)
(* its place in that order, so an id can be taken in any order.  Time is   *)
(* counted in ticks of the poller.                                         *)
(***************************************************************************)
EXTENDS Naturals, FiniteSets

CONSTANTS
  Paths,          \* recordings that may be converted
  Requests,       \* API requests that may run at the same time
  NoPath,         \* the path of an unused id
  DeleteFlags,    \* the values of DeleteSource that tasks come with
  Permits,        \* what the poller may find: may it convert during the recordings under way
  Concurrency,    \* FFMPEG_MAX_CONCURRENT_TASKS
  MaxTasks,       \* bound: tasks ever enqueued
  MaxRestarts     \* bound: restarts of the process

ASSUME ConvertAssumption ==
  /\ NoPath \notin Paths /\ DeleteFlags \subseteq BOOLEAN /\ Permits \subseteq BOOLEAN
  /\ Concurrency \in Nat \ {0} /\ MaxTasks \in Nat \ {0} /\ MaxRestarts \in Nat

Tasks == 1..MaxTasks
Runs == 1..(Concurrency + 1)  \* bound: one more than can hold a slot, to let one wind up

VARIABLES
  queue,       \* the bucket: tasks in it
  path,        \* InputPath of every task, NoPath while the id is unused
  deletes,     \* tasks with DeleteSource
  finalized,   \* paths the recorder has enqueued
  request,     \* API request: the path it found not to be queued, or NoPath
  cancelling,  \* tasks between the two steps of Cancel
  source,      \* source files: present, marked, deleted by the deleter, or gone otherwise
  staging,     \* staging files: none, partial (no index yet), whole, mixed by two writers
  output,      \* output files, the same
  list,        \* polling loop: tasks of this tick that are still to be visited
  cooldown,    \* ticks until the task may be tried again
  slots,       \* semaphore: free slots
  processing,  \* task -> the run whose cancel function is registered, or 0
  rtask, rpc,  \* run: task and place
  ok,          \* run: processTask is about to return nil
  killed,      \* run: its context is cancelled
  writes,      \* run: the file its ffmpeg has open
  deleting,    \* sourceDeleter.pending, one goroutine each
  down,        \* the service's context is cancelled
  restarts,    \* number of restarts so far
  cancelled    \* tasks Cancel has taken out of the bucket

dbVars == <<queue, path, deletes>>
apiVars == <<finalized, request, cancelling>>
fileVars == <<source, staging, output>>
loopVars == <<list, cooldown>>
runVars == <<slots, processing, rtask, rpc, ok, killed, writes>>
vars ==
  <<dbVars, apiVars, fileVars, loopVars, runVars, deleting, down, restarts, cancelled>>

FileStates == {"none", "partial", "whole", "mixed"}

\* An output may be there already, a broken one too.
Init ==
  /\ queue = {} /\ path = [t \in Tasks |-> NoPath] /\ deletes = {} /\ finalized = {}
  /\ source = [p \in Paths |-> "present"] /\ staging = [p \in Paths |-> "none"]
  /\ output \in [Paths -> {"none", "partial"}]
  /\ restarts = 0 /\ cancelled = {}
  /\ request = [q \in Requests |-> NoPath] /\ cancelling = {}
  /\ list = {} /\ cooldown = [t \in Tasks |-> 0]
  /\ slots = Concurrency /\ processing = [t \in Tasks |-> 0]
  /\ rtask = [r \in Runs |-> 0] /\ rpc = [r \in Runs |-> "idle"]
  /\ ok = [r \in Runs |-> FALSE] /\ killed = [r \in Runs |-> FALSE]
  /\ writes = [r \in Runs |-> "none"]
  /\ deleting = {} /\ down = FALSE

--------------------------------------------------------------------------------
(* Enqueue and Cancel.                                                     *)

\* Enqueue: a new id; the source has to be there.
Put(t, p, delete) ==
  /\ ~down /\ path[t] = NoPath /\ source[p] = "present"
  /\ queue' = queue \cup {t}
  /\ path' = [path EXCEPT ![t] = p]
  /\ deletes' = IF delete THEN deletes \cup {t} ELSE deletes

\* finalize() of a finished segment.
RecorderEnqueue(t, p, delete) ==
  /\ p \notin finalized
  /\ Put(t, p, delete)
  /\ finalized' = finalized \cup {p}
  /\ UNCHANGED <<request, cancelling, fileVars, loopVars, runVars, deleting, down, restarts,
                 cancelled>>

\* enqueueTask: IsInQueue; a queued file is answered with 409.
RequestCheck(q, p) ==
  /\ request[q] = NoPath
  /\ ~\E t \in queue : path[t] = p
  /\ request' = [request EXCEPT ![q] = p]
  /\ UNCHANGED <<dbVars, finalized, cancelling, fileVars, loopVars, runVars, deleting, down,
                 restarts, cancelled>>

\* enqueueTask: Enqueue.
RequestEnqueue(q, t, delete) ==
  /\ request[q] # NoPath
  /\ Put(t, request[q], delete)
  /\ request' = [request EXCEPT ![q] = NoPath]
  /\ UNCHANGED <<finalized, cancelling, fileVars, loopVars, runVars, deleting, down,
                 restarts, cancelled>>

\* Cancel: take the cancel function out of the map and call it.
CancelKill(t) ==
  /\ t \in queue \ cancelling /\ ~down
  /\ cancelling' = cancelling \cup {t}
  /\ killed' = [r \in Runs |-> killed[r] \/ r = processing[t]]
  /\ processing' = [processing EXCEPT ![t] = 0]
  /\ UNCHANGED <<dbVars, finalized, request, fileVars, loopVars, slots, rtask, rpc, ok,
                 writes, deleting, down, restarts, cancelled>>

\* Cancel: delete the task from the bucket; deleting what is not there is no error.
CancelDelete(t) ==
  /\ t \in cancelling
  /\ cancelling' = cancelling \ {t}
  /\ queue' = queue \ {t}
  /\ cancelled' = IF t \in queue THEN cancelled \cup {t} ELSE cancelled
  /\ UNCHANGED <<path, deletes, finalized, request, fileVars, loopVars, runVars, deleting,
                 down, restarts>>

--------------------------------------------------------------------------------
(* The polling loop.                                                       *)

\* A tick; with too many recordings under way only the time passes.
Tick(allowed) ==
  /\ list = {} /\ ~down
  /\ cooldown' = [t \in Tasks |-> IF cooldown[t] = 0 THEN 0 ELSE cooldown[t] - 1]
  /\ list' = IF allowed THEN queue ELSE {}
  /\ UNCHANGED <<dbVars, apiVars, fileVars, runVars, deleting, down, restarts, cancelled>>

\* A goroutine that has no task: run ids are names only, so the first one will do.
Unused(r) == rpc[r] = "idle" /\ \A x \in Runs : x < r => rpc[x] # "idle"

Visited(t) == t \in list /\ \A u \in list : t <= u

\* Not now: already running, or on cooldown.
Skip(t) ==
  /\ Visited(t) /\ (processing[t] # 0 \/ cooldown[t] > 0)
  /\ list' = list \ {t}
  /\ UNCHANGED <<dbVars, apiVars, fileVars, cooldown, runVars, deleting, down, restarts,
                 cancelled>>

Due(t) == Visited(t) /\ processing[t] = 0 /\ cooldown[t] = 0

\* The input has gone: the task goes too.
DropMissing(t) ==
  /\ Due(t) /\ source[path[t]] # "present"
  /\ list' = list \ {t}
  /\ queue' = queue \ {t}
  /\ UNCHANGED <<path, deletes, apiVars, fileVars, cooldown, runVars, deleting, down,
                 restarts, cancelled>>

\* TryAcquire fails: the rest of the list waits for the next tick.
LimitReached(t) ==
  /\ Due(t) /\ source[path[t]] = "present" /\ slots = 0
  /\ list' = {}
  /\ UNCHANGED <<dbVars, apiVars, fileVars, cooldown, runVars, deleting, down, restarts,
                 cancelled>>

\* Faulty: the task is taken out of the bucket when its run starts.
StartRunDequeuing(t, r) ==
  /\ Due(t) /\ source[path[t]] = "present" /\ slots > 0 /\ Unused(r)
  /\ list' = list \ {t}
  /\ queue' = queue \ {t}
  /\ slots' = slots - 1
  /\ processing' = [processing EXCEPT ![t] = r]
  /\ rtask' = [rtask EXCEPT ![r] = t] /\ rpc' = [rpc EXCEPT ![r] = "check"]
  /\ killed' = [killed EXCEPT ![r] = down]
  /\ UNCHANGED <<path, deletes, apiVars, fileVars, cooldown, ok, writes, deleting, down,
                 restarts, cancelled>>

\* A run starts.  The loop does not look at the bucket again: the task it starts may
\* have been finished or cancelled since the list was taken.
StartRun(t, r) ==
  /\ Due(t) /\ source[path[t]] = "present" /\ slots > 0 /\ Unused(r)
  /\ list' = list \ {t}
  /\ slots' = slots - 1
  /\ processing' = [processing EXCEPT ![t] = r]
  /\ rtask' = [rtask EXCEPT ![r] = t] /\ rpc' = [rpc EXCEPT ![r] = "check"]
  /\ killed' = [killed EXCEPT ![r] = down]
  /\ UNCHANGED <<dbVars, apiVars, fileVars, cooldown, ok, writes, deleting, down, restarts,
                 cancelled>>

Visit ==
  \E t \in Tasks :
    Skip(t) \/ DropMissing(t) \/ LimitReached(t) \/ \E r \in Runs : StartRun(t, r)

--------------------------------------------------------------------------------
(* processTask.                                                            *)

Input(r) == path[rtask[r]]
Others(r, p, where) == {x \in Runs \ {r} : writes[x] = where /\ Input(x) = p}

At(r, place) == rpc[r] = place
GoTo(r, place) == rpc' = [rpc EXCEPT ![r] = place]

\* The file p at `from` now is at `to`: whoever writes it writes it there.
Moved(p, from, to) ==
  [x \in Runs |-> IF writes[x] = from /\ Input(x) = p THEN to ELSE writes[x]]

\* What the checks of the container can find: no index in a partial file, either
\* answer for a mixed one, and no answer for a run that is killed.
Accepts(r, file) == ~killed[r] /\ file \in {"whole", "mixed"}
Rejects(r, file) == killed[r] \/ file # "whole"

\* No input, or a good output that is there already: nothing to do.
Check(r) ==
  /\ At(r, "check")
  /\ \/ /\ source[Input(r)] # "present" \/ Accepts(r, output[Input(r)])
        /\ GoTo(r, "finish")
     \/ /\ source[Input(r)] = "present" /\ Rejects(r, output[Input(r)])
        /\ GoTo(r, "open")
  /\ UNCHANGED <<dbVars, apiVars, fileVars, loopVars, slots, processing, rtask, ok, killed,
                 writes, deleting, down, restarts, cancelled>>

\* ffmpeg starts and truncates the staging file, whoever else writes to it.
OpenStaging(r) ==
  /\ At(r, "open")
  /\ IF killed[r] \/ source[Input(r)] # "present"
     THEN GoTo(r, "clean") /\ UNCHANGED <<staging, writes>>
     ELSE /\ GoTo(r, "ffmpeg")
          /\ staging' = [staging EXCEPT ![Input(r)] = "partial"]
          /\ writes' = [writes EXCEPT ![r] = "staging"]
  /\ UNCHANGED <<dbVars, apiVars, source, output, loopVars, slots, processing, rtask, ok,
                 killed, deleting, down, restarts, cancelled>>

\* ffmpeg ends well: the file it has open is whole, unless somebody else wrote to it.
FfmpegDone(r) ==
  LET p == Input(r)
      Written(file) ==
        [file EXCEPT ![p] =
           IF @ = "partial" /\ Others(r, p, writes[r]) = {} THEN "whole" ELSE "mixed"]
  IN /\ At(r, "ffmpeg") /\ GoTo(r, "validate")
     /\ staging' = IF writes[r] = "staging" THEN Written(staging) ELSE staging
     /\ output' = IF writes[r] = "output" THEN Written(output) ELSE output
     /\ writes' = [writes EXCEPT ![r] = "none"]
     /\ UNCHANGED <<dbVars, apiVars, source, loopVars, slots, processing, rtask, ok, killed,
                    deleting, down, restarts, cancelled>>

\* ffmpeg fails or is killed.
FfmpegFails(r) ==
  /\ At(r, "ffmpeg") /\ GoTo(r, "clean")
  /\ writes' = [writes EXCEPT ![r] = "none"]
  /\ UNCHANGED <<dbVars, apiVars, fileVars, loopVars, slots, processing, rtask, ok, killed,
                 deleting, down, restarts, cancelled>>

\* validateOutputContainer of the staging file.
Validate(r) ==
  /\ At(r, "validate")
  /\ \/ Accepts(r, staging[Input(r)]) /\ GoTo(r, "remove")
     \/ Rejects(r, staging[Input(r)]) /\ GoTo(r, "clean")
  /\ UNCHANGED <<dbVars, apiVars, fileVars, loopVars, slots, processing, rtask, ok, killed,
                 writes, deleting, down, restarts, cancelled>>

\* ReplaceFile: remove what is there.
RemoveOutput(r) ==
  /\ At(r, "remove") /\ GoTo(r, "rename")
  /\ output' = [output EXCEPT ![Input(r)] = "none"]
  /\ writes' = Moved(Input(r), "output", "unlinked")
  /\ UNCHANGED <<dbVars, apiVars, source, staging, loopVars, slots, processing, rtask, ok,
                 killed, deleting, down, restarts, cancelled>>

\* ReplaceFile: rename; an error if the staging file has gone.
RenameStaging(r) ==
  LET p == Input(r) IN
  /\ At(r, "rename") /\ GoTo(r, "clean")
  /\ IF staging[p] = "none"
     THEN UNCHANGED <<staging, output, ok, writes>>
     ELSE /\ output' = [output EXCEPT ![p] = staging[p]]
          /\ staging' = [staging EXCEPT ![p] = "none"]
          /\ writes' = Moved(p, "staging", "output")
          /\ ok' = [ok EXCEPT ![r] = TRUE]
  /\ UNCHANGED <<dbVars, apiVars, source, loopVars, slots, processing, rtask, killed,
                 deleting, down, restarts, cancelled>>

\* The deferred RemoveIfExists(staging).
CleanStaging(r) ==
  /\ At(r, "clean") /\ GoTo(r, IF ok[r] THEN "finish" ELSE "fail")
  /\ staging' = [staging EXCEPT ![Input(r)] = "none"]
  /\ writes' = Moved(Input(r), "staging", "unlinked")
  /\ UNCHANGED <<dbVars, apiVars, source, output, loopVars, slots, processing, rtask, ok,
                 killed, deleting, down, restarts, cancelled>>

--------------------------------------------------------------------------------
(* asyncProcessTask: what comes after.                                     *)

\* Faulty: the deletion is scheduled on every way out.
FailDeleting(r) ==
  /\ At(r, "fail") /\ GoTo(r, "cleanup")
  /\ cooldown' = [cooldown EXCEPT ![rtask[r]] = 3]
  /\ slots' = slots + 1
  /\ deleting' = IF rtask[r] \in deletes THEN deleting \cup {Input(r)} ELSE deleting
  /\ UNCHANGED <<dbVars, apiVars, fileVars, list, processing, rtask, ok, killed, writes,
                 down, restarts, cancelled>>

\* The task stays in the bucket, on cooldown for two intervals from now, so that it
\* misses the next two ticks.  The deferred Release comes before the deferred clean-up.
Fail(r) ==
  /\ At(r, "fail") /\ GoTo(r, "cleanup")
  /\ cooldown' = [cooldown EXCEPT ![rtask[r]] = 3]
  /\ slots' = slots + 1
  /\ UNCHANGED <<dbVars, apiVars, fileVars, list, processing, rtask, ok, killed, writes,
                 deleting, down, restarts, cancelled>>

\* Count it and take it out of the bucket.
Finish(r) ==
  /\ At(r, "finish") /\ GoTo(r, "schedule")
  /\ queue' = queue \ {rtask[r]}
  /\ UNCHANGED <<path, deletes, apiVars, fileVars, loopVars, slots, processing, rtask, ok,
                 killed, writes, deleting, down, restarts, cancelled>>

\* sourceDeleter.Schedule, one goroutine per path, and the deferred Release.
Schedule(r) ==
  /\ At(r, "schedule") /\ GoTo(r, "cleanup")
  /\ deleting' = IF rtask[r] \in deletes THEN deleting \cup {Input(r)} ELSE deleting
  /\ slots' = slots + 1
  /\ UNCHANGED <<dbVars, apiVars, fileVars, loopVars, processing, rtask, ok, killed, writes,
                 down, restarts, cancelled>>

\* Faulty: only a successful run takes its task out of processing.
CleanUpOnSuccess(r) ==
  LET t == rtask[r] IN
  /\ At(r, "cleanup") /\ GoTo(r, "idle")
  /\ processing' = IF t \notin queue THEN [processing EXCEPT ![t] = 0] ELSE processing
  /\ killed' = [x \in Runs |-> x # r /\ (killed[x] \/ x = processing[t])]
  /\ rtask' = [rtask EXCEPT ![r] = 0] /\ ok' = [ok EXCEPT ![r] = FALSE]
  /\ UNCHANGED <<dbVars, apiVars, fileVars, loopVars, slots, writes, deleting, down,
                 restarts, cancelled>>

\* LoadAndDelete by task id: the cancel function found may be that of a later run.
CleanUp(r) ==
  LET t == rtask[r] IN
  /\ At(r, "cleanup") /\ GoTo(r, "idle")
  /\ processing' = [processing EXCEPT ![t] = 0]
  /\ killed' = [x \in Runs |-> x # r /\ (killed[x] \/ x = processing[t])]
  /\ rtask' = [rtask EXCEPT ![r] = 0] /\ ok' = [ok EXCEPT ![r] = FALSE]
  /\ UNCHANGED <<dbVars, apiVars, fileVars, loopVars, slots, writes, deleting, down,
                 restarts, cancelled>>

Run(r) ==
  \/ Check(r) \/ OpenStaging(r) \/ FfmpegDone(r) \/ FfmpegFails(r) \/ Validate(r)
  \/ RemoveOutput(r) \/ RenameStaging(r) \/ CleanStaging(r)
  \/ Fail(r) \/ Finish(r) \/ Schedule(r) \/ CleanUp(r)

--------------------------------------------------------------------------------
(* The source, the end and the restart of the service.                     *)

\* deleteSource: an attempt succeeds.
DeleteSource(p) ==
  /\ p \in deleting /\ ~down
  /\ deleting' = deleting \ {p}
  /\ source' = [source EXCEPT ![p] = IF @ = "present" THEN "deleted" ELSE @]
  /\ UNCHANGED <<dbVars, apiVars, staging, output, loopVars, runVars, down, restarts,
                 cancelled>>

\* handleDeleteFailure: after the last attempt the source is renamed, or stays.
MarkSource(p) ==
  /\ p \in deleting /\ source[p] = "present"
  /\ deleting' = deleting \ {p}
  /\ source' \in {source, [source EXCEPT ![p] = "marked"]}
  /\ UNCHANGED <<dbVars, apiVars, staging, output, loopVars, runVars, down, restarts,
                 cancelled>>

\* deleteSource: the service is stopping.
DeleteAborts(p) ==
  /\ p \in deleting /\ down
  /\ deleting' = deleting \ {p}
  /\ UNCHANGED <<dbVars, apiVars, fileVars, loopVars, runVars, down, restarts, cancelled>>

\* Somebody else removes a recording: the low-disk clean-up, or a user.
SourceVanishes(p) ==
  /\ source[p] = "present"
  /\ source' = [source EXCEPT ![p] = "gone"]
  /\ UNCHANGED <<dbVars, apiVars, staging, output, loopVars, runVars, deleting, down,
                 restarts, cancelled>>

\* The stop hook cancels the context of the service and with it those of the runs; the
\* loop goes on through its list and then ends.
Shutdown ==
  /\ ~down
  /\ down' = TRUE
  /\ killed' = [r \in Runs |-> rpc[r] # "idle"]
  /\ UNCHANGED <<dbVars, apiVars, fileVars, loopVars, slots, processing, rtask, rpc, ok,
                 writes, deleting, restarts, cancelled>>

\* A crash, or the end of the process, and the next start.
Restart ==
  /\ restarts < MaxRestarts
  /\ restarts' = restarts + 1
  /\ request' = [q \in Requests |-> NoPath] /\ cancelling' = {}
  /\ list' = {} /\ cooldown' = [t \in Tasks |-> 0]
  /\ slots' = Concurrency /\ processing' = [t \in Tasks |-> 0]
  /\ rtask' = [r \in Runs |-> 0] /\ rpc' = [r \in Runs |-> "idle"]
  /\ ok' = [r \in Runs |-> FALSE] /\ killed' = [r \in Runs |-> FALSE]
  /\ writes' = [r \in Runs |-> "none"]
  /\ deleting' = {} /\ down' = FALSE
  /\ UNCHANGED <<dbVars, finalized, fileVars, cancelled>>

--------------------------------------------------------------------------------
Enqueue ==
  \E t \in Tasks, delete \in DeleteFlags :
    \/ \E p \in Paths : RecorderEnqueue(t, p, delete)
    \/ \E q \in Requests : RequestEnqueue(q, t, delete)

Cancel == \E t \in Tasks : CancelKill(t) \/ CancelDelete(t)

DeleterStep(p) == DeleteSource(p) \/ MarkSource(p) \/ DeleteAborts(p)

Next ==
  \/ Enqueue \/ Cancel \/ \E q \in Requests, p \in Paths : RequestCheck(q, p)
  \/ \E allowed \in Permits : Tick(allowed)
  \/ Visit \/ \E r \in Runs : Run(r)
  \/ \E p \in Paths : DeleterStep(p) \/ SourceVanishes(p)
  \/ Shutdown \/ Restart

Spec == Init /\ [][Next]_vars

(* For liveness: an undisturbed queue, where the recorder enqueues and     *)
(* nobody cancels, removes a source or stops the service.  The poller and  *)
(* the runs go on; ffmpeg need not succeed.                                *)
QuietNext ==
  \/ \E t \in Tasks, p \in Paths, delete \in DeleteFlags : RecorderEnqueue(t, p, delete)
  \/ \E allowed \in Permits : Tick(allowed)
  \/ Visit \/ \E r \in Runs : Run(r)

Fairness ==
  /\ WF_vars(\E allowed \in Permits : Tick(allowed)) /\ WF_vars(Visit)
  /\ \A r \in Runs : WF_vars(Run(r))

QuietSpec == Init /\ [][QuietNext]_vars /\ Fairness

--------------------------------------------------------------------------------
(* Properties.                                                             *)

\* Every variable has its type.
TypeOK ==
  /\ queue \subseteq Tasks /\ deletes \subseteq Tasks
  /\ path \in [Tasks -> Paths \cup {NoPath}] /\ \A t \in queue : path[t] # NoPath
  /\ finalized \subseteq Paths /\ request \in [Requests -> Paths \cup {NoPath}]
  /\ cancelling \subseteq Tasks
  /\ source \in [Paths -> {"present", "marked", "deleted", "gone"}]
  /\ staging \in [Paths -> FileStates] /\ output \in [Paths -> FileStates]
  /\ list \subseteq Tasks /\ cooldown \in [Tasks -> 0..3]
  /\ slots \in 0..Concurrency /\ processing \in [Tasks -> Runs \cup {0}]
  /\ rtask \in [Runs -> Tasks \cup {0}]
  /\ rpc \in [Runs -> {"idle", "check", "open", "ffmpeg", "validate", "remove", "rename",
                       "clean", "fail", "finish", "schedule", "cleanup"}]
  /\ ok \in [Runs -> BOOLEAN] /\ killed \in [Runs -> BOOLEAN]
  /\ writes \in [Runs -> {"none", "staging", "output", "unlinked"}]
  /\ deleting \subseteq Paths /\ down \in BOOLEAN /\ restarts \in 0..MaxRestarts
  /\ cancelled \subseteq Tasks

\* A source is removed only when its output is whole, and the output stays so through
\* cancelled and repeated tasks, stops and crashes at any point.
SourceKept == \A p \in Paths : source[p] = "deleted" => output[p] = "whole"

\* "Whether to delete the original file after conversion": with more than one slot the
\* original may be deleted and nothing but a truncated output be left.
NothingLost ==
  \A p \in Paths :
    source[p] = "deleted" =>
      \/ output[p] \in {"whole", "mixed"}
      \/ \E r \in Runs : writes[r] = "output" /\ Input(r) = p

\* No task leaves the bucket, across crashes, without having been cancelled or having a
\* whole output, unless its source is not there any more.
NoTaskLost ==
  [][\A t \in queue \ queue' :
       t \in cancelling \/ output[path[t]] = "whole" \/ source[path[t]] # "present"]_vars

\* A task that the poller skips as "already being processed" is being processed: no
\* path leaves it blocked until the next restart.
ProcessingHasRun ==
  \A t \in Tasks : processing[t] # 0 => rtask[processing[t]] = t

\* A task is tried or leaves the queue, although others fail again and again.
EventuallyTried ==
  \A t \in Tasks : t \in queue ~> processing[t] # 0 \/ t \notin queue \/ down

\* What the API says and does not keep: "Conflict: File already in convert queue".
NoDuplicateTasks == \A t, u \in queue : path[t] = path[u] => t = u

\* What Cancel says and does not keep: a task that was cancelled is not started any more.
CancelledNeverStarts ==
  [][\A r \in Runs : rpc[r] = "idle" /\ rpc'[r] # "idle" => rtask'[r] \notin cancelled]_vars

\* "@Failure 404": a Cancel that succeeds has found its task.  Deleting a key that is
\* not there is no error, so the answer is never "not found".
CancelFindsTask == [][\A t \in cancelling \ cancelling' : t \in queue \/ restarts' > restarts]_vars

\* "The completed counter bumped exactly once": what is counted as finished is a task
\* that has not been counted, cancelled or dropped before.
CompletedOnce ==
  [][\A r \in Runs :
       rpc[r] = "finish" /\ rpc'[r] = "schedule" =>
         rtask[r] \in queue \cup cancelling \cup cancelled \/ source[Input(r)] # "present"]_vars
================================================================================
