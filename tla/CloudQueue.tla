----------------------------- MODULE CloudQueue -----------------------------
(***************************************************************************)
(* The CloudConvert queue of internal/services/convert/cloud.go: a         *)
(* persistent bucket of tasks, a polling loop that submits new tasks and   *)
(* asks for the state of submitted ones, a goroutine for every task that   *)
(* has ended at the provider, and the deletion of the source.              *)
(*                                                                         *)
(* The loop works on a list it read at the tick, the goroutines and Cancel *)
(* change the bucket under it.  A task that is submitted changes its id to *)
(* the one of its export task; a failed one is put back under a new id.    *)
(* The process may crash at any point: bucket, files and the provider's    *)
(* jobs stay.                                                              *)
(***************************************************************************)
EXTENDS Integers, FiniteSets, Functions

CONSTANTS
    CloudPaths,     \* recordings that may be converted
    MaxIds,         \* bound: ids that are ever given to tasks
    MaxCrashes      \* bound: restarts of the process

ASSUME CloudAssumption == MaxIds \in Nat /\ MaxCrashes \in Nat

Ids == 1..MaxIds

VARIABLES
    bucket,     \* id -> [path, submitted]
    idsUsed,       \* number of ids given away
    job,        \* id -> state of the export task at the provider
    visits,     \* the polling loop: ids of the list that are still to be visited, with what was read
    submitting, \* the loop is in submitTask: [id, path, new], or <<>>
    handling,   \* processing, with the goroutine of the id: id -> [path, pc, new]
    cancels,    \* ids between the two transactions of Cancel
    cloudOut, cloudSrc, \* path -> the files: "none" or "good"; "kept" or "deleted"
    cloudAsked, withdrawn,   \* paths that were enqueued, and that were cancelled
    converted,  \* paths whose output was downloaded and found good
    crashes

cloudVars == <<bucket, idsUsed, job, visits, submitting, handling, cancels, cloudOut, cloudSrc,
               cloudAsked, withdrawn, converted, crashes>>

NewId == idsUsed + 1
PutTask(b, id, p, submitted) == [i \in DOMAIN b \cup {id} |->
    IF i = id THEN [path |-> p, submitted |-> submitted] ELSE b[i]]
Delete(b, id) == Restrict(b, DOMAIN b \ {id})

CloudInit ==
    /\ bucket = <<>> /\ idsUsed = 0 /\ job = [i \in Ids |-> "none"]
    /\ visits = <<>> /\ submitting = <<>> /\ handling = <<>> /\ cancels = {}
    /\ cloudOut = [p \in CloudPaths |-> "none"] /\ cloudSrc = [p \in CloudPaths |-> "kept"]
    /\ cloudAsked = {} /\ withdrawn = {} /\ converted = {} /\ crashes = 0

\* Enqueue: the recorder or a request puts a file into the bucket.
CloudEnqueue(p) ==
    /\ idsUsed < MaxIds /\ cloudSrc[p] = "kept" /\ p \notin cloudAsked
    /\ bucket' = PutTask(bucket, NewId, p, FALSE) /\ idsUsed' = NewId
    /\ cloudAsked' = cloudAsked \cup {p}
    /\ UNCHANGED <<job, visits, submitting, handling, cancels, cloudOut, cloudSrc, withdrawn, converted, crashes>>

\* The provider ends a job, well or not, or forgets it.
JobEnds(i) ==
    /\ \/ job[i] = "running" /\ \E s \in {"finished", "error"} : job' = [job EXCEPT ![i] = s]
       \/ job[i] = "error" /\ job' = [job EXCEPT ![i] = "forgotten"]
    /\ UNCHANGED <<bucket, idsUsed, visits, submitting, handling, cancels, cloudOut, cloudSrc, cloudAsked, withdrawn, converted, crashes>>

(***************************************************************************)
(* The polling loop.                                                       *)
(***************************************************************************)

\* ListInProgress at a tick.
ListInProgress ==
    /\ visits = <<>> /\ submitting = <<>> /\ bucket # <<>>
    /\ visits' = bucket
    /\ UNCHANGED <<bucket, idsUsed, job, submitting, handling, cancels, cloudOut, cloudSrc, cloudAsked, withdrawn, converted, crashes>>

\* A task that is not submitted: skipped while recordings run, or no URL, or no job.
SkipSubmit(i) ==
    /\ submitting = <<>> /\ i \in DOMAIN visits /\ ~visits[i].submitted
    /\ visits' = Delete(visits, i)
    /\ UNCHANGED <<bucket, idsUsed, job, submitting, handling, cancels, cloudOut, cloudSrc, cloudAsked, withdrawn, converted, crashes>>

\* submitTask: the provider has accepted the job.
Submit(i) ==
    /\ submitting = <<>> /\ i \in DOMAIN visits /\ ~visits[i].submitted
    /\ idsUsed < MaxIds /\ idsUsed' = NewId
    /\ job' = [job EXCEPT ![NewId] = "running"]
    /\ submitting' = [id |-> i, path |-> visits[i].path, new |-> NewId]
    /\ visits' = Delete(visits, i)
    /\ UNCHANGED <<bucket, handling, cancels, cloudOut, cloudSrc, cloudAsked, withdrawn, converted, crashes>>

\* Mutant: the transaction deletes the old entry and does not put the new one.
ForgetsFirst(b, s) == Delete(b, s.id)

\* The transaction of submitTask: the task gets the id of its export task.
Resubmitted(b, s) == PutTask(Delete(b, s.id), s.new, s.path, TRUE)

StoreJob ==
    /\ submitting # <<>>
    /\ bucket' = Resubmitted(bucket, submitting)
    /\ submitting' = <<>>
    /\ UNCHANGED <<idsUsed, job, visits, handling, cancels, cloudOut, cloudSrc, cloudAsked, withdrawn, converted, crashes>>

\* The transaction fails: the job is cancelled at the provider, or that fails too.
StoreFails ==
    /\ submitting # <<>>
    /\ job' \in {job, [job EXCEPT ![submitting.new] = "error"]}
    /\ submitting' = <<>>
    /\ UNCHANGED <<bucket, idsUsed, visits, handling, cancels, cloudOut, cloudSrc, cloudAsked, withdrawn, converted, crashes>>

\* A submitted task: skipped when a goroutine has it, when the provider does not answer,
\* when the job still runs, or when it has finished during a recording.
SkipCheck(i) ==
    /\ submitting = <<>> /\ i \in DOMAIN visits /\ visits[i].submitted
    /\ visits' = Delete(visits, i)
    /\ UNCHANGED <<bucket, idsUsed, job, submitting, handling, cancels, cloudOut, cloudSrc, cloudAsked, withdrawn, converted, crashes>>

\* A goroutine takes it over: asyncOnFinished or asyncOnFailed.
CheckTask(i) ==
    /\ submitting = <<>> /\ i \in DOMAIN visits /\ visits[i].submitted
    /\ i \notin DOMAIN handling /\ job[i] \in {"finished", "error", "forgotten"}
    /\ handling' = [j \in DOMAIN handling \cup {i} |->
         IF j # i THEN handling[j]
         ELSE [path |-> visits[i].path, new |-> 0,
               pc |-> IF job[i] = "finished" THEN "download" ELSE "requeue", done |-> job[i] = "finished"]]
    /\ visits' = Delete(visits, i)
    /\ UNCHANGED <<bucket, idsUsed, job, submitting, cancels, cloudOut, cloudSrc, cloudAsked, withdrawn, converted, crashes>>

(***************************************************************************)
(* The goroutine of a task that has ended.                                 *)
(***************************************************************************)
HandlerAt(i, pc) == i \in DOMAIN handling /\ handling[i].pc = pc
Goes(i, pc) == handling' = [handling EXCEPT ![i].pc = pc]
File(i) == handling[i].path
Leaves(i) == handling' = Delete(handling, i)

\* The download fails: the task stays in the bucket and is asked for again.
DownloadFails(i) ==
    /\ HandlerAt(i, "download")
    /\ Leaves(i)
    /\ UNCHANGED <<bucket, idsUsed, job, visits, submitting, cancels, cloudOut, cloudSrc, cloudAsked, withdrawn, converted, crashes>>

\* The file replaces the output and is large enough.
DownloadGood(i) ==
    /\ HandlerAt(i, "download")
    /\ cloudOut' = [cloudOut EXCEPT ![File(i)] = "good"]
    /\ converted' = converted \cup {File(i)}
    /\ Goes(i, "remove")
    /\ UNCHANGED <<bucket, idsUsed, job, visits, submitting, cancels, cloudSrc, cloudAsked, withdrawn, crashes>>

\* The file replaces the output and is too small: it is removed.  handleFailed follows, and
\* its nil is what handleFinished returns.
DownloadBad(i) ==
    /\ HandlerAt(i, "download")
    /\ cloudOut' = [cloudOut EXCEPT ![File(i)] = "none"]
    /\ Goes(i, "requeue")
    /\ UNCHANGED <<bucket, idsUsed, job, visits, submitting, cancels, cloudSrc, cloudAsked, withdrawn, converted, crashes>>

\* The task leaves the bucket at the end of handleFinished.
RemoveTask(i) ==
    /\ HandlerAt(i, "remove")
    /\ bucket' = Delete(bucket, i)
    /\ Goes(i, "succeeded")
    /\ UNCHANGED <<idsUsed, job, visits, submitting, cancels, cloudOut, cloudSrc, cloudAsked, withdrawn, converted, crashes>>

\* handleFailed with the source gone: the task is given up.
GiveUp(i) ==
    /\ HandlerAt(i, "requeue") /\ cloudSrc[File(i)] = "deleted"
    /\ bucket' = Delete(bucket, i)
    /\ Goes(i, IF handling[i].done THEN "succeeded" ELSE "end")
    /\ UNCHANGED <<idsUsed, job, visits, submitting, cancels, cloudOut, cloudSrc, cloudAsked, withdrawn, converted, crashes>>

\* handleFailed: enqueued again under a new id.
Requeue(i) ==
    /\ HandlerAt(i, "requeue") /\ cloudSrc[File(i)] = "kept" /\ idsUsed < MaxIds
    /\ bucket' = PutTask(bucket, NewId, File(i), FALSE) /\ idsUsed' = NewId
    /\ handling' = [handling EXCEPT ![i].pc = "replace", ![i].new = NewId]
    /\ UNCHANGED <<job, visits, submitting, cancels, cloudOut, cloudSrc, cloudAsked, withdrawn, converted, crashes>>

\* handleFailed: the old task is deleted; when that fails the new one is cancelled.
Replace(i) ==
    /\ HandlerAt(i, "replace")
    /\ \/ bucket' = Delete(bucket, i) /\ Goes(i, IF handling[i].done THEN "succeeded" ELSE "end")
       \/ i \in DOMAIN bucket /\ bucket' = Delete(bucket, handling[i].new) /\ Goes(i, "end")
    /\ UNCHANGED <<idsUsed, job, visits, submitting, cancels, cloudOut, cloudSrc, cloudAsked, withdrawn, converted, crashes>>

\* asyncOnFinished after a nil: the deleter removes the source; removing it may fail.
DeleteUploaded(i) ==
    /\ HandlerAt(i, "succeeded")
    /\ cloudSrc' \in {cloudSrc, [cloudSrc EXCEPT ![File(i)] = "deleted"]}
    /\ Leaves(i)
    /\ UNCHANGED <<bucket, idsUsed, job, visits, submitting, cancels, cloudOut, cloudAsked, withdrawn, converted, crashes>>

EndHandling(i) ==
    /\ HandlerAt(i, "end")
    /\ Leaves(i)
    /\ UNCHANGED <<bucket, idsUsed, job, visits, submitting, cancels, cloudOut, cloudSrc, cloudAsked, withdrawn, converted, crashes>>

(***************************************************************************)
(* Cancel: look the task up, cancel the job, delete the task.              *)
(***************************************************************************)
CancelLooks(i) ==
    /\ i \in DOMAIN bucket \ cancels
    /\ cancels' = cancels \cup {i}
    /\ job' = IF bucket[i].submitted /\ job[i] = "running" THEN [job EXCEPT ![i] = "error"] ELSE job
    /\ UNCHANGED <<bucket, idsUsed, visits, submitting, handling, cloudOut, cloudSrc, cloudAsked, withdrawn, converted, crashes>>

\* The provider does not answer, although it may have cancelled the job.
CancelFails(i) ==
    /\ i \in cancels
    /\ cancels' = cancels \ {i}
    /\ UNCHANGED <<bucket, idsUsed, job, visits, submitting, handling, cloudOut, cloudSrc, cloudAsked, withdrawn, converted, crashes>>

\* The id is deleted, whatever task it names by now: deleting an unknown id is no error.
CancelDeletes(i) ==
    /\ i \in cancels
    /\ cancels' = cancels \ {i}
    /\ bucket' = Delete(bucket, i)
    /\ withdrawn' = IF i \in DOMAIN bucket THEN withdrawn \cup {bucket[i].path} ELSE withdrawn
    /\ UNCHANGED <<idsUsed, job, visits, submitting, handling, cloudOut, cloudSrc, cloudAsked, converted, crashes>>

\* The process dies and starts again: StartWorker opens the bucket.
Crash ==
    /\ crashes < MaxCrashes /\ crashes' = crashes + 1
    /\ visits' = <<>> /\ submitting' = <<>> /\ handling' = <<>> /\ cancels' = {}
    /\ UNCHANGED <<bucket, idsUsed, job, cloudOut, cloudSrc, cloudAsked, withdrawn, converted>>

CloudNext ==
    \/ \E p \in CloudPaths : CloudEnqueue(p)
    \/ ListInProgress \/ StoreJob \/ StoreFails \/ Crash
    \/ \E i \in Ids :
         \/ JobEnds(i) \/ SkipSubmit(i) \/ Submit(i) \/ SkipCheck(i) \/ CheckTask(i)
         \/ DownloadFails(i) \/ DownloadGood(i) \/ DownloadBad(i) \/ RemoveTask(i)
         \/ GiveUp(i) \/ Requeue(i) \/ Replace(i) \/ DeleteUploaded(i) \/ EndHandling(i)
         \/ CancelLooks(i) \/ CancelFails(i) \/ CancelDeletes(i)

---------------------------------------------------------------------------

\* A file that was enqueued and not cancelled has a task in the bucket until a good output of
\* it was downloaded, through submissions, failures, failing transactions, stale lists and crashes.
CloudTaskKept ==
    \A p \in cloudAsked \ withdrawn :
        \/ p \in converted
        \/ cloudSrc[p] = "deleted"
        \/ \E i \in DOMAIN bucket : bucket[i].path = p

\* DELETE_SOURCE_AFTER_CONVERT: the source is deleted only when its conversion is there.
DeletedWhenConverted == \A p \in CloudPaths : cloudSrc[p] = "deleted" => cloudOut[p] = "good"
=============================================================================
