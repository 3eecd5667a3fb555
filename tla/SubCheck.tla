------------------------------ MODULE SubCheck ------------------------------
(***************************************************************************)
(* The subscription checker (internal/services/subcheck/check.go) for one  *)
(* subscribed room: it learns that the room is live, announces the live    *)
(* session once, starts the recorder when the room is set to auto-record,  *)
(* and remembers the key of the session in memory and in subcheck.db so    *)
(* that the next check, or the next process, leaves the session alone.  A  *)
(* start that fails for a transient reason is retried a few times.         *)
(*                                                                         *)
(* Two kinds of goroutines run processRooms on the same maps without a     *)
(* lock: the shard loops and the retry loop.  Each access to sessionKeys,  *)
(* autoStartRetry, the bucket and the recorder is a step of its own.       *)
(* Rooms share nothing but these maps, so one room is enough; a rescale    *)
(* can hand a room to another shard while the old one is still busy with   *)
(* it, which is why Shards is a set.                                       *)
(*                                                                         *)
(* A live session is the number 1, 2, ... of the broadcast, which stands   *)
(* for its session key (resolveLiveSessionKey); 0 means off air, or no     *)
(* key.  The recorder is reduced to what Start and GetStatus show of it;   *)
(* module RecorderSession models it.  The lengths of the delays are left   *)
(* out: an entry of autoStartRetry is due or not.                          *)
(***************************************************************************)
EXTENDS Integers

CONSTANTS
    Shards,       \* the shard loops that may get the room
    Configs,      \* the room configurations a user may set: [auto, notify]
    MaxSessions,  \* bound: broadcasts of the room
    MaxAttempts,  \* maxAutoStartAttempts, 6 in the code
    MaxRestarts   \* bound: crashes of the process

ASSUME SubCheckAssumption ==
    /\ Configs \subseteq [auto : BOOLEAN, notify : BOOLEAN]
    /\ MaxSessions \in Nat \ {0}
    /\ MaxAttempts \in Nat \ {0}
    /\ MaxRestarts \in Nat
    /\ "retryLoop" \notin Shards

VARIABLES
    live,       \* the broadcast that is on air, 0 if none
    last,       \* how many broadcasts there have been
    conf,       \* the room's configuration in the subscribe service
    cache,      \* the room service's cached answer
    rec,        \* what the recorder is doing for the room
    user,       \* a Start by the user is connecting
    keys,       \* sessionKeys[room]
    db,         \* the room's entry of the bucket
    retry,      \* autoStartRetry[room]
    later,      \* the entry was stored after the retry loop read its clock
    held,       \* retryDueRooms: the copy it is about to store again
    job,        \* processRooms: where each goroutine is, and its locals
    restarts,
    announced,  \* StreamStarted events of a session, up to 2
    settled     \* sessions for which nothing is left to do

world == <<live, last, conf, cache>>
recorder == <<rec, user>>
state == <<keys, db>>
waiting == <<retry, later, held>>
ghosts == <<announced, settled>>
vars == <<world, recorder, state, waiting, job, restarts, ghosts>>

Retrier == "retryLoop"
Goroutines == Shards \cup {Retrier}
Sessions == 1..MaxSessions
NoInfo == -1
Unsubscribed == [auto |-> FALSE, notify |-> FALSE, gone |-> TRUE]
NoRetry == [key |-> 0, attempts |-> 0, due |-> FALSE]
Retries == {NoRetry} \cup
           [key : Sessions, attempts : 1..(MaxAttempts - 1), due : BOOLEAN]

\* A goroutine: its place, the configuration and the answer it works with, and
\* the attempts of the retry (0: the session is not a retry).  A local that is
\* not read again goes back to its first value.
At(l) == [at |-> l, cfg |-> Unsubscribed, seen |-> NoInfo, attempts |-> 0]
On(l, k) == [At(l) EXCEPT !.seen = k]
Idle == At("idle")
Labels == {"idle", "fetch", "stale", "look", "judge", "act", "start",
           "starting", "backoff", "unretry", "store", "put",
           "clearRetry", "clearKey", "clearDb", "drop", "post", "postpone"}
Jobs == [at : Labels, cfg : Configs \cup {Unsubscribed},
         seen : NoInfo..MaxSessions, attempts : 0..(MaxAttempts - 1)]

\* needsLiveAction: these rooms are asked for upstream, the others are read
\* from the cache of the room service.
needsLiveAction(c) == c.auto \/ c.notify

Init ==
    /\ live = 0 /\ last = 0
    /\ conf \in Configs
    /\ cache = NoInfo
    /\ rec = "idle" /\ user = FALSE
    /\ keys = 0 /\ db = 0
    /\ retry = NoRetry /\ later = FALSE /\ held = NoRetry
    /\ job = [g \in Goroutines |-> Idle]
    /\ restarts = 0
    /\ announced = [k \in Sessions |-> 0]
    /\ settled = {}

-----------------------------------------------------------------------------
(* The world: the broadcast, the user and the room service's cache.        *)

others == <<state, waiting, job, restarts, ghosts>>

GoLive ==
    /\ last < MaxSessions
    /\ last' = last + 1 /\ live' = last + 1
    /\ UNCHANGED <<conf, cache, recorder, others>>

GoOffline ==
    /\ live # 0
    /\ live' = 0
    /\ UNCHANGED <<last, conf, cache, recorder, others>>

\* Subscribe, Unsubscribe, UpdateConfig.
Configure ==
    /\ conf' \in (Configs \cup {Unsubscribed}) \ {conf}
    /\ UNCHANGED <<live, last, cache, recorder, others>>

\* The cached answer is replaced in the background, or expires.
Revalidate ==
    /\ cache' \in {live, NoInfo}
    /\ UNCHANGED <<live, last, conf, recorder, others>>

\* A Start from the API, which connects and then records, or fails.
UserStart ==
    /\ rec = "idle"
    /\ rec' = "pending" /\ user' = TRUE
    /\ UNCHANGED <<world, others>>

UserStarted ==
    /\ user
    /\ rec' \in {"recording", "idle"} /\ user' = FALSE
    /\ UNCHANGED <<world, others>>

\* The recording ends: by Stop, or because the recorder gives up.
RecordingEnds ==
    /\ rec = "recording"
    /\ rec' = "idle"
    /\ UNCHANGED <<world, user, others>>

World == GoLive \/ GoOffline \/ Configure \/ Revalidate
            \/ UserStart \/ UserStarted \/ RecordingEnds

-----------------------------------------------------------------------------
(* processRooms and what leads to it.                                      *)

Goto(g, l) == job' = [job EXCEPT ![g].at = l]
Enter(g, j) == job' = [job EXCEPT ![g] = j]

\* The end of processRooms; the retry loop still has its postponing to do.
Done(g) == job' = [job EXCEPT ![g] = IF g = Retrier THEN At("post") ELSE Idle]

\* tryStartShardAutoRecordRooms: the list of subscribed rooms.
ListRooms(g) ==
    /\ g \in Shards /\ job[g].at = "idle"
    /\ job' = [job EXCEPT ![g].cfg = conf,
                 ![g].at = IF conf = Unsubscribed THEN "stale" ELSE "fetch"]
    /\ UNCHANGED <<world, recorder, state, waiting, restarts, ghosts>>

\* retryDueRooms: the room has a due entry.
RangeDue ==
    /\ job[Retrier].at = "idle"
    /\ retry.due
    /\ job' = [job EXCEPT ![Retrier].cfg = conf,
                 ![Retrier].at = IF conf = Unsubscribed THEN "drop" ELSE "fetch"]
    /\ UNCHANGED <<world, recorder, state, waiting, restarts, ghosts>>

DropRetry ==
    /\ job[Retrier].at = "drop"
    /\ retry' = NoRetry
    /\ later' = FALSE
    /\ job' = [job EXCEPT ![Retrier] = Idle]
    /\ UNCHANGED <<world, recorder, state, held, restarts, ghosts>>

\* A forced refresh, which also fills the cache; the retry loop always asks
\* for one.
Refresh(g) ==
    /\ job[g].at = "fetch"
    /\ g = Retrier \/ needsLiveAction(job[g].cfg) \/ cache = NoInfo
    /\ cache' = live
    /\ job' = [job EXCEPT ![g].seen = live, ![g].at = "look"]
    /\ UNCHANGED <<live, last, conf, recorder, state, waiting, restarts,
                   ghosts>>

ReadCache(g) ==
    /\ job[g].at = "fetch"
    /\ g # Retrier /\ ~needsLiveAction(job[g].cfg) /\ cache # NoInfo
    /\ job' = [job EXCEPT ![g].seen = cache, ![g].at = "look"]
    /\ UNCHANGED <<world, recorder, state, waiting, restarts, ghosts>>

\* No answer: processRooms skips the room.
NoAnswer(g) ==
    /\ job[g].at = "fetch"
    /\ Done(g)
    /\ UNCHANGED <<world, recorder, state, waiting, restarts, ghosts>>

\* invalidateStaleRooms: only rooms with a key are found.
Stale(g) ==
    /\ job[g].at = "stale"
    /\ IF keys = 0 THEN Done(g) ELSE Goto(g, "clearRetry")
    /\ UNCHANGED <<world, recorder, state, waiting, restarts, ghosts>>

\* processRooms: is the room live, and is the session already known?
Look(g) ==
    /\ job[g].at = "look"
    /\ \/ job[g].seen = 0 /\ Enter(g, At("clearRetry"))
       \/ job[g].seen # 0 /\ keys = job[g].seen /\ Done(g)
       \/ job[g].seen # 0 /\ keys # job[g].seen /\ Goto(g, "judge")
    /\ UNCHANGED <<world, recorder, state, waiting, restarts, ghosts>>

\* A session of which an earlier start failed is a retry, anything else is
\* announced as new: counted, and sent to the webhooks as StreamStarted.
Judge(g) ==
    LET k == job[g].seen
        isRetry == retry.key = k
    IN  /\ job[g].at = "judge"
        /\ \/ /\ isRetry /\ ~retry.due
              /\ Done(g)
              /\ UNCHANGED announced
           \/ /\ isRetry /\ retry.due
              /\ job' = [job EXCEPT ![g].attempts = retry.attempts,
                                    ![g].at = "act"]
              /\ UNCHANGED announced
           \/ /\ ~isRetry
              /\ announced' = [announced EXCEPT
                                  ![k] = IF @ = 2 THEN 2 ELSE @ + 1]
              /\ Goto(g, "act")
        /\ UNCHANGED <<world, recorder, state, waiting, restarts, settled>>

\* Nothing is left to do for the session the goroutine looks at.
Settle(g) == settled' = settled \cup {job[g].seen}

\* An auto-record room that is not recorded yet is started.
WantsStart(g) == job[g].cfg.auto /\ rec # "recording"

ToStart(g) == Enter(g, [job[g] EXCEPT !.cfg = Unsubscribed, !.at = "start"])

\* The session will be marked.  PublishLiveState, whose content no property is
\* about, comes before that.
ToMark(g) == Enter(g, On("unretry", job[g].seen))

\* Faulty: the session is marked as soon as it is announced.
ActMarking(g) ==
    /\ job[g].at = "act"
    /\ keys' = job[g].seen
    /\ \/ WantsStart(g) /\ ToStart(g) /\ UNCHANGED settled
       \/ ~WantsStart(g) /\ ToMark(g) /\ Settle(g)
    /\ UNCHANGED <<world, recorder, db, waiting, restarts, announced>>

\* GetStatus.
Act(g) ==
    /\ job[g].at = "act"
    /\ \/ WantsStart(g) /\ ToStart(g) /\ UNCHANGED settled
       \/ ~WantsStart(g) /\ ToMark(g) /\ Settle(g)
    /\ UNCHANGED <<world, recorder, state, waiting, restarts, announced>>

\* recorder.Start: the reservation; the error that the room is recorded
\* completes the start, the error that another Start is connecting leaves the
\* session unmarked.
Start(g) ==
    /\ job[g].at = "start"
    /\ \/ /\ rec = "idle"
          /\ rec' = "pending"
          /\ Goto(g, "starting")
          /\ UNCHANGED settled
       \/ /\ rec = "pending"
          /\ Done(g)
          /\ UNCHANGED <<rec, settled>>
       \/ /\ rec = "recording"
          /\ Settle(g)
          /\ ToMark(g)
          /\ UNCHANGED rec
    /\ UNCHANGED <<world, user, state, waiting, restarts, announced>>

StartSucceeds(g) ==
    /\ job[g].at = "starting"
    /\ rec' = "recording"
    /\ Settle(g)
    /\ ToMark(g)
    /\ UNCHANGED <<world, user, state, waiting, restarts, announced>>

\* Faulty: the attempts are not counted, so the retries never end.
StartFailsUncounted(g) ==
    /\ job[g].at = "starting"
    /\ rec' = "idle"
    /\ Enter(g, On("backoff", job[g].seen))
    /\ UNCHANGED <<world, user, state, waiting, restarts, announced, settled>>

\* Faulty: one attempt too many.
StartFailsOffByOne(g) ==
    /\ job[g].at = "starting"
    /\ rec' = "idle"
    /\ \/ /\ job[g].attempts < MaxAttempts
          /\ Goto(g, "backoff")
          /\ UNCHANGED settled
       \/ Settle(g) /\ ToMark(g)
    /\ UNCHANGED <<world, user, state, waiting, restarts, announced>>

\* isTransientAutoStartError: a transient error is retried while attempts
\* are left; with a permanent one, or after the last, the session is given up.
StartFails(g) ==
    /\ job[g].at = "starting"
    /\ rec' = "idle"
    /\ \/ /\ job[g].attempts + 1 < MaxAttempts
          /\ Goto(g, "backoff")
          /\ UNCHANGED settled
       \/ Settle(g) /\ ToMark(g)
    /\ UNCHANGED <<world, user, state, waiting, restarts, announced>>

\* While the retry loop is busy: an entry stored now is not the one it found.
Stored == later' = (job[Retrier].at # "idle")

\* The entry with the next attempt number and a new delay; the session is not
\* marked.
StoreRetry(g) ==
    /\ job[g].at = "backoff"
    /\ retry' = [key |-> job[g].seen, attempts |-> job[g].attempts + 1,
                 due |-> FALSE]
    /\ Stored
    /\ Done(g)
    /\ UNCHANGED <<world, recorder, state, held, restarts, ghosts>>

DeleteRetry(g) ==
    /\ job[g].at = "unretry"
    /\ retry' = NoRetry
    /\ Goto(g, "store")
    /\ UNCHANGED <<world, recorder, state, later, held, restarts, ghosts>>

\* markSessionState: the map first, then the bucket.
StoreKey(g) ==
    /\ job[g].at = "store"
    /\ keys' = job[g].seen
    /\ Goto(g, "put")
    /\ UNCHANGED <<world, recorder, db, waiting, restarts, ghosts>>

PutKey(g) ==
    /\ job[g].at = "put"
    /\ db' = job[g].seen
    /\ Done(g)
    /\ UNCHANGED <<world, recorder, keys, waiting, restarts, ghosts>>

\* clearSessionState, of a room off air or no longer subscribed.
ClearRetry(g) ==
    /\ job[g].at = "clearRetry"
    /\ retry' = NoRetry
    /\ Goto(g, "clearKey")
    /\ UNCHANGED <<world, recorder, state, later, held, restarts, ghosts>>

\* Faulty: only the entry of the retries is dropped.
ClearKeyKeeping(g) ==
    /\ job[g].at = "clearKey"
    /\ Done(g)
    /\ UNCHANGED <<world, recorder, state, waiting, restarts, ghosts>>

ClearKey(g) ==
    /\ job[g].at = "clearKey"
    /\ keys' = 0
    /\ IF keys = 0 THEN Done(g) ELSE Goto(g, "clearDb")
    /\ UNCHANGED <<world, recorder, db, waiting, restarts, ghosts>>

ClearDb(g) ==
    /\ job[g].at = "clearDb"
    /\ db' = 0
    /\ Done(g)
    /\ UNCHANGED <<world, recorder, keys, waiting, restarts, ghosts>>

\* The rest of retryDueRooms: an entry that is still due is read ...
PostLoad ==
    /\ job[Retrier].at = "post"
    /\ IF retry.due /\ ~later
       THEN held' = retry /\ later' = later /\ Goto(Retrier, "postpone")
       ELSE held' = held /\ later' = FALSE /\ Goto(Retrier, "idle")
    /\ UNCHANGED <<world, recorder, state, retry, restarts, ghosts>>

\* ... and stored again with the longest delay.
Postpone ==
    /\ job[Retrier].at = "postpone"
    /\ retry' = [held EXCEPT !.due = FALSE]
    /\ later' = FALSE /\ held' = NoRetry
    /\ Goto(Retrier, "idle")
    /\ UNCHANGED <<world, recorder, state, restarts, ghosts>>

\* The delay of the entry passes.
Elapse ==
    /\ retry # NoRetry /\ ~retry.due
    /\ retry' = [retry EXCEPT !.due = TRUE]
    /\ UNCHANGED <<world, recorder, state, later, held, job, restarts, ghosts>>

\* The process is killed and started again: what start() reads is the bucket.
Restart ==
    /\ restarts < MaxRestarts
    /\ restarts' = restarts + 1
    /\ keys' = db
    /\ retry' = NoRetry /\ held' = NoRetry /\ later' = FALSE
    /\ cache' = NoInfo /\ rec' = "idle" /\ user' = FALSE
    /\ job' = [g \in Goroutines |-> Idle]
    /\ UNCHANGED <<live, last, conf, db, ghosts>>

Check(g) ==
    \/ ListRooms(g) \/ Refresh(g) \/ ReadCache(g) \/ NoAnswer(g) \/ Stale(g)
    \/ Look(g) \/ Judge(g) \/ Act(g) \/ Start(g) \/ StartSucceeds(g)
    \/ StartFails(g) \/ StoreRetry(g) \/ DeleteRetry(g)
    \/ StoreKey(g) \/ PutKey(g) \/ ClearRetry(g) \/ ClearKey(g) \/ ClearDb(g)

RetryLoop == RangeDue \/ DropRetry \/ PostLoad \/ Postpone

Next ==
    \/ World
    \/ \E g \in Goroutines : Check(g)
    \/ RetryLoop
    \/ Elapse
    \/ Restart

Spec == Init /\ [][Next]_vars

\* What the scheduling guarantees: the shard loop is signalled again and
\* again, the retry loop has a ticker, a delay passes, a goroutine inside
\* processRooms goes on, a pending Start returns (it has timeouts), the room
\* service answers in the end, and an outdated entry of its cache is replaced
\* or reaches its hard TTL.
Fairness ==
    /\ \A g \in Goroutines :
          WF_vars(Check(g)) /\ SF_vars(Refresh(g) \/ ReadCache(g))
    /\ WF_vars(cache \notin {live, NoInfo} /\ Revalidate)
    /\ WF_vars(RetryLoop)
    /\ WF_vars(Elapse)
    /\ WF_vars(UserStarted)

FairSpec == Spec /\ Fairness

-----------------------------------------------------------------------------
\* Types.  A goroutine past the look at the room has a session in hand, a
\* failed start never stores more attempts than there are, and the postponed
\* copy is an entry.
TypeOK ==
    /\ live \in 0..MaxSessions /\ last \in 0..MaxSessions
    /\ conf \in Configs \cup {Unsubscribed}
    /\ cache \in NoInfo..MaxSessions
    /\ rec \in {"idle", "pending", "recording"} /\ user \in BOOLEAN
    /\ keys \in 0..MaxSessions /\ db \in 0..MaxSessions
    /\ retry \in Retries /\ later \in BOOLEAN /\ held \in Retries
    /\ job \in [Goroutines -> Jobs]
    /\ restarts \in 0..MaxRestarts
    /\ announced \in [Sessions -> 0..2]
    /\ settled \subseteq Sessions
    /\ \A g \in Goroutines :
          job[g].at \in {"judge", "act", "start", "starting", "backoff",
                         "unretry", "store", "put"} => job[g].seen \in Sessions
    /\ job[Retrier].at = "postpone" => held # NoRetry

\* No session is skipped: a session whose key is in the map or in the
\* database, so that every later check and every later process leaves it
\* alone, has been announced, and its recording has been started, was
\* running, or has been given up.  A crash between the steps, a stale answer
\* and the two loops in each other's way do not change that.
NothingSkipped ==
    \A k \in Sessions :
        keys = k \/ db = k => k \in settled /\ announced[k] > 0

\* A broadcast that stays on air in a room that stays subscribed is dealt
\* with in the end, however often its start fails: retries come to an end.
\* (Unless a user keeps starting the room: while such a Start is connecting
\* the session is left for a later check.)
EventuallySettled ==
    \A k \in Sessions :
        <>[](live = k /\ conf # Unsubscribed /\ ~user) => <>(keys = k)

\* A room that stays unsubscribed leaves nothing behind in memory: no retry
\* keeps asking for it and a later subscription starts afresh.
EventuallyForgotten ==
    <>[](conf = Unsubscribed) => <>[](keys = 0 /\ retry = NoRetry)

\* "retry state should be cleared after giving up" (check_test.go): a session
\* that is marked has no entry left in autoStartRetry.
MarkedHasNoRetry ==
    \A k \in Sessions : ~(keys = k /\ retry.key = k)

\* "LiveSessionDetected records a newly detected live session"
\* (metrics_live.go): without a restart a session is counted, and
\* StreamStarted sent, once.
AnnouncedOnce ==
    restarts = 0 => \A k \in Sessions : announced[k] <= 1
=============================================================================
