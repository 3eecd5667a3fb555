--------------------------- MODULE SubCheckProofs ---------------------------
(***************************************************************************)
(* Proofs about the subscription checker, module SubCheck: no session is    *)
(* skipped, whatever the shard loops and the retry loop do in between, for *)
(* any number of loops, sessions, attempts and restarts.                   *)
(*                                                                         *)
(* What carries the proof is what a goroutine knows when it comes to the   *)
(* steps that mark a session: past the judgement the session it has in     *)
(* hand has been announced, and from the deletion of the retry on it is    *)
(* settled.  A session that waits in autoStartRetry, or in the copy the    *)
(* retry loop is about to store, has been announced too, which is why a    *)
(* retry need not announce it again.                                       *)
(***************************************************************************)
EXTENDS SubCheck, TLAPS

HasSession == {"judge", "act", "start", "starting", "backoff", "unretry", "store", "put"}
Marking == {"unretry", "store", "put"}

\* What holds of a goroutine, given what has been announced and settled.
Ready(j, ann, set) ==
    /\ j \in Jobs
    /\ (j.at = "look" => j.seen # NoInfo)
    /\ (j.at \in HasSession => j.seen \in Sessions)
    /\ (j.at \in HasSession \ {"judge"} => ann[j.seen] > 0)
    /\ (j.at \in Marking => j.seen \in set)
    /\ (j.at = "backoff" => j.attempts + 1 < MaxAttempts)

\* What holds of an entry of autoStartRetry.
Waits(r, ann) == r \in Retries /\ (r.key # 0 => r.key \in Sessions /\ ann[r.key] > 0)

Outside ==
    /\ live \in 0..MaxSessions /\ last \in 0..MaxSessions
    /\ conf \in Configs \cup {Unsubscribed}
    /\ cache \in NoInfo..MaxSessions
    /\ rec \in {"idle", "pending", "recording"} /\ user \in BOOLEAN
    /\ restarts \in 0..MaxRestarts

Marks ==
    /\ keys \in 0..MaxSessions /\ db \in 0..MaxSessions
    /\ announced \in [Sessions -> 0..2]
    /\ settled \subseteq Sessions
    /\ NothingSkipped

Entries ==
    /\ Waits(retry, announced) /\ Waits(held, announced)
    /\ later \in BOOLEAN
    /\ (job[Retrier].at = "postpone" => held # NoRetry)

Loops ==
    /\ job \in [Goroutines -> Jobs]
    /\ \A g \in Goroutines : Ready(job[g], announced, settled)

CheckInv == Outside /\ Marks /\ Entries /\ Loops

LEMMA CheckInvTypes == CheckInv => TypeOK
BY SubCheckAssumption DEF CheckInv, Outside, Marks, Entries, Loops, Ready, Waits, TypeOK, HasSession

LEMMA CheckStarts == Init => CheckInv
<1>1. SUFFICES ASSUME Init PROVE CheckInv
  OBVIOUS
<1>2. Outside
  <2>1. 0 \in 0..MaxSessions /\ 0 \in 0..MaxRestarts /\ NoInfo \in NoInfo..MaxSessions
    BY SubCheckAssumption DEF NoInfo
  <2> QED BY <1>1, <2>1 DEF Init, Outside
<1>6. Marks
  BY <1>1, SubCheckAssumption DEF Init, Marks, NothingSkipped, Sessions
<1>3. Idle \in Jobs /\ Idle.at = "idle"
  BY SubCheckAssumption DEF Idle, At, Jobs, Labels, NoInfo
<1>4. Loops
  BY <1>1, <1>3 DEF Init, Loops, Ready, HasSession, Marking
<1>5. Entries
  BY <1>1, <1>3 DEF Init, Entries, Waits, Retries, NoRetry, Goroutines, Retrier
<1> QED BY <1>2, <1>4, <1>5, <1>6 DEF CheckInv

-----------------------------------------------------------------------------
(* What a step of one goroutine leaves of the others.                      *)

Grows == /\ announced' \in [Sessions -> 0..2]
         /\ settled' \subseteq Sessions
         /\ settled \subseteq settled'
         /\ \A k \in Sessions : announced[k] > 0 => announced'[k] > 0

LEMMA ReadyStays ==
  ASSUME Marks, Grows, NEW j, Ready(j, announced, settled) PROVE Ready(j, announced', settled')
BY DEF Ready, Grows, HasSession, Marking

LEMMA WaitsStays == ASSUME Grows, NEW r, Waits(r, announced) PROVE Waits(r, announced')
BY DEF Waits, Grows

LEMMA LoopsStay ==
  ASSUME CheckInv, Grows, NEW g \in Goroutines, NEW j,
         job' = [job EXCEPT ![g] = j], Ready(j, announced', settled')
  PROVE  Loops'
<1>1. j \in Jobs /\ job' \in [Goroutines -> Jobs]
  BY DEF CheckInv, Loops, Ready
<1>2. ASSUME NEW h \in Goroutines PROVE Ready(job'[h], announced', settled')
  <2>1. Ready(job[h], announced', settled')
    BY ReadyStays DEF CheckInv, Loops
  <2>2. job'[h] = IF h = g THEN j ELSE job[h]
    BY DEF CheckInv, Loops
  <2> QED BY <2>1, <2>2
<1> QED BY <1>1, <1>2 DEF Loops

\* The marks of sessions stay good: what is marked anew is settled.
LEMMA MarksStay ==
  ASSUME CheckInv, Grows,
         keys' \in {keys, db, 0} \/ (keys' \in Sessions /\ keys' \in settled' /\ announced'[keys'] > 0),
         db' \in {db, 0} \/ (db' \in Sessions /\ db' \in settled' /\ announced'[db'] > 0)
  PROVE  Marks'
BY SubCheckAssumption DEF CheckInv, Marks, Grows, NothingSkipped, Sessions

-----------------------------------------------------------------------------
(* The steps.                                                              *)

LEMMA Unmoved ==
  ASSUME CheckInv, UNCHANGED <<announced, settled>> PROVE Grows
BY DEF CheckInv, Marks, Grows

LEMMA WorldSteps == ASSUME CheckInv, World \/ UNCHANGED vars PROVE CheckInv'
<1>1. UNCHANGED <<state, waiting, job, ghosts>> /\ restarts' = restarts
  BY DEF World, GoLive, GoOffline, Configure, Revalidate, UserStart, UserStarted, RecordingEnds, others,
         recorder, vars
<1>2. Marks' /\ Entries' /\ Loops'
  BY <1>1 DEF CheckInv, Marks, NothingSkipped, Entries, Loops, state, waiting, ghosts
<1>3. Outside'
  <2>1. CASE GoLive
    BY <1>1, <2>1, SubCheckAssumption DEF CheckInv, Outside, GoLive, recorder
  <2>2. CASE GoOffline
    BY <1>1, <2>2, SubCheckAssumption DEF CheckInv, Outside, GoOffline, recorder
  <2>3. CASE Configure
    BY <1>1, <2>3 DEF CheckInv, Outside, Configure, recorder
  <2>4. CASE Revalidate
    BY <1>1, <2>4, SubCheckAssumption DEF CheckInv, Outside, Revalidate, recorder, NoInfo
  <2>5. CASE UserStart
    BY <1>1, <2>5 DEF CheckInv, Outside, UserStart, world
  <2>6. CASE UserStarted
    BY <1>1, <2>6 DEF CheckInv, Outside, UserStarted, world
  <2>7. CASE RecordingEnds
    BY <1>1, <2>7 DEF CheckInv, Outside, RecordingEnds, world
  <2>8. CASE UNCHANGED vars
    BY <1>1, <2>8 DEF CheckInv, Outside, vars, world, recorder
  <2> QED BY <2>1, <2>2, <2>3, <2>4, <2>5, <2>6, <2>7, <2>8 DEF World
<1> QED BY <1>2, <1>3 DEF CheckInv

\* A goroutine that works with no session in hand, or with one that is only
\* looked at, is ready whatever has been announced.
LEMMA Nowhere ==
  ASSUME NEW l \in {"idle", "clearRetry", "post", "fetch", "stale"}, NEW ann, NEW set
  PROVE  At(l) \in Jobs /\ Ready(At(l), ann, set)
<1>1. At(l) \in Jobs /\ At(l).at = l
  BY SubCheckAssumption DEF At, Jobs, Labels, NoInfo
<1> QED BY <1>1 DEF Ready, HasSession, Marking

\* A goroutine goes on with the same locals.
LEMMA Moves ==
  ASSUME CheckInv, NEW g \in Goroutines, NEW l \in Labels, Goto(g, l)
  PROVE  /\ [job[g] EXCEPT !.at = l] \in Jobs
         /\ [job[g] EXCEPT !.at = l].at = l
         /\ [job[g] EXCEPT !.at = l].seen = job[g].seen
         /\ [job[g] EXCEPT !.at = l].attempts = job[g].attempts
         /\ job' = [job EXCEPT ![g] = [job[g] EXCEPT !.at = l]]
BY DEF CheckInv, Loops, Jobs, Goto

\* The same, for a record that has a name.
LEMMA MovesTo ==
  ASSUME CheckInv, NEW g \in Goroutines, NEW l \in Labels, Goto(g, l),
         NEW j, j = [job[g] EXCEPT !.at = l]
  PROVE  /\ job' = [job EXCEPT ![g] = j] /\ j \in Jobs /\ j.at = l /\ j.seen = job[g].seen
         /\ j.attempts = job[g].attempts
BY Moves, Zenon

\* The end of processRooms.
LEMMA Ends ==
  ASSUME CheckInv, Grows, NEW g \in Goroutines, Done(g) PROVE Loops' /\ job'[Retrier].at \in {"post", job[Retrier].at}
<1>1. PICK j : j = IF g = Retrier THEN At("post") ELSE Idle
  OBVIOUS
<1>2. Ready(j, announced', settled')
  BY <1>1, Nowhere DEF Idle
<1>3. job' = [job EXCEPT ![g] = j]
  BY <1>1 DEF Done
<1>4. Loops'
  BY <1>2, <1>3, LoopsStay
<1>5. job'[Retrier].at \in {"post", job[Retrier].at}
  BY <1>1, <1>3 DEF CheckInv, Loops, Goroutines, At
<1> QED BY <1>4, <1>5

\* The copy the retry loop is about to store is looked at nowhere else.
LEMMA EntriesStay ==
  ASSUME CheckInv, Grows, Waits(retry', announced'), held' = held, later' \in BOOLEAN,
         job'[Retrier].at # "postpone" \/ job'[Retrier].at = job[Retrier].at
  PROVE  Entries'
BY WaitsStays DEF CheckInv, Entries

LEMMA ListSteps ==
  ASSUME CheckInv, NEW g \in Goroutines, ListRooms(g) \/ Refresh(g) \/ ReadCache(g) PROVE CheckInv'
<1>1. PICK j \in Jobs : /\ job' = [job EXCEPT ![g] = j]
                        /\ j.at \in {"fetch", "stale", "look"}
                        /\ (j.at = "look" => j.seen # NoInfo)
  <2>1. CASE ListRooms(g)
    <3>1. PICK j : j = [job[g] EXCEPT !.cfg = conf, !.at = IF conf = Unsubscribed THEN "stale" ELSE "fetch"]
      OBVIOUS
    <3>2. j \in Jobs /\ j.at \in {"fetch", "stale"}
      BY <3>1 DEF CheckInv, Loops, Outside, Jobs, Labels
    <3>3. job' = [job EXCEPT ![g] = j]
      BY <2>1, <3>1 DEF ListRooms
    <3> QED BY <3>2, <3>3
  <2>2. CASE Refresh(g)
    <3>1. PICK j : j = [job[g] EXCEPT !.seen = live, !.at = "look"]
      OBVIOUS
    <3>2. live \in NoInfo..MaxSessions /\ live # NoInfo
      BY SubCheckAssumption DEF CheckInv, Outside, NoInfo
    <3>3. j \in Jobs /\ j.at = "look" /\ j.seen # NoInfo
      BY <3>1, <3>2 DEF CheckInv, Loops, Jobs, Labels
    <3>4. job' = [job EXCEPT ![g] = j]
      BY <2>2, <3>1 DEF Refresh
    <3> QED BY <3>3, <3>4
  <2>3. CASE ReadCache(g)
    <3>1. PICK j : j = [job[g] EXCEPT !.seen = cache, !.at = "look"]
      OBVIOUS
    <3>2. cache \in NoInfo..MaxSessions /\ cache # NoInfo
      BY <2>3 DEF CheckInv, Outside, ReadCache
    <3>3. j \in Jobs /\ j.at = "look" /\ j.seen # NoInfo
      BY <3>1, <3>2 DEF CheckInv, Loops, Jobs, Labels
    <3>4. job' = [job EXCEPT ![g] = j]
      BY <2>3, <3>1 DEF ReadCache
    <3> QED BY <3>3, <3>4
  <2> QED BY <2>1, <2>2, <2>3
<1>2. /\ UNCHANGED <<live, last, conf, rec, user, restarts, keys, db, retry, later, held, announced, settled>>
      /\ cache' \in {cache, live}
  BY DEF ListRooms, Refresh, ReadCache, world, recorder, state, waiting, ghosts
<1>3. Grows
  BY <1>2, Unmoved
<1>4. Outside'
  BY <1>2, SubCheckAssumption DEF CheckInv, Outside, NoInfo
<1>5. Marks'
  BY <1>2, <1>3, MarksStay
<1>6. Loops'
  <2>1. Ready(j, announced', settled')
    BY <1>1 DEF Ready, HasSession, Marking
  <2> QED BY <1>1, <1>3, <2>1, LoopsStay
<1>7. job'[Retrier].at # "postpone" \/ job'[Retrier].at = job[Retrier].at
  BY <1>1 DEF CheckInv, Loops
<1>8. Waits(retry', announced') /\ held' = held /\ later' \in BOOLEAN
  BY <1>2, <1>3, WaitsStays DEF CheckInv, Entries
<1> QED BY <1>3, <1>4, <1>5, <1>6, <1>7, <1>8, EntriesStay DEF CheckInv

\* The steps that change nothing but where the goroutine is.
LEMMA QuietSteps ==
  ASSUME CheckInv, NEW g \in Goroutines, NoAnswer(g) \/ Stale(g) \/ Look(g) PROVE CheckInv'
<1>1. UNCHANGED <<live, last, conf, cache, rec, user, restarts, keys, db, retry, later, held, announced, settled>>
  BY DEF NoAnswer, Stale, Look, world, recorder, state, waiting, ghosts
<1>2. Grows
  BY <1>1, Unmoved
<1>3. Loops' /\ (job'[Retrier].at # "postpone" \/ job'[Retrier].at = job[Retrier].at)
  <2>1. CASE Done(g)
    BY <1>2, <2>1, Ends
  <2>2. CASE Goto(g, "clearRetry") \/ Enter(g, At("clearRetry"))
    <3>1. PICK j : j = IF Goto(g, "clearRetry") THEN [job[g] EXCEPT !.at = "clearRetry"] ELSE At("clearRetry")
      OBVIOUS
    <3>2. job' = [job EXCEPT ![g] = j] /\ j \in Jobs /\ j.at = "clearRetry"
      <4>1. CASE Goto(g, "clearRetry")
        <5>1. "clearRetry" \in Labels
          BY DEF Labels
        <5> QED BY <3>1, <4>1, <5>1, Moves
      <4>2. CASE ~Goto(g, "clearRetry")
        <5>1. j = At("clearRetry") /\ At("clearRetry") \in Jobs
          BY <3>1, <4>2, Nowhere
        <5> QED BY <2>2, <4>2, <5>1 DEF Enter, At
      <4> QED BY <4>1, <4>2
    <3>3. Ready(j, announced', settled')
      BY <3>2 DEF Ready, HasSession, Marking
    <3>4. Loops'
      BY <1>2, <3>2, <3>3, LoopsStay
    <3> QED BY <3>2, <3>4 DEF CheckInv, Loops
  <2>3. CASE job[g].at = "look" /\ job[g].seen # 0 /\ Goto(g, "judge")
    <3>1. PICK j : j = [job[g] EXCEPT !.at = "judge"]
      OBVIOUS
    <3>2. job' = [job EXCEPT ![g] = j] /\ j \in Jobs /\ j.at = "judge" /\ j.seen = job[g].seen
      <4>1. "judge" \in Labels
        BY DEF Labels
      <4> QED BY <2>3, <3>1, <4>1, MovesTo
    <3>3. j.seen \in Sessions
      <4>1. job[g] \in Jobs /\ job[g].seen # NoInfo /\ job[g].seen # 0
        BY <2>3 DEF CheckInv, Loops, Ready
      <4>2. job[g].seen \in NoInfo..MaxSessions
        BY <4>1 DEF Jobs
      <4> QED BY <3>2, <4>1, <4>2, SubCheckAssumption DEF Sessions, NoInfo
    <3>4. Ready(j, announced', settled')
      BY <3>2, <3>3 DEF Ready, HasSession, Marking
    <3>5. Loops'
      BY <1>2, <3>2, <3>4, LoopsStay
    <3> QED BY <3>2, <3>5 DEF CheckInv, Loops
  <2> QED BY <2>1, <2>2, <2>3 DEF NoAnswer, Stale, Look
<1>4. Outside' /\ Waits(retry', announced') /\ later' \in BOOLEAN
  BY <1>1, <1>2, WaitsStays DEF CheckInv, Outside, Entries
<1> QED BY <1>1, <1>2, <1>3, <1>4, MarksStay, EntriesStay DEF CheckInv

-----------------------------------------------------------------------------
(* The judgement, the start and the marks.                                 *)

LEMMA GoesOn ==
  ASSUME CheckInv, Grows, Outside', Marks', Waits(retry', announced'), held' = held, later' \in BOOLEAN,
         NEW g \in Goroutines, NEW j, job' = [job EXCEPT ![g] = j], j.at # "postpone",
         Ready(j, announced', settled')
  PROVE  CheckInv'
<1>1. Loops'
  BY LoopsStay
<1>2. job'[Retrier].at # "postpone" \/ job'[Retrier].at = job[Retrier].at
  BY DEF CheckInv, Loops
<1> QED BY <1>1, <1>2, EntriesStay DEF CheckInv

LEMMA Leaves ==
  ASSUME CheckInv, Grows, Outside', Marks', Waits(retry', announced'), held' = held, later' \in BOOLEAN,
         NEW g \in Goroutines, Done(g)
  PROVE  CheckInv'
<1>1. Loops' /\ job'[Retrier].at \in {"post", job[Retrier].at}
  BY Ends
<1> QED BY <1>1, EntriesStay DEF CheckInv

\* What is known of the session in hand.
LEMMA InHand ==
  ASSUME CheckInv, NEW g \in Goroutines
  PROVE  /\ job[g] \in Jobs
         /\ (job[g].at \in HasSession => job[g].seen \in Sessions)
         /\ (job[g].at \in HasSession \ {"judge"} => announced[job[g].seen] > 0)
         /\ (job[g].at \in Marking => job[g].seen \in settled)
         /\ (job[g].at = "backoff" => job[g].attempts + 1 < MaxAttempts)
BY DEF CheckInv, Loops, Ready

LEMMA JudgeSteps == ASSUME CheckInv, NEW g \in Goroutines, Judge(g) PROVE CheckInv'
<1> DEFINE k == job[g].seen
<1>1. /\ UNCHANGED <<live, last, conf, cache, rec, user, restarts, keys, db, retry, later, held, settled>>
      /\ job[g].at = "judge"
  BY DEF Judge, world, recorder, state, waiting
<1>2. k \in Sessions /\ job[g] \in Jobs
  BY <1>1, InHand DEF HasSession
<1>3. Grows
  <2>1. announced' = announced \/ announced' = [announced EXCEPT ![k] = IF @ = 2 THEN 2 ELSE @ + 1]
    BY DEF Judge
  <2>2. announced \in [Sessions -> 0..2] /\ settled \subseteq Sessions
    BY DEF CheckInv, Marks
  <2> QED BY <1>1, <1>2, <2>1, <2>2 DEF Grows
<1>4. Outside'
  BY <1>1 DEF CheckInv, Outside
<1>5. Marks'
  BY <1>1, <1>3, MarksStay
<1>6. Waits(retry', announced') /\ held' = held /\ later' \in BOOLEAN
  BY <1>1, <1>3, WaitsStays DEF CheckInv, Entries
<1>7. CASE Done(g)
  BY <1>3, <1>4, <1>5, <1>6, <1>7, Leaves
<1>8. CASE /\ retry.key = k /\ retry.due
           /\ job' = [job EXCEPT ![g].attempts = retry.attempts, ![g].at = "act"]
           /\ UNCHANGED announced
  <2>1. PICK j : j = [job[g] EXCEPT !.attempts = retry.attempts, !.at = "act"]
    OBVIOUS
  <2>2. job' = [job EXCEPT ![g] = j]
    BY <1>8, <2>1
  <2>3. retry.attempts \in 0..(MaxAttempts - 1)
    BY SubCheckAssumption DEF CheckInv, Entries, Waits, Retries, NoRetry
  <2>4. j \in Jobs /\ j.at = "act" /\ j.seen = k
    BY <1>2, <2>1, <2>3 DEF Jobs, Labels
  <2>5. announced'[k] > 0
    BY <1>2, <1>8 DEF CheckInv, Entries, Waits, Sessions
  <2>6. Ready(j, announced', settled')
    BY <1>2, <2>4, <2>5 DEF Ready, Marking, HasSession
  <2> QED BY <1>3, <1>4, <1>5, <1>6, <2>2, <2>4, <2>6, GoesOn
<1>9. CASE /\ announced' = [announced EXCEPT ![k] = IF @ = 2 THEN 2 ELSE @ + 1]
           /\ Goto(g, "act")
  <2>1. PICK j : j = [job[g] EXCEPT !.at = "act"]
    OBVIOUS
  <2>2. job' = [job EXCEPT ![g] = j] /\ j \in Jobs /\ j.at = "act" /\ j.seen = k
    <3>1. "act" \in Labels
      BY DEF Labels
    <3> QED BY <1>9, <2>1, <3>1, MovesTo
  <2>3. announced[k] \in 0..2
    BY <1>2 DEF CheckInv, Marks
  <2>4. announced'[k] > 0
    BY <1>2, <1>9, <2>3 DEF CheckInv, Marks
  <2>5. Ready(j, announced', settled')
    BY <1>2, <2>2, <2>4 DEF Ready, Marking, HasSession
  <2> QED BY <1>3, <1>4, <1>5, <1>6, <2>2, <2>5, GoesOn
<1> QED BY <1>7, <1>8, <1>9 DEF Judge

\* Going on with the same session, to any place that no mark depends on.
LEMMA Keeps ==
  ASSUME CheckInv, Grows, NEW g \in Goroutines, job[g].at \in HasSession \ {"judge"},
         NEW j \in Jobs, j.seen = job[g].seen, j.at \notin {"look", "backoff"},
         job[g].seen \in settled' \/ j.at \notin Marking
  PROVE  Ready(j, announced', settled')
BY InHand DEF Ready, Grows

\* The session of a goroutine that is about to mark it.
LEMMA Handed ==
  ASSUME CheckInv, NEW g \in Goroutines, job[g].at \in HasSession
  PROVE  /\ On("unretry", job[g].seen) \in Jobs
         /\ On("unretry", job[g].seen).at = "unretry"
         /\ On("unretry", job[g].seen).seen = job[g].seen
<1>1. job[g].seen \in NoInfo..MaxSessions
  BY InHand DEF Jobs
<1> QED BY <1>1, SubCheckAssumption DEF On, At, Jobs, Labels

\* A session that is settled goes on to be marked.
LEMMA Settles ==
  ASSUME CheckInv, NEW g \in Goroutines, job[g].at \in HasSession \ {"judge"}, Settle(g), ToMark(g),
         UNCHANGED <<keys, db, retry, later, held, announced>>, Outside'
  PROVE  CheckInv'
<1>1. PICK j : j = On("unretry", job[g].seen)
  OBVIOUS
<1>2. job' = [job EXCEPT ![g] = j] /\ j \in Jobs /\ j.at = "unretry" /\ j.seen = job[g].seen
  BY <1>1, Handed DEF ToMark, Enter
<1>3. Grows
  <2>1. job[g].seen \in Sessions
    BY InHand
  <2> QED BY <2>1 DEF CheckInv, Marks, Grows, Settle
<1>4. Ready(j, announced', settled')
  BY <1>2, <1>3, Keeps DEF Settle
<1>5. Marks' /\ Waits(retry', announced')
  BY <1>3, MarksStay, WaitsStays DEF CheckInv, Entries
<1> QED BY <1>2, <1>3, <1>4, <1>5, GoesOn DEF CheckInv, Entries

\* The session in hand is taken to another step.
LEMMA Carries ==
  ASSUME CheckInv, NEW g \in Goroutines, job[g].at \in HasSession \ {"judge"},
         NEW j \in Jobs, j.seen = job[g].seen, j.at \notin {"look", "backoff", "postpone"} \cup Marking,
         job' = [job EXCEPT ![g] = j],
         UNCHANGED <<keys, db, retry, later, held, announced, settled>>, Outside'
  PROVE  CheckInv'
<1>1. Grows
  BY Unmoved
<1>2. Ready(j, announced', settled')
  BY <1>1, Keeps
<1>3. Marks' /\ Waits(retry', announced')
  BY <1>1, MarksStay, WaitsStays DEF CheckInv, Entries
<1> QED BY <1>1, <1>2, <1>3, GoesOn DEF CheckInv, Entries

\* A step that ends processRooms and stores nothing.
LEMMA LetsGo ==
  ASSUME CheckInv, NEW g \in Goroutines, Done(g),
         UNCHANGED <<keys, db, retry, later, held, announced, settled>>, Outside'
  PROVE  CheckInv'
<1>1. Grows
  BY Unmoved
<1>2. Marks' /\ Waits(retry', announced')
  BY <1>1, MarksStay, WaitsStays DEF CheckInv, Entries
<1> QED BY <1>1, <1>2, Leaves DEF CheckInv, Entries

LEMMA ActSteps == ASSUME CheckInv, NEW g \in Goroutines, Act(g) PROVE CheckInv'
<1>1. /\ job[g].at = "act"
      /\ UNCHANGED <<live, last, conf, cache, rec, user, restarts, keys, db, retry, later, held, announced>>
  BY DEF Act, world, recorder, state, waiting
<1>2. Outside' /\ job[g].at \in HasSession \ {"judge"}
  BY <1>1 DEF CheckInv, Outside, HasSession
<1>3. CASE ToStart(g) /\ UNCHANGED settled
  <2>1. PICK j : j = [job[g] EXCEPT !.cfg = Unsubscribed, !.at = "start"]
    OBVIOUS
  <2>2. job' = [job EXCEPT ![g] = j]
    BY <1>3, <2>1 DEF ToStart, Enter
  <2>3. j \in Jobs /\ j.at = "start" /\ j.seen = job[g].seen
    BY <2>1, InHand DEF Jobs, Labels
  <2> QED BY <1>1, <1>2, <1>3, <2>2, <2>3, Carries DEF Marking
<1>4. CASE ToMark(g) /\ Settle(g)
  BY <1>1, <1>2, <1>4, Settles
<1> QED BY <1>3, <1>4 DEF Act

LEMMA StartSteps == ASSUME CheckInv, NEW g \in Goroutines, Start(g) PROVE CheckInv'
<1>1. /\ job[g].at = "start" /\ rec' \in {rec, "pending"}
      /\ UNCHANGED <<live, last, conf, cache, user, restarts, keys, db, retry, later, held, announced>>
  BY DEF Start, world, state, waiting
<1>2. Outside' /\ job[g].at \in HasSession \ {"judge"}
  BY <1>1 DEF CheckInv, Outside, HasSession
<1>3. CASE Goto(g, "starting") /\ UNCHANGED settled
  <2>1. PICK j : j = [job[g] EXCEPT !.at = "starting"]
    OBVIOUS
  <2>2. job' = [job EXCEPT ![g] = j] /\ j \in Jobs /\ j.at = "starting" /\ j.seen = job[g].seen
    <3>1. "starting" \in Labels
      BY DEF Labels
    <3> QED BY <1>3, <2>1, <3>1, MovesTo
  <2> QED BY <1>1, <1>2, <1>3, <2>2, Carries DEF Marking
<1>4. CASE Done(g) /\ UNCHANGED settled
  BY <1>1, <1>2, <1>4, LetsGo
<1>5. CASE ToMark(g) /\ Settle(g)
  BY <1>1, <1>2, <1>5, Settles
<1> QED BY <1>3, <1>4, <1>5 DEF Start

LEMMA StartedSteps == ASSUME CheckInv, NEW g \in Goroutines, StartSucceeds(g) \/ StartFails(g) PROVE CheckInv'
<1>1. /\ job[g].at = "starting" /\ rec' \in {"recording", "idle"}
      /\ UNCHANGED <<live, last, conf, cache, user, restarts, keys, db, retry, later, held, announced>>
  BY DEF StartSucceeds, StartFails, world, state, waiting
<1>2. Outside' /\ job[g].at \in HasSession \ {"judge"}
  BY <1>1 DEF CheckInv, Outside, HasSession
<1>3. CASE ToMark(g) /\ Settle(g)
  BY <1>1, <1>2, <1>3, Settles
<1>4. CASE job[g].attempts + 1 < MaxAttempts /\ Goto(g, "backoff") /\ UNCHANGED settled
  <2>1. PICK j : j = [job[g] EXCEPT !.at = "backoff"]
    OBVIOUS
  <2>2. /\ job' = [job EXCEPT ![g] = j] /\ j \in Jobs /\ j.at = "backoff" /\ j.seen = job[g].seen
        /\ j.attempts = job[g].attempts
    <3>1. "backoff" \in Labels
      BY DEF Labels
    <3> QED BY <1>4, <2>1, <3>1, MovesTo
  <2>3. Grows
    BY <1>1, <1>4, Unmoved
  <2>4. Ready(j, announced', settled')
    BY <1>1, <1>2, <1>4, <2>2, InHand DEF Ready, Marking
  <2>5. Marks' /\ Waits(retry', announced')
    BY <1>1, <2>3, MarksStay, WaitsStays DEF CheckInv, Entries
  <2> QED BY <1>1, <1>2, <2>2, <2>3, <2>4, <2>5, GoesOn DEF CheckInv, Entries
<1> QED BY <1>3, <1>4 DEF StartSucceeds, StartFails

LEMMA StoreRetrySteps == ASSUME CheckInv, NEW g \in Goroutines, StoreRetry(g) PROVE CheckInv'
<1>1. /\ job[g].at = "backoff" /\ Done(g)
      /\ retry' = [key |-> job[g].seen, attempts |-> job[g].attempts + 1, due |-> FALSE]
      /\ later' \in BOOLEAN
      /\ UNCHANGED <<live, last, conf, cache, rec, user, restarts, keys, db, held, announced, settled>>
  BY DEF StoreRetry, Stored, world, recorder, state, ghosts
<1>2. Grows
  BY <1>1, Unmoved
<1>3. job[g].seen \in Sessions /\ announced[job[g].seen] > 0 /\ job[g].attempts + 1 \in 1..(MaxAttempts - 1)
  BY <1>1, InHand, SubCheckAssumption DEF HasSession, Jobs
<1>4. Waits(retry', announced')
  BY <1>1, <1>3 DEF Waits, Retries
<1>5. Outside' /\ Marks'
  BY <1>1, <1>2, MarksStay DEF CheckInv, Outside
<1> QED BY <1>1, <1>2, <1>4, <1>5, Leaves

LEMMA NoEntry == ASSUME NEW ann PROVE Waits(NoRetry, ann)
BY DEF Waits, NoRetry, Retries

LEMMA DeleteRetrySteps ==
  ASSUME CheckInv, NEW g \in Goroutines, DeleteRetry(g) \/ ClearRetry(g) PROVE CheckInv'
<1>1. /\ UNCHANGED <<live, last, conf, cache, rec, user, restarts, keys, db, held, later, announced, settled>>
      /\ retry' = NoRetry
  BY DEF DeleteRetry, ClearRetry, world, recorder, state, ghosts
<1>2. Grows
  BY <1>1, Unmoved
<1>3. Outside' /\ Marks' /\ Waits(retry', announced') /\ later' \in BOOLEAN
  BY <1>1, <1>2, MarksStay, NoEntry DEF CheckInv, Outside, Entries
<1>4. CASE DeleteRetry(g)
  <2>1. PICK j : j = [job[g] EXCEPT !.at = "store"]
    OBVIOUS
  <2>2. job' = [job EXCEPT ![g] = j] /\ j \in Jobs /\ j.at = "store" /\ j.seen = job[g].seen
    <3>1. "store" \in Labels
      BY DEF Labels
    <3>2. Goto(g, "store")
      BY <1>4 DEF DeleteRetry
    <3> QED BY <2>1, <3>1, <3>2, MovesTo
  <2>3. job[g].at \in HasSession \ {"judge"} /\ job[g].seen \in settled'
    BY <1>1, <1>4, InHand DEF DeleteRetry, HasSession, Marking
  <2>4. Ready(j, announced', settled')
    BY <1>2, <2>2, <2>3, Keeps
  <2> QED BY <1>1, <1>2, <1>3, <2>2, <2>4, GoesOn
<1>5. CASE ClearRetry(g)
  <2>1. PICK j : j = [job[g] EXCEPT !.at = "clearKey"]
    OBVIOUS
  <2>2. job' = [job EXCEPT ![g] = j] /\ j \in Jobs /\ j.at = "clearKey"
    <3>1. "clearKey" \in Labels
      BY DEF Labels
    <3>2. Goto(g, "clearKey")
      BY <1>5 DEF ClearRetry
    <3> QED BY <2>1, <3>1, <3>2, MovesTo
  <2>3. Ready(j, announced', settled')
    BY <2>2 DEF Ready, HasSession, Marking
  <2> QED BY <1>1, <1>2, <1>3, <2>2, <2>3, GoesOn
<1> QED BY <1>4, <1>5

\* The steps that mark a session, or take its mark away.
LEMMA MarkSteps ==
  ASSUME CheckInv, NEW g \in Goroutines, StoreKey(g) \/ PutKey(g) \/ ClearKey(g) \/ ClearDb(g) PROVE CheckInv'
<1>1. UNCHANGED <<live, last, conf, cache, rec, user, restarts, retry, held, later, announced, settled>>
  BY DEF StoreKey, PutKey, ClearKey, ClearDb, world, recorder, waiting, ghosts
<1>2. Grows
  BY <1>1, Unmoved
<1>3. Outside' /\ Waits(retry', announced') /\ later' \in BOOLEAN /\ held' = held
  BY <1>1, <1>2, WaitsStays DEF CheckInv, Outside, Entries
<1>4. Marks'
  <2>1. /\ keys' = keys \/ keys' = 0 \/ (keys' = job[g].seen /\ job[g].at \in Marking)
        /\ db' = db \/ db' = 0 \/ (db' = job[g].seen /\ job[g].at \in Marking)
    BY DEF StoreKey, PutKey, ClearKey, ClearDb, Marking
  <2>2. job[g].at \in Marking =>
          job[g].seen \in Sessions /\ job[g].seen \in settled' /\ announced'[job[g].seen] > 0
    BY <1>1, InHand DEF Marking, HasSession
  <2> QED BY <1>2, <2>1, <2>2, MarksStay
<1>5. CASE Done(g)
  BY <1>2, <1>3, <1>4, <1>5, Leaves
<1>6. CASE StoreKey(g)
  <2>1. PICK j : j = [job[g] EXCEPT !.at = "put"]
    OBVIOUS
  <2>2. job' = [job EXCEPT ![g] = j] /\ j \in Jobs /\ j.at = "put" /\ j.seen = job[g].seen
    <3>1. "put" \in Labels
      BY DEF Labels
    <3>2. Goto(g, "put")
      BY <1>6 DEF StoreKey
    <3> QED BY <2>1, <3>1, <3>2, MovesTo
  <2>3. job[g].at \in HasSession \ {"judge"} /\ job[g].seen \in settled'
    BY <1>1, <1>6, InHand DEF StoreKey, HasSession, Marking
  <2>4. Ready(j, announced', settled')
    BY <1>2, <2>2, <2>3, Keeps
  <2> QED BY <1>2, <1>3, <1>4, <2>2, <2>4, GoesOn
<1>7. CASE Goto(g, "clearDb")
  <2>1. PICK j : j = [job[g] EXCEPT !.at = "clearDb"]
    OBVIOUS
  <2>2. job' = [job EXCEPT ![g] = j] /\ j \in Jobs /\ j.at = "clearDb"
    <3>1. "clearDb" \in Labels
      BY DEF Labels
    <3> QED BY <1>7, <2>1, <3>1, MovesTo
  <2>3. Ready(j, announced', settled')
    BY <2>2 DEF Ready, HasSession, Marking
  <2> QED BY <1>2, <1>3, <1>4, <2>2, <2>3, GoesOn
<1> QED BY <1>5, <1>6, <1>7 DEF PutKey, ClearKey, ClearDb

LEMMA CheckSteps == ASSUME CheckInv, NEW g \in Goroutines, Check(g) PROVE CheckInv'
BY ListSteps, QuietSteps, JudgeSteps, ActSteps, StartSteps, StartedSteps, StoreRetrySteps, DeleteRetrySteps,
   MarkSteps DEF Check

-----------------------------------------------------------------------------
(* The retry loop, the delays and the restart.                             *)

LEMMA RetrySteps == ASSUME CheckInv, RetryLoop PROVE CheckInv'
<1>1. UNCHANGED <<live, last, conf, cache, rec, user, restarts, keys, db, announced, settled>>
  BY DEF RetryLoop, RangeDue, DropRetry, PostLoad, Postpone, world, recorder, state, ghosts
<1>2. Grows
  BY <1>1, Unmoved
<1>3. Outside' /\ Marks' /\ Retrier \in Goroutines
  BY <1>1, <1>2, MarksStay DEF CheckInv, Outside, Goroutines
<1>4. CASE RangeDue
  <2>1. PICK j : j = [job[Retrier] EXCEPT !.cfg = conf, !.at = IF conf = Unsubscribed THEN "drop" ELSE "fetch"]
    OBVIOUS
  <2>2. job' = [job EXCEPT ![Retrier] = j]
    BY <1>4, <2>1 DEF RangeDue
  <2>3. j \in Jobs /\ j.at \in {"drop", "fetch"}
    BY <1>3, <2>1, InHand DEF CheckInv, Outside, Jobs, Labels
  <2>4. Ready(j, announced', settled')
    BY <2>3 DEF Ready, HasSession, Marking
  <2>5. UNCHANGED <<retry, held, later>>
    BY <1>4 DEF RangeDue, waiting
  <2>6. Waits(retry', announced') /\ held' = held /\ later' \in BOOLEAN
    BY <1>2, <2>5, WaitsStays DEF CheckInv, Entries
  <2> QED BY <1>2, <1>3, <2>2, <2>3, <2>4, <2>6, GoesOn
<1>5. CASE DropRetry
  <2>1. PICK j : j = Idle
    OBVIOUS
  <2>2. job' = [job EXCEPT ![Retrier] = j] /\ j.at # "postpone"
    BY <1>5, <2>1 DEF DropRetry, Idle, At
  <2>3. Ready(j, announced', settled')
    BY <2>1, Nowhere DEF Idle
  <2>4. Waits(retry', announced') /\ held' = held /\ later' \in BOOLEAN
    BY <1>5, NoEntry DEF DropRetry
  <2> QED BY <1>2, <1>3, <2>2, <2>3, <2>4, GoesOn
<1>6. CASE PostLoad
  <2>1. PICK j : j = [job[Retrier] EXCEPT !.at = IF retry.due /\ ~later THEN "postpone" ELSE "idle"]
    OBVIOUS
  <2>2. j \in Jobs /\ ((j.at = "postpone" /\ retry.due) \/ j.at = "idle")
    BY <1>3, <2>1, InHand DEF Jobs, Labels
  <2>3. job' = [job EXCEPT ![Retrier] = j] /\ job'[Retrier] = j
    <3>1. CASE retry.due /\ ~later
      BY <1>3, <1>6, <2>1, <3>1 DEF PostLoad, Goto, CheckInv, Loops
    <3>2. CASE ~(retry.due /\ ~later)
      BY <1>3, <1>6, <2>1, <3>2 DEF PostLoad, Goto, CheckInv, Loops
    <3> QED BY <3>1, <3>2
  <2>4. Ready(j, announced', settled')
    BY <2>2 DEF Ready, HasSession, Marking
  <2>5. Loops'
    BY <1>2, <1>3, <2>3, <2>4, LoopsStay
  <2>6. /\ retry' = retry /\ held' \in {held, retry} /\ later' \in {later, FALSE}
        /\ (retry.due /\ ~later => held' = retry)
    BY <1>6 DEF PostLoad
  <2>7. retry.due => retry # NoRetry
    BY DEF NoRetry
  <2>8. j.at = "postpone" => held' # NoRetry
    BY <2>1, <2>2, <2>6, <2>7
  <2>9. Waits(retry', announced') /\ Waits(held', announced') /\ later' \in BOOLEAN
    BY <1>2, <2>6, WaitsStays DEF CheckInv, Entries
  <2>10. Entries'
    BY <2>3, <2>8, <2>9 DEF Entries
  <2> QED BY <1>3, <2>5, <2>10 DEF CheckInv
<1>7. CASE Postpone
  <2>1. PICK j : j = [job[Retrier] EXCEPT !.at = "idle"]
    OBVIOUS
  <2>2. j \in Jobs /\ j.at = "idle"
    BY <1>3, <2>1, InHand DEF Jobs, Labels
  <2>3. job' = [job EXCEPT ![Retrier] = j] /\ job'[Retrier] = j
    BY <1>3, <1>7, <2>1 DEF Postpone, Goto, CheckInv, Loops
  <2>4. Ready(j, announced', settled')
    BY <2>2 DEF Ready, HasSession, Marking
  <2>5. Loops'
    BY <1>2, <1>3, <2>3, <2>4, LoopsStay
  <2>6. held # NoRetry /\ held \in Retries /\ held.key \in Sessions
    BY <1>7 DEF Postpone, CheckInv, Entries, Waits, Retries
  <2>7. retry' \in Retries /\ retry'.key = held.key
    BY <1>7, <2>6 DEF Postpone, Retries
  <2>8. Waits(retry', announced')
    BY <1>1, <2>6, <2>7, SubCheckAssumption DEF CheckInv, Entries, Waits, Sessions
  <2>9. Waits(held', announced') /\ later' \in BOOLEAN
    BY <1>7, NoEntry DEF Postpone
  <2>10. Entries'
    BY <2>2, <2>3, <2>8, <2>9 DEF Entries
  <2> QED BY <1>3, <2>5, <2>10 DEF CheckInv
<1> QED BY <1>4, <1>5, <1>6, <1>7 DEF RetryLoop

LEMMA ElapseSteps == ASSUME CheckInv, Elapse PROVE CheckInv'
<1>1. /\ UNCHANGED <<live, last, conf, cache, rec, user, restarts, keys, db, held, later, job, announced, settled>>
      /\ retry # NoRetry /\ retry' = [retry EXCEPT !.due = TRUE]
  BY DEF Elapse, world, recorder, state, ghosts
<1>2. retry \in Retries \ {NoRetry} /\ retry.key \in Sessions
  BY <1>1 DEF CheckInv, Entries, Waits, Retries
<1>3. retry' \in Retries /\ retry'.key = retry.key
  BY <1>1, <1>2 DEF Retries
<1>4. Waits(retry', announced')
  BY <1>1, <1>2, <1>3, SubCheckAssumption DEF CheckInv, Entries, Waits, Sessions
<1>5. Outside' /\ Marks' /\ Loops'
  BY <1>1 DEF CheckInv, Outside, Marks, NothingSkipped, Loops
<1>6. Entries'
  BY <1>1, <1>4 DEF CheckInv, Entries
<1> QED BY <1>5, <1>6 DEF CheckInv

LEMMA RestartSteps == ASSUME CheckInv, Restart PROVE CheckInv'
<1>1. Grows
  BY Unmoved DEF Restart, ghosts
<1>2. Outside'
  <2>1. NoInfo \in NoInfo..MaxSessions
    BY SubCheckAssumption DEF NoInfo
  <2>2. restarts + 1 \in 0..MaxRestarts
    BY SubCheckAssumption DEF CheckInv, Outside, Restart
  <2> QED BY <2>1, <2>2 DEF CheckInv, Outside, Restart
<1>3. Marks'
  BY <1>1, MarksStay DEF Restart
<1>4. job' = [g \in Goroutines |-> Idle] /\ Retrier \in Goroutines
  BY DEF Restart, Goroutines
<1>5. Idle \in Jobs /\ Idle.at = "idle" /\ Ready(Idle, announced', settled')
  BY Nowhere DEF Idle, At
<1>6. Loops'
  BY <1>4, <1>5 DEF Loops
<1>7. Entries'
  BY <1>4, <1>5, NoEntry DEF Entries, Restart
<1> QED BY <1>2, <1>3, <1>6, <1>7 DEF CheckInv

-----------------------------------------------------------------------------
LEMMA CheckStep == ASSUME CheckInv, [Next]_vars PROVE CheckInv'
BY WorldSteps, CheckSteps, RetrySteps, ElapseSteps, RestartSteps DEF Next

\* Every variable has its type; a start that fails stores no more attempts
\* than there are (processRooms).
THEOREM CheckTypes == Spec => []TypeOK
<1>1. Init => CheckInv
  BY CheckStarts
<1>2. CheckInv /\ [Next]_vars => CheckInv'
  BY CheckStep
<1>3. CheckInv => TypeOK
  BY CheckInvTypes
<1> QED BY <1>1, <1>2, <1>3, PTL DEF Spec

\* A session whose key is in the map or in the bucket, so that later checks
\* and later processes leave it alone, has been announced and dealt with
\* (processRooms, markSessionState).
THEOREM NoSessionSkipped == Spec => []NothingSkipped
<1>1. Init => CheckInv
  BY CheckStarts
<1>2. CheckInv /\ [Next]_vars => CheckInv'
  BY CheckStep
<1>3. CheckInv => NothingSkipped
  BY DEF CheckInv, Marks
<1> QED BY <1>1, <1>2, <1>3, PTL DEF Spec
=============================================================================
