----------------------------- MODULE StoresProofs -----------------------------
(***************************************************************************)
(* Safety of the components that MCStores runs one at a time, each with    *)
(* the inductive invariant its property needs, for every value of the      *)
(* constants: notifications, log sink, subscriptions, stream leases, cloud *)
(* queue, danmaku sidecar, recording files.                                *)
(***************************************************************************)
EXTENDS StreamOpen, CloudQueue, DanmakuSidecar, RecorderSegments,
        NotifyHub, AsyncSink, Subscriptions,
        SequenceTheorems, FiniteSetTheorems, WellFoundedInduction, TLAPS

(***************************************************************************)
(* NoSendOnClosed for any number of clients and events.  A client that is  *)
(* to be sent to was in the map when the read lock was taken, and nobody   *)
(* takes it out while the lock is held.                                    *)
(***************************************************************************)

NotifySpec == NotifyInit /\ [][NotifyNext]_notifyVars

SseTypes ==
    /\ client \in [Clients -> {"away", "listed", "leaving", "deleted", "closed"}]
    /\ ssePub \in [Notes -> {"none", "ready", "locked", "sent"}]
    /\ todo \in [Notes -> SUBSET Clients]

\* Only who holds the read lock has clients to reach, and those are in the map.
LockedClients == \A n \in Notes : todo[n] # {} => n \in Readers /\ todo[n] \subseteq Listed

SseInv == SseTypes /\ LockedClients

LEMMA SseStep == SseInv /\ [NotifyNext]_notifyVars => SseInv'
<1> SUFFICES ASSUME SseInv, [NotifyNext]_notifyVars PROVE SseInv'
  OBVIOUS
<1> USE DEF SseInv, SseTypes, LockedClients, Readers, Listed
<1>1. ASSUME UNCHANGED <<client, ssePub, todo>> PROVE SseInv'
  BY <1>1
<1>2. ASSUME NEW n \in Notes, Publish(n) PROVE SseInv'
  BY <1>2 DEF Publish
<1>3. ASSUME NEW c \in Clients, SubscribeSSE(c) PROVE SseInv'
  BY <1>3 DEF SubscribeSSE
<1>4. ASSUME NEW c \in Clients, Disconnect(c) PROVE SseInv'
  BY <1>4 DEF Disconnect
<1>5. ASSUME NEW c \in Clients, UnsubscribeSSE(c) PROVE SseInv'
  BY <1>5 DEF UnsubscribeSSE
<1>6. ASSUME NEW c \in Clients, CloseChannel(c) PROVE SseInv'
  BY <1>6 DEF CloseChannel, MayClose
<1>7. ASSUME NEW n \in Notes, LockForSending(n) PROVE SseInv'
  BY <1>7 DEF LockForSending
<1>8. ASSUME NEW n \in Notes, NEW c \in Clients, SendToClient(n, c) PROVE SseInv'
  BY <1>8 DEF SendToClient
<1>9. ASSUME NEW n \in Notes, UnlockAfterSending(n) PROVE SseInv'
  BY <1>9 DEF UnlockAfterSending
<1>10. ASSUME NEW c \in Clients, HandlerSends(c) PROVE SseInv'
  BY <1>1, <1>10 DEF HandlerSends
<1>11. ASSUME NEW n \in Notes, BeginPush(n) \/ EndPush(n) \/ DeleteStale(n) \/ \E e \in Endpoints : PushTo(n, e)
       PROVE  SseInv'
  BY <1>1, <1>11 DEF BeginPush, EndPush, DeleteStale, PushTo, sseVars
<1>12. ASSUME NEW e \in Endpoints, AddWebPushSubscription(e) \/ RemoveWebPushSubscription(e) PROVE SseInv'
  BY <1>1, <1>12 DEF AddWebPushSubscription, RemoveWebPushSubscription, sseVars
<1>13. CASE UNCHANGED notifyVars
  BY <1>1, <1>13 DEF notifyVars, sseVars
<1> QED
  BY <1>2, <1>3, <1>4, <1>5, <1>6, <1>7, <1>8, <1>9, <1>10, <1>11, <1>12, <1>13 DEF NotifyNext

\* However browsers come and go while events are published, no event is sent on a channel that
\* UnsubscribeSSE has closed, which would end the process.
THEOREM NeverSendsOnClosed == NotifySpec => []NoSendOnClosed
<1>1. NotifyInit => SseInv
  BY DEF NotifyInit, SseInv, SseTypes, LockedClients
<1>2. SseInv => NoSendOnClosed
  BY DEF SseInv, LockedClients, Listed, NoSendOnClosed
<1> QED BY <1>1, <1>2, SseStep, PTL DEF NotifySpec

(***************************************************************************)
(* SnapshotIsStored for any rooms and users.  Between two changes the map  *)
(* and the bucket agree; during one they agree on every other room, and    *)
(* the bucket has what the map is about to be told.                        *)
(***************************************************************************)

SubSpec == SubInit /\ [][SubNext]_subVars

\* What the map and the bucket say of one room.
Agree(shown, saved) ==
    /\ (shown.state = "none") = (saved.state = "none")
    /\ saved.state = "ok" => shown = saved

Committed ==
    change # NoChange =>
        change.room \in SubRooms /\ stored[change.room] = change.to /\ change.to # Broken

SubInv ==
    /\ DOMAIN stored = SubRooms /\ DOMAIN snapshot = SubRooms
    /\ DOMAIN form = SubUsers /\ \A u \in SubUsers : form[u].room \in SubRooms \cup {"none"}
    /\ Committed
    /\ \A r \in SubRooms : (change # NoChange => r # change.room) => Agree(snapshot[r], stored[r])

LEMMA LoadedAgrees ==
  ASSUME NEW r \in SubRooms
  PROVE  Agree(loadRooms[r], stored[r])
BY DEF Agree, loadRooms, Broken, Config

\* A commit on one room, with the lock taken.
LEMMA CommitStep ==
  ASSUME SubInv, change = NoChange, NEW r \in SubRooms, NEW to, to # Broken, Commit(r, to), UNCHANGED snapshot,
         DOMAIN form' = SubUsers, \A u \in SubUsers : form'[u].room \in SubRooms \cup {"none"}
  PROVE  SubInv'
<1>1. /\ change' = [room |-> r, to |-> to] /\ change' # NoChange /\ change'.room = r /\ change'.to = to
  BY SubRoomsAssumption DEF Commit, NoChange
<1>2. /\ DOMAIN stored' = SubRooms /\ stored'[r] = to
      /\ \A s \in SubRooms : s # r => stored'[s] = stored[s]
  BY DEF Commit, SubInv
<1>3. Committed'
  BY <1>1, <1>2 DEF Committed
<1> QED BY <1>1, <1>2, <1>3 DEF SubInv

LEMMA SubStep == SubInv /\ [SubNext]_subVars => SubInv'
<1> SUFFICES ASSUME SubInv, [SubNext]_subVars PROVE SubInv'
  OBVIOUS
<1>0. DOMAIN form = SubUsers /\ \A u \in SubUsers : form[u].room \in SubRooms \cup {"none"}
  BY DEF SubInv
<1>1. ASSUME UNCHANGED <<stored, snapshot, change, form>> PROVE SubInv'
  BY <1>1 DEF SubInv, Committed
<1>2. CASE RestartSubscriptions
  BY <1>2, LoadedAgrees DEF RestartSubscriptions, SubInv, Committed, loadRooms
<1>3. CASE PublishChange
  <2>1. /\ snapshot' = [snapshot EXCEPT ![change.room] = change.to] /\ change # NoChange
        /\ change' = NoChange /\ stored' = stored
    BY <1>3 DEF PublishChange
  <2>2. Agree(change.to, stored[change.room])
    BY <2>1 DEF SubInv, Committed, Agree
  <2>3. /\ DOMAIN snapshot' = SubRooms /\ form' = form /\ snapshot'[change.room] = change.to
        /\ \A r \in SubRooms : r # change.room => snapshot'[r] = snapshot[r]
    BY <1>3, <2>1 DEF PublishChange, SubInv, Committed
  <2>4. \A r \in SubRooms : Agree(snapshot'[r], stored'[r])
    BY <2>1, <2>2, <2>3 DEF SubInv
  <2> QED BY <2>1, <2>3, <2>4 DEF SubInv, Committed
<1>4. ASSUME NEW r \in SubRooms, Subscribe(r) PROVE SubInv'
  <2>1. Config({}) # Broken
    BY DEF Config, Broken
  <2> QED BY <1>0, <1>4, <2>1, CommitStep DEF Subscribe
<1>5. ASSUME NEW r \in SubRooms, Unsubscribe(r) PROVE SubInv'
  <2>1. Unsubscribed # Broken
    BY DEF Unsubscribed, Broken
  <2> QED BY <1>0, <1>5, <2>1, CommitStep DEF Unsubscribe
<1>6. ASSUME NEW u \in SubUsers, NEW r \in SubRooms, GetConfig(u, r) PROVE SubInv'
  BY <1>6 DEF GetConfig, SubInv, Committed
<1>7. ASSUME NEW u \in SubUsers, NEW flag \in Flags, UpdateConfig(u, flag) PROVE SubInv'
  <2>1. PICK flags :
          /\ form[u].room # "none" /\ change = NoChange /\ form' = [form EXCEPT ![u] = NoForm]
          /\ StoreConfig(form[u].room, flags) /\ UNCHANGED snapshot
    BY <1>7 DEF UpdateConfig
  <2>2. form[u].room \in SubRooms
    BY <2>1 DEF SubInv
  <2>3. DOMAIN form' = SubUsers /\ \A v \in SubUsers : form'[v].room \in SubRooms \cup {"none"}
    BY <2>1 DEF SubInv, NoForm
  <2>4. CASE UNCHANGED <<stored, change>>
    BY <2>1, <2>3, <2>4 DEF SubInv, Committed
  <2>5. CASE Commit(form[u].room, Config(flags))
    <3>1. Config(flags) # Broken
      BY DEF Config, Broken
    <3> QED BY <2>1, <2>2, <2>3, <2>5, <3>1, CommitStep
  <2> QED BY <2>1, <2>4, <2>5 DEF StoreConfig
<1>8. CASE CountRooms \/ maybeRescale \/ CooldownEnds
  BY <1>1, <1>8 DEF CountRooms, maybeRescale, CooldownEnds
<1>9. CASE UNCHANGED subVars
  BY <1>1, <1>9 DEF subVars
<1> QED BY <1>2, <1>3, <1>4, <1>5, <1>6, <1>7, <1>8, <1>9 DEF SubNext

\* After any changes, failures, edits and restarts, GetConfig and List show the rooms that are
\* stored, and the configurations a restart would load (subscribe.Service.rooms).
THEOREM ShownIsStored == SubSpec => []SnapshotIsStored
<1>1. SubInit => SubInv
  BY LoadedAgrees DEF SubInit, SubInv, Committed, loadRooms, NoForm
<1>2. SubInv => SnapshotIsStored
  BY DEF SubInv, SnapshotIsStored, Agree
<1> QED BY <1>1, <1>2, SubStep, PTL DEF SubSpec

(***************************************************************************)
(* SyncIsComplete for any writers and syncers and any capacities.  What    *)
(* was written before a Sync moves from the channel to the batch and on to *)
(* the transport, and the goroutine answers only when none of it is left   *)
(* behind the batch it has just sent.                                      *)
(***************************************************************************)

SinkSpec == SinkInit /\ [][SinkNext]_sinkVars

SinkTypes ==
    /\ sinkCh \in Seq(Writers)
    /\ syn \in [Syncers -> {"new", "check", "waiting", "synced", "refused"}]
    /\ DOMAIN before = Syncers

\* Nothing that was written before a Sync is lost on its way.
NothingLost == \A s \in Syncers : before[s] \subseteq Elems(sinkCh) \cup sinkBatch \cup consumed

\* The goroutine works for a Sync that was called, and flushes when the channel has given all
\* that was in it at the call.
WorksFor ==
    /\ \A s \in Syncers : why = s => syn[s] # "new"
    /\ \A s \in Syncers : why = s /\ sinkPc = "flush" => before[s] \subseteq sinkBatch \cup consumed

SinkInv == SinkTypes /\ NothingLost /\ WorksFor /\ SyncIsComplete

LEMMA ElemsAppend ==
  ASSUME NEW S, NEW q \in Seq(S), NEW e \in S
  PROVE  Append(q, e) \in Seq(S) /\ Elems(q) \subseteq Elems(Append(q, e))
<1>1. /\ Append(q, e) \in Seq(S) /\ Len(Append(q, e)) = Len(q) + 1 /\ Len(q) \in Nat
      /\ \A i \in 1..Len(q) : Append(q, e)[i] = q[i]
  OBVIOUS
<1> QED BY <1>1 DEF Elems

LEMMA ElemsHeadTail ==
  ASSUME NEW S, NEW q \in Seq(S), q # <<>>
  PROVE  Tail(q) \in Seq(S) /\ Head(q) \in S /\ Elems(q) \subseteq {Head(q)} \cup Elems(Tail(q))
<1>1. /\ Tail(q) \in Seq(S) /\ Head(q) \in S /\ Head(q) = q[1] /\ Len(q) \in Nat \ {0}
      /\ Len(Tail(q)) = Len(q) - 1 /\ \A i \in 1..Len(Tail(q)) : Tail(q)[i] = q[i + 1]
  BY HeadTailProperties
<1>2. ASSUME NEW i \in 1..Len(q), i # 1 PROVE q[i] \in Elems(Tail(q))
  <2>1. i - 1 \in 1..Len(Tail(q)) /\ Tail(q)[i - 1] = q[i]
    BY <1>1, <1>2
  <2> QED BY <2>1 DEF Elems
<1> QED BY <1>1, <1>2 DEF Elems

LEMMA ElemsEmpty ==
  ASSUME NEW S, NEW q \in Seq(S)
  PROVE  Elems(q) \subseteq S /\ (q = <<>> => Elems(q) = {})
BY DEF Elems

\* A chunk that leaves the channel is in the batch or with the transport.
LEMMA TakesHead ==
  ASSUME SinkTypes, NothingLost, sinkCh # <<>>, AppendChunk(Head(sinkCh)), sinkCh' = Tail(sinkCh),
         UNCHANGED <<syn, before>>
  PROVE  SinkTypes' /\ NothingLost' /\ consumed \subseteq consumed' /\ sinkBatch \subseteq sinkBatch' \cup consumed'
<1>1. /\ sinkCh' \in Seq(Writers)
      /\ Elems(sinkCh) \subseteq {Head(sinkCh)} \cup Elems(sinkCh')
  BY ElemsHeadTail DEF SinkTypes
<1>2. /\ consumed \subseteq consumed'
      /\ sinkBatch \cup {Head(sinkCh)} \subseteq sinkBatch' \cup consumed'
  BY DEF AppendChunk
<1> HIDE DEF Elems
<1> QED BY <1>1, <1>2 DEF SinkTypes, NothingLost

LEMMA SinkStep == SinkInv /\ [SinkNext]_sinkVars => SinkInv'
<1> SUFFICES ASSUME SinkInv, [SinkNext]_sinkVars PROVE SinkInv'
  OBVIOUS
<1>0. /\ SinkTypes /\ NothingLost /\ WorksFor /\ SyncIsComplete
      /\ \A s \in Syncers : s \notin {"none", "tick", "stop"}
  BY SinkAssumption DEF SinkInv
<1>1. ASSUME UNCHANGED <<syn, before, sinkCh, sinkBatch, consumed, sinkPc, why>> PROVE SinkInv'
  BY <1>0, <1>1 DEF SinkInv, SinkTypes, NothingLost, WorksFor, SyncIsComplete, Elems
<1>2. ASSUME NEW w \in Writers, CallWrite(w) \/ WriteChunk(w) PROVE SinkInv'
  <2>1. UNCHANGED <<syn, before, sinkBatch, consumed, sinkPc, why>>
    BY <1>2 DEF CallWrite, WriteChunk
  <2>2. CASE UNCHANGED sinkCh
    BY <1>1, <2>1, <2>2
  <2>3. CASE sinkCh' = Append(sinkCh, w)
    <3>1. sinkCh' \in Seq(Writers) /\ Elems(sinkCh) \subseteq Elems(sinkCh')
      BY <1>0, <2>3, ElemsAppend DEF SinkTypes
    <3> QED BY <1>0, <2>1, <3>1 DEF SinkInv, SinkTypes, NothingLost, WorksFor, SyncIsComplete
  <2> QED BY <1>2, <2>2, <2>3 DEF CallWrite, WriteChunk
<1>3. ASSUME NEW s \in Syncers, CallSync(s) PROVE SinkInv'
  <2>1. /\ syn[s] = "new" /\ syn' = [syn EXCEPT ![s] = IF sinkStop = "running" THEN "check" ELSE "refused"]
        /\ before' = [before EXCEPT ![s] = Elems(sinkCh) \cup sinkBatch]
        /\ UNCHANGED <<sinkCh, sinkBatch, consumed, sinkPc, why>>
    BY <1>3 DEF CallSync
  <2>2. /\ before'[s] = Elems(sinkCh) \cup sinkBatch /\ syn'[s] \in {"check", "refused"}
        /\ \A t \in Syncers : t # s => before'[t] = before[t] /\ syn'[t] = syn[t]
        /\ why # s /\ Elems(sinkCh)' = Elems(sinkCh)
    BY <1>0, <2>1 DEF SinkTypes, WorksFor, Elems
  <2>3. SinkTypes'
    BY <1>0, <2>1 DEF SinkTypes
  <2>4. NothingLost'
    BY <1>0, <2>1, <2>2 DEF NothingLost
  <2>5. WorksFor' /\ SyncIsComplete'
    BY <1>0, <2>1, <2>2 DEF WorksFor, SyncIsComplete
  <2> QED BY <2>3, <2>4, <2>5 DEF SinkInv
<1>4. ASSUME NEW s \in Syncers, RequestFlush(s) PROVE SinkInv'
  BY <1>0, <1>4 DEF RequestFlush, SinkInv, SinkTypes, NothingLost, WorksFor, SyncIsComplete, Elems
<1>5. ASSUME NEW s \in Syncers, SyncEnds(s) PROVE SinkInv'
  BY <1>0, <1>5 DEF SyncEnds, SinkInv, SinkTypes, NothingLost, WorksFor, SyncIsComplete, Elems
<1>6. CASE StopSink
  BY <1>1, <1>6 DEF StopSink
<1>7. CASE TakeWritten
  <2>1. SinkTypes' /\ NothingLost' /\ consumed \subseteq consumed'
    BY <1>0, <1>7, TakesHead DEF TakeWritten
  <2> QED BY <1>0, <1>7, <2>1 DEF TakeWritten, SinkInv, WorksFor, SyncIsComplete
<1>8. CASE FlushTick \/ TakeStop
  BY <1>0, <1>8 DEF FlushTick, TakeStop, SinkInv, SinkTypes, NothingLost, WorksFor, SyncIsComplete, Elems
<1>9. CASE Drain
  <2>1. CASE sinkCh # <<>> /\ AppendChunk(Head(sinkCh)) /\ sinkCh' = Tail(sinkCh) /\ UNCHANGED sinkPc
    <3>1. SinkTypes' /\ NothingLost' /\ consumed \subseteq consumed'
      BY <1>0, <1>9, <2>1, TakesHead DEF Drain
    <3> QED BY <1>0, <1>9, <2>1, <3>1 DEF Drain, SinkInv, WorksFor, SyncIsComplete
  <2>2. CASE Drained /\ sinkPc' = "flush" /\ UNCHANGED <<sinkCh, sinkBatch, consumed>>
    <3>1. Elems(sinkCh) = {}
      BY <1>0, <2>2, ElemsEmpty DEF Drained, SinkTypes
    <3>2. \A s \in Syncers : before[s] \subseteq sinkBatch \cup consumed
      BY <1>0, <3>1 DEF NothingLost
    <3> QED BY <1>0, <1>9, <2>2, <3>2 DEF Drain, SinkInv, SinkTypes, NothingLost, WorksFor, SyncIsComplete, Elems
  <2> QED BY <1>9, <2>1, <2>2 DEF Drain
<1>10. CASE FlushBatch
  <2>1. /\ sinkPc = "flush" /\ sinkPc' # "flush" /\ why' = "none"
        /\ consumed' = consumed \cup sinkBatch /\ sinkBatch' = {} /\ UNCHANGED <<before, sinkCh>>
        /\ syn' = IF why \in Syncers THEN [syn EXCEPT ![why] = "synced"] ELSE syn
    BY <1>10 DEF FlushBatch
  <2>2. SinkTypes' /\ NothingLost'
    BY <1>0, <2>1 DEF SinkTypes, NothingLost, Elems
  <2>3. WorksFor'
    BY <1>0, <2>1 DEF WorksFor
  <2>4. \A s \in Syncers : syn'[s] = "synced" => syn[s] = "synced" \/ s = why
    BY <1>0, <2>1 DEF SinkTypes
  <2>5. SyncIsComplete'
    BY <1>0, <2>1, <2>4 DEF WorksFor, SyncIsComplete
  <2> QED BY <2>2, <2>3, <2>5 DEF SinkInv
<1>11. CASE UNCHANGED sinkVars
  BY <1>1, <1>11 DEF sinkVars
<1> QED BY <1>2, <1>3, <1>4, <1>5, <1>6, <1>7, <1>8, <1>9, <1>10, <1>11 DEF SinkNext

\* A Sync that returns nil has brought to the transport all that was written before it was
\* called, whoever else writes, syncs or stops the sink (AsyncBufferedSink.Sync).
THEOREM SyncBringsAll == SinkSpec => []SyncIsComplete
<1>1. SinkInit => SinkInv
  BY SinkAssumption DEF SinkInit, SinkInv, SinkTypes, NothingLost, WorksFor, SyncIsComplete
<1>2. SinkInv => SyncIsComplete
  BY DEF SinkInv
<1> QED BY <1>1, <1>2, SinkStep, PTL DEF SinkSpec

(***************************************************************************)
(* StreamOpen.  LeaseKeepsPool says nothing of the counter the code looks  *)
(* at; the invariant says that it counts the leases, and that a counted    *)
(* pool is there.                                                          *)
(***************************************************************************)

OpenSpec == OpenInit /\ [][OpenNext]_openVars

HeldFor(t) == {l \in Leases : lease[l] = t}

IsTier(x) == {"pool", "ref", "idle", "armed", "callbacks"} \subseteq DOMAIN x /\ x.ref \in Nat

LeaseTypes ==
    /\ lease \in [Leases -> Tiers \cup {NoLease}]
    /\ DOMAIN tier = Tiers
    /\ \A t \in Tiers : IsTier(tier[t])

\* The reference counter of a tier is the number of its leases, and a pool that is referred to exists.
RefsCountLeases == \A t \in Tiers :
    /\ tier[t].ref = Cardinality(HeldFor(t))
    /\ tier[t].ref > 0 => tier[t].pool

\* The session holds the lease it is going to give back.
OwnLease == openPc \in {"dial", "ready", "recording"} => mine \in Leases /\ lease[mine] # NoLease

LeaseInv == LeaseTypes /\ RefsCountLeases /\ OwnLease

LEMMA HeldFinite ==
  ASSUME NEW t
  PROVE  IsFiniteSet(HeldFor(t)) /\ Cardinality(HeldFor(t)) \in Nat
<1>1. IsFiniteSet(Leases)
  BY OpenAssumption, FS_Interval DEF Leases
<1>2. IsFiniteSet(HeldFor(t))
  BY <1>1, FS_Subset DEF HeldFor
<1> QED BY <1>2, FS_CardinalityType

\* What becomes of a tier that is acquired, released, left idle or cleaned up.
LEMMA AcquiredIsState ==
  ASSUME NEW x, IsTier(x)
  PROVE  IsTier(AcquiredTier(x)) /\ AcquiredTier(x).ref = x.ref + 1 /\ AcquiredTier(x).pool
BY DEF IsTier, AcquiredTier

LEMMA ReleasedIsState ==
  ASSUME NEW x, IsTier(x), x.ref > 0
  PROVE  IsTier(ReleasedTier(x)) /\ ReleasedTier(x).ref = x.ref - 1 /\ ReleasedTier(x).pool = x.pool
BY DEF IsTier, ReleasedTier

LEMMA TimedIsState ==
  ASSUME NEW x, IsTier(x)
  PROVE  /\ IsTier(FiredTier(x)) /\ FiredTier(x).ref = x.ref /\ FiredTier(x).pool = x.pool
         /\ x.callbacks > 0 =>
              IsTier(CleanedTier(x)) /\ CleanedTier(x).ref = x.ref /\ (x.ref > 0 => CleanedTier(x).pool = x.pool)
BY DEF IsTier, FiredTier, CleanedTier

\* A lease that is taken is counted, and its pool is there.
LEMMA AcquireCounts ==
  ASSUME LeaseTypes, RefsCountLeases, NEW t \in Tiers, NEW l \in Leases, AcquireTier(t, l)
  PROVE  /\ LeaseTypes' /\ RefsCountLeases' /\ lease'[l] # NoLease
         /\ \A m \in Leases : lease[m] # NoLease => lease'[m] # NoLease
<1>1. /\ lease[l] = NoLease /\ lease' = [lease EXCEPT ![l] = t]
      /\ tier' = [tier EXCEPT ![t] = AcquiredTier(@)]
      /\ t # NoLease
  BY DEF AcquireTier, Tiers, NoLease
<1>0. /\ IsTier(tier'[t]) /\ tier'[t].ref = tier[t].ref + 1 /\ tier'[t].pool
      /\ DOMAIN tier' = Tiers /\ \A u \in Tiers \ {t} : tier'[u] = tier[u]
  <2>1. tier'[t] = AcquiredTier(tier[t]) /\ IsTier(tier[t])
    BY <1>1 DEF LeaseTypes
  <2> QED BY <1>1, <2>1, AcquiredIsState DEF LeaseTypes
<1>2. LeaseTypes'
  <2>1. lease' \in [Leases -> Tiers \cup {NoLease}]
    BY <1>1 DEF LeaseTypes
  <2> QED BY <1>0, <2>1 DEF LeaseTypes
<1>3. ASSUME NEW u \in Tiers
      PROVE  tier'[u].ref = Cardinality(HeldFor(u)') /\ (tier'[u].ref > 0 => tier'[u].pool)
  <2>1. CASE u = t
    <3>1. HeldFor(t)' = HeldFor(t) \cup {l} /\ l \notin HeldFor(t)
      BY <1>1 DEF HeldFor, LeaseTypes
    <3>2. Cardinality(HeldFor(t)') = Cardinality(HeldFor(t)) + 1
      BY <3>1, HeldFinite, FS_AddElement
    <3> QED BY <1>0, <2>1, <3>2, HeldFinite DEF RefsCountLeases
  <2>2. CASE u # t
    <3>1. HeldFor(u)' = HeldFor(u)
      BY <1>1, <2>2 DEF HeldFor, LeaseTypes, Tiers, NoLease
    <3> QED BY <1>0, <2>2, <3>1 DEF RefsCountLeases
  <2> QED BY <2>1, <2>2
<1> QED BY <1>1, <1>2, <1>3 DEF RefsCountLeases, LeaseTypes

\* A lease that is given back is no longer counted; the pool stays for the others.
LEMMA ReleaseCounts ==
  ASSUME LeaseTypes, RefsCountLeases, NEW l \in Leases, lease[l] # NoLease, ReleaseLease(l)
  PROVE  /\ LeaseTypes' /\ RefsCountLeases'
         /\ \A m \in Leases \ {l} : lease'[m] = lease[m]
<1>0. PICK t \in Tiers : t = lease[l]
  BY DEF LeaseTypes
<1>1. /\ t \in Tiers /\ lease' = [lease EXCEPT ![l] = NoLease]
      /\ tier' = [tier EXCEPT ![t] = ReleasedTier(@)]
  BY <1>0 DEF ReleaseLease, LeaseTypes
<1>2. /\ HeldFor(t)' = HeldFor(t) \ {l} /\ l \in HeldFor(t)
      /\ \A u \in Tiers \ {t} : HeldFor(u)' = HeldFor(u)
  <2>1. /\ lease[l] = t /\ lease'[l] = NoLease /\ NoLease \notin Tiers
        /\ \A m \in Leases \ {l} : lease'[m] = lease[m]
    BY <1>0, <1>1 DEF LeaseTypes, Tiers, NoLease
  <2>2. HeldFor(t)' = HeldFor(t) \ {l} /\ l \in HeldFor(t)
    BY <1>1, <2>1 DEF HeldFor
  <2>3. ASSUME NEW u \in Tiers \ {t} PROVE HeldFor(u)' = HeldFor(u)
    <3>1. lease[l] # u /\ lease'[l] # u
      BY <1>1, <2>1
    <3> QED BY <2>1, <3>1 DEF HeldFor
  <2> QED BY <2>2, <2>3
<1>3. Cardinality(HeldFor(t)') = Cardinality(HeldFor(t)) - 1 /\ Cardinality(HeldFor(t)) > 0
  <2>1. Cardinality(HeldFor(t)') = Cardinality(HeldFor(t)) - 1
    BY <1>2, HeldFinite, FS_RemoveElement
  <2>2. Cardinality(HeldFor(t)) # 0
    BY <1>2, HeldFinite, FS_EmptySet
  <2> QED BY <2>1, <2>2, HeldFinite
<1>4. /\ tier'[t] = ReleasedTier(tier[t]) /\ tier[t].ref = Cardinality(HeldFor(t))
      /\ IsTier(tier[t])
      /\ tier[t].pool
  BY <1>1, <1>3 DEF LeaseTypes, RefsCountLeases
<1>5. /\ tier'[t].ref = tier[t].ref - 1 /\ tier'[t].pool
      /\ IsTier(tier'[t])
  BY <1>3, <1>4, ReleasedIsState
<1>6. /\ \A u \in Tiers \ {t} : tier'[u] = tier[u]
      /\ DOMAIN tier' = Tiers
  BY <1>1 DEF LeaseTypes
<1>7. LeaseTypes'
  <2>1. lease' \in [Leases -> Tiers \cup {NoLease}]
    BY <1>1 DEF LeaseTypes
  <2> QED BY <1>5, <1>6, <2>1 DEF LeaseTypes
<1>8. RefsCountLeases'
  <2>1. tier'[t].ref = Cardinality(HeldFor(t)') /\ tier'[t].pool
    BY <1>3, <1>4, <1>5
  <2>2. \A u \in Tiers \ {t} : tier'[u] = tier[u] /\ HeldFor(u)' = HeldFor(u)
    BY <1>2, <1>6
  <2>3. \A u \in Tiers \ {t} : tier'[u].ref = Cardinality(HeldFor(u)') /\ (tier'[u].ref > 0 => tier'[u].pool)
    BY <2>2 DEF RefsCountLeases
  <2>4. \A u \in Tiers : u = t \/ u \in Tiers \ {t}
    OBVIOUS
  <2> QED BY <2>1, <2>3, <2>4 DEF RefsCountLeases
<1> QED BY <1>1, <1>7, <1>8 DEF LeaseTypes

LEMMA LeaseStep == LeaseInv /\ [OpenNext]_openVars => LeaseInv'
<1> SUFFICES ASSUME LeaseInv, [OpenNext]_openVars PROVE LeaseInv'
  OBVIOUS
<1>0. LeaseTypes /\ RefsCountLeases /\ OwnLease
  BY DEF LeaseInv
<1>1. ASSUME UNCHANGED <<lease, tier>> PROVE LeaseTypes' /\ RefsCountLeases'
  BY <1>0, <1>1 DEF LeaseTypes, RefsCountLeases, HeldFor
<1>2. CASE UNCHANGED <<openPc, lease, mine, tier>>
  BY <1>0, <1>1, <1>2 DEF LeaseInv, OwnLease
<1>3. CASE StartRecording \/ RoomInfo \/ NoStreams \/ GetStreamURLsV2 \/ UrlsUnreachable \/ StartAgain
  BY <1>0, <1>1, <1>3 DEF StartRecording, RoomInfo, NoStreams, GetStreamURLsV2, UrlsUnreachable, StartAgain, LeaseInv, OwnLease
<1>4. CASE TryStream
  <2>1. PICK l \in Leases : AcquireTier(TierOf(streams[tried'].qn), l) /\ mine' = l
    BY <1>4 DEF TryStream
  <2>2. TierOf(streams[tried'].qn) \in Tiers
    BY DEF TierOf, Tiers
  <2> QED BY <1>0, <2>1, <2>2, AcquireCounts DEF LeaseInv, OwnLease
<1>5. CASE ConnectFails \/ ReaderEnds
  <2>1. mine \in Leases /\ lease[mine] # NoLease /\ ReleaseLease(mine) /\ openPc' \in {"try", "failed", "info"}
    BY <1>0, <1>5 DEF ConnectFails, ReaderEnds, OwnLease
  <2> QED BY <1>0, <2>1, ReleaseCounts DEF LeaseInv, OwnLease
<1>6. CASE Connected \/ CommitSession \/ RefreshURL
  BY <1>0, <1>1, <1>6 DEF Connected, LeaseHandedOver, CommitSession, RefreshURL, LeaseInv, OwnLease
<1>7. CASE DiscardStream \/ ReaderLeft
  BY <1>0, <1>1, <1>7 DEF DiscardStream, ReaderLeft, LeaseInv, OwnLease
<1>8. CASE OthersRelease
  <2>1. PICK l \in Leases \ {mine} : lease[l] # NoLease /\ ReleaseLease(l)
    BY <1>8 DEF OthersRelease
  <2> QED BY <1>0, <1>8, <2>1, ReleaseCounts DEF OthersRelease, LeaseInv, OwnLease
<1>9. ASSUME NEW t \in Tiers, OthersAcquire(t) PROVE LeaseInv'
  <2>1. PICK l \in Leases : AcquireTier(t, l)
    BY <1>9 DEF OthersAcquire
  <2> QED BY <1>0, <1>9, <2>1, AcquireCounts DEF OthersAcquire, LeaseInv, OwnLease
<1>10. ASSUME NEW t \in Tiers, TimerFires(t) \/ TryCleanup(t) PROVE LeaseInv'
  <2>1. /\ UNCHANGED <<openPc, lease, mine>> /\ DOMAIN tier' = Tiers
        /\ IsTier(tier'[t])
        /\ tier'[t].ref = tier[t].ref /\ (tier[t].ref > 0 => tier'[t].pool = tier[t].pool)
        /\ \A u \in Tiers \ {t} : tier'[u] = tier[u]
    <3>1. IsTier(tier[t])
      BY <1>0 DEF LeaseTypes
    <3>2. /\ UNCHANGED <<openPc, lease, mine>>
          /\ \/ tier' = [tier EXCEPT ![t] = FiredTier(@)]
             \/ tier[t].callbacks > 0 /\ tier' = [tier EXCEPT ![t] = CleanedTier(@)]
      BY <1>10 DEF TimerFires, TryCleanup
    <3> QED BY <1>0, <3>1, <3>2, TimedIsState DEF LeaseTypes
  <2>2. \A u \in Tiers : HeldFor(u)' = HeldFor(u)
    BY <2>1 DEF HeldFor
  <2>3. LeaseTypes'
    BY <1>0, <2>1 DEF LeaseTypes
  <2>4. RefsCountLeases'
    BY <1>0, <2>1, <2>2 DEF RefsCountLeases
  <2> QED BY <1>0, <2>1, <2>3, <2>4 DEF LeaseInv, OwnLease
<1>11. CASE UNCHANGED openVars
  BY <1>2, <1>11 DEF openVars
<1> QED BY <1>3, <1>4, <1>5, <1>6, <1>7, <1>8, <1>9, <1>10, <1>11 DEF OpenNext

\* Whatever the timers of earlier idle periods do, and however many sessions take and give back
\* leases, a tier's pool is not dropped while a lease of it is held (tryCleanupTierLocked).
THEOREM PoolStaysForLease == OpenSpec => []LeaseKeepsPool
<1>1. OpenInit => LeaseInv
  <2> SUFFICES ASSUME OpenInit PROVE LeaseInv
    OBVIOUS
  <2>1. /\ lease = [l \in Leases |-> NoLease] /\ tier = [t \in Tiers |-> FreshTier] /\ openPc = "idle"
    BY DEF OpenInit
  <2>2. LeaseTypes
    BY <2>1 DEF LeaseTypes, IsTier, FreshTier
  <2>3. \A t \in Tiers : HeldFor(t) = {} /\ tier[t].ref = 0
    BY <2>1 DEF HeldFor, Tiers, NoLease, FreshTier
  <2>4. RefsCountLeases
    BY <2>3, FS_EmptySet DEF RefsCountLeases
  <2> QED BY <2>1, <2>2, <2>4 DEF LeaseInv, OwnLease
<1>2. LeaseInv => LeaseKeepsPool
  <2> SUFFICES ASSUME LeaseInv, NEW l \in Leases, lease[l] # NoLease PROVE tier[lease[l]].pool
    BY DEF LeaseKeepsPool
  <2>1. lease[l] \in Tiers /\ l \in HeldFor(lease[l])
    BY DEF LeaseInv, LeaseTypes, HeldFor
  <2>2. Cardinality(HeldFor(lease[l])) # 0 /\ Cardinality(HeldFor(lease[l])) \in Nat
    BY <2>1, HeldFinite, FS_EmptySet
  <2> QED BY <2>1, <2>2 DEF LeaseInv, RefsCountLeases
<1> QED BY <1>1, <1>2, LeaseStep, PTL DEF OpenSpec

(***************************************************************************)
(* CloudQueue.  An id belongs to one path for good, and an id that takes   *)
(* the place of another descends from it.  A task that is about to be      *)
(* replaced has a descendant in the bucket, or its path needs none: two    *)
(* tasks of a path never wait for each other to be the one that stays.     *)
(***************************************************************************)

CloudSpec == CloudInit /\ [][CloudNext]_cloudVars

Used == 1..idsUsed

\* The path needs no task any more.
PathSettled(p) == p \in withdrawn \cup converted \/ cloudSrc[p] = "deleted"

CloudTypes ==
    /\ idsUsed \in 0..MaxIds /\ DOMAIN cloudSrc = CloudPaths /\ cloudAsked \subseteq CloudPaths
    /\ DOMAIN bucket \subseteq Used /\ DOMAIN visits \subseteq Used /\ DOMAIN handling \subseteq Used
    /\ \A i \in DOMAIN handling : {"path", "new", "pc", "done"} \subseteq DOMAIN handling[i]

\* The path of every id, and the ids it descends from.
Family(path, anc) ==
    /\ DOMAIN path = Ids /\ DOMAIN anc = Ids
    /\ \A i \in Used : path[i] \in CloudPaths /\ anc[i] \subseteq 1..(i - 1)
    /\ \A i \in Used : \A j \in anc[i] : anc[j] \subseteq anc[i] /\ path[j] = path[i]

IsChild(anc, n, i) == n \in Used /\ i \in Used /\ anc[n] = anc[i] \cup {i}

\* Whoever names an id names its path with it, and a new id is a child of the old one.
Known(path, anc) ==
    /\ \A i \in DOMAIN bucket : bucket[i].path = path[i]
    /\ \A i \in DOMAIN visits : visits[i].path = path[i]
    /\ submitting # <<>> => IsChild(anc, submitting.new, submitting.id) /\ submitting.path = path[submitting.id]
    /\ \A i \in DOMAIN handling :
         /\ handling[i].path = path[i]
         /\ handling[i].pc = "replace" => IsChild(anc, handling[i].new, i)

\* What the goroutines rely on when they delete a task.
Covered(path, anc) == \A i \in DOMAIN handling :
    /\ handling[i].pc = "remove" => PathSettled(path[i])
    /\ handling[i].pc = "replace" => PathSettled(path[i]) \/ \E j \in DOMAIN bucket : i \in anc[j]

Lineage(path, anc) == Family(path, anc) /\ Known(path, anc) /\ Covered(path, anc)

CloudInv == CloudTypes /\ CloudTaskKept /\ \E path, anc : Lineage(path, anc)

\* A step that leaves the ids and the bucket alone.
LEMMA SameBucket ==
  ASSUME NEW path, NEW anc, CloudTypes, CloudTaskKept, Lineage(path, anc),
         UNCHANGED <<bucket, idsUsed, cloudAsked, withdrawn>>, CloudTypes',
         converted \subseteq converted', \A p \in CloudPaths : cloudSrc[p] = "deleted" => cloudSrc'[p] = "deleted",
         \A i \in DOMAIN visits' : visits'[i].path = path[i],
         submitting' \in {submitting, <<>>},
         \A i \in DOMAIN handling' :
            \/ i \in DOMAIN handling /\ handling'[i] = handling[i]
            \/ /\ handling'[i].path = path[i] /\ handling'[i].pc # "replace"
               /\ handling'[i].pc = "remove" => path[i] \in converted'
  PROVE  CloudInv'
<1>1. \A p \in CloudPaths : PathSettled(p) => PathSettled(p)'
  BY DEF PathSettled
<1>2. Family(path, anc)' /\ Known(path, anc)'
  BY DEF Lineage, Family, Known, Used, IsChild
<1>3. Covered(path, anc)'
  <2>1. \A i \in DOMAIN handling' : path[i] \in CloudPaths
    BY DEF CloudTypes, Used, Lineage, Family
  <2> QED BY <1>1, <2>1 DEF Lineage, Covered, PathSettled
<1>4. CloudTaskKept'
  BY <1>1 DEF CloudTaskKept, PathSettled, CloudTypes
<1> QED BY <1>2, <1>3, <1>4 DEF CloudInv, Lineage

\* A fresh id, with no forebear or as the child of an id of its path.
Adds(path, anc, new, p, old, path2, anc2) ==
    /\ new = NewId /\ p \in CloudPaths
    /\ old = {} \/ \E i \in Used : path[i] = p /\ old = anc[i] \cup {i}
    /\ path2 = [path EXCEPT ![new] = p] /\ anc2 = [anc EXCEPT ![new] = old]

LEMMA FreshId ==
  ASSUME NEW path, NEW anc, NEW new, NEW p, NEW old, NEW path2, NEW anc2, Adds(path, anc, new, p, old, path2, anc2),
         CloudTypes, Family(path, anc), idsUsed < MaxIds, idsUsed' = new
  PROVE  /\ Family(path2, anc2)' /\ new \in Used' /\ new \notin Used /\ Used \subseteq Used'
         /\ path2[new] = p /\ anc2[new] = old /\ idsUsed' \in 0..MaxIds
         /\ \A i \in Used : path2[i] = path[i] /\ anc2[i] = anc[i]
<1>0. /\ new = NewId /\ p \in CloudPaths
      /\ old = {} \/ \E i \in Used : path[i] = p /\ old = anc[i] \cup {i}
      /\ path2 = [path EXCEPT ![new] = p] /\ anc2 = [anc EXCEPT ![new] = old]
  BY DEF Adds
<1>1. /\ idsUsed \in Nat /\ MaxIds \in Nat /\ idsUsed + 1 \in Ids /\ idsUsed' = idsUsed + 1
      /\ Used' = Used \cup {new} /\ new \notin Used /\ idsUsed' \in 0..MaxIds /\ new = idsUsed + 1
  BY <1>0, CloudAssumption DEF CloudTypes, Ids, Used, NewId
<1>2. /\ path2[new] = p /\ anc2[new] = old /\ DOMAIN path2 = Ids /\ DOMAIN anc2 = Ids
      /\ \A i \in Used : path2[i] = path[i] /\ anc2[i] = anc[i]
  <2>1. new \in Ids /\ Used \subseteq Ids
    BY <1>0, <1>1, CloudAssumption DEF Ids, Used, CloudTypes
  <2> QED BY <1>0, <1>1, <2>1 DEF Family
<1>3. \A i \in Used : anc[i] \subseteq Used /\ anc[i] \subseteq 1..(i - 1) /\ 1..(i - 1) \subseteq 1..(new - 1) /\ i \in 1..(new - 1)
  BY <1>1 DEF Family, Used
<1>4. old \subseteq 1..(new - 1) /\ old \subseteq Used
  BY <1>0, <1>1, <1>3 DEF Family
<1>5. \A j \in old : anc[j] \subseteq old /\ path[j] = p
  BY <1>0, <1>3 DEF Family
<1>6. Family(path2, anc2)'
  <2>1. ASSUME NEW i \in Used' PROVE path2[i] \in CloudPaths /\ anc2[i] \subseteq 1..(i - 1)
    <3>1. CASE i \in Used
      BY <1>2, <3>1 DEF Family
    <3>2. CASE i = new
      BY <1>0, <1>2, <1>4, <3>2
    <3> QED BY <1>1, <3>1, <3>2
  <2>2. ASSUME NEW i \in Used', NEW j \in anc2[i] PROVE anc2[j] \subseteq anc2[i] /\ path2[j] = path2[i]
    <3>1. CASE i \in Used
      BY <1>2, <1>3, <2>2, <3>1 DEF Family
    <3>2. CASE i = new
      BY <1>2, <1>4, <1>5, <2>2, <3>2
    <3> QED BY <1>1, <3>1, <3>2
  <2> QED BY <1>2, <2>1, <2>2 DEF Family
<1> QED BY <1>1, <1>2, <1>6

\* A task leaves the bucket.  Either its path needs none any more, or another task of its path
\* is there, of which all are forebears that were forebears of the one that left.
LEMMA TaskLeaves ==
  ASSUME NEW path, NEW anc, CloudTypes, CloudTaskKept, Lineage(path, anc),
         CloudTypes', UNCHANGED <<idsUsed, visits, cloudSrc, cloudAsked, converted>>,
         withdrawn \subseteq withdrawn', submitting' \in {submitting, <<>>},
         NEW d, \A i \in DOMAIN bucket \ {d} : i \in DOMAIN bucket',
         \A i \in DOMAIN bucket' : bucket'[i].path = path[i],
         \A i \in DOMAIN handling' :
            \/ i \in DOMAIN handling /\ handling'[i] = handling[i]
            \/ handling'[i].path = path[i] /\ handling'[i].pc \notin {"replace", "remove"},
         d \in DOMAIN bucket =>
            \/ PathSettled(path[d])'
            \/ \E j \in DOMAIN bucket' : path[j] = path[d] /\
                  \A i \in DOMAIN handling' : handling'[i].pc = "replace" /\ i \in anc[d] => i \in anc[j]
  PROVE  CloudInv'
<1>0. Family(path, anc) /\ Known(path, anc) /\ Covered(path, anc)
  BY DEF Lineage
<1>1. \A p : PathSettled(p) => PathSettled(p)'
  BY DEF PathSettled
<1>2. Family(path, anc)' /\ Known(path, anc)'
  BY <1>0 DEF Family, Known, Used, IsChild
<1>3. ASSUME NEW i \in DOMAIN handling'
      PROVE  /\ handling'[i].pc = "remove" => PathSettled(path[i])'
             /\ handling'[i].pc = "replace" => PathSettled(path[i])' \/ \E j \in DOMAIN bucket' : i \in anc[j]
  <2>1. CASE i \in DOMAIN handling /\ handling'[i] = handling[i] /\ handling[i].pc = "replace"
    <3>1. CASE PathSettled(path[i])
      BY <1>1, <2>1, <3>1
    <3>2. ASSUME NEW j \in DOMAIN bucket, i \in anc[j] PROVE PathSettled(path[i])' \/ \E k \in DOMAIN bucket' : i \in anc[k]
      <4>1. j \in Used /\ path[i] = path[j]
        BY <1>0, <3>2 DEF CloudTypes, Family
      <4> QED BY <2>1, <3>2, <4>1
    <3> QED BY <1>0, <2>1, <3>1, <3>2 DEF Covered
  <2>2. CASE i \in DOMAIN handling /\ handling'[i] = handling[i] /\ handling[i].pc # "replace"
    BY <1>0, <1>1, <2>2 DEF Covered
  <2> QED BY <2>1, <2>2
<1>4. CloudTaskKept'
  <2> SUFFICES ASSUME NEW p \in cloudAsked' \ withdrawn', ~PathSettled(p)'
               PROVE  \E i \in DOMAIN bucket' : bucket'[i].path = p
    BY DEF CloudTaskKept, PathSettled
  <2>1. PICK i \in DOMAIN bucket : bucket[i].path = p
    BY <1>1 DEF CloudTaskKept, PathSettled
  <2>2. path[i] = p
    BY <1>0, <2>1 DEF Known
  <2> QED BY <1>0, <2>1, <2>2 DEF Known
<1>5. Covered(path, anc)'
  BY <1>3 DEF Covered
<1> QED BY <1>0, <1>2, <1>4, <1>5 DEF CloudInv, Lineage

LEMMA TaskDeleted ==
  ASSUME NEW b, NEW d
  PROVE  /\ DOMAIN Delete(b, d) = DOMAIN b \ {d}
         /\ \A i \in DOMAIN b \ {d} : Delete(b, d)[i] = b[i]
BY DEF Delete, Restrict

\* The goroutine of i goes on, or ends.
LEMMA Moves ==
  ASSUME NEW i \in DOMAIN handling, {"path", "new", "pc", "done"} \subseteq DOMAIN handling[i], NEW pc
  PROVE  /\ Goes(i, pc) =>
              /\ DOMAIN handling' = DOMAIN handling /\ handling'[i].path = handling[i].path /\ handling'[i].pc = pc
              /\ {"path", "new", "pc", "done"} \subseteq DOMAIN handling'[i]
              /\ \A j \in DOMAIN handling \ {i} : handling'[j] = handling[j]
         /\ Leaves(i) =>
              /\ DOMAIN handling' = DOMAIN handling \ {i}
              /\ \A j \in DOMAIN handling \ {i} : handling'[j] = handling[j]
<1>1. ASSUME Goes(i, pc)
      PROVE  /\ DOMAIN handling' = DOMAIN handling /\ handling'[i].path = handling[i].path /\ handling'[i].pc = pc
             /\ {"path", "new", "pc", "done"} \subseteq DOMAIN handling'[i]
             /\ \A j \in DOMAIN handling \ {i} : handling'[j] = handling[j]
  BY <1>1 DEF Goes
<1>2. ASSUME Leaves(i)
      PROVE  /\ DOMAIN handling' = DOMAIN handling \ {i}
             /\ \A j \in DOMAIN handling \ {i} : handling'[j] = handling[j]
  BY <1>2, TaskDeleted DEF Leaves
<1> QED BY <1>1, <1>2

LEMMA CloudStep == CloudInv /\ [CloudNext]_cloudVars => CloudInv'
<1> SUFFICES ASSUME CloudInv, [CloudNext]_cloudVars PROVE CloudInv'
  OBVIOUS
<1>0. CloudTypes /\ CloudTaskKept
  BY DEF CloudInv
<1>a. PICK path, anc : Lineage(path, anc)
  BY DEF CloudInv
<1>b. Family(path, anc) /\ Known(path, anc) /\ Covered(path, anc)
  BY <1>a DEF Lineage
<1>c. /\ \A i \in DOMAIN bucket : bucket[i].path = path[i]
      /\ \A i \in DOMAIN visits : visits[i].path = path[i]
      /\ \A i \in DOMAIN handling : handling[i].path = path[i]
  BY <1>b DEF Known
<1>1. ASSUME NEW p \in CloudPaths, CloudEnqueue(p) PROVE CloudInv'
  <2>1. PICK new, f, a : new = NewId /\ f = [path EXCEPT ![new] = p] /\ a = [anc EXCEPT ![new] = {}]
    OBVIOUS
  <2>2. /\ idsUsed < MaxIds /\ idsUsed' = new /\ bucket' = PutTask(bucket, new, p, FALSE)
        /\ cloudAsked' = cloudAsked \cup {p}
        /\ UNCHANGED <<visits, submitting, handling, cloudSrc, withdrawn, converted>>
    BY <1>1, <2>1 DEF CloudEnqueue
  <2>3. /\ Family(f, a)' /\ new \in Used' /\ new \notin Used /\ Used \subseteq Used' /\ f[new] = p /\ idsUsed' \in 0..MaxIds
        /\ \A i \in Used : f[i] = path[i] /\ a[i] = anc[i]
    <3>1. Adds(path, anc, new, p, {}, f, a)
      BY <2>1 DEF Adds
    <3> QED BY <1>0, <1>b, <2>2, <3>1, FreshId
  <2>4. /\ DOMAIN bucket' = DOMAIN bucket \cup {new} /\ bucket'[new].path = p
        /\ \A i \in DOMAIN bucket \ {new} : bucket'[i] = bucket[i]
    BY <2>2 DEF PutTask
  <2>5. UNCHANGED <<visits, submitting, handling, cloudSrc, withdrawn, converted>> /\ cloudAsked' = cloudAsked \cup {p}
    BY <2>2
  <2>6. CloudTypes'
    BY <1>0, <2>3, <2>4, <2>5 DEF CloudTypes
  <2>7. Known(f, a)'
    <3>1. \A n, j : IsChild(anc, n, j) => IsChild(a, n, j)' /\ j \in Used
      BY <2>3 DEF IsChild
    <3> QED BY <1>0, <1>b, <2>3, <2>4, <2>5, <3>1 DEF Known, CloudTypes
  <2>8. Covered(f, a)'
    <3>1. \A q : PathSettled(q)' = PathSettled(q)
      BY <2>5 DEF PathSettled
    <3> QED BY <1>0, <1>b, <2>3, <2>4, <2>5, <3>1 DEF Covered, CloudTypes
  <2>9. CloudTaskKept'
    <3>1. \A i \in DOMAIN bucket : i \in DOMAIN bucket' /\ bucket'[i].path = bucket[i].path
      BY <1>0, <2>3, <2>4 DEF CloudTypes
    <3> QED BY <1>0, <2>4, <2>5, <3>1 DEF CloudTaskKept
  <2> QED BY <2>3, <2>6, <2>7, <2>8, <2>9 DEF CloudInv, Lineage
<1>2. CASE ListInProgress
  <2>1. /\ visits' = bucket
        /\ UNCHANGED <<bucket, idsUsed, submitting, handling, cloudSrc, cloudAsked, withdrawn, converted>>
    BY <1>2 DEF ListInProgress
  <2>2. CloudTypes'
    BY <1>0, <2>1 DEF CloudTypes, Used
  <2>3. \A i \in DOMAIN visits' : visits'[i].path = path[i]
    BY <1>b, <2>1 DEF Known
  <2> QED BY <1>0, <1>a, <2>1, <2>2, <2>3, SameBucket
<1>3. ASSUME NEW i \in Ids, SkipSubmit(i) \/ SkipCheck(i) PROVE CloudInv'
  <2>1. /\ visits' = Delete(visits, i)
        /\ UNCHANGED <<bucket, idsUsed, submitting, handling, cloudSrc, cloudAsked, withdrawn, converted>>
    BY <1>3 DEF SkipSubmit, SkipCheck
  <2>2. CloudTypes'
    BY <1>0, <2>1, TaskDeleted DEF CloudTypes, Used
  <2>3. \A j \in DOMAIN visits' : visits'[j].path = path[j]
    <3>1. DOMAIN visits' \subseteq DOMAIN visits /\ \A j \in DOMAIN visits' : visits'[j] = visits[j]
      BY <2>1, TaskDeleted
    <3> QED BY <1>c, <3>1
  <2> QED BY <1>0, <1>a, <2>1, <2>2, <2>3, SameBucket
<1>4. ASSUME NEW i \in Ids, CheckTask(i) PROVE CloudInv'
  <2>1. /\ visits' = Delete(visits, i) /\ i \in DOMAIN visits
        /\ DOMAIN handling' = DOMAIN handling \cup {i} /\ i \notin DOMAIN handling
        /\ \A j \in DOMAIN handling : handling'[j] = handling[j]
        /\ handling'[i].path = visits[i].path /\ handling'[i].pc \in {"download", "requeue"}
        /\ {"path", "new", "pc", "done"} \subseteq DOMAIN handling'[i]
        /\ UNCHANGED <<bucket, idsUsed, submitting, cloudSrc, cloudAsked, withdrawn, converted>>
    BY <1>4 DEF CheckTask
  <2>2. CloudTypes'
    <3>1. DOMAIN visits' \subseteq DOMAIN visits
      <4>1. visits' = Delete(visits, i)
        BY <2>1
      <4>2. DOMAIN Delete(visits, i) \subseteq DOMAIN visits
        BY TaskDeleted
      <4> QED BY <4>1, <4>2
    <3>2. \A j \in DOMAIN handling' : {"path", "new", "pc", "done"} \subseteq DOMAIN handling'[j]
      BY <1>0, <2>1 DEF CloudTypes
    <3>3. DOMAIN bucket' \subseteq Used' /\ DOMAIN visits' \subseteq Used' /\ DOMAIN handling' \subseteq Used'
      BY <1>0, <2>1, <3>1 DEF CloudTypes, Used
    <3>4. idsUsed' \in 0..MaxIds /\ DOMAIN cloudSrc' = CloudPaths /\ cloudAsked' \subseteq CloudPaths
      BY <1>0, <2>1 DEF CloudTypes
    <3> QED BY <3>2, <3>3, <3>4 DEF CloudTypes
  <2>3. \A j \in DOMAIN visits' : visits'[j].path = path[j]
    <3>1. DOMAIN visits' \subseteq DOMAIN visits /\ \A j \in DOMAIN visits' : visits'[j] = visits[j]
      <4>1. visits' = Delete(visits, i)
        BY <2>1
      <4> QED BY <4>1, TaskDeleted
    <3> QED BY <1>c, <3>1
  <2>4. visits[i].path = path[i]
    BY <1>b, <2>1 DEF Known
  <2> QED BY <1>0, <1>a, <2>1, <2>2, <2>3, <2>4, SameBucket
<1>5. CASE StoreFails \/ Crash \/ \E i \in Ids : JobEnds(i) \/ CancelLooks(i) \/ CancelFails(i)
  <2>1. /\ UNCHANGED <<bucket, idsUsed, cloudSrc, cloudAsked, withdrawn, converted>>
        /\ visits' \in {visits, <<>>} /\ handling' \in {handling, <<>>} /\ submitting' \in {submitting, <<>>}
    BY <1>5 DEF StoreFails, Crash, JobEnds, CancelLooks, CancelFails
  <2>2. DOMAIN <<>> = {}
    OBVIOUS
  <2>3. CloudTypes'
    BY <1>0, <2>1, <2>2 DEF CloudTypes, Used
  <2>4. \A j \in DOMAIN visits' : visits'[j].path = path[j]
    BY <1>b, <2>1, <2>2 DEF Known
  <2> QED BY <1>0, <1>a, <2>1, <2>2, <2>3, <2>4, SameBucket
<1>6. ASSUME NEW i \in Ids, DownloadFails(i) \/ DownloadGood(i) \/ DownloadBad(i) \/ DeleteUploaded(i) \/ EndHandling(i)
      PROVE  CloudInv'
  <2>1. /\ i \in DOMAIN handling /\ UNCHANGED <<bucket, idsUsed, visits, submitting, cloudAsked, withdrawn>>
        /\ Leaves(i) \/ Goes(i, "requeue") \/ (Goes(i, "remove") /\ File(i) \in converted')
        /\ converted \subseteq converted'
        /\ cloudSrc' \in {cloudSrc, [cloudSrc EXCEPT ![File(i)] = "deleted"]}
    <3>1. CASE DownloadFails(i) \/ EndHandling(i)
      BY <3>1 DEF DownloadFails, EndHandling, HandlerAt
    <3>2. CASE DownloadGood(i)
      BY <3>2 DEF DownloadGood, HandlerAt
    <3>3. CASE DownloadBad(i)
      BY <3>3 DEF DownloadBad, HandlerAt
    <3>4. CASE DeleteUploaded(i)
      BY <3>4 DEF DeleteUploaded, HandlerAt
    <3> QED BY <1>6, <3>1, <3>2, <3>3, <3>4
  <2>2. File(i) = path[i] /\ {"path", "new", "pc", "done"} \subseteq DOMAIN handling[i]
    BY <1>0, <1>b, <2>1 DEF Known, CloudTypes, File
  <2>3. DOMAIN cloudSrc' = CloudPaths /\ \A p \in CloudPaths : cloudSrc[p] = "deleted" => cloudSrc'[p] = "deleted"
    BY <1>0, <2>1 DEF CloudTypes
  <2>4. /\ DOMAIN handling' \subseteq DOMAIN handling
        /\ \A j \in DOMAIN handling' : {"path", "new", "pc", "done"} \subseteq DOMAIN handling'[j]
        /\ \A j \in DOMAIN handling' :
            \/ j \in DOMAIN handling /\ handling'[j] = handling[j]
            \/ /\ handling'[j].path = path[j] /\ handling'[j].pc # "replace"
               /\ handling'[j].pc = "remove" => path[j] \in converted'
    <3>1. CASE Leaves(i)
      <4>1. DOMAIN handling' = DOMAIN handling \ {i} /\ \A j \in DOMAIN handling \ {i} : handling'[j] = handling[j]
        BY <3>1, TaskDeleted DEF Leaves
      <4> QED BY <1>0, <4>1 DEF CloudTypes
    <3>2. ASSUME NEW pc, Goes(i, pc)
          PROVE  /\ DOMAIN handling' = DOMAIN handling /\ handling'[i].path = handling[i].path /\ handling'[i].pc = pc
                 /\ {"path", "new", "pc", "done"} \subseteq DOMAIN handling'[i]
                 /\ \A j \in DOMAIN handling \ {i} : handling'[j] = handling[j]
      BY <2>1, <2>2, <3>2, Moves
    <3>3. handling[i].path = path[i]
      BY <2>2 DEF File
    <3>4. CASE Goes(i, "requeue")
      BY <1>0, <3>2, <3>3, <3>4 DEF CloudTypes
    <3>5. CASE Goes(i, "remove") /\ File(i) \in converted'
      BY <1>0, <2>2, <3>2, <3>3, <3>5 DEF CloudTypes
    <3> QED BY <2>1, <3>1, <3>4, <3>5
  <2>5. CloudTypes'
    BY <1>0, <2>1, <2>3, <2>4 DEF CloudTypes, Used
  <2>6. \A j \in DOMAIN visits' : visits'[j].path = path[j]
    BY <1>b, <2>1 DEF Known
  <2> QED BY <1>0, <1>a, <2>1, <2>3, <2>4, <2>5, <2>6, SameBucket
<1>7. ASSUME NEW i \in Ids, Submit(i) PROVE CloudInv'
  <2>1. /\ i \in DOMAIN visits /\ idsUsed < MaxIds /\ idsUsed' = NewId
        /\ submitting' = [id |-> i, path |-> visits[i].path, new |-> NewId]
        /\ visits' = Delete(visits, i)
        /\ UNCHANGED <<bucket, handling, cloudSrc, cloudAsked, withdrawn, converted>>
    BY <1>7 DEF Submit
  <2>2. i \in Used /\ visits[i].path = path[i] /\ path[i] \in CloudPaths
    BY <1>0, <1>b, <2>1 DEF CloudTypes, Known, Family
  <2>3. PICK new, old, f, a :
          /\ new = NewId /\ old = anc[i] \cup {i}
          /\ f = [path EXCEPT ![new] = path[i]] /\ a = [anc EXCEPT ![new] = old]
    OBVIOUS
  <2>4. /\ Family(f, a)' /\ new \in Used' /\ new \notin Used /\ Used \subseteq Used' /\ idsUsed' \in 0..MaxIds
        /\ a[new] = anc[i] \cup {i} /\ \A j \in Used : f[j] = path[j] /\ a[j] = anc[j]
    <3>1. \E j \in Used : path[j] = path[i] /\ old = anc[j] \cup {j}
      BY <2>2, <2>3
    <3>2. path[i] \in CloudPaths /\ idsUsed < MaxIds /\ idsUsed' = new
      BY <2>1, <2>2, <2>3
    <3>3. /\ Family(f, a)' /\ new \in Used' /\ new \notin Used /\ Used \subseteq Used' /\ f[new] = path[i] /\ a[new] = old
          /\ idsUsed' \in 0..MaxIds /\ \A j \in Used : f[j] = path[j] /\ a[j] = anc[j]
      <4>1. Adds(path, anc, new, path[i], old, f, a)
        BY <2>3, <3>1, <3>2 DEF Adds
      <4> QED BY <1>0, <1>b, <3>2, <4>1, FreshId
    <3> QED BY <2>3, <3>3
  <2>5. CloudTypes'
    BY <1>0, <2>1, <2>4, TaskDeleted DEF CloudTypes
  <2>6. IsChild(a, new, i)'
    BY <2>2, <2>4 DEF IsChild
  <2>7. Known(f, a)'
    <3>1. \A n, j : IsChild(anc, n, j) => IsChild(a, n, j)'
      BY <2>4 DEF IsChild
    <3>2. /\ submitting'.id = i /\ submitting'.new = new /\ submitting'.path = path[i]
          /\ UNCHANGED <<bucket, handling>>
      BY <2>1, <2>2, <2>3
    <3>3. \A j \in DOMAIN visits' : visits'[j].path = path[j] /\ j \in Used
      <4>1. DOMAIN visits' \subseteq DOMAIN visits /\ \A j \in DOMAIN visits' : visits'[j] = visits[j]
        BY <2>1, TaskDeleted
      <4> QED BY <1>0, <1>c, <4>1 DEF CloudTypes
    <3> QED BY <1>0, <1>b, <2>2, <2>4, <2>6, <3>1, <3>2, <3>3 DEF Known, CloudTypes
  <2>8. Covered(f, a)' /\ CloudTaskKept'
    BY <1>0, <1>b, <2>1, <2>4 DEF Covered, CloudTypes, PathSettled, CloudTaskKept
  <2> QED BY <2>4, <2>5, <2>7, <2>8 DEF CloudInv, Lineage
<1>8. ASSUME NEW i \in Ids, Requeue(i) PROVE CloudInv'
  <2>1. /\ i \in DOMAIN handling /\ handling[i].pc = "requeue" /\ idsUsed < MaxIds /\ idsUsed' = NewId
        /\ bucket' = PutTask(bucket, NewId, File(i), FALSE)
        /\ handling' = [handling EXCEPT ![i].pc = "replace", ![i].new = NewId]
        /\ UNCHANGED <<visits, submitting, cloudSrc, cloudAsked, withdrawn, converted>>
    BY <1>8 DEF Requeue, HandlerAt
  <2>2. i \in Used /\ handling[i].path = path[i] /\ File(i) = path[i] /\ path[i] \in CloudPaths
    BY <1>0, <1>b, <2>1 DEF CloudTypes, Known, Family, File
  <2>3. PICK new, old, f, a :
          /\ new = NewId /\ old = anc[i] \cup {i}
          /\ f = [path EXCEPT ![new] = path[i]] /\ a = [anc EXCEPT ![new] = old]
    OBVIOUS
  <2>4. /\ Family(f, a)' /\ new \in Used' /\ new \notin Used /\ Used \subseteq Used' /\ idsUsed' \in 0..MaxIds
        /\ f[new] = path[i] /\ a[new] = anc[i] \cup {i} /\ \A j \in Used : f[j] = path[j] /\ a[j] = anc[j]
    <3>1. \E j \in Used : path[j] = path[i] /\ old = anc[j] \cup {j}
      BY <2>2, <2>3
    <3>2. path[i] \in CloudPaths /\ idsUsed < MaxIds /\ idsUsed' = new
      BY <2>1, <2>2, <2>3
    <3>3. /\ Family(f, a)' /\ new \in Used' /\ new \notin Used /\ Used \subseteq Used' /\ f[new] = path[i] /\ a[new] = old
          /\ idsUsed' \in 0..MaxIds /\ \A j \in Used : f[j] = path[j] /\ a[j] = anc[j]
      <4>1. Adds(path, anc, new, path[i], old, f, a)
        BY <2>3, <3>1, <3>2 DEF Adds
      <4> QED BY <1>0, <1>b, <3>2, <4>1, FreshId
    <3> QED BY <2>3, <3>3
  <2>5. /\ DOMAIN handling' = DOMAIN handling
        /\ handling'[i].path = path[i] /\ handling'[i].pc = "replace" /\ handling'[i].new = new
        /\ {"path", "new", "pc", "done"} \subseteq DOMAIN handling'[i]
        /\ \A j \in DOMAIN handling \ {i} : handling'[j] = handling[j]
    <3>1. {"path", "new", "pc", "done"} \subseteq DOMAIN handling[i]
      BY <1>0, <2>1 DEF CloudTypes
    <3> QED BY <2>1, <2>2, <2>3, <3>1
  <2>6. /\ DOMAIN bucket' = DOMAIN bucket \cup {new} /\ bucket'[new].path = path[i]
        /\ \A j \in DOMAIN bucket \ {new} : bucket'[j] = bucket[j]
    BY <2>1, <2>2, <2>3 DEF PutTask
  <2>7. UNCHANGED <<visits, submitting, cloudSrc, cloudAsked, withdrawn, converted>>
    BY <2>1
  <2>8. CloudTypes'
    BY <1>0, <2>4, <2>5, <2>6, <2>7 DEF CloudTypes
  <2>9. Known(f, a)'
    <3>1. IsChild(a, new, i)'
      BY <2>2, <2>4 DEF IsChild
    <3>2. \A n, j : IsChild(anc, n, j) => IsChild(a, n, j)'
      BY <2>4 DEF IsChild
    <3>3. submitting # <<>> => submitting.id \in Used
      BY <1>b DEF Known, IsChild
    <3> QED BY <1>0, <1>b, <2>4, <2>5, <2>6, <2>7, <3>1, <3>2, <3>3 DEF Known, CloudTypes
  <2>10. Covered(f, a)'
    <3>1. \A p : PathSettled(p)' = PathSettled(p)
      BY <2>7 DEF PathSettled
    <3>2. i \in a[new] /\ new \in DOMAIN bucket' /\ DOMAIN bucket \subseteq DOMAIN bucket'
      BY <2>4, <2>6
    <3> QED BY <1>0, <1>b, <2>4, <2>5, <3>1, <3>2 DEF Covered, CloudTypes
  <2>11. CloudTaskKept'
    BY <1>0, <2>4, <2>6, <2>7 DEF CloudTaskKept, CloudTypes
  <2> QED BY <2>4, <2>8, <2>9, <2>10, <2>11 DEF CloudInv, Lineage
<1>9. CASE StoreJob
  <2>1. PICK d, n : d = submitting.id /\ n = submitting.new
    OBVIOUS
  <2>2. /\ bucket' = PutTask(Delete(bucket, d), n, submitting.path, TRUE)
        /\ submitting' = <<>> /\ submitting # <<>>
        /\ UNCHANGED <<idsUsed, visits, handling, cloudSrc, cloudAsked, withdrawn, converted>>
    BY <1>9, <2>1 DEF StoreJob, Resubmitted
  <2>3. IsChild(anc, n, d) /\ submitting.path = path[d]
    BY <1>b, <2>1, <2>2 DEF Known
  <2>4. path[n] = path[d] /\ d \in anc[n] /\ anc[d] \subseteq anc[n] /\ n \in Used
    BY <1>b, <2>3 DEF IsChild, Family
  <2>5. /\ DOMAIN bucket' = (DOMAIN bucket \ {d}) \cup {n} /\ bucket'[n].path = path[n]
        /\ \A j \in DOMAIN bucket' \ {n} : bucket'[j] = bucket[j]
    <3>1. PICK b : b = Delete(bucket, d)
      OBVIOUS
    <3>2. DOMAIN b = DOMAIN bucket \ {d} /\ \A j \in DOMAIN bucket \ {d} : b[j] = bucket[j]
      BY <3>1, TaskDeleted
    <3>3. bucket' = PutTask(b, n, submitting.path, TRUE)
      BY <2>2, <3>1
    <3> QED BY <2>3, <2>4, <3>2, <3>3 DEF PutTask
  <2>6. UNCHANGED <<idsUsed, visits, handling, cloudSrc, cloudAsked, withdrawn, converted>> /\ submitting' \in {submitting, <<>>}
    BY <2>2
  <2>7. CloudTypes'
    BY <1>0, <2>4, <2>5, <2>6 DEF CloudTypes, Used
  <2>8. \A i \in DOMAIN bucket' : bucket'[i].path = path[i]
    BY <1>b, <2>5 DEF Known
  <2> QED BY <1>0, <1>a, <2>4, <2>5, <2>6, <2>7, <2>8, TaskLeaves
<1>10. ASSUME NEW i \in Ids, RemoveTask(i) \/ GiveUp(i) PROVE CloudInv'
  <2>1. /\ i \in DOMAIN handling /\ bucket' = Delete(bucket, i)
        /\ Goes(i, "succeeded") \/ Goes(i, "end")
        /\ handling[i].pc = "remove" \/ cloudSrc[File(i)] = "deleted"
        /\ UNCHANGED <<idsUsed, visits, submitting, cloudSrc, cloudAsked, withdrawn, converted>>
    BY <1>10 DEF RemoveTask, GiveUp, HandlerAt
  <2>2. /\ handling[i].path = path[i] /\ {"path", "new", "pc", "done"} \subseteq DOMAIN handling[i]
        /\ PathSettled(path[i])
    BY <1>0, <1>b, <2>1 DEF Known, CloudTypes, Covered, File, PathSettled
  <2>3. /\ DOMAIN handling' = DOMAIN handling /\ handling'[i].path = path[i] /\ handling'[i].pc \in {"succeeded", "end"}
        /\ {"path", "new", "pc", "done"} \subseteq DOMAIN handling'[i]
        /\ \A j \in DOMAIN handling \ {i} : handling'[j] = handling[j]
    BY <2>1, <2>2, Moves
  <2>4. UNCHANGED <<idsUsed, visits, submitting, cloudSrc, cloudAsked, withdrawn, converted>>
    BY <2>1
  <2>5. /\ DOMAIN bucket' = DOMAIN bucket \ {i} /\ \A j \in DOMAIN bucket' : bucket'[j] = bucket[j]
    BY <2>1, TaskDeleted
  <2>6. CloudTypes'
    BY <1>0, <2>3, <2>4, <2>5 DEF CloudTypes, Used
  <2>7. \A j \in DOMAIN bucket' : bucket'[j].path = path[j]
    BY <1>b, <2>5 DEF Known
  <2>8. PathSettled(path[i])'
    BY <2>2, <2>4 DEF PathSettled
  <2>9. \A j \in DOMAIN handling' :
            \/ j \in DOMAIN handling /\ handling'[j] = handling[j]
            \/ handling'[j].path = path[j] /\ handling'[j].pc \notin {"replace", "remove"}
    BY <2>3
  <2>10. withdrawn \subseteq withdrawn' /\ submitting' \in {submitting, <<>>} /\ \A j \in DOMAIN bucket \ {i} : j \in DOMAIN bucket'
    BY <2>4, <2>5
  <2> QED BY <1>0, <1>a, <2>4, <2>6, <2>7, <2>8, <2>9, <2>10, TaskLeaves
<1>11. ASSUME NEW i \in Ids, Replace(i) PROVE CloudInv'
  <2>1. PICK n, pc : n = handling[i].new /\ pc = IF handling[i].done THEN "succeeded" ELSE "end"
    OBVIOUS
  <2>2. /\ i \in DOMAIN handling /\ handling[i].pc = "replace"
        /\ \/ bucket' = Delete(bucket, i) /\ Goes(i, pc)
           \/ i \in DOMAIN bucket /\ bucket' = Delete(bucket, n) /\ Goes(i, "end")
        /\ UNCHANGED <<idsUsed, visits, submitting, cloudSrc, cloudAsked, withdrawn, converted>>
    BY <1>11, <2>1 DEF Replace, HandlerAt
  <2>3. /\ handling[i].path = path[i] /\ {"path", "new", "pc", "done"} \subseteq DOMAIN handling[i]
        /\ IsChild(anc, n, i)
        /\ PathSettled(path[i]) \/ \E j \in DOMAIN bucket : i \in anc[j]
    BY <1>0, <1>b, <2>1, <2>2 DEF Known, CloudTypes, Covered
  <2>4. /\ path[n] = path[i] /\ anc[n] = anc[i] \cup {i} /\ n # i /\ i \in Used
        /\ \A j \in DOMAIN bucket : i \in anc[j] => path[j] = path[i] /\ anc[i] \subseteq anc[j] /\ j # i
    BY <1>0, <1>b, <2>3 DEF IsChild, Family, CloudTypes, Used
  <2>5. /\ DOMAIN handling' = DOMAIN handling /\ handling'[i].path = path[i] /\ handling'[i].pc \in {"succeeded", "end"}
        /\ {"path", "new", "pc", "done"} \subseteq DOMAIN handling'[i]
        /\ \A j \in DOMAIN handling \ {i} : handling'[j] = handling[j]
    BY <2>1, <2>2, <2>3, Moves
  <2>6. UNCHANGED <<idsUsed, visits, submitting, cloudSrc, cloudAsked, withdrawn, converted>>
    BY <2>2
  <2>7. \A j \in DOMAIN handling' :
            \/ j \in DOMAIN handling /\ handling'[j] = handling[j]
            \/ handling'[j].path = path[j] /\ handling'[j].pc \notin {"replace", "remove"}
    BY <2>5
  <2>8. withdrawn \subseteq withdrawn' /\ submitting' \in {submitting, <<>>}
    BY <2>6
  <2>9. \A p : PathSettled(p) => PathSettled(p)'
    BY <2>6 DEF PathSettled
  <2>10. ASSUME NEW d, bucket' = Delete(bucket, d)
         PROVE  /\ DOMAIN bucket' = DOMAIN bucket \ {d} /\ \A j \in DOMAIN bucket \ {d} : j \in DOMAIN bucket'
                /\ \A j \in DOMAIN bucket' : bucket'[j].path = path[j]
                /\ CloudTypes'
    <3>1. DOMAIN bucket' = DOMAIN bucket \ {d} /\ \A j \in DOMAIN bucket' : bucket'[j] = bucket[j]
      BY <2>10, TaskDeleted
    <3> QED BY <1>0, <1>b, <2>5, <2>6, <3>1 DEF CloudTypes, Used, Known
  <2>11. CASE bucket' = Delete(bucket, i)
    <3>1. /\ DOMAIN bucket' = DOMAIN bucket \ {i} /\ \A j \in DOMAIN bucket' : bucket'[j].path = path[j]
          /\ \A j \in DOMAIN bucket \ {i} : j \in DOMAIN bucket'
          /\ CloudTypes'
      BY <2>10, <2>11
    <3>2. \/ PathSettled(path[i])'
          \/ \E j \in DOMAIN bucket' : path[j] = path[i] /\ \A k : k \in anc[i] => k \in anc[j]
      BY <2>3, <2>4, <2>9, <3>1
    <3> QED BY <1>0, <1>a, <2>6, <2>7, <2>8, <3>1, <3>2, TaskLeaves
  <2>12. CASE i \in DOMAIN bucket /\ bucket' = Delete(bucket, n)
    <3>1. /\ DOMAIN bucket' = DOMAIN bucket \ {n} /\ \A j \in DOMAIN bucket' : bucket'[j].path = path[j]
          /\ \A j \in DOMAIN bucket \ {n} : j \in DOMAIN bucket'
          /\ CloudTypes'
      BY <2>10, <2>12
    <3>2. \E j \in DOMAIN bucket' : path[j] = path[n] /\
             \A k \in DOMAIN handling' : handling'[k].pc = "replace" /\ k \in anc[n] => k \in anc[j]
      BY <2>4, <2>5, <2>12, <3>1
    <3> QED BY <1>0, <1>a, <2>6, <2>7, <2>8, <3>1, <3>2, TaskLeaves
  <2> QED BY <2>2, <2>11, <2>12
<1>12. ASSUME NEW i \in Ids, CancelDeletes(i) PROVE CloudInv'
  <2>1. /\ bucket' = Delete(bucket, i)
        /\ withdrawn' = IF i \in DOMAIN bucket THEN withdrawn \cup {bucket[i].path} ELSE withdrawn
        /\ UNCHANGED <<idsUsed, visits, submitting, handling, cloudSrc, cloudAsked, converted>>
    BY <1>12 DEF CancelDeletes
  <2>2. DOMAIN bucket' = DOMAIN bucket \ {i} /\ \A j \in DOMAIN bucket' : bucket'[j] = bucket[j]
    BY <2>1, TaskDeleted
  <2>3. i \in DOMAIN bucket => PathSettled(path[i])'
    BY <1>b, <2>1 DEF Known, PathSettled
  <2>4. withdrawn \subseteq withdrawn' /\ submitting' \in {submitting, <<>>} /\ \A j \in DOMAIN bucket \ {i} : j \in DOMAIN bucket'
    BY <2>1, <2>2
  <2>5. CloudTypes'
    BY <1>0, <2>1, <2>2 DEF CloudTypes, Used
  <2>6. \A j \in DOMAIN bucket' : bucket'[j].path = path[j]
    BY <1>b, <2>2 DEF Known
  <2>7. UNCHANGED <<idsUsed, visits, handling, cloudSrc, cloudAsked, converted>>
    BY <2>1
  <2> QED BY <1>0, <1>a, <2>3, <2>4, <2>5, <2>6, <2>7, TaskLeaves
<1>13. CASE UNCHANGED cloudVars
  <2>1. /\ UNCHANGED <<bucket, idsUsed, visits, submitting, handling, cloudSrc, cloudAsked, withdrawn, converted>>
    BY <1>13 DEF cloudVars
  <2>2. CloudTypes' /\ \A j \in DOMAIN visits' : visits'[j].path = path[j]
    BY <1>0, <1>b, <2>1 DEF CloudTypes, Used, Known
  <2> QED BY <1>0, <1>a, <2>1, <2>2, SameBucket
<1> QED BY <1>1, <1>2, <1>3, <1>4, <1>5, <1>6, <1>7, <1>8, <1>9, <1>10, <1>11, <1>12, <1>13 DEF CloudNext

\* Whatever fails at the provider or in a transaction, however stale the list the loop works on,
\* and wherever the process dies, a file that was enqueued and not cancelled has a task until its
\* conversion was downloaded or the file is gone (cloud.go: submitTask, handleFailed, Cancel).
THEOREM CloudNeverLoses == CloudSpec => []CloudTaskKept
<1>1. ASSUME CloudInit PROVE CloudInv
  <2>1. PICK f, a : f = [i \in Ids |-> {}] /\ a = [i \in Ids |-> {}]
    OBVIOUS
  <2>2. /\ idsUsed = 0 /\ DOMAIN cloudSrc = CloudPaths /\ cloudAsked = {}
        /\ bucket = <<>> /\ visits = <<>> /\ handling = <<>> /\ submitting = <<>> /\ DOMAIN <<>> = {}
    BY <1>1 DEF CloudInit
  <2>3. Used = {}
    BY <2>2 DEF Used
  <2>4. Lineage(f, a)
    BY <2>1, <2>2, <2>3 DEF Lineage, Family, Known, Covered
  <2>5. CloudTypes /\ CloudTaskKept
    BY <2>2, <2>3, CloudAssumption DEF CloudTypes, CloudTaskKept
  <2> QED BY <2>4, <2>5 DEF CloudInv
<1>2. CloudInv => CloudTaskKept
  BY DEF CloudInv
<1> QED BY <1>1, <1>2, CloudStep, PTL DEF CloudSpec

(***************************************************************************)
(* DanmakuSidecar.  A discard is under way for no kept segment; a sidecar  *)
(* whose discard was queued is in the set of pending ones, or was opened   *)
(* after its discard; and once the write loop looks into the set no more,  *)
(* exiting has been raised for the finalizers that come late.              *)
(***************************************************************************)

SidecarTypes ==
    /\ seg \in 0..MaxSegments /\ rotateCh \in 0..MaxSegments
    /\ fpc \in [Segments -> {"none", "discard", "queue", "signal", "check", "done"}]
    /\ pending \subseteq Segments /\ sidecars \subseteq Segments /\ opened \subseteq Segments
    /\ wpc \in {"open", "rotate", "finalize", "reopen"} => req \in Segments

\* A segment is finalized after it was recorded, and the write loop starts with the first.
RecordedFirst ==
    /\ capPc # "segment" => seg \in Segments /\ fpc[seg] = "none"
    /\ \A k \in Segments : k > seg => fpc[k] = "none"
    /\ seg = 0 => wpc = "none"

\* The video of a kept segment was finalized, and only the others are discarded.
DiscardsUnkept ==
    /\ \A k \in kept \cap Segments : fpc[k] = "done"
    /\ \A k \in pending : fpc[k] \in {"signal", "check", "done"} /\ k \notin kept

\* A sidecar whose discard was queued is pending, or was opened after its discard.
QueuedIsPending == \A k \in sidecars \ (kept \cup pending) :
    fpc[k] \in {"signal", "check", "done"} => k \in overtaken

\* After the last look of the write loop, whoever has queued a discard will see exiting.
LateSeesExiting ==
    /\ wpc \in {"lastapply", "remove", "done"} => exiting
    /\ wpc \in {"remove", "done"} => \A k \in pending \cap sidecars : fpc[k] \in {"signal", "check"}

SidecarInv ==
    /\ SidecarTypes /\ RecordedFirst /\ DiscardsUnkept
    /\ KeptSidecarSurvives /\ QueuedIsPending /\ LateSeesExiting

\* A step of the write loop that leaves the files, the set of discards and the flag alone.
LEMMA LoopMoves ==
  ASSUME SidecarInv, seg # 0,
         UNCHANGED <<seg, capPc, fpc, kept, pending, sidecars, opened, overtaken, exiting>>,
         rotateCh' \in {rotateCh, 0}, wpc' \in {"open", "rotate", "finalize", "reopen"} => req' \in Segments,
         wpc' \notin {"lastapply", "remove", "done"}
  PROVE  SidecarInv'
BY SidecarAssumption DEF SidecarInv, SidecarTypes, RecordedFirst, DiscardsUnkept, KeptSidecarSurvives, QueuedIsPending, LateSeesExiting

\* openSegment: a sidecar that is opened is not pending unless its discard is still to come.
LEMMA Opens ==
  ASSUME SidecarInv, NEW k \in Segments, OpenSidecar(k), seg # 0, wpc' \in {"select", "apply"},
         UNCHANGED <<seg, capPc, fpc, kept, pending, rotateCh, exiting>>
  PROVE  SidecarInv'
<1>1. CASE UNCHANGED <<sidecars, opened, overtaken>>
  BY <1>1 DEF SidecarInv, SidecarTypes, RecordedFirst, DiscardsUnkept, KeptSidecarSurvives, QueuedIsPending, LateSeesExiting
<1>2. CASE sidecars' = sidecars \cup {k} /\ opened' = opened \cup {k}
            /\ overtaken' = overtaken \cup {x \in {k} \ (kept \cup pending) : fpc[x] \in {"signal", "check", "done"}}
  BY <1>2 DEF SidecarInv, SidecarTypes, RecordedFirst, DiscardsUnkept, KeptSidecarSurvives, QueuedIsPending, LateSeesExiting
<1> QED BY <1>1, <1>2 DEF OpenSidecar, histVars

LEMMA SidecarStep == SidecarInv /\ [SidecarNext]_sidecarVars => SidecarInv'
<1> SUFFICES ASSUME SidecarInv, [SidecarNext]_sidecarVars PROVE SidecarInv'
  OBVIOUS
<1> USE SidecarAssumption DEF Segments
<1>0. /\ SidecarTypes /\ RecordedFirst /\ DiscardsUnkept
      /\ KeptSidecarSurvives /\ QueuedIsPending /\ LateSeesExiting
  BY DEF SidecarInv
<1>1. CASE StartSession
  BY <1>0, <1>1 DEF StartSession, chanVars, histVars, SidecarInv, SidecarTypes, RecordedFirst, DiscardsUnkept,
     KeptSidecarSurvives, QueuedIsPending, LateSeesExiting
<1>2. CASE NextSegment
  BY <1>0, <1>2 DEF NextSegment, chanVars, writeLoopVars, histVars, SidecarInv, SidecarTypes, RecordedFirst, DiscardsUnkept,
     KeptSidecarSurvives, QueuedIsPending, LateSeesExiting
<1>3. CASE RotateSend \/ RotateDrain
  <2>1. /\ capPc \in {"send", "drain"} /\ rotateCh' \in {rotateCh, seg, 0}
        /\ UNCHANGED <<seg, fpc, kept, pending, sidecars, opened, overtaken, wpc, req, exiting>>
    BY <1>3 DEF RotateSend, RotateDrain, writeLoopVars, histVars
  <2>2. SidecarTypes' /\ RecordedFirst'
    BY <1>0, <2>1 DEF SidecarTypes, RecordedFirst
  <2> QED BY <1>0, <2>1, <2>2 DEF SidecarInv, DiscardsUnkept, KeptSidecarSurvives, QueuedIsPending, LateSeesExiting
<1>4. ASSUME NEW keep \in BOOLEAN, SegmentEnds(keep) PROVE SidecarInv'
  <2>1. /\ capPc' = "segment" /\ seg \in Segments /\ fpc[seg] = "none"
        /\ fpc' = [fpc EXCEPT ![seg] = IF keep THEN "done" ELSE "discard"]
        /\ kept' = IF keep THEN kept \cup {seg} ELSE kept
        /\ UNCHANGED <<seg, pending, sidecars, opened, overtaken, wpc, req, rotateCh, exiting>>
    BY <1>0, <1>4 DEF SegmentEnds, RecordedFirst, chanVars, writeLoopVars, histVars
  <2>2. /\ fpc'[seg] = IF keep THEN "done" ELSE "discard"
        /\ \A k \in Segments \ {seg} : fpc'[k] = fpc[k] /\ (k \in kept' <=> k \in kept)
        /\ seg \in kept' <=> keep \/ seg \in kept
    BY <1>0, <2>1 DEF SidecarTypes
  <2>3. SidecarTypes' /\ RecordedFirst'
    BY <1>0, <2>1, <2>2 DEF SidecarTypes, RecordedFirst
  <2>4. DiscardsUnkept'
    <3>1. seg \notin pending /\ pending \subseteq Segments
      BY <1>0, <2>1 DEF SidecarTypes, DiscardsUnkept
    <3>2. seg \in kept' => fpc'[seg] = "done"
      BY <1>0, <2>1, <2>2 DEF DiscardsUnkept
    <3> QED BY <1>0, <2>1, <2>2, <3>1, <3>2 DEF DiscardsUnkept
  <2>5. KeptSidecarSurvives' /\ QueuedIsPending'
    BY <1>0, <2>1, <2>2 DEF SidecarTypes, DiscardsUnkept, KeptSidecarSurvives, QueuedIsPending
  <2>6. LateSeesExiting'
    BY <1>0, <2>1, <2>2 DEF SidecarTypes, DiscardsUnkept, LateSeesExiting
  <2> QED BY <2>3, <2>4, <2>5, <2>6 DEF SidecarInv
<1>5. ASSUME NEW k \in Segments, DiscardLoad(k) PROVE SidecarInv'
  <2>1. /\ fpc[k] = "discard" /\ sidecars' \in {sidecars, sidecars \ {k}}
        /\ mapped \/ sidecars' = sidecars \ {k}
        /\ fpc' = [fpc EXCEPT ![k] = IF mapped THEN "queue" ELSE "done"]
        /\ UNCHANGED <<seg, capPc, kept, pending, opened, overtaken, wpc, req, rotateCh, exiting>>
    BY <1>5 DEF DiscardLoad, chanVars, writeLoopVars, histVars
  <2>2. /\ fpc'[k] = IF mapped THEN "queue" ELSE "done"
        /\ \A o \in Segments \ {k} : fpc'[o] = fpc[o]
    BY <1>0, <2>1 DEF SidecarTypes
  <2>3. SidecarTypes' /\ RecordedFirst'
    BY <1>0, <2>1, <2>2 DEF SidecarTypes, RecordedFirst
  <2>4. k \notin kept /\ k \notin pending /\ pending \subseteq Segments
    BY <1>0, <2>1 DEF SidecarTypes, DiscardsUnkept
  <2>5. DiscardsUnkept'
    BY <1>0, <2>1, <2>2, <2>4 DEF DiscardsUnkept
  <2>6. KeptSidecarSurvives'
    BY <1>0, <2>1, <2>2, <2>4 DEF SidecarTypes, KeptSidecarSurvives
  <2>7. QueuedIsPending'
    BY <1>0, <2>1, <2>2 DEF SidecarTypes, QueuedIsPending
  <2>8. LateSeesExiting'
    BY <1>0, <2>1, <2>2, <2>4 DEF SidecarTypes, LateSeesExiting
  <2> QED BY <2>3, <2>5, <2>6, <2>7, <2>8 DEF SidecarInv
<1>6. ASSUME NEW k \in Segments, DiscardQueue(k) PROVE SidecarInv'
  BY <1>0, <1>6 DEF DiscardQueue, writeLoopVars, histVars, SidecarInv, SidecarTypes, RecordedFirst, DiscardsUnkept,
     KeptSidecarSurvives, QueuedIsPending, LateSeesExiting
<1>7. ASSUME NEW k \in Segments, DiscardSignal(k) PROVE SidecarInv'
  BY <1>0, <1>7 DEF DiscardSignal, writeLoopVars, histVars, SidecarInv, SidecarTypes, RecordedFirst, DiscardsUnkept,
     KeptSidecarSurvives, QueuedIsPending, LateSeesExiting
<1>8. ASSUME NEW k \in Segments, DiscardCheck(k) PROVE SidecarInv'
  BY <1>0, <1>8 DEF DiscardCheck, chanVars, writeLoopVars, histVars, SidecarInv, SidecarTypes, RecordedFirst, DiscardsUnkept,
     KeptSidecarSurvives, QueuedIsPending, LateSeesExiting
<1>9. CASE CancelRecording \/ SupervisorEnds \/ UNCHANGED sidecarVars
  BY <1>0, <1>9 DEF CancelRecording, SupervisorEnds, sidecarVars, recVars, chanVars, writeLoopVars, histVars, SidecarInv,
     SidecarTypes, RecordedFirst, DiscardsUnkept, KeptSidecarSurvives, QueuedIsPending, LateSeesExiting
<1>10. CASE OpenFirst
  <2>1. /\ wpc = "open" /\ OpenSidecar(req) /\ wpc' = "select"
        /\ UNCHANGED <<seg, capPc, fpc, kept, pending, rotateCh, exiting>>
    BY <1>10 DEF OpenFirst, recVars, chanVars
  <2>2. req \in Segments /\ seg # 0
    BY <1>0, <2>1 DEF SidecarTypes, RecordedFirst
  <2> QED BY <2>1, <2>2, Opens
<1>11. CASE Reopen
  <2>1. /\ wpc = "reopen" /\ OpenSidecar(req) /\ wpc' = "apply"
        /\ UNCHANGED <<seg, capPc, fpc, kept, pending, rotateCh, exiting>>
    BY <1>11 DEF Reopen, recVars, chanVars
  <2>2. req \in Segments /\ seg # 0
    BY <1>0, <2>1 DEF SidecarTypes, RecordedFirst
  <2> QED BY <2>1, <2>2, Opens
<1>12. CASE SelectClosed \/ SelectRotate \/ SelectDiscard \/ Peek \/ HandleRotate \/ FinalizeSegment
            \/ (wpc = "stop" /\ StopWriteLoop)
  <2>1. wpc # "none" /\ UNCHANGED <<seg, capPc, fpc, kept, pending, sidecars, opened, overtaken, exiting>>
    BY <1>12 DEF SelectClosed, SelectRotate, SelectDiscard, Peek, HandleRotate, FinalizeSegment, StopWriteLoop,
                 recVars, chanVars, histVars
  <2>2. /\ rotateCh' \in {rotateCh, 0}
        /\ wpc' \in {"open", "rotate", "finalize", "reopen"} => req' \in Segments
        /\ wpc' \notin {"lastapply", "remove", "done"}
    BY <1>0, <1>12 DEF SelectClosed, SelectRotate, SelectDiscard, Peek, HandleRotate, FinalizeSegment, StopWriteLoop,
                 chanVars, SidecarTypes
  <2>3. seg # 0
    BY <1>0, <2>1 DEF RecordedFirst
  <2> QED BY <2>1, <2>2, <2>3, LoopMoves
<1>13. ASSUME NEW k \in Segments, ApplyOne(k) PROVE SidecarInv'
  BY <1>0, <1>13 DEF ApplyOne, recVars, histVars, SidecarInv, SidecarTypes, RecordedFirst, DiscardsUnkept,
     KeptSidecarSurvives, QueuedIsPending, LateSeesExiting
<1>14. CASE ApplyEnds
  <2>1. /\ wpc \in {"apply", "lastapply"} /\ pending = {} /\ wpc' \in {"remove", "apply", "select"}
        /\ wpc' = "remove" => wpc = "lastapply"
        /\ UNCHANGED <<seg, capPc, fpc, kept, rotateCh, pending, req, exiting, sidecars, opened, overtaken>>
    BY <1>14 DEF ApplyEnds, recVars, chanVars, histVars
  <2> QED BY <1>0, <2>1 DEF SidecarInv, SidecarTypes, RecordedFirst, DiscardsUnkept,
     KeptSidecarSurvives, QueuedIsPending, LateSeesExiting
<1>15. CASE (wpc = "exiting" /\ StopWriteLoop) \/ RemoveSession
  BY <1>0, <1>15 DEF StopWriteLoop, RemoveSession, recVars, chanVars, histVars, SidecarInv, SidecarTypes, RecordedFirst,
     DiscardsUnkept, KeptSidecarSurvives, QueuedIsPending, LateSeesExiting
<1>16. StopWriteLoop => wpc \in {"stop", "exiting"}
  BY DEF StopWriteLoop
<1> QED BY <1>1, <1>2, <1>3, <1>4, <1>5, <1>6, <1>7, <1>8, <1>9, <1>10, <1>11, <1>12, <1>13, <1>14, <1>15, <1>16
        DEF SidecarNext, Discard, WriteLoop

\* However rotations, discards and the end of the session meet, the sidecar of a kept video and
\* of the one being recorded stays, and one whose discard is over is gone unless it was opened
\* after its discard (Rotate, Discard, writeLoop, applyPendingDiscards, stopWriteLoop).
THEOREM SidecarsFollowVideos == SidecarSpec => []SidecarsMatchVideos
<1>1. SidecarInit => SidecarInv
  BY SidecarAssumption DEF SidecarInit, SidecarInv, SidecarTypes, RecordedFirst, DiscardsUnkept, KeptSidecarSurvives,
     QueuedIsPending, LateSeesExiting, Segments
<1>2. SidecarInv => SidecarsMatchVideos
  BY DEF SidecarInv, SidecarTypes, SidecarsMatchVideos, DiscardsUnkept, QueuedIsPending, LateSeesExiting, OnlyOvertakenSurvive, Settled
<1> QED BY <1>1, <1>2, SidecarStep, PTL DEF SidecarSpec

(***************************************************************************)
(* RecorderSegments.  A session never takes a name twice, so a name that   *)
(* is listed for deletion, and was therefore taken before, can be busy     *)
(* again only for another session.                                         *)
(***************************************************************************)

SegTypes ==
    /\ used \in Nat /\ clock \in Nat /\ DOMAIN disk = Files /\ DOMAIN outputPath = Sessions
    /\ fileTime \in [Sessions -> Nat]
    /\ DOMAIN capture = Sessions /\ DOMAIN start = Rooms
    /\ \A s \in Sessions : {"at", "segment", "created"} \subseteq DOMAIN capture[s] /\ capture[s].segment \in Nat
    /\ \A r \in Rooms : {"at", "session", "now", "list"} \subseteq DOMAIN start[r] /\ start[r].now \in Nat
    /\ \A x \in final : {"session", "file", "at", "open"} \subseteq DOMAIN x
    /\ DOMAIN live = Rooms /\ \A r \in Rooms : live[r] # 0 => live[r] \in Sessions /\ live[r] <= used

\* The session has gone on from the name t, or is at it.
Passed(t) ==
    \/ t[2].stamp < fileTime[t[1]]
    \/ /\ t[2].stamp = fileTime[t[1]]
       /\ \/ t[2].segment < capture[t[1]].segment
          \/ t[2].segment = capture[t[1]].segment /\ capture[t[1]].at \notin {"path", "add"}

NamesPassed ==
    /\ \A s \in Sessions : s > used => capture[s].at = "none"
    /\ \A t \in taken :
         /\ t = <<t[1], t[2]>> /\ t[1] \in Sessions /\ t[1] <= used
         /\ t[2].stamp \in Nat /\ t[2].segment \in Nat /\ Passed(t)
    /\ \A s \in Sessions : capture[s].at \in {"add", "rev"} =>
         outputPath[s].stamp = fileTime[s] /\ outputPath[s].segment = capture[s].segment

\* What is written or finalized has a name of its own.
OneFinalizer ==
    /\ \A s \in Sessions : capture[s].at = "rev" => <<s, outputPath[s]>> \in taken
    /\ \A x \in final : <<x.session, x.file>> \in taken
    /\ \A x, y \in final : x.session = y.session /\ x.file = y.file => x = y
    /\ \A x \in final : x.session \in Sessions /\ capture[x.session].at = "rev" => x.file # outputPath[x.session]

\* A file that deletion has chosen was taken, and is not busy or has a name used twice.
Spared(f) == f \in Files /\ (\E t \in taken : t[2] = f) /\ (~Busy(f) \/ Shared(Base(f)))

ChosenAreSpared ==
    /\ \A f \in Files : disk[f] # 0 => \E t \in taken : t[2] = f
    /\ \A r \in Rooms : \A f \in start[r].list : f.room = r /\ Spared(f)
    /\ \A r \in Rooms : start[r].at = "remove" => start[r].list # {}
    /\ asked # NoFile => Spared(asked)

SegInv == SegTypes /\ NamesPassed /\ OneFinalizer /\ ListedWhileBusy /\ ChosenAreSpared

LEMMA NatMinimum ==
  ASSUME NEW T, T \subseteq Nat, T # {}
  PROVE  \E m \in T : \A n \in T : m <= n
<1>1. PICK m \in T : \A n \in T : ~(<<n, m>> \in OpToRel(<, Nat))
  BY NatLessThanWellFounded, WFMin
<1>2. ASSUME NEW n \in T, n < m PROVE FALSE
  <2>1. n \in Nat /\ m \in Nat
    OBVIOUS
  <2>2. <<n, m>> \in OpToRel(<, Nat)
    BY <1>2, <2>1, Zenon DEF OpToRel
  <2> QED BY <1>1, <2>2
<1>3. \A n \in T : ~(n < m)
  BY <1>2
<1>4. \A n \in T : m <= n
  BY <1>3
<1> QED BY <1>4

\* deleteUntil takes a file of the list.
LEMMA OldestIsListed ==
  ASSUME NEW r \in Rooms, start[r].list # {}, \A f \in start[r].list : f \in Files /\ f.room = r
  PROVE  Oldest(r) \in start[r].list
<1>1. \A f \in start[r].list : f.stamp \in Nat /\ f.segment \in Nat
  BY SegmentsAssumption DEF Files, Stamps
<1>2. PICK m \in {f.stamp : f \in start[r].list} : \A n \in {f.stamp : f \in start[r].list} : m <= n
  <2> DEFINE T == {f.stamp : f \in start[r].list}
  <2>1. T \subseteq Nat /\ T # {}
    BY <1>1
  <2> HIDE DEF T
  <2>2. \E m \in T : \A n \in T : m <= n
    BY <2>1, NatMinimum
  <2> QED BY <2>2 DEF T
<1>3. PICK k \in {f.segment : f \in {g \in start[r].list : g.stamp = m}} :
             \A n \in {f.segment : f \in {g \in start[r].list : g.stamp = m}} : k <= n
  <2> DEFINE T == {f.segment : f \in {g \in start[r].list : g.stamp = m}}
  <2>1. T \subseteq Nat /\ T # {}
    BY <1>1, <1>2
  <2> HIDE DEF T
  <2>2. \E k \in T : \A n \in T : k <= n
    BY <2>1, NatMinimum
  <2> QED BY <2>2 DEF T
<1>4. PICK f \in start[r].list : f.stamp = m /\ f.segment = k
  BY <1>3
<1>5. ASSUME NEW g \in start[r].list PROVE g = f \/ Older(f, g)
  <2>1. m <= g.stamp /\ (g.stamp = m => k <= g.segment)
    BY <1>2, <1>3
  <2>2. CASE g.stamp = m /\ g.segment = k
    BY <1>4, <2>2 DEF Files
  <2>3. CASE ~(g.stamp = m /\ g.segment = k)
    BY <1>1, <1>4, <2>1, <2>3 DEF Older
  <2> QED BY <2>2, <2>3
<1> QED BY <1>4, <1>5 DEF Oldest

LEMMA StaysSpared ==
  ASSUME NEW f, Spared(f), taken \subseteq taken', Busy(f)' => Busy(f)
  PROVE  Spared(f)'
BY DEF Spared, Shared

\* A step of a start that only goes on, or takes files off its list.
LEMMA StartMoves ==
  ASSUME SegInv, SegTypes', UNCHANGED <<used, fileTime, outputPath, capture, final, writing, disk, taken, asked>>,
         \A r \in Rooms : start'[r].list \subseteq start[r].list /\ (start'[r].at = "remove" => start'[r].list # {})
  PROVE  SegInv'
<1>1. \A f : Spared(f)' = Spared(f)
  BY DEF Spared, Busy, Open, Shared
<1>2. NamesPassed' /\ OneFinalizer' /\ ListedWhileBusy'
  BY DEF SegInv, NamesPassed, Passed, OneFinalizer, ListedWhileBusy, Busy, Open, Shared
<1>3. ChosenAreSpared'
  BY <1>1 DEF SegInv, ChosenAreSpared
<1> QED BY <1>2, <1>3 DEF SegInv

\* A finalizer goes on.
LEMMA FinalizerMoves ==
  ASSUME SegInv, NEW x \in final, NEW y, y.session = x.session, y.file = x.file,
         {"session", "file", "at", "open"} \subseteq DOMAIN y, final' = (final \ {x}) \cup {y},
         UNCHANGED <<clock, startVars, info, capture, files>>
  PROVE  SegInv'
<1> USE DEF startVars, info, files
<1>1. SegTypes' /\ NamesPassed'
  BY DEF SegInv, SegTypes, NamesPassed, Passed
<1>2. OneFinalizer'
  BY DEF SegInv, OneFinalizer
<1>3. \A f : Busy(f)' = Busy(f) /\ Shared(f)' = Shared(f)
  BY DEF Busy, Open, Shared
<1>4. ListedWhileBusy' /\ ChosenAreSpared'
  BY <1>3 DEF SegInv, ListedWhileBusy, ChosenAreSpared, Spared
<1> QED BY <1>1, <1>2, <1>4 DEF SegInv

LEMMA SegStarts == ASSUME SegInit PROVE SegInv
<1>1. used = 0 /\ clock = 0 /\ DOMAIN disk = Files /\ DOMAIN outputPath = Sessions /\ final = {} /\ taken = {}
  BY DEF SegInit
<1>2. fileTime \in [Sessions -> Nat] /\ \A s \in Sessions : capture[s] = NoCapture
  BY DEF SegInit
<1>3. /\ DOMAIN capture = Sessions /\ DOMAIN start = Rooms /\ \A r \in Rooms : start[r] = NoStart
      /\ DOMAIN live = Rooms /\ \A r \in Rooms : live[r] = 0
  BY DEF SegInit
<1>4. asked = NoFile /\ \A f \in Files : disk[f] = 0
  BY DEF SegInit
<1>5. SegTypes
  BY <1>1, <1>2, <1>3 DEF SegTypes, NoCapture, NoStart
<1>6. NamesPassed /\ OneFinalizer
  BY <1>1, <1>2 DEF NamesPassed, OneFinalizer, NoCapture
<1>7. ListedWhileBusy /\ ChosenAreSpared
  BY <1>1, <1>2, <1>3, <1>4 DEF ListedWhileBusy, Busy, Open, ChosenAreSpared, NoCapture, NoStart
<1> QED BY <1>5, <1>6, <1>7 DEF SegInv

\* The steps of a start.
LEMMA StartSteps ==
  ASSUME SegInv, Second \/ \E r \in Rooms : UserStart(r) \/ Stop(r) \/ DiskFree(r) \/ CheckOldest(r)
                                              \/ ListAgain(r) \/ Deleted(r) \/ StartFails(r)
  PROVE  SegInv'
<1> USE DEF startVars, info, files
<1>0. UNCHANGED <<used, fileTime, outputPath, capture, final, writing, disk, taken, asked>>
  BY DEF Second, UserStart, Stop, DiskFree, CheckOldest, ListAgain, Deleted, StartFails
<1>1. clock' \in Nat /\ DOMAIN start' = Rooms
  <2>1. clock \in Nat /\ DOMAIN start = Rooms
    BY DEF SegInv, SegTypes
  <2>2. clock' \in {clock, clock + 1}
    BY DEF Second, UserStart, Stop, DiskFree, CheckOldest, ListAgain, Deleted, StartFails
  <2>3. DOMAIN start' = DOMAIN start
    BY DEF Second, UserStart, Stop, DiskFree, CheckOldest, ListAgain, Deleted, StartFails
  <2> QED BY <2>1, <2>2, <2>3
<1>2. \A r \in Rooms : /\ {"at", "session", "now", "list"} \subseteq DOMAIN start'[r] /\ start'[r].now \in Nat
                       /\ start'[r].list \subseteq start[r].list
                       /\ start'[r].at = "remove" => start'[r].list # {}
  <2>0. DOMAIN start = Rooms /\ clock \in Nat
    BY DEF SegInv, SegTypes
  <2>1. ASSUME NEW q \in Rooms
        PROVE  /\ {"at", "session", "now", "list"} \subseteq DOMAIN start[q] /\ start[q].now \in Nat
               /\ start[q].at = "remove" => start[q].list # {}
    BY DEF SegInv, SegTypes, ChosenAreSpared
  <2>2. CASE UNCHANGED start
    BY <2>1, <2>2
  <2>3. CASE \E r \in Rooms : UserStart(r)
    BY <2>0, <2>1, <2>3 DEF UserStart
  <2>4. CASE \E r \in Rooms : DiskFree(r)
    <3>1. PICK r \in Rooms : DiskFree(r)
      BY <2>4
    <3>2. \A q \in Rooms : q # r => start'[q] = start[q]
      BY <2>0, <3>1 DEF DiskFree
    <3>3. start'[r].at = "connect" /\ start'[r].list = start[r].list /\ start'[r].now = clock
      BY <2>0, <2>1, <3>1 DEF DiskFree
    <3>4. DOMAIN start'[r] = DOMAIN start[r]
      BY <2>0, <3>1 DEF DiskFree
    <3> QED BY <2>0, <2>1, <3>2, <3>3, <3>4
  <2>5. CASE \E r \in Rooms : CheckOldest(r)
    BY <2>0, <2>1, <2>5 DEF CheckOldest
  <2>6. CASE \E r \in Rooms : Deleted(r)
    <3>1. PICK r \in Rooms : Deleted(r)
      BY <2>6
    <3>2. \A q \in Rooms : q # r => start'[q] = start[q]
      BY <2>0, <3>1 DEF Deleted
    <3>3. start'[r].at = "connect" /\ start'[r].list = {} /\ start'[r].now = clock
      BY <2>0, <2>1, <3>1 DEF Deleted
    <3>4. DOMAIN start'[r] = DOMAIN start[r]
      BY <2>0, <3>1 DEF Deleted
    <3> QED BY <2>0, <2>1, <3>2, <3>3, <3>4
  <2>7. CASE \E r \in Rooms : StartFails(r)
    BY <2>0, <2>1, <2>7 DEF StartFails, NoStart
  <2>8. CASE \E r \in Rooms : ListAgain(r)
    <3>1. PICK r \in Rooms : ListAgain(r)
      BY <2>8
    <3>2. \A q \in Rooms : q # r => start'[q] = start[q]
      BY <2>0, <3>1 DEF ListAgain
    <3>3. start'[r].at = "disk" /\ start'[r].list = start[r].list /\ start'[r].now = start[r].now
      BY <2>0, <2>1, <3>1 DEF ListAgain
    <3>4. DOMAIN start'[r] = DOMAIN start[r]
      BY <2>0, <3>1 DEF ListAgain
    <3> QED BY <2>0, <2>1, <3>2, <3>3, <3>4
  <2> QED BY <2>2, <2>3, <2>4, <2>5, <2>6, <2>7, <2>8 DEF Second, Stop
<1>3. DOMAIN live' = Rooms /\ \A r \in Rooms : live'[r] # 0 => live'[r] = live[r]
  BY DEF SegInv, SegTypes, Second, UserStart, Stop, DiskFree, CheckOldest, ListAgain, Deleted, StartFails
<1>4. SegTypes'
  BY <1>0, <1>1, <1>2, <1>3 DEF SegInv, SegTypes
<1> QED BY <1>0, <1>2, <1>4, StartMoves
\* What is busy, taken and listed as being written stays as it is.
LEMMA SameNames ==
  ASSUME SegInv, UNCHANGED <<used, fileTime, outputPath, capture, final, writing, taken>>
  PROVE  NamesPassed' /\ OneFinalizer' /\ ListedWhileBusy' /\ \A f : Spared(f)' = Spared(f)
<1>1. \A f : Busy(f)' = Busy(f) /\ Shared(Base(f))' = Shared(Base(f)) /\ Spared(f)' = Spared(f)
  BY DEF Spared, Busy, Open, Shared
<1>2. NamesPassed' /\ OneFinalizer'
  BY DEF SegInv, NamesPassed, Passed, OneFinalizer
<1>3. ListedWhileBusy'
  BY <1>1 DEF SegInv, ListedWhileBusy
<1> QED BY <1>1, <1>2, <1>3

\* What ListDeletable lists was taken before and is not listed as being written.
LEMMA ListingStep == ASSUME SegInv, NEW r \in Rooms, ListDeletable(r) PROVE SegInv'
<1> USE DEF startVars, info, files
<1>0. UNCHANGED <<clock, live, used, fileTime, outputPath, capture, final, writing, disk, taken, asked>>
  BY DEF ListDeletable
<1>1. NamesPassed' /\ OneFinalizer' /\ ListedWhileBusy' /\ \A f : Spared(f)' = Spared(f)
  BY <1>0, SameNames
<1>2. PICK listed : /\ listed = {f \in Files : f.room = r /\ disk[f] # 0 /\ Base(f) \notin Protected(r)}
                    /\ start' = [start EXCEPT ![r].at = "delete", ![r].list = listed, ![r].deleted = FALSE]
  BY DEF ListDeletable
<1>3. \A f \in listed : f.room = r /\ Spared(f)
  BY <1>2 DEF Protected, SegInv, ChosenAreSpared, ListedWhileBusy, Spared
<1>4. DOMAIN start = Rooms
  BY DEF SegInv, SegTypes
<1>5. \A q \in Rooms : q # r => start'[q] = start[q]
  BY <1>2, <1>4
<1>6. start'[r].at = "delete" /\ start'[r].list = listed /\ start'[r].now = start[r].now
  BY <1>2, <1>4 DEF SegInv, SegTypes
<1>7. DOMAIN start'[r] = DOMAIN start[r] /\ DOMAIN start' = Rooms
  BY <1>2, <1>4
<1>8. SegTypes'
  BY <1>0, <1>5, <1>6, <1>7 DEF SegInv, SegTypes
<1>9. ChosenAreSpared'
  BY <1>0, <1>1, <1>3, <1>5, <1>6 DEF SegInv, ChosenAreSpared
<1> QED BY <1>1, <1>8, <1>9 DEF SegInv

LEMMA RemovalStep == ASSUME SegInv, NEW r \in Rooms, RemoveOldest(r) PROVE SegInv'
<1> USE DEF startVars, info, files
<1>0. UNCHANGED <<clock, live, used, fileTime, outputPath, capture, final, writing, taken, asked>>
  BY DEF RemoveOldest
<1>1. NamesPassed' /\ OneFinalizer' /\ ListedWhileBusy' /\ \A f : Spared(f)' = Spared(f)
  BY <1>0, SameNames
<1>2. /\ disk' = [disk EXCEPT ![Oldest(r)] = 0]
      /\ start' = [start EXCEPT ![r].at = "delete", ![r].list = @ \ {Oldest(r)}, ![r].deleted = TRUE]
  BY DEF RemoveOldest
<1>4. DOMAIN start = Rooms /\ DOMAIN disk = Files
  BY DEF SegInv, SegTypes
<1>5. \A q \in Rooms : q # r => start'[q] = start[q]
  BY <1>2, <1>4
<1>6. start'[r].at = "delete" /\ start'[r].list \subseteq start[r].list /\ start'[r].now = start[r].now
  BY <1>2, <1>4 DEF SegInv, SegTypes
<1>7. DOMAIN start'[r] = DOMAIN start[r] /\ DOMAIN start' = Rooms
  BY <1>2, <1>4
<1>8. DOMAIN disk' = Files /\ \A f \in Files : disk'[f] # 0 => disk[f] # 0
  BY <1>2, <1>4
<1>9. SegTypes'
  BY <1>0, <1>5, <1>6, <1>7, <1>8 DEF SegInv, SegTypes
<1>10. ChosenAreSpared'
  BY <1>0, <1>1, <1>5, <1>6, <1>8 DEF SegInv, ChosenAreSpared
<1> QED BY <1>1, <1>9, <1>10 DEF SegInv

LEMMA DeletionSteps == ASSUME SegInv, DeleteFile \/ \E f \in Files : AskDelete(f) PROVE SegInv'
<1> USE DEF startVars, info, files
<1>0. UNCHANGED <<clock, start, live, used, fileTime, outputPath, capture, final, writing, taken>>
  BY DEF AskDelete, DeleteFile
<1>1. NamesPassed' /\ OneFinalizer' /\ ListedWhileBusy' /\ \A f : Spared(f)' = Spared(f)
  BY <1>0, SameNames
<1>2. DOMAIN disk' = Files /\ \A f \in Files : disk'[f] # 0 => disk[f] # 0
  BY DEF SegInv, SegTypes, AskDelete, DeleteFile
<1>3. asked' # NoFile => Spared(asked')
  BY DEF AskDelete, DeleteFile, SegInv, ListedWhileBusy, ChosenAreSpared, Spared
<1>4. SegTypes'
  BY <1>0, <1>2 DEF SegInv, SegTypes
<1>5. asked' # NoFile => Spared(asked)'
  BY <1>1, <1>3
<1>6. ChosenAreSpared'
  BY <1>0, <1>1, <1>2, <1>5 DEF SegInv, ChosenAreSpared
<1> QED BY <1>1, <1>4, <1>6 DEF SegInv

\* A finalizer goes on.
LEMMA FinalizerSteps == ASSUME SegInv, NEW x \in final, StatFile(x) \/ Report(x) PROVE SegInv'
<1>1. UNCHANGED <<clock, startVars, info, capture, files>>
  BY DEF StatFile, Report
<1>2. PICK y : final' = (final \ {x}) \cup {y} /\ y \in {[x EXCEPT !.at = "report"], [x EXCEPT !.at = "remove"],
                              [x EXCEPT !.at = "remove", !.open = segmentOpen[x.session]]}
  BY DEF StatFile, Report, Advance
<1>3. {"session", "file", "at", "open"} \subseteq DOMAIN x
  BY DEF SegInv, SegTypes
<1>4. y.session = x.session /\ y.file = x.file /\ DOMAIN y = DOMAIN x
  BY <1>2, <1>3
<1> QED BY <1>1, <1>2, <1>3, <1>4, FinalizerMoves

\* A name is given back: another segment under way with it is of another session.
LEMMA GivenBack == ASSUME SegInv, NEW x \in final, RemoveWriting(x) PROVE SegInv'
<1> USE DEF startVars, info, files
<1>0. /\ UNCHANGED <<clock, start, live, used, fileTime, outputPath, capture, disk, taken, asked>>
      /\ writing' = writing \ {Base(x.file)} /\ final' = final \ {x}
  BY DEF RemoveWriting
<1>1. SegTypes' /\ NamesPassed'
  BY <1>0 DEF SegInv, SegTypes, NamesPassed, Passed
<1>2. OneFinalizer'
  BY <1>0 DEF SegInv, OneFinalizer
<1>3. \A f : (Busy(f)' => Busy(f)) /\ Shared(Base(f))' = Shared(Base(f))
  BY <1>0 DEF Busy, Open, Shared
<1>4. ASSUME NEW f \in Files, Busy(f)', Base(f) = Base(x.file) PROVE Shared(Base(f))
  <2>1. <<x.session, x.file>> \in taken
    BY DEF SegInv, OneFinalizer
  <2>2. CASE \E s \in Sessions : Open(s, f)'
    <3>1. PICK s \in Sessions : capture[s].at = "rev" /\ outputPath[s] = f
      BY <1>0, <2>2 DEF Open
    <3>2. <<s, f>> \in taken /\ <<s, f>> # <<x.session, x.file>>
      BY <3>1 DEF SegInv, OneFinalizer
    <3> QED BY <1>4, <2>1, <3>2 DEF Shared
  <2>3. CASE \E y \in final' : y.file = f
    <3>1. PICK y \in final : y.file = f /\ y # x
      BY <1>0, <2>3
    <3>2. <<y.session, f>> \in taken /\ <<y.session, f>> # <<x.session, x.file>>
      BY <3>1 DEF SegInv, OneFinalizer
    <3> QED BY <1>4, <2>1, <3>2 DEF Shared
  <2> QED BY <1>4, <2>2, <2>3 DEF Busy
<1>5. ListedWhileBusy'
  BY <1>0, <1>3, <1>4 DEF SegInv, ListedWhileBusy
<1>6. \A f : Spared(f) => Spared(f)'
  BY <1>0, <1>3 DEF Spared
<1>7. ChosenAreSpared'
  BY <1>0, <1>6 DEF SegInv, ChosenAreSpared
<1> QED BY <1>1, <1>2, <1>5, <1>7 DEF SegInv
\* The capture of a session goes to a place where it writes nothing.
LEMMA CaptureIdles ==
  ASSUME SegInv, SegTypes', NamesPassed', NEW s \in Sessions,
         \A u \in Sessions : u # s => capture'[u] = capture[u] /\ outputPath'[u] = outputPath[u],
         capture'[s].at # "rev", UNCHANGED <<final, writing, taken, disk, asked>>,
         \A r \in Rooms : start'[r].list \subseteq start[r].list /\ (start'[r].at = "remove" => start'[r].list # {})
  PROVE  SegInv'
<1>1. \A f : Shared(Base(f))' = Shared(Base(f)) /\ (Busy(f)' => Busy(f))
  BY DEF Shared, Busy, Open
<1>2. \A f : Spared(f) => Spared(f)'
  BY <1>1 DEF Spared
<1>3. OneFinalizer'
  BY DEF SegInv, OneFinalizer
<1>4. ListedWhileBusy'
  BY <1>1 DEF SegInv, ListedWhileBusy
<1>5. ChosenAreSpared'
  BY <1>2 DEF SegInv, ChosenAreSpared
<1> QED BY <1>3, <1>4, <1>5 DEF SegInv

LEMMA CommitsUser == ASSUME SegInv, NEW r \in Rooms, CommitUser(r) PROVE SegInv'
<1> USE DEF startVars, info, files
<1>1. PICK s : s = used + 1
  OBVIOUS
<1>2. /\ s \in Sessions /\ s \in Nat /\ used \in Nat /\ used' = s
  BY <1>1, SegmentsAssumption DEF CommitUser, Sessions, SegInv, SegTypes
<1>3. /\ fileTime' = [fileTime EXCEPT ![s] = start[r].now] /\ capture' = [capture EXCEPT ![s].at = "path"]
      /\ start' = [start EXCEPT ![r] = NoStart]
      /\ UNCHANGED <<clock, outputPath, final, writing, taken, disk, asked>>
  BY <1>1 DEF CommitUser
<1>4. /\ \A u \in Sessions : u # s => capture'[u] = capture[u] /\ fileTime'[u] = fileTime[u]
      /\ capture'[s].at = "path" /\ capture'[s].segment = capture[s].segment
      /\ DOMAIN capture'[s] = DOMAIN capture[s] /\ DOMAIN capture' = Sessions /\ fileTime' \in [Sessions -> Nat]
  <2>1. /\ DOMAIN capture = Sessions /\ fileTime \in [Sessions -> Nat] /\ start[r].now \in Nat
        /\ {"at", "segment"} \subseteq DOMAIN capture[s]
    BY <1>2 DEF SegInv, SegTypes
  <2> QED BY <1>2, <1>3, <2>1
<1>5. DOMAIN start' = Rooms /\ \A q \in Rooms : start'[q] = start[q] \/ start'[q] = NoStart
  BY <1>3 DEF SegInv, SegTypes
<1>61. DOMAIN live' = Rooms /\ \A q \in Rooms : live'[q] = s \/ live'[q] = live[q]
  BY <1>1 DEF CommitUser, SegInv, SegTypes
<1>62. \A q \in Rooms : live'[q] # 0 => live'[q] \in Sessions /\ live'[q] <= used'
  BY <1>1, <1>2, <1>61, SegmentsAssumption DEF SegInv, SegTypes, Sessions
<1>6. SegTypes'
  BY <1>2, <1>3, <1>4, <1>5, <1>61, <1>62 DEF SegInv, SegTypes, NoStart
<1>7. \A q \in Rooms : start'[q].list \subseteq start[q].list /\ (start'[q].at = "remove" => start'[q].list # {})
  BY <1>5 DEF SegInv, ChosenAreSpared, NoStart
<1>8. NamesPassed'
  <2>1. \A u \in Sessions : u > used' => capture'[u].at = "none"
    BY <1>1, <1>2, <1>4 DEF SegInv, NamesPassed, Sessions
  <2>2. ASSUME NEW t \in taken PROVE t[1] # s /\ t[1] \in Sessions /\ t[1] <= used'
    BY <1>1, <1>2 DEF SegInv, NamesPassed, Sessions
  <2>3. \A t \in taken : Passed(t)' = Passed(t)
    BY <1>3, <1>4, <2>2 DEF Passed
  <2> QED BY <1>3, <1>4, <2>1, <2>2, <2>3 DEF SegInv, NamesPassed
<1> QED BY <1>2, <1>3, <1>4, <1>6, <1>7, <1>8, CaptureIdles

LEMMA CommitsRecovery == ASSUME SegInv, NEW r \in Rooms, CommitRecovery(r) PROVE SegInv'
<1> USE DEF startVars, info, files
<1>1. PICK s \in Sessions : s = start[r].session /\ s <= used
  BY DEF CommitRecovery, SegInv, SegTypes
<1>2. PICK now \in Nat : now = start[r].now
  BY DEF SegInv, SegTypes
<1>3. /\ fileTime' = [fileTime EXCEPT ![s] = nextFileTime(fileTime[s], now)]
      /\ capture' = [capture EXCEPT ![s] = [NoCapture EXCEPT !.at = "path", !.recovered = TRUE]]
      /\ start' = [start EXCEPT ![r] = NoStart]
      /\ UNCHANGED <<clock, live, used, outputPath, final, writing, taken, disk, asked>>
  BY <1>1, <1>2 DEF CommitRecovery
<1>4. fileTime \in [Sessions -> Nat] /\ DOMAIN capture = Sessions
  BY DEF SegInv, SegTypes
<1>5. fileTime' \in [Sessions -> Nat] /\ fileTime'[s] > fileTime[s]
      /\ \A u \in Sessions : u # s => fileTime'[u] = fileTime[u]
  BY <1>3, <1>4 DEF nextFileTime
<1>6. /\ \A u \in Sessions : u # s => capture'[u] = capture[u]
      /\ capture'[s].at = "path" /\ capture'[s].segment = 0 /\ DOMAIN capture' = Sessions
      /\ {"at", "segment", "created"} \subseteq DOMAIN capture'[s]
  BY <1>3, <1>4 DEF NoCapture
<1>7. DOMAIN start' = Rooms /\ \A q \in Rooms : start'[q] = start[q] \/ start'[q] = NoStart
  BY <1>3 DEF SegInv, SegTypes
<1>8. SegTypes'
  BY <1>3, <1>5, <1>6, <1>7 DEF SegInv, SegTypes, NoStart
<1>9. \A q \in Rooms : start'[q].list \subseteq start[q].list /\ (start'[q].at = "remove" => start'[q].list # {})
  BY <1>7 DEF SegInv, ChosenAreSpared, NoStart
<1>10. NamesPassed'
  <2>1. used \in Nat /\ s \in Nat /\ fileTime[s] \in Nat /\ fileTime'[s] \in Nat
    BY <1>4, <1>5 DEF SegInv, SegTypes, Sessions
  <2>2. \A u \in Sessions : u > used' => capture'[u].at = "none"
    BY <1>1, <1>3, <1>6, <2>1 DEF SegInv, NamesPassed, Sessions
  <2>3. ASSUME NEW t \in taken PROVE Passed(t)'
    <3>1. t[1] \in Sessions /\ Passed(t) /\ t[2].stamp \in Nat
      BY DEF SegInv, NamesPassed
    <3>2. CASE t[1] = s
      BY <1>5, <2>1, <3>1, <3>2 DEF Passed
    <3>3. CASE t[1] # s
      BY <1>3, <1>5, <1>6, <3>1, <3>3 DEF Passed
    <3> QED BY <3>2, <3>3
  <2> QED BY <1>3, <1>5, <1>6, <2>2, <2>3 DEF SegInv, NamesPassed
<1> QED BY <1>3, <1>6, <1>8, <1>9, <1>10, CaptureIdles
LEMMA OpensSegment == ASSUME SegInv, NEW s \in Sessions, OpenSegment(s) PROVE SegInv'
<1> USE DEF startVars, info, files
<1>1. /\ UNCHANGED <<clock, live, start, used, fileTime, final, writing, taken, disk, asked>>
      /\ capture[s].at = "path"
      /\ outputPath' = [outputPath EXCEPT ![s] =
             [room |-> room[s], stamp |-> fileTime[s], segment |-> capture[s].segment]]
      /\ \E l \in {"add", "ended"} : capture' = [capture EXCEPT ![s].at = l]
  BY DEF OpenSegment, Goto
<1>2. /\ DOMAIN capture = Sessions /\ DOMAIN outputPath = Sessions
      /\ {"at", "segment", "created"} \subseteq DOMAIN capture[s] /\ capture[s].segment \in Nat
  BY DEF SegInv, SegTypes
<1>3. /\ \A u \in Sessions : u # s => capture'[u] = capture[u] /\ outputPath'[u] = outputPath[u]
      /\ capture'[s].at \in {"add", "ended"} /\ capture'[s].segment = capture[s].segment
      /\ DOMAIN capture'[s] = DOMAIN capture[s] /\ DOMAIN capture' = Sessions /\ DOMAIN outputPath' = Sessions
      /\ outputPath'[s].stamp = fileTime[s] /\ outputPath'[s].segment = capture[s].segment
  BY <1>1, <1>2
<1>4. SegTypes'
  BY <1>1, <1>3 DEF SegInv, SegTypes
<1>5. \A t \in taken : Passed(t) => Passed(t)'
  BY <1>1, <1>3 DEF Passed, SegInv, NamesPassed
<1>6. NamesPassed'
  BY <1>1, <1>3, <1>5 DEF SegInv, NamesPassed
<1>7. \A r \in Rooms : start[r].at = "remove" => start[r].list # {}
  BY DEF SegInv, ChosenAreSpared
<1> QED BY <1>1, <1>3, <1>4, <1>6, <1>7, CaptureIdles

\* The name that a session takes is new to it.
LEMMA NameIsFresh ==
  ASSUME SegInv, NEW s \in Sessions, capture[s].at = "add"
  PROVE  <<s, outputPath[s]>> \notin taken
<1>1. outputPath[s].stamp = fileTime[s] /\ outputPath[s].segment = capture[s].segment
  BY DEF SegInv, NamesPassed
<1>2. fileTime[s] \in Nat /\ capture[s].segment \in Nat
  BY DEF SegInv, SegTypes
<1>3. SUFFICES ASSUME <<s, outputPath[s]>> \in taken PROVE FALSE
  OBVIOUS
<1>4. PICK t : t = <<s, outputPath[s]>>
  OBVIOUS
<1>5. Passed(t)
  BY <1>3, <1>4 DEF SegInv, NamesPassed
<1> QED BY <1>1, <1>2, <1>4, <1>5 DEF Passed

LEMMA TakesName == ASSUME SegInv, NEW s \in Sessions, AddWriting(s) PROVE SegInv'
<1> USE DEF startVars, info, files
<1>1. PICK f : f = outputPath[s]
  OBVIOUS
<1>2. /\ UNCHANGED <<clock, live, start, used, fileTime, outputPath, final, disk, asked>>
      /\ capture[s].at = "add" /\ capture' = [capture EXCEPT ![s].at = "rev"]
      /\ writing' = writing \cup {Base(f)} /\ taken' = taken \cup {<<s, f>>}
  BY <1>1 DEF AddWriting, Goto
<1>3. <<s, f>> \notin taken
  BY <1>1, <1>2, NameIsFresh
<1>4. /\ DOMAIN capture = Sessions /\ fileTime[s] \in Nat /\ used \in Nat /\ s \in Nat
      /\ {"at", "segment", "created"} \subseteq DOMAIN capture[s] /\ capture[s].segment \in Nat
  BY DEF SegInv, SegTypes, Sessions
<1>5. /\ \A u \in Sessions : u # s => capture'[u] = capture[u]
      /\ capture'[s].at = "rev" /\ capture'[s].segment = capture[s].segment
      /\ DOMAIN capture'[s] = DOMAIN capture[s] /\ DOMAIN capture' = Sessions
  BY <1>2, <1>4
<1>6. SegTypes'
  BY <1>2, <1>5 DEF SegInv, SegTypes
<1>7. f.stamp = fileTime[s] /\ f.segment = capture[s].segment /\ s <= used
  BY <1>1, <1>2, <1>4 DEF SegInv, NamesPassed
<1>8. NamesPassed'
  <2>1. \A t \in taken : Passed(t) => Passed(t)'
    BY <1>2, <1>5 DEF Passed, SegInv, NamesPassed
  <2>2. \A t : t = <<s, f>> => Passed(t)'
    BY <1>2, <1>5, <1>7 DEF Passed
  <2>3. \A u \in Sessions : u > used => capture'[u].at = "none"
    BY <1>4, <1>5, <1>7 DEF SegInv, NamesPassed, Sessions
  <2>4. ASSUME NEW t \in taken'
        PROVE  /\ t = <<t[1], t[2]>> /\ t[1] \in Sessions /\ t[1] <= used
               /\ t[2].stamp \in Nat /\ t[2].segment \in Nat /\ Passed(t)'
    <3>1. CASE t \in taken
      BY <2>1, <3>1 DEF SegInv, NamesPassed
    <3>2. CASE t = <<s, f>>
      BY <1>4, <1>7, <2>2, <3>2
    <3> QED BY <1>2, <3>1, <3>2
  <2>5. \A u \in Sessions : capture'[u].at \in {"add", "rev"} =>
            outputPath'[u].stamp = fileTime'[u] /\ outputPath'[u].segment = capture'[u].segment
    BY <1>1, <1>2, <1>5, <1>7 DEF SegInv, NamesPassed
  <2> QED BY <1>2, <2>3, <2>4, <2>5 DEF NamesPassed
<1>9. OneFinalizer'
  <2>1. \A u \in Sessions : capture'[u].at = "rev" => <<u, outputPath[u]>> \in taken'
    BY <1>1, <1>2, <1>5 DEF SegInv, OneFinalizer
  <2>2. \A x \in final : <<x.session, x.file>> \in taken' /\ (x.session = s => x.file # f)
    BY <1>2, <1>3 DEF SegInv, OneFinalizer
  <2>3. \A x \in final' : <<x.session, x.file>> \in taken'
    BY <1>2, <2>2
  <2>4. \A x, y \in final' : x.session = y.session /\ x.file = y.file => x = y
    BY <1>2 DEF SegInv, OneFinalizer
  <2>5. ASSUME NEW x \in final', x.session \in Sessions, capture'[x.session].at = "rev"
        PROVE  x.file # outputPath'[x.session]
    <3>1. CASE x.session = s
      BY <1>1, <1>2, <2>2, <2>5, <3>1
    <3>2. CASE x.session # s
      BY <1>2, <1>5, <2>5, <3>2 DEF SegInv, OneFinalizer
    <3> QED BY <3>1, <3>2
  <2>6. outputPath' = outputPath
    BY <1>2
  <2>7. \A u \in Sessions : capture'[u].at = "rev" => <<u, outputPath'[u]>> \in taken'
    BY <2>1, <2>6
  <2> QED BY <2>3, <2>4, <2>5, <2>7 DEF OneFinalizer
<1>10. \A b : Shared(b) => Shared(b)'
  BY <1>2 DEF Shared
<1>11. \A g : Busy(g)' => Busy(g) \/ g = f
  BY <1>1, <1>2, <1>5 DEF Busy, Open
<1>12. ListedWhileBusy'
  BY <1>2, <1>10, <1>11 DEF SegInv, ListedWhileBusy
<1>13. ASSUME NEW g, Spared(g) PROVE Spared(g)'
  <2>1. CASE g # f
    BY <1>2, <1>10, <1>11, <1>13, <2>1 DEF Spared
  <2>2. CASE g = f
    <3>1. PICK t \in taken : t[2] = f
      BY <1>13, <2>2 DEF Spared
    <3>2. PICK u : u = <<s, f>>
      OBVIOUS
    <3>3. t # u /\ t \in taken' /\ u \in taken' /\ Base(t[2]) = Base(f) /\ Base(u[2]) = Base(f)
      BY <1>2, <1>3, <3>1, <3>2
    <3>4. Shared(Base(f))'
      BY <3>3 DEF Shared, Base
    <3> QED BY <1>2, <1>13, <2>2, <3>3, <3>4 DEF Spared
  <2> QED BY <2>1, <2>2
<1>14. ChosenAreSpared'
  BY <1>2, <1>13 DEF SegInv, ChosenAreSpared
<1> QED BY <1>6, <1>8, <1>9, <1>12, <1>14 DEF SegInv

LEMMA CreatesFile == ASSUME SegInv, NEW s \in Sessions, CreateFile(s) PROVE SegInv'
<1> USE DEF startVars, info, files
<1>1. /\ UNCHANGED <<clock, live, start, used, fileTime, outputPath, final, writing, taken, asked>>
      /\ capture[s].at = "rev" /\ capture' = [capture EXCEPT ![s].created = TRUE]
      /\ disk' = [disk EXCEPT ![outputPath[s]] = s]
  BY DEF CreateFile
<1>2. DOMAIN capture = Sessions /\ DOMAIN disk = Files
  BY DEF SegInv, SegTypes
<1>3. /\ \A u \in Sessions : capture'[u].at = capture[u].at /\ capture'[u].segment = capture[u].segment
                             /\ DOMAIN capture'[u] = DOMAIN capture[u]
      /\ DOMAIN capture' = Sessions /\ DOMAIN disk' = Files
  BY <1>1, <1>2 DEF SegInv, SegTypes
<1>4. SegTypes'
  BY <1>1, <1>3 DEF SegInv, SegTypes
<1>5. NamesPassed' /\ OneFinalizer'
  BY <1>1, <1>3 DEF SegInv, NamesPassed, Passed, OneFinalizer
<1>6. \A f : Busy(f)' = Busy(f) /\ Shared(Base(f))' = Shared(Base(f))
  BY <1>1, <1>3 DEF Busy, Open, Shared
<1>7. \A f \in Files : disk'[f] # 0 => \E t \in taken : t[2] = f
  BY <1>1, <1>2 DEF SegInv, ChosenAreSpared, OneFinalizer
<1>8. ListedWhileBusy'
  BY <1>1, <1>6 DEF SegInv, ListedWhileBusy
<1>9. \A f : Spared(f)' = Spared(f)
  BY <1>1, <1>6 DEF Spared
<1>10. ChosenAreSpared'
  BY <1>1, <1>7, <1>9 DEF SegInv, ChosenAreSpared
<1> QED BY <1>4, <1>5, <1>8, <1>10 DEF SegInv

LEMMA EndsSegment == ASSUME SegInv, NEW s \in Sessions, EndSegment(s) PROVE SegInv'
<1> USE DEF startVars, info, files
<1>1. PICK x : x = Finalizer(s)
  OBVIOUS
<1>2. x.session = s /\ x.file = outputPath[s] /\ {"session", "file", "at", "open"} \subseteq DOMAIN x
  BY <1>1 DEF Finalizer
<1>3. /\ UNCHANGED <<clock, live, start, used, fileTime, outputPath, writing, taken, disk, asked>>
      /\ capture[s].at = "rev" /\ final' = final \cup {x}
  BY <1>1 DEF EndSegment
<1>4. /\ DOMAIN capture = Sessions /\ capture[s].segment \in Nat
      /\ {"at", "segment", "created"} \subseteq DOMAIN capture[s]
  BY DEF SegInv, SegTypes
<1>5. /\ DOMAIN capture' = Sessions /\ DOMAIN capture'[s] = DOMAIN capture[s]
      /\ \A u \in Sessions : u # s => capture'[u] = capture[u]
      /\ \/ capture'[s].at = "path" /\ capture'[s].segment = capture[s].segment + 1
         \/ capture'[s].at = "ended" /\ capture'[s].segment = capture[s].segment
  BY <1>4 DEF EndSegment, Goto
<1>6. SegTypes'
  BY <1>2, <1>3, <1>4, <1>5 DEF SegInv, SegTypes
<1>7. NamesPassed'
  <2>1. ASSUME NEW t \in taken PROVE Passed(t)'
    <3>1. Passed(t) /\ t[1] \in Sessions /\ t[2].segment \in Nat
      BY DEF SegInv, NamesPassed
    <3> QED BY <1>3, <1>4, <1>5, <3>1 DEF Passed
  <2>2. \A u \in Sessions : u > used => capture'[u].at = "none"
    BY <1>3, <1>5 DEF SegInv, NamesPassed
  <2> QED BY <1>3, <1>5, <2>1, <2>2 DEF SegInv, NamesPassed
<1>8. OneFinalizer'
  BY <1>2, <1>3, <1>5 DEF SegInv, OneFinalizer
<1>9. \A f : (Busy(f)' => Busy(f)) /\ Shared(Base(f))' = Shared(Base(f))
  BY <1>2, <1>3, <1>5 DEF Busy, Open, Shared
<1>10. ListedWhileBusy'
  BY <1>3, <1>9 DEF SegInv, ListedWhileBusy
<1>11. \A f : Spared(f) => Spared(f)'
  BY <1>3, <1>9 DEF Spared
<1>12. ChosenAreSpared'
  BY <1>3, <1>11 DEF SegInv, ChosenAreSpared
<1> QED BY <1>6, <1>7, <1>8, <1>10, <1>12 DEF SegInv

LEMMA SegStep == ASSUME SegInv, [SegNext]_segVars PROVE SegInv'
<1>1. CASE Second \/ \E r \in Rooms : UserStart(r) \/ Stop(r) \/ DiskFree(r) \/ CheckOldest(r)
                                      \/ ListAgain(r) \/ Deleted(r) \/ StartFails(r)
  BY <1>1, StartSteps
<1>2. ASSUME NEW r \in Rooms, ListDeletable(r) \/ RemoveOldest(r) \/ CommitUser(r) \/ CommitRecovery(r) PROVE SegInv'
  BY <1>2, ListingStep, RemovalStep, CommitsUser, CommitsRecovery
<1>3. ASSUME NEW s \in Sessions, Recover(s) PROVE SegInv'
  <2> USE DEF startVars, info, files
  <2>1. PICK r : r = room[s]
    OBVIOUS
  <2>2. /\ UNCHANGED <<clock, live, used, fileTime, outputPath, capture, final, writing, disk, taken, asked>>
        /\ start' = [start EXCEPT ![r].at = "disk", ![r].session = s]
    BY <1>3, <2>1 DEF Recover
  <2>3. DOMAIN start = Rooms
    BY DEF SegInv, SegTypes
  <2>4. \A q \in Rooms : q # r => start'[q] = start[q]
    BY <2>2, <2>3
  <2>5. r \in Rooms => start'[r].at = "disk" /\ start'[r].list = start[r].list /\ start'[r].now = start[r].now
                       /\ DOMAIN start'[r] = DOMAIN start[r]
    BY <2>2, <2>3 DEF SegInv, SegTypes
  <2>6. SegTypes'
    BY <2>2, <2>3, <2>4, <2>5 DEF SegInv, SegTypes
  <2>7. \A q \in Rooms : start'[q].list \subseteq start[q].list /\ (start'[q].at = "remove" => start'[q].list # {})
    BY <2>4, <2>5 DEF SegInv, ChosenAreSpared
  <2> QED BY <2>2, <2>6, <2>7, StartMoves
<1>4. ASSUME NEW s \in Sessions, Capturing(s) \/ CreateFile(s) \/ EndSegment(s) PROVE SegInv'
  BY <1>4, OpensSegment, TakesName, CreatesFile, EndsSegment DEF Capturing
<1>5. ASSUME NEW x \in final, Finalizing(x) PROVE SegInv'
  BY <1>5, FinalizerSteps, GivenBack DEF Finalizing
<1>6. CASE DeleteFile \/ \E f \in Files : AskDelete(f)
  BY <1>6, DeletionSteps
<1>7. CASE UNCHANGED segVars
  <2>1. UNCHANGED <<clock, live, start, used, fileTime, outputPath, capture, final, writing, disk, taken, asked>>
    BY <1>7 DEF segVars, startVars, info, files
  <2>2. SegTypes'
    BY <2>1 DEF SegInv, SegTypes
  <2>3. \A r \in Rooms : start[r].at = "remove" => start[r].list # {}
    BY DEF SegInv, ChosenAreSpared
  <2> QED BY <2>1, <2>2, <2>3, StartMoves
<1>8. CASE SegNext
  BY <1>1, <1>2, <1>3, <1>4, <1>5, <1>6, <1>8 DEF SegNext, Starting
<1> QED BY <1>7, <1>8

\* writingFiles lists every segment from before its file exists until it has
\* been reported, unless its base name was used twice (RemoveWriting).
THEOREM BusyIsListed == SegSpec => []ListedWhileBusy
<1>1. SegInit => SegInv
  BY SegStarts
<1>2. SegInv /\ [SegNext]_segVars => SegInv'
  BY SegStep
<1>3. SegInv => ListedWhileBusy
  BY DEF SegInv
<1> QED BY <1>1, <1>2, <1>3, PTL DEF SegSpec

\* Rotations and recoveries never reuse a name of their session
\* (rotateFilePath, nextFileTime).
THEOREM NamesAreFresh == SegSpec => FreshNames
<1>1. SegInit => SegInv
  BY SegStarts
<1>2. SegInv /\ [SegNext]_segVars => SegInv'
  BY SegStep
<1>3. SegInv /\ [SegNext]_segVars =>
          [\A s \in Sessions : capture[s].at = "add" /\ capture'[s].at = "rev" => <<s, outputPath[s]>> \notin taken]_segVars
  BY NameIsFresh
<1> QED BY <1>1, <1>2, <1>3, PTL DEF SegSpec, FreshNames

\* The low-disk deletion and the one a user asks for check a file some time
\* before they remove it: it is not busy when they do, unless its base name
\* was used twice (deleteUntil, DeleteFiles).
THEOREM DeletionIsSafe == SegSpec => DeletionSparesBusy
<1>1. SegInit => SegInv
  BY SegStarts
<1>2. SegInv /\ [SegNext]_segVars => SegInv'
  BY SegStep
<1>3. SegInv /\ [SegNext]_segVars =>
          [\A f \in Files : disk[f] # 0 /\ disk'[f] = 0 => ~Busy(f) \/ Shared(Base(f))]_segVars
  <2>1. SUFFICES ASSUME SegInv, SegNext, NEW f \in Files, disk[f] # 0, disk'[f] = 0 PROVE Spared(f)
    BY DEF Spared
  <2>2. DOMAIN disk = Files
    BY <2>1 DEF SegInv, SegTypes
  <2>3. CASE DeleteFile
    BY <2>1, <2>2, <2>3 DEF DeleteFile, SegInv, ChosenAreSpared
  <2>4. ASSUME NEW r \in Rooms, RemoveOldest(r) PROVE Spared(f)
    <3>1. start[r].at = "remove" /\ disk' = [disk EXCEPT ![Oldest(r)] = 0]
      BY <2>4 DEF RemoveOldest
    <3>2. start[r].list # {} /\ \A g \in start[r].list : g \in Files /\ g.room = r /\ Spared(g)
      BY <2>1, <3>1 DEF SegInv, ChosenAreSpared, Spared
    <3>3. Oldest(r) \in start[r].list
      BY <3>2, OldestIsListed
    <3> QED BY <2>1, <2>2, <3>1, <3>2, <3>3
  <2>5. ASSUME NEW s \in Sessions, CreateFile(s) PROVE FALSE
    BY <2>1, <2>2, <2>5 DEF CreateFile, Sessions
  <2>6. DeleteFile \/ (\E r \in Rooms : RemoveOldest(r)) \/ (\E s \in Sessions : CreateFile(s)) \/ UNCHANGED disk
    BY <2>1 DEF SegNext, Second, UserStart, Stop, Starting, DiskFree, ListDeletable, CheckOldest, ListAgain, Deleted, CommitUser,
                CommitRecovery, StartFails, Recover, Capturing, OpenSegment, AddWriting, EndSegment, Finalizing,
                StatFile, Report, RemoveWriting, AskDelete, files
  <2> QED BY <2>1, <2>3, <2>4, <2>5, <2>6
<1> QED BY <1>1, <1>2, <1>3, PTL DEF SegSpec, DeletionSparesBusy
===============================================================================
