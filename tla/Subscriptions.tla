---------------------------- MODULE Subscriptions ----------------------------
(***************************************************************************)
(* The subscribed rooms with their configurations (services/subscribe),    *)
(* kept in a bucket and in a map that every reader uses, and the schedule  *)
(* of subcheck, which follows how many of them need to be checked.         *)
(*                                                                         *)
(* A change holds the lock over both, bucket first.  The users of the API  *)
(* read a configuration and later send it back whole with an edit.         *)
(***************************************************************************)
EXTENDS Naturals, FiniteSets, FiniteSetsExt

CONSTANTS
    SubRooms,       \* rooms
    SubUsers,       \* users of the API
    RoomsPerShard,  \* rooms one shard should check
    TickSecs, MinInterval, MaxInterval,
    MaxShards       \* shards that are registered

ASSUME SubRoomsAssumption == "none" \notin SubRooms

VARIABLES
    stored,     \* the bucket: room -> no entry, an entry, or one that cannot be parsed
    snapshot,   \* Service.rooms
    change,     \* the change that holds the lock and is committed already
    form,       \* user -> the configuration it has read and is editing
    counted,    \* maybeRescale: 0, or one more than the rooms it has counted
    shardCount, \* active shards
    cooling     \* the last rescale is less than its cooldown ago

subVars == <<stored, snapshot, change, form, counted, shardCount, cooling>>

Flags == {"record", "notify"}
Unsubscribed == [state |-> "none", flags |-> {}]
Broken == [state |-> "broken", flags |-> {}]
Config(flags) == [state |-> "ok", flags |-> flags]
NoChange == [room |-> "none", to |-> Unsubscribed]
NoForm == [room |-> "none", read |-> {}]

(***************************************************************************)
(* The schedule.                                                           *)
(***************************************************************************)

needsCheck(config) == config.flags # {}
countLiveCheckRooms == Cardinality({r \in SubRooms : needsCheck(snapshot[r])})

shardsFor(roomCount) ==
    IF roomCount = 0 THEN 1 ELSE Min({(roomCount + RoomsPerShard - 1) \div RoomsPerShard, MaxShards})

intervalFor(shards) == Min({Max({shards * TickSecs, MinInterval}), MaxInterval})

computeSchedule(roomCount) ==
    [shards |-> shardsFor(roomCount), interval |-> intervalFor(shardsFor(roomCount))]

(***************************************************************************)
(* Start: an entry that cannot be parsed counts as the default one.        *)
(***************************************************************************)

loadRooms == [r \in SubRooms |-> IF stored[r] = Broken THEN Config({}) ELSE stored[r]]

SubInit ==
    /\ stored \in [SubRooms -> {Unsubscribed, Broken, Config({"record"})}]
    /\ snapshot = loadRooms
    /\ change = NoChange /\ form = [u \in SubUsers |-> NoForm]
    /\ counted = 0 /\ shardCount = shardsFor(countLiveCheckRooms) /\ cooling = FALSE

\* Also after a crash, between the commit of a change and its end.
RestartSubscriptions ==
    /\ snapshot' = loadRooms
    /\ shardCount' = shardsFor(Cardinality({r \in SubRooms : needsCheck(loadRooms[r])}))
    /\ change' = NoChange /\ counted' = 0 /\ cooling' = FALSE
    /\ UNCHANGED <<stored, form>>

(***************************************************************************)
(* Changes: a transaction that may fail, then the map, under one lock.     *)
(***************************************************************************)

Commit(r, to) == stored' = [stored EXCEPT ![r] = to] /\ change' = [room |-> r, to |-> to]

\* The room is looked up before the lock; nobody makes it unknown.
Subscribe(r) ==
    /\ change = NoChange /\ stored[r].state = "none"
    /\ Commit(r, Config({}))
    /\ UNCHANGED <<snapshot, form, counted, shardCount, cooling>>

Unsubscribe(r) ==
    /\ change = NoChange /\ stored[r].state # "none"
    /\ Commit(r, Unsubscribed)
    /\ UNCHANGED <<snapshot, form, counted, shardCount, cooling>>

\* Service.GetConfig: readers wait for the lock.
CanRead(r) == change = NoChange /\ snapshot[r].state # "none"

\* The page of a user shows the configuration.
GetConfig(u, r) ==
    /\ CanRead(r)
    /\ form' = [form EXCEPT ![u] = [room |-> r, read |-> snapshot[r].flags]]
    /\ UNCHANGED <<stored, snapshot, change, counted, shardCount, cooling>>

\* Mutant: the map is not told.
StoreOnly(r, flags) ==
    /\ stored' = IF stored[r].state = "none" THEN stored ELSE [stored EXCEPT ![r] = Config(flags)]
    /\ UNCHANGED change

\* Service.UpdateConfig: a room that is not subscribed any more stays so.
StoreConfig(r, flags) ==
    IF stored[r].state = "none" THEN UNCHANGED <<stored, change>> ELSE Commit(r, Config(flags))

\* The user flips one flag and sends all.
UpdateConfig(u, flag) ==
    LET r == form[u].room
        flags == IF flag \in form[u].read THEN form[u].read \ {flag} ELSE form[u].read \cup {flag}
    IN /\ r # "none" /\ change = NoChange
       /\ form' = [form EXCEPT ![u] = NoForm]
       /\ StoreConfig(r, flags)
       /\ UNCHANGED <<snapshot, counted, shardCount, cooling>>

\* The map follows and the lock is released.
PublishChange ==
    /\ change # NoChange
    /\ snapshot' = [snapshot EXCEPT ![change.room] = change.to]
    /\ change' = NoChange
    /\ UNCHANGED <<stored, form, counted, shardCount, cooling>>

(***************************************************************************)
(* maybeRescale, by the loop of shard 0 alone: it counts under the lock of *)
(* the subscriptions and applies under that of the schedule.  A change     *)
(* that is refused within the cooldown is found again at the next tick.    *)
(***************************************************************************)

CountRooms ==
    /\ counted = 0 /\ change = NoChange
    /\ counted' = 1 + countLiveCheckRooms
    /\ UNCHANGED <<stored, snapshot, change, form, shardCount, cooling>>

maybeRescale ==
    /\ counted > 0 /\ counted' = 0
    /\ LET desired == computeSchedule(counted - 1)
       IN IF \/ desired = [shards |-> shardCount, interval |-> intervalFor(shardCount)]
             \/ cooling
          THEN UNCHANGED <<shardCount, cooling>>
          ELSE shardCount' = desired.shards /\ cooling' = TRUE
    /\ UNCHANGED <<stored, snapshot, change, form>>

CooldownEnds ==
    /\ cooling /\ cooling' = FALSE
    /\ UNCHANGED <<stored, snapshot, change, form, counted, shardCount>>

SubNext ==
    \/ RestartSubscriptions \/ PublishChange \/ CountRooms \/ maybeRescale \/ CooldownEnds
    \/ \E r \in SubRooms : Subscribe(r) \/ Unsubscribe(r) \/ \E u \in SubUsers : GetConfig(u, r)
    \/ \E u \in SubUsers, flag \in Flags : UpdateConfig(u, flag)

(***************************************************************************)
(* Properties.                                                             *)
(***************************************************************************)

\* Between two changes, after any failures and crashes, the map readers use knows exactly the
\* rooms of the bucket, an entry of an older version included (it could not be unsubscribed
\* otherwise), and has the configuration that would survive a restart (Service.rooms).
SnapshotIsStored ==
    change = NoChange =>
        \A r \in SubRooms :
            /\ (snapshot[r].state = "none") = (stored[r].state = "none")
            /\ stored[r].state = "ok" => snapshot[r] = stored[r]

\* An edit of one flag leaves the other as it is.  Not met: updateRoomConfig stores the whole
\* form, so of two users who edit at the same time the later one undoes the edit of the other.
EditsOneFlag ==
    [][\A r \in SubRooms :
          stored[r].state = "ok" /\ stored'[r].state = "ok" =>
              Cardinality((stored[r].flags \ stored'[r].flags) \cup (stored'[r].flags \ stored[r].flags)) <= 1]_subVars
=============================================================================
