----------------------------- MODULE RoomCache -----------------------------
(***************************************************************************)
(* The cache of room information: internal/services/room over pkg/swr.     *)
(* An entry is served until its hard time to live is over and asked for    *)
(* anew in the background once its soft one is.  Requests for one room     *)
(* share a flight; requests for several are sent in batches, which share   *)
(* nothing, and whoever answers last is what the cache holds.  That there  *)
(* is no such room is cached like any other answer.                        *)
(*                                                                         *)
(* One room, which exists throughout, can be asked for by its room id or   *)
(* by its short id; the live API answers under the room id.  A third id,   *)
(* "gone", is of no room.                                                  *)
(***************************************************************************)
EXTENDS Naturals

CONSTANTS
    Batches     \* requests for several rooms that can be under way together

VARIABLES
    entry,      \* id -> what is cached: "none", "found" or "missing"
    soft,       \* id -> the soft time to live is over
    loading,    \* id -> "none", "asked", or the answer of the shared flight
    batches     \* batch -> the ids it asks for and its answer

roomVars == <<entry, soft, loading, batches>>

ExistingIds == {"room", "short"}
RoomIds == ExistingIds \cup {"gone"}
NoBatch == [ids |-> {}, answer |-> "none"]

RoomInit ==
    /\ entry = [i \in RoomIds |-> "none"] /\ soft = [i \in RoomIds |-> FALSE]
    /\ loading = [i \in RoomIds |-> "none"] /\ batches = [b \in Batches |-> NoBatch]

(***************************************************************************)
(* The entries.  Only Set renews the times to live, a hit does not.        *)
(***************************************************************************)

Set(ids, value) ==
    /\ entry' = [i \in RoomIds |-> IF i \in ids THEN value[i] ELSE entry[i]]
    /\ soft' = [i \in RoomIds |-> soft[i] /\ i \notin ids]

Missing(ids) == [i \in ids |-> "missing"]

SoftExpires(i) ==
    /\ entry[i] # "none" /\ ~soft[i] /\ soft' = [soft EXCEPT ![i] = TRUE]
    /\ UNCHANGED <<entry, loading, batches>>

Drop(i) ==
    /\ entry' = [entry EXCEPT ![i] = "none"] /\ soft' = [soft EXCEPT ![i] = FALSE]
    /\ UNCHANGED <<loading, batches>>

\* The hard time to live is the longer one.
HardExpires(i) == soft[i] /\ Drop(i)

\* The capacity, or InvalidateRooms.
Evict(i) == entry[i] # "none" /\ Drop(i)

(***************************************************************************)
(* One room: GetLiveRoomInfo, IsRoomLive.                                  *)
(***************************************************************************)

\* A miss loads, a stale hit revalidates, that of a missing room too; both join the flight
\* there is.
GetLiveRoomInfo(i) ==
    /\ entry[i] = "none" \/ soft[i]
    /\ loading[i] = "none" /\ loading' = [loading EXCEPT ![i] = "asked"]
    /\ UNCHANGED <<entry, soft, batches>>

\* FindRoomInfo finds the room under either of its ids, and nothing under an id of no room.
FlightAnswers(i) ==
    /\ loading[i] = "asked"
    /\ loading' = [loading EXCEPT ![i] = IF i \in ExistingIds THEN "found" ELSE "missing"]
    /\ UNCHANGED <<entry, soft, batches>>

\* Any other error of the API is not cached.
FlightFails(i) ==
    /\ loading[i] = "asked" /\ loading' = [loading EXCEPT ![i] = "none"]
    /\ UNCHANGED <<entry, soft, batches>>

\* "Not found" is cached like the room.
LoadRoom(i) ==
    /\ loading[i] \notin {"none", "asked"}
    /\ Set({i}, [j \in {i} |-> loading[i]])
    /\ loading' = [loading EXCEPT ![i] = "none"]
    /\ UNCHANGED batches

(***************************************************************************)
(* Several rooms: GetMultipleRoomInfos asks for those that are not cached, *)
(* and in the background for those it found and that are stale;            *)
(* RefreshRoomInfos is called for rooms that GetMultipleRoomInfos found.   *)
(***************************************************************************)

MissedIds == {i \in RoomIds : entry[i] = "none"}
FoundIds == {i \in RoomIds : entry[i] = "found"}


StaleIds == {i \in FoundIds : soft[i]}

BeginBatch(b) ==
    /\ batches[b] = NoBatch
    /\ \E ids \in SUBSET MissedIds \cup SUBSET StaleIds \cup SUBSET FoundIds :
          /\ ids # {}
          /\ batches' = [batches EXCEPT ![b] = [ids |-> ids, answer |-> "asked"]]
    /\ UNCHANGED <<entry, soft, loading>>

\* A batch with an id of no room is answered without it or, as a whole, with code 1; if it
\* asks for no room at all nothing is left to answer with, which counts as code 1.
BatchAnswers(b) ==
    /\ batches[b].answer = "asked"
    /\ \/ batches[b].ids \cap ExistingIds # {} /\ batches' = [batches EXCEPT ![b].answer = "found"]
       \/ "gone" \in batches[b].ids /\ batches' = [batches EXCEPT ![b].answer = "missing"]
    /\ UNCHANGED <<entry, soft, loading>>

\* "no caching since we don't know which one failed"
BatchFails(b) ==
    /\ batches[b].answer = "asked" /\ batches' = [batches EXCEPT ![b] = NoBatch]
    /\ UNCHANGED <<entry, soft, loading>>

\* An answer that there is no such room is stored for every id of the batch, whichever of them
\* it is about.  Otherwise the room is stored under the id it is answered with, asked for or
\* not, and every other id that was asked for as missing.
StoreBatch(b) ==
    /\ \/ /\ batches[b].answer = "missing"
          /\ Set(batches[b].ids, Missing(batches[b].ids))
       \/ LET ids == batches[b].ids \cup {"room"}
          IN  batches[b].answer = "found" /\ Set(ids, [Missing(ids) EXCEPT !["room"] = "found"])
    /\ batches' = [batches EXCEPT ![b] = NoBatch]
    /\ UNCHANGED loading

RoomNext ==
    \/ \E b \in Batches : BeginBatch(b) \/ BatchAnswers(b) \/ BatchFails(b) \/ StoreBatch(b)
    \/ \E i \in RoomIds : SoftExpires(i) \/ HardExpires(i) \/ Evict(i)
    \/ \E i \in RoomIds : GetLiveRoomInfo(i) \/ FlightAnswers(i) \/ FlightFails(i) \/ LoadRoom(i)

\* Time passes.  Nobody need ask for the room, and no request need end.
RoomFairness == \A i \in RoomIds : WF_roomVars(SoftExpires(i)) /\ WF_roomVars(HardExpires(i))

RoomSpec == RoomInit /\ [][RoomNext]_roomVars /\ RoomFairness

(***************************************************************************)
(* Properties.                                                             *)
(***************************************************************************)


\* A room that exists is never cached as missing.  Not met: one id of no room in a batch and
\* every other id of it is marked.
ExistingRoomIsFound == entry["room"] # "missing"

\* "FindRoomInfo resolves a query that may be a real room_id or a short_id": the same by the
\* short id.  Not met: a batch stores only what is answered under the very id it asked for.
ShortIdIsFound == entry["short"] # "missing"
=============================================================================
