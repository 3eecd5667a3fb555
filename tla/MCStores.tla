------------------------------ MODULE MCStores ------------------------------
(***************************************************************************)
(* Components that share no state, in one run: what is asked of each is    *)
(* that nothing of what it keeps (files, tasks, buffers, channels,         *)
(* settings) is lost or used after its end.  Only one component takes      *)
(* steps, so that the instances add up instead of multiplying.             *)
(***************************************************************************)
EXTENDS CloudQueue, RecorderSegments, DanmakuSidecar, StreamOpen, NotifyHub, AsyncSink,
        Subscriptions

SameTitle == [r \in Rooms |-> "title"]

VARIABLE part   \* the component that runs

allVars == <<part, cloudVars, segVars, sidecarVars, openVars, notifyVars, sinkVars, subVars>>

\* A component that does not run has one initial state.
MCInit ==
    /\ CloudInit /\ SegInit /\ SidecarInit /\ OpenInit /\ NotifyInit /\ SinkInit /\ SubInit
    /\ part \in {"cloud", "segments", "sidecars", "streams", "notify", "sink", "subscriptions"}
    /\ part # "sink" => overflow = "drop"
    /\ part # "subscriptions" => stored = [r \in SubRooms |-> Unsubscribed]

MCNext ==
    /\ UNCHANGED part
    /\ \/ /\ part = "cloud" /\ CloudNext
          /\ UNCHANGED <<segVars, sidecarVars, openVars, notifyVars, sinkVars, subVars>>
       \/ /\ part = "segments" /\ SegNext
          /\ UNCHANGED <<cloudVars, sidecarVars, openVars, notifyVars, sinkVars, subVars>>
       \/ /\ part = "sidecars" /\ SidecarNext
          /\ UNCHANGED <<cloudVars, segVars, openVars, notifyVars, sinkVars, subVars>>
       \/ /\ part = "streams" /\ OpenNext
          /\ UNCHANGED <<cloudVars, segVars, sidecarVars, notifyVars, sinkVars, subVars>>
       \/ /\ part = "notify" /\ NotifyNext
          /\ UNCHANGED <<cloudVars, segVars, sidecarVars, openVars, sinkVars, subVars>>
       \/ /\ part = "sink" /\ SinkNext
          /\ UNCHANGED <<cloudVars, segVars, sidecarVars, openVars, notifyVars, subVars>>
       \/ /\ part = "subscriptions" /\ SubNext
          /\ UNCHANGED <<cloudVars, segVars, sidecarVars, openVars, notifyVars, sinkVars>>

MCSpec == MCInit /\ [][MCNext]_allVars
=============================================================================
