---------------------------- MODULE DanmakuClient ----------------------------
(***************************************************************************)
(* The danmaku connection of a recording: supervise, runOnce and the       *)
(* handlers of internal/services/danmaku/session.go and the websocket      *)
(* client of internal/modules/bilibili/livews.go.                          *)
(*                                                                         *)
(* The supervisor connects again and again until the recording's context   *)
(* ends.  A connection has a heartbeat goroutine, which is also the one    *)
(* that closes it when the context ends.  The handlers run on the read     *)
(* loop and hand pooled fragments to the writer over a channel; what they  *)
(* do when it is full is DANMAKU_OVERFLOW_POLICY.                          *)
(***************************************************************************)
EXTENDS Naturals, FiniteSets

CONSTANTS
    MsgCap,     \* capacity of msgCh
    MaxEvents,  \* bound: events in one websocket message
    MaxFrags    \* bound: fragments in flight that the pool gives out

ASSUME WsAssumption == MsgCap \in Nat \ {0} /\ MaxEvents \in Nat /\ MaxFrags \in Nat

VARIABLES
    policy,     \* DANMAKU_OVERFLOW_POLICY
    wsPc,       \* where the supervisor goroutine is
    conn,       \* its connection: "none", "open", or "closed" by either side
    beat,       \* the heartbeat goroutine of the connection
    batch,      \* events of the message at hand that are still to be dispatched
    msgCh,      \* fragments in the channel
    inHand,       \* the handler holds a fragment
    lent,       \* fragments taken from the pool and not given back
    danWriter,  \* the writer: "idle", "writing" a fragment, or "gone" after a panic
    stopped     \* the recording's context has ended

wsVars == <<policy, wsPc, conn, beat, batch, msgCh, inHand, lent, danWriter, stopped>>

WsInit ==
    /\ policy \in {"drop", "block"} /\ wsPc = "check" /\ conn = "none" /\ beat = "none"
    /\ batch = 0 /\ msgCh = 0 /\ inHand = FALSE /\ lent = 0 /\ danWriter = "idle" /\ stopped = FALSE

Goto(from, to) == wsPc = from /\ wsPc' = to

\* The recording stops.
WsStop ==
    /\ ~stopped /\ stopped' = TRUE
    /\ UNCHANGED <<policy, wsPc, conn, beat, batch, msgCh, inHand, lent, danWriter>>

(***************************************************************************)
(* supervise and runOnce.                                                  *)
(***************************************************************************)

\* The context is looked at before and after every connection, and during the backoff.
Supervise ==
    /\ \/ wsPc \in {"check", "after", "backoff"} /\ stopped /\ wsPc' = "done"
       \/ Goto("check", "info") /\ ~stopped
       \/ Goto("after", "backoff") /\ ~stopped
       \/ Goto("backoff", "check") /\ ~stopped
    /\ UNCHANGED <<policy, conn, beat, batch, msgCh, inHand, lent, danWriter, stopped>>

\* GetDanmuInfo degrades to the default host; it fails only when signing fails.
GetDanmuInfo ==
    /\ Goto("info", "dial") \/ Goto("info", "after")
    /\ UNCHANGED <<policy, conn, beat, batch, msgCh, inHand, lent, danWriter, stopped>>

\* Dial takes the context and a timeout.
Dial ==
    /\ \/ Goto("dial", "enter") /\ ~stopped /\ conn' = "open"
       \/ Goto("dial", "after") /\ UNCHANGED conn
    /\ UNCHANGED <<policy, beat, batch, msgCh, inHand, lent, danWriter, stopped>>

\* The enter packet and the first heartbeat, then the heartbeat goroutine.
Enter ==
    /\ \/ Goto("enter", "read") /\ conn = "open" /\ beat' = "beating"
       \/ Goto("enter", "leave") /\ UNCHANGED beat
    /\ UNCHANGED <<policy, conn, batch, msgCh, inHand, lent, danWriter, stopped>>

\* A message of some events; the answer to a ping, a heartbeat answer and what cannot be
\* decompressed have none.
ReadMessage ==
    /\ wsPc = "read" /\ conn = "open"
    /\ batch' \in 0..MaxEvents
    /\ wsPc' = "dispatch"
    /\ UNCHANGED <<policy, conn, beat, msgCh, inHand, lent, danWriter, stopped>>

\* A read error, the deadline, or a close frame.
ReadLoopFails ==
    /\ Goto("read", "leave")
    /\ UNCHANGED <<policy, conn, beat, batch, msgCh, inHand, lent, danWriter, stopped>>

\* The deferred calls of Run: the connection is closed and the heartbeat goroutine told to end.
LeaveWs ==
    /\ Goto("leave", "after")
    /\ conn' = "none" /\ beat' = "none"
    /\ UNCHANGED <<policy, batch, msgCh, inHand, lent, danWriter, stopped>>

(***************************************************************************)
(* The handlers.                                                           *)
(***************************************************************************)

EndOfMessage ==
    /\ Goto("dispatch", "read") /\ batch = 0
    /\ UNCHANGED <<policy, conn, beat, batch, msgCh, inHand, lent, danWriter, stopped>>

\* An event nobody registered for, that does not parse, or that encodes to nothing: its
\* buffer is given back at once.
IgnoreEvent ==
    /\ wsPc = "dispatch" /\ batch > 0 /\ batch' = batch - 1
    /\ UNCHANGED <<policy, wsPc, conn, beat, msgCh, inHand, lent, danWriter, stopped>>

BuildFragment ==
    /\ Goto("dispatch", "enqueue") /\ batch > 0 /\ batch' = batch - 1 /\ lent < MaxFrags
    /\ inHand' = TRUE /\ lent' = lent + 1
    /\ UNCHANGED <<policy, conn, beat, msgCh, danWriter, stopped>>

Enqueue ==
    /\ Goto("enqueue", "dispatch") /\ msgCh < MsgCap
    /\ msgCh' = msgCh + 1 /\ inHand' = FALSE
    /\ UNCHANGED <<policy, conn, beat, batch, lent, danWriter, stopped>>

\* Mutant: a blocked handler does not listen to the context.
GivesUpOnlyToDrop == policy = "drop" /\ msgCh = MsgCap

\* When the fragment is given back instead: a full channel, or, when blocked, the context.
GivesUp == IF policy = "drop" THEN msgCh = MsgCap ELSE stopped

DropWs ==
    /\ Goto("enqueue", "dispatch") /\ GivesUp
    /\ inHand' = FALSE /\ lent' = lent - 1
    /\ UNCHANGED <<policy, conn, beat, batch, msgCh, danWriter, stopped>>

(***************************************************************************)
(* The heartbeat goroutine, the server and the writer.                     *)
(***************************************************************************)

\* A heartbeat that cannot be written ends the goroutine, which then closes nothing.
HeartbeatFails ==
    /\ beat = "beating" /\ beat' = "failed"
    /\ UNCHANGED <<policy, wsPc, conn, batch, msgCh, inHand, lent, danWriter, stopped>>

HeartbeatCloses ==
    /\ beat = "beating" /\ stopped
    /\ beat' = "none" /\ conn' = "closed"
    /\ UNCHANGED <<policy, wsPc, batch, msgCh, inHand, lent, danWriter, stopped>>

\* The server, or the network, ends a connection; for want of heartbeats it does so for sure.
ServerCloses ==
    /\ conn = "open" /\ conn' = "closed"
    /\ UNCHANGED <<policy, wsPc, beat, batch, msgCh, inHand, lent, danWriter, stopped>>

WriterTakes ==
    /\ danWriter = "idle" /\ msgCh > 0
    /\ msgCh' = msgCh - 1 /\ danWriter' = "writing"
    /\ UNCHANGED <<policy, wsPc, conn, beat, batch, inHand, lent, stopped>>

WriterWrites ==
    /\ danWriter = "writing" /\ danWriter' = "idle" /\ lent' = lent - 1
    /\ UNCHANGED <<policy, wsPc, conn, beat, batch, msgCh, inHand, stopped>>

\* A panic of the write loop is recovered, and nobody empties the channel any more.
WriterPanics ==
    /\ danWriter = "writing" /\ danWriter' = "gone"
    /\ UNCHANGED <<policy, wsPc, conn, beat, batch, msgCh, inHand, lent, stopped>>

Connection ==
    \/ Supervise \/ GetDanmuInfo \/ Dial \/ Enter \/ ReadMessage \/ ReadLoopFails \/ LeaveWs
    \/ EndOfMessage \/ IgnoreEvent \/ BuildFragment \/ Enqueue \/ DropWs

WsNext ==
    \/ WsStop \/ Connection \/ HeartbeatFails \/ HeartbeatCloses \/ ServerCloses
    \/ WriterTakes \/ WriterWrites \/ WriterPanics

\* The supervisor's goroutine goes on wherever it can; the heartbeat goroutine sees the
\* context; a server ends a connection it has no heartbeats from.
WsFairness ==
    /\ WF_wsVars(Connection)
    /\ WF_wsVars(HeartbeatCloses)
    /\ WF_wsVars(beat = "failed" /\ ServerCloses)

---------------------------------------------------------------------------

\* After the recording the supervisor ends and the next session of the room may start, even
\* when a heartbeat failed before, the channel is full and the write loop is gone.
ConnectionEnds == stopped ~> wsPc = "done"

\* A fragment is in one place: with the handler, in the channel or with the writer.
FragmentsHaveOneOwner ==
    lent = msgCh + (IF inHand THEN 1 ELSE 0) + (IF danWriter = "idle" THEN 0 ELSE 1)
=============================================================================
