---------------------------- MODULE StreamReader ----------------------------
(***************************************************************************)
(* The goroutine that reads a FLV stream (internal/services/stream/flv.go) *)
(* through the idle timeout of pkg/rw, the channel it fills, rev on the    *)
(* other side of it (internal/services/recorder/recorder.go), and the      *)
(* pooled buffers that travel from the one to the other (pkg/pool).        *)
(*                                                                         *)
(* The idle timeout is a timer for every Read.  When it expires a callback *)
(* runs in a goroutine of its own; it is expired before the callback has   *)
(* run, and a Read may return in between.                                  *)
(***************************************************************************)
EXTENDS Naturals

CONSTANTS
    StreamChanCap,    \* capacity of the channel
    PoolCap     \* buffers the pool keeps at most

ASSUME ReaderAssumption == StreamChanCap \in Nat \ {0} /\ PoolCap \in Nat

VARIABLES
    rdPc,       \* where the reader is
    timer,      \* the timer of the Read at hand: "none", "armed" or "expired"
    callbacks,  \* callbacks of expired timers that have yet to run
    fired,      \* IdleTimeoutReadCloser.fired
    bodyOpen,   \* the response body is open
    inChan,     \* buffers in the channel
    chClosed,   \* the reader has closed the channel
    revPc,      \* rev: "wait" for a chunk, "process" one, "left" after an error, or "done"
    parked,     \* buffers in the pool
    onLoan,      \* buffers taken from the pool and not given back
    ctxDone     \* the session's context has ended

readerVars == <<rdPc, timer, callbacks, fired, bodyOpen, inChan, chClosed, revPc, parked, onLoan, ctxDone>>

ReaderInit ==
    /\ rdPc = "select" /\ timer = "none" /\ callbacks = 0 /\ fired = FALSE /\ bodyOpen = TRUE
    /\ inChan = 0 /\ chClosed = FALSE /\ revPc = "wait" /\ parked = 0 /\ onLoan = 0 /\ ctxDone = FALSE

\* The session is stopped, or has come to its end.
ContextEnds ==
    /\ ~ctxDone /\ ctxDone' = TRUE
    /\ UNCHANGED <<rdPc, timer, callbacks, fired, bodyOpen, inChan, chClosed, revPc, parked, onLoan>>

(***************************************************************************)
(* The pool: a bounded queue; an empty one makes a buffer, a full one      *)
(* leaves it to the garbage collector.                                     *)
(***************************************************************************)
GetSized == onLoan' = onLoan + 1 /\ parked' = IF parked > 0 THEN parked - 1 ELSE 0
PutChunk == onLoan' = onLoan - 1 /\ parked' = IF parked < PoolCap THEN parked + 1 ELSE parked

(***************************************************************************)
(* The reader.                                                             *)
(***************************************************************************)

\* A buffer is taken and Read is called, with a new timer.
BeginRead ==
    /\ rdPc = "select" /\ ~ctxDone /\ rdPc' = "read"
    /\ GetSized /\ timer' = "armed"
    /\ UNCHANGED <<callbacks, fired, bodyOpen, inChan, chClosed, revPc, ctxDone>>

SelectDone ==
    /\ rdPc = "select" /\ ctxDone /\ rdPc' = "leave"
    /\ UNCHANGED <<timer, callbacks, fired, bodyOpen, inChan, chClosed, revPc, parked, onLoan, ctxDone>>

TimerExpires ==
    /\ timer = "armed" /\ callbacks < 2
    /\ timer' = "expired" /\ callbacks' = callbacks + 1
    /\ UNCHANGED <<rdPc, fired, bodyOpen, inChan, chClosed, revPc, parked, onLoan, ctxDone>>

\* fire: only the first to set the flag closes the body.
Fire ==
    /\ callbacks > 0 /\ callbacks' = callbacks - 1
    /\ fired' = TRUE /\ bodyOpen' = (bodyOpen /\ fired)
    /\ UNCHANGED <<rdPc, timer, inChan, chClosed, revPc, parked, onLoan, ctxDone>>

\* Read is back: a timer that cannot be stopped any more sets the flag too.
ReadReturns == /\ timer' = "none"
               /\ fired' = (fired \/ timer = "expired")
               /\ UNCHANGED <<callbacks, bodyOpen, inChan, chClosed, revPc, ctxDone>>

ReadData ==
    /\ rdPc = "read" /\ bodyOpen /\ rdPc' = "send"
    /\ ReadReturns /\ UNCHANGED <<parked, onLoan>>

ReadNothing ==
    /\ rdPc = "read" /\ bodyOpen /\ rdPc' = "select"
    /\ ReadReturns /\ PutChunk

\* The end of the stream, an error of the connection, the context of the request or a body
\* that the timer has closed.
ReaderFails ==
    /\ rdPc = "read" /\ rdPc' = "leave"
    /\ ReadReturns /\ PutChunk

SendChunk ==
    /\ rdPc = "send" /\ inChan < StreamChanCap /\ rdPc' = "select"
    /\ inChan' = inChan + 1
    /\ UNCHANGED <<timer, callbacks, fired, bodyOpen, chClosed, revPc, parked, onLoan, ctxDone>>

\* Mutant: the reader waits for rev alone.
NeverGivesUp == FALSE

\* A reader that waits for room in the channel gives up when the context ends.
GivesUpSending == ctxDone

SendCancelled ==
    /\ rdPc = "send" /\ GivesUpSending /\ rdPc' = "leave"
    /\ PutChunk
    /\ UNCHANGED <<timer, callbacks, fired, bodyOpen, inChan, chClosed, revPc, ctxDone>>

\* The deferred calls: the lease is released, the channel and the body are closed.
LeaveReader ==
    /\ rdPc = "leave" /\ rdPc' = "ended"
    /\ chClosed' = TRUE /\ bodyOpen' = FALSE
    /\ UNCHANGED <<timer, callbacks, fired, inChan, revPc, parked, onLoan, ctxDone>>

(***************************************************************************)
(* rev, and what drains the channel of a stream nobody wants any more.     *)
(***************************************************************************)

ReceiveChunk ==
    /\ revPc = "wait" /\ inChan > 0
    /\ revPc' = "process" /\ inChan' = inChan - 1
    /\ UNCHANGED <<rdPc, timer, callbacks, fired, bodyOpen, chClosed, parked, onLoan, ctxDone>>

\* The buffer is given back whatever the pipeline says.  After an error rev is called again on
\* the same channel when the file is rotated, and not any more otherwise.
ProcessChunk ==
    /\ revPc = "process" /\ revPc' \in {"wait", "left"}
    /\ PutChunk
    /\ UNCHANGED <<rdPc, timer, callbacks, fired, bodyOpen, inChan, chClosed, ctxDone>>

ChannelEnds ==
    /\ revPc = "wait" /\ inChan = 0 /\ chClosed /\ revPc' = "done"
    /\ UNCHANGED <<rdPc, timer, callbacks, fired, bodyOpen, inChan, chClosed, parked, onLoan, ctxDone>>

ReaderNext ==
    \/ ContextEnds \/ BeginRead \/ SelectDone \/ TimerExpires \/ Fire
    \/ ReadData \/ ReadNothing \/ ReaderFails \/ SendChunk \/ SendCancelled \/ LeaveReader
    \/ ReceiveChunk \/ ProcessChunk \/ ChannelEnds

\* The goroutines run, and the transport fails the Read of a request whose context has ended.
\* A server that sends nothing owes nothing.
ReaderFairness ==
    /\ WF_readerVars(BeginRead \/ SelectDone) /\ WF_readerVars(SendChunk \/ SendCancelled)
    /\ WF_readerVars((ctxDone \/ ~bodyOpen) /\ ReaderFails) /\ WF_readerVars(LeaveReader)
    /\ WF_readerVars(TimerExpires) /\ WF_readerVars(Fire)
    /\ WF_readerVars(ReceiveChunk) /\ WF_readerVars(ProcessChunk)

(***************************************************************************)
(* Properties.                                                             *)
(***************************************************************************)

\* Once the session's context has ended its reader ends, and with it the connection and the
\* lease, although rev may have left for an error and nobody empties the channel (readFlv).
\* No more than this holds: after such an error the reader of a session that recovers stays
\* blocked until the session ends.
StreamReaderEnds == ctxDone ~> rdPc = "ended"

\* Every buffer outside the pool is in one place: with the reader, in the channel or with rev.
BuffersHaveOneOwner ==
    onLoan = inChan + (IF rdPc \in {"read", "send"} THEN 1 ELSE 0) + (IF revPc = "process" THEN 1 ELSE 0)

\* "closes it from another goroutine when a single Read blocks longer than timeout": a Read
\* whose timer has expired and whose callback has run reads from a closed body.  The code does
\* not meet it: a Read that returns between the two sets fired itself, and no callback closes
\* the body after that.
StalledReadIsClosed == rdPc = "read" /\ timer = "expired" /\ callbacks = 0 => ~bodyOpen
=============================================================================
