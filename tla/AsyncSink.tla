----------------------------- MODULE AsyncSink -----------------------------
(***************************************************************************)
(* The buffered sink of the logs (pkg/sink/async_buffered_sink.go): Write, *)
(* Sync and Stop of any number of goroutines, and the goroutine that       *)
(* collects the chunks into batches and hands these to the transport.      *)
(*                                                                         *)
(* A chunk is the writer that wrote it; each writer writes once.  What the *)
(* transport could not deliver after its retries counts as consumed: the   *)
(* sink has done what it does about it.                                    *)
(***************************************************************************)
EXTENDS Naturals, Sequences, FiniteSets

CONSTANTS
    Writers,
    Syncers,
    SinkCap,    \* BufferSize
    BatchCap    \* BatchBytes, in chunks

ASSUME SinkAssumption ==
    /\ SinkCap \in Nat \ {0} /\ BatchCap \in Nat \ {0}
    /\ Syncers \cap {"none", "tick", "stop"} = {}

VARIABLES
    overflow,   \* OverflowPolicy: "block" or "drop"
    wr,         \* writer -> "new", "check", "queued", "dropped" or "refused"
    syn,        \* syncer -> "new", "check", "waiting", "synced" or "refused"
    before,     \* syncer -> the chunks in the channel or the batch when Sync was called
    sinkCh,     \* the channel
    sinkBatch,  \* the batch
    consumed,   \* what the transport has been given
    sinkPc,     \* the goroutine: "select", "drain", "flush" or "ended"
    why,        \* what it drains for: a syncer, "tick", "chunk" or "stop"
    sinkStop    \* Stop: "running", "flagged", "closed" (stopCh), "asked" or "returned"

sinkVars == <<overflow, wr, syn, before, sinkCh, sinkBatch, consumed, sinkPc, why, sinkStop>>

SinkInit ==
    /\ overflow \in {"block", "drop"}
    /\ wr = [w \in Writers |-> "new"] /\ syn = [s \in Syncers |-> "new"]
    /\ before = [s \in Syncers |-> {}]
    /\ sinkCh = <<>> /\ sinkBatch = {} /\ consumed = {}
    /\ sinkPc = "select" /\ why = "none" /\ sinkStop = "running"

Elems(q) == {q[i] : i \in 1..Len(q)}

(***************************************************************************)
(* Write: the flag is looked at first, the channel afterwards.             *)
(***************************************************************************)

CallWrite(w) ==
    /\ wr[w] = "new"
    /\ wr' = [wr EXCEPT ![w] = IF sinkStop = "running" THEN "check" ELSE "refused"]
    /\ UNCHANGED <<overflow, syn, before, sinkCh, sinkBatch, consumed, sinkPc, why, sinkStop>>

WriteChunk(w) ==
    /\ wr[w] = "check"
    /\ \/ /\ Len(sinkCh) < SinkCap
          /\ sinkCh' = Append(sinkCh, w) /\ wr' = [wr EXCEPT ![w] = "queued"]
       \/ /\ sinkStop \notin {"running", "flagged"}
          /\ wr' = [wr EXCEPT ![w] = "refused"] /\ UNCHANGED sinkCh
       \/ /\ overflow = "drop" /\ Len(sinkCh) = SinkCap /\ sinkStop \in {"running", "flagged"}
          /\ wr' = [wr EXCEPT ![w] = "dropped"] /\ UNCHANGED sinkCh
    /\ UNCHANGED <<overflow, syn, before, sinkBatch, consumed, sinkPc, why, sinkStop>>

(***************************************************************************)
(* Sync: the goroutine takes the request when it is at its select.         *)
(***************************************************************************)

CallSync(s) ==
    /\ syn[s] = "new"
    /\ syn' = [syn EXCEPT ![s] = IF sinkStop = "running" THEN "check" ELSE "refused"]
    /\ before' = [before EXCEPT ![s] = Elems(sinkCh) \cup sinkBatch]
    /\ UNCHANGED <<overflow, wr, sinkCh, sinkBatch, consumed, sinkPc, why, sinkStop>>

RequestFlush(s) ==
    /\ syn[s] = "check" /\ sinkPc = "select"
    /\ syn' = [syn EXCEPT ![s] = "waiting"] /\ sinkPc' = "drain" /\ why' = s
    /\ UNCHANGED <<overflow, wr, before, sinkCh, sinkBatch, consumed, sinkStop>>

\* The goroutine has ended meanwhile.
SyncEnds(s) ==
    /\ syn[s] \in {"check", "waiting"} /\ sinkPc = "ended"
    /\ syn' = [syn EXCEPT ![s] = "refused"]
    /\ UNCHANGED <<overflow, wr, before, sinkCh, sinkBatch, consumed, sinkPc, why, sinkStop>>

(***************************************************************************)
(* Stop: the flag, stopCh, the request, and the answer or the context.     *)
(***************************************************************************)

StopSink ==
    /\ \/ sinkStop = "running" /\ sinkStop' = "flagged"
       \/ sinkStop = "flagged" /\ sinkStop' = "closed"
       \/ sinkStop = "closed" /\ sinkStop' = "asked"
       \/ sinkStop = "asked" /\ sinkStop' = "returned"
    /\ UNCHANGED <<overflow, wr, syn, before, sinkCh, sinkBatch, consumed, sinkPc, why>>

(***************************************************************************)
(* run.                                                                    *)
(***************************************************************************)

\* A chunk that does not fit sends the batch off first, one that fills it does after it.
AppendChunk(c) ==
    LET all == sinkBatch \cup {c}
    IN  /\ sinkBatch' = IF Cardinality(all) >= BatchCap THEN {} ELSE all
        /\ consumed' = IF Cardinality(all) >= BatchCap THEN consumed \cup all ELSE consumed

TakeWritten ==
    /\ sinkPc = "select" /\ sinkCh # <<>>
    /\ AppendChunk(Head(sinkCh)) /\ sinkCh' = Tail(sinkCh)
    /\ UNCHANGED <<overflow, wr, syn, before, sinkPc, why, sinkStop>>

FlushTick ==
    /\ sinkPc = "select" /\ sinkPc' = "drain" /\ why' = "tick"
    /\ UNCHANGED <<overflow, wr, syn, before, sinkCh, sinkBatch, consumed, sinkStop>>

TakeStop ==
    /\ sinkPc = "select" /\ sinkStop \in {"asked", "returned"}
    /\ sinkPc' = "drain" /\ why' = "stop"
    /\ UNCHANGED <<overflow, wr, syn, before, sinkCh, sinkBatch, consumed, sinkStop>>

\* Mutant: only what is in the batch is flushed.
NoDrain == TRUE

Drained == sinkCh = <<>>

Drain ==
    /\ sinkPc = "drain"
    /\ \/ /\ sinkCh # <<>> /\ AppendChunk(Head(sinkCh)) /\ sinkCh' = Tail(sinkCh)
          /\ UNCHANGED sinkPc
       \/ Drained /\ sinkPc' = "flush" /\ UNCHANGED <<sinkCh, sinkBatch, consumed>>
    /\ UNCHANGED <<overflow, wr, syn, before, why, sinkStop>>

\* The transport tries again after an answer that allows it, a bounded number of times.  Then a
\* syncer gets its answer, or the goroutine ends.
FlushBatch ==
    /\ sinkPc = "flush"
    /\ consumed' = consumed \cup sinkBatch /\ sinkBatch' = {}
    /\ sinkPc' = IF why = "stop" THEN "ended" ELSE "select"
    /\ syn' = IF why \in Syncers THEN [syn EXCEPT ![why] = "synced"] ELSE syn
    /\ why' = "none"
    /\ UNCHANGED <<overflow, wr, before, sinkCh, sinkStop>>

SinkNext ==
    \/ \E w \in Writers : CallWrite(w) \/ WriteChunk(w)
    \/ \E s \in Syncers : CallSync(s) \/ RequestFlush(s) \/ SyncEnds(s)
    \/ StopSink \/ TakeWritten \/ FlushTick \/ TakeStop \/ Drain \/ FlushBatch

\* The goroutines run; a select that has the stop request to choose takes it in the end.
SinkFairness ==
    /\ WF_sinkVars(Drain) /\ WF_sinkVars(FlushBatch) /\ SF_sinkVars(TakeStop) /\ SF_sinkVars(TakeWritten)
    /\ WF_sinkVars(sinkStop # "running" /\ StopSink)
    /\ \A w \in Writers : SF_sinkVars(WriteChunk(w))
    /\ \A s \in Syncers : SF_sinkVars(RequestFlush(s)) /\ WF_sinkVars(SyncEnds(s))

(***************************************************************************)
(* Properties.                                                             *)
(***************************************************************************)

\* A Sync that returns without an error has brought everything that was written before it was
\* called to the transport, whoever wrote it and wherever it was at the time.
SyncIsComplete == \A s \in Syncers : syn[s] = "synced" => before[s] \subseteq consumed

\* Every Write and every Sync returns, whatever becomes of the sink meanwhile.
SinkCallsReturn ==
    /\ \A w \in Writers : wr[w] = "check" ~> wr[w] \in {"queued", "dropped", "refused"}
    /\ \A s \in Syncers : syn[s] \in {"check", "waiting"} ~> syn[s] \in {"synced", "refused"}

\* What was accepted is consumed before the goroutine ends.  Not met: a Write that has looked at
\* the flag in time may find room in the channel after the last drain.
AcceptedIsConsumed == sinkPc = "ended" => \A w \in Writers : wr[w] = "queued" => w \in consumed
=============================================================================
