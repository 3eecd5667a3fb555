---------------------------- MODULE StreamWriter ----------------------------
(***************************************************************************)
(* The end of every recording pipeline: BufferedStreamWriterProcessor      *)
(* (internal/processors/buffered_stream_writer.go) with the buffered       *)
(* writer under it (pkg/rw) and the page-cache release beside it.          *)
(*                                                                         *)
(* Three goroutines: the capture goroutine calls Process and at the end    *)
(* Close; the writer goroutine (writePeriodically) takes chunks from       *)
(* dataCh, keeps them in memory until a file is worth creating, and writes *)
(* them through the buffer; the I/O worker fsyncs and releases the cold    *)
(* prefix of the file.  The flush lock is shared with the writers of other *)
(* recordings when SEQUENTIAL_WRITE is on.                                 *)
(*                                                                         *)
(* The stream is the sequence of bytes 1, 2, 3, ...; a chunk is a run of   *)
(* them.  Creating the file and every write to it may fail, a write after  *)
(* any number of bytes.                                                    *)
(***************************************************************************)
EXTENDS Integers, Sequences, FiniteSets

CONSTANTS
    MaxBytes,     \* bound: bytes of the stream
    ChunkSizes,   \* the sizes of a chunk
    ChanCap,      \* capacity of dataCh
    BufferSize,   \* size of the writer's buffer
    Threshold,    \* skipSmallFlushThreshold; 0: the file is created at once
    PendingLimit, \* maxPendingBytesBeforeDrop
    MinFlush,     \* minPeriodicFlushBytes
    HotWindow,    \* coldReleaseHotWindow: the tail that is never released
    MinRelease,   \* coldReleaseMinRelease
    Sequential,   \* SEQUENTIAL_WRITE: the flush lock is a real one
    Faults        \* whether creating and writing may fail

ASSUME WriterAssumption ==
    /\ MaxBytes \in Nat /\ ChunkSizes \subseteq Nat \ {0}
    /\ ChanCap \in Nat \ {0} /\ BufferSize \in Nat \ {0}
    /\ Threshold \in Nat /\ PendingLimit \in Nat /\ MinFlush \in Nat \ {0}
    /\ HotWindow \in Nat /\ MinRelease \in Nat \ {0}
    /\ Sequential \in BOOLEAN /\ Faults \in BOOLEAN

VARIABLES
    next,      \* the next byte of the stream
    accepted,  \* bytes that Process has taken
    dataCh,    \* chunks on their way to the writer goroutine
    caller,    \* the capture goroutine: "record", "closing", "final", "closed"
    pending,   \* pendingChunks
    file,      \* "none", "open", "closed"
    disk,      \* what has been written to the file
    buf,       \* the buffer of the writer
    chunks,    \* chunks that are being written; the first one is in Write
    taken,     \* bytes of the first one that Write has taken so far
    owner,     \* where the goroutine that owns the writer is
    back,      \* where it goes on after a flush
    bytesWritten,
    lock,      \* who holds the flush lock
    io,        \* where the I/O worker is
    ioBytes,   \* bytesWritten as the I/O worker read it
    released,  \* releasedThrough
    failed     \* something could not be created, written or queued

stream == <<next, accepted>>
writer == <<disk, buf, chunks, taken, bytesWritten>>
worker == <<io, ioBytes, released>>
vars == <<stream, dataCh, caller, pending, file, writer, owner, back, lock,
          worker, failed>>

Bytes(first, n) == [i \in 1..n |-> first + i - 1]
Drop(s, n) == SubSeq(s, n + 1, Len(s))
Flat(cs) == LET F[i \in 0..Len(cs)] == IF i = 0 THEN <<>> ELSE F[i - 1] \o cs[i]
            IN  F[Len(cs)]
Deferred == Threshold > 0

\* With a no-op locker everybody gets the lock.
Free == ~Sequential \/ lock = "free"
Lock(who) == Free /\ lock' = IF Sequential THEN who ELSE lock
Unlock == lock' = "free"

\* Open: the file is created now, unless creation is deferred.
Init ==
    /\ next = 1 /\ accepted = 0
    /\ dataCh = <<>> /\ caller = "record"
    /\ pending = <<>>
    /\ file = IF Deferred THEN "none" ELSE "open"
    /\ disk = <<>> /\ buf = <<>> /\ chunks = <<>> /\ taken = 0
    /\ owner = "select" /\ back = "select"
    /\ bytesWritten = 0
    /\ lock = "free"
    /\ io = "wait" /\ ioBytes = 0 /\ released = 0
    /\ failed = FALSE

-----------------------------------------------------------------------------
(* The capture goroutine.                                                  *)

Process(n) ==
    /\ caller = "record" /\ next + n - 1 <= MaxBytes
    /\ Len(dataCh) < ChanCap
    /\ dataCh' = Append(dataCh, Bytes(next, n))
    /\ next' = next + n /\ accepted' = accepted + n
    /\ UNCHANGED <<caller, pending, file, writer, owner, back, lock, worker,
                   failed>>

\* The channel stays full for the 30 s timeout of the processor: the chunk is
\* not taken, and the capture loop ends with the error.
ProcessTimeout(n) ==
    /\ caller = "record" /\ next + n - 1 <= MaxBytes
    /\ Len(dataCh) = ChanCap
    /\ next' = next + n
    /\ caller' = "closing"
    /\ UNCHANGED <<accepted, dataCh, pending, file, writer, owner, back, lock,
                   worker, failed>>

\* Close: dataCh and stopCh are closed ...
CloseChannels ==
    /\ caller = "record"
    /\ caller' = "closing"
    /\ UNCHANGED <<stream, dataCh, pending, file, writer, owner, back, lock,
                   worker, failed>>

\* ... and both goroutines waited for.  What is pending is dropped when it is
\* too little for a file, or written after a last attempt to create one; then
\* the buffer is flushed.
Create == file' = "open" /\ UNCHANGED failed
CreateFails == Faults /\ failed' = TRUE /\ UNCHANGED file

CloseWaited ==
    /\ caller = "closing" /\ owner = "done" /\ io = "done"
    /\ caller' = "final"
    /\ \/ /\ file = "open"
          /\ owner' = "flush" /\ back' = "sync"
          /\ UNCHANGED <<file, failed, pending, chunks>>
       \/ /\ file = "none" /\ Len(Flat(pending)) < Threshold
          /\ pending' = <<>> /\ owner' = "close"
          /\ UNCHANGED <<file, failed, back, chunks>>
       \/ /\ file = "none" /\ Len(Flat(pending)) >= Threshold
          /\ CreateFails
          /\ pending' = <<>> /\ owner' = "close"
          /\ UNCHANGED <<back, chunks>>
       \/ /\ file = "none" /\ Len(Flat(pending)) >= Threshold
          /\ Create
          /\ chunks' = pending /\ pending' = <<>>
          /\ owner' = "write"
          /\ UNCHANGED back
    /\ UNCHANGED <<stream, dataCh, disk, buf, taken, bytesWritten, lock,
                   worker>>

\* The last fsync, under the lock, and the file is closed.
CloseSync ==
    /\ owner = "sync" /\ Free
    /\ owner' = "close"
    /\ UNCHANGED <<stream, dataCh, caller, pending, file, writer, back, lock,
                   worker, failed>>

CloseFile ==
    /\ owner = "close"
    /\ owner' = "closed" /\ caller' = "closed"
    /\ file' = IF file = "open" THEN "closed" ELSE file
    /\ UNCHANGED <<stream, dataCh, pending, writer, back, lock, worker, failed>>

-----------------------------------------------------------------------------
(* The writer goroutine.                                                   *)

\* handleDataChunk with a file.
TakeChunk ==
    /\ owner = "select" /\ dataCh # <<>> /\ file = "open"
    /\ chunks' = <<Head(dataCh)>> /\ dataCh' = Tail(dataCh)
    /\ owner' = "write"
    /\ UNCHANGED <<stream, caller, pending, file, disk, buf, taken,
                   bytesWritten, back, lock, worker, failed>>

\* Faulty: no limit after a failure.
HoldChunkUnbounded ==
    LET held == Append(pending, Head(dataCh))
        bytes == Len(Flat(held))
    IN  /\ owner = "select" /\ dataCh # <<>> /\ file = "none"
        /\ dataCh' = Tail(dataCh)
        /\ \/ /\ bytes < Threshold \/ Faults
              /\ pending' = held
              /\ UNCHANGED <<file, failed, chunks, owner>>
           \/ /\ bytes >= Threshold
              /\ Create
              /\ chunks' = held /\ pending' = <<>>
              /\ owner' = "write"
        /\ UNCHANGED <<stream, caller, disk, buf, taken, bytesWritten, back,
                       lock, worker>>

\* handleDataChunk without one: the chunk waits in memory; from the threshold
\* on every chunk is an attempt to create the file; after a failure the memory
\* is kept, up to a limit.
HoldChunk ==
    LET held == Append(pending, Head(dataCh))
        bytes == Len(Flat(held))
    IN  /\ owner = "select" /\ dataCh # <<>> /\ file = "none"
        /\ dataCh' = Tail(dataCh)
        /\ \/ /\ bytes < Threshold
              /\ pending' = held
              /\ UNCHANGED <<file, failed, chunks, owner>>
           \/ /\ bytes >= Threshold
              /\ Create
              /\ chunks' = held /\ pending' = <<>>
              /\ owner' = "write"
           \/ /\ bytes >= Threshold
              /\ CreateFails
              /\ pending' = IF bytes <= PendingLimit THEN held ELSE <<>>
              /\ UNCHANGED <<chunks, owner>>
        /\ UNCHANGED <<stream, caller, disk, buf, taken, bytesWritten, back,
                       lock, worker>>

\* Faulty: the loop ends when the channel is closed, whatever is left in it.
WriterEndsEarly ==
    /\ owner = "select" /\ caller = "closing"
    /\ owner' = "done"
    /\ UNCHANGED <<stream, dataCh, caller, pending, file, writer, back, lock,
                   worker, failed>>

\* The channel is closed and drained.
WriterEnds ==
    /\ owner = "select" /\ caller = "closing" /\ dataCh = <<>>
    /\ owner' = "done"
    /\ UNCHANGED <<stream, dataCh, caller, pending, file, writer, back, lock,
                   worker, failed>>

\* doPeriodicFlush, by the timer or by the coordinator's signal.
PeriodicFlush ==
    /\ owner = "select" /\ file = "open" /\ Len(buf) >= MinFlush
    /\ owner' = "flush" /\ back' = "select"
    /\ UNCHANGED <<stream, dataCh, caller, pending, file, writer, lock, worker,
                   failed>>

-----------------------------------------------------------------------------
(* FlushLockedBufferedWriter, used by whoever owns the writer.             *)

Rest == Drop(Head(chunks), taken)

\* Write: the buffer is full and is flushed first.
WriteFull ==
    /\ owner = "write" /\ Rest # <<>> /\ Len(buf) = BufferSize
    /\ owner' = "flush" /\ back' = "write"
    /\ UNCHANGED <<stream, dataCh, caller, pending, file, writer, lock, worker,
                   failed>>

\* Write: as much as fits is copied into the buffer.
WriteCopy ==
    LET room == BufferSize - Len(buf)
        n == IF Len(Rest) < room THEN Len(Rest) ELSE room
    IN  /\ owner = "write" /\ Rest # <<>> /\ Len(buf) < BufferSize
        /\ ~(buf = <<>> /\ Len(Rest) >= BufferSize)
        /\ buf' = buf \o SubSeq(Rest, 1, n)
        /\ taken' = taken + n
        /\ UNCHANGED <<stream, dataCh, caller, pending, file, disk, chunks,
                       bytesWritten, owner, back, lock, worker, failed>>

\* Write: a large chunk and an empty buffer, straight to the file, under the
\* lock.  A short write comes with an error, which ends this Write.
WriteDirect(n) ==
    /\ owner = "write" /\ Rest # <<>> /\ buf = <<>> /\ Len(Rest) >= BufferSize
    /\ Free
    /\ n = Len(Rest) \/ (Faults /\ n \in 0..(Len(Rest) - 1))
    /\ disk' = disk \o SubSeq(Rest, 1, n)
    /\ taken' = taken + n
    /\ failed' = (failed \/ n < Len(Rest))
    /\ owner' = IF n < Len(Rest) THEN "wrote" ELSE "write"
    /\ UNCHANGED <<stream, dataCh, caller, pending, file, buf, chunks,
                   bytesWritten, back, lock, worker>>

WriteReturns ==
    /\ owner = "write" /\ Rest = <<>>
    /\ owner' = "wrote"
    /\ UNCHANGED <<stream, dataCh, caller, pending, file, writer, back, lock,
                   worker, failed>>

\* addWrittenBytes, and the next pending chunk if there is one.
Account ==
    /\ owner = "wrote"
    /\ bytesWritten' = bytesWritten + taken
    /\ taken' = 0
    /\ chunks' = Tail(chunks)
    /\ \/ Len(chunks) > 1 /\ owner' = "write" /\ UNCHANGED back
       \/ Len(chunks) = 1 /\ caller # "final" /\ owner' = "select"
            /\ UNCHANGED back
       \/ Len(chunks) = 1 /\ caller = "final" /\ owner' = "flush"
            /\ back' = "sync"
    /\ UNCHANGED <<stream, dataCh, caller, pending, file, disk, buf, lock,
                   worker, failed>>

\* Flush takes the lock ...
FlushLock ==
    /\ owner = "flush"
    /\ Lock("owner")
    /\ owner' = "flushing"
    /\ UNCHANGED <<stream, dataCh, caller, pending, file, writer, back, worker,
                   failed>>

AfterFlush(n) == CASE n < Len(buf) /\ back = "write" -> "wrote"
                   [] n < Len(buf) /\ back = "sync" -> "close"
                   [] OTHER -> back

\* Faulty: after a short write the whole buffer is kept.
FlushWriteKeeping(n) ==
    /\ owner = "flushing"
    /\ n = Len(buf) \/ (Faults /\ n \in 0..(Len(buf) - 1))
    /\ disk' = disk \o SubSeq(buf, 1, n)
    /\ buf' = IF n = Len(buf) THEN <<>> ELSE buf
    /\ failed' = (failed \/ n < Len(buf))
    /\ Unlock
    /\ owner' = AfterFlush(n)
    /\ UNCHANGED <<stream, dataCh, caller, pending, file, chunks, taken,
                   bytesWritten, back, worker>>

\* Faulty: the error return keeps the lock.
FlushWriteLocked(n) ==
    /\ owner = "flushing"
    /\ n = Len(buf) \/ (Faults /\ n \in 0..(Len(buf) - 1))
    /\ disk' = disk \o SubSeq(buf, 1, n)
    /\ buf' = Drop(buf, n)
    /\ failed' = (failed \/ n < Len(buf))
    /\ IF n < Len(buf) THEN UNCHANGED lock ELSE Unlock
    /\ owner' = AfterFlush(n)
    /\ UNCHANGED <<stream, dataCh, caller, pending, file, chunks, taken,
                   bytesWritten, back, worker>>

\* ... and writes the buffer: all of it, or some bytes and an error, after
\* which the rest stays in the buffer, the Write that needed the room gives up
\* its chunk, and Close does without the fsync.
FlushWrite(n) ==
    /\ owner = "flushing"
    /\ n = Len(buf) \/ (Faults /\ n \in 0..(Len(buf) - 1))
    /\ disk' = disk \o SubSeq(buf, 1, n)
    /\ buf' = Drop(buf, n)
    /\ failed' = (failed \/ n < Len(buf))
    /\ Unlock
    /\ owner' = AfterFlush(n)
    /\ UNCHANGED <<stream, dataCh, caller, pending, file, chunks, taken,
                   bytesWritten, back, worker>>

-----------------------------------------------------------------------------
(* The I/O worker: periodicIOWorker with doPeriodicFsync or                *)
(* doColdCacheRelease, which do the same but for the fsync.                *)

\* A tick: nothing to do without a file; the lock is only tried.
IoTick ==
    /\ io = "wait" /\ file = "open" /\ Lock("io")
    /\ io' = "sync"
    /\ UNCHANGED <<stream, dataCh, caller, pending, file, writer, owner, back,
                   ioBytes, released, failed>>

\* The fsync succeeds or not; the cold prefix is only released after it did
\* and when the worker has seen the writer, a field it reads without a lock.
IoSynced ==
    /\ io = "sync"
    /\ io' \in {"read", "unlock"}
    /\ UNCHANGED <<stream, dataCh, caller, pending, file, writer, owner, back,
                   lock, ioBytes, released, failed>>

\* releaseColdPrefixLocked reads bytesWritten ...
IoRead ==
    /\ io = "read"
    /\ ioBytes' = bytesWritten
    /\ io' = "plan"
    /\ UNCHANGED <<stream, dataCh, caller, pending, file, writer, owner, back,
                   lock, released, failed>>

\* planColdRelease: the new end of the released prefix, or the old one.
planColdRelease(onDisk) ==
    LET coldEnd == onDisk - HotWindow
    IN  IF onDisk > 0 /\ coldEnd - released >= MinRelease
        THEN coldEnd ELSE released

\* Faulty: what is still in the buffer counts as being in the file.
IoReleaseAll ==
    /\ io = "plan"
    /\ released' = planColdRelease(ioBytes)
    /\ io' = "unlock" /\ ioBytes' = 0
    /\ UNCHANGED <<stream, dataCh, caller, pending, file, writer, owner, back,
                   lock, failed>>

\* ... and then Buffered(), while the writer goroutine goes on.
IoRelease ==
    /\ io = "plan"
    /\ released' = planColdRelease(ioBytes - Len(buf))
    /\ io' = "unlock" /\ ioBytes' = 0
    /\ UNCHANGED <<stream, dataCh, caller, pending, file, writer, owner, back,
                   lock, failed>>

IoUnlock ==
    /\ io = "unlock"
    /\ lock' = IF lock = "io" THEN "free" ELSE lock
    /\ io' = "wait"
    /\ UNCHANGED <<stream, dataCh, caller, pending, file, writer, owner, back,
                   ioBytes, released, failed>>

IoEnds ==
    /\ io = "wait" /\ caller = "closing"
    /\ io' = "done"
    /\ UNCHANGED <<stream, dataCh, caller, pending, file, writer, owner, back,
                   lock, ioBytes, released, failed>>

\* A writer of another recording takes the flush lock, and gives it back.
OtherLocks ==
    /\ Sequential /\ lock = "free" /\ caller # "closed"
    /\ lock' = "other"
    /\ UNCHANGED <<stream, dataCh, caller, pending, file, writer, owner, back,
                   worker, failed>>

OtherUnlocks ==
    /\ lock = "other"
    /\ Unlock
    /\ UNCHANGED <<stream, dataCh, caller, pending, file, writer, owner, back,
                   worker, failed>>

-----------------------------------------------------------------------------
Capture ==
    \/ \E n \in ChunkSizes : Process(n) \/ ProcessTimeout(n)
    \/ CloseChannels

Write == WriteFull \/ WriteCopy \/ (\E n \in 0..MaxBytes : WriteDirect(n))
            \/ WriteReturns \/ Account

Flush == FlushLock \/ \E n \in 0..MaxBytes : FlushWrite(n)

Owner == TakeChunk \/ HoldChunk \/ WriterEnds \/ PeriodicFlush \/ Write \/ Flush

Close == CloseWaited \/ CloseSync \/ CloseFile

IoWorker == IoTick \/ IoSynced \/ IoRead \/ IoRelease \/ IoUnlock \/ IoEnds

Next == Capture \/ Owner \/ Close \/ IoWorker \/ OtherLocks \/ OtherUnlocks

Spec == Init /\ [][Next]_vars

\* Every goroutine goes on; a lock that is free again and again is got (Go's
\* mutex does not starve a waiter), others give it back; and a select with
\* stopCh closed does not choose the ticker for ever.
Fairness ==
    /\ WF_vars(Owner) /\ SF_vars(FlushLock)
    /\ SF_vars(\E n \in 0..MaxBytes : WriteDirect(n))
    /\ WF_vars(Close) /\ SF_vars(CloseSync)
    /\ WF_vars(IoWorker) /\ SF_vars(IoEnds)
    /\ SF_vars(WriterEnds) /\ SF_vars(TakeChunk \/ HoldChunk)
    /\ WF_vars(OtherUnlocks)

FairSpec == Spec /\ Fairness

-----------------------------------------------------------------------------
\* Types; the queue and the memory before a file exists stay within bounds:
\* pending never exceeds the limit, or the threshold, by more than a chunk.
Increasing(s) == \A i \in 1..(Len(s) - 1) : s[i] < s[i + 1]
Largest == CHOOSE n \in ChunkSizes : \A m \in ChunkSizes : m <= n

TypeOK ==
    /\ next \in 1..(MaxBytes + 1) /\ accepted \in 0..MaxBytes
    /\ Len(dataCh) <= ChanCap
    /\ caller \in {"record", "closing", "final", "closed"}
    /\ file \in {"none", "open", "closed"}
    /\ Len(buf) <= BufferSize
    /\ owner \in {"select", "write", "wrote", "flush", "flushing", "done",
                  "sync", "close", "closed"}
    /\ chunks # <<>> <=> \/ owner \in {"write", "wrote"}
                         \/ owner \in {"flush", "flushing"} /\ back = "write"
    /\ owner \in {"write", "wrote", "flush", "flushing", "sync"} => file = "open"
    /\ lock \in {"free", "owner", "io", "other"}
    /\ io \in {"wait", "sync", "read", "plan", "unlock", "done"}
    /\ Len(Flat(pending)) <= IF Threshold - 1 > PendingLimit
                             THEN Threshold - 1 ELSE PendingLimit

\* No byte is written twice or out of order: the file, the buffer, the chunks
\* being written, the memory and the queue are, one after the other, a
\* subsequence of the stream, also after failed and short writes.
NoDuplicates ==
    LET inWrite == IF chunks = <<>> THEN <<>> ELSE Drop(Flat(chunks), taken)
    IN  Increasing(disk \o buf \o inWrite \o Flat(pending) \o Flat(dataCh))

\* Close leaves the whole recording: unless something failed, what Process
\* took is in the file, in full, or is less than a file is worth, and then
\* there is no file.
CloseIsComplete ==
    caller = "closed" /\ ~failed =>
        IF accepted >= Threshold
        THEN disk = Bytes(1, accepted)
        ELSE file = "none" /\ disk = <<>>

\* The page cache is only released behind the hot window of what is really in
\* the file, although the worker computes that from two counters it reads one
\* after the other while the writer goroutine moves bytes between them.
ReleaseBehindDisk ==
    released > 0 => released + HotWindow <= Len(disk)

\* Close returns: both goroutines end, and the flush lock is never held by
\* somebody who waits for the closing goroutine.
CloseReturns == caller = "closing" ~> caller = "closed"
=============================================================================
