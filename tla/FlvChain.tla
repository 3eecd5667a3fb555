------------------------------ MODULE FlvChain ------------------------------
(***************************************************************************)
(* What happens to the bytes of an HTTP-FLV stream between the channel of  *)
(* the reader and the file writer: the pipeline that FlvStrategy builds    *)
(* (RealtimeFixer with its DedupCache, HeaderChangeDetector, header        *)
(* writer), driven by rotate() and rev() of the recorder.                  *)
(*                                                                         *)
(* The fixer is shared by all files of a connection; detector and header   *)
(* writer are made anew for every file.  A video sequence header that      *)
(* differs from the one of the file ends the file: the pipeline returns an *)
(* error, rev drops what the pipeline handed back, and rotate opens the    *)
(* next file.                                                              *)
(*                                                                         *)
(* A tag stands for its bytes: two equal records are two equal tags.  A    *)
(* chunk is some whole tags and perhaps the beginning of one, which waits  *)
(* in the parse buffer for the next chunk.  The file writer behind the     *)
(* chain is StreamWriter.tla; here a file is the sequence of its tags.     *)
(***************************************************************************)
EXTENDS Integers, Sequences, FiniteSets, SequencesExt

CONSTANTS
    Times,              \* timestamps of the source
    VideoConfigs,       \* contents of video sequence headers
    AudioConfigs,       \* contents of audio sequence headers
    FrameBodies,        \* contents of frames
    FirstBytes,         \* content -> what a signature takes of it: its size and first 32 bytes
    JumpThreshold, VideoDurationFallback, AudioDurationFallback,
    MaxDedupCacheSize, DedupWindowMs,
    CleanPeriod,        \* 500: milliseconds between two cleanings of the cache
    CleanTags,          \* 128: tags in a chunk that make it clean the cache
    MaxChunk,           \* bound: tags in a chunk
    MaxTags             \* bound: tags of the stream

ASSUME FlvAssumption ==
    /\ Times \subseteq Nat /\ VideoConfigs \subseteq Nat \ {0} /\ AudioConfigs \subseteq Nat \ {0}
    /\ FrameBodies \subseteq Nat
    /\ JumpThreshold \in Nat /\ DedupWindowMs \in Nat /\ CleanPeriod \in Nat /\ CleanTags \in Nat
    /\ VideoDurationFallback \in 0..JumpThreshold /\ AudioDurationFallback \in 0..JumpThreshold
    /\ MaxDedupCacheSize \in Nat \ {0} /\ MaxChunk \in Nat \ {0} /\ MaxTags \in Nat

VARIABLES
    source,     \* [magic, video, audio, ts, sent]: what the stream has said so far
    partial,    \* the parse buffer: <<>> or the tag of which only a part is there
    fixer,      \* RealtimeFixer: header flags, timestamp store, dedup cache
    seen,       \* HeaderChangeDetector: [video, audio], 0 for none
    seeds,      \* RotationState: the headers the header writer prepends
    written,    \* flvHeaderWriterProcessor.written
    file,       \* the file being written: [tag, at] with the fixed timestamp
    dropped,    \* tags of this file that were dropped as duplicates
    owed,       \* tags the stream sent behind the header this file begins with
    lostHeader, \* a video header did not reach the detector: the chunk that opened this file had
                \* another one behind the changed one, or it was dropped for one it is not
    flvPc       \* "run", "aborted" or "done"

flvVars == <<source, partial, fixer, seen, seeds, written, file, dropped, owed, lostHeader, flvPc>>

Abs(n) == IF n < 0 THEN -n ELSE n
AtLeastOne(n) == IF n < 1 THEN 1 ELSE n

\* A frame has the configuration it is encoded under, which its bytes need not show.
VideoHeader(c, t) == [kind |-> "video", header |-> TRUE, config |-> c, ts |-> t, body |-> c]
AudioHeader(c, t) == [kind |-> "audio", header |-> TRUE, config |-> c, ts |-> t, body |-> c]
Frame(k, c, t, b) == [kind |-> k, header |-> FALSE, config |-> c, ts |-> t, body |-> b]

(***************************************************************************)
(* The stream (external).  A frame is sent under the header announced      *)
(* last, a header carries the time of the tag before it.                   *)
(***************************************************************************)
Sendable(s) ==
    {VideoHeader(c, s.ts) : c \in VideoConfigs} \cup {AudioHeader(c, s.ts) : c \in AudioConfigs}
    \cup {Frame("video", c, t, b) : c \in {s.video} \ {0}, t \in Times, b \in FrameBodies}
    \cup {Frame("audio", c, t, b) : c \in {s.audio} \ {0}, t \in Times, b \in FrameBodies}

Said(s, tag) ==
    [s EXCEPT !.ts = tag.ts, !.sent = @ + 1,
              !.video = IF tag.kind = "video" THEN tag.config ELSE @,
              !.audio = IF tag.kind = "audio" THEN tag.config ELSE @]

\* The chunks of n tags, each with the source behind it.
Chunks[n \in Nat] ==
    IF n = 0 THEN {[tags |-> <<>>, source |-> source]}
    ELSE UNION {{[tags |-> Append(c.tags, t), source |-> Said(c.source, t)] : t \in Sendable(c.source)}
                : c \in Chunks[n - 1]}

(***************************************************************************)
(* DedupCache.  The signature of a tag is a hash of its type, timestamp,   *)
(* size and first 32 bytes, which tell a header from a frame; what comes   *)
(* behind them it does not see, so different tags may share a signature.   *)
(* The hash is taken to tell different values of those four apart, so the  *)
(* comparison of type, size and time in isDuplicateLocked adds nothing.    *)
(***************************************************************************)
computeSignature(tag) ==
    [kind |-> tag.kind, header |-> tag.header, ts |-> tag.ts, head |-> FirstBytes[tag.body]]

NewDedupCache == [signatures |-> {}, order |-> <<>>]

\* Mutant: the eviction shortens the list and forgets the map.
EvictsListOnly(c, n) ==
    LET k == IF n > Len(c.order) THEN Len(c.order) ELSE n
    IN [signatures |-> c.signatures, order |-> SubSeq(c.order, k + 1, Len(c.order))]

evictOldest(c, n) ==
    LET k == IF n > Len(c.order) THEN Len(c.order) ELSE n
    IN [signatures |-> c.signatures \ {c.order[i] : i \in 1..k},
        order |-> SubSeq(c.order, k + 1, Len(c.order))]

addSignature(c, sig) ==
    LET room == IF Cardinality(c.signatures) >= MaxDedupCacheSize
                THEN evictOldest(c, AtLeastOne(MaxDedupCacheSize \div 5)) ELSE c
    IN [signatures |-> room.signatures \cup {sig}, order |-> Append(room.order, sig)]

highWaterSize == (MaxDedupCacheSize * 4) \div 5

cleanOld(c, now) ==
    LET young(sig) == Abs(now - sig.ts) <= 2 * DedupWindowMs
    IN [signatures |-> {sig \in c.signatures : young(sig)}, order |-> SelectSeq(c.order, young)]

cleanHighWater(c, now) ==
    LET young == cleanOld(c, now)
    IN IF Cardinality(young.signatures) < highWaterSize THEN young
       ELSE evictOldest(young, AtLeastOne(MaxDedupCacheSize \div 10))

(***************************************************************************)
(* RealtimeFixer.                                                          *)
(***************************************************************************)
TimestampStore == [firstChunk |-> TRUE, lastOriginal |-> 0, currentOffset |-> 0, nextTarget |-> 0]

NewRealtimeFixer ==
    [headerOK |-> FALSE, rotation |-> FALSE, store |-> TimestampStore,
     cache |-> NewDedupCache, lastClean |-> 0]

CalculateNextTarget(tag, at) ==
    at + (IF tag.kind = "audio" THEN AudioDurationFallback ELSE VideoDurationFallback)

\* The store behind the tag and the time the tag gets.
fixTimestamp(s, tag) ==
    LET diff == tag.ts - s.lastOriginal
        jump == diff < -JumpThreshold \/ (s.lastOriginal = 0 /\ diff < 0) \/ diff > JumpThreshold
        offset == IF jump THEN tag.ts - s.nextTarget
                  ELSE IF s.firstChunk THEN tag.ts ELSE s.currentOffset
        at == IF tag.ts - offset < 0 THEN 0 ELSE tag.ts - offset
    IN [store |-> [firstChunk |-> FALSE, lastOriginal |-> tag.ts, currentOffset |-> offset,
                   nextTarget |-> CalculateNextTarget(tag, at)],
        at |-> at]

\* One turn of the loop in Fix.
fixTag(f, tag) ==
    IF computeSignature(tag) \in f.fixer.cache.signatures THEN [f EXCEPT !.dups = @ \cup {tag}]
    ELSE LET fixed == fixTimestamp(f.fixer.store, tag)
         IN [f EXCEPT !.fixer.cache = addSignature(@, computeSignature(tag)),
                      !.fixer.store = fixed.store,
                      !.out = Append(@, [tag |-> tag, at |-> fixed.at])]

\* The cleaning of the cache at the end of Fix.
cleaned(f, parsed) ==
    LET now == f.store.lastOriginal
        high == Cardinality(f.cache.signatures) >= highWaterSize
    IN IF now > 0 /\ (now - f.lastClean > CleanPeriod \/ parsed >= CleanTags \/ high)
       THEN [f EXCEPT !.lastClean = now,
                      !.cache = IF high THEN cleanHighWater(@, now) ELSE cleanOld(@, now)]
       ELSE f

Fix(f, tags) ==
    LET r == FoldLeft(fixTag, [fixer |-> [f EXCEPT !.headerOK = TRUE], out |-> <<>>, dups |-> {}], tags)
    IN [r EXCEPT !.fixer = cleaned(@, Len(tags))]

ResetTimestampStore(f) == [f EXCEPT !.store = TimestampStore, !.rotation = TRUE, !.headerOK = FALSE]
ResetDedupCache(f) == [f EXCEPT !.cache = NewDedupCache]

(***************************************************************************)
(* HeaderChangeDetector: d with the headers of one more tag, and where the *)
(* video header changes.                                                   *)
(***************************************************************************)
checkHeader(d, tag) ==
    IF tag.kind = "video" THEN [d EXCEPT !.video = tag.config] ELSE [d EXCEPT !.audio = tag.config]

\* One turn of the loop in DetectChange: nothing is looked at behind the change.
detectTag(r, e) ==
    IF r.changed \/ ~e.tag.header THEN [r EXCEPT !.at = IF r.changed THEN @ ELSE @ + 1]
    ELSE [seen |-> checkHeader(r.seen, e.tag), at |-> r.at + 1,
          changed |-> e.tag.kind = "video" /\ r.seen.video \notin {0, e.tag.config}]

DetectChange(d, fixedTags) ==
    FoldLeft(detectTag, [seen |-> d, at |-> 0, changed |-> FALSE], fixedTags)

\* Mutant: the detector of the next file is not seeded.
Unseeded(h) == [video |-> 0, audio |-> 0]

\* The detector of a new file: Open resets it and seeds the video header.
SeedVideoHeader(h) == [video |-> h.video, audio |-> 0]

\* FlvHeaderWriter.Prepend: the headers of the rotation, with timestamp 0.
Preamble(h) ==
    (IF h.video = 0 THEN <<>> ELSE <<[tag |-> VideoHeader(h.video, 0), at |-> 0]>>)
    \o (IF h.audio = 0 THEN <<>> ELSE <<[tag |-> AudioHeader(h.audio, 0), at |-> 0]>>)

\* Mutant: the timestamp store is kept over a rotation.
KeepsTimestamps(f) == ResetDedupCache([f EXCEPT !.rotation = TRUE, !.headerOK = FALSE])

\* Mutant: the dedup cache is kept over a rotation.
KeepsCache(f) == ResetTimestampStore(f)

\* FlvStrategy.HandleErr: what a rotation does to the shared fixer.
HandleErr(f) == ResetDedupCache(ResetTimestampStore(f))

---------------------------------------------------------------------------

NoHeaders == [video |-> 0, audio |-> 0]

FlvInit ==
    /\ source \in [magic : BOOLEAN, video : {0}, audio : {0}, ts : {0}, sent : {0}]
    /\ partial = <<>> /\ fixer = NewRealtimeFixer
    /\ seen = NoHeaders /\ seeds = NoHeaders /\ written = FALSE
    /\ file = <<>> /\ dropped = {} /\ owed = {} /\ lostHeader = FALSE
    /\ flvPc = "run"

\* The first bytes are not those of an FLV file: ErrNotFlvFile ends the recording.
NotFlv ==
    /\ flvPc = "run" /\ ~source.magic /\ ~fixer.headerOK /\ ~fixer.rotation
    /\ flvPc' = "aborted"
    /\ UNCHANGED <<source, partial, fixer, seen, seeds, written, file, dropped, owed, lostHeader>>

Tags(entries) == {entries[i].tag : i \in DOMAIN entries}

\* rev has read a chunk and the pipeline took all of it.
Write(r, d) ==
    /\ ~d.changed
    /\ seen' = d.seen
    /\ file' = file \o (IF written \/ r.out = <<>> THEN <<>> ELSE Preamble(seeds)) \o r.out
    /\ written' = (written \/ r.out # <<>>)
    /\ dropped' = dropped \cup r.dups
    /\ owed' = owed \cup Tags(r.out)
    /\ fixer' = r.fixer
    /\ lostHeader' = (lostHeader \/ \E t \in r.dups : t.kind = "video" /\ t.header /\ t \notin Tags(file'))
    /\ UNCHANGED seeds

\* rev has read a chunk with a changed video header: the pipeline hands back what is
\* behind the header, rev drops it, rotate opens the next file.
Rotate(whole, r, d) ==
    LET headers == {i \in DOMAIN whole : whole[i].kind = "video" /\ whole[i].header}
    IN /\ d.changed
       /\ fixer' = HandleErr(r.fixer)
       /\ seeds' = d.seen
       /\ seen' = SeedVideoHeader(d.seen)
       /\ written' = FALSE
       /\ file' = <<>> /\ dropped' = {}
       /\ owed' = {r.out[i].tag : i \in (d.at + 1)..Len(r.out)}
       /\ lostHeader' = (whole[Max(headers)].config # d.seen.video)

\* A chunk arrives: n new tags, the last of which may be cut.
Process ==
    /\ flvPc = "run" /\ (source.magic \/ fixer.headerOK \/ fixer.rotation)
    /\ \E n \in 1..MaxChunk, cut \in BOOLEAN :
         /\ source.sent + n <= MaxTags
         /\ \E c \in Chunks[n] :
              LET whole == partial \o (IF cut THEN Front(c.tags) ELSE c.tags)
                  r == Fix(fixer, whole)
                  d == DetectChange(seen, r.out)
              IN /\ source' = c.source
                 /\ partial' = IF cut THEN <<Last(c.tags)>> ELSE <<>>
                 /\ Write(r, d) \/ Rotate(whole, r, d)
    /\ UNCHANGED flvPc

\* The channel is closed: rev returns, the strategy closes the fixer and what it holds.
CloseFixer ==
    /\ flvPc = "run"
    /\ flvPc' = "done" /\ partial' = <<>>
    /\ fixer' = [fixer EXCEPT !.cache = NewDedupCache, !.store = TimestampStore, !.headerOK = FALSE]
    /\ UNCHANGED <<source, seen, seeds, written, file, dropped, owed, lostHeader>>

FlvNext == NotFlv \/ Process \/ CloseFixer

FlvSpec == FlvInit /\ [][FlvNext]_flvVars

---------------------------------------------------------------------------

\* A file has one video configuration and begins, as far as video goes, with its sequence
\* header: whatever chunks the headers and the frames arrive in, and also when the stream
\* goes back to an earlier configuration.  The exception is a file for which the detector did
\* not get to see a header: one in a chunk with a second change, which rev drops, or one that
\* the dedup cache took for another.
OneConfigPerFile ==
    LET video == {i \in DOMAIN file : file[i].tag.kind = "video"}
    IN ~lostHeader /\ video # {} =>
         /\ file[Min(video)].tag.header
         /\ \A i \in video : file[i].tag.config = file[Min(video)].tag.config

\* The times of a file start at 0 and never jump by more than the threshold, however the
\* times of the source jump and wherever the stream is cut into files.
SmoothTimestamps ==
    LET fixed == IF Len(file) > 0 THEN SubSeq(file, Len(Preamble(seeds)) + 1, Len(file)) ELSE <<>>
    IN /\ fixed # <<>> => fixed[1].at = 0
       /\ \A i \in 2..Len(fixed) : Abs(fixed[i].at - fixed[i - 1].at) <= JumpThreshold

\* A tag is dropped as a duplicate only for one that is in the same file, with its type, time,
\* size and first bytes: what an abandoned chunk or an earlier file had is written again when
\* the stream repeats it, however the cache was cut in between.
DroppedHasTwin ==
    \A t \in dropped : \E u \in Tags(file) : computeSignature(u) = computeSignature(t)

\* "the unique signature of a tag": the tag that is in the file is the dropped one.  Not met:
\* a tag that differs behind its first 32 bytes only is dropped.
OnlyCopiesDropped == dropped \subseteq Tags(file)

\* The list of hashes and the map of signatures agree, within the size of the cache:
\* cleanOldLocked dereferences the signature of every hash in the list.
DedupCacheSound ==
    LET c == fixer.cache
    IN /\ IsInjective(c.order) /\ {c.order[i] : i \in DOMAIN c.order} = c.signatures
       /\ Len(c.order) <= MaxDedupCacheSize

\* "carried bytes from a rotation split; replayed into next segment, not lost"
\* (recorder.go): every tag the fixer handed on behind the header that opened the file is in it.
CarriedIsReplayed ==
    flvPc = "run" /\ written => owed \subseteq Tags(file)

=============================================================================
