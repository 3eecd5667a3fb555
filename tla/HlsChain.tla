------------------------------ MODULE HlsChain ------------------------------
(***************************************************************************)
(* What happens to the segments of an HLS stream between the channel of    *)
(* the reader and the file writer.  HlsFmp4Strategy: segment dedup, box    *)
(* guard, timestamp normalizer, init writer; HlsTsStrategy: segment dedup, *)
(* continuity fixer.  rotate() and rev() of the recorder drive both.       *)
(*                                                                         *)
(* The processors are made anew for every file; the bases of the           *)
(* timestamps and the last init segment belong to the strategy and live on.*)
(*                                                                         *)
(* A segment is a record that stands for its bytes.  What the fingerprint  *)
(* sees of it (length, first and last 8 bytes) is Fingerprint: different   *)
(* segments may have the same.  The reader upstream is HlsRunner.tla: an   *)
(* init segment comes before the media that needs it.                      *)
(***************************************************************************)
EXTENDS Integers, Sequences, FiniteSets, SequencesExt

CONSTANTS
    Inits,       \* contents of init segments; the one named "broken" has a bad box size
    Tracks,      \* track ids of an fMP4 fragment
    DecodeTimes, \* values of its tfdt boxes
    Pids,        \* PIDs of a transport stream
    Counters,    \* continuity counters the origin sends
    MaxSegments, \* bound: segments of an fMP4 stream
    MaxTsSegments \* bound: segments of a transport stream

ASSUME HlsChainAssumption ==
    /\ DecodeTimes \subseteq Nat /\ Counters \subseteq 0..15 /\ MaxSegments \in Nat /\ MaxTsSegments \in Nat

VARIABLES
    mode,       \* "fmp4" or "ts": which strategy
    announced,  \* the init segment the origin sent last, "" for none
    segments,   \* how many segments came
    dedup,      \* SegmentDedupProcessor: [print, hash], <<>> for none
    taken, repeats, \* segments of this file the dedup let pass, and dropped
    seenMedia,  \* Fmp4BoxGuardProcessor.seenMedia
    lastInit,   \* HlsFmp4Strategy.lastInit
    bases,      \* HlsFmp4Strategy.bases: the tracks that have one, with its value
    pendingInit, initWritten, \* fmp4InitWriterProcessor
    lastCC,     \* TsContinuityFixer: the PIDs seen, with the last counter
    hlsFile     \* the file: segments, fMP4 media with the times they got

hlsVars == <<mode, announced, segments, dedup, taken, repeats, seenMedia, lastInit, bases,
             pendingInit, initWritten, lastCC, hlsFile>>

---------------------------------------------------------------------------
\* The segments of the origin (external).

InitSegment(i) == [box |-> "ftyp", init |-> i, times |-> <<>>]
Packet == [pid : Pids, cc : Counters, field : {"payload", "none", "discontinuity", "unsynced"}]

TsSegments == {[box |-> "ts", packets |-> <<p, q>>] : p \in Packet, q \in Packet}

Fmp4Segments ==
    {InitSegment(i) : i \in Inits}
    \cup [box : {"moof", "moof-broken"}, init : {announced} \ {""}, times : [Tracks -> DecodeTimes]]
    \cup [box : {"junk"}, init : {""}, times : {<<>>}]

Arriving == IF mode = "ts" THEN TsSegments ELSE Fmp4Segments

\* Length and boundary bytes: they tell the kind and one of the tracks, not everything.
Fingerprint(s) ==
    IF s.box = "ts" THEN s.packets[1]
    ELSE IF s.times = <<>> THEN <<s.box, s.init>>
    ELSE <<s.box, s.init, s.times[CHOOSE t \in Tracks : TRUE]>>

---------------------------------------------------------------------------
\* SegmentDedupProcessor.Process: the dedup behind the segment, and whether it passes.
\* A different fingerprint is stored without the hash: the hash may be an older one.

\* Mutant: equal fingerprints are taken for equal segments.
FingerprintOnly(d, s) ==
    IF d # <<>> /\ d.print = Fingerprint(s) THEN [pass |-> FALSE, dedup |-> d]
    ELSE [pass |-> TRUE, dedup |-> [print |-> Fingerprint(s), hash |-> s]]

DedupSegment(d, s) ==
    IF d # <<>> /\ d.print # Fingerprint(s)
    THEN [pass |-> TRUE, dedup |-> [d EXCEPT !.print = Fingerprint(s)]]
    ELSE IF d # <<>> /\ d.hash = s THEN [pass |-> FALSE, dedup |-> d]
    ELSE [pass |-> TRUE, dedup |-> [print |-> Fingerprint(s), hash |-> s]]

(***************************************************************************)
(* Fmp4BoxGuardProcessor.Process: what becomes of a segment.               *)
(***************************************************************************)
BoxGuard(s) ==
    CASE s.box = "ftyp" /\ seenMedia /\ lastInit # "" /\ s.init = lastInit -> "drop"
      [] s.box = "ftyp" /\ seenMedia /\ ~(lastInit # "" /\ s.init = lastInit) -> "discontinuity"
      [] s.box = "ftyp" /\ ~seenMedia -> IF s.init = "broken" THEN "drop" ELSE "pass"
      [] s.box = "moof" -> "pass"
      [] OTHER -> "drop"

\* Mutant: only the first init segment is remembered.
KeepsFirstInit(s) == IF s.box = "ftyp" /\ lastInit = "" THEN s.init ELSE lastInit

storeLastInit(s) == IF s.box = "ftyp" THEN s.init ELSE lastInit

(***************************************************************************)
(* NormalizeFragmentTimestamps: the base of a track is its first time, and *)
(* a smaller one when it comes; the times are taken relative to it.        *)
(***************************************************************************)
NormalizedBases(s) ==
    [t \in DOMAIN bases \cup DOMAIN s.times |->
        IF t \notin DOMAIN bases THEN s.times[t]
        ELSE IF t \in DOMAIN s.times /\ s.times[t] < bases[t] THEN s.times[t] ELSE bases[t]]

NormalizeFragmentTimestamps(s) ==
    [s EXCEPT !.times = [t \in DOMAIN s.times |-> s.times[t] - NormalizedBases(s)[t]]]

(***************************************************************************)
(* TsContinuityFixer.FixSegment.                                           *)
(***************************************************************************)
FixPacket(r, p) ==
    IF p.field \in {"none", "unsynced"} THEN [r EXCEPT !.out = Append(@, p)]
    ELSE LET cc == IF p.field = "discontinuity" \/ p.pid \notin DOMAIN r.cc THEN p.cc
                   ELSE (r.cc[p.pid] + 1) % 16
         IN [cc |-> [i \in DOMAIN r.cc \cup {p.pid} |-> IF i = p.pid THEN cc ELSE r.cc[i]],
             out |-> Append(r.out, [p EXCEPT !.cc = cc])]

\* Mutant: every segment starts with a new fixer.
FixAlone(cc, s) == FoldLeft(FixPacket, [cc |-> <<>>, out |-> <<>>], s.packets)

FixSegment(cc, s) == FoldLeft(FixPacket, [cc |-> cc, out |-> <<>>], s.packets)

---------------------------------------------------------------------------

HlsChainInit ==
    /\ mode \in {"fmp4", "ts"}
    /\ announced = "" /\ segments = 0
    /\ dedup = <<>> /\ taken = {} /\ repeats = {}
    /\ seenMedia = FALSE /\ lastInit = "" /\ bases = <<>>
    /\ pendingInit = "" /\ initWritten = FALSE
    /\ lastCC = <<>> /\ hlsFile = <<>>

\* The origin sends s.
Arrive(s) ==
    /\ segments < (IF mode = "ts" THEN MaxTsSegments ELSE MaxSegments)
    /\ segments' = segments + 1
    /\ announced' = IF s.box = "ftyp" THEN s.init ELSE announced
    /\ UNCHANGED mode

\* The dedup drops the segment: the writers behind it skip an empty chunk.
Duplicate(s) ==
    /\ ~DedupSegment(dedup, s).pass
    /\ Arrive(s)
    /\ repeats' = repeats \cup {s}
    /\ UNCHANGED <<dedup, taken, seenMedia, lastInit, bases, pendingInit, initWritten, lastCC, hlsFile>>

Pass(s) ==
    /\ DedupSegment(dedup, s).pass
    /\ Arrive(s)
    /\ dedup' = DedupSegment(dedup, s).dedup
    /\ taken' = taken \cup {s}
    /\ UNCHANGED repeats

\* The box guard drops a truncated or foreign segment, or an init the file has already.
Dropped(s) ==
    /\ mode = "fmp4" /\ BoxGuard(s) = "drop"
    /\ Pass(s)
    /\ lastInit' = storeLastInit(s)
    /\ seenMedia' = (seenMedia \/ s.box = "moof-broken")
    /\ UNCHANGED <<bases, pendingInit, initWritten, lastCC, hlsFile>>

\* An init segment, or media with its times normalized, goes to the file; the first
\* segment of a rotated file behind the init segment that caused the rotation.
Fragment(s) ==
    /\ mode = "fmp4" /\ BoxGuard(s) = "pass"
    /\ Pass(s)
    /\ lastInit' = storeLastInit(s)
    /\ seenMedia' = (seenMedia \/ s.box = "moof")
    /\ bases' = NormalizedBases(s)
    /\ hlsFile' = hlsFile
          \o (IF pendingInit # "" /\ ~initWritten THEN <<InitSegment(pendingInit)>> ELSE <<>>)
          \o <<NormalizeFragmentTimestamps(s)>>
    /\ initWritten' = (initWritten \/ pendingInit # "")
    /\ UNCHANGED <<pendingInit, lastCC>>

\* Mutant: the bases of the file before are kept.
BasesKept(b) == b

\* HlsFmp4Strategy.HandleErr: the bases of the next file.
HandleDiscontinuity(b) == <<>>

\* Another init segment behind media: Fmp4DiscontinuityError, the next file is opened.
Discontinuity(s) ==
    /\ mode = "fmp4" /\ BoxGuard(s) = "discontinuity" /\ DedupSegment(dedup, s).pass
    /\ Arrive(s)
    /\ lastInit' = storeLastInit(s)
    /\ bases' = HandleDiscontinuity(bases)
    /\ pendingInit' = s.init /\ initWritten' = FALSE
    /\ dedup' = <<>> /\ taken' = {} /\ repeats' = {}
    /\ seenMedia' = FALSE /\ hlsFile' = <<>>
    /\ UNCHANGED lastCC

\* A segment of a transport stream goes to the file with its counters patched.
TsSegment(s) ==
    /\ mode = "ts"
    /\ Pass(s)
    /\ LET r == FixSegment(lastCC, s)
       IN lastCC' = r.cc /\ hlsFile' = Append(hlsFile, [s EXCEPT !.packets = r.out])
    /\ UNCHANGED <<seenMedia, lastInit, bases, pendingInit, initWritten>>

HlsChainNext ==
    \E s \in Arriving :
        Duplicate(s) \/ Dropped(s) \/ Fragment(s) \/ Discontinuity(s) \/ TsSegment(s)

HlsChainSpec == HlsChainInit /\ [][HlsChainNext]_hlsVars

---------------------------------------------------------------------------

\* Media stands in its file behind the init segment it was sent under, and no other init
\* segment is between the two: through repeated, changed and changed-back init segments and
\* rotations.  Media sent under a broken init segment is excepted.
MediaUnderInit ==
    mode = "fmp4" => \A i \in DOMAIN hlsFile :
        hlsFile[i].box = "moof" /\ hlsFile[i].init # "broken" =>
            LET before == {j \in 1..(i - 1) : hlsFile[j].box = "ftyp"}
            IN before # {} /\ hlsFile[CHOOSE j \in before : \A k \in before : k <= j].init = hlsFile[i].init

\* In every file every track begins at time 0, and no time lies before it.
TracksStartAtZero ==
    mode = "fmp4" => \A t \in Tracks :
        LET media == SelectSeq(hlsFile, LAMBDA s : s.box = "moof")
        IN media # <<>> => media[1].times[t] = 0 /\ \A i \in DOMAIN media : media[i].times[t] >= 0

\* The dedup drops a segment only when the same segment passed it before in this file,
\* although the hash it compares with may be older than the fingerprint.
OnlyRepeatsDropped == repeats \subseteq taken

\* The counters of a PID follow each other through all segments of a file, but for the
\* packets that say that theirs does not.
CountersContinue ==
    mode = "ts" =>
        LET all == FoldLeft(LAMBDA a, s : a \o s.packets, <<>>, hlsFile)
        IN \A pid \in Pids :
             LET p == SelectSeq(all, LAMBDA q : q.pid = pid /\ q.field \in {"payload", "discontinuity"})
             IN \A i \in 2..Len(p) :
                  p[i].field = "discontinuity" \/ p[i].cc = (p[i - 1].cc + 1) % 16
=============================================================================
