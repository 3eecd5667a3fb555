----------------------------- MODULE StreamOpen -----------------------------
(***************************************************************************)
(* How a recording gets its stream: the options of a start request         *)
(* (internal/controllers/record/start_params.go), the choice among the     *)
(* streams the live API offers (internal/modules/bilibili/stream*.go), the *)
(* attempts to connect (internal/services/recorder/start_internal.go) and  *)
(* the lease of a chunk pool each attempt takes (pkg/pool/lazy_dual_pool)  *)
(* and the reader of a connected stream keeps.                             *)
(*                                                                         *)
(* A stream is a record of its format, quality and whether it is audio     *)
(* only.  The other sessions appear as the leases they hold.               *)
(***************************************************************************)
EXTENDS Naturals, Sequences, FiniteSets, TLC

CONSTANTS
    OfferedQn,  \* qualities the server may offer
    MaxOffers,  \* bound: streams in one answer
    MaxLeases   \* bound: leases held at a time, by all sessions

ASSUME OpenAssumption == MaxLeases \in Nat

VARIABLES
    profilesAsked,      \* what the session asks for; NoAsk before the first request
    openPc,     \* where internalStart is
    offered,    \* the streams of the last answer that match what was asked
    streams,    \* the same in the order they are tried
    tried,      \* how many of them have been tried
    conn,       \* the stream the session reads, or NoStream
    lease,      \* lease -> the tier it is for, or "none"
    mine,       \* the lease of the session's attempt or reader, 0 for none
    tier        \* tier -> the state of the lazy pool

openVars == <<profilesAsked, openPc, offered, streams, tried, conn, lease, mine, tier>>

AllFormats == {"flv", "ts", "fmp4"}
Qualities == {80, 150, 250, 400, 10000, 20000, 30000}
Stream == [format : AllFormats, qn : OfferedQn, audio : BOOLEAN]
NoStream == [format |-> "none"]
NoAsk == [formats |-> {}]
NoLease == "none"
Tiers == {"default", "high"}
Leases == 1..MaxLeases

(***************************************************************************)
(* What is asked for.                                                      *)
(***************************************************************************)

\* The requests of the controller: profiles, a quality (0 for none given) and only_audio.
StartRequests ==
    [profiles : {{}, {"ts", "fmp4"}, {"flv", "bad"}}, qn : {0, 999, 20000}, audio : BOOLEAN]

\* A token that is no profile refuses the whole request; a quality is not looked at here.
Refused(params) == ~(params.profiles \subseteq AllFormats)

DefaultAsk == [formats |-> AllFormats, qn |-> 10000, audio |-> FALSE]

\* What a request leaves open stays at its default.
Ask(params) ==
    [formats |-> IF params.profiles = {} THEN DefaultAsk.formats ELSE params.profiles,
     qn      |-> IF params.qn = 0 THEN DefaultAsk.qn ELSE params.qn,
     audio   |-> params.audio]

ValidAsk(ask) == ask.qn \in Qualities

(***************************************************************************)
(* Which stream comes first.                                               *)
(***************************************************************************)

Matches(ask, s) == s.format \in ask.formats /\ s.audio = ask.audio

StreamProfileRank(format) == CASE format = "flv" -> 0 [] format = "fmp4" -> 1 [] format = "ts" -> 2

\* Mutant: the quality that was asked for gets no precedence.
HighestFirst(ask, a, b) ==
    \/ a.qn > b.qn
    \/ a.qn = b.qn /\ StreamProfileRank(a.format) < StreamProfileRank(b.format)

\* The quality asked for, then the higher quality, then the format.
Before(ask, a, b) ==
    LET wantedA == a.qn = ask.qn
        wantedB == b.qn = ask.qn
    IN  IF wantedA # wantedB THEN wantedA
        ELSE \/ a.qn > b.qn
             \/ a.qn = b.qn /\ StreamProfileRank(a.format) < StreamProfileRank(b.format)

\* A stable sort: the position decides between streams of which neither comes before the other.
SortStreams(ask, ss) ==
    LET place(i) == Cardinality({j \in 1..Len(ss) :
                        Before(ask, ss[j], ss[i]) \/ (j <= i /\ ~Before(ask, ss[i], ss[j]))})
    IN  [k \in 1..Len(ss) |-> ss[CHOOSE i \in 1..Len(ss) : place(i) = k]]

(***************************************************************************)
(* The chunk pools.                                                        *)
(***************************************************************************)

IsHighQualityQn(qn) == qn >= 20000
TierOf(qn) == IF IsHighQualityQn(qn) THEN "high" ELSE "default"

\* pool: the tier holds a pool; idle: the time to live has passed since its last use;
\* callbacks: timers that have fired and wait for the lock.
FreshTier == [pool |-> FALSE, ref |-> 0, idle |-> FALSE, armed |-> FALSE, callbacks |-> 0]

\* Acquire makes the pool where there is none, counts the lease and stops the timer.
AcquiredTier(x) == [x EXCEPT !.pool = TRUE, !.ref = @ + 1, !.idle = FALSE, !.armed = FALSE]

AcquireTier(t, l) ==
    /\ lease[l] = NoLease
    /\ lease' = [lease EXCEPT ![l] = t]
    /\ tier' = [tier EXCEPT ![t] = AcquiredTier(@)]

\* The last lease to be given back arms the timer.
ReleasedTier(x) ==
    LET ref == IF x.ref > 0 THEN x.ref - 1 ELSE 0
    IN  [x EXCEPT !.ref = ref, !.idle = FALSE, !.armed = @ \/ ref = 0]

ReleaseLease(l) ==
    /\ tier' = [tier EXCEPT ![lease[l]] = ReleasedTier(@)]
    /\ lease' = [lease EXCEPT ![l] = NoLease]

\* The timer fires; its callback has yet to get the lock.
FiredTier(x) == [x EXCEPT !.armed = FALSE, !.idle = TRUE, !.callbacks = @ + 1]

TimerFires(t) ==
    /\ tier[t].armed /\ tier[t].callbacks < 2
    /\ tier' = [tier EXCEPT ![t] = FiredTier(@)]
    /\ UNCHANGED <<profilesAsked, openPc, offered, streams, tried, conn, lease, mine>>

\* tryCleanupTierLocked: a pool in use is left alone, one used since waits for the rest of its time.
CleanedTier(x) ==
    IF ~x.pool \/ x.ref > 0 THEN [x EXCEPT !.callbacks = @ - 1]
    ELSE IF ~x.idle THEN [x EXCEPT !.callbacks = @ - 1, !.armed = TRUE]
    ELSE [x EXCEPT !.callbacks = @ - 1, !.armed = FALSE, !.pool = FALSE]

TryCleanup(t) ==
    /\ tier[t].callbacks > 0
    /\ tier' = [tier EXCEPT ![t] = CleanedTier(@)]
    /\ UNCHANGED <<profilesAsked, openPc, offered, streams, tried, conn, lease, mine>>

\* Another session takes or gives back a lease.
OthersAcquire(t) ==
    /\ \E l \in Leases : AcquireTier(t, l)
    /\ UNCHANGED <<profilesAsked, openPc, offered, streams, tried, conn, mine>>

OthersRelease ==
    /\ \E l \in Leases \ {mine} : lease[l] # NoLease /\ ReleaseLease(l)
    /\ UNCHANGED <<profilesAsked, openPc, offered, streams, tried, conn, mine>>

(***************************************************************************)
(* internalStart.                                                          *)
(***************************************************************************)

OpenInit ==
    /\ profilesAsked = NoAsk /\ openPc = "idle" /\ offered = {} /\ streams = <<>> /\ tried = 0
    /\ conn = NoStream /\ lease = [l \in Leases |-> NoLease] /\ mine = 0
    /\ tier = [t \in Tiers |-> FreshTier]

\* The controller refuses a bad profile; a start without a reservation ends at once.
StartRecording ==
    /\ openPc = "idle" /\ profilesAsked = NoAsk
    /\ \E params \in StartRequests : ~Refused(params) /\ profilesAsked' = Ask(params)
    /\ openPc' = "info"
    /\ UNCHANGED <<offered, streams, tried, conn, lease, mine, tier>>

\* The room is live, or it is not, encrypted, banned, unknown, or the API fails.
RoomInfo ==
    /\ openPc = "info" /\ openPc' \in {"urls", "failed"}
    /\ UNCHANGED <<profilesAsked, offered, streams, tried, conn, lease, mine, tier>>

NoStreams ==
    /\ openPc = "urls" /\ openPc' = "failed"
    /\ UNCHANGED <<profilesAsked, offered, streams, tried, conn, lease, mine, tier>>

GetStreamURLsV2 ==
    /\ openPc = "urls" /\ ValidAsk(profilesAsked)
    /\ \E n \in 1..MaxOffers : \E ss \in [1..n -> {s \in Stream : Matches(profilesAsked, s)}] :
           /\ offered' = {ss[i] : i \in 1..n}
           /\ streams' = SortStreams(profilesAsked, ss)
    /\ tried' = 0 /\ openPc' = "try"
    /\ UNCHANGED <<profilesAsked, conn, lease, mine, tier>>

\* connectStream first takes a lease of the pool of the stream's quality.
TryStream ==
    /\ openPc = "try" /\ tried < Len(streams) /\ openPc' = "dial" /\ tried' = tried + 1
    /\ \E l \in Leases : AcquireTier(TierOf(streams[tried'].qn), l) /\ mine' = l
    /\ UNCHANGED <<profilesAsked, offered, streams, conn>>

\* A connection that fails gives the lease back; the next url is tried, unless the context ended.
ConnectFails ==
    /\ openPc = "dial" /\ openPc' \in {"try", "failed"}
    /\ ReleaseLease(mine) /\ mine' = 0
    /\ UNCHANGED <<profilesAsked, offered, streams, tried, conn>>

\* Mutant: connectStream forgets that the reader has taken the lease over.
LeaseGivenBack == tier' = [tier EXCEPT ![lease[mine]] = ReleasedTier(@)]

\* The deferred release of connectStream does nothing once the stream is connected.
LeaseHandedOver == UNCHANGED tier

Connected ==
    /\ openPc = "dial" /\ openPc' = "ready"
    /\ conn' = streams[tried] /\ LeaseHandedOver
    /\ UNCHANGED <<profilesAsked, offered, streams, tried, lease, mine>>

UrlsUnreachable ==
    /\ openPc = "try" /\ tried = Len(streams) /\ openPc' = "failed"
    /\ UNCHANGED <<profilesAsked, offered, streams, tried, conn, lease, mine, tier>>

\* The session was stopped or replaced meanwhile: the channel is drained on its own, and its
\* reader keeps its lease until the context ends it.
DiscardStream ==
    /\ openPc = "ready" /\ openPc' = "failed"
    /\ conn' = NoStream /\ mine' = 0
    /\ UNCHANGED <<profilesAsked, offered, streams, tried, lease, tier>>

CommitSession ==
    /\ openPc = "ready" /\ openPc' = "recording"
    /\ offered' = {} /\ streams' = <<>> /\ tried' = 0
    /\ UNCHANGED <<profilesAsked, conn, lease, mine, tier>>

\* An HLS playlist that has expired is asked for anew: a stream of the same format, first of the
\* same codec, in the quality the server has by then.  The session keeps its lease.
RefreshURL ==
    /\ openPc = "recording" /\ conn.format # "flv"
    /\ \E q \in OfferedQn : conn' = [conn EXCEPT !.qn = q]
    /\ UNCHANGED <<profilesAsked, openPc, offered, streams, tried, lease, mine, tier>>

\* The reader ends and gives its lease back; the session recovers with the options it has.
ReaderEnds ==
    /\ openPc = "recording" /\ openPc' = "info"
    /\ conn' = NoStream /\ ReleaseLease(mine) /\ mine' = 0
    /\ UNCHANGED <<profilesAsked, offered, streams, tried>>

\* The processors fail: the session recovers while the reader stays with its channel and lease.
ReaderLeft ==
    /\ openPc = "recording" /\ openPc' = "info"
    /\ conn' = NoStream /\ mine' = 0
    /\ UNCHANGED <<profilesAsked, offered, streams, tried, lease, tier>>

\* A failed start leaves nothing behind: the next one begins with a request of its own.
StartAgain ==
    /\ openPc = "failed" /\ openPc' = "idle"
    /\ profilesAsked' = NoAsk /\ offered' = {} /\ streams' = <<>> /\ tried' = 0
    /\ UNCHANGED <<conn, lease, mine, tier>>

OpenNext ==
    \/ StartRecording \/ RoomInfo \/ NoStreams \/ GetStreamURLsV2
    \/ TryStream \/ ConnectFails \/ Connected \/ UrlsUnreachable
    \/ DiscardStream \/ CommitSession \/ RefreshURL \/ ReaderEnds \/ ReaderLeft \/ StartAgain
    \/ OthersRelease
    \/ \E t \in Tiers : OthersAcquire(t) \/ TimerFires(t) \/ TryCleanup(t)

(***************************************************************************)
(* Properties.                                                             *)
(***************************************************************************)

\* A session that has a stream has the best of those it was offered and asked for that could
\* be connected to: every one that is better has been tried before.  Better is said here
\* without an order of trying: the wanted quality, else a higher one, else the format.
BestReachable ==
    openPc = "ready" =>
        \A s \in offered :
            (\/ s.qn = profilesAsked.qn /\ conn.qn # profilesAsked.qn
             \/ s.qn > conn.qn /\ conn.qn # profilesAsked.qn
             \/ s.qn = conn.qn /\ StreamProfileRank(s.format) < StreamProfileRank(conn.format))
            => \E i \in 1..(tried - 1) : streams[i] = s

\* While a lease is held, the pool it was taken for is not dropped, whatever the timers of
\* earlier idle periods do: the readers of a tier share one pool, and what they give back is
\* used again (tryCleanupTierLocked, connectStream).
LeaseKeepsPool ==
    \A l \in Leases : lease[l] # NoLease => tier[lease[l]].pool
=============================================================================
