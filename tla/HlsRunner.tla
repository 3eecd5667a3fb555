----------------------------- MODULE HlsRunner -----------------------------
(***************************************************************************)
(* The reader of an HLS stream: StreamRunner, PlaylistSession, InitSettle  *)
(* and SegmentPrefetcher (pkg/hls), put together by ReadHlsStream          *)
(* (internal/services/stream/hls.go).                                      *)
(*                                                                         *)
(* One goroutine polls the playlist and delivers the segments in order;    *)
(* every prefetch is a goroutine of its own; the consumer of the channel   *)
(* may stop reading, and the context may be cancelled, at any moment.      *)
(*                                                                         *)
(* The origin (external) is a window over the contents 1, 2, 3, ...: the   *)
(* playlist says the number of the first one and the URI of the init       *)
(* segment.  When the encoder restarts the window begins anew, with any    *)
(* init segment, and the numbers may go back.  A URI stands for the same   *)
(* bytes for ever; two URIs may stand for the same bytes.                  *)
(*                                                                         *)
(* When a prefetch ends cannot be seen before somebody waits for it, so    *)
(* its outcome is chosen there.  Waiting for time to pass (poll interval,  *)
(* backoff, manifest sync) is left out: the context may be cancelled       *)
(* between any two steps.                                                  *)
(***************************************************************************)
EXTENDS Integers, Sequences, FiniteSets, SequencesExt

CONSTANTS
    Uris,          \* URIs of init segments; "" is a playlist without one (TS)
    Window,        \* segments in a playlist
    PrefetchAhead, \* SegmentPrefetchAhead
    RefreshEvery,  \* SegmentFailureRefreshEvery
    FailureLimit,  \* playlist failures in a row that end the reader
    ChanCap,       \* capacity of the channel
    MaxContent,    \* bound: contents the origin produces
    MaxRestarts,   \* bound: restarts of the encoder
    MaxFaults      \* bound: failing requests and expired URLs

ASSUME HlsAssumption ==
    /\ Window \in Nat \ {0} /\ PrefetchAhead \in Nat
    /\ RefreshEvery \in Nat \ {0} /\ FailureLimit \in Nat /\ ChanCap \in Nat \ {0}
    /\ MaxContent \in Nat /\ MaxRestarts \in Nat /\ MaxFaults \in Nat

VARIABLES
    origin,    \* [first, len, off, map]: contents first..first+len-1, numbered c - off
    restarts, faults,
    cancelled, \* the context
    pc,        \* where the runner is
    back,      \* where it goes on after sending
    out,       \* what it is sending
    queued,    \* items in the channel
    last,      \* the last segment and the last init that were put on the channel
    pl,        \* the playlist of this round
    seg,       \* the number of the segment deliverWindow is at
    nextSeq, prevBase, curMap, mapSent,
    nextPf,    \* nextPrefetchSeq
    got,       \* segmentDelivered
    settle,    \* InitSettle: [confirmed, active, pending, buf]
    armed,     \* the debounce timer runs or has fired
    started,   \* SegmentPrefetcher.started: number -> body
    orphans,   \* bodies that a goroutine waits for only to release them
    gen,       \* tells the bodies of one prefetcher from those of the next
    plFails, segFails,
    gone,      \* bodies that were sent or went back to the pool
    misuse,    \* one of them was sent or went back again
    stale,     \* a prefetch is outstanding under a number that now is another segment
    unheld     \* FetchWithRefresh refreshed the URL while an init was pending

world == <<origin, restarts>>
channel == <<queued, last>>
window == <<seg, nextSeq, prevBase, curMap, mapSent, nextPf, got>>
fetches == <<started, orphans, gen>>
fails == <<plFails, segFails>>
pool == <<gone, misuse>>
vars == <<world, faults, cancelled, pc, back, out, channel, pl, window, settle, armed,
          fetches, fails, pool, stale, unheld>>

\* What the bytes of an init segment are; "w" is a second name of "u".
InitBytes(u) == IF u = "w" THEN "u" ELSE u
NoPlaylist == [base |-> 0, len |-> 0, off |-> 0, map |-> ""]
NoHold == [confirmed |-> "", active |-> FALSE, pending |-> "", buf |-> <<>>]

Playlist(o) == [base |-> o.first - o.off, len |-> o.len, off |-> o.off, map |-> o.map]
End(p) == p.base + p.len - 1
\* The bytes behind number n of playlist p; a body also knows its prefetcher.
Body(p, n, g) == [c |-> n + p.off, cfg |-> InitBytes(p.map), gen |-> g]
Media(b) == [kind |-> "media", body |-> b]
InitItem(m) == [kind |-> "init", body |-> [c |-> 0, cfg |-> m, gen |-> 0]]
\* The locals of onTick and deliverWindow go out of scope.
LeaveScope == pl' = NoPlaylist /\ seg' = 0 /\ nextPf' = 0 /\ got' = FALSE
Bodies(s) == {s[k].body : k \in {j \in DOMAIN s : s[j].kind = "media"}}

\* The owner of the bodies S gives them away: PoolBytesReleaser, or a send.
GiveAway(S) == gone' = gone \cup S /\ misuse' = (misuse \/ S \cap gone # {})
Release(S) == GiveAway(S)

(***************************************************************************)
(* InitSettle.                                                             *)
(***************************************************************************)
CancelKeepsBuffer(s) == [s EXCEPT !.active = FALSE, !.pending = ""]
SettleCancel(s) == [s EXCEPT !.active = FALSE, !.pending = "", !.buf = <<>>]
SettleReset(s) == [SettleCancel(s) EXCEPT !.confirmed = ""]

AcceptKeepsFirst(s, m) ==
    [s |-> s, now |-> <<>>, armed |-> TRUE, drop |-> {}]

\* AcceptMap while an init is pending: it is back to the confirmed one, it is
\* the same again, or it is another one.
AcceptHeld(s, m) ==
    IF s.confirmed # "" /\ m = s.confirmed
    THEN [s |-> SettleCancel(s), now |-> <<>>, armed |-> FALSE, drop |-> ToSet(s.buf)]
    ELSE IF m = s.pending
    THEN [s |-> s, now |-> <<>>, armed |-> TRUE, drop |-> {}]
    ELSE [s |-> [s EXCEPT !.pending = m, !.buf = <<>>], now |-> <<>>, armed |-> TRUE,
          drop |-> ToSet(s.buf)]

\* AcceptMap otherwise: the first init goes out, the confirmed one is skipped,
\* another one begins a hold.
AcceptMap(s, m) ==
    IF s.active THEN AcceptHeld(s, m)
    ELSE IF s.confirmed = ""
    THEN [s |-> [s EXCEPT !.confirmed = m], now |-> <<InitItem(m)>>, armed |-> armed,
          drop |-> {}]
    ELSE IF m = s.confirmed
    THEN [s |-> s, now |-> <<>>, armed |-> armed, drop |-> {}]
    ELSE [s |-> [s EXCEPT !.pending = m, !.active = TRUE, !.buf = <<>>], now |-> <<>>,
          armed |-> TRUE, drop |-> {}]

SettledReversed(s) ==
    <<InitItem(s.pending)>> \o [k \in DOMAIN s.buf |-> Media(s.buf[Len(s.buf) + 1 - k])]
\* Settle: the pending init and what was held, in that order.
Settled(s) == <<InitItem(s.pending)>> \o [k \in DOMAIN s.buf |-> Media(s.buf[k])]

(***************************************************************************)
(* The origin, the consumer and the context.                               *)
(***************************************************************************)
LastContent(o) == o.first + o.len - 1

Produce ==
    /\ LastContent(origin) < MaxContent
    /\ origin' = IF origin.len < Window THEN [origin EXCEPT !.len = @ + 1]
                 ELSE [origin EXCEPT !.first = @ + 1]
    /\ UNCHANGED restarts

\* The encoder restarts; back: the numbers go on, or begin at 1 again.
Restart ==
    /\ restarts < MaxRestarts /\ LastContent(origin) < MaxContent
    /\ restarts' = restarts + 1
    /\ \E u \in Uris, o \in {origin.off, LastContent(origin)} :
        origin' = [first |-> LastContent(origin) + 1, len |-> 1, off |-> o, map |-> u]

\* The playlist is read at these points only, so the origin may as well move there.
Origin ==
    /\ pc \in {"idle", "retry", "round"}
    /\ Produce \/ Restart
    /\ UNCHANGED <<faults, cancelled, pc, back, out, channel, pl, window, settle, armed,
                   fetches, fails, pool, stale, unheld>>

Consume ==
    /\ queued > 0 /\ queued' = queued - 1
    /\ UNCHANGED <<world, faults, cancelled, pc, back, out, last, pl, window, settle,
                   armed, fetches, fails, pool, stale, unheld>>

Cancel ==
    /\ ~cancelled /\ cancelled' = TRUE
    /\ UNCHANGED <<world, faults, pc, back, out, channel, pl, window, settle, armed,
                   fetches, fails, pool, stale, unheld>>

\* A goroutine of Abandon, or of a Wait that was cancelled, gets its result;
\* a failed request leaves no body, which is no harder than one that does.
Drain ==
    /\ \E b \in orphans :
        /\ orphans' = orphans \ {b}
        /\ Release({b})
    /\ UNCHANGED <<world, faults, cancelled, pc, back, out, channel, pl, window, settle,
                   armed, started, gen, fails, stale, unheld>>

(***************************************************************************)
(* PlaylistSession.  RefreshURL gives up the prefetcher and resets         *)
(* InitSettle, whose bodies go back to the pool.                           *)
(***************************************************************************)
Abandon == orphans' = orphans \cup {started[n] : n \in DOMAIN started}

RefreshURL ==
    /\ Abandon /\ started' = <<>> /\ Release(ToSet(settle.buf))
    /\ gen' = IF \E b \in orphans' \cup gone' : b.gen = gen THEN gen + 1
              ELSE gen
    /\ settle' = SettleReset(settle)

Fault == faults < MaxFaults /\ faults' = faults + 1

\* Fetch: the playlist as it is now; an unchanged one comes from the cache.
Fetched == pl' = Playlist(origin)

\* FetchWithRefresh: the playlist, perhaps of a fresh URL after the old one
\* expired; an error; or no URL at all.
FetchOk(refreshed) ==
    /\ Fetched
    /\ IF refreshed THEN Fault /\ RefreshURL /\ unheld' = (unheld \/ settle.active)
       ELSE UNCHANGED <<faults, fetches, settle, pool, unheld>>
FetchError(refreshed) ==
    /\ Fault /\ UNCHANGED pl
    /\ IF refreshed THEN RefreshURL /\ unheld' = (unheld \/ settle.active)
       ELSE UNCHANGED <<fetches, settle, pool, unheld>>
FetchGone == Fault /\ UNCHANGED <<pl, fetches, settle, pool, unheld>>

\* The first FetchWithRefresh of onTick, or the immediate retry after it.
Poll(from) ==
    /\ pc = from /\ ~cancelled
    /\ \/ \E r \in BOOLEAN : FetchOk(r) /\ pc' = "round" /\ plFails' = 0
       \/ \E r \in BOOLEAN :
            /\ FetchError(r) /\ plFails' = plFails + 1
            /\ pc' = IF from = "idle" THEN "retry"
                     ELSE IF plFails' >= FailureLimit THEN "ending" ELSE "idle"
       \/ FetchGone /\ pc' = "ending" /\ UNCHANGED plFails
    /\ UNCHANGED <<world, cancelled, back, out, channel, window, armed, segFails, stale>>

Tick == Poll("idle")
Retry == Poll("retry")

\* After rounds without a segment: every RefreshEvery-th one takes a new URL,
\* forgets the init segment and fetches the playlist again.
RefreshDue == segFails > 0 /\ segFails % RefreshEvery = 0

Renew ==
    /\ pc = "round" /\ RefreshDue /\ ~cancelled
    /\ \/ Fault /\ pc' = "window" /\ UNCHANGED <<pl, fetches, settle, pool, curMap, mapSent>>
       \/ /\ RefreshURL /\ curMap' = "" /\ mapSent' = FALSE
          /\ \/ Fetched /\ pc' = "window" /\ UNCHANGED faults
             \/ Fault /\ pc' \in {"idle", "ending"} /\ UNCHANGED pl
    /\ UNCHANGED <<world, cancelled, back, out, channel, seg, nextSeq, prevBase, nextPf, got,
                   armed, fails, stale, unheld>>

NoRenew ==
    /\ pc = "round" /\ ~RefreshDue
    /\ pc' = "window"
    /\ UNCHANGED <<world, faults, cancelled, back, out, channel, pl, window, settle, armed,
                   fetches, fails, pool, stale, unheld>>

(***************************************************************************)
(* The rest of onTick and the head of deliverWindow: where to go on, which *)
(* init segment, the first prefetches.                                     *)
(***************************************************************************)
ShouldResetSequenceOnRollback(prev, p, next) ==
    /\ p.len > 0 /\ p.base < next /\ next >= p.base + p.len /\ p.base < prev

StartAll(m, p, S) ==
    [n \in DOMAIN m \cup S |-> IF n \in DOMAIN m THEN m[n] ELSE Body(p, n, gen)]

\* Wait takes the entry out of the map; a request fails after its retries.
Without(m, n) == [k \in DOMAIN m \ {n} |-> m[k]]
SegmentFails == ~cancelled /\ Fault

Adjust ==
    /\ pc = "window"
    /\ LET n1 == IF pl.base > nextSeq THEN pl.base ELSE nextSeq
           reset == ShouldResetSequenceOnRollback(prevBase, pl, n1)
           n2 == IF reset THEN pl.base ELSE n1
           other == pl.map # curMap
           drop == other /\ pl.map = "" /\ settle.active
           ahead == IF segFails > 0 THEN 0 ELSE PrefetchAhead
       IN  /\ nextSeq' = n2
           /\ mapSent' = IF reset \/ other THEN FALSE ELSE mapSent
           /\ curMap' = pl.map
           /\ settle' = IF drop THEN SettleCancel(settle) ELSE settle
           /\ armed' = (armed /\ ~drop)
           /\ Release(IF drop THEN ToSet(settle.buf) ELSE {})
           /\ started' = StartAll(started, pl, {n \in n2 .. n2 + ahead : n <= End(pl)})
           /\ nextPf' = n2 + ahead + 1
           /\ stale' = (stale \/ \E n \in DOMAIN started : started[n] # Body(pl, n, gen)
                                                            /\ n \in pl.base .. End(pl))
    /\ pc' = "segment" /\ seg' = pl.base /\ got' = FALSE
    /\ UNCHANGED <<world, faults, cancelled, back, out, channel, pl, prevBase, orphans, gen,
                   fails, unheld>>

(***************************************************************************)
(* Sending: a blocking send that the context interrupts; what was not sent *)
(* is released, except an init segment.                                    *)
(***************************************************************************)
SendThen(items, where) ==
    IF items = <<>> THEN pc' = where /\ UNCHANGED <<back, out>>
    ELSE pc' = "send" /\ back' = where /\ out' = items

Send ==
    /\ pc = "send" /\ queued < ChanCap
    /\ queued' = queued + 1 /\ out' = Tail(out)
    /\ IF Head(out).kind = "init" THEN last' = [last EXCEPT !.init = Head(out).body.cfg] /\ UNCHANGED pool
       ELSE last' = [last EXCEPT !.c = Head(out).body.c] /\ GiveAway({Head(out).body})
    /\ IF Len(out) = 1 THEN pc' = back /\ back' = "idle" ELSE UNCHANGED <<pc, back>>
    /\ UNCHANGED <<world, faults, cancelled, pl, window, settle, armed, fetches, fails,
                   stale, unheld>>

SendIgnoresContext == FALSE /\ UNCHANGED vars
SendCancelled ==
    /\ pc = "send" /\ cancelled
    /\ Release(Bodies(out)) /\ out' = <<>>
    /\ pc' = IF back = "closing" THEN "closing" ELSE "ending"
    /\ back' = "idle" /\ LeaveScope
    /\ UNCHANGED <<world, faults, cancelled, channel, nextSeq, prevBase, curMap, mapSent,
                   settle, armed, fetches, fails, stale, unheld>>

\* The debounce timer has fired: sendSettle, from the select of run or from
\* the loop of deliverWindow, which looks at the timer only during a hold.
SendSettle ==
    /\ armed /\ (pc = "idle" \/ (pc = "segment" /\ settle.active /\ seg <= End(pl)))
    /\ armed' = FALSE
    /\ settle' = IF settle.active THEN [NoHold EXCEPT !.confirmed = settle.pending] ELSE settle
    /\ SendThen(IF settle.active THEN Settled(settle) ELSE <<>>, pc)
    /\ UNCHANGED <<world, faults, cancelled, channel, pl, window, fetches, fails, pool,
                   stale, unheld>>

(***************************************************************************)
(* deliverWindow, one segment at a time.                                   *)
(***************************************************************************)
AtSegment == pc = "segment" /\ seg <= End(pl)

Skip ==
    /\ AtSegment /\ seg < nextSeq
    /\ seg' = seg + 1
    /\ UNCHANGED <<world, faults, cancelled, pc, back, out, channel, pl, nextSeq, prevBase,
                   curMap, mapSent, nextPf, got, settle, armed, fetches, fails, pool, stale,
                   unheld>>

NeedMap == curMap # "" /\ ~mapSent

\* The init segment comes before the first segment; without it the round ends.
FetchMap ==
    /\ AtSegment /\ seg >= nextSeq /\ NeedMap /\ ~cancelled
    /\ \/ LET r == AcceptMap(settle, InitBytes(curMap))
          IN  /\ mapSent' = TRUE
              /\ settle' = r.s /\ armed' = r.armed /\ Release(r.drop)
              /\ SendThen(r.now, "segment")
              /\ UNCHANGED faults
       \/ Fault /\ pc' = "done" /\ UNCHANGED <<mapSent, settle, armed, pool, back, out>>
    /\ UNCHANGED <<world, cancelled, channel, pl, seg, nextSeq, prevBase, curMap, nextPf, got,
                   fetches, fails, stale, unheld>>

\* One more prefetch, then Wait: it takes the entry of this number and its
\* result.  The body is held or sent; an error ends the round.
Wait ==
    /\ AtSegment /\ seg >= nextSeq /\ ~NeedMap
    /\ LET more == nextPf <= End(pl)
           m == StartAll(started, pl, {seg} \cup (IF more THEN {nextPf} ELSE {}))
           b == m[seg]
       IN  /\ nextPf' = IF more THEN nextPf + 1 ELSE nextPf
           /\ started' = Without(m, seg)
           /\ \/ /\ nextSeq' = seg + 1 /\ seg' = seg + 1 /\ got' = TRUE
                 /\ settle' = IF settle.active THEN [settle EXCEPT !.buf = Append(@, b)]
                              ELSE settle
                 /\ SendThen(IF settle.active THEN <<>> ELSE <<Media(b)>>, "segment")
                 /\ UNCHANGED <<faults, segFails>>
              \/ /\ SegmentFails /\ pc' = "done" /\ segFails' = segFails + 1
                 /\ UNCHANGED <<nextSeq, seg, got, settle, back, out>>
    /\ UNCHANGED <<world, cancelled, channel, pl, prevBase, curMap, mapSent, armed, orphans,
                   gen, plFails, pool, stale, unheld>>

EndOfWindow == pc = "done" \/ (pc = "segment" /\ seg > End(pl))

\* The window is delivered as far as it goes; onTick returns.
RoundEnds ==
    /\ EndOfWindow
    /\ pc' = "idle" /\ prevBase' = pl.base
    /\ segFails' = IF got THEN 0 ELSE segFails
    /\ LeaveScope
    /\ UNCHANGED <<world, faults, cancelled, back, out, channel, nextSeq, curMap, mapSent,
                   settle, armed, fetches, plFails, pool, stale, unheld>>

(***************************************************************************)
(* The end of run.  Cancelled: whatever it waits for returns; a Wait that  *)
(* was cancelled leaves its entry to a goroutine.                          *)
(***************************************************************************)
Cancelled ==
    /\ cancelled
    /\ \/ pc \in {"idle", "retry", "round", "window"} /\ UNCHANGED <<started, orphans>>
       \/ AtSegment /\ seg >= nextSeq /\ NeedMap /\ UNCHANGED <<started, orphans>>
       \/ /\ AtSegment /\ seg >= nextSeq /\ ~NeedMap
          /\ LET m == StartAll(started, pl, {seg})
             IN  /\ started' = Without(m, seg)
                 /\ orphans' = orphans \cup {m[seg]}
    /\ pc' = "ending" /\ LeaveScope
    /\ UNCHANGED <<world, faults, cancelled, back, out, channel, nextSeq, prevBase, curMap,
                   mapSent, settle, armed, gen, fails, pool, stale, unheld>>

\* The deferred sendSettle.
Ending ==
    /\ pc = "ending"
    /\ settle' = IF settle.active THEN [NoHold EXCEPT !.confirmed = settle.pending] ELSE settle
    /\ SendThen(IF settle.active THEN Settled(settle) ELSE <<>>, "closing")
    /\ armed' = FALSE
    /\ UNCHANGED <<world, faults, cancelled, channel, pl, window, fetches, fails, pool,
                   stale, unheld>>

\* close(ch), Abandon, onClose.
Close ==
    /\ pc = "closing" /\ pc' = "closed"
    /\ Abandon /\ started' = <<>>
    /\ UNCHANGED <<world, faults, cancelled, back, out, channel, pl, window, settle, armed,
                   gen, fails, pool, stale, unheld>>

(***************************************************************************)
(* ReadHlsStream has read the first playlist: an fMP4 stream is delivered  *)
(* from its first segment, a TS stream from the one after the last.  Which *)
(* URI it begins with makes no difference.                                 *)
(***************************************************************************)
InitOrigin ==
    /\ \E u \in Uris \cap {"u", ""} : origin = [first |-> 1, len |-> 1, off |-> 0, map |-> u]
    /\ restarts = 0 /\ faults = 0 /\ cancelled = FALSE

InitSession ==
    /\ nextSeq = (IF origin.map = "" THEN 2 ELSE 1)
    /\ prevBase = 1
    /\ settle = NoHold /\ armed = FALSE
    /\ started = <<>> /\ orphans = {} /\ gen = 0

InitRunner ==
    /\ pc = "idle" /\ back = "idle" /\ out = <<>> /\ queued = 0
    /\ curMap = origin.map /\ mapSent = FALSE
    /\ pl = NoPlaylist /\ seg = 0 /\ nextPf = 0 /\ got = FALSE
    /\ plFails = 0 /\ segFails = 0
    /\ last = [c |-> 0, init |-> ""]
    /\ gone = {} /\ misuse = FALSE /\ stale = FALSE /\ unheld = FALSE

Init == InitOrigin /\ InitSession /\ InitRunner

Runner ==
    \/ Tick \/ Retry \/ Renew \/ NoRenew \/ Adjust \/ Send \/ SendCancelled \/ SendSettle
    \/ Skip \/ FetchMap \/ Wait \/ RoundEnds \/ Cancelled \/ Ending \/ Close

Next == Origin \/ Consume \/ Cancel \/ Drain \/ Runner

Spec == Init /\ [][Next]_vars
\* The requests have timeouts and follow the context, so the runner always
\* goes on when it can; the consumer need not.
FairSpec == Spec /\ WF_vars(Runner)
(***************************************************************************)
(* Properties.                                                             *)
(***************************************************************************)
Sending(kind) == pc = "send" /\ Head(out).kind = kind

\* Retries, gaps, restarts, URL refreshes and dropped holds may leave segments
\* out, but what is sent is in the order of the broadcast and nothing is sent
\* twice (deliverWindow, nextSeq) - unless the numbers went back to one the
\* prefetcher still has an entry for: Start keeps the old entry.
InOrder == Sending("media") /\ ~stale => Head(out).body.c > last.c

\* The comment of InitSettle: "True init change: hold media, do not write into
\* the previous file".
HeldUntilInit ==
    Sending("media") /\ ~stale => Head(out).body.cfg \in {"", last.init}

\* A fragment goes out only behind the init segment it needs, through changes
\* of the init, changes back and forth, and new URLs (AcceptMap, mapSent) -
\* unless the URL was refreshed during a hold, which drops the pending init
\* and leaves mapSent set.
InitFirst == ~unheld => HeldUntilInit

\* Every pooled body has one owner: what the prefetcher, a draining goroutine,
\* the hold or a blocked send still has is not in the pool, nothing is returned
\* twice and nothing that the consumer was given.
BodiesHaveOneOwner ==
    /\ ~misuse
    /\ gone \cap ({started[n] : n \in DOMAIN started} \cup orphans \cup ToSet(settle.buf)
                  \cup Bodies(out)) = {}

\* Once the context is cancelled the channel is closed and the lease given
\* back, also when nobody reads the channel any more.
CancelCloses == cancelled ~> pc = "closed"
=============================================================================
