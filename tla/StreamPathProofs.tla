-------------------------- MODULE StreamPathProofs --------------------------
(***************************************************************************)
(* What holds on the way of a stream to its file, for every value of the   *)
(* constants: the reader of an HLS stream (HlsRunner), the chain of        *)
(* processors behind it (HlsChain) and that of an HTTP-FLV stream          *)
(* (FlvChain).                                                             *)
(*                                                                         *)
(* The reader.  Two invariants, over what every step needs, its types and  *)
(* places (RunnerTypes).  Announcing: the init segment that InitSettle has *)
(* confirmed is the last one on the channel, and what is held or sent      *)
(* agrees with it.  Owning: the bodies of the pool, of the prefetcher, of  *)
(* the goroutines that drain it, of the hold and of a send are apart,      *)
(* because a prefetch starts only for content that none of them has: the   *)
(* numbers of the playlist, of the origin and of what was given fit        *)
(* (Timeline), also after the numbers went back.                           *)
(*                                                                         *)
(* The steps are first put in a form that leaves out where they come from  *)
(* (Asked, Adjusted, Waited, ...); the invariants are kept by these.       *)
(*                                                                         *)
(* The FLV chain.  One step of the model is a chunk of any number of tags, *)
(* folded through the fixer and the detector, so that the invariant of the *)
(* chain (FlvInv) rests on an induction over the tags of a chunk.  It is   *)
(* stated about sets of numbers (SetInduction) and follows from the        *)
(* pigeonhole principle; that a fold is the last state of a run of the     *)
(* loop is proved with it (FixFolds, DetectFolds).                         *)
(***************************************************************************)
EXTENDS HlsRunner, HlsChain, FlvChain, FiniteSetTheorems, TLAPS

(***************************************************************************)
(* The reader: its state.                                                  *)
(***************************************************************************)
Maps == Uris \cup {""}
Cfgs == {InitBytes(u) : u \in Maps}
BodySet == [c : Int, cfg : Cfgs, gen : Nat]
ItemSet == [kind : {"media", "init"}, body : BodySet]

\* Where the runner is, or goes on after sending.
Where == IF pc = "send" THEN back ELSE pc
InRound == Where \in {"round", "window", "segment", "done"}
Over == Where \in {"ending", "closing", "closed"}

SessionTypes ==
    /\ origin \in [first : Int, len : Nat, off : Int, map : Maps]
    /\ pl \in [base : Int, len : Nat, off : Int, map : Maps]
    /\ seg \in Int /\ nextSeq \in Int /\ prevBase \in Int /\ nextPf \in Int
    /\ curMap \in Maps /\ mapSent \in BOOLEAN

BodyTypes ==
    /\ settle \in [confirmed : Cfgs, active : BOOLEAN, pending : Cfgs, buf : Seq(BodySet)]
    /\ out \in Seq(ItemSet) /\ last \in [c : Int, init : Cfgs]
    /\ DOMAIN started \subseteq Int /\ \A n \in DOMAIN started : started[n] \in BodySet
    /\ orphans \subseteq BodySet /\ gone \subseteq BodySet /\ gen \in Nat

Places ==
    /\ pc \in {"idle", "retry", "round", "window", "segment", "done", "send", "ending", "closing", "closed"}
    /\ (pc = "send" => out # <<>> /\ back \in {"idle", "segment", "closing"})
    /\ (pc # "send" => out = <<>>)
    /\ (out # <<>> => ~settle.active)
    /\ (~settle.active => settle.buf = <<>>)

InWindow == Where = "segment" =>
    /\ pl.base <= seg /\ seg <= nextSeq /\ pl.map = curMap
    /\ nextPf > nextSeq \/ nextPf > End(pl)

RunnerTypes == SessionTypes /\ BodyTypes /\ Places /\ InWindow

\* What the prefetcher has is what the playlist says.
Matching == Where = "segment" /\ ~stale =>
    \A n \in DOMAIN started : n \in pl.base .. End(pl) => started[n] = Body(pl, n, gen)

\* The init segment behind what is being sent.
InitAfter == IF out # <<>> /\ Head(out).kind = "init" THEN Head(out).body.cfg ELSE last.init

Announced == ~Over /\ ~unheld =>
    /\ (settle.confirmed # "" => settle.confirmed = InitAfter)
    /\ (mapSent /\ curMap # "" /\ ~settle.active => InitAfter = InitBytes(curMap))
    /\ (mapSent /\ settle.active => settle.pending = InitBytes(curMap))
    /\ (settle.active => curMap # "")

HoldBehaves(q, m) == \A i \in 1..Len(q) : q[i].cfg \in {"", m}
OutBehaves(q, m) == \A i \in 1..Len(q) : q[i].kind = "media" => q[i].body.cfg \in {"", m}
Behaved == ~stale /\ ~unheld => HoldBehaves(settle.buf, settle.pending) /\ OutBehaves(out, InitAfter)

InitOnlyFirst == \A i \in 1..Len(out) : i > 1 => out[i].kind = "media"

Held == ToSet(settle.buf)
Fetching == {started[n] : n \in DOMAIN started}
InOut == Bodies(out)

\* gone, orphans, and what the prefetcher, the hold and a send have.
Disjoint(G, O, F, H, U) ==
    /\ \A b \in G : b \notin O /\ b \notin F /\ b \notin H /\ b \notin U
    /\ \A b \in O : b \notin F /\ b \notin H /\ b \notin U
    /\ \A b \in F : b \notin H /\ b \notin U
    /\ \A b \in H : b \notin U
Distinct(m) == \A j, k \in DOMAIN m : m[j] = m[k] => j = k
DistinctMedia(q) == \A i, j \in 1..Len(q) : q[i].kind = "media" /\ q[i] = q[j] => i = j

Apart ==
    /\ ~misuse
    /\ Disjoint(gone, orphans, Fetching, Held, InOut)
    /\ Distinct(started) /\ Distinct(settle.buf) /\ DistinctMedia(out)

\* The prefetchers so far.
Owned == gone \cup orphans \cup Fetching \cup Held \cup InOut
Generations == \A b \in Owned : b.gen <= gen

\* The bodies of this prefetcher that Wait has given, and their contents.
Spent == {b \in gone \cup orphans : b.gen = gen} \cup Held \cup InOut
Contents == {b.c : b \in Spent} \cup {last.c}

\* Where number n is content n + o and the window begins with content f: what
\* was given is behind, and an entry is of this numbering, or of a content before
\* the window; none is above content x.
Behind(c, ns, o, f) == c < ns + o \/ c < f
Upto(C, m, x) == /\ \A c \in C : c <= x
                 /\ \A n \in DOMAIN m : m[n].c <= x
Aligned(C, m, ns, o, f, x) ==
    /\ \A c \in C : Behind(c, ns, o, f)
    /\ \A n \in DOMAIN m : m[n].c = n + o \/ m[n].c < f
    /\ Upto(C, m, x)
Rewind(C, m, pb, o, f) == pb + o <= f \/ Upto(C, m, f - 1)

\* A playlist of this origin, or one of before a restart.
Within(p, o) ==
    \/ /\ p.off = o.off /\ p.base + p.off <= o.first /\ End(p) + p.off <= LastContent(o)
    \/ End(p) + p.off < o.first

AtOrigin == Aligned(Contents, started, nextSeq, origin.off, origin.first, LastContent(origin))
AtWindow == Aligned(Contents, started, nextSeq, pl.off, pl.base + pl.off, End(pl) + pl.off)

Timeline == ~Over =>
    /\ AtOrigin
    /\ (Where \in {"idle", "retry", "round", "window"} =>
            Rewind(Contents, started, prevBase, origin.off, origin.first))
    /\ (Where \in {"round", "window"} => Rewind(Contents, started, prevBase, pl.off, pl.base + pl.off))
    /\ (InRound => AtWindow /\ Within(pl, origin))

(***************************************************************************)
(* Bodies, playlists and what is sent.                                     *)
(***************************************************************************)
LEMMA BodyIs ==
  ASSUME pl \in [base : Int, len : Nat, off : Int, map : Maps], NEW n \in Int, NEW g \in Nat
  PROVE  /\ Body(pl, n, g) \in BodySet
         /\ Body(pl, n, g).c = n + pl.off /\ Body(pl, n, g).cfg = InitBytes(pl.map)
         /\ Body(pl, n, g).gen = g
BY DEF Body, BodySet, Cfgs

LEMMA PlaylistIs ==
  ASSUME origin \in [first : Int, len : Nat, off : Int, map : Maps]
  PROVE  /\ Playlist(origin) \in [base : Int, len : Nat, off : Int, map : Maps]
         /\ Playlist(origin).off = origin.off /\ Playlist(origin).base + origin.off = origin.first
         /\ End(Playlist(origin)) + origin.off = LastContent(origin)
BY DEF Playlist, End, LastContent

LEMMA NoPlaylistIs == NoPlaylist \in [base : Int, len : Nat, off : Int, map : Maps]
BY DEF NoPlaylist, Maps

LEMMA NoInitIs == "" \in Cfgs
<1>1. "" \in Maps /\ InitBytes("") = ""
  BY DEF Maps, InitBytes
<1> QED BY <1>1 DEF Cfgs

LEMMA CfgIs == ASSUME NEW u \in Maps PROVE InitBytes(u) \in Cfgs /\ (u # "" => InitBytes(u) # "")
BY DEF Cfgs, InitBytes

LEMMA InitItemIs ==
  ASSUME NEW m \in Cfgs
  PROVE  /\ InitItem(m) \in ItemSet /\ InitItem(m).kind = "init" /\ InitItem(m).body.cfg = m
BY DEF InitItem, ItemSet, BodySet

LEMMA MediaIs ==
  ASSUME NEW b \in BodySet
  PROVE  Media(b) \in ItemSet /\ Media(b).kind = "media" /\ Media(b).body = b
BY DEF Media, ItemSet

LEMMA HasBody ==
  ASSUME NEW S, NEW s \in Seq(S)
  PROVE  /\ ToSet(s) \subseteq S
         /\ \A b : b \in ToSet(s) <=> \E i \in 1..Len(s) : s[i] = b
BY DEF ToSet

LEMMA HasMedia ==
  ASSUME NEW s \in Seq(ItemSet)
  PROVE  /\ Bodies(s) \subseteq BodySet
         /\ \A b : b \in Bodies(s) <=> \E i \in 1..Len(s) : s[i].kind = "media" /\ s[i].body = b
<1>1. DOMAIN s = 1..Len(s) /\ \A i \in 1..Len(s) : s[i] \in ItemSet
  OBVIOUS
<1>2. \A b : b \in Bodies(s) <=> \E i \in 1..Len(s) : s[i].kind = "media" /\ s[i].body = b
  BY <1>1 DEF Bodies
<1> QED BY <1>1, <1>2 DEF ItemSet

LEMMA NoBodies == Bodies(<<>>) = {} /\ ToSet(<<>>) = {}
BY DEF Bodies, ToSet

\* The pending init, then what was held.
LEMMA SettledIs ==
  ASSUME NEW s \in [confirmed : Cfgs, active : BOOLEAN, pending : Cfgs, buf : Seq(BodySet)]
  PROVE  /\ Settled(s) \in Seq(ItemSet) /\ Settled(s) # <<>> /\ Len(Settled(s)) = Len(s.buf) + 1
         /\ Settled(s)[1] = InitItem(s.pending) /\ Head(Settled(s)) = InitItem(s.pending)
         /\ \A i \in 2..Len(Settled(s)) : i - 1 \in 1..Len(s.buf) /\ Settled(s)[i] = Media(s.buf[i - 1])
         /\ Bodies(Settled(s)) = ToSet(s.buf)
<1> DEFINE n == Len(s.buf)
           t == [k \in DOMAIN s.buf |-> Media(s.buf[k])]
           x == InitItem(s.pending)
<1>1. n \in Nat /\ DOMAIN s.buf = 1..n /\ \A k \in 1..n : s.buf[k] \in BodySet
  OBVIOUS
<1>2. \A k \in 1..n : Media(s.buf[k]) \in ItemSet
  BY <1>1, MediaIs
<1>3. t \in [1..n -> ItemSet]
  BY <1>1, <1>2
<1>4. t \in Seq(ItemSet) /\ Len(t) = n /\ \A k \in 1..n : t[k] = Media(s.buf[k])
  BY <1>1, <1>3
<1>5. x \in ItemSet /\ x.kind = "init"
  BY InitItemIs
<1>6. Settled(s) = <<x>> \o t
  BY DEF Settled
<1> HIDE DEF n, t, x
<1>7. <<x>> \in Seq(ItemSet) /\ Len(<<x>>) = 1 /\ <<x>>[1] = x
  BY <1>5
<1>8. PICK q : q = <<x>> \o t
  OBVIOUS
<1>9. /\ q \in Seq(ItemSet) /\ Len(q) = n + 1 /\ q[1] = x
      /\ \A i \in 2..(n + 1) : q[i] = t[i - 1]
  BY <1>1, <1>4, <1>7, <1>8
<1>10. q # <<>> /\ Head(q) = x
  BY <1>1, <1>9
<1>11. \A i \in 2..(n + 1) : i - 1 \in 1..n /\ q[i] = Media(s.buf[i - 1])
  BY <1>1, <1>4, <1>9
<1>12. Bodies(q) = ToSet(s.buf)
  <2>1. ASSUME NEW b \in ToSet(s.buf) PROVE b \in Bodies(q)
    <3>1. PICK i \in 1..n : s.buf[i] = b
      BY <1>1, HasBody DEF n
    <3>2. i + 1 \in 2..(n + 1) /\ (i + 1) - 1 = i /\ i + 1 \in 1..Len(q)
      BY <1>1, <1>9
    <3>3. q[i + 1] = Media(b)
      BY <1>11, <3>1, <3>2
    <3>4. q[i + 1].kind = "media" /\ q[i + 1].body = b
      BY <1>1, <3>1, <3>3, MediaIs
    <3> QED BY <1>9, <3>2, <3>4, HasMedia
  <2>2. ASSUME NEW b \in Bodies(q) PROVE b \in ToSet(s.buf)
    <3>1. PICK i \in 1..Len(q) : q[i].kind = "media" /\ q[i].body = b
      BY <1>9, HasMedia
    <3>2. i \in 2..(n + 1)
      BY <1>1, <1>5, <1>9, <3>1
    <3>3. s.buf[i - 1] = b /\ i - 1 \in 1..n
      BY <1>1, <1>11, <3>1, <3>2, MediaIs
    <3> QED BY <3>3, HasBody DEF n
  <2> QED BY <2>1, <2>2
<1> QED BY <1>6, <1>8, <1>9, <1>10, <1>11, <1>12 DEF n, x

\* Start keeps an entry that is there.
LEMMA Started ==
  ASSUME NEW m, NEW p, NEW S
  PROVE  /\ DOMAIN StartAll(m, p, S) = DOMAIN m \cup S
         /\ \A n \in DOMAIN m : StartAll(m, p, S)[n] = m[n]
         /\ \A n \in S \ DOMAIN m : StartAll(m, p, S)[n] = Body(p, n, gen)
BY DEF StartAll

(***************************************************************************)
(* What is held: InitSettle.                                               *)
(***************************************************************************)
SettleType == [confirmed : Cfgs, active : BOOLEAN, pending : Cfgs, buf : Seq(BodySet)]

LEMMA SettleFields ==
  ASSUME NEW s \in SettleType
  PROVE  s.confirmed \in Cfgs /\ s.active \in BOOLEAN /\ s.pending \in Cfgs /\ s.buf \in Seq(BodySet)
BY DEF SettleType

LEMMA SettleMade ==
  ASSUME NEW c \in Cfgs, NEW a \in BOOLEAN, NEW p \in Cfgs, NEW q \in Seq(BodySet)
  PROVE  [confirmed |-> c, active |-> a, pending |-> p, buf |-> q] \in SettleType
BY DEF SettleType

LEMMA NothingHeld == <<>> \in Seq(BodySet)
OBVIOUS

\* A change of some of its fields.
Has(r, c, p, q) == r \in SettleType /\ r.confirmed = c /\ r.pending = p /\ r.buf = q

LEMMA HoldEnds ==
  ASSUME NEW s \in SettleType, NEW y \in Cfgs, NEW z \in Seq(BodySet)
  PROVE  /\ Has([s EXCEPT !.active = FALSE, !.pending = y, !.buf = z], s.confirmed, y, z)
         /\ ~[s EXCEPT !.active = FALSE, !.pending = y, !.buf = z].active
BY DEF SettleType, Has

LEMMA HoldBegins ==
  ASSUME NEW s \in SettleType, NEW y \in Cfgs, NEW z \in Seq(BodySet)
  PROVE  /\ Has([s EXCEPT !.pending = y, !.active = TRUE, !.buf = z], s.confirmed, y, z)
         /\ [s EXCEPT !.pending = y, !.active = TRUE, !.buf = z].active
BY DEF SettleType, Has

LEMMA HoldAgain ==
  ASSUME NEW s \in SettleType, NEW y \in Cfgs, NEW z \in Seq(BodySet)
  PROVE  /\ Has([s EXCEPT !.pending = y, !.buf = z], s.confirmed, y, z)
         /\ [s EXCEPT !.pending = y, !.buf = z].active = s.active
BY DEF SettleType, Has

LEMMA HoldConfirms ==
  ASSUME NEW s \in SettleType, NEW c \in Cfgs
  PROVE  /\ Has([s EXCEPT !.confirmed = c], c, s.pending, s.buf)
         /\ [s EXCEPT !.confirmed = c].active = s.active
BY DEF SettleType, Has

LEMMA HoldGrows ==
  ASSUME NEW s \in SettleType, NEW z \in Seq(BodySet)
  PROVE  /\ Has([s EXCEPT !.buf = z], s.confirmed, s.pending, z)
         /\ [s EXCEPT !.buf = z].active = s.active
BY DEF SettleType, Has

LEMMA NoHoldIs ==
  /\ NoHold \in SettleType /\ NoHold.buf = <<>> /\ NoHold.confirmed = "" /\ ~NoHold.active
  /\ \A m \in Cfgs : /\ [NoHold EXCEPT !.confirmed = m] \in SettleType
                     /\ [NoHold EXCEPT !.confirmed = m].buf = <<>>
                     /\ [NoHold EXCEPT !.confirmed = m].confirmed = m
                     /\ ~[NoHold EXCEPT !.confirmed = m].active
<1>1. PICK q, e : q = <<>> /\ e = ""
  OBVIOUS
<1>2. q \in Seq(BodySet) /\ e \in Cfgs
  BY <1>1, NothingHeld, NoInitIs
<1>3. NoHold = [confirmed |-> e, active |-> FALSE, pending |-> e, buf |-> q]
  BY <1>1, Zenon DEF NoHold
<1>4. NoHold \in SettleType /\ NoHold.buf = q /\ NoHold.confirmed = e /\ ~NoHold.active /\ NoHold.pending = e
  BY <1>2, <1>3, SettleMade
<1>5. ASSUME NEW m \in Cfgs
      PROVE  /\ [NoHold EXCEPT !.confirmed = m] \in SettleType
             /\ [NoHold EXCEPT !.confirmed = m].buf = q
             /\ [NoHold EXCEPT !.confirmed = m].confirmed = m
             /\ ~[NoHold EXCEPT !.confirmed = m].active
  <2>1. PICK z : z = [NoHold EXCEPT !.confirmed = m]
    OBVIOUS
  <2>2. Has(z, m, NoHold.pending, NoHold.buf) /\ z.active = NoHold.active
    BY <1>4, <2>1, HoldConfirms, Zenon
  <2> QED BY <1>4, <2>1, <2>2, Zenon DEF Has
<1> QED BY <1>1, <1>4, <1>5

LEMMA CancelIs ==
  ASSUME NEW s \in SettleType
  PROVE  /\ SettleCancel(s) \in SettleType /\ SettleCancel(s).buf = <<>> /\ ~SettleCancel(s).active
         /\ SettleCancel(s).confirmed = s.confirmed
<1>1. PICK q, e, z : q = <<>> /\ e = "" /\ z = SettleCancel(s)
  OBVIOUS
<1>2. q \in Seq(BodySet) /\ e \in Cfgs /\ s.confirmed \in Cfgs
  BY <1>1, NothingHeld, NoInitIs, SettleFields
<1>3. z = [s EXCEPT !.active = FALSE, !.pending = e, !.buf = q]
  BY <1>1, Zenon DEF SettleCancel
<1>4. Has(z, s.confirmed, e, q) /\ ~z.active
  BY <1>2, <1>3, HoldEnds, Zenon
<1> QED BY <1>1, <1>4, Zenon DEF Has

LEMMA ResetIs ==
  ASSUME NEW s \in SettleType
  PROVE  SettleReset(s) \in SettleType /\ SettleReset(s).buf = <<>> /\ ~SettleReset(s).active
         /\ SettleReset(s).confirmed = ""
<1>1. PICK e, z : e = "" /\ z = SettleCancel(s)
  OBVIOUS
<1>2. z \in SettleType /\ z.buf = <<>> /\ ~z.active /\ e \in Cfgs
  BY <1>1, CancelIs, NoInitIs
<1>3. SettleReset(s) = [z EXCEPT !.confirmed = e]
  BY <1>1, Zenon DEF SettleReset
<1>4. Has(SettleReset(s), e, z.pending, z.buf) /\ SettleReset(s).active = z.active
  BY <1>2, <1>3, HoldConfirms, Zenon
<1> QED BY <1>1, <1>2, <1>4, Zenon DEF Has

\* What AcceptMap returns: the hold is over or goes on with its buffer, or a
\* new one begins; the first init goes out.
Accepted(s, m, t, now, drop) ==
    /\ t \in SettleType
    /\ \/ now = <<>> /\ t.confirmed = s.confirmed
       \/ now = <<InitItem(m)>> /\ t.confirmed = m /\ ~t.active /\ ~s.active
    /\ (t.active => t.pending = m)
    /\ (~t.active => t.buf = <<>> /\ t.confirmed = m)
    /\ \/ t.buf = s.buf /\ drop = {} /\ (s.buf # <<>> => t.pending = s.pending)
       \/ t.buf = <<>> /\ drop = ToSet(s.buf)

Answer(x, y, z, w) == [s |-> x, now |-> y, armed |-> z, drop |-> w]

LEMMA AnswerIs ==
  ASSUME NEW x, NEW y, NEW z, NEW w
  PROVE  Answer(x, y, z, w).s = x /\ Answer(x, y, z, w).now = y /\ Answer(x, y, z, w).drop = w
BY DEF Answer

HeldWhileActive(s) == ~s.active => s.buf = <<>>

LEMMA AcceptIs ==
  ASSUME NEW s \in SettleType, NEW m \in Cfgs, HeldWhileActive(s), NEW r, r = AcceptMap(s, m)
  PROVE  Accepted(s, m, r.s, r.now, r.drop)
<1>0. PICK q, d, i, h, g : /\ q = <<>> /\ d = ToSet(s.buf) /\ i = <<InitItem(m)>> /\ h = SettleCancel(s)
                           /\ g = {}
  OBVIOUS
<1>1. /\ s.confirmed \in Cfgs /\ s.active \in BOOLEAN /\ s.pending \in Cfgs
      /\ s.buf \in Seq(BodySet) /\ q \in Seq(BodySet)
  BY <1>0, SettleFields, NothingHeld
<1>2. CASE s.active /\ s.confirmed # "" /\ m = s.confirmed
  <2>1. \E a : r = Answer(h, q, a, d)
    BY <1>0, <1>2, Zenon DEF AcceptMap, AcceptHeld, Answer
  <2>2. r.s = h /\ r.now = q /\ r.drop = d
    BY <2>1, AnswerIs
  <2>3. h \in SettleType /\ h.buf = <<>> /\ ~h.active /\ h.confirmed = s.confirmed
    BY <1>0, CancelIs
  <2> QED BY <1>0, <1>2, <2>2, <2>3, Zenon DEF Accepted, HeldWhileActive
<1>3. CASE s.active /\ ~(s.confirmed # "" /\ m = s.confirmed) /\ m = s.pending
  <2>1. \E a : r = Answer(s, q, a, g)
    BY <1>0, <1>3, Zenon DEF AcceptMap, AcceptHeld, Answer
  <2>2. r.s = s /\ r.now = q /\ r.drop = g
    BY <2>1, AnswerIs
  <2> QED BY <1>0, <1>3, <2>2, Zenon DEF Accepted, HeldWhileActive
<1>4. CASE s.active /\ ~(s.confirmed # "" /\ m = s.confirmed) /\ m # s.pending
  <2>1. PICK z : z = [s EXCEPT !.pending = m, !.buf = q]
    OBVIOUS
  <2>2. \E a : r = Answer(z, q, a, d)
    BY <1>0, <1>4, <2>1, Zenon DEF AcceptMap, AcceptHeld, Answer
  <2>3. r.s = z /\ r.now = q /\ r.drop = d
    BY <2>2, AnswerIs
  <2>4. Has(z, s.confirmed, m, q) /\ z.active = s.active
    BY <1>1, <2>1, HoldAgain, Zenon
  <2>5. z \in SettleType /\ z.active /\ z.pending = m /\ z.buf = q /\ z.confirmed = s.confirmed
    BY <1>4, <2>4, Zenon DEF Has
  <2> QED BY <1>0, <2>3, <2>5, Zenon DEF Accepted, HeldWhileActive
<1>5. CASE ~s.active /\ s.confirmed = ""
  <2>1. PICK z : z = [s EXCEPT !.confirmed = m]
    OBVIOUS
  <2>2. r = Answer(z, i, armed, g)
    BY <1>0, <1>5, <2>1, Zenon DEF AcceptMap, Answer
  <2>3. r.s = z /\ r.now = i /\ r.drop = g
    BY <2>2, AnswerIs
  <2>4. Has(z, m, s.pending, s.buf) /\ z.active = s.active
    BY <1>1, <2>1, HoldConfirms, Zenon
  <2>5. z \in SettleType /\ z.active = s.active /\ z.pending = s.pending /\ z.buf = s.buf /\ z.confirmed = m
    BY <2>4, Zenon DEF Has
  <2> QED BY <1>0, <1>5, <2>3, <2>5, Zenon DEF Accepted, HeldWhileActive
<1>6. CASE ~s.active /\ s.confirmed # "" /\ m = s.confirmed
  <2>1. r = Answer(s, q, armed, g)
    BY <1>0, <1>6, Zenon DEF AcceptMap, Answer
  <2>2. r.s = s /\ r.now = q /\ r.drop = g
    BY <2>1, AnswerIs
  <2> QED BY <1>0, <1>6, <2>2, Zenon DEF Accepted, HeldWhileActive
<1>7. CASE ~s.active /\ s.confirmed # "" /\ m # s.confirmed
  <2>1. PICK z : z = [s EXCEPT !.pending = m, !.active = TRUE, !.buf = q]
    OBVIOUS
  <2>3. \E a : r = Answer(z, q, a, g)
    BY <1>0, <1>7, <2>1, Zenon DEF AcceptMap, Answer
  <2>4. r.s = z /\ r.now = q /\ r.drop = g
    BY <2>3, AnswerIs
  <2>5. Has(z, s.confirmed, m, q) /\ z.active
    BY <1>1, <2>1, HoldBegins, Zenon
  <2>6. z \in SettleType /\ z.active /\ z.pending = m /\ z.buf = q /\ z.confirmed = s.confirmed
    BY <2>5, Zenon DEF Has
  <2>7. s.buf = q
    BY <1>0, <1>7 DEF HeldWhileActive
  <2> QED BY <1>0, <2>4, <2>6, <2>7, Zenon DEF Accepted, HeldWhileActive
<1> QED BY <1>2, <1>3, <1>4, <1>5, <1>6, <1>7

LEMMA RefreshPool ==
  ASSUME RunnerTypes, RefreshURL
  PROVE  /\ started' = <<>> /\ orphans' = orphans \cup Fetching
         /\ gone' = gone \cup Held /\ misuse' = (misuse \/ Held \cap gone # {})
         /\ gen' \in {gen, gen + 1}
         /\ (gen' = gen => \A b \in orphans' \cup gone' : b.gen # gen)
<1>1. /\ started' = <<>> /\ orphans' = orphans \cup Fetching
      /\ gone' = gone \cup Held /\ misuse' = (misuse \/ Held \cap gone # {})
  BY DEF RefreshURL, Abandon, Release, GiveAway, Fetching, Held
<1>2. gen' = IF \E b \in orphans' \cup gone' : b.gen = gen THEN gen + 1 ELSE gen
  BY DEF RefreshURL
<1>3. gen \in Nat
  BY DEF RunnerTypes, BodyTypes
<1>4. gen' \in {gen, gen + 1} /\ (gen' = gen => \A b \in orphans' \cup gone' : b.gen # gen)
  BY <1>2, <1>3
<1> QED BY <1>1, <1>4, Zenon

LEMMA RefreshHold ==
  ASSUME RunnerTypes, RefreshURL
  PROVE  settle' \in SettleType /\ settle'.buf = <<>> /\ ~settle'.active /\ settle'.confirmed = ""
<1>1. settle \in SettleType
  BY Zenon DEF RunnerTypes, BodyTypes, SettleType
<1>2. settle' = SettleReset(settle)
  BY Zenon DEF RefreshURL
<1> QED BY <1>1, <1>2, ResetIs, Zenon

(***************************************************************************)
(* Types and places, step by step.                                         *)
(***************************************************************************)
LEMMA OriginMade ==
  ASSUME NEW u \in Maps, NEW f \in Int, NEW l \in Nat, NEW o \in Int
  PROVE  /\ [first |-> f, len |-> l, off |-> o, map |-> u] \in [first : Int, len : Nat, off : Int, map : Maps]
         /\ [first |-> f, len |-> l, off |-> o, map |-> u].map = u
OBVIOUS

LEMMA TypesStart == Init => RunnerTypes
<1>1. SUFFICES ASSUME Init PROVE RunnerTypes
  OBVIOUS
<1>2. "" \in Maps /\ Uris \subseteq Maps /\ {} \subseteq BodySet
  BY DEF Maps
<1>3. SessionTypes
  <2>1. PICK u : u \in Uris \cap {"u", ""} /\ origin = [first |-> 1, len |-> 1, off |-> 0, map |-> u]
    BY <1>1, Zenon DEF Init, InitOrigin
  <2>2. origin \in [first : Int, len : Nat, off : Int, map : Maps] /\ origin.map \in Maps
    <3>1. u \in Maps
      BY <1>2, <2>1, Zenon
    <3>2. 1 \in Int /\ 1 \in Nat /\ 0 \in Int
      OBVIOUS
    <3> QED BY <2>1, <3>1, <3>2, OriginMade, Zenon
  <2>3. curMap = origin.map /\ mapSent = FALSE
    BY <1>1, Zenon DEF Init, InitRunner, InitSession
  <2>7. seg = 0 /\ prevBase = 1 /\ nextPf = 0 /\ nextSeq \in {1, 2}
    BY <1>1, Zenon DEF Init, InitRunner, InitSession
  <2>4. pl \in [base : Int, len : Nat, off : Int, map : Maps]
    BY <1>1, NoPlaylistIs, Zenon DEF Init, InitRunner
  <2>5. seg \in Int /\ prevBase \in Int /\ nextPf \in Int /\ nextSeq \in Int
    BY <2>7
  <2>6. curMap \in Maps /\ mapSent \in BOOLEAN
    BY <2>2, <2>3, Zenon
  <2> QED BY <2>2, <2>4, <2>5, <2>6, Zenon DEF SessionTypes
<1>4. BodyTypes
  <2>1. settle \in SettleType
    BY <1>1, NoHoldIs, Zenon DEF Init, InitSession
  <2>2. last = [c |-> 0, init |-> ""] /\ out = <<>> /\ started = <<>> /\ orphans = {} /\ gone = {} /\ gen = 0
    BY <1>1, Zenon DEF Init, InitRunner, InitSession
  <2>3. PICK e : e = ""
    OBVIOUS
  <2>4. last \in [c : Int, init : Cfgs]
    <3>1. last = [c |-> 0, init |-> e] /\ e \in Cfgs
      BY <2>2, <2>3, NoInitIs, Zenon
    <3> QED BY <3>1
  <2>5. out \in Seq(ItemSet) /\ DOMAIN started = {}
    <3>1. <<>> \in Seq(ItemSet) /\ DOMAIN <<>> = {}
      OBVIOUS
    <3> QED BY <2>2, <3>1, Zenon
  <2> QED BY <2>1, <2>2, <2>4, <2>5 DEF BodyTypes, SettleType
<1>5. Places
  <2>1. pc = "idle" /\ out = <<>> /\ settle.buf = <<>> /\ ~settle.active
    BY <1>1, NoHoldIs, Zenon DEF Init, InitRunner, InitSession
  <2> QED BY <2>1 DEF Places
<1>6. InWindow
  BY <1>1 DEF Init, InitRunner, InWindow, Where
<1> QED BY <1>3, <1>4, <1>5, <1>6 DEF RunnerTypes

\* What a step that is not one of the runner leaves alone.
LEMMA TypesOrigin == ASSUME RunnerTypes, Origin PROVE RunnerTypes'
<1>1. UNCHANGED <<pc, back, out, last, pl, seg, nextSeq, prevBase, curMap, mapSent, nextPf, settle, started, orphans,
                  gen, gone>>
  BY DEF Origin, channel, window, fetches, pool
<1>2. origin' \in [first : Int, len : Nat, off : Int, map : Maps]
  <2>1. origin \in [first : Int, len : Nat, off : Int, map : Maps] /\ LastContent(origin) \in Int
    BY DEF RunnerTypes, SessionTypes, LastContent
  <2>2. CASE Produce
    BY <2>1, <2>2 DEF Produce
  <2>3. CASE Restart
    <3>1. PICK u \in Uris, o \in {origin.off, LastContent(origin)} :
            origin' = [first |-> LastContent(origin) + 1, len |-> 1, off |-> o, map |-> u]
      BY <2>3 DEF Restart
    <3>2. u \in Maps
      BY Zenon DEF Maps
    <3> QED BY <2>1, <3>1, <3>2
  <2> QED BY <2>2, <2>3 DEF Origin
<1>3. SessionTypes' /\ InWindow'
  BY <1>1, <1>2 DEF RunnerTypes, SessionTypes, InWindow, Where, End
<1>4. BodyTypes' /\ Places'
  BY <1>1, Zenon DEF RunnerTypes, BodyTypes, Places
<1> QED BY <1>3, <1>4 DEF RunnerTypes

LEMMA TypesOutside == ASSUME RunnerTypes, Consume \/ Cancel \/ Drain \/ UNCHANGED vars PROVE RunnerTypes'
<1>1. /\ UNCHANGED <<origin, pc, back, out, last, pl, seg, nextSeq, prevBase, curMap, mapSent, nextPf, settle, started, gen>>
      /\ orphans' \subseteq orphans /\ gone' \subseteq gone \cup orphans
  <2>1. CASE Consume
    BY <2>1 DEF Consume, world, window, fetches, pool
  <2>2. CASE Cancel
    BY <2>2 DEF Cancel, world, channel, window, fetches, pool
  <2>3. CASE Drain
    BY <2>3 DEF Drain, world, channel, window, fetches, pool, Release, GiveAway
  <2>4. CASE UNCHANGED vars
    BY <2>4 DEF vars, world, channel, window, fetches, pool
  <2> QED BY <2>1, <2>2, <2>3, <2>4
<1>2. SessionTypes' /\ InWindow'
  BY <1>1 DEF RunnerTypes, SessionTypes, InWindow, Where, End
<1>3. BodyTypes'
  BY <1>1 DEF RunnerTypes, BodyTypes
<1>4. Places'
  BY <1>1, Zenon DEF RunnerTypes, Places
<1> QED BY <1>2, <1>3, <1>4 DEF RunnerTypes

\* The playlist is asked for again, perhaps at a new URL; a round may begin.
Asked ==
    /\ out = <<>> /\ pc \in {"idle", "retry", "round"}
    /\ pc' \in {"idle", "retry", "round", "window", "ending"}
    /\ UNCHANGED <<out, last, origin, seg, nextSeq, prevBase, nextPf, stale>>
    /\ UNCHANGED <<curMap, mapSent>> \/ (curMap' = "" /\ mapSent' = FALSE)
    /\ \/ /\ RefreshURL
          /\ \/ unheld' = (unheld \/ settle.active) /\ UNCHANGED <<curMap, mapSent>>
             \/ unheld' = unheld /\ curMap' = "" /\ mapSent' = FALSE
       \/ UNCHANGED <<fetches, settle, pool, unheld, curMap, mapSent>>
    /\ pl' \in {pl, Playlist(origin)}
    /\ (pc' = "round" => pl' = Playlist(origin))
    /\ (pc' = "window" => pl' = Playlist(origin) \/ (pc = "round" /\ pl' = pl))

LEMMA AskedSteps == ASSUME RunnerTypes, Tick \/ Retry \/ Renew \/ NoRenew PROVE Asked
<1>1. ASSUME NEW x \in {"idle", "retry"}, Poll(x) PROVE Asked
  <2>1. /\ pc \in {"idle", "retry"} /\ pc' \in {"idle", "retry", "round", "ending"} /\ out = <<>>
        /\ UNCHANGED <<out, last, origin, seg, nextSeq, prevBase, nextPf, stale, curMap, mapSent>>
    BY <1>1 DEF Poll, RunnerTypes, Places, world, channel, window
  <2>2. /\ \/ RefreshURL /\ unheld' = (unheld \/ settle.active)
           \/ UNCHANGED <<fetches, settle, pool, unheld>>
        /\ pl' \in {pl, Playlist(origin)}
        /\ (pc' = "round" => pl' = Playlist(origin))
    BY <1>1 DEF Poll, FetchOk, FetchError, FetchGone, Fetched
  <2> QED BY <2>1, <2>2 DEF Asked
<1>2. CASE Renew
  <2>1. /\ pc = "round" /\ pc' \in {"idle", "window", "ending"} /\ out = <<>>
        /\ UNCHANGED <<out, last, origin, seg, nextSeq, prevBase, nextPf, stale, unheld>>
    BY <1>2 DEF Renew, RunnerTypes, Places, world, channel
  <2>2. /\ \/ RefreshURL /\ curMap' = "" /\ mapSent' = FALSE
           \/ UNCHANGED <<fetches, settle, pool, curMap, mapSent>>
        /\ pl' \in {pl, Playlist(origin)}
    BY <1>2 DEF Renew, Fetched
  <2> QED BY <2>1, <2>2 DEF Asked
<1>3. CASE NoRenew
  BY <1>3 DEF NoRenew, RunnerTypes, Places, world, channel, window, Asked
<1> QED BY <1>1, <1>2, <1>3 DEF Tick, Retry

LEMMA TypesAsked == ASSUME RunnerTypes, Asked PROVE RunnerTypes'
<1>1. SessionTypes'
  <2>1. "" \in Maps
    BY DEF Maps
  <2> QED BY <2>1, PlaylistIs DEF Asked, RunnerTypes, SessionTypes
<1>2. CASE RefreshURL
  <2>1. BodyTypes'
    <3>1. settle \in SettleType /\ gen \in Nat /\ orphans \subseteq BodySet /\ gone \subseteq BodySet
          /\ Fetching \subseteq BodySet
      BY DEF RunnerTypes, BodyTypes, SettleType, Fetching
    <3>2. Held \subseteq BodySet
      BY <3>1, SettleFields, HasBody DEF Held
    <3>3. orphans' \subseteq BodySet /\ gone' \subseteq BodySet /\ gen' \in Nat
      BY <1>2, <3>1, <3>2, RefreshPool
    <3>4. settle' \in SettleType
      BY <1>2, RefreshHold
    <3>5. DOMAIN started' = {}
      <4>1. DOMAIN <<>> = {}
        OBVIOUS
      <4> QED BY <1>2, <4>1, RefreshPool, Zenon
    <3>6. out' \in Seq(ItemSet) /\ last' \in [c : Int, init : Cfgs]
      BY Zenon DEF RunnerTypes, BodyTypes, Asked
    <3> QED BY <3>3, <3>4, <3>5, <3>6 DEF BodyTypes, SettleType
  <2>2. Places'
    BY <1>2, RefreshHold, Zenon DEF Places, Asked
  <2> QED BY <1>1, <2>1, <2>2 DEF RunnerTypes, InWindow, Where, Asked
<1>3. CASE UNCHANGED <<fetches, settle, pool>>
  <2>1. BodyTypes'
    BY <1>3 DEF RunnerTypes, BodyTypes, fetches, pool, Asked
  <2>2. Places'
    BY <1>3, Zenon DEF RunnerTypes, Places, Asked
  <2> QED BY <1>1, <2>1, <2>2 DEF RunnerTypes, InWindow, Where, Asked
<1> QED BY <1>2, <1>3 DEF Asked

\* The window is at a playlist: the sequence goes on or begins anew, prefetches start.
Adjusted(S) ==
    /\ pc = "window" /\ pc' = "segment" /\ seg' = pl.base
    /\ UNCHANGED <<origin, back, out, last, pl, prevBase, orphans, gen, unheld>>
    /\ pl.base <= nextSeq'
    /\ nextSeq <= nextSeq' \/ (nextSeq' = pl.base /\ pl.base < prevBase)
    /\ nextSeq' \in Int /\ nextPf' \in Int /\ nextSeq' < nextPf'
    /\ curMap' = pl.map /\ mapSent' \in {mapSent, FALSE} /\ (curMap' # curMap => mapSent' = FALSE)
    /\ S \subseteq nextSeq' .. End(pl) /\ started' = StartAll(started, pl, S)
    /\ (stale' <=> stale \/ \E n \in DOMAIN started : started[n] # Body(pl, n, gen) /\ n \in pl.base .. End(pl))
    /\ \/ settle' = SettleCancel(settle) /\ Release(Held) /\ curMap' = ""
       \/ settle' = settle /\ Release({}) /\ (curMap' = "" /\ settle.active => curMap = "")

LEMMA AdjustSteps == ASSUME RunnerTypes, Adjust PROVE \E S : Adjusted(S)
<1>1. /\ pc = "window" /\ pc' = "segment" /\ seg' = pl.base
      /\ UNCHANGED <<origin, back, out, last, pl, prevBase, orphans, gen, unheld>>
  BY DEF Adjust, world, channel
<1>2. PICK n1, n2, ahead :
        /\ n1 = (IF pl.base > nextSeq THEN pl.base ELSE nextSeq)
        /\ n2 = (IF ShouldResetSequenceOnRollback(prevBase, pl, n1) THEN pl.base ELSE n1)
        /\ ahead = (IF segFails > 0 THEN 0 ELSE PrefetchAhead)
  OBVIOUS
<1>3. /\ nextSeq' = n2
      /\ mapSent' = (IF ShouldResetSequenceOnRollback(prevBase, pl, n1) \/ pl.map # curMap THEN FALSE ELSE mapSent)
      /\ curMap' = pl.map
      /\ settle' = (IF pl.map # curMap /\ pl.map = "" /\ settle.active THEN SettleCancel(settle) ELSE settle)
      /\ Release(IF pl.map # curMap /\ pl.map = "" /\ settle.active THEN ToSet(settle.buf) ELSE {})
      /\ started' = StartAll(started, pl, {n \in n2 .. n2 + ahead : n <= End(pl)})
      /\ nextPf' = n2 + ahead + 1
      /\ stale' = (stale \/ \E n \in DOMAIN started : started[n] # Body(pl, n, gen)
                                                      /\ n \in pl.base .. End(pl))
  BY <1>2, Zenon DEF Adjust
<1>4. pl.base \in Int /\ nextSeq \in Int /\ ahead \in Nat /\ prevBase \in Int /\ End(pl) \in Int
  <2>1. PrefetchAhead \in Nat
    BY HlsAssumption
  <2>2. ahead \in {0, PrefetchAhead}
    BY <1>2, Zenon
  <2> QED BY <2>1, <2>2 DEF RunnerTypes, SessionTypes, End
<1>5. /\ n2 \in Int /\ pl.base <= n2 /\ (nextSeq <= n2 \/ (n2 = pl.base /\ pl.base < prevBase))
  <2>1. n1 \in Int /\ pl.base <= n1 /\ nextSeq <= n1
    <3>1. n1 = (IF pl.base > nextSeq THEN pl.base ELSE nextSeq)
      BY <1>2
    <3> QED BY <1>4, <3>1
  <2>2. CASE ShouldResetSequenceOnRollback(prevBase, pl, n1)
    <3>1. n2 = pl.base
      BY <1>2, <2>2, Zenon
    <3> QED BY <1>4, <2>2, <3>1 DEF ShouldResetSequenceOnRollback
  <2>3. CASE ~ShouldResetSequenceOnRollback(prevBase, pl, n1)
    <3>1. n2 = n1
      BY <1>2, <2>3, Zenon
    <3> QED BY <2>1, <3>1
  <2> QED BY <2>2, <2>3
<1>14. nextPf' = n2 + ahead + 1 /\ nextSeq' = n2
  BY <1>3, Zenon
<1>6. nextPf' \in Int /\ nextSeq' < nextPf'
  BY <1>4, <1>5, <1>14
<1>7. PICK S : S = {n \in n2 .. n2 + ahead : n <= End(pl)}
  OBVIOUS
<1>8. S \subseteq nextSeq' .. End(pl) /\ started' = StartAll(started, pl, S)
  <2>1. S \subseteq n2 .. End(pl)
    BY <1>4, <1>5, <1>7
  <2>2. started' = StartAll(started, pl, S)
    BY <1>3, <1>7, Zenon
  <2> QED BY <1>14, <2>1, <2>2
<1>9. mapSent' \in {mapSent, FALSE} /\ (curMap' # curMap => mapSent' = FALSE)
  BY <1>3, Zenon
<1>10. \/ settle' = SettleCancel(settle) /\ Release(Held) /\ curMap' = ""
       \/ settle' = settle /\ Release({}) /\ (curMap' = "" /\ settle.active => curMap = "")
  <2>1. CASE pl.map # curMap /\ pl.map = "" /\ settle.active
    BY <1>3, <2>1, Zenon DEF Held
  <2>2. CASE ~(pl.map # curMap /\ pl.map = "" /\ settle.active)
    BY <1>3, <2>2, Zenon
  <2> QED BY <2>1, <2>2
<1>11. pl.base <= nextSeq' /\ nextSeq' \in Int /\ (nextSeq <= nextSeq' \/ (nextSeq' = pl.base /\ pl.base < prevBase))
  BY <1>3, <1>5
<1>12. curMap' = pl.map
       /\ (stale' <=> stale \/ \E n \in DOMAIN started : started[n] # Body(pl, n, gen) /\ n \in pl.base .. End(pl))
  BY <1>3, Zenon
<1>13. Adjusted(S)
  BY <1>1, <1>6, <1>8, <1>9, <1>10, <1>11, <1>12, Zenon DEF Adjusted
<1> QED BY <1>13

\* One more prefetch, and the body of this number.
Waits(S, b) ==
    /\ Where = "segment" /\ pc = "segment" /\ out = <<>>
    /\ seg = nextSeq /\ pl.base <= seg /\ seg <= End(pl) /\ ~NeedMap
    /\ S \subseteq seg .. End(pl) /\ seg \in S
    /\ b = StartAll(started, pl, S)[seg] /\ started' = Without(StartAll(started, pl, S), seg)
    /\ UNCHANGED <<origin, last, pl, prevBase, curMap, mapSent, gen, gone, misuse, stale, unheld>>

Waited(S, b) ==
    /\ Waits(S, b) /\ UNCHANGED orphans /\ nextPf' \in Int
    /\ \/ /\ nextSeq' = seg + 1 /\ seg' = seg + 1 /\ (nextPf' > nextSeq' \/ nextPf' > End(pl))
          /\ \/ /\ settle.active /\ settle' = [settle EXCEPT !.buf = Append(settle.buf, b)]
                /\ pc' = "segment" /\ UNCHANGED out
             \/ /\ ~settle.active /\ settle' = settle
                /\ pc' = "send" /\ back' = "segment" /\ out' = <<Media(b)>>
       \/ /\ UNCHANGED <<nextSeq, seg, settle, out>> /\ pc' = "done"

LEMMA WaitSteps == ASSUME RunnerTypes, Wait PROVE \E S, b : Waited(S, b)
<1>1. /\ pc = "segment" /\ Where = "segment" /\ out = <<>> /\ ~NeedMap
      /\ UNCHANGED <<origin, last, pl, prevBase, curMap, mapSent, gen, gone, misuse, stale, unheld, orphans>>
  BY DEF Wait, AtSegment, Where, RunnerTypes, Places, world, channel, pool
<1>2. /\ seg = nextSeq /\ pl.base <= seg /\ seg <= End(pl) /\ nextPf \in Int /\ seg \in Int /\ End(pl) \in Int
      /\ (nextPf > nextSeq \/ nextPf > End(pl))
  BY <1>1 DEF Wait, AtSegment, RunnerTypes, InWindow, SessionTypes, End
<1>3. PICK S, m, b :
        /\ S = {seg} \cup (IF nextPf <= End(pl) THEN {nextPf} ELSE {})
        /\ m = StartAll(started, pl, S) /\ b = m[seg]
  OBVIOUS
<1>4. /\ nextPf' = (IF nextPf <= End(pl) THEN nextPf + 1 ELSE nextPf)
      /\ started' = Without(m, seg)
      /\ \/ /\ nextSeq' = seg + 1 /\ seg' = seg + 1
            /\ settle' = (IF settle.active THEN [settle EXCEPT !.buf = Append(@, b)] ELSE settle)
            /\ SendThen(IF settle.active THEN <<>> ELSE <<Media(b)>>, "segment")
         \/ /\ pc' = "done" /\ UNCHANGED <<nextSeq, seg, settle, out>>
  BY <1>3, Zenon DEF Wait
<1>5. S \subseteq seg .. End(pl) /\ seg \in S
  <2>1. S = {seg} \cup (IF nextPf <= End(pl) THEN {nextPf} ELSE {})
    BY <1>3
  <2> QED BY <1>2, <2>1
<1>6. Waits(S, b)
  BY <1>1, <1>2, <1>3, <1>4, <1>5, Zenon DEF Waits
<1>7. CASE pc' = "done" /\ UNCHANGED <<nextSeq, seg, settle, out>>
  <2>1. nextPf' \in Int
    BY <1>2, <1>4
  <2>2. Waited(S, b)
    BY <1>1, <1>6, <1>7, <2>1, Zenon DEF Waited
  <2> QED BY <2>2
<1>8. CASE /\ nextSeq' = seg + 1 /\ seg' = seg + 1
           /\ settle' = (IF settle.active THEN [settle EXCEPT !.buf = Append(@, b)] ELSE settle)
           /\ SendThen(IF settle.active THEN <<>> ELSE <<Media(b)>>, "segment")
  <2>1. nextPf' \in Int /\ (nextPf' > nextSeq' \/ nextPf' > End(pl))
    <3>1. nextPf' = (IF nextPf <= End(pl) THEN nextPf + 1 ELSE nextPf) /\ nextSeq' = seg + 1
      BY <1>4, <1>8, Zenon
    <3>2. pl' = pl
      BY <1>1, Zenon
    <3> QED BY <1>2, <3>1, <3>2
  <2>2. \/ /\ settle.active /\ settle' = [settle EXCEPT !.buf = Append(settle.buf, b)]
           /\ pc' = "segment" /\ UNCHANGED out
        \/ /\ ~settle.active /\ settle' = settle
           /\ pc' = "send" /\ back' = "segment" /\ out' = <<Media(b)>>
    <3>1. <<Media(b)>> # <<>>
      OBVIOUS
    <3>2. CASE settle.active
      BY <1>8, <3>2, Zenon DEF SendThen
    <3>3. CASE ~settle.active
      BY <1>8, <3>1, <3>3, Zenon DEF SendThen
    <3> QED BY <3>2, <3>3
  <2>3. Waited(S, b)
    BY <1>1, <1>6, <1>8, <2>1, <2>2, Zenon DEF Waited
  <2> QED BY <2>3
<1> QED BY <1>4, <1>7, <1>8

\* The end of a hold is sent, from the select, the window or at the end of run.
SettleSent ==
    /\ pc \in {"idle", "segment", "ending"} /\ out = <<>>
    /\ UNCHANGED <<origin, last, pl, seg, nextSeq, prevBase, curMap, mapSent, nextPf, started, orphans, gen, gone,
                   misuse, stale, unheld>>
    /\ Where' = IF pc = "ending" THEN "closing" ELSE pc
    /\ \/ /\ settle.active /\ settle' = [NoHold EXCEPT !.confirmed = settle.pending]
          /\ out' = Settled(settle) /\ pc' = "send"
       \/ /\ ~settle.active /\ settle' = settle /\ out' = <<>> /\ pc' # "send"

LEMMA SettleSteps == ASSUME RunnerTypes, SendSettle \/ Ending PROVE SettleSent
<1>1. /\ pc \in {"idle", "segment", "ending"}
      /\ UNCHANGED <<origin, last, pl, seg, nextSeq, prevBase, curMap, mapSent, nextPf, started, orphans, gen, gone,
                     misuse, stale, unheld>>
  BY DEF SendSettle, Ending, world, channel, window, fetches, pool
<1>2. out = <<>>
  BY <1>1 DEF RunnerTypes, Places
<1>3. PICK w : w = IF pc = "ending" THEN "closing" ELSE pc
  OBVIOUS
<1>4. w \in {"idle", "segment", "closing"}
  BY <1>1, <1>3
<1>5. /\ settle' = (IF settle.active THEN [NoHold EXCEPT !.confirmed = settle.pending] ELSE settle)
      /\ SendThen(IF settle.active THEN Settled(settle) ELSE <<>>, w)
  <2>1. CASE SendSettle
    <3>1. pc # "ending"
      BY <2>1 DEF SendSettle
    <3>2. w = pc
      BY <1>3, <3>1, Zenon
    <3> QED BY <2>1, <3>2, Zenon DEF SendSettle
  <2>2. CASE Ending
    <3>1. pc = "ending"
      BY <2>2, Zenon DEF Ending
    <3>2. w = "closing"
      BY <1>3, <3>1, Zenon
    <3> QED BY <2>2, <3>2, Zenon DEF Ending
  <2> QED BY <2>1, <2>2
<1>6. settle \in SettleType
  BY Zenon DEF RunnerTypes, BodyTypes, SettleType
<1>7. Settled(settle) # <<>>
  BY <1>6, SettledIs DEF SettleType
<1>8. CASE settle.active
  <2>1. settle' = [NoHold EXCEPT !.confirmed = settle.pending] /\ out' = Settled(settle) /\ pc' = "send" /\ back' = w
    BY <1>5, <1>7, <1>8, Zenon DEF SendThen
  <2>2. Where' = w
    BY <2>1, Zenon DEF Where
  <2> QED BY <1>1, <1>2, <1>3, <1>8, <2>1, <2>2, Zenon DEF SettleSent
<1>9. CASE ~settle.active
  <2>1. settle' = settle /\ out' = out /\ pc' = w
    BY <1>5, <1>9, Zenon DEF SendThen
  <2>2. pc' # "send"
    BY <1>4, <2>1
  <2>3. Where' = w
    BY <2>1, <2>2, Zenon DEF Where
  <2> QED BY <1>1, <1>2, <1>3, <1>9, <2>1, <2>2, <2>3, Zenon DEF SettleSent
<1> QED BY <1>8, <1>9

\* The init segment of the window was fetched, or could not be.
MapFetched ==
    /\ pc = "segment" /\ out = <<>> /\ NeedMap
    /\ UNCHANGED <<origin, last, pl, seg, nextSeq, prevBase, curMap, nextPf, started, orphans, gen, stale, unheld>>
    /\ \/ /\ mapSent' = TRUE /\ Where' = "segment"
          /\ \E drop : Accepted(settle, InitBytes(curMap), settle', out', drop) /\ Release(drop)
          /\ (pc' = "send" <=> out' # <<>>)
       \/ pc' = "done" /\ UNCHANGED <<mapSent, settle, out, gone, misuse>>

LEMMA MapSteps == ASSUME RunnerTypes, FetchMap PROVE MapFetched
<1>1. /\ pc = "segment" /\ NeedMap /\ out = <<>>
      /\ UNCHANGED <<origin, last, pl, seg, nextSeq, prevBase, curMap, nextPf, started, orphans, gen, stale, unheld>>
  BY DEF FetchMap, AtSegment, RunnerTypes, Places, world, channel, fetches
<1>2. PICK r : r = AcceptMap(settle, InitBytes(curMap))
  OBVIOUS
<1>3. \/ /\ mapSent' = TRUE /\ settle' = r.s /\ Release(r.drop) /\ SendThen(r.now, "segment")
      \/ pc' = "done" /\ UNCHANGED <<mapSent, settle, out, gone, misuse>>
  BY <1>2, Zenon DEF FetchMap, pool
<1>4. CASE mapSent' = TRUE /\ settle' = r.s /\ Release(r.drop) /\ SendThen(r.now, "segment")
  <2>1. settle \in SettleType /\ curMap \in Maps /\ HeldWhileActive(settle)
    BY Zenon DEF RunnerTypes, BodyTypes, SessionTypes, SettleType, HeldWhileActive, Places
  <2>2. Accepted(settle, InitBytes(curMap), settle', r.now, r.drop)
    BY <1>2, <1>4, <2>1, CfgIs, AcceptIs
  <2>3. CASE r.now = <<>>
    <3>1. pc' = "segment" /\ out' = r.now
      BY <1>1, <1>4, <2>3, Zenon DEF SendThen
    <3>2. Where' = "segment" /\ pc' # "send"
      BY <3>1 DEF Where
    <3> QED BY <1>1, <1>4, <2>2, <2>3, <3>1, <3>2, Zenon DEF MapFetched
  <2>4. CASE r.now # <<>>
    <3>1. pc' = "send" /\ back' = "segment" /\ out' = r.now
      BY <1>4, <2>4, Zenon DEF SendThen
    <3>2. Where' = "segment"
      BY <3>1 DEF Where
    <3> QED BY <1>1, <1>4, <2>2, <2>4, <3>1, <3>2, Zenon DEF MapFetched
  <2> QED BY <2>3, <2>4
<1> QED BY <1>1, <1>3, <1>4, Zenon DEF MapFetched

LEMMA EmptyIs ==
  ASSUME NEW S, NEW q \in Seq(S)
  PROVE  Len(q) \in Nat /\ (q = <<>> <=> Len(q) = 0)
OBVIOUS

LEMMA TailIs ==
  ASSUME NEW S, NEW q \in Seq(S), q # <<>>
  PROVE  /\ Tail(q) \in Seq(S) /\ Len(q) \in Nat \ {0} /\ Len(Tail(q)) = Len(q) - 1
         /\ Head(q) = q[1] /\ q[1] \in S
         /\ \A i \in 1..Len(Tail(q)) : Tail(q)[i] = q[i + 1]
         /\ (Tail(q) = <<>> <=> Len(q) = 1)
<1>1. /\ Tail(q) \in Seq(S) /\ Len(q) \in Nat \ {0} /\ Len(Tail(q)) = Len(q) - 1
      /\ Head(q) = q[1] /\ q[1] \in S
      /\ \A i \in 1..Len(Tail(q)) : Tail(q)[i] = q[i + 1]
  OBVIOUS
<1>2. Tail(q) = <<>> <=> Len(q) = 1
  <2>1. PICK t, n : t = Tail(q) /\ n = Len(q)
    OBVIOUS
  <2>2. Len(t) = n - 1 /\ n \in Nat \ {0} /\ t \in Seq(S)
    BY <1>1, <2>1, Zenon
  <2>3. t = <<>> <=> Len(t) = 0
    BY <2>2, EmptyIs, Zenon
  <2>4. n - 1 = 0 <=> n = 1
    BY <2>2
  <2> QED BY <2>1, <2>2, <2>3, <2>4, Zenon
<1> QED BY <1>1, <1>2, Zenon

\* One item is on the channel.
Sent ==
    /\ pc = "send" /\ out # <<>> /\ out' = Tail(out) /\ Where' = Where
    /\ (pc' = "send" => out' # <<>> /\ back' = back) /\ (pc' # "send" => out' = <<>>)
    /\ UNCHANGED <<origin, pl, seg, nextSeq, prevBase, curMap, mapSent, nextPf, settle, started, orphans, gen, stale,
                   unheld>>
    /\ \/ /\ Head(out).kind = "init" /\ last' = [last EXCEPT !.init = Head(out).body.cfg] /\ UNCHANGED <<gone, misuse>>
       \/ /\ Head(out).kind # "init" /\ last' = [last EXCEPT !.c = Head(out).body.c] /\ GiveAway({Head(out).body})

LEMMA SendSteps == ASSUME RunnerTypes, Send PROVE Sent
<1>1. /\ pc = "send" /\ out # <<>> /\ out' = Tail(out) /\ back \in {"idle", "segment", "closing"}
      /\ UNCHANGED <<origin, pl, seg, nextSeq, prevBase, curMap, mapSent, nextPf, settle, started, orphans, gen, stale,
                     unheld>>
  BY Zenon DEF Send, RunnerTypes, Places, world, window, fetches
<1>2. IF Len(out) = 1 THEN pc' = back ELSE pc' = pc /\ back' = back
  BY Zenon DEF Send
<1>3. out \in Seq(ItemSet)
  BY Zenon DEF RunnerTypes, BodyTypes
<1>4. IF Len(out) = 1 THEN Tail(out) = <<>> ELSE Tail(out) # <<>>
  <2>1. PICK q : q = out
    OBVIOUS
  <2>2. q \in Seq(ItemSet) /\ q # <<>>
    BY <1>1, <1>3, <2>1
  <2>3. IF Len(q) = 1 THEN Tail(q) = <<>> ELSE Tail(q) # <<>>
    BY <2>2, TailIs
  <2> QED BY <2>1, <2>3
<1>5. CASE Len(out) = 1
  <2>1. pc' = back /\ out' = <<>>
    BY <1>1, <1>2, <1>4, <1>5, Zenon
  <2>2. pc' # "send"
    BY <1>1, <2>1
  <2>3. Where' = Where
    BY <1>1, <2>1, <2>2, Zenon DEF Where
  <2> QED BY <1>1, <2>1, <2>2, <2>3, Zenon DEF Send, Sent, pool
<1>6. CASE Len(out) # 1
  <2>1. pc' = pc /\ back' = back /\ out' # <<>>
    BY <1>1, <1>2, <1>4, <1>6, Zenon
  <2>2. Where' = Where
    BY <2>1, Zenon DEF Where
  <2> QED BY <1>1, <2>1, <2>2, Zenon DEF Send, Sent, pool
<1> QED BY <1>5, <1>6

\* Sending was interrupted.
SendLost ==
    /\ pc = "send" /\ cancelled /\ out' = <<>> /\ Release(Bodies(out))
    /\ pc' \in {"ending", "closing"} /\ LeaveScope
    /\ UNCHANGED <<origin, last, nextSeq, prevBase, curMap, mapSent, settle, started, orphans, gen, stale, unheld>>

LEMMA LostSteps == ASSUME SendCancelled PROVE SendLost
BY DEF SendCancelled, SendLost, world, channel, fetches

\* The round is over; its playlist is forgotten.
Ended ==
    /\ Where \in {"segment", "done"} /\ out = <<>> /\ pc' = "idle" /\ prevBase' = pl.base /\ LeaveScope
    /\ UNCHANGED <<origin, out, last, nextSeq, curMap, mapSent, settle, started, orphans, gen, gone, misuse,
                   stale, unheld>>

LEMMA EndSteps == ASSUME RunnerTypes, RoundEnds PROVE Ended
BY DEF RoundEnds, EndOfWindow, Ended, Where, RunnerTypes, Places, world, channel, fetches, pool

\* The context ended something else; a body may be left to a goroutine.
Stopped ==
    /\ out = <<>> /\ pc' = "ending" /\ LeaveScope
    /\ UNCHANGED <<origin, out, last, nextSeq, prevBase, curMap, mapSent, settle, gen, gone, misuse, stale, unheld>>
    /\ \/ UNCHANGED <<started, orphans>>
       \/ /\ Where = "segment" /\ seg = nextSeq /\ pl.base <= seg /\ seg <= End(pl)
          /\ started' = Without(StartAll(started, pl, {seg}), seg)
          /\ orphans' = orphans \cup {StartAll(started, pl, {seg})[seg]}

LEMMA StopSteps == ASSUME RunnerTypes, Cancelled PROVE Stopped
<1>1. /\ out = <<>> /\ pc' = "ending" /\ LeaveScope
      /\ UNCHANGED <<origin, out, last, nextSeq, prevBase, curMap, mapSent, settle, gen, gone, misuse, stale, unheld>>
  BY DEF Cancelled, AtSegment, RunnerTypes, Places, world, channel, pool
<1>2. CASE UNCHANGED <<started, orphans>>
  BY <1>1, <1>2, Zenon DEF Stopped
<1>3. CASE /\ AtSegment /\ seg >= nextSeq
           /\ LET m == StartAll(started, pl, {seg})
              IN  started' = Without(m, seg) /\ orphans' = orphans \cup {m[seg]}
  <2>1. Where = "segment" /\ seg = nextSeq /\ pl.base <= seg /\ seg <= End(pl)
    BY <1>3 DEF AtSegment, Where, RunnerTypes, InWindow, SessionTypes
  <2> QED BY <1>1, <1>3, <2>1, Zenon DEF Stopped
<1> QED BY <1>2, <1>3, Zenon DEF Cancelled

\* The goroutine of the runner ends.
Closed ==
    /\ pc = "closing" /\ pc' = "closed" /\ started' = <<>> /\ orphans' = orphans \cup Fetching /\ out = <<>>
    /\ UNCHANGED <<origin, out, last, pl, seg, nextSeq, prevBase, curMap, mapSent, nextPf, settle, gen, gone, misuse,
                   stale, unheld>>

LEMMA CloseSteps == ASSUME RunnerTypes, Close PROVE Closed
BY Zenon DEF Closed, Close, Abandon, Fetching, RunnerTypes, Places, world, channel, window, pool

\* A segment before the one it goes on at.
Skipped ==
    /\ pc = "segment" /\ pc' = "segment" /\ seg < nextSeq /\ seg' = seg + 1 /\ out = <<>>
    /\ UNCHANGED <<origin, out, last, pl, nextSeq, prevBase, curMap, mapSent, nextPf, settle, started, orphans, gen,
                   gone, misuse, stale, unheld>>

LEMMA SkipSteps == ASSUME RunnerTypes, Skip PROVE Skipped
BY DEF Skipped, Skip, AtSegment, RunnerTypes, Places, world, channel, fetches, pool
LEMMA WithoutIs ==
  ASSUME NEW m, NEW n
  PROVE  /\ DOMAIN Without(m, n) = DOMAIN m \ {n}
         /\ \A k \in DOMAIN m \ {n} : Without(m, n)[k] = m[k]
BY DEF Without

\* What the prefetcher has after Start: what it had, and bodies of this playlist.
FromStart(S, m) ==
    /\ DOMAIN m = DOMAIN started \cup S /\ DOMAIN m \subseteq Int
    /\ \A n \in DOMAIN m : m[n] \in BodySet
    /\ \A n \in DOMAIN started : m[n] = started[n]
    /\ \A n \in S \ DOMAIN started : /\ m[n] = Body(pl, n, gen) /\ m[n].c = n + pl.off
                                     /\ m[n].cfg = InitBytes(pl.map) /\ m[n].gen = gen

LEMMA StartTypes ==
  ASSUME RunnerTypes, NEW S, S \subseteq Int, NEW m, m = StartAll(started, pl, S)
  PROVE  FromStart(S, m)
<1>1. /\ DOMAIN started \subseteq Int /\ \A n \in DOMAIN started : started[n] \in BodySet
      /\ gen \in Nat
  BY DEF RunnerTypes, BodyTypes
<1>2. \A n \in S : /\ Body(pl, n, gen) \in BodySet /\ Body(pl, n, gen).c = n + pl.off
                   /\ Body(pl, n, gen).cfg = InitBytes(pl.map) /\ Body(pl, n, gen).gen = gen
  BY <1>1, BodyIs DEF RunnerTypes, SessionTypes
<1>3. /\ DOMAIN m = DOMAIN started \cup S
      /\ \A n \in DOMAIN started : m[n] = started[n]
      /\ \A n \in S \ DOMAIN started : m[n] = Body(pl, n, gen)
  BY DEF StartAll
<1>4. \A n \in DOMAIN m : m[n] \in BodySet
  BY <1>1, <1>2, <1>3
<1> QED BY <1>1, <1>2, <1>3, <1>4 DEF FromStart

LEMMA TypesAdjusted == ASSUME RunnerTypes, NEW S, Adjusted(S) PROVE RunnerTypes'
<1>1. SessionTypes'
  BY DEF Adjusted, RunnerTypes, SessionTypes
<1>2. settle \in SettleType /\ gone \subseteq BodySet /\ orphans \subseteq BodySet /\ gen \in Nat
      /\ out \in Seq(ItemSet) /\ last \in [c : Int, init : Cfgs]
  BY Zenon DEF RunnerTypes, BodyTypes, SettleType
<1>3. Held \subseteq BodySet
  BY <1>2, SettleFields, HasBody DEF Held
<1>4. gone' \subseteq BodySet
  BY <1>2, <1>3 DEF Adjusted, Release, GiveAway
<1>5. settle' \in SettleType /\ (~settle'.active => settle'.buf = <<>>)
  <2>1. CASE settle' = SettleCancel(settle)
    BY <1>2, <2>1, CancelIs, Zenon
  <2>2. CASE settle' = settle
    BY <1>2, <2>2, Zenon DEF RunnerTypes, Places
  <2> QED BY <2>1, <2>2, Zenon DEF Adjusted
<1>6. DOMAIN started' \subseteq Int /\ \A n \in DOMAIN started' : started'[n] \in BodySet
  <2>1. S \subseteq Int
    <3>1. S \subseteq nextSeq' .. End(pl) /\ nextSeq' \in Int
      BY Zenon DEF Adjusted
    <3> QED BY <3>1 DEF RunnerTypes, SessionTypes, End
  <2>2. started' = StartAll(started, pl, S)
    BY Zenon DEF Adjusted
  <2>3. FromStart(S, started')
    BY <2>1, <2>2, StartTypes, Zenon
  <2> QED BY <2>3, Zenon DEF FromStart
<1>7. BodyTypes'
  BY <1>2, <1>4, <1>5, <1>6, Zenon DEF BodyTypes, Adjusted, SettleType
<1>8. Places'
  <2>1. out = <<>> /\ pc' = "segment" /\ out' = out
    BY DEF Adjusted, RunnerTypes, Places
  <2> QED BY <1>5, <2>1 DEF Places
<1>9. InWindow'
  <2>1. pc' = "segment" /\ Where' = "segment"
    BY DEF Adjusted, Where
  <2>2. /\ seg' = pl.base /\ pl.base <= nextSeq' /\ curMap' = pl.map /\ pl' = pl
        /\ nextSeq' < nextPf' /\ nextSeq' \in Int /\ nextPf' \in Int
    BY Zenon DEF Adjusted
  <2>3. pl.base \in Int
    BY DEF RunnerTypes, SessionTypes
  <2> QED BY <2>1, <2>2, <2>3 DEF InWindow
<1> QED BY <1>1, <1>7, <1>8, <1>9 DEF RunnerTypes

\* Wait gives one body of this window and takes it from the prefetcher.
LEMMA WaitIs ==
  ASSUME RunnerTypes, NEW S, NEW b, Waits(S, b)
  PROVE  /\ b \in BodySet /\ seg \in Int /\ S \subseteq Int
         /\ \/ seg \in DOMAIN started /\ b = started[seg]
            \/ seg \notin DOMAIN started /\ b = Body(pl, seg, gen) /\ b.c = seg + pl.off /\ b.gen = gen
         /\ DOMAIN started' = (DOMAIN started \cup S) \ {seg}
         /\ \A n \in DOMAIN started' : /\ started'[n] \in BodySet
                                       /\ started'[n] = StartAll(started, pl, S)[n]
                                       /\ \/ n \in DOMAIN started /\ started'[n] = started[n]
                                          \/ /\ n \in S \ DOMAIN started /\ started'[n] = Body(pl, n, gen)
                                             /\ started'[n].c = n + pl.off
<1>1. PICK m : m = StartAll(started, pl, S)
  OBVIOUS
<1>2. S \subseteq Int /\ seg \in S /\ seg \in Int
  BY DEF Waits, RunnerTypes, SessionTypes, End
<1>3. b = m[seg] /\ started' = Without(m, seg)
  BY <1>1, Zenon DEF Waits
<1>4. FromStart(S, m)
  BY <1>1, <1>2, StartTypes, Zenon
<1>5. DOMAIN started' = DOMAIN m \ {seg} /\ \A n \in DOMAIN started' : started'[n] = m[n]
  BY <1>3, WithoutIs
<1>6. b \in BodySet
  BY <1>2, <1>3, <1>4 DEF FromStart
<1>7. \/ seg \in DOMAIN started /\ b = started[seg]
      \/ seg \notin DOMAIN started /\ b = Body(pl, seg, gen) /\ b.c = seg + pl.off /\ b.gen = gen
  BY <1>2, <1>3, <1>4 DEF FromStart
<1>8. \A n \in DOMAIN started' : /\ started'[n] \in BodySet
                                 /\ started'[n] = StartAll(started, pl, S)[n]
                                 /\ \/ n \in DOMAIN started /\ started'[n] = started[n]
                                    \/ /\ n \in S \ DOMAIN started /\ started'[n] = Body(pl, n, gen)
                                       /\ started'[n].c = n + pl.off
  BY <1>1, <1>4, <1>5 DEF FromStart
<1> QED BY <1>2, <1>4, <1>5, <1>6, <1>7, <1>8 DEF FromStart

LEMMA WaitBody ==
  ASSUME RunnerTypes, NEW S, NEW b, Waits(S, b)
  PROVE  \/ seg \in DOMAIN started /\ b = started[seg]
         \/ seg \notin DOMAIN started /\ b = Body(pl, seg, gen) /\ b.c = seg + pl.off /\ b.gen = gen
BY WaitIs

LEMMA AppendIs ==
  ASSUME NEW S, NEW q \in Seq(S), NEW b \in S
  PROVE  /\ Append(q, b) \in Seq(S) /\ Len(q) \in Nat /\ Len(Append(q, b)) = Len(q) + 1
         /\ \A i \in 1..Len(q) : Append(q, b)[i] = q[i]
         /\ Append(q, b)[Len(q) + 1] = b
         /\ Append(q, b) # <<>>
<1>1. /\ Append(q, b) \in Seq(S) /\ Len(q) \in Nat /\ Len(Append(q, b)) = Len(q) + 1
      /\ \A i \in 1..Len(q) : Append(q, b)[i] = q[i]
      /\ Append(q, b)[Len(q) + 1] = b
  OBVIOUS
<1>2. Append(q, b) # <<>>
  BY <1>1, EmptyIs
<1> QED BY <1>1, <1>2

LEMMA OneIs ==
  ASSUME NEW S, NEW b \in S
  PROVE  <<b>> \in Seq(S) /\ Len(<<b>>) = 1 /\ <<b>>[1] = b /\ <<b>> # <<>> /\ Head(<<b>>) = b
<1>1. <<b>> \in Seq(S) /\ Len(<<b>>) = 1 /\ <<b>>[1] = b
  OBVIOUS
<1>2. <<b>> # <<>>
  BY <1>1, EmptyIs
<1> QED BY <1>1, <1>2

\* What Wait does with the body.
LEMMA GrownIs ==
  ASSUME NEW s \in SettleType, NEW b \in BodySet, NEW t, t = [s EXCEPT !.buf = Append(s.buf, b)]
  PROVE  /\ t \in SettleType /\ t.buf = Append(s.buf, b) /\ t.active = s.active
         /\ t.confirmed = s.confirmed /\ t.pending = s.pending
<1>1. PICK z : z = Append(s.buf, b)
  OBVIOUS
<1>2. z \in Seq(BodySet)
  BY <1>1, SettleFields, AppendIs
<1>3. t = [s EXCEPT !.buf = z]
  BY <1>1, Zenon
<1>4. Has(t, s.confirmed, s.pending, z) /\ t.active = s.active
  BY <1>2, <1>3, HoldGrows, Zenon
<1> QED BY <1>1, <1>4, Zenon DEF Has

LEMMA TypesWaited == ASSUME RunnerTypes, NEW S, NEW b, Waited(S, b) PROVE RunnerTypes'
<1>1. Waits(S, b)
  BY Zenon DEF Waited
<1>2. SessionTypes'
  <2>1. nextPf' \in Int /\ seg \in Int /\ nextSeq' \in {nextSeq, seg + 1} /\ seg' \in {seg, seg + 1}
    BY <1>1, WaitIs DEF Waited
  <2>2. UNCHANGED <<origin, pl, prevBase, curMap, mapSent>>
    BY <1>1, Zenon DEF Waits
  <2> QED BY <2>1, <2>2 DEF RunnerTypes, SessionTypes
<1>3. settle \in SettleType /\ gone \subseteq BodySet /\ orphans \subseteq BodySet /\ gen \in Nat
      /\ out \in Seq(ItemSet) /\ last \in [c : Int, init : Cfgs]
  BY Zenon DEF RunnerTypes, BodyTypes, SettleType
<1>4. b \in BodySet
  BY <1>1, WaitIs
<1>5. settle' \in SettleType /\ settle'.active = settle.active /\ (~settle'.active => settle'.buf = <<>>)
  <2>1. CASE settle.active /\ settle' = [settle EXCEPT !.buf = Append(settle.buf, b)]
    <3>1. settle' \in SettleType /\ settle'.active = settle.active
      BY <1>3, <1>4, <2>1, GrownIs, Zenon
    <3> QED BY <2>1, <3>1, Zenon
  <2>2. CASE settle' = settle
    BY <1>3, <2>2, Zenon DEF RunnerTypes, Places
  <2> QED BY <2>1, <2>2, Zenon DEF Waited
<1>6. Media(b) \in ItemSet
  BY <1>4, MediaIs
<1>7. <<Media(b)>> \in Seq(ItemSet) /\ <<Media(b)>> # <<>>
  BY <1>6, OneIs
<1>8. out' \in Seq(ItemSet)
  BY <1>3, <1>7, Zenon DEF Waited
<1>9. DOMAIN started' \subseteq Int /\ \A n \in DOMAIN started' : started'[n] \in BodySet
  BY <1>1, WaitIs DEF RunnerTypes, BodyTypes
<1>10. BodyTypes'
  <2>1. UNCHANGED <<last, gen, gone, orphans>>
    BY <1>1, Zenon DEF Waits, Waited
  <2> QED BY <1>3, <1>5, <1>8, <1>9, <2>1, Zenon DEF BodyTypes, SettleType
<1>11. Places'
  <2>1. out = <<>>
    BY <1>1, Zenon DEF Waits
  <2>2. CASE pc' = "send" /\ back' = "segment" /\ out' = <<Media(b)>> /\ ~settle.active
    BY <1>5, <1>7, <2>2, Zenon DEF Places
  <2>3. CASE pc' \in {"segment", "done"} /\ UNCHANGED out
    BY <1>5, <2>1, <2>3 DEF Places
  <2> QED BY <2>2, <2>3, Zenon DEF Waited
<1>12. InWindow'
  <2>1. CASE nextSeq' = seg + 1 /\ seg' = seg + 1 /\ (nextPf' > nextSeq' \/ nextPf' > End(pl))
    <3>1. Where = "segment" /\ pl.base <= seg /\ UNCHANGED <<pl, curMap>> /\ pl.map = curMap /\ seg \in Int
          /\ pl.base \in Int
      BY <1>1 DEF Waits, RunnerTypes, InWindow, SessionTypes
    <3> QED BY <2>1, <3>1 DEF InWindow
  <2>2. CASE pc' = "done"
    BY <2>2 DEF InWindow, Where
  <2> QED BY <2>1, <2>2, Zenon DEF Waited
<1> QED BY <1>2, <1>10, <1>11, <1>12 DEF RunnerTypes
LEMMA TypesSettled == ASSUME RunnerTypes, SettleSent PROVE RunnerTypes'
<1>1. UNCHANGED <<origin, last, pl, seg, nextSeq, prevBase, curMap, mapSent, nextPf, started, orphans, gen, gone>>
  BY Zenon DEF SettleSent
<1>2. SessionTypes'
  BY <1>1 DEF RunnerTypes, SessionTypes
<1>3. InWindow'
  <2>1. Where' = "segment" => Where = "segment"
    BY DEF SettleSent, Where
  <2> QED BY <1>1, <2>1 DEF RunnerTypes, InWindow, End
<1>4. settle \in SettleType
  BY Zenon DEF RunnerTypes, BodyTypes, SettleType
<1>5. /\ settle' \in SettleType /\ (~settle'.active => settle'.buf = <<>>)
      /\ out' \in Seq(ItemSet) /\ (pc' = "send" => out' # <<>>) /\ (pc' # "send" => out' = <<>>)
      /\ (out' # <<>> => ~settle'.active)
  <2>1. CASE settle.active /\ settle' = [NoHold EXCEPT !.confirmed = settle.pending]
             /\ out' = Settled(settle) /\ pc' = "send"
    <3>1. settle.pending \in Cfgs
      BY <1>4, SettleFields
    <3>2. settle' \in SettleType /\ settle'.buf = <<>> /\ ~settle'.active
      BY <2>1, <3>1, NoHoldIs, Zenon
    <3>3. Settled(settle) \in Seq(ItemSet) /\ Settled(settle) # <<>>
      BY <1>4, SettledIs DEF SettleType
    <3> QED BY <2>1, <3>2, <3>3, Zenon
  <2>2. CASE ~settle.active /\ settle' = settle /\ out' = <<>> /\ pc' # "send"
    <3>1. <<>> \in Seq(ItemSet)
      OBVIOUS
    <3> QED BY <1>4, <2>2, <3>1, Zenon DEF RunnerTypes, Places
  <2> QED BY <2>1, <2>2, Zenon DEF SettleSent
<1>6. BodyTypes'
  BY <1>1, <1>5, Zenon DEF RunnerTypes, BodyTypes, SettleType
<1>7. Places'
  <2>1. pc \in {"idle", "segment", "ending"} /\ Where' = IF pc = "ending" THEN "closing" ELSE pc
    BY Zenon DEF SettleSent
  <2>2. Where' \in {"idle", "segment", "closing"}
    BY <2>1
  <2>3. (pc' = "send" => back' \in {"idle", "segment", "closing"})
        /\ (pc' # "send" => pc' \in {"idle", "segment", "closing"})
    BY <2>2 DEF Where
  <2>4. pc' \in {"idle", "retry", "round", "window", "segment", "done", "send", "ending", "closing", "closed"}
    BY <2>3
  <2> QED BY <1>5, <2>3, <2>4, Zenon DEF Places
<1> QED BY <1>2, <1>3, <1>6, <1>7 DEF RunnerTypes

LEMMA AcceptedTypes ==
  ASSUME NEW s \in SettleType, NEW m \in Cfgs, NEW t, NEW now, NEW drop, Accepted(s, m, t, now, drop)
  PROVE  /\ t \in SettleType /\ (~t.active => t.buf = <<>>)
         /\ now \in Seq(ItemSet) /\ (now # <<>> => ~t.active)
         /\ drop \subseteq ToSet(s.buf) /\ drop \subseteq BodySet
<1>1. t \in SettleType /\ (~t.active => t.buf = <<>>)
  BY Zenon DEF Accepted
<1>2. drop \subseteq ToSet(s.buf)
  BY Zenon DEF Accepted
<1>3. ToSet(s.buf) \subseteq BodySet
  BY SettleFields, HasBody
<1>4. <<>> \in Seq(ItemSet) /\ <<InitItem(m)>> \in Seq(ItemSet)
  <2>1. InitItem(m) \in ItemSet
    BY InitItemIs
  <2>2. <<>> \in Seq(ItemSet)
    OBVIOUS
  <2> QED BY <2>1, <2>2, OneIs
<1>5. now \in Seq(ItemSet) /\ (now # <<>> => ~t.active)
  BY <1>4, Zenon DEF Accepted
<1>6. drop \subseteq BodySet
  BY <1>2, <1>3, Zenon
<1> QED BY <1>1, <1>2, <1>5, <1>6, Zenon

LEMMA TypesMapFetched == ASSUME RunnerTypes, MapFetched PROVE RunnerTypes'
<1>1. UNCHANGED <<origin, last, pl, seg, nextSeq, prevBase, curMap, nextPf, started, orphans, gen>>
      /\ pc = "segment" /\ out = <<>>
  BY Zenon DEF MapFetched
<1>2. SessionTypes'
  <2>1. mapSent' \in {mapSent, TRUE}
    BY DEF MapFetched
  <2> QED BY <1>1, <2>1 DEF RunnerTypes, SessionTypes
<1>3. InWindow'
  BY <1>1 DEF RunnerTypes, InWindow, End, Where
<1>4. settle \in SettleType /\ curMap \in Maps /\ gone \subseteq BodySet
  BY Zenon DEF RunnerTypes, BodyTypes, SessionTypes, SettleType
<1> DEFINE Right == /\ settle' \in SettleType /\ (~settle'.active => settle'.buf = <<>>)
                    /\ out' \in Seq(ItemSet) /\ (pc' = "send" <=> out' # <<>>)
                    /\ (out' # <<>> => ~settle'.active) /\ gone' \subseteq BodySet
<1>5. Right
  <2>1. ASSUME NEW drop, Accepted(settle, InitBytes(curMap), settle', out', drop), Release(drop),
               pc' = "send" <=> out' # <<>>
        PROVE  Right
    <3>1. InitBytes(curMap) \in Cfgs
      BY <1>4, CfgIs
    <3>2. /\ settle' \in SettleType /\ (~settle'.active => settle'.buf = <<>>)
          /\ out' \in Seq(ItemSet) /\ (out' # <<>> => ~settle'.active) /\ drop \subseteq BodySet
      BY <1>4, <2>1, <3>1, AcceptedTypes
    <3>3. gone' = gone \cup drop
      BY <2>1, Zenon DEF Release, GiveAway
    <3>4. gone' \subseteq BodySet
      BY <1>4, <3>2, <3>3, Zenon
    <3> QED BY <2>1, <3>2, <3>4, Zenon
  <2>2. CASE pc' = "done" /\ UNCHANGED <<settle, out, gone, misuse>>
    <3>1. pc' # "send"
      BY <2>2
    <3> QED BY <1>1, <1>4, <2>2, <3>1, Zenon DEF RunnerTypes, Places, BodyTypes
  <2> QED BY <2>1, <2>2, Zenon DEF MapFetched
<1>6. BodyTypes'
  BY <1>1, <1>5, Zenon DEF RunnerTypes, BodyTypes, SettleType
<1>7. Places'
  <2>1. Where' \in {"segment", "done"}
    BY DEF MapFetched, Where
  <2>2. (pc' = "send" => back' \in {"idle", "segment", "closing"})
        /\ pc' \in {"idle", "retry", "round", "window", "segment", "done", "send", "ending", "closing", "closed"}
    BY <2>1 DEF Where, MapFetched
  <2> QED BY <1>5, <2>2, Zenon DEF Places
<1> QED BY <1>2, <1>3, <1>6, <1>7 DEF RunnerTypes
LEMMA LastIs ==
  ASSUME NEW l \in [c : Int, init : Cfgs], NEW n \in Int, NEW m \in Cfgs
  PROVE  /\ [l EXCEPT !.c = n] \in [c : Int, init : Cfgs] /\ [l EXCEPT !.c = n].c = n
         /\ [l EXCEPT !.c = n].init = l.init
         /\ [l EXCEPT !.init = m] \in [c : Int, init : Cfgs] /\ [l EXCEPT !.init = m].init = m
         /\ [l EXCEPT !.init = m].c = l.c
OBVIOUS

\* The item that was sent, and those that are left.
Queue(q) ==
    /\ Tail(q) \in Seq(ItemSet) /\ Len(q) \in Nat \ {0} /\ Len(Tail(q)) = Len(q) - 1
    /\ Head(q) = q[1] /\ q[1] \in ItemSet
    /\ \A i \in 1..Len(Tail(q)) : Tail(q)[i] = q[i + 1] /\ i + 1 \in 1..Len(q)
    /\ Head(q).body \in BodySet /\ Head(q).body.c \in Int /\ Head(q).body.cfg \in Cfgs
    /\ Bodies(Tail(q)) \subseteq Bodies(q) /\ Bodies(q) \subseteq BodySet
    /\ (Head(q).kind = "media" => Head(q).body \in Bodies(q))

LEMMA QueueIs ==
  ASSUME NEW q \in Seq(ItemSet), q # <<>>
  PROVE  Queue(q)
<1>1. /\ Tail(q) \in Seq(ItemSet) /\ Len(q) \in Nat \ {0} /\ Len(Tail(q)) = Len(q) - 1
      /\ Head(q) = q[1] /\ q[1] \in ItemSet
      /\ \A i \in 1..Len(Tail(q)) : Tail(q)[i] = q[i + 1]
  BY TailIs
<1>2. \A i \in 1..Len(Tail(q)) : i + 1 \in 1..Len(q)
  BY <1>1
<1>3. Head(q).body \in BodySet
  BY <1>1 DEF ItemSet
<1>4. Head(q).body.c \in Int /\ Head(q).body.cfg \in Cfgs
  BY <1>3 DEF BodySet
<1>5. Bodies(Tail(q)) \subseteq Bodies(q)
  <2>1. ASSUME NEW b \in Bodies(Tail(q)) PROVE b \in Bodies(q)
    <3>0. PICK t \in Seq(ItemSet) : t = Tail(q)
      BY <1>1
    <3>1. PICK i \in 1..Len(Tail(q)) : Tail(q)[i].kind = "media" /\ Tail(q)[i].body = b
      <4>1. \A x \in Bodies(t) : \E i \in 1..Len(t) : t[i].kind = "media" /\ t[i].body = x
        BY HasMedia, Zenon
      <4> QED BY <3>0, <4>1, Zenon
    <3>2. q[i + 1].kind = "media" /\ q[i + 1].body = b /\ i + 1 \in 1..Len(q)
      BY <1>1, <1>2, <3>1
    <3> QED BY <3>2, HasMedia
  <2> QED BY <2>1
<1>6. Bodies(q) \subseteq BodySet
  BY HasMedia
<1>7. Head(q).kind = "media" => Head(q).body \in Bodies(q)
  <2>1. 1 \in 1..Len(q)
    BY <1>1
  <2> QED BY <1>1, <2>1, HasMedia
<1> QED BY <1>1, <1>2, <1>3, <1>4, <1>5, <1>6, <1>7, Zenon DEF Queue

LEMMA SentQueue == ASSUME RunnerTypes, Sent PROVE Queue(out) /\ out' = Tail(out)
<1>1. PICK q : q = out
  OBVIOUS
<1>2. q \in Seq(ItemSet) /\ q # <<>>
  BY <1>1, Zenon DEF RunnerTypes, BodyTypes, Sent
<1>3. Queue(q)
  BY <1>2, QueueIs
<1> QED BY <1>1, <1>3, Zenon DEF Sent

LEMMA TypesSent == ASSUME RunnerTypes, Sent PROVE RunnerTypes'
<1>1. UNCHANGED <<origin, pl, seg, nextSeq, prevBase, curMap, mapSent, nextPf, settle, started, orphans, gen>>
      /\ Where' = Where
  BY Zenon DEF Sent
<1>2. SessionTypes' /\ InWindow'
  BY <1>1 DEF RunnerTypes, SessionTypes, InWindow, End
<1>3. /\ out' \in Seq(ItemSet) /\ Head(out).body \in BodySet /\ Head(out).body.c \in Int
      /\ Head(out).body.cfg \in Cfgs
  BY SentQueue, Zenon DEF Queue
<1>4. last \in [c : Int, init : Cfgs] /\ gone \subseteq BodySet
  BY Zenon DEF RunnerTypes, BodyTypes
<1>5. last' \in [c : Int, init : Cfgs] /\ gone' \subseteq BodySet
  <2>1. CASE last' = [last EXCEPT !.init = Head(out).body.cfg] /\ UNCHANGED <<gone, misuse>>
    <3>1. last' \in [c : Int, init : Cfgs]
      BY <1>3, <1>4, <2>1, LastIs, Zenon
    <3> QED BY <1>4, <2>1, <3>1, Zenon
  <2>2. CASE last' = [last EXCEPT !.c = Head(out).body.c] /\ GiveAway({Head(out).body})
    <3>1. last' \in [c : Int, init : Cfgs]
      BY <1>3, <1>4, <2>2, LastIs, Zenon
    <3>2. gone' = gone \cup {Head(out).body}
      BY <2>2, Zenon DEF GiveAway
    <3>3. gone' \subseteq BodySet
      BY <1>3, <1>4, <3>2, Zenon
    <3> QED BY <3>1, <3>3
  <2> QED BY <2>1, <2>2, Zenon DEF Sent
<1>6. BodyTypes'
  BY <1>1, <1>3, <1>5, Zenon DEF RunnerTypes, BodyTypes
<1>7. Places'
  <2>1. pc = "send" /\ out # <<>> /\ back \in {"idle", "segment", "closing"} /\ ~settle.active
    BY Zenon DEF RunnerTypes, Places, Sent
  <2>2. Where = back
    BY <2>1, Zenon DEF Where
  <2>3. (pc' = "send" => back' \in {"idle", "segment", "closing"})
        /\ (pc' # "send" => pc' \in {"idle", "segment", "closing"})
    BY <1>1, <2>1, <2>2, Zenon DEF Where
  <2>4. pc' \in {"idle", "retry", "round", "window", "segment", "done", "send", "ending", "closing", "closed"}
    BY <2>3
  <2>5. (pc' = "send" => out' # <<>>) /\ (pc' # "send" => out' = <<>>)
    BY Zenon DEF Sent
  <2>6. ~settle'.active /\ settle'.buf = <<>>
    BY <1>1, <2>1, Zenon DEF RunnerTypes, Places
  <2> QED BY <2>3, <2>4, <2>5, <2>6, Zenon DEF Places
<1> QED BY <1>2, <1>6, <1>7 DEF RunnerTypes

\* The round is over, the context ended it, or all of it is over.
LEMMA TypesOver == ASSUME RunnerTypes, SendLost \/ Ended \/ Stopped \/ Closed PROVE RunnerTypes'
<1>1. settle' = settle /\ out' = <<>> /\ pc' \in {"idle", "ending", "closing", "closed"}
      /\ UNCHANGED <<origin, last, nextSeq, curMap, mapSent, gen>>
  <2>1. CASE SendLost
    BY <2>1, Zenon DEF SendLost
  <2>2. CASE Ended
    BY <2>2, Zenon DEF Ended
  <2>3. CASE Stopped
    BY <2>3, Zenon DEF Stopped
  <2>4. CASE Closed
    BY <2>4, Zenon DEF Closed
  <2> QED BY <2>1, <2>2, <2>3, <2>4, Zenon
<1>2. SessionTypes'
  <2>1. (pl' = NoPlaylist /\ seg' = 0 /\ nextPf' = 0) \/ UNCHANGED <<pl, seg, nextPf>>
    BY Zenon DEF SendLost, Ended, Stopped, Closed, LeaveScope
  <2>2. prevBase' \in {prevBase, pl.base}
    BY Zenon DEF SendLost, Ended, Stopped, Closed
  <2> QED BY <1>1, <2>1, <2>2, NoPlaylistIs DEF RunnerTypes, SessionTypes
<1>3. /\ DOMAIN started \subseteq Int /\ \A n \in DOMAIN started : started[n] \in BodySet
      /\ orphans \subseteq BodySet /\ gone \subseteq BodySet
  BY Zenon DEF RunnerTypes, BodyTypes
<1>4. gone' \subseteq BodySet
  <2>1. CASE SendLost
    <3>1. Bodies(out) \subseteq BodySet
      <4>1. out \in Seq(ItemSet)
        BY Zenon DEF RunnerTypes, BodyTypes
      <4> QED BY <4>1, HasMedia
    <3>2. gone' = gone \cup Bodies(out)
      BY <2>1, Zenon DEF SendLost, Release, GiveAway
    <3> QED BY <1>3, <3>1, <3>2, Zenon
  <2>2. CASE Ended \/ Stopped \/ Closed
    BY <1>3, <2>2, Zenon DEF Ended, Stopped, Closed
  <2> QED BY <2>1, <2>2
<1>5. orphans' \subseteq BodySet /\ DOMAIN started' \subseteq Int /\ \A n \in DOMAIN started' : started'[n] \in BodySet
  <2>1. CASE UNCHANGED <<started, orphans>>
    BY <1>3, <2>1, Zenon
  <2>2. CASE Closed
    <3>1. Fetching \subseteq BodySet
      BY <1>3 DEF Fetching
    <3>2. DOMAIN <<>> = {}
      OBVIOUS
    <3>3. started' = <<>> /\ orphans' = orphans \cup Fetching
      BY <2>2, Zenon DEF Closed
    <3>4. DOMAIN started' = {}
      BY <3>2, <3>3, Zenon
    <3>5. orphans' \subseteq BodySet
      BY <1>3, <3>1, <3>3, Zenon
    <3> QED BY <3>4, <3>5
  <2>3. CASE Where = "segment" /\ started' = Without(StartAll(started, pl, {seg}), seg)
             /\ orphans' = orphans \cup {StartAll(started, pl, {seg})[seg]}
    <3>1. PICK m : m = StartAll(started, pl, {seg})
      OBVIOUS
    <3>2. {seg} \subseteq Int
      BY DEF RunnerTypes, SessionTypes
    <3>3. FromStart({seg}, m)
      BY <3>1, <3>2, StartTypes, Zenon
    <3>4. started' = Without(m, seg) /\ orphans' = orphans \cup {m[seg]}
      BY <2>3, <3>1, Zenon
    <3>5. DOMAIN started' = DOMAIN m \ {seg} /\ \A n \in DOMAIN started' : started'[n] = m[n]
      BY <3>4, WithoutIs
    <3> QED BY <1>3, <3>3, <3>4, <3>5 DEF FromStart
  <2>4. CASE SendLost \/ Ended
    BY <2>1, <2>4, Zenon DEF SendLost, Ended
  <2>5. CASE Stopped
    BY <2>1, <2>3, <2>5, Zenon DEF Stopped
  <2> QED BY <2>2, <2>4, <2>5
<1>6. BodyTypes'
  <2>1. <<>> \in Seq(ItemSet)
    OBVIOUS
  <2> QED BY <1>1, <1>4, <1>5, <2>1, Zenon DEF RunnerTypes, BodyTypes
<1>7. Places'
  BY <1>1 DEF RunnerTypes, Places
<1>8. InWindow'
  BY <1>1 DEF InWindow, Where
<1> QED BY <1>2, <1>6, <1>7, <1>8 DEF RunnerTypes

LEMMA TypesSkipped == ASSUME RunnerTypes, Skipped PROVE RunnerTypes'
<1>1. /\ UNCHANGED <<origin, out, last, pl, nextSeq, prevBase, curMap, mapSent, nextPf, settle, started, orphans, gen,
                     gone>>
      /\ pc = "segment" /\ pc' = "segment" /\ seg' = seg + 1 /\ seg < nextSeq /\ out = <<>>
  BY DEF Skipped
<1>2. SessionTypes' /\ InWindow'
  BY <1>1 DEF RunnerTypes, SessionTypes, InWindow, Where, End
<1>3. BodyTypes'
  BY <1>1, Zenon DEF RunnerTypes, BodyTypes
<1>4. Places'
  BY <1>1 DEF RunnerTypes, Places
<1> QED BY <1>2, <1>3, <1>4 DEF RunnerTypes

\* Everything that can happen in one step.
LEMMA Steps ==
  ASSUME RunnerTypes, [Next]_vars
  PROVE  \/ Origin \/ Consume \/ Cancel \/ Drain \/ UNCHANGED vars \/ Asked \/ SettleSent \/ MapFetched
         \/ Sent \/ SendLost \/ Ended \/ Stopped \/ Closed \/ Skipped
         \/ (\E S : Adjusted(S)) \/ (\E S, b : Waited(S, b))
BY AskedSteps, AdjustSteps, WaitSteps, SettleSteps, MapSteps, SendSteps, LostSteps, EndSteps, StopSteps,
   CloseSteps, SkipSteps DEF Next, Runner

LEMMA TypesStep == RunnerTypes /\ [Next]_vars => RunnerTypes'
BY Steps, TypesOrigin, TypesOutside, TypesAsked, TypesAdjusted, TypesWaited, TypesSettled, TypesMapFetched,
   TypesSent, TypesOver, TypesSkipped
(***************************************************************************)
(* The init segment comes before its fragments.                            *)
(***************************************************************************)
\* What the steps outside the runner leave alone.
Outside ==
    /\ UNCHANGED <<pc, back, out, last, pl, seg, nextSeq, prevBase, curMap, mapSent, nextPf, settle, started, gen,
                   stale, unheld>>
    /\ Where' = Where

LEMMA OutsideSteps ==
  ASSUME Origin \/ Consume \/ Cancel \/ Drain \/ UNCHANGED vars
  PROVE  Outside
<1>1. UNCHANGED <<pc, back, out, last, pl, seg, nextSeq, prevBase, curMap, mapSent, nextPf, settle, started, gen,
                  stale, unheld>>
  BY DEF Origin, Consume, Cancel, Drain, vars, channel, window, fetches, pool
<1> QED BY <1>1, Zenon DEF Outside, Where

\* What the prefetcher has for the numbers of the window.
LEMMA MatchingKept ==
  ASSUME Matching, UNCHANGED <<pl, started, gen, stale>>, Where' = "segment" => Where = "segment"
  PROVE  Matching'
BY DEF Matching, End

LEMMA MatchingStep == ASSUME RunnerTypes, Matching, [Next]_vars PROVE Matching'
<1>1. CASE Outside
  BY <1>1, MatchingKept, Zenon DEF Outside
<1>2. CASE Asked \/ SendLost \/ Ended \/ Stopped \/ Closed
  <2>1. pc' \in {"idle", "retry", "round", "window", "ending", "closing", "closed"}
    BY <1>2 DEF Asked, SendLost, Ended, Stopped, Closed
  <2>2. Where' # "segment"
    BY <2>1 DEF Where
  <2> QED BY <2>2 DEF Matching
<1>3. CASE SettleSent
  <2>1. Where' = "segment" => Where = "segment"
    BY <1>3 DEF SettleSent, Where
  <2> QED BY <1>3, <2>1, MatchingKept, Zenon DEF SettleSent
<1>4. CASE MapFetched
  <2>1. Where = "segment"
    BY <1>4 DEF MapFetched, Where
  <2> QED BY <1>4, <2>1, MatchingKept, Zenon DEF MapFetched
<1>5. CASE Sent
  BY <1>5, MatchingKept, Zenon DEF Sent
<1>6. CASE Skipped
  <2>1. Where = "segment"
    BY <1>6 DEF Skipped, Where
  <2> QED BY <1>6, <2>1, MatchingKept, Zenon DEF Skipped
<1>7. ASSUME NEW S, Adjusted(S) PROVE Matching'
  <2>1. S \subseteq Int
    <3>1. S \subseteq nextSeq' .. End(pl) /\ nextSeq' \in Int
      BY <1>7, Zenon DEF Adjusted
    <3> QED BY <3>1 DEF RunnerTypes, SessionTypes, End
  <2>2. started' = StartAll(started, pl, S) /\ UNCHANGED <<pl, gen>>
    BY <1>7, Zenon DEF Adjusted
  <2>3. FromStart(S, started')
    BY <2>1, <2>2, StartTypes, Zenon
  <2>4. ~stale' => \A n \in DOMAIN started : n \in pl.base .. End(pl) => started[n] = Body(pl, n, gen)
    BY <1>7, Zenon DEF Adjusted
  <2>5. ~stale' => \A n \in DOMAIN started' : n \in pl.base .. End(pl) => started'[n] = Body(pl, n, gen)
    BY <2>3, <2>4, Zenon DEF FromStart
  <2> QED BY <2>2, <2>5, Zenon DEF Matching
<1>8. ASSUME NEW S, NEW b, Waited(S, b) PROVE Matching'
  <2>1. Waits(S, b)
    BY <1>8, Zenon DEF Waited
  <2>2. \A n \in DOMAIN started' : \/ n \in DOMAIN started /\ started'[n] = started[n]
                                   \/ started'[n] = Body(pl, n, gen)
    BY <2>1, WaitIs
  <2>3. UNCHANGED <<pl, gen, stale>> /\ Where = "segment"
    BY <2>1, Zenon DEF Waits
  <2> QED BY <2>2, <2>3, Zenon DEF Matching
<1> QED BY <1>1, <1>2, <1>3, <1>4, <1>5, <1>6, <1>7, <1>8, Steps, OutsideSteps, Zenon

\* At most the first item that is being sent is an init segment.
LEMMA FirstKept ==
  ASSUME InitOnlyFirst, out' = out
  PROVE  InitOnlyFirst'
BY Zenon DEF InitOnlyFirst

LEMMA FirstShort ==
  ASSUME Len(out') \in {0, 1}
  PROVE  InitOnlyFirst'
BY DEF InitOnlyFirst

LEMMA NothingIs == Len(<<>>) = 0
OBVIOUS

LEMMA FirstStep == ASSUME RunnerTypes, InitOnlyFirst, [Next]_vars PROVE InitOnlyFirst'
<1>1. CASE out' = out
  BY <1>1, FirstKept
<1>2. CASE out' = <<>>
  BY <1>2, FirstShort, NothingIs, Zenon
<1>3. CASE SettleSent /\ settle.active
  <2>1. PICK s, q : s = settle /\ q = Settled(s)
    OBVIOUS
  <2>2. s \in SettleType
    BY <2>1, Zenon DEF RunnerTypes, BodyTypes, SettleType
  <2>3. /\ q \in Seq(ItemSet) /\ Len(q) = Len(s.buf) + 1
        /\ \A i \in 2..Len(q) : i - 1 \in 1..Len(s.buf) /\ q[i] = Media(s.buf[i - 1])
    BY <2>1, <2>2, SettledIs DEF SettleType
  <2>4. s.buf \in Seq(BodySet)
    BY <2>2, SettleFields
  <2>5. \A i \in 1..Len(s.buf) : s.buf[i] \in BodySet
    BY <2>4
  <2>6. \A i \in 2..Len(q) : q[i].kind = "media"
    BY <2>3, <2>5, MediaIs
  <2>7. Len(q) \in Nat
    BY <2>3, EmptyIs
  <2>8. \A i \in 1..Len(q) : i > 1 => q[i].kind = "media"
    BY <2>6, <2>7
  <2>9. out' = q
    BY <1>3, <2>1, Zenon DEF SettleSent
  <2> QED BY <2>8, <2>9, Zenon DEF InitOnlyFirst
<1>4. CASE MapFetched /\ out' # out
  <2>1. PICK i : i = InitItem(InitBytes(curMap))
    OBVIOUS
  <2>2. out' = <<>> \/ out' = <<i>>
    BY <1>4, <2>1, Zenon DEF MapFetched, Accepted
  <2>3. Len(<<i>>) = 1
    OBVIOUS
  <2> QED BY <2>2, <2>3, NothingIs, FirstShort, Zenon
<1>5. CASE Sent
  <2>1. out' = Tail(out) /\ Queue(out)
    BY <1>5, SentQueue
  <2>2. \A i \in 1..Len(Tail(out)) : Tail(out)[i] = out[i + 1] /\ i + 1 \in 1..Len(out) /\ i + 1 > 1
    <3>1. \A i \in 1..Len(Tail(out)) : Tail(out)[i] = out[i + 1] /\ i + 1 \in 1..Len(out)
      BY <2>1, Zenon DEF Queue
    <3>2. Len(Tail(out)) = Len(out) - 1 /\ Len(out) \in Nat \ {0}
      BY <2>1, Zenon DEF Queue
    <3> QED BY <3>1, <3>2
  <2>3. \A i \in 1..Len(Tail(out)) : Tail(out)[i].kind = "media"
    BY <2>2, Zenon DEF InitOnlyFirst
  <2> QED BY <2>1, <2>3, Zenon DEF InitOnlyFirst
<1>6. ASSUME NEW S, NEW b, Waited(S, b), out' # out PROVE InitOnlyFirst'
  <2>1. PICK i : i = Media(b)
    OBVIOUS
  <2>2. out' = <<i>>
    BY <1>6, <2>1, Zenon DEF Waited
  <2>3. Len(<<i>>) = 1
    OBVIOUS
  <2> QED BY <2>2, <2>3, FirstShort
<1>7. ASSUME NEW S, Adjusted(S) PROVE out' = out
  BY <1>7, Zenon DEF Adjusted
<1>8. CASE Outside \/ Asked \/ SendLost \/ Ended \/ Stopped \/ Closed \/ Skipped \/ (SettleSent /\ ~settle.active)
  BY <1>1, <1>2, <1>8, Zenon DEF Outside, Asked, SendLost, Ended, Stopped, Closed, Skipped, SettleSent
<1> QED BY <1>1, <1>3, <1>4, <1>5, <1>6, <1>7, <1>8, Steps, OutsideSteps, Zenon
\* Sending an item does not change which init segment comes last.
LEMMA AfterSent == ASSUME RunnerTypes, InitOnlyFirst, Sent PROVE InitAfter' = InitAfter
<1>1. out' = Tail(out) /\ out # <<>> /\ Queue(out)
  BY SentQueue, Zenon DEF Sent
<1>2. out' # <<>> => Head(out').kind = "media"
  <2>1. ASSUME out' # <<>> PROVE Head(out').kind = "media"
    <3>1. PICK t : t = Tail(out)
      OBVIOUS
    <3>2. t \in Seq(ItemSet) /\ t # <<>> /\ Len(t) = Len(out) - 1 /\ Len(out) \in Nat \ {0}
          /\ \A i \in 1..Len(t) : t[i] = out[i + 1]
      BY <1>1, <2>1, <3>1, Zenon DEF Queue
    <3>3. Head(t) = t[1] /\ Len(t) \in Nat \ {0}
      BY <3>2, TailIs
    <3>4. t[1] = out[2] /\ 2 \in 1..Len(out) /\ 2 > 1
      BY <3>2, <3>3
    <3>5. Head(t).kind = "media"
      BY <3>3, <3>4, Zenon DEF InitOnlyFirst
    <3> QED BY <1>1, <3>1, <3>5, Zenon
  <2> QED BY <2>1
<1>3. InitAfter' = last'.init
  <2>1. CASE out' = <<>>
    BY <2>1, Zenon DEF InitAfter
  <2>2. CASE out' # <<>>
    <3>1. Head(out').kind # "init"
      BY <1>2, <2>2
    <3> QED BY <3>1, Zenon DEF InitAfter
  <2> QED BY <2>1, <2>2
<1>4. last \in [c : Int, init : Cfgs] /\ Head(out).body.c \in Int /\ Head(out).body.cfg \in Cfgs
  BY <1>1, Zenon DEF RunnerTypes, BodyTypes, Queue
<1>5. CASE Head(out).kind = "init" /\ last' = [last EXCEPT !.init = Head(out).body.cfg]
  <2>1. last'.init = Head(out).body.cfg
    BY <1>4, <1>5, LastIs, Zenon
  <2>2. InitAfter = Head(out).body.cfg
    BY <1>1, <1>5, Zenon DEF InitAfter
  <2> QED BY <1>3, <2>1, <2>2, Zenon
<1>6. CASE Head(out).kind # "init" /\ last' = [last EXCEPT !.c = Head(out).body.c]
  <2>1. last'.init = last.init
    BY <1>4, <1>6, LastIs, Zenon
  <2>2. InitAfter = last.init
    BY <1>6, Zenon DEF InitAfter
  <2> QED BY <1>3, <2>1, <2>2, Zenon
<1> QED BY <1>5, <1>6, Zenon DEF Sent

LEMMA AfterNothing == /\ out = <<>> => InitAfter = last.init
                      /\ out' = <<>> => InitAfter' = last'.init
BY Zenon DEF InitAfter

LEMMA AnnouncedKept ==
  ASSUME Announced, UNCHANGED <<settle, curMap, mapSent>>, InitAfter' = InitAfter, ~Over' => ~Over,
         ~unheld' => ~unheld
  PROVE  Announced'
BY Zenon DEF Announced

LEMMA AnnouncedStep == ASSUME RunnerTypes, InitOnlyFirst, Announced, [Next]_vars PROVE Announced'
<1>1. CASE Outside \/ Skipped
  <2>1. UNCHANGED <<settle, curMap, mapSent, out, last, unheld>> /\ Where' = Where
    <3>1. CASE Outside
      BY <3>1, Zenon DEF Outside
    <3>2. CASE Skipped
      <4>1. pc = "segment" /\ pc' = "segment"
        BY <3>2, Zenon DEF Skipped
      <4>2. Where' = Where
        BY <4>1 DEF Where
      <4> QED BY <3>2, <4>2, Zenon DEF Skipped
    <3> QED BY <1>1, <3>1, <3>2
  <2>2. InitAfter' = InitAfter /\ (Over' <=> Over)
    BY <2>1, Zenon DEF InitAfter, Over
  <2> QED BY <2>1, <2>2, AnnouncedKept, Zenon
<1>2. CASE Sent
  <2>1. UNCHANGED <<settle, curMap, mapSent, unheld>> /\ Where' = Where
    BY <1>2, Zenon DEF Sent
  <2>2. InitAfter' = InitAfter /\ (Over' <=> Over)
    BY <1>2, <2>1, AfterSent, Zenon DEF Over
  <2> QED BY <2>1, <2>2, AnnouncedKept, Zenon
<1>3. CASE Ended
  <2>1. UNCHANGED <<settle, curMap, mapSent, unheld, out, last>> /\ Where \in {"segment", "done"}
    BY <1>3, Zenon DEF Ended
  <2>2. InitAfter' = InitAfter
    BY <2>1, Zenon DEF InitAfter
  <2>3. ~Over
    BY <2>1 DEF Over
  <2> QED BY <2>1, <2>2, <2>3, AnnouncedKept, Zenon
<1>4. CASE SendLost \/ Stopped \/ Closed
  <2>1. pc' \in {"ending", "closing", "closed"}
    BY <1>4 DEF SendLost, Stopped, Closed
  <2>2. Over'
    BY <2>1 DEF Over, Where
  <2> QED BY <2>2, Zenon DEF Announced
<1>5. CASE Asked
  <2>1. /\ out = <<>> /\ pc \in {"idle", "retry", "round"} /\ UNCHANGED <<out, last>>
        /\ \/ /\ RefreshURL
              /\ \/ unheld' = (unheld \/ settle.active) /\ UNCHANGED <<curMap, mapSent>>
                 \/ unheld' = unheld /\ curMap' = "" /\ mapSent' = FALSE
           \/ UNCHANGED <<fetches, settle, pool, unheld, curMap, mapSent>>
    BY <1>5, Zenon DEF Asked
  <2>2. InitAfter' = InitAfter
    BY <2>1, Zenon DEF InitAfter
  <2>3. ~Over
    BY <2>1 DEF Over, Where
  <2>4. CASE UNCHANGED <<settle, unheld, curMap, mapSent>>
    BY <2>2, <2>3, <2>4, AnnouncedKept, Zenon
  <2>5. CASE RefreshURL
    <3>1. settle'.confirmed = "" /\ ~settle'.active
      BY <2>5, RefreshHold
    <3>2. CASE unheld' = (unheld \/ settle.active) /\ UNCHANGED <<curMap, mapSent>>
      BY <2>2, <2>3, <3>1, <3>2, Zenon DEF Announced
    <3>3. CASE unheld' = unheld /\ curMap' = "" /\ mapSent' = FALSE
      BY <3>1, <3>3, Zenon DEF Announced
    <3> QED BY <2>1, <2>4, <2>5, <3>2, <3>3, Zenon
  <2> QED BY <2>1, <2>4, <2>5, Zenon
<1>6. ASSUME NEW S, Adjusted(S) PROVE Announced'
  <2>1. /\ pc = "window" /\ UNCHANGED <<out, last, unheld>> /\ mapSent' \in {mapSent, FALSE}
        /\ (curMap' # curMap => mapSent' = FALSE)
        /\ \/ settle' = SettleCancel(settle) /\ curMap' = ""
           \/ settle' = settle /\ (curMap' = "" /\ settle.active => curMap = "")
    BY <1>6, Zenon DEF Adjusted
  <2>2. InitAfter' = InitAfter
    BY <2>1, Zenon DEF InitAfter
  <2>3. ~Over
    BY <2>1 DEF Over, Where
  <2>4. CASE settle' = SettleCancel(settle) /\ curMap' = ""
    <3>1. settle \in SettleType
      BY Zenon DEF RunnerTypes, BodyTypes, SettleType
    <3>2. ~settle'.active /\ settle'.confirmed = settle.confirmed
      BY <2>4, <3>1, CancelIs, Zenon
    <3> QED BY <2>1, <2>2, <2>3, <2>4, <3>2, Zenon DEF Announced
  <2>5. CASE settle' = settle /\ (curMap' = "" /\ settle.active => curMap = "")
    <3>1. mapSent' => mapSent /\ curMap' = curMap
      BY <2>1, Zenon
    <3> QED BY <2>1, <2>2, <2>3, <2>5, <3>1, Zenon DEF Announced
  <2> QED BY <2>1, <2>4, <2>5, Zenon
<1>7. ASSUME NEW S, NEW b, Waited(S, b) PROVE Announced'
  <2>1. Waits(S, b) /\ b \in BodySet
    BY <1>7, WaitIs, Zenon DEF Waited
  <2>2. UNCHANGED <<last, curMap, mapSent, unheld>> /\ out = <<>> /\ Where = "segment"
    BY <2>1, Zenon DEF Waits
  <2>3. ~Over
    BY <2>2 DEF Over
  <2>4. settle \in SettleType
    BY Zenon DEF RunnerTypes, BodyTypes, SettleType
  <2>5. settle'.active = settle.active /\ settle'.confirmed = settle.confirmed /\ settle'.pending = settle.pending
    <3>1. CASE settle' = settle
      BY <3>1
    <3>2. CASE settle' = [settle EXCEPT !.buf = Append(settle.buf, b)]
      BY <2>1, <2>4, <3>2, GrownIs, Zenon
    <3> QED BY <1>7, <3>1, <3>2, Zenon DEF Waited
  <2>6. InitAfter' = InitAfter
    <3>1. CASE out' = out
      BY <2>2, <3>1, Zenon DEF InitAfter
    <3>2. CASE out' = <<Media(b)>>
      <4>1. Media(b) \in ItemSet /\ Media(b).kind = "media"
        BY <2>1, MediaIs
      <4>2. Head(<<Media(b)>>) = Media(b)
        BY <4>1, OneIs
      <4>3. Head(out').kind # "init"
        BY <3>2, <4>1, <4>2
      <4> QED BY <2>2, <4>3, Zenon DEF InitAfter
    <3> QED BY <1>7, <3>1, <3>2, Zenon DEF Waited
  <2> QED BY <2>2, <2>3, <2>5, <2>6, Zenon DEF Announced
<1>8. CASE SettleSent
  <2>1. UNCHANGED <<last, curMap, mapSent, unheld>> /\ out = <<>> /\ pc \in {"idle", "segment", "ending"}
        /\ Where' = IF pc = "ending" THEN "closing" ELSE pc
    BY <1>8, Zenon DEF SettleSent
  <2>2. pc # "send"
    BY <2>1
  <2>3. Over' <=> Over
    BY <2>1, <2>2 DEF Over, Where
  <2>4. CASE settle.active /\ settle' = [NoHold EXCEPT !.confirmed = settle.pending] /\ out' = Settled(settle)
    <3>1. settle \in SettleType
      BY Zenon DEF RunnerTypes, BodyTypes, SettleType
    <3>2. settle.pending \in Cfgs
      BY <3>1, SettleFields
    <3>3. ~settle'.active /\ settle'.confirmed = settle.pending
      BY <2>4, <3>2, NoHoldIs, Zenon
    <3>4. Settled(settle) # <<>> /\ Head(Settled(settle)) = InitItem(settle.pending)
      BY <3>1, SettledIs DEF SettleType
    <3>5. InitItem(settle.pending).kind = "init" /\ InitItem(settle.pending).body.cfg = settle.pending
      BY <3>2, InitItemIs
    <3>6. InitAfter' = settle.pending
      BY <2>4, <3>4, <3>5, Zenon DEF InitAfter
    <3> QED BY <2>1, <2>3, <2>4, <3>3, <3>6, Zenon DEF Announced
  <2>5. CASE ~settle.active /\ settle' = settle /\ out' = <<>>
    <3>1. InitAfter' = InitAfter
      BY <2>1, <2>5, AfterNothing, Zenon
    <3> QED BY <2>1, <2>3, <2>5, <3>1, AnnouncedKept, Zenon
  <2> QED BY <1>8, <2>4, <2>5, Zenon DEF SettleSent
<1>9. CASE MapFetched
  <2>1. UNCHANGED <<last, curMap, unheld>> /\ pc = "segment" /\ out = <<>> /\ NeedMap
    BY <1>9, Zenon DEF MapFetched
  <2>2. ~Over
    BY <2>1 DEF Over, Where
  <2>3. InitAfter = last.init
    BY <2>1, AfterNothing, Zenon
  <2>4. curMap # "" /\ curMap \in Maps
    BY <2>1, Zenon DEF NeedMap, RunnerTypes, SessionTypes
  <2>5. PICK m : m = InitBytes(curMap)
    OBVIOUS
  <2>6. m \in Cfgs /\ m # ""
    BY <2>4, <2>5, CfgIs
  <2>7. ASSUME NEW drop, Accepted(settle, m, settle', out', drop) PROVE Announced'
    <3>1. CASE out' = <<>> /\ settle'.confirmed = settle.confirmed
      <4>1. InitAfter' = InitAfter
        BY <2>1, <2>3, <3>1, AfterNothing, Zenon
      <4>2. (~settle'.active => settle'.confirmed = m) /\ (settle'.active => settle'.pending = m)
        BY <2>7, Zenon DEF Accepted
      <4> QED BY <2>1, <2>2, <2>4, <2>5, <2>6, <3>1, <4>1, <4>2, Zenon DEF Announced
    <3>2. CASE out' = <<InitItem(m)>> /\ settle'.confirmed = m /\ ~settle'.active
      <4>1. InitItem(m) \in ItemSet /\ InitItem(m).kind = "init" /\ InitItem(m).body.cfg = m
        BY <2>6, InitItemIs
      <4>2. <<InitItem(m)>> # <<>> /\ Head(<<InitItem(m)>>) = InitItem(m)
        BY <4>1, OneIs
      <4>3. InitAfter' = m
        BY <3>2, <4>1, <4>2, Zenon DEF InitAfter
      <4> QED BY <2>1, <2>2, <2>4, <2>5, <3>2, <4>3, Zenon DEF Announced
    <3> QED BY <2>7, <3>1, <3>2, Zenon DEF Accepted
  <2>8. CASE UNCHANGED <<mapSent, settle, out>>
    <3>1. InitAfter' = InitAfter
      BY <2>1, <2>8, Zenon DEF InitAfter
    <3> QED BY <2>1, <2>2, <2>8, <3>1, AnnouncedKept, Zenon
  <2> QED BY <1>9, <2>5, <2>7, <2>8, Zenon DEF MapFetched
<1> QED BY <1>1, <1>2, <1>3, <1>4, <1>5, <1>6, <1>7, <1>8, <1>9, Steps, OutsideSteps, Zenon
LEMMA NothingBehaves == \A m : HoldBehaves(<<>>, m) /\ OutBehaves(<<>>, m)
<1>1. 1..Len(<<>>) = {}
  OBVIOUS
<1> QED BY <1>1, Zenon DEF HoldBehaves, OutBehaves

\* A body of this window needs the init segment of its playlist.
LEMMA WaitMatches ==
  ASSUME RunnerTypes, Matching, NEW S, NEW b, Waits(S, b), ~stale
  PROVE  b = Body(pl, seg, gen) /\ b.cfg = InitBytes(curMap) /\ b.c = seg + pl.off
<1>1. b = Body(pl, seg, gen)
  <2>1. Where = "segment" /\ seg \in pl.base .. End(pl)
    <3>1. Where = "segment" /\ pl.base <= seg /\ seg <= End(pl)
      BY Zenon DEF Waits
    <3> QED BY <3>1 DEF RunnerTypes, SessionTypes, End
  <2>2. \/ seg \in DOMAIN started /\ b = started[seg]
        \/ seg \notin DOMAIN started /\ b = Body(pl, seg, gen) /\ b.c = seg + pl.off /\ b.gen = gen
    BY WaitBody, Zenon
  <2>3. seg \in DOMAIN started => started[seg] = Body(pl, seg, gen)
    BY <2>1, Zenon DEF Matching
  <2> QED BY <2>2, <2>3
<1>2. pl.map = curMap
  BY Zenon DEF Waits, RunnerTypes, InWindow
<1>3. pl \in [base : Int, len : Nat, off : Int, map : Maps] /\ gen \in Nat /\ seg \in Int
  BY Zenon DEF RunnerTypes, SessionTypes, BodyTypes
<1>4. Body(pl, seg, gen).cfg = InitBytes(pl.map) /\ Body(pl, seg, gen).c = seg + pl.off
  BY <1>3, BodyIs
<1> QED BY <1>1, <1>2, <1>4, Zenon

LEMMA BehavedKept ==
  ASSUME Behaved, UNCHANGED <<settle, out>>, InitAfter' = InitAfter, ~stale' => ~stale, ~unheld' => ~unheld
  PROVE  Behaved'
BY Zenon DEF Behaved

LEMMA BehavedStep ==
  ASSUME RunnerTypes, Matching, InitOnlyFirst, Announced, Behaved, [Next]_vars
  PROVE  Behaved'
<1>1. CASE Outside \/ Skipped \/ Ended \/ Stopped \/ Closed
  <2>1. UNCHANGED <<settle, out, last, stale, unheld>>
    BY <1>1, Zenon DEF Outside, Skipped, Ended, Stopped, Closed
  <2>2. InitAfter' = InitAfter
    BY <2>1, Zenon DEF InitAfter
  <2> QED BY <2>1, <2>2, BehavedKept, Zenon
<1>2. CASE SendLost
  BY <1>2, NothingBehaves, Zenon DEF SendLost, Behaved
<1>3. CASE Asked
  <2>1. /\ out = <<>> /\ UNCHANGED <<out, last, stale>> /\ (~unheld' => ~unheld)
        /\ RefreshURL \/ UNCHANGED settle
    <3>1. /\ out = <<>> /\ UNCHANGED <<out, last, stale>>
          /\ \/ RefreshURL /\ (unheld' = (unheld \/ settle.active) \/ unheld' = unheld)
             \/ UNCHANGED <<settle, unheld>>
      BY <1>3, Zenon DEF Asked
    <3>2. ~unheld' => ~unheld
      BY <3>1, Zenon
    <3> QED BY <3>1, <3>2, Zenon
  <2>2. InitAfter' = InitAfter
    BY <2>1, Zenon DEF InitAfter
  <2>3. CASE RefreshURL
    <3>1. settle'.buf = <<>>
      BY <2>3, RefreshHold
    <3> QED BY <2>1, <3>1, NothingBehaves, Zenon DEF Behaved
  <2> QED BY <2>1, <2>2, <2>3, BehavedKept, Zenon
<1>4. ASSUME NEW S, Adjusted(S) PROVE Behaved'
  <2>1. /\ UNCHANGED <<out, last, unheld>> /\ (~stale' => ~stale)
        /\ settle' = SettleCancel(settle) \/ settle' = settle
    BY <1>4, Zenon DEF Adjusted
  <2>2. InitAfter' = InitAfter
    BY <2>1, Zenon DEF InitAfter
  <2>3. CASE settle' = SettleCancel(settle)
    <3>1. settle'.buf = <<>>
      <4>1. settle \in SettleType
        BY Zenon DEF RunnerTypes, BodyTypes, SettleType
      <4> QED BY <2>3, <4>1, CancelIs, Zenon
    <3> QED BY <2>1, <2>2, <3>1, NothingBehaves, Zenon DEF Behaved
  <2> QED BY <2>1, <2>2, <2>3, BehavedKept, Zenon
<1>5. ASSUME NEW S, NEW b, Waited(S, b) PROVE Behaved'
  <2>1. Waits(S, b) /\ b \in BodySet
    BY <1>5, WaitIs, Zenon DEF Waited
  <2>2. UNCHANGED <<last, curMap, stale, unheld>> /\ out = <<>> /\ Where = "segment" /\ ~NeedMap
    BY <2>1, Zenon DEF Waits
  <2>3. ~Over
    BY <2>2 DEF Over
  <2>4. settle \in SettleType /\ curMap \in Maps
    BY Zenon DEF RunnerTypes, BodyTypes, SettleType, SessionTypes
  <2>5. InitAfter = last.init
    BY <2>2, AfterNothing, Zenon
  <2>6. CASE stale \/ unheld
    BY <2>2, <2>6, Zenon DEF Behaved
  <2>7. CASE ~stale /\ ~unheld
    <3>1. b.cfg = InitBytes(curMap)
      BY <2>1, <2>7, WaitMatches
    <3>2. InitBytes("") = ""
      BY DEF InitBytes
    <3>3. mapSent \/ curMap = ""
      BY <2>2, Zenon DEF NeedMap
    <3>4. CASE settle.active /\ settle' = [settle EXCEPT !.buf = Append(settle.buf, b)] /\ UNCHANGED out
      <4>1. settle'.buf = Append(settle.buf, b) /\ settle'.pending = settle.pending
        BY <2>1, <2>4, <3>4, GrownIs, Zenon
      <4>2. b.cfg \in {"", settle.pending}
        BY <2>3, <2>7, <3>1, <3>3, <3>4, Zenon DEF Announced
      <4>3. HoldBehaves(settle'.buf, settle.pending)
        <5>1. PICK q, p : q = settle.buf /\ p = settle.pending
          OBVIOUS
        <5>2. q \in Seq(BodySet)
          BY <2>4, <5>1, SettleFields
        <5>3. PICK z : z = Append(q, b)
          OBVIOUS
        <5>4. /\ Len(q) \in Nat /\ Len(z) = Len(q) + 1 /\ z[Len(q) + 1] = b
              /\ \A i \in 1..Len(q) : z[i] = q[i]
          BY <2>1, <5>2, <5>3, AppendIs
        <5>5. \A i \in 1..Len(q) : q[i].cfg \in {"", p}
          BY <2>7, <5>1, Zenon DEF Behaved, HoldBehaves
        <5>6. \A i \in 1..Len(z) : i \in 1..Len(q) \/ i = Len(q) + 1
          BY <5>4
        <5>7. \A i \in 1..Len(z) : z[i].cfg \in {"", p}
          BY <4>2, <5>1, <5>4, <5>5, <5>6, Zenon
        <5> QED BY <4>1, <5>1, <5>3, <5>7, Zenon DEF HoldBehaves
      <4> QED BY <2>2, <3>4, <4>1, <4>3, NothingBehaves, Zenon DEF Behaved
    <3>5. CASE ~settle.active /\ settle' = settle /\ out' = <<Media(b)>>
      <4>1. Media(b) \in ItemSet /\ Media(b).kind = "media" /\ Media(b).body = b
        BY <2>1, MediaIs
      <4>2. Len(<<Media(b)>>) = 1 /\ <<Media(b)>>[1] = Media(b) /\ Head(<<Media(b)>>) = Media(b)
        BY <4>1, OneIs
      <4>3. b.cfg \in {"", InitAfter}
        BY <2>3, <2>7, <3>1, <3>2, <3>3, <3>5, Zenon DEF Announced
      <4>4. InitAfter' = last.init
        <5>1. Head(out').kind # "init"
          BY <3>5, <4>1, <4>2
        <5> QED BY <2>2, <5>1, Zenon DEF InitAfter
      <4>5. OutBehaves(out', InitAfter')
        <5>1. \A i \in 1..Len(out') : i = 1
          BY <3>5, <4>2
        <5>2. out'[1].body = b
          BY <3>5, <4>1, <4>2, Zenon
        <5>3. b.cfg \in {"", InitAfter'}
          BY <2>5, <4>3, <4>4, Zenon
        <5> QED BY <5>1, <5>2, <5>3, Zenon DEF OutBehaves
      <4> QED BY <2>7, <3>5, <4>5, Zenon DEF Behaved
    <3>6. CASE UNCHANGED <<settle, out>>
      <4>1. InitAfter' = InitAfter
        BY <2>2, <3>6, Zenon DEF InitAfter
      <4> QED BY <2>2, <3>6, <4>1, BehavedKept, Zenon
    <3> QED BY <1>5, <3>4, <3>5, <3>6, Zenon DEF Waited
  <2> QED BY <2>6, <2>7
<1>6. CASE SettleSent
  <2>1. UNCHANGED <<last, stale, unheld>> /\ out = <<>>
    BY <1>6, Zenon DEF SettleSent
  <2>2. settle \in SettleType
    BY Zenon DEF RunnerTypes, BodyTypes, SettleType
  <2>3. CASE settle.active /\ settle' = [NoHold EXCEPT !.confirmed = settle.pending] /\ out' = Settled(settle)
    <3>1. settle.pending \in Cfgs
      BY <2>2, SettleFields
    <3>2. settle'.buf = <<>>
      BY <2>3, <3>1, NoHoldIs, Zenon
    <3>3. PICK s, q, m : s = settle /\ q = Settled(s) /\ m = s.pending
      OBVIOUS
    <3>4. /\ q \in Seq(ItemSet) /\ q # <<>> /\ q[1] = InitItem(m) /\ Head(q) = InitItem(m)
          /\ \A i \in 2..Len(q) : i - 1 \in 1..Len(s.buf) /\ q[i] = Media(s.buf[i - 1])
      BY <2>2, <3>3, SettledIs DEF SettleType
    <3>5. InitItem(m).kind = "init" /\ InitItem(m).body.cfg = m
      BY <3>1, <3>3, InitItemIs
    <3>6. InitAfter' = m
      BY <2>3, <3>3, <3>4, <3>5, Zenon DEF InitAfter
    <3>7. s.buf \in Seq(BodySet)
      BY <2>2, <3>3, SettleFields
    <3>8. \A i \in 1..Len(s.buf) : s.buf[i] \in BodySet
      BY <3>7
    <3>9. \A i \in 2..Len(q) : i - 1 \in 1..Len(s.buf) /\ q[i].body = s.buf[i - 1]
      BY <3>4, <3>8, MediaIs
    <3>10. ~stale /\ ~unheld => \A i \in 1..Len(s.buf) : s.buf[i].cfg \in {"", m}
      BY <3>3, Zenon DEF Behaved, HoldBehaves
    <3>11. \A i \in 1..Len(q) : i = 1 \/ i \in 2..Len(q)
      <4>1. Len(q) \in Nat
        BY <3>4, EmptyIs
      <4> QED BY <4>1
    <3>12. q[1].kind # "media"
      BY <3>4, <3>5
    <3>13. ~stale /\ ~unheld => \A i \in 1..Len(q) : q[i].kind = "media" => q[i].body.cfg \in {"", m}
      BY <3>9, <3>10, <3>11, <3>12, Zenon
    <3>14. ~stale /\ ~unheld => OutBehaves(q, m)
      BY <3>13, Zenon DEF OutBehaves
    <3> QED BY <2>1, <2>3, <3>2, <3>3, <3>6, <3>14, NothingBehaves, Zenon DEF Behaved
  <2>4. CASE ~settle.active /\ settle' = settle /\ out' = <<>>
    <3>1. InitAfter' = InitAfter
      BY <2>1, <2>4, AfterNothing, Zenon
    <3> QED BY <2>1, <2>4, <3>1, BehavedKept, Zenon
  <2> QED BY <1>6, <2>3, <2>4, Zenon DEF SettleSent
<1>7. CASE MapFetched
  <2>1. UNCHANGED <<last, stale, unheld>> /\ out = <<>>
    BY <1>7, Zenon DEF MapFetched
  <2>2. PICK m : m = InitBytes(curMap)
    OBVIOUS
  <2>3. ASSUME NEW drop, Accepted(settle, m, settle', out', drop) PROVE Behaved'
    <3>1. ~stale /\ ~unheld => HoldBehaves(settle'.buf, settle'.pending)
      <4>1. CASE settle'.buf = <<>>
        BY <4>1, NothingBehaves, Zenon
      <4>2. CASE settle'.buf = settle.buf /\ settle.buf # <<>> /\ settle'.pending = settle.pending
        BY <4>2, Zenon DEF Behaved
      <4> QED BY <2>3, <4>1, <4>2, Zenon DEF Accepted
    <3>2. OutBehaves(out', InitAfter')
      <4>1. CASE out' = <<>>
        BY <4>1, NothingBehaves, Zenon
      <4>2. CASE out' = <<InitItem(m)>>
        <5>1. curMap \in Maps
          BY Zenon DEF RunnerTypes, SessionTypes
        <5>2. m \in Cfgs
          BY <2>2, <5>1, CfgIs
        <5>3. InitItem(m) \in ItemSet /\ InitItem(m).kind = "init"
          BY <5>2, InitItemIs
        <5>4. Len(<<InitItem(m)>>) = 1 /\ <<InitItem(m)>>[1] = InitItem(m)
          BY <5>3, OneIs
        <5>5. \A i \in 1..Len(out') : out'[i].kind # "media"
          BY <4>2, <5>3, <5>4
        <5> QED BY <5>5, Zenon DEF OutBehaves
      <4> QED BY <2>3, <4>1, <4>2, Zenon DEF Accepted
    <3> QED BY <2>1, <3>1, <3>2, Zenon DEF Behaved
  <2>4. CASE UNCHANGED <<settle, out>>
    <3>1. InitAfter' = InitAfter
      BY <2>1, <2>4, Zenon DEF InitAfter
    <3> QED BY <2>1, <2>4, <3>1, BehavedKept, Zenon
  <2> QED BY <1>7, <2>2, <2>3, <2>4, Zenon DEF MapFetched
<1>8. CASE Sent
  <2>1. UNCHANGED <<settle, stale, unheld>> /\ out' = Tail(out) /\ Queue(out)
    BY <1>8, SentQueue, Zenon DEF Sent
  <2>2. InitAfter' = InitAfter
    BY <1>8, AfterSent
  <2>3. \A i \in 1..Len(Tail(out)) : Tail(out)[i] = out[i + 1] /\ i + 1 \in 1..Len(out)
    BY <2>1, Zenon DEF Queue
  <2>4. OutBehaves(out, InitAfter) => OutBehaves(Tail(out), InitAfter)
    BY <2>3, Zenon DEF OutBehaves
  <2> QED BY <2>1, <2>2, <2>4, Zenon DEF Behaved
<1> QED BY <1>1, <1>2, <1>3, <1>4, <1>5, <1>6, <1>7, <1>8, Steps, OutsideSteps, Zenon

LEMMA SendingIs ==
  ASSUME RunnerTypes, Sending("media")
  PROVE  /\ out # <<>> /\ Head(out) = out[1] /\ 1 \in 1..Len(out)
         /\ out[1].kind = "media" /\ out[1] \in ItemSet
<1>1. out \in Seq(ItemSet) /\ out # <<>> /\ Head(out).kind = "media"
  BY Zenon DEF RunnerTypes, BodyTypes, Places, Sending
<1>2. PICK q : q = out
  OBVIOUS
<1>3. q \in Seq(ItemSet) /\ q # <<>>
  BY <1>1, <1>2, Zenon
<1>4. Queue(q)
  BY <1>3, QueueIs
<1>5. Len(q) \in Nat \ {0} /\ Head(q) = q[1] /\ q[1] \in ItemSet
  BY <1>4, Zenon DEF Queue
<1>6. 1 \in 1..Len(q)
  BY <1>5
<1> QED BY <1>1, <1>2, <1>5, <1>6, Zenon

LEMMA InitFirstFollows == ASSUME RunnerTypes, Behaved PROVE InitFirst
<1>1. SUFFICES ASSUME ~unheld, Sending("media"), ~stale PROVE Head(out).body.cfg \in {"", last.init}
  BY Zenon DEF InitFirst, HeldUntilInit
<1>2. Head(out) = out[1] /\ 1 \in 1..Len(out) /\ out[1].kind = "media"
  BY <1>1, SendingIs
<1>3. InitAfter = last.init
  <2>1. Head(out).kind # "init"
    BY <1>2
  <2> QED BY <2>1, Zenon DEF InitAfter
<1>4. OutBehaves(out, InitAfter)
  BY <1>1, Zenon DEF Behaved
<1> QED BY <1>2, <1>3, <1>4, Zenon DEF OutBehaves

\* Together they are inductive: which init segment was announced, what is held and
\* what is being sent agree.
Announcing == RunnerTypes /\ Matching /\ InitOnlyFirst /\ Announced /\ Behaved

LEMMA AnnouncingStarts == Init => Announcing
<1>1. SUFFICES ASSUME Init PROVE Announcing
  OBVIOUS
<1>2. RunnerTypes
  BY <1>1, TypesStart
<1>3. /\ pc = "idle" /\ out = <<>> /\ settle = NoHold /\ mapSent = FALSE
  BY <1>1, Zenon DEF Init, InitRunner, InitSession
<1>4. settle.buf = <<>> /\ ~settle.active /\ settle.confirmed = ""
  BY <1>3, NoHoldIs, Zenon
<1>5. Matching
  BY <1>3 DEF Matching, Where
<1>6. InitOnlyFirst
  <2>1. 1..Len(<<>>) = {}
    OBVIOUS
  <2> QED BY <1>3, <2>1, Zenon DEF InitOnlyFirst
<1>7. Announced
  BY <1>3, <1>4, Zenon DEF Announced
<1>8. Behaved
  BY <1>3, <1>4, NothingBehaves, Zenon DEF Behaved
<1> QED BY <1>2, <1>5, <1>6, <1>7, <1>8, Zenon DEF Announcing

\* InitSettle and mapSent: a fragment is put on the channel only behind the init
\* segment that its playlist names, through changes of the init, changes back and
\* forth and new URLs, unless the URL was refreshed during a hold or a prefetch
\* was left over under a number that means another segment now.
THEOREM InitsComeFirst == Spec => []InitFirst
<1>1. Announcing /\ [Next]_vars => Announcing'
  BY TypesStep, MatchingStep, FirstStep, AnnouncedStep, BehavedStep DEF Announcing
<1>2. Announcing => InitFirst
  BY InitFirstFollows DEF Announcing
<1> QED BY AnnouncingStarts, <1>1, <1>2, PTL DEF Spec
(***************************************************************************)
(* Every body has one owner.                                               *)
(***************************************************************************)
LEMMA DistinctKept == ASSUME NEW m, Distinct(m), NEW k PROVE Distinct(Without(m, k))
<1>1. PICK w : w = Without(m, k)
  OBVIOUS
<1>2. DOMAIN w = DOMAIN m \ {k} /\ \A n \in DOMAIN w : w[n] = m[n]
  BY <1>1, WithoutIs
<1>3. Distinct(w)
  BY <1>2, Zenon DEF Distinct
<1> QED BY <1>1, <1>3

LEMMA DistinctNothing == Distinct(<<>>) /\ DistinctMedia(<<>>)
<1>1. DOMAIN <<>> = {} /\ 1..Len(<<>>) = {}
  OBVIOUS
<1> QED BY <1>1, Zenon DEF Distinct, DistinctMedia

LEMMA DistinctOne == \A x : DistinctMedia(<<x>>)
<1>1. ASSUME NEW x PROVE \A i \in 1..Len(<<x>>) : i = 1
  OBVIOUS
<1> QED BY <1>1, Zenon DEF DistinctMedia

\* What is held, sent and fetched when nothing is.
LEMMA NoOwners ==
  /\ settle.buf = <<>> => Held = {}
  /\ settle'.buf = <<>> => Held' = {}
  /\ out = <<>> => InOut = {}
  /\ out' = <<>> => InOut' = {}
  /\ started' = <<>> => Fetching' = {}
<1>1. ToSet(<<>>) = {} /\ Bodies(<<>>) = {}
  BY NoBodies
<1>2. {started'[n] : n \in {}} = {}
  OBVIOUS
<1>3. DOMAIN <<>> = {}
  OBVIOUS
<1>4. started' = <<>> => Fetching' = {}
  BY <1>2, <1>3, Zenon DEF Fetching
<1> QED BY <1>1, <1>4, Zenon DEF Held, InOut

LEMMA OwnedTypes == ASSUME RunnerTypes PROVE Owned \subseteq BodySet
<1>1. settle \in SettleType /\ out \in Seq(ItemSet)
      /\ orphans \subseteq BodySet /\ gone \subseteq BodySet
      /\ \A n \in DOMAIN started : started[n] \in BodySet
  BY Zenon DEF RunnerTypes, BodyTypes, SettleType
<1>2. Held \subseteq BodySet
  BY <1>1, SettleFields, HasBody DEF Held
<1>3. InOut \subseteq BodySet
  BY <1>1, HasMedia DEF InOut
<1>4. Fetching \subseteq BodySet
  BY <1>1 DEF Fetching
<1> QED BY <1>1, <1>2, <1>3, <1>4, Zenon DEF Owned

\* A number whose content was not given and is not being fetched.
Unused(n) ==
    /\ n + pl.off \notin Contents
    /\ \A k \in DOMAIN started : started[k].c # n + pl.off

\* The bodies after Start: each of them has no other owner.
LEMMA StartApart ==
  ASSUME RunnerTypes, Apart, Generations, NEW S, S \subseteq Int, NEW m, m = StartAll(started, pl, S),
         \A n \in S : n \in DOMAIN started \/ Unused(n)
  PROVE  /\ Distinct(m)
         /\ \A n \in DOMAIN m : /\ m[n] \notin gone /\ m[n] \notin orphans /\ m[n] \notin Held /\ m[n] \notin InOut
                                /\ m[n].gen <= gen
<1>1. FromStart(S, m)
  BY StartTypes
<1>2. \A n \in DOMAIN started : /\ m[n] = started[n] /\ started[n] \in Fetching
  BY <1>1 DEF FromStart, Fetching
<1>3. \A n \in DOMAIN started : /\ m[n] \notin gone /\ m[n] \notin orphans /\ m[n] \notin Held /\ m[n] \notin InOut
                                /\ m[n].gen <= gen
  BY <1>2, Zenon DEF Apart, Disjoint, Generations, Owned
<1>4. \A n \in S \ DOMAIN started : m[n].c = n + pl.off /\ m[n].gen = gen /\ Unused(n)
  BY <1>1, Zenon DEF FromStart
<1>5. \A n \in S \ DOMAIN started : m[n] \notin Spent
  BY <1>4, Zenon DEF Unused, Contents
<1>6. \A n \in S \ DOMAIN started : m[n] \notin gone /\ m[n] \notin orphans /\ m[n] \notin Held /\ m[n] \notin InOut
  BY <1>4, <1>5, Zenon DEF Spent
<1>7. gen <= gen
  BY DEF RunnerTypes, BodyTypes
<1>8. \A n \in S \ DOMAIN started : m[n].gen <= gen
  BY <1>4, <1>7, Zenon
<1>9. DOMAIN m = DOMAIN started \cup S
  BY <1>1, Zenon DEF FromStart
<1>10. Distinct(m)
  <2>1. \A j, k \in DOMAIN started : m[j] = m[k] => j = k
    BY <1>2, Zenon DEF Apart, Distinct
  <2>2. \A j \in DOMAIN started, k \in S \ DOMAIN started : m[j] # m[k]
    <3>1. ASSUME NEW j \in DOMAIN started, NEW k \in S \ DOMAIN started, m[j] = m[k] PROVE FALSE
      <4>1. started[j].c = k + pl.off
        BY <1>2, <1>4, <3>1, Zenon
      <4>2. Unused(k)
        BY <1>4, Zenon
      <4> QED BY <4>1, <4>2, Zenon DEF Unused
    <3> QED BY <3>1, Zenon
  <2>3. \A j, k \in S \ DOMAIN started : m[j] = m[k] => j = k
    <3>1. ASSUME NEW j \in S \ DOMAIN started, NEW k \in S \ DOMAIN started, m[j] = m[k] PROVE j = k
      <4>1. j + pl.off = k + pl.off
        BY <1>4, <3>1
      <4>2. pl.off \in Int /\ j \in Int /\ k \in Int
        BY DEF RunnerTypes, SessionTypes
      <4> QED BY <4>1, <4>2
    <3> QED BY <3>1
  <2>4. ASSUME NEW j \in DOMAIN m, NEW k \in DOMAIN m, m[j] = m[k] PROVE j = k
    <3>1. CASE j \in DOMAIN started
      <4>1. k \in DOMAIN started
        BY <1>9, <2>2, <2>4, <3>1, Zenon
      <4> QED BY <2>1, <2>4, <3>1, <4>1, Zenon
    <3>2. CASE j \notin DOMAIN started
      <4>1. j \in S \ DOMAIN started
        BY <1>9, <2>4, <3>2, Zenon
      <4>2. k \notin DOMAIN started
        BY <2>2, <2>4, <4>1, Zenon
      <4>3. k \in S \ DOMAIN started
        BY <1>9, <2>4, <4>2, Zenon
      <4> QED BY <2>3, <2>4, <4>1, <4>3, Zenon
    <3> QED BY <3>1, <3>2
  <2> QED BY <2>4, Zenon DEF Distinct
<1> QED BY <1>3, <1>6, <1>8, <1>9, <1>10, Zenon

LEMMA Moves ==
  ASSUME NEW G, NEW O, NEW F, NEW H, NEW U, Disjoint(G, O, F, H, U)
  PROVE  /\ Disjoint(G \cup H, O, F, {}, U)
         /\ Disjoint(G \cup H, O \cup F, {}, {}, U)
         /\ Disjoint(G, O \cup F, {}, H, U)
         /\ Disjoint(G \cup U, O, F, H, {})
         /\ Disjoint(G, O, F, {}, H)
         /\ \A b \in O : Disjoint(G \cup {b}, O \ {b}, F, H, U)
         /\ \A b \in U : \A V : V \subseteq U /\ b \notin V => Disjoint(G \cup {b}, O, F, H, V)
         /\ H \cap G = {} /\ U \cap G = {} /\ O \cap G = {}
<1>1. Disjoint(G \cup H, O, F, {}, U)
  BY DEF Disjoint
<1>2. Disjoint(G \cup H, O \cup F, {}, {}, U)
  BY DEF Disjoint
<1>3. Disjoint(G, O \cup F, {}, H, U)
  BY DEF Disjoint
<1>4. Disjoint(G \cup U, O, F, H, {})
  BY DEF Disjoint
<1>5. Disjoint(G, O, F, {}, H)
  BY DEF Disjoint
<1>6. \A b \in O : Disjoint(G \cup {b}, O \ {b}, F, H, U)
  BY DEF Disjoint
<1>7. \A b \in U : \A V : V \subseteq U /\ b \notin V => Disjoint(G \cup {b}, O, F, H, V)
  BY DEF Disjoint
<1>8. H \cap G = {} /\ U \cap G = {} /\ O \cap G = {}
  BY DEF Disjoint
<1> QED BY <1>1, <1>2, <1>3, <1>4, <1>5, <1>6, <1>7, <1>8, Zenon

\* Steps that move no body.
LEMMA ApartKept ==
  ASSUME Apart, UNCHANGED <<settle, started, orphans, out, gone, misuse>>
  PROVE  Apart'
BY Zenon DEF Apart, Held, Fetching, InOut
(***************************************************************************)
(* Which contents were given.                                              *)
(***************************************************************************)
Timed(C, m) == C \subseteq Int /\ \A n \in DOMAIN m : n \in Int /\ m[n].c \in Int

LEMMA ContentTypes == ASSUME RunnerTypes PROVE Timed(Contents, started) /\ last.c \in Int
<1>1. \A b \in BodySet : b.c \in Int
  BY DEF BodySet
<1>2. Spent \subseteq Owned
  BY Zenon DEF Spent, Owned
<1>3. \A b \in Spent : b.c \in Int
  BY <1>1, <1>2, OwnedTypes, Zenon
<1>4. last.c \in Int
  BY DEF RunnerTypes, BodyTypes
<1>5. \A n \in DOMAIN started : n \in Int /\ started[n].c \in Int
  BY <1>1, Zenon DEF RunnerTypes, BodyTypes
<1>6. Contents \subseteq Int
  BY <1>3, <1>4, Zenon DEF Contents
<1> QED BY <1>4, <1>5, <1>6, Zenon DEF Timed

\* Entries that were there or are of this numbering.
More(m, w, S, o) == \A n \in DOMAIN w : (n \in DOMAIN m /\ w[n] = m[n]) \/ (n \in S /\ w[n].c = n + o)

LEMMA AlignedGrows ==
  ASSUME NEW C, NEW m, Timed(C, m), NEW ns \in Int, NEW o \in Int, NEW f \in Int, NEW x \in Int,
         Aligned(C, m, ns, o, f, x),
         NEW D, NEW w, NEW S, More(m, w, S, o), NEW nt \in Int, ns <= nt \/ Upto(C, m, f - 1),
         \A c \in D : c \in C \/ (c \in Int /\ Behind(c, nt, o, f) /\ c <= x), \A n \in S : n + o <= x
  PROVE  Aligned(D, w, nt, o, f, x)
<1>1. \A c \in C : Behind(c, nt, o, f)
  <2>1. CASE ns <= nt
    BY <2>1 DEF Timed, Aligned, Behind
  <2>2. CASE Upto(C, m, f - 1)
    BY <2>2 DEF Timed, Upto, Behind
  <2> QED BY <2>1, <2>2
<1>2. \A c \in D : Behind(c, nt, o, f)
  BY <1>1, Zenon
<1>3. \A n \in DOMAIN w : w[n].c = n + o \/ w[n].c < f
  BY Zenon DEF More, Aligned
<1>4. Upto(D, w, x)
  <2>1. \A c \in D : c <= x
    BY Zenon DEF Aligned, Upto
  <2>2. \A n \in DOMAIN w : w[n].c <= x
    BY Zenon DEF More, Aligned, Upto
  <2> QED BY <2>1, <2>2, Zenon DEF Upto
<1> QED BY <1>2, <1>3, <1>4, Zenon DEF Aligned

LEMMA RewindKept ==
  ASSUME NEW C, NEW m, NEW D, D \subseteq C, NEW w, More(m, w, {}, 0), NEW pb, NEW o, NEW f, Rewind(C, m, pb, o, f)
  PROVE  Rewind(D, w, pb, o, f)
BY Zenon DEF Rewind, More, Upto

\* What is aligned with the window is aligned with the origin.
LEMMA OriginToo ==
  ASSUME NEW C, NEW m, Timed(C, m), NEW ns \in Int,
         NEW p \in [base : Int, len : Nat, off : Int, map : Maps],
         NEW o \in [first : Int, len : Nat, off : Int, map : Maps],
         Aligned(C, m, ns, p.off, p.base + p.off, End(p) + p.off), Within(p, o)
  PROVE  /\ Aligned(C, m, ns, o.off, o.first, LastContent(o))
         /\ Rewind(C, m, p.base, o.off, o.first)
<1>1. PICK a, f, x, b, g, y, k : /\ a = p.off /\ f = p.base + p.off /\ x = End(p) + p.off /\ b = o.off
                                 /\ g = o.first /\ y = LastContent(o) /\ k = p.base
  OBVIOUS
<1>2. a \in Int /\ f \in Int /\ x \in Int /\ b \in Int /\ g \in Int /\ y \in Int /\ g - 1 <= y /\ k \in Int
      /\ f = k + a
  BY <1>1 DEF End, LastContent
<1>3. Aligned(C, m, ns, a, f, x) /\ ((a = b /\ f <= g /\ x <= y) \/ x < g)
  BY <1>1, Zenon DEF Within
<1>4. /\ \A c \in C : c \in Int /\ (c < ns + a \/ c < f) /\ c <= x
      /\ \A n \in DOMAIN m : n \in Int /\ m[n].c \in Int /\ (m[n].c = n + a \/ m[n].c < f) /\ m[n].c <= x
  BY <1>3 DEF Timed, Aligned, Behind, Upto
<1>5. CASE a = b /\ f <= g /\ x <= y
  <2>1. \A c \in C : (c < ns + b \/ c < g) /\ c <= y
    BY <1>2, <1>4, <1>5
  <2>2. \A n \in DOMAIN m : (m[n].c = n + b \/ m[n].c < g) /\ m[n].c <= y
    BY <1>2, <1>4, <1>5
  <2>3. k + b <= g
    BY <1>2, <1>5
  <2> QED BY <1>1, <2>1, <2>2, <2>3, Zenon DEF Aligned, Behind, Upto, Rewind
<1>6. CASE x < g
  <2>1. \A c \in C : c < g /\ c <= y /\ c <= g - 1
    BY <1>2, <1>4, <1>6
  <2>2. \A n \in DOMAIN m : m[n].c < g /\ m[n].c <= y /\ m[n].c <= g - 1
    BY <1>2, <1>4, <1>6
  <2> QED BY <1>1, <2>1, <2>2, Zenon DEF Aligned, Behind, Upto, Rewind
<1> QED BY <1>3, <1>5, <1>6

\* The origin goes on, or begins anew behind everything.
LEMMA OriginGoesOn ==
  ASSUME NEW C, NEW m, Timed(C, m), NEW ns \in Int, NEW pb, NEW o \in Int, NEW f \in Int, NEW x \in Int,
         Aligned(C, m, ns, o, f, x), NEW g \in Int, NEW y \in Int, x <= y, f <= g
  PROVE  /\ Aligned(C, m, ns, o, g, y)
         /\ (Rewind(C, m, pb, o, f) /\ pb \in Int => Rewind(C, m, pb, o, g))
<1>1. /\ \A c \in C : c \in Int /\ (c < ns + o \/ c < f) /\ c <= x
      /\ \A n \in DOMAIN m : n \in Int /\ m[n].c \in Int /\ (m[n].c = n + o \/ m[n].c < f) /\ m[n].c <= x
  BY DEF Timed, Aligned, Behind, Upto
<1>2. Aligned(C, m, ns, o, g, y)
  BY <1>1 DEF Aligned, Behind, Upto
<1>3. ASSUME Rewind(C, m, pb, o, f), pb \in Int PROVE Rewind(C, m, pb, o, g)
  <2>1. CASE pb + o <= f
    BY <1>3, <2>1 DEF Rewind
  <2>2. CASE Upto(C, m, f - 1)
    <3>1. Upto(C, m, g - 1)
      BY <1>1, <2>2 DEF Upto
    <3> QED BY <3>1, Zenon DEF Rewind
  <2> QED BY <1>3, <2>1, <2>2, Zenon DEF Rewind
<1> QED BY <1>2, <1>3

LEMMA OriginBegins ==
  ASSUME NEW C, NEW m, Timed(C, m), NEW ns \in Int, NEW pb, NEW o \in Int, NEW x \in Int,
         NEW g \in Int, NEW y \in Int, Upto(C, m, x), x < g, g <= y
  PROVE  Aligned(C, m, ns, o, g, y) /\ Rewind(C, m, pb, o, g)
<1>1. /\ \A c \in C : c \in Int /\ c <= x
      /\ \A n \in DOMAIN m : n \in Int /\ m[n].c \in Int /\ m[n].c <= x
  BY DEF Timed, Upto
<1>2. /\ \A c \in C : c < g /\ c <= y /\ c <= g - 1
      /\ \A n \in DOMAIN m : m[n].c < g /\ m[n].c <= y /\ m[n].c <= g - 1
  BY <1>1
<1> QED BY <1>2, Zenon DEF Aligned, Behind, Upto, Rewind

\* Start asks for numbers whose contents nobody was given.
LEMMA StartsUnused ==
  ASSUME RunnerTypes, AtWindow, NEW n \in Int, pl.base <= n, n \notin DOMAIN started,
         nextSeq <= n \/ Upto(Contents, started, (pl.base + pl.off) - 1)
  PROVE  Unused(n)
<1>1. PICK C, m, o, k, ns : C = Contents /\ m = started /\ o = pl.off /\ k = pl.base /\ ns = nextSeq
  OBVIOUS
<1>2. o \in Int /\ k \in Int /\ ns \in Int /\ k <= n
  BY <1>1 DEF RunnerTypes, SessionTypes
<1>3. Timed(C, m)
  BY <1>1, ContentTypes
<1>4. Aligned(C, m, ns, o, k + o, End(pl) + o) /\ (ns <= n \/ Upto(C, m, (k + o) - 1))
  BY <1>1, Zenon DEF AtWindow
<1>5. \A c \in C : c # n + o
  <2>1. CASE ns <= n
    BY <1>2, <1>3, <1>4, <2>1 DEF Timed, Aligned, Behind
  <2>2. CASE Upto(C, m, (k + o) - 1)
    BY <1>2, <1>3, <2>2 DEF Timed, Upto
  <2> QED BY <1>4, <2>1, <2>2
<1>6. \A j \in DOMAIN m : m[j].c # n + o
  <2>1. \A j \in DOMAIN m : j \in Int /\ m[j].c \in Int /\ (m[j].c = j + o \/ m[j].c < k + o)
    BY <1>3, <1>4, Zenon DEF Timed, Aligned
  <2>2. n \notin DOMAIN m
    BY <1>1, Zenon
  <2>3. \A j \in Int : j # n => j + o # n + o
    BY <1>2
  <2>4. \A c \in Int : c < k + o => c # n + o
    BY <1>2
  <2> QED BY <2>1, <2>2, <2>3, <2>4, Zenon
<1> QED BY <1>1, <1>5, <1>6, Zenon DEF Unused
(***************************************************************************)
(* Owners and contents, step by step.                                      *)
(***************************************************************************)
LEMMA GenerationsKept ==
  ASSUME RunnerTypes, RunnerTypes', Generations, gen <= gen', Owned' \subseteq Owned
  PROVE  Generations'
<1>1. \A b \in Owned' : b.gen <= gen /\ b.gen \in Nat
  <2>1. \A b \in BodySet : b.gen \in Nat
    BY DEF BodySet
  <2> QED BY <2>1, OwnedTypes, Zenon DEF Generations
<1>2. gen \in Nat /\ gen' \in Nat
  BY DEF RunnerTypes, BodyTypes
<1>3. \A b \in Owned' : b.gen <= gen'
  BY <1>1, <1>2
<1> QED BY <1>3, Zenon DEF Generations

LEMMA ContentsKept ==
  ASSUME gen' = gen, \A b \in gone' \cup orphans' : b.gen = gen => b \in Spent,
         Held' \subseteq Spent, InOut' \subseteq Spent, last'.c \in Contents
  PROVE  Contents' \subseteq Contents
<1>1. Spent' \subseteq Spent
  BY Zenon DEF Spent
<1>2. \A b \in Spent' : b.c \in Contents
  BY <1>1, Zenon DEF Contents
<1> QED BY <1>2, Zenon DEF Contents

LEMMA SpentIs ==
  /\ \A b \in gone \cup orphans : b.gen = gen => b \in Spent
  /\ Held \subseteq Spent /\ InOut \subseteq Spent /\ last.c \in Contents
BY Zenon DEF Spent, Contents

\* What every step does to the owners, but those that start prefetches.
Owners == Apart' /\ Generations' /\ (~Over' => Contents' \subseteq Contents)

LEMMA OwnersKept ==
  ASSUME RunnerTypes, RunnerTypes', Apart, Generations,
         UNCHANGED <<settle, started, orphans, out, gone, misuse, gen, last>>
  PROVE  Owners
<1>1. Apart'
  BY ApartKept
<1>2. Held' = Held /\ InOut' = InOut /\ Fetching' = Fetching
  BY Zenon DEF Held, InOut, Fetching
<1>3. Owned' = Owned
  BY <1>2, Zenon DEF Owned
<1>4. gen <= gen'
  BY DEF RunnerTypes, BodyTypes
<1>5. Generations'
  BY <1>3, <1>4, GenerationsKept
<1>6. Contents' \subseteq Contents
  BY <1>2, SpentIs, ContentsKept, Zenon
<1> QED BY <1>1, <1>5, <1>6, Zenon DEF Owners

LEMMA OwnersDrain ==
  ASSUME RunnerTypes, RunnerTypes', Apart, Generations, Drain
  PROVE  Owners
<1>1. PICK b : b \in orphans /\ orphans' = orphans \ {b} /\ Release({b})
  BY Zenon DEF Drain
<1>2. UNCHANGED <<settle, started, out, gen, last>>
  BY DEF Drain, channel
<1>3. gone' = gone \cup {b} /\ misuse' = (misuse \/ {b} \cap gone # {})
  BY <1>1, Zenon DEF Release, GiveAway
<1>4. Held' = Held /\ InOut' = InOut /\ Fetching' = Fetching
  BY <1>2, Zenon DEF Held, InOut, Fetching
<1>5. Disjoint(gone', orphans', Fetching', Held', InOut')
  <2>1. Disjoint(gone \cup {b}, orphans \ {b}, Fetching, Held, InOut)
    BY <1>1, Moves, Zenon DEF Apart
  <2> QED BY <1>1, <1>3, <1>4, <2>1, Zenon
<1>6. ~misuse'
  <2>1. ~misuse /\ b \notin gone
    BY <1>1, Zenon DEF Apart, Disjoint
  <2>2. {b} \cap gone = {}
    BY <2>1
  <2> QED BY <1>3, <2>1, <2>2, Zenon
<1>7. Apart'
  BY <1>2, <1>5, <1>6, Zenon DEF Apart
<1>8. gone' \cup orphans' = gone \cup orphans
  BY <1>1, <1>3
<1>9. gen <= gen'
  BY <1>2 DEF RunnerTypes, BodyTypes
<1>10. Owned' = Owned
  BY <1>4, <1>8, Zenon DEF Owned
<1>11. Generations'
  BY <1>9, <1>10, GenerationsKept
<1>12. Contents' \subseteq Contents
  BY <1>2, <1>4, <1>8, SpentIs, ContentsKept, Zenon
<1> QED BY <1>7, <1>11, <1>12, Zenon DEF Owners

LEMMA OwnersOutside ==
  ASSUME RunnerTypes, RunnerTypes', Apart, Generations,
         Origin \/ Consume \/ Cancel \/ Drain \/ UNCHANGED vars
  PROVE  Owners
<1>1. CASE Drain
  BY <1>1, OwnersDrain
<1>2. CASE Origin \/ Consume \/ Cancel \/ UNCHANGED vars
  <2>1. UNCHANGED <<settle, started, orphans, out, gone, misuse, gen, last>>
    BY <1>2 DEF Origin, Consume, Cancel, vars, channel, fetches, pool
  <2> QED BY <2>1, OwnersKept
<1> QED BY <1>1, <1>2

\* A new URL: the prefetcher and the hold begin anew, and no content was given.
LEMMA OwnersRefreshed ==
  ASSUME RunnerTypes, RunnerTypes', Apart, Generations, out = <<>>, out' = out, last' = last, RefreshURL
  PROVE  Owners /\ started' = <<>>
<1>1. /\ started' = <<>> /\ orphans' = orphans \cup Fetching
      /\ gone' = gone \cup Held /\ misuse' = (misuse \/ Held \cap gone # {})
      /\ gen' \in {gen, gen + 1}
      /\ (gen' = gen => \A b \in orphans' \cup gone' : b.gen # gen)
  BY RefreshPool
<1>2. settle'.buf = <<>>
  BY RefreshHold
<1>3. Held' = {} /\ InOut' = {} /\ Fetching' = {} /\ InOut = {}
  BY <1>1, <1>2, NoOwners, Zenon
<1>4. Apart'
  <2>1. Disjoint(gone \cup Held, orphans \cup Fetching, {}, {}, InOut) /\ Held \cap gone = {} /\ ~misuse
    BY Moves, Zenon DEF Apart
  <2>2. Disjoint(gone', orphans', Fetching', Held', InOut')
    BY <1>1, <1>3, <2>1, Zenon
  <2>3. ~misuse'
    BY <1>1, <2>1, Zenon
  <2>4. Distinct(started') /\ Distinct(settle'.buf) /\ DistinctMedia(out')
    BY <1>1, <1>2, DistinctNothing, Zenon
  <2> QED BY <2>2, <2>3, <2>4, Zenon DEF Apart
<1>5. Owned' \subseteq Owned
  BY <1>1, <1>3, Zenon DEF Owned
<1>6. gen \in Nat /\ gen <= gen'
  BY <1>1 DEF RunnerTypes, BodyTypes
<1>7. Generations'
  BY <1>5, <1>6, GenerationsKept
<1>8. Contents' \subseteq Contents
  <2>1. \A b \in gone' \cup orphans' : b.gen # gen'
    <3>1. CASE gen' = gen
      BY <1>1, <3>1, Zenon
    <3>2. CASE gen' = gen + 1
      <4>1. \A b \in gone' \cup orphans' : b.gen <= gen
        BY <1>1, Zenon DEF Generations, Owned
      <4>2. ~(gen + 1 <= gen)
        BY <1>6
      <4> QED BY <3>2, <4>1, <4>2, Zenon
    <3> QED BY <1>1, <3>1, <3>2, Zenon
  <2>2. Spent' = {}
    BY <1>3, <2>1, Zenon DEF Spent
  <2>3. \A b \in Spent' : b.c \in Contents
    BY <2>2
  <2>4. last'.c \in Contents
    BY SpentIs, Zenon
  <2> QED BY <2>3, <2>4, Zenon DEF Contents
<1> QED BY <1>1, <1>4, <1>7, <1>8, Zenon DEF Owners

LEMMA OwnersAsked ==
  ASSUME RunnerTypes, RunnerTypes', Apart, Generations, Asked
  PROVE  Owners /\ started' \in {started, <<>>}
<1>1. out = <<>> /\ out' = out /\ last' = last
  BY Zenon DEF Asked
<1>2. CASE RefreshURL
  BY <1>1, <1>2, OwnersRefreshed, Zenon
<1>3. CASE UNCHANGED <<fetches, settle, pool>>
  <2>1. UNCHANGED <<settle, started, orphans, out, gone, misuse, gen, last>>
    BY <1>1, <1>3 DEF fetches, pool
  <2>2. Owners
    BY <2>1, OwnersKept
  <2> QED BY <2>1, <2>2, Zenon
<1> QED BY <1>2, <1>3, Zenon DEF Asked

\* What is held goes back to the pool; nothing is being sent.
LEMMA OwnersReleased ==
  ASSUME RunnerTypes, RunnerTypes', Apart, Generations, UNCHANGED <<started, orphans, gen, last>>,
         out = <<>>, InOut' = {}, DistinctMedia(out'), Release(Held), settle'.buf = <<>>
  PROVE  Owners
<1>1. gone' = gone \cup Held /\ misuse' = (misuse \/ Held \cap gone # {})
  BY Zenon DEF Release, GiveAway
<1>2. Held \cap gone = {} /\ ~misuse /\ Disjoint(gone \cup Held, orphans, Fetching, {}, InOut)
  BY Moves, Zenon DEF Apart
<1>3. Fetching' = Fetching /\ InOut = {} /\ Held' = {}
  BY NoOwners, Zenon DEF Fetching
<1>4. ~misuse' /\ Disjoint(gone', orphans', Fetching', Held', InOut')
  BY <1>1, <1>2, <1>3, Zenon
<1>5. Apart'
  BY <1>4, DistinctNothing, Zenon DEF Apart
<1>6. Owned' \subseteq Owned
  BY <1>1, <1>3, Zenon DEF Owned
<1>7. gen <= gen'
  BY DEF RunnerTypes, BodyTypes
<1>8. Generations'
  BY <1>6, <1>7, GenerationsKept
<1>9. Contents' \subseteq Contents
  <2>1. \A b \in gone' \cup orphans' : b.gen = gen => b \in Spent
    BY <1>1, SpentIs, Zenon
  <2>2. Held' \subseteq Spent /\ InOut' \subseteq Spent
    BY <1>3, Zenon
  <2> QED BY <2>1, <2>2, SpentIs, ContentsKept, Zenon
<1> QED BY <1>5, <1>8, <1>9, Zenon DEF Owners
LEMMA DistinctSettled ==
  ASSUME NEW s \in SettleType, Distinct(s.buf)
  PROVE  DistinctMedia(Settled(s))
<1>1. PICK q : q = Settled(s)
  OBVIOUS
<1>2. /\ q \in Seq(ItemSet) /\ q[1] = InitItem(s.pending)
      /\ \A i \in 2..Len(q) : i - 1 \in 1..Len(s.buf) /\ q[i] = Media(s.buf[i - 1])
  BY <1>1, SettledIs DEF SettleType
<1>3. s.buf \in Seq(BodySet) /\ s.pending \in Cfgs
  BY SettleFields
<1>4. DOMAIN s.buf = 1..Len(s.buf) /\ \A i \in 1..Len(s.buf) : s.buf[i] \in BodySet
  BY <1>3
<1>5. InitItem(s.pending).kind = "init"
  BY <1>3, InitItemIs
<1>6. \A i \in 2..Len(q) : i - 1 \in DOMAIN s.buf /\ q[i].body = s.buf[i - 1]
  BY <1>2, <1>4, MediaIs
<1>7. q[1].kind # "media"
  BY <1>2, <1>5
<1>8. \A i \in 1..Len(q) : i = 1 \/ i \in 2..Len(q)
  <2>1. Len(q) \in Nat
    BY <1>2, EmptyIs
  <2> QED BY <2>1
<1>9. ASSUME NEW i \in 2..Len(q), NEW j \in 2..Len(q), q[i] = q[j] PROVE i = j
  <2>1. i - 1 = j - 1
    BY <1>6, <1>9, Zenon DEF Distinct
  <2> QED BY <2>1
<1>10. DistinctMedia(q)
  BY <1>7, <1>8, <1>9, Zenon DEF DistinctMedia
<1> QED BY <1>1, <1>10

LEMMA OwnersSame ==
  ASSUME RunnerTypes, RunnerTypes', Apart, Generations,
         UNCHANGED <<started, orphans, gone, gen, last>>, ~misuse',
         settle'.buf = settle.buf, InOut' = InOut, DistinctMedia(out')
  PROVE  Owners
<1>1. Held' = Held /\ Fetching' = Fetching
  BY Zenon DEF Held, Fetching
<1>2. Apart'
  BY <1>1, Zenon DEF Apart
<1>3. Owned' = Owned
  BY <1>1, Zenon DEF Owned
<1>4. gen <= gen'
  BY DEF RunnerTypes, BodyTypes
<1>5. Generations'
  BY <1>3, <1>4, GenerationsKept
<1>6. Contents' \subseteq Contents
  BY <1>1, SpentIs, ContentsKept, Zenon
<1> QED BY <1>2, <1>5, <1>6, Zenon DEF Owners

LEMMA OwnersSettled ==
  ASSUME RunnerTypes, RunnerTypes', Apart, Generations, SettleSent
  PROVE  Owners
<1>1. UNCHANGED <<started, orphans, gone, misuse, gen, last>> /\ out = <<>>
  BY Zenon DEF SettleSent
<1>2. CASE ~settle.active /\ settle' = settle /\ out' = <<>>
  <2>1. settle'.buf = settle.buf
    BY <1>2
  <2>2. InOut' = InOut /\ DistinctMedia(out')
    BY <1>1, <1>2, NoOwners, DistinctNothing, Zenon
  <2>3. ~misuse'
    BY <1>1, Zenon DEF Apart
  <2> QED BY <1>1, <2>1, <2>2, <2>3, OwnersSame
<1>3. CASE settle.active /\ settle' = [NoHold EXCEPT !.confirmed = settle.pending] /\ out' = Settled(settle)
  <2>1. settle \in SettleType
    BY Zenon DEF RunnerTypes, BodyTypes, SettleType
  <2>2. settle.pending \in Cfgs
    BY <2>1, SettleFields
  <2>3. settle'.buf = <<>>
    BY <1>3, <2>2, NoHoldIs, Zenon
  <2>4. Bodies(Settled(settle)) = ToSet(settle.buf)
    BY <2>1, SettledIs DEF SettleType
  <2>5. InOut' = Held /\ Held' = {} /\ InOut = {} /\ Fetching' = Fetching
    BY <1>1, <1>3, <2>3, <2>4, NoOwners, Zenon DEF InOut, Held, Fetching
  <2>6. Disjoint(gone', orphans', Fetching', Held', InOut')
    <3>1. Disjoint(gone, orphans, Fetching, {}, Held)
      BY Moves, Zenon DEF Apart
    <3> QED BY <1>1, <2>5, <3>1, Zenon
  <2>7. DistinctMedia(out')
    BY <1>3, <2>1, DistinctSettled, Zenon DEF Apart
  <2>8. Apart'
    BY <1>1, <2>3, <2>6, <2>7, DistinctNothing, Zenon DEF Apart
  <2>9. Owned' \subseteq Owned
    BY <1>1, <2>5, Zenon DEF Owned
  <2>10. gen <= gen'
    BY <1>1 DEF RunnerTypes, BodyTypes
  <2>11. Generations'
    BY <2>9, <2>10, GenerationsKept
  <2>12. Contents' \subseteq Contents
    BY <1>1, <2>5, SpentIs, ContentsKept, Zenon
  <2> QED BY <2>8, <2>11, <2>12, Zenon DEF Owners
<1> QED BY <1>2, <1>3, Zenon DEF SettleSent

LEMMA OwnersMapFetched ==
  ASSUME RunnerTypes, RunnerTypes', Apart, Generations, MapFetched
  PROVE  Owners
<1>1. UNCHANGED <<started, orphans, gen, last>> /\ out = <<>>
  BY Zenon DEF MapFetched
<1>2. CASE UNCHANGED <<settle, out, gone, misuse>>
  BY <1>1, <1>2, OwnersKept, Zenon
<1>3. PICK m : m = InitBytes(curMap)
  OBVIOUS
<1>4. ASSUME NEW drop, Accepted(settle, m, settle', out', drop), Release(drop) PROVE Owners
  <2>1. InOut' = {} /\ DistinctMedia(out')
    <3>1. CASE out' = <<>>
      BY <3>1, NoOwners, DistinctNothing, Zenon
    <3>2. CASE out' = <<InitItem(m)>>
      <4>1. curMap \in Maps
        BY Zenon DEF RunnerTypes, SessionTypes
      <4>2. m \in Cfgs
        BY <1>3, <4>1, CfgIs
      <4>3. InitItem(m) \in ItemSet /\ InitItem(m).kind = "init"
        BY <4>2, InitItemIs
      <4>4. Len(<<InitItem(m)>>) = 1 /\ <<InitItem(m)>>[1] = InitItem(m) /\ <<InitItem(m)>> \in Seq(ItemSet)
        BY <4>3, OneIs
      <4>5. \A i \in 1..Len(<<InitItem(m)>>) : <<InitItem(m)>>[i].kind # "media"
        BY <4>3, <4>4
      <4>6. \A b : b \notin Bodies(<<InitItem(m)>>)
        BY <4>4, <4>5, HasMedia, Zenon
      <4>7. \A b : b \notin InOut'
        BY <3>2, <4>6, Zenon DEF InOut
      <4> QED BY <3>2, <4>7, DistinctOne, Zenon
    <3> QED BY <1>4, <3>1, <3>2, Zenon DEF Accepted
  <2>2. CASE settle'.buf = settle.buf /\ drop = {}
    <3>1. InOut' = InOut
      BY <1>1, <2>1, NoOwners, Zenon
    <3>2. gone' = gone \cup drop /\ misuse' = (misuse \/ drop \cap gone # {})
      BY <1>4, Zenon DEF Release, GiveAway
    <3>3. gone' = gone
      BY <2>2, <3>2
    <3>4. ~misuse /\ {} \cap gone = {}
      BY Zenon DEF Apart
    <3>5. ~misuse'
      BY <2>2, <3>2, <3>4, Zenon
    <3> QED BY <1>1, <2>1, <2>2, <3>1, <3>3, <3>5, OwnersSame, Zenon
  <2>3. CASE settle'.buf = <<>> /\ drop = ToSet(settle.buf)
    <3>1. Release(Held)
      BY <1>4, <2>3, Zenon DEF Held
    <3> QED BY <1>1, <2>1, <2>3, <3>1, OwnersReleased, Zenon
  <2> QED BY <1>4, <2>2, <2>3, Zenon DEF Accepted
<1> QED BY <1>2, <1>3, <1>4, Zenon DEF MapFetched
LEMMA OwnersSent ==
  ASSUME RunnerTypes, RunnerTypes', Apart, Generations, Sent
  PROVE  Owners
<1>1. UNCHANGED <<settle, started, orphans, gen>> /\ out' = Tail(out) /\ Queue(out)
  BY SentQueue, Zenon DEF Sent
<1>2. Held' = Held /\ Fetching' = Fetching
  BY <1>1, Zenon DEF Held, Fetching
<1>3. InOut' \subseteq InOut
  BY <1>1, Zenon DEF InOut, Queue
<1>4. PICK q, t, b : q = out /\ t = Tail(out) /\ b = Head(out).body
  OBVIOUS
<1>5. /\ Len(q) \in Nat \ {0} /\ Len(t) = Len(q) - 1 /\ b = q[1].body /\ t \in Seq(ItemSet)
      /\ \A i \in 1..Len(t) : t[i] = q[i + 1] /\ i + 1 \in 1..Len(q)
  BY <1>1, <1>4, Zenon DEF Queue
<1>6. DistinctMedia(q)
  BY <1>4, Zenon DEF Apart
<1>7. DistinctMedia(out')
  <2>1. ASSUME NEW i \in 1..Len(t), NEW j \in 1..Len(t), t[i].kind = "media", t[i] = t[j] PROVE i = j
    <3>1. /\ i + 1 \in 1..Len(q) /\ j + 1 \in 1..Len(q)
          /\ q[i + 1] = t[i] /\ q[j + 1] = t[j]
      BY <1>5
    <3>2. \A k, l \in 1..Len(q) : q[k].kind = "media" /\ q[k] = q[l] => k = l
      BY <1>6, Zenon DEF DistinctMedia
    <3>3. q[i + 1].kind = "media" /\ q[i + 1] = q[j + 1]
      BY <2>1, <3>1, Zenon
    <3>4. i + 1 = j + 1
      BY <3>1, <3>2, <3>3, Zenon
    <3> QED BY <3>4
  <2>2. DistinctMedia(t)
    BY <2>1, Zenon DEF DistinctMedia
  <2> QED BY <1>1, <1>4, <2>2, Zenon
<1>8. last \in [c : Int, init : Cfgs] /\ Head(out).body.c \in Int /\ Head(out).body.cfg \in Cfgs
  BY <1>1, Zenon DEF RunnerTypes, BodyTypes, Queue
<1>9. gen <= gen'
  BY <1>1 DEF RunnerTypes, BodyTypes
<1>10. CASE last' = [last EXCEPT !.init = Head(out).body.cfg] /\ UNCHANGED <<gone, misuse>>
  <2>1. last'.c = last.c
    BY <1>8, <1>10, LastIs, Zenon
  <2>2. Disjoint(gone', orphans', Fetching', Held', InOut')
    <3>1. Disjoint(gone, orphans, Fetching, Held, InOut')
      BY <1>3, Zenon DEF Apart, Disjoint
    <3> QED BY <1>1, <1>2, <1>10, <3>1, Zenon
  <2>3. Apart'
    BY <1>1, <1>7, <1>10, <2>2, Zenon DEF Apart
  <2>4. Owned' \subseteq Owned
    BY <1>1, <1>2, <1>3, <1>10, Zenon DEF Owned
  <2>5. Generations'
    BY <1>9, <2>4, GenerationsKept
  <2>6. Contents' \subseteq Contents
    BY <1>1, <1>2, <1>3, <1>10, <2>1, SpentIs, ContentsKept, Zenon
  <2> QED BY <2>3, <2>5, <2>6, Zenon DEF Owners
<1>11. CASE Head(out).kind # "init" /\ last' = [last EXCEPT !.c = Head(out).body.c] /\ GiveAway({Head(out).body})
  <2>1. last'.c = b.c
    BY <1>4, <1>8, <1>11, LastIs, Zenon
  <2>2. gone' = gone \cup {b} /\ misuse' = (misuse \/ {b} \cap gone # {})
    BY <1>4, <1>11, Zenon DEF GiveAway
  <2>3. q[1].kind = "media" /\ q[1] \in ItemSet /\ b \in InOut /\ q[1] = Head(out)
    <3>1. Head(out).kind = "media" /\ Head(out) = out[1] /\ out[1] \in ItemSet
      <4>1. Head(out) = out[1] /\ out[1] \in ItemSet
        BY <1>1, Zenon DEF Queue
      <4>2. \A x \in ItemSet : x.kind # "init" => x.kind = "media"
        BY DEF ItemSet
      <4> QED BY <1>11, <4>1, <4>2, Zenon
    <3> QED BY <1>1, <1>4, <3>1, Zenon DEF Queue, InOut
  <2>4. b \notin InOut'
    <3>1. ASSUME b \in Bodies(t) PROVE FALSE
      <4>1. PICK i \in 1..Len(t) : t[i].kind = "media" /\ t[i].body = b
        BY <1>5, <3>1, HasMedia
      <4>2. t[i] \in ItemSet
        BY <1>5
      <4>3. t[i] = q[1]
        <5>1. \A x \in ItemSet : x = [kind |-> x.kind, body |-> x.body]
          BY DEF ItemSet
        <5>2. t[i].body = q[1].body /\ t[i].kind = q[1].kind /\ q[1] \in ItemSet
          BY <1>5, <2>3, <4>1
        <5> QED BY <4>2, <5>1, <5>2, Zenon
      <4>4. q[1] = q[i + 1] /\ i + 1 \in 1..Len(q) /\ 1 \in 1..Len(q)
        BY <1>5, <4>3
      <4>5. 1 = i + 1
        BY <1>6, <2>3, <4>4, Zenon DEF DistinctMedia
      <4> QED BY <4>5
    <3> QED BY <1>1, <1>4, <3>1, Zenon DEF InOut
  <2>5. Disjoint(gone', orphans', Fetching', Held', InOut') /\ ~misuse'
    <3>1. Disjoint(gone \cup {b}, orphans, Fetching, Held, InOut') /\ InOut \cap gone = {} /\ ~misuse
      BY <1>3, <2>3, <2>4, Moves, Zenon DEF Apart
    <3>2. {b} \cap gone = {}
      BY <2>3, <3>1
    <3> QED BY <1>1, <1>2, <2>2, <3>1, <3>2, Zenon
  <2>6. Apart'
    BY <1>1, <1>7, <2>5, Zenon DEF Apart
  <2>7. Owned' \subseteq Owned
    BY <1>1, <1>2, <1>3, <2>2, <2>3, Zenon DEF Owned
  <2>8. Generations'
    BY <1>9, <2>7, GenerationsKept
  <2>9. Contents' \subseteq Contents
    <3>1. \A d \in gone' \cup orphans' : d.gen = gen => d \in Spent
      BY <1>1, <2>2, <2>3, SpentIs, Zenon
    <3>2. b.c \in Contents
      BY <2>3, Zenon DEF Spent, Contents
    <3> QED BY <1>1, <1>2, <1>3, <2>1, <3>1, <3>2, SpentIs, ContentsKept, Zenon
  <2> QED BY <2>6, <2>8, <2>9, Zenon DEF Owners
<1> QED BY <1>10, <1>11, Zenon DEF Sent
LEMMA OwnersLost ==
  ASSUME RunnerTypes, RunnerTypes', Apart, Generations, SendLost \/ Closed
  PROVE  Owners
<1>1. UNCHANGED <<settle, gen>> /\ out' = <<>> /\ Over'
  <2>1. UNCHANGED <<settle, gen>> /\ out' = <<>>
    BY Zenon DEF SendLost, Closed
  <2>2. pc' \in {"ending", "closing", "closed"}
    BY DEF SendLost, Closed
  <2> QED BY <2>1, <2>2 DEF Over, Where
<1>2. Held' = Held /\ InOut' = {}
  BY <1>1, NoOwners, Zenon DEF Held
<1>3. gen <= gen'
  BY <1>1 DEF RunnerTypes, BodyTypes
<1>4. CASE SendLost
  <2>1. UNCHANGED <<started, orphans>> /\ gone' = gone \cup InOut /\ misuse' = (misuse \/ InOut \cap gone # {})
    BY <1>4, Zenon DEF SendLost, Release, GiveAway, InOut
  <2>2. Fetching' = Fetching
    BY <2>1, Zenon DEF Fetching
  <2>3. Disjoint(gone \cup InOut, orphans, Fetching, Held, {}) /\ InOut \cap gone = {} /\ ~misuse
    BY Moves, Zenon DEF Apart
  <2>4. Disjoint(gone', orphans', Fetching', Held', InOut') /\ ~misuse'
    BY <1>2, <2>1, <2>2, <2>3, Zenon
  <2>5. Apart'
    BY <1>1, <2>1, <2>4, DistinctNothing, Zenon DEF Apart
  <2>6. Owned' \subseteq Owned
    BY <1>2, <2>1, <2>2, Zenon DEF Owned
  <2>7. Generations'
    BY <1>3, <2>6, GenerationsKept
  <2> QED BY <1>1, <2>5, <2>7, Zenon DEF Owners
<1>5. CASE Closed
  <2>1. UNCHANGED <<gone, misuse, out>> /\ started' = <<>> /\ orphans' = orphans \cup Fetching
    BY <1>5, Zenon DEF Closed
  <2>2. Fetching' = {} /\ InOut' = InOut
    BY <2>1, NoOwners, Zenon DEF InOut
  <2>3. Disjoint(gone, orphans \cup Fetching, {}, Held, InOut)
    BY Moves, Zenon DEF Apart
  <2>4. Disjoint(gone', orphans', Fetching', Held', InOut')
    BY <1>2, <2>1, <2>2, <2>3, Zenon
  <2>5. Apart'
    BY <1>1, <2>1, <2>4, DistinctNothing, Zenon DEF Apart
  <2>6. Owned' \subseteq Owned
    BY <1>2, <2>1, <2>2, Zenon DEF Owned
  <2>7. Generations'
    BY <1>3, <2>6, GenerationsKept
  <2> QED BY <1>1, <2>5, <2>7, Zenon DEF Owners
<1> QED BY <1>4, <1>5

LEMMA OwnersIdle ==
  ASSUME RunnerTypes, RunnerTypes', Apart, Generations, Skipped \/ Ended
  PROVE  Owners
<1>1. UNCHANGED <<settle, started, orphans, out, gone, misuse, gen, last>>
  BY Zenon DEF Skipped, Ended
<1> QED BY <1>1, OwnersKept

\* A round has a window of this origin, or one of before a restart.
LEMMA TimelineIs ==
  ASSUME Timeline, InRound
  PROVE  ~Over /\ AtOrigin /\ AtWindow /\ Within(pl, origin)
<1>1. ~Over
  BY DEF InRound, Over
<1> QED BY <1>1, Zenon DEF Timeline

\* Wait takes one body; the others stay.
LEMMA WaitApart ==
  ASSUME RunnerTypes, Apart, Generations, Timeline, NEW S, NEW b, Waits(S, b)
  PROVE  /\ Distinct(started')
         /\ \A n \in DOMAIN started' : /\ started'[n] \notin gone /\ started'[n] \notin orphans
                                       /\ started'[n] \notin Held /\ started'[n] \notin InOut
                                       /\ started'[n].gen <= gen /\ started'[n] # b
         /\ b \notin gone /\ b \notin orphans /\ b \notin Held /\ b \notin InOut /\ b.gen <= gen
<1>1. S \subseteq Int /\ seg \in S /\ \A n \in S : pl.base <= n /\ nextSeq <= n
  <2>1. S \subseteq seg .. End(pl) /\ seg \in S /\ pl.base <= seg /\ seg = nextSeq
    BY Zenon DEF Waits
  <2>2. pl.base \in Int /\ seg \in Int /\ End(pl) \in Int
    BY DEF RunnerTypes, SessionTypes, End
  <2> QED BY <2>1, <2>2
<1>2. AtWindow
  <2>1. Where = "segment"
    BY Zenon DEF Waits
  <2>2. InRound
    BY <2>1 DEF InRound
  <2> QED BY <2>2, TimelineIs
<1>3. \A n \in S : n \in DOMAIN started \/ Unused(n)
  <2>1. ASSUME NEW n \in S, n \notin DOMAIN started PROVE Unused(n)
    BY <1>1, <1>2, <2>1, StartsUnused
  <2> QED BY <2>1
<1>4. PICK m : m = StartAll(started, pl, S)
  OBVIOUS
<1>5. /\ Distinct(m)
      /\ \A n \in DOMAIN m : /\ m[n] \notin gone /\ m[n] \notin orphans /\ m[n] \notin Held /\ m[n] \notin InOut
                             /\ m[n].gen <= gen
  BY <1>1, <1>3, <1>4, StartApart
<1>6. b = m[seg] /\ started' = Without(m, seg)
  BY <1>4, Zenon DEF Waits
<1>7. seg \in DOMAIN m
  <2>1. FromStart(S, m)
    BY <1>1, <1>4, StartTypes
  <2> QED BY <1>1, <2>1, Zenon DEF FromStart
<1>8. DOMAIN started' = DOMAIN m \ {seg} /\ \A n \in DOMAIN started' : started'[n] = m[n]
  BY <1>6, WithoutIs
<1>9. Distinct(started')
  BY <1>5, <1>6, DistinctKept, Zenon
<1>10. \A n \in DOMAIN started' : started'[n] # b
  BY <1>5, <1>6, <1>7, <1>8, Zenon DEF Distinct
<1> QED BY <1>5, <1>6, <1>7, <1>8, <1>9, <1>10, Zenon

LEMMA OwnersStopped ==
  ASSUME RunnerTypes, RunnerTypes', Apart, Generations, Timeline, Stopped
  PROVE  Owners
<1>1. UNCHANGED <<settle, gen, out, gone, misuse, last>> /\ out = <<>> /\ pc' = "ending"
  BY Zenon DEF Stopped
<1>2. Over'
  BY <1>1 DEF Over, Where
<1>3. CASE UNCHANGED <<started, orphans>>
  BY <1>1, <1>3, OwnersKept, Zenon
<1>4. CASE /\ Where = "segment" /\ seg = nextSeq /\ pl.base <= seg /\ seg <= End(pl)
           /\ started' = Without(StartAll(started, pl, {seg}), seg)
           /\ orphans' = orphans \cup {StartAll(started, pl, {seg})[seg]}
  <2>1. PICK m, b : m = StartAll(started, pl, {seg}) /\ b = m[seg]
    OBVIOUS
  <2>2. started' = Without(m, seg) /\ orphans' = orphans \cup {b}
    BY <1>4, <2>1, Zenon
  <2>3. pl.base \in Int /\ seg \in Int /\ pl.base <= seg /\ nextSeq <= seg
    BY <1>4 DEF RunnerTypes, SessionTypes
  <2>4. AtWindow
    <3>1. InRound
      BY <1>4 DEF InRound
    <3> QED BY <3>1, TimelineIs
  <2>5. seg \in DOMAIN started \/ Unused(seg)
    BY <2>3, <2>4, StartsUnused
  <2>6. /\ Distinct(m)
        /\ \A n \in DOMAIN m : /\ m[n] \notin gone /\ m[n] \notin orphans /\ m[n] \notin Held /\ m[n] \notin InOut
                               /\ m[n].gen <= gen
    <3>1. {seg} \subseteq Int /\ \A n \in {seg} : n \in DOMAIN started \/ Unused(n)
      BY <2>3, <2>5
    <3> QED BY <2>1, <3>1, StartApart
  <2>7. DOMAIN m = DOMAIN started \cup {seg}
    BY <2>1, Started
  <2>8. DOMAIN started' = DOMAIN m \ {seg} /\ \A n \in DOMAIN started' : started'[n] = m[n]
    BY <2>2, WithoutIs
  <2>9. \A x \in Fetching' : x \notin gone /\ x \notin orphans /\ x \notin Held /\ x \notin InOut /\ x # b /\ x.gen <= gen
    <3>1. \A n \in DOMAIN started' : /\ started'[n] \notin gone /\ started'[n] \notin orphans
                                     /\ started'[n] \notin Held /\ started'[n] \notin InOut
                                     /\ started'[n] # b /\ started'[n].gen <= gen
      BY <2>1, <2>6, <2>7, <2>8, Zenon DEF Distinct
    <3> QED BY <3>1, Zenon DEF Fetching
  <2>10. b \notin gone /\ b \notin orphans /\ b \notin Held /\ b \notin InOut /\ b.gen <= gen
    BY <2>1, <2>6, <2>7, Zenon
  <2>11. Held' = Held /\ InOut' = InOut
    BY <1>1, Zenon DEF Held, InOut
  <2>12. Disjoint(gone', orphans', Fetching', Held', InOut')
    BY <1>1, <2>2, <2>9, <2>10, <2>11, Zenon DEF Apart, Disjoint
  <2>13. Distinct(started')
    BY <2>2, <2>6, DistinctKept, Zenon
  <2>14. Apart'
    BY <1>1, <2>12, <2>13, Zenon DEF Apart
  <2>15. Generations'
    BY <1>1, <2>2, <2>9, <2>10, <2>11, Zenon DEF Generations, Owned
  <2> QED BY <1>2, <2>14, <2>15, Zenon DEF Owners
<1> QED BY <1>3, <1>4, Zenon DEF Stopped
LEMMA OwnersAdjusted ==
  ASSUME RunnerTypes, RunnerTypes', Apart, Generations, Timeline, NEW S, Adjusted(S)
  PROVE  /\ Owners
         /\ nextSeq <= nextSeq' \/ Upto(Contents, started, (pl.base + pl.off) - 1)
<1>1. /\ pc = "window" /\ pc' = "segment" /\ UNCHANGED <<out, last, orphans, gen>>
      /\ S \subseteq nextSeq' .. End(pl) /\ started' = StartAll(started, pl, S)
      /\ pl.base <= nextSeq' /\ nextSeq' \in Int
      /\ nextSeq <= nextSeq' \/ (nextSeq' = pl.base /\ pl.base < prevBase)
  BY Zenon DEF Adjusted
<1>2. Where = "window" /\ Where \in {"round", "window"} /\ InRound
  BY <1>1 DEF Where, InRound
<1>3. AtWindow /\ Rewind(Contents, started, prevBase, pl.off, pl.base + pl.off)
  BY <1>2, TimelineIs, Zenon DEF Timeline
<1>4. nextSeq <= nextSeq' \/ Upto(Contents, started, (pl.base + pl.off) - 1)
  <2>1. ASSUME pl.base < prevBase PROVE Upto(Contents, started, (pl.base + pl.off) - 1)
    <3>1. PICK x, f : x = prevBase + pl.off /\ f = pl.base + pl.off
      OBVIOUS
    <3>2. ~(x <= f)
      BY <2>1, <3>1 DEF RunnerTypes, SessionTypes
    <3>3. x <= f \/ Upto(Contents, started, f - 1)
      BY <1>3, <3>1, Zenon DEF Rewind
    <3>4. Upto(Contents, started, f - 1)
      BY <3>2, <3>3, Zenon
    <3> QED BY <3>1, <3>4, Zenon
  <2> QED BY <1>1, <2>1, Zenon
<1>5. S \subseteq Int /\ \A n \in S : pl.base <= n /\ nextSeq' <= n
  <2>1. pl.base \in Int /\ End(pl) \in Int
    BY DEF RunnerTypes, SessionTypes, End
  <2>2. S \subseteq nextSeq' .. End(pl) /\ pl.base <= nextSeq' /\ nextSeq' \in Int
    BY <1>1, Zenon
  <2> QED BY <2>1, <2>2
<1>6. \A n \in S : nextSeq <= n \/ Upto(Contents, started, (pl.base + pl.off) - 1)
  <2>1. CASE Upto(Contents, started, (pl.base + pl.off) - 1)
    BY <2>1, Zenon
  <2>2. CASE nextSeq <= nextSeq'
    <3>1. nextSeq \in Int /\ nextSeq' \in Int
      BY DEF RunnerTypes, SessionTypes
    <3>2. \A n \in S : nextSeq <= n
      BY <1>5, <2>2, <3>1
    <3> QED BY <3>2, Zenon
  <2> QED BY <1>4, <2>1, <2>2
<1>7. \A n \in S : n \in DOMAIN started \/ Unused(n)
  <2>1. ASSUME NEW n \in S, n \notin DOMAIN started PROVE Unused(n)
    <3>1. n \in Int /\ pl.base <= n
      BY <1>5
    <3> QED BY <1>3, <1>6, <2>1, <3>1, StartsUnused
  <2> QED BY <2>1
<1>8. /\ Distinct(started')
      /\ \A n \in DOMAIN started' : /\ started'[n] \notin gone /\ started'[n] \notin orphans
                                    /\ started'[n] \notin Held /\ started'[n] \notin InOut
                                    /\ started'[n].gen <= gen
  BY <1>1, <1>5, <1>7, StartApart
<1>9. /\ \A x \in Fetching' : x \notin gone /\ x \notin orphans /\ x \notin Held /\ x \notin InOut /\ x.gen <= gen
  BY <1>8, Zenon DEF Fetching
<1>10. out = <<>>
  BY <1>1 DEF RunnerTypes, Places
<1>11. InOut = {} /\ InOut' = {}
  BY <1>1, <1>10, NoOwners, Zenon
<1> DEFINE Moved == Apart' /\ Generations' /\ Contents' \subseteq Contents
<1>12. ASSUME settle' = settle, Release({}) PROVE Moved
  <2>1. Held' = Held
    BY <1>12, Zenon DEF Held
  <2>2. gone' = gone \cup {} /\ misuse' = (misuse \/ {} \cap gone # {})
    BY <1>12, Zenon DEF Release, GiveAway
  <2>3. gone' = gone
    BY <2>2
  <2>4. ~misuse'
    <3>1. {} \cap gone = {} /\ ~misuse
      BY Zenon DEF Apart
    <3> QED BY <2>2, <3>1, Zenon
  <2>5. Disjoint(gone', orphans', Fetching', Held', InOut')
    BY <1>1, <1>9, <1>11, <2>1, <2>3, Zenon DEF Apart, Disjoint
  <2>6. Apart'
    BY <1>1, <1>8, <1>12, <2>4, <2>5, Zenon DEF Apart
  <2>7. Generations'
    BY <1>1, <1>9, <1>11, <2>1, <2>3, Zenon DEF Generations, Owned
  <2>8. Contents' \subseteq Contents
    BY <1>1, <1>11, <2>1, <2>3, SpentIs, ContentsKept, Zenon
  <2> QED BY <2>6, <2>7, <2>8
<1>13. ASSUME settle' = SettleCancel(settle), Release(Held) PROVE Moved
  <2>1. settle'.buf = <<>>
    <3>1. settle \in SettleType
      BY Zenon DEF RunnerTypes, BodyTypes, SettleType
    <3> QED BY <1>13, <3>1, CancelIs, Zenon
  <2>2. gone' = gone \cup Held /\ misuse' = (misuse \/ Held \cap gone # {})
    BY <1>13, Zenon DEF Release, GiveAway
  <2>3. Held' = {}
    BY <2>1, NoOwners, Zenon
  <2>4. ~misuse'
    <3>1. Held \cap gone = {} /\ ~misuse
      BY Moves, Zenon DEF Apart
    <3> QED BY <2>2, <3>1, Zenon
  <2>5. Disjoint(gone', orphans', Fetching', Held', InOut')
    BY <1>1, <1>9, <1>11, <2>2, <2>3, Zenon DEF Apart, Disjoint
  <2>6. Apart'
    BY <1>1, <1>8, <2>1, <2>4, <2>5, DistinctNothing, Zenon DEF Apart
  <2>7. Generations'
    BY <1>1, <1>9, <1>11, <2>2, <2>3, Zenon DEF Generations, Owned
  <2>8. Contents' \subseteq Contents
    <3>1. \A b \in gone' \cup orphans' : b.gen = gen => b \in Spent
      BY <1>1, <2>2, SpentIs, Zenon
    <3> QED BY <1>1, <1>11, <2>3, <3>1, SpentIs, ContentsKept, Zenon
  <2> QED BY <2>6, <2>7, <2>8
<1> QED BY <1>4, <1>12, <1>13, Zenon DEF Adjusted, Owners

\* The body that Wait gives is held, sent, or was none after all.
LEMMA OwnersWaited ==
  ASSUME RunnerTypes, RunnerTypes', Apart, Generations, Timeline, NEW S, NEW b, Waited(S, b)
  PROVE  /\ Apart' /\ Generations'
         /\ \/ Contents' \subseteq Contents
            \/ Contents' \subseteq Contents \cup {b.c} /\ nextSeq' = seg + 1
<1>1. Waits(S, b) /\ UNCHANGED orphans
  BY Zenon DEF Waited
<1>2. UNCHANGED <<last, gone, misuse, gen>> /\ out = <<>>
  BY <1>1, Zenon DEF Waits
<1>3. /\ Distinct(started')
      /\ \A n \in DOMAIN started' : /\ started'[n] \notin gone /\ started'[n] \notin orphans
                                    /\ started'[n] \notin Held /\ started'[n] \notin InOut
                                    /\ started'[n].gen <= gen /\ started'[n] # b
      /\ b \notin gone /\ b \notin orphans /\ b \notin Held /\ b \notin InOut /\ b.gen <= gen
  BY <1>1, WaitApart
<1>4. \A x \in Fetching' : /\ x \notin gone /\ x \notin orphans /\ x \notin Held /\ x \notin InOut
                           /\ x # b /\ x.gen <= gen
  BY <1>3, Zenon DEF Fetching
<1>5. InOut = {} /\ b \in BodySet
  BY <1>1, <1>2, NoOwners, WaitIs, Zenon
<1>6. settle \in SettleType
  BY Zenon DEF RunnerTypes, BodyTypes, SettleType
<1>7. ~misuse'
  BY <1>2, Zenon DEF Apart
<1>8. CASE UNCHANGED <<settle, out>>
  <2>1. Held' = Held /\ InOut' = InOut
    BY <1>8, Zenon DEF Held, InOut
  <2>2. Disjoint(gone', orphans', Fetching', Held', InOut')
    BY <1>1, <1>2, <1>4, <2>1, Zenon DEF Apart, Disjoint
  <2>3. Apart'
    BY <1>3, <1>7, <1>8, <2>2, Zenon DEF Apart
  <2>4. Generations'
    BY <1>1, <1>2, <1>4, <2>1, Zenon DEF Generations, Owned
  <2>5. Contents' \subseteq Contents
    BY <1>1, <1>2, <2>1, SpentIs, ContentsKept, Zenon
  <2> QED BY <2>3, <2>4, <2>5
<1>9. ASSUME Held' \cup InOut' \subseteq Held \cup {b}, Held' \cap InOut' = {},
             Distinct(settle'.buf), DistinctMedia(out'), nextSeq' = seg + 1
      PROVE  Apart' /\ Generations' /\ Contents' \subseteq Contents \cup {b.c} /\ nextSeq' = seg + 1
  <2>1. Disjoint(gone', orphans', Fetching', Held', InOut')
    <3>1. \A x \in Held' \cup InOut' : x \in Held \/ x = b
      BY <1>9, Zenon
    <3>2. \A x \in Held' : x \notin InOut'
      BY <1>9, Zenon
    <3> QED BY <1>1, <1>2, <1>3, <1>4, <3>1, <3>2, Zenon DEF Apart, Disjoint
  <2>2. Apart'
    BY <1>3, <1>7, <1>9, <2>1, Zenon DEF Apart
  <2>3. Generations'
    BY <1>1, <1>2, <1>3, <1>4, <1>9, Zenon DEF Generations, Owned
  <2>4. Contents' \subseteq Contents \cup {b.c}
    <3>1. Spent' \subseteq Spent \cup {b}
      BY <1>1, <1>2, <1>9, Zenon DEF Spent
    <3> QED BY <1>2, <3>1, Zenon DEF Contents
  <2> QED BY <1>9, <2>2, <2>3, <2>4
<1>10. CASE nextSeq' = seg + 1 /\ settle' = [settle EXCEPT !.buf = Append(settle.buf, b)] /\ UNCHANGED out
  <2>1. settle'.buf = Append(settle.buf, b)
    BY <1>5, <1>6, <1>10, GrownIs, Zenon
  <2>2. PICK q, z : q = settle.buf /\ z = Append(q, b)
    OBVIOUS
  <2>3. q \in Seq(BodySet)
    BY <1>6, <2>2, SettleFields
  <2>4. /\ z \in Seq(BodySet) /\ Len(q) \in Nat /\ Len(z) = Len(q) + 1 /\ \A i \in 1..Len(q) : z[i] = q[i]
        /\ z[Len(q) + 1] = b
    BY <1>5, <2>2, <2>3, AppendIs
  <2>5. \A i \in 1..Len(z) : i \in 1..Len(q) \/ i = Len(q) + 1
    BY <2>4
  <2>6. DOMAIN z = 1..Len(z) /\ DOMAIN q = 1..Len(q)
    BY <2>3, <2>4
  <2>7. \A i \in 1..Len(q) : q[i] \in Held
    <3>1. Held = ToSet(q)
      BY <2>2, Zenon DEF Held
    <3> QED BY <2>3, <3>1, HasBody
  <2>8. \A i \in 1..Len(q) : q[i] # b
    BY <1>3, <2>7, Zenon
  <2>9. Distinct(q)
    BY <2>2, Zenon DEF Apart
  <2>10. Distinct(z)
    BY <2>4, <2>5, <2>6, <2>8, <2>9, Zenon DEF Distinct
  <2>11. ToSet(z) \subseteq ToSet(q) \cup {b}
    <3>1. \A x \in ToSet(z) : \E i \in 1..Len(z) : z[i] = x
      BY <2>4, HasBody
    <3>2. \A i \in 1..Len(q) : q[i] \in ToSet(q)
      BY <2>3, HasBody
    <3>3. ASSUME NEW x \in ToSet(z) PROVE x \in ToSet(q) \cup {b}
      <4>1. PICK i \in 1..Len(z) : z[i] = x
        BY <3>1
      <4>2. CASE i \in 1..Len(q)
        <5>1. z[i] = q[i]
          BY <2>4, <4>2
        <5> QED BY <3>2, <4>1, <4>2, <5>1, Zenon
      <4>3. CASE i = Len(q) + 1
        <5>1. z[i] = b
          BY <2>4, <4>3
        <5> QED BY <4>1, <5>1
      <4> QED BY <2>5, <4>2, <4>3
    <3> QED BY <3>3
  <2>12. InOut' = {}
    BY <1>2, <1>10, NoOwners, Zenon
  <2>13. Held' \subseteq Held \cup {b}
    BY <2>1, <2>2, <2>11, Zenon DEF Held
  <2>14. DistinctMedia(out') /\ Distinct(settle'.buf)
    BY <1>10, <2>1, <2>2, <2>10, Zenon DEF Apart
  <2>15. Held' \cup InOut' \subseteq Held \cup {b} /\ Held' \cap InOut' = {} /\ nextSeq' = seg + 1
    BY <1>10, <2>12, <2>13, Zenon
  <2> QED BY <1>9, <2>14, <2>15, Zenon
<1>11. CASE nextSeq' = seg + 1 /\ ~settle.active /\ settle' = settle /\ out' = <<Media(b)>>
  <2>1. Media(b) \in ItemSet /\ Media(b).body = b
    BY <1>5, MediaIs
  <2>2. <<Media(b)>> \in Seq(ItemSet) /\ Len(<<Media(b)>>) = 1 /\ <<Media(b)>>[1] = Media(b)
    BY <2>1, OneIs
  <2>3. \A x \in Bodies(<<Media(b)>>) : x = b
    <3>0. PICK t \in Seq(ItemSet) : t = <<Media(b)>>
      BY <2>2
    <3>1. \A x \in Bodies(t) : \E i \in 1..Len(t) : t[i].kind = "media" /\ t[i].body = x
      BY HasMedia, Zenon
    <3>2. Len(t) = 1 /\ t[1].body = b
      BY <2>1, <2>2, <3>0, Zenon
    <3>3. \A i \in 1..Len(t) : i = 1
      BY <3>2
    <3>4. \A x \in Bodies(t) : x = b
      BY <3>1, <3>2, <3>3, Zenon
    <3> QED BY <3>0, <3>4, Zenon
  <2>4. \A x \in InOut' : x = b
    BY <1>11, <2>3, Zenon DEF InOut
  <2>5. Held' = {} /\ Held = {}
    <3>1. settle.buf = <<>> /\ settle'.buf = <<>>
      BY <1>11, Zenon DEF RunnerTypes, Places
    <3> QED BY <3>1, NoOwners, Zenon
  <2>6. DistinctMedia(out') /\ Distinct(settle'.buf)
    BY <1>11, DistinctOne, Zenon DEF Apart
  <2>7. Held' \cup InOut' \subseteq Held \cup {b} /\ Held' \cap InOut' = {} /\ nextSeq' = seg + 1
    BY <1>11, <2>4, <2>5, Zenon
  <2> QED BY <1>9, <2>6, <2>7, Zenon
<1> QED BY <1>8, <1>10, <1>11, Zenon DEF Waited
(***************************************************************************)
(* The numbers of the origin, of the window and of what was given.         *)
(***************************************************************************)
LEMMA AlignedLess ==
  ASSUME NEW C, NEW m, NEW ns, NEW o, NEW f, NEW x, Aligned(C, m, ns, o, f, x),
         NEW D, D \subseteq C, NEW w, More(m, w, {}, 0)
  PROVE  Aligned(D, w, ns, o, f, x)
<1>1. \A n \in DOMAIN w : n \in DOMAIN m /\ w[n] = m[n]
  BY Zenon DEF More
<1> QED BY <1>1, Zenon DEF Aligned, Upto

LEMMA TimelineKept ==
  ASSUME Timeline, Contents' \subseteq Contents, More(started, started', {}, 0),
         UNCHANGED <<origin, pl, nextSeq, prevBase>>, ~Over' => ~Over,
         Where' \in {"idle", "retry", "round", "window"} => Where \in {"idle", "retry", "round", "window"},
         Where' \in {"round", "window"} => Where \in {"round", "window"}, InRound' => InRound
  PROVE  Timeline'
<1>1. AtOrigin => AtOrigin'
  BY AlignedLess, Zenon DEF AtOrigin
<1>2. AtWindow => AtWindow'
  BY AlignedLess, Zenon DEF AtWindow
<1>3. \A o, f : Rewind(Contents, started, prevBase, o, f) => Rewind(Contents', started', prevBase', o, f)
  BY RewindKept, Zenon
<1> QED BY <1>1, <1>2, <1>3, Zenon DEF Timeline

LEMMA MoreSame ==
  ASSUME started' \in {started, <<>>}
  PROVE  More(started, started', {}, 0)
<1>1. DOMAIN <<>> = {}
  OBVIOUS
<1> QED BY <1>1, Zenon DEF More

\* Steps of a round, and those that are in none.
LEMMA TimelineQuiet ==
  ASSUME RunnerTypes, RunnerTypes', Apart, Generations, Timeline,
         SettleSent \/ MapFetched \/ Sent \/ Skipped \/ Consume \/ Cancel \/ Drain \/ UNCHANGED vars
  PROVE  Timeline'
<1>1. UNCHANGED <<origin, pl, nextSeq, prevBase, started>>
  BY DEF SettleSent, MapFetched, Sent, Skipped, Consume, Cancel, Drain, vars, world, window, fetches
<1>2. \/ Where' = Where
      \/ Where \in {"segment", "done"} /\ Where' \in {"segment", "done"}
      \/ Over'
  <2>1. CASE SettleSent
    BY <2>1 DEF SettleSent, Where, Over
  <2>2. CASE MapFetched
    BY <2>2 DEF MapFetched, Where
  <2>3. CASE Sent
    BY <2>3, Zenon DEF Sent
  <2>4. CASE Skipped
    BY <2>4 DEF Skipped, Where
  <2>5. CASE Consume \/ Cancel \/ Drain \/ UNCHANGED vars
    BY <2>5, OutsideSteps, Zenon DEF Outside
  <2> QED BY <2>1, <2>2, <2>3, <2>4, <2>5
<1>3. Owners
  BY OwnersSettled, OwnersMapFetched, OwnersSent, OwnersIdle, OwnersOutside
<1>4. CASE Over'
  BY <1>4, Zenon DEF Timeline
<1>5. CASE ~Over'
  <2>1. Contents' \subseteq Contents
    BY <1>3, <1>5, Zenon DEF Owners
  <2>2. More(started, started', {}, 0)
    BY <1>1, MoreSame
  <2>3. CASE Where' = Where
    <3>1. (Over' <=> Over) /\ (InRound' <=> InRound)
      BY <2>3, Zenon DEF Over, InRound
    <3> QED BY <1>1, <2>1, <2>2, <2>3, <3>1, TimelineKept, Zenon
  <2>4. CASE Where \in {"segment", "done"} /\ Where' \in {"segment", "done"}
    <3>1. ~Over /\ InRound /\ Where' \notin {"idle", "retry", "round", "window"} /\ Where' \notin {"round", "window"}
      BY <2>4 DEF Over, InRound
    <3> QED BY <1>1, <2>1, <2>2, <3>1, TimelineKept, Zenon
  <2> QED BY <1>2, <1>5, <2>3, <2>4
<1> QED BY <1>4, <1>5

LEMMA TimelineOrigin ==
  ASSUME RunnerTypes, RunnerTypes', Apart, Generations, Timeline, Origin
  PROVE  Timeline'
<1>1. /\ UNCHANGED <<pl, nextSeq, prevBase, started, settle, orphans, gone, gen, out, last>> /\ Where' = Where
      /\ (Produce \/ Restart)
  BY OutsideSteps, Zenon DEF Outside, Origin, fetches, pool
<1>11. pc \in {"idle", "retry", "round"}
  BY Zenon DEF Origin
<1>2. Contents' = Contents
  <2>1. Held' = Held /\ InOut' = InOut
    BY <1>1, Zenon DEF Held, InOut
  <2> QED BY <1>1, <2>1, Zenon DEF Contents, Spent
<1>3. ~Over /\ Where \in {"idle", "retry", "round", "window"}
  <2>1. Where = pc
    BY <1>11 DEF Where
  <2> QED BY <1>11, <2>1, Zenon DEF Over
<1>4. AtOrigin /\ Rewind(Contents, started, prevBase, origin.off, origin.first)
  BY <1>3, Zenon DEF Timeline
<1>5. PICK C, m, ns, pb, o, f, x : /\ C = Contents /\ m = started /\ ns = nextSeq /\ pb = prevBase /\ o = origin.off
                                   /\ f = origin.first /\ x = LastContent(origin)
  OBVIOUS
<1>6. PICK p, g, y : p = origin'.off /\ g = origin'.first /\ y = LastContent(origin')
  OBVIOUS
<1>7. Timed(C, m) /\ Aligned(C, m, ns, o, f, x) /\ Rewind(C, m, pb, o, f)
  BY <1>4, <1>5, ContentTypes, Zenon DEF AtOrigin
<1>8. /\ ns \in Int /\ pb \in Int /\ o \in Int /\ f \in Int /\ x \in Int /\ f - 1 <= x
      /\ p \in Int /\ g \in Int /\ y \in Int
  BY <1>5, <1>6 DEF RunnerTypes, SessionTypes, LastContent
<1>9. CASE Produce
  <2>1. p = o /\ f <= g /\ x <= y
    BY <1>5, <1>6, <1>9 DEF Produce, RunnerTypes, SessionTypes, LastContent
  <2>2. Aligned(C, m, ns, p, g, y) /\ Rewind(C, m, pb, p, g)
    BY <1>7, <1>8, <2>1, OriginGoesOn
  <2>3. Within(pl, origin) => Within(pl, origin')
    <3>1. PICK po, pf, pe : po = pl.off /\ pf = pl.base + pl.off /\ pe = End(pl) + pl.off
      OBVIOUS
    <3>2. pf \in Int /\ pe \in Int
      BY <3>1 DEF RunnerTypes, SessionTypes, End
    <3>3. ((po = o /\ pf <= f /\ pe <= x) \/ pe < f) => ((po = p /\ pf <= g /\ pe <= y) \/ pe < g)
      BY <1>8, <2>1, <3>2
    <3> QED BY <1>5, <1>6, <3>1, <3>3, Zenon DEF Within
  <2> QED BY <1>1, <1>2, <1>3, <1>5, <1>6, <2>2, <2>3, Zenon DEF Timeline, AtOrigin, AtWindow, InRound
<1>10. CASE Restart
  <2>1. x < g /\ g <= y
    BY <1>5, <1>6, <1>10 DEF Restart, RunnerTypes, SessionTypes, LastContent
  <2>2. Upto(C, m, x)
    BY <1>7, Zenon DEF Aligned
  <2>3. Aligned(C, m, ns, p, g, y) /\ Rewind(C, m, pb, p, g)
    BY <1>7, <1>8, <2>1, <2>2, OriginBegins
  <2>4. Within(pl, origin) => Within(pl, origin')
    <3>1. PICK po, pf, pe : po = pl.off /\ pf = pl.base + pl.off /\ pe = End(pl) + pl.off
      OBVIOUS
    <3>2. pf \in Int /\ pe \in Int
      BY <3>1 DEF RunnerTypes, SessionTypes, End
    <3>3. ((po = o /\ pf <= f /\ pe <= x) \/ pe < f) => pe < g
      BY <1>8, <2>1, <3>2
    <3> QED BY <1>5, <1>6, <3>1, <3>3, Zenon DEF Within
  <2> QED BY <1>1, <1>2, <1>3, <1>5, <1>6, <2>3, <2>4, Zenon DEF Timeline, AtOrigin, AtWindow, InRound
<1> QED BY <1>1, <1>9, <1>10

LEMMA TimelineAsked ==
  ASSUME RunnerTypes, RunnerTypes', Apart, Generations, Timeline, Asked
  PROVE  Timeline'
<1>1. /\ pc \in {"idle", "retry", "round"} /\ pc' \in {"idle", "retry", "round", "window", "ending"}
      /\ UNCHANGED <<origin, nextSeq, prevBase>>
      /\ pl' \in {pl, Playlist(origin)}
      /\ (pc' = "round" => pl' = Playlist(origin))
      /\ (pc' = "window" => pl' = Playlist(origin) \/ (pc = "round" /\ pl' = pl))
  BY Zenon DEF Asked
<1>2. Where = pc /\ Where' = pc' /\ ~Over /\ Where \in {"idle", "retry", "round", "window"}
  BY <1>1 DEF Where, Over
<1>3. Owners /\ started' \in {started, <<>>}
  BY OwnersAsked
<1>4. CASE Over'
  BY <1>4, Zenon DEF Timeline
<1>5. CASE ~Over'
  <2>1. Contents' \subseteq Contents /\ More(started, started', {}, 0)
    BY <1>3, <1>5, MoreSame, Zenon DEF Owners
  <2>2. CASE pl' = Playlist(origin)
    <3>1. AtOrigin /\ Rewind(Contents, started, prevBase, origin.off, origin.first)
      BY <1>2, Zenon DEF Timeline
    <3>2. AtOrigin'
      BY <1>1, <2>1, <3>1, AlignedLess, Zenon DEF AtOrigin
    <3>3. Rewind(Contents', started', prevBase', origin'.off, origin'.first)
      BY <1>1, <2>1, <3>1, RewindKept, Zenon
    <3>4. /\ pl'.off = origin'.off /\ pl'.base + pl'.off = origin'.first
          /\ End(pl') + pl'.off = LastContent(origin')
      BY <1>1, <2>2, PlaylistIs DEF RunnerTypes, SessionTypes
    <3>5. AtWindow' /\ Rewind(Contents', started', prevBase', pl'.off, pl'.base + pl'.off)
      BY <3>2, <3>3, <3>4, Zenon DEF AtOrigin, AtWindow
    <3>6. Within(pl', origin')
      <4>1. origin'.first <= origin'.first /\ LastContent(origin') <= LastContent(origin')
        BY DEF RunnerTypes, SessionTypes, LastContent
      <4> QED BY <3>4, <4>1, Zenon DEF Within
    <3> QED BY <3>2, <3>3, <3>5, <3>6, Zenon DEF Timeline
  <2>3. CASE pl' = pl /\ ~(pl' = Playlist(origin))
    <3>1. Where' \in {"round", "window"} => Where \in {"round", "window"}
      BY <1>1, <1>2, <2>3
    <3>2. InRound' => InRound
      <4>1. Where' = "window" => Where = "round"
        BY <1>1, <1>2, <2>3
      <4>2. Where' \in {"idle", "retry", "window", "ending"}
        BY <1>1, <1>2, <2>3
      <4> QED BY <4>1, <4>2 DEF InRound
    <3> QED BY <1>1, <1>2, <2>1, <2>3, <3>1, <3>2, TimelineKept, Zenon
  <2> QED BY <1>1, <2>2, <2>3, Zenon
<1> QED BY <1>4, <1>5

LEMMA TimedMore ==
  ASSUME NEW C, NEW m, Timed(C, m), NEW w, NEW S, S \subseteq Int, NEW o \in Int, More(m, w, S, o)
  PROVE  Timed(C, w)
<1>1. \A n \in S : n \in Int /\ n + o \in Int
  OBVIOUS
<1> QED BY <1>1, Zenon DEF Timed, More

\* The window is aligned again after its prefetches were started.
LEMMA TimelineAdjusted ==
  ASSUME RunnerTypes, RunnerTypes', Apart, Generations, Timeline, NEW S, Adjusted(S)
  PROVE  Timeline'
<1>1. /\ pc = "window" /\ pc' = "segment" /\ UNCHANGED <<origin, pl, prevBase>>
      /\ S \subseteq nextSeq' .. End(pl) /\ started' = StartAll(started, pl, S)
      /\ pl.base <= nextSeq' /\ nextSeq' \in Int
  BY Zenon DEF Adjusted
<1>2. Where = "window" /\ Where' = "segment"
  BY <1>1 DEF Where
<1>3. AtWindow /\ Within(pl, origin)
  <2>1. InRound
    BY <1>2 DEF InRound
  <2> QED BY <2>1, TimelineIs
<1>4. Owners /\ (nextSeq <= nextSeq' \/ Upto(Contents, started, (pl.base + pl.off) - 1))
  BY OwnersAdjusted
<1>5. ~Over'
  BY <1>2 DEF Over
<1>6. Contents' \subseteq Contents
  BY <1>4, <1>5, Zenon DEF Owners
<1>7. pl.base \in Int /\ pl.off \in Int /\ End(pl) \in Int /\ nextSeq \in Int
  BY DEF RunnerTypes, SessionTypes, End
<1>8. S \subseteq Int /\ \A n \in S : n + pl.off <= End(pl) + pl.off
  BY <1>1, <1>7
<1>9. More(started, started', S, pl.off)
  <2>1. FromStart(S, started')
    BY <1>1, <1>8, StartTypes
  <2> QED BY <2>1, Zenon DEF FromStart, More
<1>10. PICK C, m, ns, o, f, x, D, w, nt : /\ C = Contents /\ m = started /\ ns = nextSeq /\ o = pl.off
                                         /\ f = pl.base + pl.off /\ x = End(pl) + pl.off
                                         /\ D = Contents' /\ w = started' /\ nt = nextSeq'
  OBVIOUS
<1>11. Timed(C, m) /\ Aligned(C, m, ns, o, f, x) /\ More(m, w, S, o)
  BY <1>3, <1>9, <1>10, ContentTypes, Zenon DEF AtWindow
<1>12. /\ ns \in Int /\ o \in Int /\ f \in Int /\ x \in Int /\ nt \in Int
       /\ (ns <= nt \/ Upto(C, m, f - 1)) /\ \A n \in S : n + o <= x
  BY <1>1, <1>4, <1>7, <1>8, <1>10
<1>13. D \subseteq C
  BY <1>6, <1>10, Zenon
<1>14. Aligned(D, w, nt, o, f, x)
  <2>1. \A c \in D : c \in C \/ (c \in Int /\ Behind(c, nt, o, f) /\ c <= x)
    BY <1>13, Zenon
  <2>2. Timed(C, m) /\ Aligned(C, m, ns, o, f, x) /\ More(m, w, S, o)
    BY <1>11
  <2>3. ns \in Int /\ o \in Int /\ f \in Int /\ x \in Int /\ nt \in Int
    BY <1>12
  <2>4. (ns <= nt \/ Upto(C, m, f - 1)) /\ \A n \in S : n + o <= x
    BY <1>12
  <2> QED BY <2>1, <2>2, <2>3, <2>4, AlignedGrows, Zenon
<1>15. AtWindow'
  BY <1>1, <1>10, <1>14, Zenon DEF AtWindow, End
<1>16. Within(pl', origin')
  BY <1>1, <1>3, Zenon
<1>17. AtOrigin'
  <2>1. pl' \in [base : Int, len : Nat, off : Int, map : Maps] /\ origin' \in [first : Int, len : Nat, off : Int, map : Maps]
        /\ nextSeq' \in Int
    BY Zenon DEF RunnerTypes, SessionTypes
  <2>2. PICK p, r : p = pl' /\ r = origin'
    OBVIOUS
  <2>3. Timed(D, w)
    <3>1. Timed(C, w)
      BY <1>8, <1>11, <1>12, TimedMore
    <3>2. D \subseteq C
      BY <1>13
    <3> QED BY <3>1, <3>2, Zenon DEF Timed
  <2>4. Aligned(D, w, nt, p.off, p.base + p.off, End(p) + p.off) /\ Within(p, r)
    BY <1>1, <1>10, <1>14, <1>16, <2>2, Zenon
  <2>5. Aligned(D, w, nt, r.off, r.first, LastContent(r))
    BY <1>12, <2>1, <2>2, <2>3, <2>4, OriginToo
  <2> QED BY <1>10, <2>2, <2>5, Zenon DEF AtOrigin
<1>18. Where' \notin {"idle", "retry", "round", "window"} /\ Where' \notin {"round", "window"}
  BY <1>2
<1> QED BY <1>15, <1>16, <1>17, <1>18, Zenon DEF Timeline

\* What is aligned with the window of a round is aligned with the origin too.
LEMMA TimelineInWindow ==
  ASSUME RunnerTypes', Timed(Contents', started'), AtWindow', Within(pl', origin'), Where' \in {"segment", "done"}
  PROVE  Timeline'
<1>1. pl' \in [base : Int, len : Nat, off : Int, map : Maps] /\ origin' \in [first : Int, len : Nat, off : Int, map : Maps]
      /\ nextSeq' \in Int
  BY Zenon DEF RunnerTypes, SessionTypes
<1>2. PICK p, r, C, m, ns : p = pl' /\ r = origin' /\ C = Contents' /\ m = started' /\ ns = nextSeq'
  OBVIOUS
<1>3. Aligned(C, m, ns, p.off, p.base + p.off, End(p) + p.off) /\ Within(p, r) /\ Timed(C, m)
  BY <1>2, Zenon DEF AtWindow, End
<1>4. Aligned(C, m, ns, r.off, r.first, LastContent(r))
  BY <1>1, <1>2, <1>3, OriginToo
<1>5. AtOrigin'
  BY <1>2, <1>4, Zenon DEF AtOrigin
<1>6. Where' \notin {"idle", "retry", "round", "window"} /\ Where' \notin {"round", "window"}
  OBVIOUS
<1> QED BY <1>5, <1>6, Zenon DEF Timeline

LEMMA TimelineWaited ==
  ASSUME RunnerTypes, RunnerTypes', Apart, Generations, Timeline, NEW S, NEW b, Waited(S, b)
  PROVE  Timeline'
<1>1. Waits(S, b) /\ Where = "segment" /\ seg = nextSeq /\ seg <= End(pl) /\ S \subseteq seg .. End(pl)
      /\ UNCHANGED <<origin, pl>> /\ nextSeq' \in {nextSeq, seg + 1}
  BY Zenon DEF Waited, Waits
<1>2. Where' \in {"segment", "done"}
  <2>1. pc' \in {"segment", "done"} \/ (pc' = "send" /\ back' = "segment")
    BY Zenon DEF Waited
  <2> QED BY <2>1 DEF Where
<1>3. AtWindow /\ Within(pl, origin)
  <2>1. InRound
    BY <1>1 DEF InRound
  <2> QED BY <2>1, TimelineIs
<1>4. \/ Contents' \subseteq Contents
      \/ Contents' \subseteq Contents \cup {b.c} /\ nextSeq' = seg + 1
  BY OwnersWaited
<1>5. PICK C, m, ns, o, f, x, D, w, nt, X, v :
        /\ C = Contents /\ m = started /\ ns = nextSeq /\ o = pl.off /\ f = pl.base + pl.off /\ x = End(pl) + pl.off
        /\ D = Contents' /\ w = started' /\ nt = nextSeq' /\ X = Contents' \ Contents /\ v = b.c
  OBVIOUS
<1>6. ns \in Int /\ o \in Int /\ f \in Int /\ x \in Int /\ nt \in Int /\ seg \in Int /\ End(pl) \in Int
  BY <1>5 DEF RunnerTypes, SessionTypes, End
<1>7. Timed(C, m) /\ Aligned(C, m, ns, o, f, x)
  BY <1>3, <1>5, ContentTypes, Zenon DEF AtWindow
<1>8. S \subseteq Int /\ \A n \in S : n + o <= x
  <2>1. o \in Int /\ x = End(pl) + o
    BY <1>5, <1>6, Zenon
  <2> QED BY <1>1, <1>6, <2>1
<1>9. More(m, w, S, o)
  <2>1. \A n \in DOMAIN started' : \/ n \in DOMAIN started /\ started'[n] = started[n]
                                   \/ n \in S \ DOMAIN started /\ started'[n].c = n + pl.off
    BY <1>1, WaitIs, Zenon
  <2> QED BY <1>5, <2>1, Zenon DEF More
<1>10. v \in Int /\ (v = seg + o \/ v < f) /\ v <= x
  <2>1. \/ seg \in DOMAIN started /\ b = started[seg]
        \/ seg \notin DOMAIN started /\ b = Body(pl, seg, gen) /\ b.c = seg + pl.off /\ b.gen = gen
    BY <1>1, WaitBody, Zenon
  <2>2. CASE seg \in DOMAIN started /\ b = started[seg]
    BY <1>5, <1>7, <2>2, Zenon DEF Timed, Aligned, Upto
  <2>3. CASE b.c = seg + pl.off
    <3>1. v = seg + o /\ x = End(pl) + o /\ seg <= End(pl)
      BY <1>1, <1>5, <2>3, Zenon
    <3> QED BY <1>6, <3>1
  <2> QED BY <2>1, <2>2, <2>3, Zenon
<1>11. \A c \in X : c \in Int /\ Behind(c, nt, o, f) /\ c <= x
  <2>1. X = {} \/ (X \subseteq {v} /\ nt = seg + 1)
    BY <1>4, <1>5, Zenon
  <2>2. ASSUME nt = seg + 1 PROVE v \in Int /\ (v < nt + o \/ v < f) /\ v <= x
    BY <1>6, <1>10, <2>2
  <2>3. CASE X = {}
    BY <2>3, Zenon
  <2>4. CASE X \subseteq {v} /\ nt = seg + 1
    BY <2>2, <2>4, Zenon DEF Behind
  <2> QED BY <2>1, <2>3, <2>4
<1>12. ns <= nt
  <2>1. ns = seg /\ nt \in {ns, seg + 1}
    BY <1>1, <1>5, Zenon
  <2> QED BY <1>6, <2>1
<1>13. D \subseteq C \cup X
  BY <1>5, Zenon
<1>14. Aligned(D, w, nt, o, f, x)
  <2>1. \A c \in D : c \in C \/ (c \in Int /\ Behind(c, nt, o, f) /\ c <= x)
    BY <1>11, <1>13, Zenon
  <2> QED BY <1>6, <1>7, <1>8, <1>9, <1>12, <2>1, AlignedGrows, Zenon
<1>15. AtWindow' /\ Within(pl', origin')
  BY <1>1, <1>3, <1>5, <1>14, Zenon DEF AtWindow, End
<1>16. Timed(D, w)
  <2>1. Timed(C, w)
    BY <1>6, <1>7, <1>8, <1>9, TimedMore
  <2> QED BY <1>11, <1>13, <2>1, Zenon DEF Timed
<1>17. Timed(Contents', started')
  BY <1>5, <1>16, Zenon
<1> QED BY <1>2, <1>15, <1>17, TimelineInWindow

LEMMA TimelineEnded ==
  ASSUME RunnerTypes, RunnerTypes', Apart, Generations, Timeline, Ended
  PROVE  Timeline'
<1>1. Where \in {"segment", "done"} /\ pc' = "idle" /\ prevBase' = pl.base /\ UNCHANGED <<origin, nextSeq, started>>
  BY Zenon DEF Ended
<1>2. Where' = "idle"
  BY <1>1 DEF Where
<1>3. AtWindow /\ Within(pl, origin)
  <2>1. InRound
    BY <1>1 DEF InRound
  <2> QED BY <2>1, TimelineIs
<1>4. Contents' \subseteq Contents
  <2>1. ~Over'
    BY <1>2 DEF Over
  <2> QED BY <2>1, OwnersIdle, Zenon DEF Owners
<1>5. PICK p, r, C, m, ns : p = pl /\ r = origin /\ C = Contents /\ m = started /\ ns = nextSeq
  OBVIOUS
<1>6. /\ p \in [base : Int, len : Nat, off : Int, map : Maps] /\ r \in [first : Int, len : Nat, off : Int, map : Maps]
      /\ ns \in Int /\ Timed(C, m)
  BY <1>5, ContentTypes, Zenon DEF RunnerTypes, SessionTypes
<1>7. Aligned(C, m, ns, p.off, p.base + p.off, End(p) + p.off) /\ Within(p, r)
  BY <1>3, <1>5, Zenon DEF AtWindow
<1>8. Aligned(C, m, ns, r.off, r.first, LastContent(r)) /\ Rewind(C, m, p.base, r.off, r.first)
  BY <1>6, <1>7, OriginToo
<1>9. More(started, started', {}, 0)
  BY <1>1, MoreSame
<1>10. AtOrigin'
  BY <1>1, <1>4, <1>5, <1>8, <1>9, AlignedLess, Zenon DEF AtOrigin
<1>11. Rewind(Contents', started', prevBase', origin'.off, origin'.first)
  BY <1>1, <1>4, <1>5, <1>8, <1>9, RewindKept, Zenon
<1>12. Where' \notin {"round", "window"} /\ ~InRound'
  BY <1>2 DEF InRound
<1> QED BY <1>10, <1>11, <1>12, Zenon DEF Timeline

LEMMA TimelineOver ==
  ASSUME SendLost \/ Stopped \/ Closed
  PROVE  Timeline'
<1>1. pc' \in {"ending", "closing", "closed"}
  BY Zenon DEF SendLost, Stopped, Closed
<1>2. Over'
  BY <1>1 DEF Over, Where
<1> QED BY <1>2, Zenon DEF Timeline

\* Together they are inductive.
Owning == RunnerTypes /\ Apart /\ Generations /\ Timeline

LEMMA OwningStarts == Init => Owning
<1>1. SUFFICES ASSUME Init PROVE Owning
  OBVIOUS
<1>2. RunnerTypes
  BY <1>1, TypesStart
<1>3. /\ pc = "idle" /\ out = <<>> /\ settle = NoHold /\ started = <<>> /\ orphans = {} /\ gone = {} /\ gen = 0
      /\ ~misuse /\ last = [c |-> 0, init |-> ""]
  BY <1>1, Zenon DEF Init, InitRunner, InitSession
<1>4. settle.buf = <<>>
  BY <1>3, NoHoldIs, Zenon
<1>5. DOMAIN started = {} /\ Fetching = {}
  <2>1. DOMAIN <<>> = {}
    OBVIOUS
  <2> QED BY <1>3, <2>1, Zenon DEF Fetching
<1>6. Held = {} /\ InOut = {}
  BY <1>3, <1>4, NoOwners, Zenon
<1>7. Apart
  BY <1>3, <1>4, <1>5, <1>6, DistinctNothing, Zenon DEF Apart, Disjoint
<1>8. Generations
  BY <1>3, <1>5, <1>6, Zenon DEF Generations, Owned
<1>9. Contents = {0}
  <2>1. Spent = {}
    BY <1>3, <1>6, Zenon DEF Spent
  <2>2. last.c = 0
    BY <1>3
  <2>3. \A c : c \in Contents <=> c = 0
    BY <2>1, <2>2, Zenon DEF Contents
  <2> QED BY <2>3, Zenon
<1>10. /\ nextSeq \in {1, 2} /\ prevBase = 1 /\ origin.off = 0 /\ origin.first = 1 /\ LastContent(origin) = 1
  <2>1. PICK u : origin = [first |-> 1, len |-> 1, off |-> 0, map |-> u]
    BY <1>1, Zenon DEF Init, InitOrigin
  <2>2. origin.off = 0 /\ origin.first = 1 /\ origin.len = 1
    BY <2>1
  <2>3. LastContent(origin) = 1
    BY <2>2 DEF LastContent
  <2>4. nextSeq \in {1, 2} /\ prevBase = 1
    BY <1>1, Zenon DEF Init, InitSession
  <2> QED BY <2>2, <2>3, <2>4, Zenon
<1>11. AtOrigin
  <2>1. PICK C, m, ns, o, f, x : /\ C = Contents /\ m = started /\ ns = nextSeq /\ o = origin.off /\ f = origin.first
                                 /\ x = LastContent(origin)
    OBVIOUS
  <2>2. C = {0} /\ DOMAIN m = {} /\ o = 0 /\ f = 1 /\ x = 1
    BY <1>5, <1>9, <1>10, <2>1, Zenon
  <2>3. Aligned(C, m, ns, o, f, x)
    BY <2>2 DEF Aligned, Behind, Upto
  <2> QED BY <2>1, <2>3, Zenon DEF AtOrigin
<1>12. Rewind(Contents, started, prevBase, origin.off, origin.first)
  <2>1. PICK pb, o, f : pb = prevBase /\ o = origin.off /\ f = origin.first
    OBVIOUS
  <2>2. pb + o <= f
    BY <1>10, <2>1
  <2> QED BY <2>1, <2>2, Zenon DEF Rewind
<1>13. Where \notin {"round", "window"} /\ ~InRound
  BY <1>3 DEF Where, InRound
<1>14. Timeline
  BY <1>11, <1>12, <1>13, Zenon DEF Timeline
<1> QED BY <1>2, <1>7, <1>8, <1>14, Zenon DEF Owning

LEMMA OwningStep == Owning /\ [Next]_vars => Owning'
<1>1. SUFFICES ASSUME Owning, [Next]_vars PROVE Owning'
  OBVIOUS
<1>2. RunnerTypes /\ Apart /\ Generations /\ Timeline /\ RunnerTypes'
  BY <1>1, TypesStep DEF Owning
<1> DEFINE Goal == Apart' /\ Generations' /\ Timeline'
<1>3. ASSUME Origin \/ Consume \/ Cancel \/ Drain \/ UNCHANGED vars PROVE Goal
  <2>1. Owners
    BY <1>2, <1>3, OwnersOutside
  <2>2. Timeline'
    BY <1>2, <1>3, TimelineOrigin, TimelineQuiet
  <2> QED BY <2>1, <2>2, Zenon DEF Owners
<1>4. ASSUME Asked PROVE Goal
  <2>1. Owners /\ Timeline'
    BY <1>2, <1>4, OwnersAsked, TimelineAsked
  <2> QED BY <2>1, Zenon DEF Owners
<1>5. ASSUME SettleSent \/ MapFetched \/ Sent \/ Skipped PROVE Goal
  <2>1. Owners
    BY <1>2, <1>5, OwnersSettled, OwnersMapFetched, OwnersSent, OwnersIdle
  <2>2. Timeline'
    BY <1>2, <1>5, TimelineQuiet
  <2> QED BY <2>1, <2>2, Zenon DEF Owners
<1>6. ASSUME SendLost \/ Stopped \/ Closed PROVE Goal
  <2>1. Owners
    BY <1>2, <1>6, OwnersLost, OwnersStopped
  <2>2. Timeline'
    BY <1>6, TimelineOver
  <2> QED BY <2>1, <2>2, Zenon DEF Owners
<1>7. ASSUME Ended PROVE Goal
  <2>1. Owners /\ Timeline'
    BY <1>2, <1>7, OwnersIdle, TimelineEnded
  <2> QED BY <2>1, Zenon DEF Owners
<1>8. ASSUME NEW S, Adjusted(S) PROVE Goal
  <2>1. Owners /\ Timeline'
    BY <1>2, <1>8, OwnersAdjusted, TimelineAdjusted
  <2> QED BY <2>1, Zenon DEF Owners
<1>9. ASSUME NEW S, NEW b, Waited(S, b) PROVE Goal
  BY <1>2, <1>9, OwnersWaited, TimelineWaited
<1>10. Goal
  BY <1>1, <1>2, <1>3, <1>4, <1>5, <1>6, <1>7, <1>8, <1>9, Steps, Zenon
<1> QED BY <1>2, <1>10, Zenon DEF Owning

LEMMA OneOwnerFollows == Apart => BodiesHaveOneOwner
<1>1. SUFFICES ASSUME Apart PROVE BodiesHaveOneOwner
  OBVIOUS
<1>2. \A b \in gone : b \notin Fetching /\ b \notin orphans /\ b \notin Held /\ b \notin InOut
  BY <1>1, Zenon DEF Apart, Disjoint
<1>3. gone \cap (Fetching \cup orphans \cup Held \cup InOut) = {}
  BY <1>2, Zenon
<1>4. ~misuse
  BY <1>1, Zenon DEF Apart
<1> QED BY <1>3, <1>4, Zenon DEF BodiesHaveOneOwner, Fetching, Held, InOut

\* The pooled bodies: what a prefetch, a draining goroutine, InitSettle or a blocked
\* send still has was neither sent nor returned, and nothing is returned or sent
\* twice (SegmentPrefetcher.Wait, Abandon, PoolBytesReleaser), whatever the numbers
\* of the playlists do and whenever the URL is refreshed or the context ends.
THEOREM BodiesOwned == Spec => []BodiesHaveOneOwner
<1>1. Owning => BodiesHaveOneOwner
  BY OneOwnerFollows DEF Owning
<1> QED BY OwningStarts, OwningStep, <1>1, PTL DEF Spec
(***************************************************************************)
(* The contents go up.                                                     *)
(***************************************************************************)
HoldRises(q, n) == \A i \in 1..Len(q) : n < q[i].c /\ \A j \in 1..Len(q) : j < i => q[j].c < q[i].c
OutRises(q, n) == \A i \in 1..Len(q) : q[i].kind = "media" =>
    n < q[i].body.c /\ \A j \in 1..Len(q) : j < i /\ q[j].kind = "media" => q[j].body.c < q[i].body.c
Rising == ~stale => HoldRises(settle.buf, last.c) /\ OutRises(out, last.c)

LEMMA NothingRises == \A n : HoldRises(<<>>, n) /\ OutRises(<<>>, n)
<1>1. 1..Len(<<>>) = {}
  OBVIOUS
<1> QED BY <1>1, Zenon DEF HoldRises, OutRises

LEMMA RisingKept ==
  ASSUME Rising, UNCHANGED <<out, last>>, settle'.buf \in {settle.buf, <<>>}, ~stale' => ~stale
  PROVE  Rising'
BY NothingRises, Zenon DEF Rising

\* What Wait gives comes after everything that was given.
LEMMA WaitRises ==
  ASSUME Owning, Matching, ~stale, NEW S, NEW b, Waits(S, b)
  PROVE  b.c \in Int /\ last.c < b.c /\ \A d \in Held : d.c < b.c
<1>1. RunnerTypes /\ Timeline
  BY Zenon DEF Owning
<1>2. Where = "segment" /\ seg = nextSeq /\ pl.base <= seg
  BY Zenon DEF Waits
<1>3. AtWindow
  <2>1. InRound
    BY <1>2 DEF InRound
  <2> QED BY <1>1, <2>1, TimelineIs
<1>4. b.c = seg + pl.off
  BY <1>1, WaitMatches
<1>5. PICK C, ns, o, k, v : C = Contents /\ ns = nextSeq /\ o = pl.off /\ k = pl.base /\ v = b.c
  OBVIOUS
<1>6. /\ ns \in Int /\ o \in Int /\ k \in Int /\ k <= ns /\ v = ns + o /\ v \in Int
  BY <1>1, <1>2, <1>4, <1>5 DEF RunnerTypes, SessionTypes
<1>7. C \subseteq Int
  BY <1>1, <1>5, ContentTypes, Zenon DEF Timed
<1>8. \A c \in C : c < ns + o \/ c < k + o
  BY <1>3, <1>5, Zenon DEF AtWindow, Aligned, Behind
<1>9. \A c \in C : c < v
  BY <1>6, <1>7, <1>8
<1>10. last.c \in C /\ \A d \in Held : d.c \in C
  BY <1>5, Zenon DEF Contents, Spent
<1> QED BY <1>5, <1>6, <1>9, <1>10, Zenon

LEMMA RisingWaited ==
  ASSUME Owning, Matching, Rising, NEW S, NEW b, Waited(S, b)
  PROVE  Rising'
<1>1. RunnerTypes /\ Waits(S, b)
  BY Zenon DEF Owning, Waited
<1>2. UNCHANGED <<last, stale>> /\ b \in BodySet
  <2>1. b \in BodySet
    BY <1>1, WaitIs
  <2> QED BY <1>1, <2>1, Zenon DEF Waits
<1>3. CASE stale
  BY <1>2, <1>3, Zenon DEF Rising
<1>4. CASE ~stale
  <2>1. last.c < b.c /\ \A d \in Held : d.c < b.c
    BY <1>1, <1>4, WaitRises
  <2>2. settle \in SettleType
    BY <1>1, Zenon DEF RunnerTypes, BodyTypes, SettleType
  <2>3. CASE settle.active /\ settle' = [settle EXCEPT !.buf = Append(settle.buf, b)] /\ UNCHANGED out
    <3>1. settle'.buf = Append(settle.buf, b)
      BY <1>2, <2>2, <2>3, GrownIs, Zenon
    <3>2. PICK q, n, v : q = settle.buf /\ n = last.c /\ v = b.c
      OBVIOUS
    <3>3. q \in Seq(BodySet)
      BY <2>2, <3>2, SettleFields
    <3>4. PICK z : z = Append(q, b)
      OBVIOUS
    <3>5. /\ Len(q) \in Nat /\ Len(z) = Len(q) + 1 /\ z[Len(q) + 1] = b
          /\ \A i \in 1..Len(q) : z[i] = q[i]
      BY <1>2, <3>3, <3>4, AppendIs
    <3>6. \A i \in 1..Len(q) : q[i].c < v
      <4>1. Held = ToSet(q)
        BY <3>2, Zenon DEF Held
      <4>2. \A i \in 1..Len(q) : q[i] \in Held
        BY <3>3, <4>1, HasBody
      <4> QED BY <2>1, <3>2, <4>2, Zenon
    <3>7. HoldRises(q, n)
      BY <1>4, <3>2, Zenon DEF Rising
    <3>8. \A i \in 1..Len(z) : i \in 1..Len(q) \/ i = Len(q) + 1
      BY <3>5
    <3>9. \A i \in 1..Len(q) : ~(Len(q) + 1 < i)
      BY <3>5
    <3>10. ~(Len(q) + 1 < Len(q) + 1)
      BY <3>5
    <3>11. HoldRises(z, n)
      BY <2>1, <3>2, <3>5, <3>6, <3>7, <3>8, <3>9, <3>10, Zenon DEF HoldRises
    <3>12. HoldRises(settle'.buf, last.c)
      BY <3>1, <3>2, <3>4, <3>11, Zenon
    <3> QED BY <1>2, <1>4, <2>3, <3>12, Zenon DEF Rising
  <2>4. CASE ~settle.active /\ settle' = settle /\ out' = <<Media(b)>>
    <3>1. Media(b) \in ItemSet /\ Media(b).body = b
      BY <1>2, MediaIs
    <3>2. PICK q : q = <<Media(b)>>
      OBVIOUS
    <3>3. Len(q) = 1 /\ q[1] = Media(b)
      BY <3>1, <3>2, OneIs
    <3>4. \A i \in 1..Len(q) : i = 1
      BY <3>3
    <3>5. ~(1 < 1)
      OBVIOUS
    <3>6. OutRises(q, last.c)
      BY <2>1, <3>1, <3>3, <3>4, <3>5, Zenon DEF OutRises
    <3> QED BY <1>2, <1>4, <2>4, <3>2, <3>6, Zenon DEF Rising
  <2>5. CASE UNCHANGED <<settle, out>>
    BY <1>2, <2>5, RisingKept
  <2> QED BY <2>3, <2>4, <2>5, Zenon DEF Waited
<1> QED BY <1>3, <1>4

\* The end of a hold: what was held, in its order.
LEMMA RisingSettled ==
  ASSUME RunnerTypes, Rising, SettleSent
  PROVE  Rising'
<1>1. UNCHANGED <<last, stale>> /\ out = <<>>
  BY Zenon DEF SettleSent
<1>2. CASE ~settle.active /\ settle' = settle /\ out' = <<>>
  BY <1>1, <1>2, RisingKept, Zenon
<1>3. CASE settle.active /\ settle' = [NoHold EXCEPT !.confirmed = settle.pending] /\ out' = Settled(settle)
  <2>1. settle \in SettleType
    BY Zenon DEF RunnerTypes, BodyTypes, SettleType
  <2>2. settle.pending \in Cfgs
    BY <2>1, SettleFields
  <2>3. settle'.buf = <<>>
    BY <1>3, <2>2, NoHoldIs, Zenon
  <2>4. PICK s, q, m, n, h : s = settle /\ q = Settled(s) /\ m = s.pending /\ n = last.c /\ h = s.buf
    OBVIOUS
  <2>5. /\ Len(q) \in Nat /\ q[1] = InitItem(m)
        /\ \A i \in 2..Len(q) : i - 1 \in 1..Len(h) /\ q[i] = Media(h[i - 1])
    <3>1. s \in SettleType
      BY <2>1, <2>4
    <3>2. q \in Seq(ItemSet)
      BY <2>4, <3>1, SettledIs DEF SettleType
    <3> QED BY <2>4, <3>1, <3>2, SettledIs, EmptyIs DEF SettleType
  <2>6. \A i \in 1..Len(h) : h[i] \in BodySet
    <3>1. h \in Seq(BodySet)
      BY <2>1, <2>4, SettleFields
    <3> QED BY <3>1
  <2>7. \A i \in 2..Len(q) : i - 1 \in 1..Len(h) /\ q[i].body = h[i - 1]
    BY <2>5, <2>6, MediaIs
  <2>8. q[1].kind # "media"
    BY <2>2, <2>4, <2>5, InitItemIs
  <2>9. \A i \in 1..Len(q) : i = 1 \/ i \in 2..Len(q)
    BY <2>5
  <2>10. \A i, j \in 2..Len(q) : j < i => j - 1 < i - 1
    BY <2>5
  <2>11. ~stale => HoldRises(h, n)
    BY <2>4, Zenon DEF Rising
  <2>12. ASSUME ~stale PROVE OutRises(q, n)
    BY <2>7, <2>8, <2>9, <2>10, <2>11, <2>12, Zenon DEF OutRises, HoldRises
  <2> QED BY <1>1, <1>3, <2>3, <2>4, <2>12, NothingRises, Zenon DEF Rising
<1> QED BY <1>2, <1>3, Zenon DEF SettleSent

LEMMA RisingSent ==
  ASSUME RunnerTypes, Rising, Sent
  PROVE  Rising'
<1>1. UNCHANGED <<settle, stale>> /\ out' = Tail(out) /\ Queue(out) /\ out # <<>>
  BY SentQueue, Zenon DEF Sent
<1>2. settle.buf = <<>>
  BY <1>1, Zenon DEF RunnerTypes, Places
<1>3. PICK q, t, n, h : q = out /\ t = Tail(out) /\ n = last.c /\ h = Head(out)
  OBVIOUS
<1>4. /\ Len(q) \in Nat \ {0} /\ Len(t) = Len(q) - 1 /\ h = q[1] /\ h \in ItemSet
      /\ \A i \in 1..Len(t) : t[i] = q[i + 1] /\ i + 1 \in 1..Len(q)
  BY <1>1, <1>3, Zenon DEF Queue
<1>5. \A i, j \in 1..Len(t) : j < i => j + 1 < i + 1
  OBVIOUS
<1>6. 1 \in 1..Len(q) /\ \A i \in 1..Len(t) : 1 < i + 1
  BY <1>4
<1>7. ~stale => OutRises(q, n)
  BY <1>3, Zenon DEF Rising
<1>8. last \in [c : Int, init : Cfgs] /\ h.body.c \in Int /\ h.body.cfg \in Cfgs
  BY <1>1, <1>3, Zenon DEF RunnerTypes, BodyTypes, Queue
<1>9. ~stale => OutRises(t, last'.c)
  <2>1. CASE last' = [last EXCEPT !.init = h.body.cfg]
    <3>1. last'.c = n
      BY <1>3, <1>8, <2>1, LastIs, Zenon
    <3> QED BY <1>4, <1>5, <1>7, <3>1, Zenon DEF OutRises
  <2>2. CASE h.kind # "init" /\ last' = [last EXCEPT !.c = h.body.c]
    <3>1. last'.c = q[1].body.c
      BY <1>4, <1>8, <2>2, LastIs, Zenon
    <3>2. q[1].kind = "media"
      BY <1>4, <2>2 DEF ItemSet
    <3> QED BY <1>4, <1>5, <1>6, <1>7, <3>1, <3>2, Zenon DEF OutRises
  <2> QED BY <1>3, <2>1, <2>2, Zenon DEF Sent
<1> QED BY <1>1, <1>2, <1>3, <1>9, NothingRises, Zenon DEF Rising

LEMMA RisingMapFetched ==
  ASSUME RunnerTypes, Rising, MapFetched
  PROVE  Rising'
<1>1. UNCHANGED <<last, stale>> /\ out = <<>>
  BY Zenon DEF MapFetched
<1>2. PICK m : m = InitBytes(curMap)
  OBVIOUS
<1>3. ASSUME NEW drop, Accepted(settle, m, settle', out', drop) PROVE Rising'
  <2>1. settle'.buf \in {settle.buf, <<>>}
    BY <1>3, Zenon DEF Accepted
  <2>2. ~stale => HoldRises(settle'.buf, last.c)
    BY <2>1, NothingRises, Zenon DEF Rising
  <2>3. OutRises(out', last.c)
    <3>1. CASE out' = <<>>
      BY <3>1, NothingRises, Zenon
    <3>2. CASE out' = <<InitItem(m)>>
      <4>1. curMap \in Maps
        BY Zenon DEF RunnerTypes, SessionTypes
      <4>2. m \in Cfgs
        BY <1>2, <4>1, CfgIs
      <4>3. InitItem(m) \in ItemSet /\ InitItem(m).kind = "init"
        BY <4>2, InitItemIs
      <4>4. Len(<<InitItem(m)>>) = 1 /\ <<InitItem(m)>>[1] = InitItem(m)
        BY <4>3, OneIs
      <4>5. \A i \in 1..Len(out') : out'[i].kind # "media"
        BY <3>2, <4>3, <4>4
      <4> QED BY <4>5, Zenon DEF OutRises
    <3> QED BY <1>3, <3>1, <3>2, Zenon DEF Accepted
  <2> QED BY <1>1, <2>2, <2>3, Zenon DEF Rising
<1>4. CASE UNCHANGED <<settle, out>>
  BY <1>1, <1>4, RisingKept, Zenon
<1> QED BY <1>2, <1>3, <1>4, Zenon DEF MapFetched

LEMMA RisingStep ==
  ASSUME Owning, Matching, Rising, [Next]_vars
  PROVE  Rising'
<1>1. RunnerTypes
  BY Zenon DEF Owning
<1>2. CASE Outside \/ Skipped \/ Ended \/ Stopped \/ Closed
  <2>1. UNCHANGED <<settle, out, last, stale>>
    BY <1>2, Zenon DEF Outside, Skipped, Ended, Stopped, Closed
  <2> QED BY <2>1, RisingKept, Zenon
<1>3. CASE SendLost
  <2>1. out' = <<>> /\ UNCHANGED <<last, settle, stale>>
    BY <1>3, Zenon DEF SendLost
  <2> QED BY <2>1, NothingRises, Zenon DEF Rising
<1>4. CASE Asked
  <2>1. UNCHANGED <<out, last, stale>> /\ (RefreshURL \/ UNCHANGED settle)
    BY <1>4, Zenon DEF Asked
  <2>2. settle'.buf \in {settle.buf, <<>>}
    BY <1>1, <2>1, RefreshHold, Zenon
  <2> QED BY <2>1, <2>2, RisingKept, Zenon
<1>5. ASSUME NEW S, Adjusted(S) PROVE Rising'
  <2>1. /\ UNCHANGED <<out, last>> /\ (~stale' => ~stale)
        /\ settle' = SettleCancel(settle) \/ settle' = settle
    BY <1>5, Zenon DEF Adjusted
  <2>2. settle \in SettleType
    BY <1>1, Zenon DEF RunnerTypes, BodyTypes, SettleType
  <2>3. settle'.buf \in {settle.buf, <<>>}
    BY <2>1, <2>2, CancelIs, Zenon
  <2> QED BY <2>1, <2>3, RisingKept, Zenon
<1> QED BY <1>1, <1>2, <1>3, <1>4, <1>5, RisingWaited, RisingSettled, RisingSent, RisingMapFetched, Steps,
           OutsideSteps, Zenon

LEMMA InOrderFollows == ASSUME RunnerTypes, Rising PROVE InOrder
<1>1. SUFFICES ASSUME Sending("media"), ~stale PROVE Head(out).body.c > last.c
  BY Zenon DEF InOrder
<1>2. Head(out) = out[1] /\ 1 \in 1..Len(out) /\ out[1].kind = "media" /\ out[1] \in ItemSet
  BY <1>1, SendingIs
<1>3. last.c < Head(out).body.c
  BY <1>1, <1>2, Zenon DEF Rising, OutRises
<1>4. last.c \in Int /\ Head(out).body.c \in Int
  <2>1. \A x \in ItemSet : x.body.c \in Int
    BY DEF ItemSet, BodySet
  <2> QED BY <1>2, <2>1, ContentTypes, Zenon
<1>5. PICK x, y : x = last.c /\ y = Head(out).body.c
  OBVIOUS
<1>6. y > x
  BY <1>3, <1>4, <1>5
<1> QED BY <1>5, <1>6, Zenon

\* deliverWindow and nextSeq: the contents on the channel go up, through retries, gaps,
\* restarts of the encoder and holds, unless a prefetch was left over under a number
\* that means another segment now.
THEOREM SentInOrder == Spec => []InOrder
<1> DEFINE Ordering == Owning /\ Matching /\ Rising
<1>1. Init => Ordering
  <2>1. Init => Matching
    BY AnnouncingStarts DEF Announcing
  <2>2. ASSUME Init PROVE Rising
    <3>1. out = <<>> /\ settle = NoHold
      BY <2>2, Zenon DEF Init, InitRunner, InitSession
    <3>2. settle.buf = <<>>
      BY <3>1, NoHoldIs, Zenon
    <3> QED BY <3>1, <3>2, NothingRises, Zenon DEF Rising
  <2> QED BY <2>1, <2>2, OwningStarts
<1>2. Ordering /\ [Next]_vars => Ordering'
  <2>1. Owning => RunnerTypes
    BY DEF Owning
  <2> QED BY <2>1, OwningStep, MatchingStep, RisingStep
<1>3. Ordering => InOrder
  BY InOrderFollows DEF Owning
<1> HIDE DEF Ordering
<1> QED BY <1>1, <1>2, <1>3, PTL DEF Spec
(***************************************************************************)
(* The chain of processors.                                                *)
(***************************************************************************)
\* The last init segment among the first n segments of a file is v.
Under(f, n, v) ==
    \E j \in 1..n : /\ f[j].box = "ftyp" /\ f[j].init = v
                    /\ \A k \in (j + 1)..n : f[k].box # "ftyp"

\* A rotated file begins with the init segment that caused the rotation, which is
\* written with the first segment.
InitOwed == pendingInit # "" /\ ~initWritten

FileShape ==
    /\ \E S : hlsFile \in Seq(S)
    /\ (InitOwed => hlsFile = <<>>)
    /\ \A i \in 1..Len(hlsFile) :
          hlsFile[i].box = "moof" /\ hlsFile[i].init # "broken" => Under(hlsFile, i - 1, hlsFile[i].init)

\* What was announced last is what the next media will stand behind; a broken init
\* segment is announced and not written.
Current ==
    announced \notin {"", "broken"} =>
        IF InitOwed THEN pendingInit = announced ELSE Under(hlsFile, Len(hlsFile), announced)

\* The dedup drops an init segment only if it came last.
Remembered ==
    /\ lastInit = announced
    /\ (dedup # <<>> => /\ {"print", "hash"} \subseteq DOMAIN dedup
                        /\ (dedup.print[1] = "ftyp" => dedup.print[2] = lastInit))

ChainInv == mode \in {"fmp4", "ts"} /\ (mode = "fmp4" => FileShape /\ Current /\ Remembered)

LEMMA ChainStarts == HlsChainInit => ChainInv
<1>1. SUFFICES ASSUME HlsChainInit PROVE ChainInv
  OBVIOUS
<1>2. hlsFile = <<>>
  BY <1>1 DEF HlsChainInit
<1>3. hlsFile \in Seq({}) /\ Len(hlsFile) = 0
  BY <1>2
<1>4. FileShape
  BY <1>2, <1>3 DEF FileShape
<1> QED BY <1>1, <1>4 DEF ChainInv, Current, Remembered, HlsChainInit

LEMMA Arrivals ==
  ASSUME mode = "fmp4", NEW s \in Arriving
  PROVE  /\ s.box \in {"ftyp", "moof", "moof-broken", "junk"}
         /\ (s.box \in {"moof", "moof-broken"} => s.init = announced /\ announced # "")
         /\ (s.box = "ftyp" => s = InitSegment(s.init))
         /\ Fingerprint(s)[1] = s.box /\ Fingerprint(s)[2] = s.init
         /\ {"box", "init", "times"} \subseteq DOMAIN s
<1>1. PICK media, junk :
        /\ media = [box : {"moof", "moof-broken"}, init : {announced} \ {""}, times : [Tracks -> DecodeTimes]]
        /\ junk = [box : {"junk"}, init : {""}, times : {<<>>}]
  OBVIOUS
<1>2. Arriving = Fmp4Segments
  BY DEF Arriving
<1>3. s \in {InitSegment(i) : i \in Inits} \cup media \cup junk
  BY <1>1, <1>2 DEF Fmp4Segments
<1>4. CASE s \in {InitSegment(i) : i \in Inits}
  <2>1. PICK i \in Inits : s = [box |-> "ftyp", init |-> i, times |-> <<>>]
    BY <1>4 DEF InitSegment
  <2>2. s.box = "ftyp" /\ s.init = i /\ s.times = <<>> /\ {"box", "init", "times"} \subseteq DOMAIN s
    BY <2>1
  <2> QED BY <2>1, <2>2 DEF InitSegment, Fingerprint
<1>5. CASE s \in media
  <2>1. s.box \in {"moof", "moof-broken"} /\ s.init = announced /\ announced # ""
        /\ {"box", "init", "times"} \subseteq DOMAIN s
    BY <1>1, <1>5
  <2> QED BY <2>1 DEF Fingerprint
<1>6. CASE s \in junk
  <2>1. s.box = "junk" /\ {"box", "init", "times"} \subseteq DOMAIN s
    BY <1>1, <1>6
  <2> QED BY <2>1 DEF Fingerprint
<1> QED BY <1>3, <1>4, <1>5, <1>6

\* One more segment.
LEMMA OneMore ==
  ASSUME NEW S, NEW f \in Seq(S), NEW x
  PROVE  /\ Append(f, x) \in Seq(S \cup {x}) /\ Len(f) \in Nat /\ Len(Append(f, x)) = Len(f) + 1
         /\ \A i \in 1..Len(f) : Append(f, x)[i] = f[i]
         /\ Append(f, x)[Len(f) + 1] = x
<1>1. f \in Seq(S \cup {x})
  OBVIOUS
<1> QED BY <1>1

LEMMA UnderStays ==
  ASSUME NEW f, NEW g, NEW m \in Nat, \A i \in 1..m : g[i] = f[i],
         NEW n \in 0..m, NEW v, Under(f, n, v)
  PROVE  Under(g, n, v)
BY DEF Under

LEMMA UnderGrows ==
  ASSUME NEW f, NEW g, NEW m \in Nat, \A i \in 1..m : g[i] = f[i],
         NEW v, Under(f, m, v), g[m + 1].box # "ftyp"
  PROVE  Under(g, m + 1, v)
<1>1. PICK j \in 1..m : f[j].box = "ftyp" /\ f[j].init = v /\ \A k \in (j + 1)..m : f[k].box # "ftyp"
  BY DEF Under
<1>2. j \in 1..(m + 1) /\ g[j].box = "ftyp" /\ g[j].init = v
  BY <1>1
<1>3. ASSUME NEW k \in (j + 1)..(m + 1) PROVE g[k].box # "ftyp"
  <2>1. k = m + 1 \/ k \in (j + 1)..m
    BY <1>1
  <2> QED BY <1>1, <2>1
<1> QED BY <1>2, <1>3 DEF Under

\* A segment that is written keeps the file in shape.
LEMMA ShapeAppend ==
  ASSUME FileShape, ~InitOwed, ~InitOwed', NEW x, hlsFile' = Append(hlsFile, x),
         x.box = "moof" /\ x.init # "broken" => Under(hlsFile, Len(hlsFile), x.init)
  PROVE  FileShape'
<1>1. PICK S : hlsFile \in Seq(S)
  BY DEF FileShape
<1>2. PICK f, g : f = hlsFile /\ g = hlsFile'
  OBVIOUS
<1>3. f \in Seq(S) /\ g = Append(f, x)
  BY <1>1, <1>2
<1>4. /\ g \in Seq(S \cup {x}) /\ Len(f) \in Nat /\ Len(g) = Len(f) + 1
      /\ \A i \in 1..Len(f) : g[i] = f[i]
      /\ g[Len(f) + 1] = x
  BY <1>3, OneMore
<1>5. ASSUME NEW i \in 1..Len(g), g[i].box = "moof", g[i].init # "broken" PROVE Under(g, i - 1, g[i].init)
  <2>1. CASE i \in 1..Len(f)
    <3>1. Under(f, i - 1, f[i].init)
      BY <1>2, <1>4, <1>5, <2>1 DEF FileShape
    <3>2. i - 1 \in 0..Len(f)
      BY <1>4, <2>1
    <3> QED BY <1>4, <2>1, <3>1, <3>2, UnderStays
  <2>2. CASE i = Len(f) + 1
    <3>1. Under(f, Len(f), x.init) /\ i - 1 = Len(f) /\ Len(f) \in 0..Len(f)
      BY <1>2, <1>4, <1>5, <2>2
    <3>2. Under(g, Len(f), x.init)
      BY <1>4, <3>1, UnderStays
    <3> QED BY <1>4, <2>2, <3>1, <3>2
  <2> QED BY <1>4, <2>1, <2>2
<1> QED BY <1>2, <1>4, <1>5 DEF FileShape

LEMMA DedupStep ==
  ASSUME ChainInv, mode = "fmp4", NEW s \in Arriving, Pass(s), lastInit' = storeLastInit(s)
  PROVE  Remembered' /\ lastInit' = announced'
<1>1. lastInit' = announced' /\ (s.box = "ftyp" => lastInit' = s.init)
  BY DEF ChainInv, Remembered, Pass, Arrive, storeLastInit
<1>2. PICK d : d = DedupSegment(dedup, s).dedup
  OBVIOUS
<1>3. {"print", "hash"} \subseteq DOMAIN d /\ d.print = Fingerprint(s)
  BY <1>2 DEF DedupSegment, Pass, ChainInv, Remembered
<1>4. dedup' = d
  BY <1>2 DEF Pass
<1>5. d.print[1] = s.box /\ d.print[2] = s.init
  BY <1>3, Arrivals
<1> QED BY <1>1, <1>3, <1>4, <1>5 DEF Remembered

LEMMA DuplicateStep == ASSUME ChainInv, mode = "fmp4", NEW s \in Arriving, Duplicate(s) PROVE ChainInv'
<1>1. s.box = "ftyp" => s.init = lastInit
  BY Arrivals DEF Duplicate, DedupSegment, ChainInv, Remembered
<1>2. announced' = announced
  BY <1>1 DEF Duplicate, Arrive, ChainInv, Remembered
<1> QED BY <1>2 DEF Duplicate, Arrive, ChainInv, Remembered, FileShape, Current, InitOwed

LEMMA DroppedStep == ASSUME ChainInv, NEW s \in Arriving, Dropped(s) PROVE ChainInv'
<1>1. mode = "fmp4" /\ mode' = mode /\ UNCHANGED <<pendingInit, initWritten, hlsFile>>
  BY DEF Dropped, Pass, Arrive
<1>2. Remembered'
  BY <1>1, DedupStep DEF Dropped
<1>3. announced' \in {announced, "broken"}
  <2>1. s.box # "ftyp" \/ s.init \in {lastInit, "broken"}
    BY Arrivals, <1>1 DEF Dropped, BoxGuard
  <2> QED BY <1>1, <2>1 DEF Dropped, Pass, Arrive, ChainInv, Remembered
<1>4. Current' /\ FileShape'
  BY <1>1, <1>3 DEF ChainInv, Current, FileShape, InitOwed
<1> QED BY <1>1, <1>2, <1>4 DEF ChainInv

LEMMA DiscontinuityStep == ASSUME ChainInv, NEW s \in Arriving, Discontinuity(s) PROVE ChainInv'
<1>1. mode = "fmp4" /\ mode' = mode /\ pendingInit' = s.init /\ initWritten' = FALSE /\ hlsFile' = <<>> /\ dedup' = <<>>
  BY DEF Discontinuity, Arrive
<1>2. s.box = "ftyp"
  BY <1>1, Arrivals DEF Discontinuity, BoxGuard
<1>3. announced' = s.init /\ lastInit' = s.init
  BY <1>2 DEF Discontinuity, Arrive, storeLastInit
<1>4. hlsFile' \in Seq({}) /\ Len(hlsFile') = 0
  BY <1>1
<1>5. FileShape'
  BY <1>1, <1>4 DEF FileShape
<1> QED BY <1>1, <1>3, <1>5 DEF ChainInv, Current, Remembered, InitOwed

LEMMA FragmentStep == ASSUME ChainInv, NEW s \in Arriving, Fragment(s) PROVE ChainInv'
<1>1. mode = "fmp4" /\ mode' = mode /\ pendingInit' = pendingInit /\ initWritten' = (initWritten \/ pendingInit # "")
  BY DEF Fragment, Pass, Arrive
<1>2. Remembered' /\ ~InitOwed'
  BY <1>1, DedupStep DEF Fragment, InitOwed
<1>3. s.box \in {"ftyp", "moof"} /\ (s.box = "moof" => s.init = announced /\ announced # "")
  BY <1>1, Arrivals DEF Fragment, BoxGuard
<1>4. announced' = s.init
  BY <1>3 DEF Fragment, Pass, Arrive
<1>5. PICK y : y = NormalizeFragmentTimestamps(s)
  OBVIOUS
<1>6. y.box = s.box /\ y.init = s.init
  BY <1>1, <1>5, Arrivals DEF NormalizeFragmentTimestamps
<1>7. PICK S : hlsFile \in Seq(S)
  BY <1>1 DEF ChainInv, FileShape
<1>8. CASE ~InitOwed
  <2>1. hlsFile' = Append(hlsFile, y)
    <3>1. PICK pre : pre = IF InitOwed THEN <<InitSegment(pendingInit)>> ELSE <<>>
      OBVIOUS
    <3>2. hlsFile' = hlsFile \o pre \o <<y>>
      BY <1>5, <3>1, Zenon DEF Fragment, InitOwed
    <3>3. pre = <<>>
      BY <1>8, <3>1
    <3> QED BY <1>7, <3>2, <3>3
  <2>2. y.box = "moof" /\ y.init # "broken" => Under(hlsFile, Len(hlsFile), y.init)
    BY <1>1, <1>3, <1>6, <1>8 DEF ChainInv, Current
  <2>3. FileShape'
    BY <1>1, <1>2, <1>8, <2>1, <2>2, ShapeAppend DEF ChainInv
  <2>4. PICK f, g, m : f = hlsFile /\ g = hlsFile' /\ m = Len(hlsFile)
    OBVIOUS
  <2>6. m \in Nat /\ Len(g) = m + 1 /\ g[m + 1] = y /\ \A i \in 1..m : g[i] = f[i]
    BY <1>7, <2>1, <2>4, OneMore
  <2>7. y.init # "broken" => Under(g, m + 1, y.init)
    <3>1. CASE y.box = "ftyp"
      BY <2>6, <3>1 DEF Under
    <3>2. CASE y.box = "moof"
      BY <2>2, <2>4, <2>6, <3>2, UnderGrows
    <3> QED BY <1>3, <1>6, <3>1, <3>2
  <2>5. Current'
    BY <1>2, <1>4, <1>6, <2>4, <2>6, <2>7 DEF Current
  <2> QED BY <1>1, <1>2, <2>3, <2>5 DEF ChainInv
<1>9. CASE InitOwed
  <2>1. PICK x : x = InitSegment(pendingInit)
    OBVIOUS
  <2>2. x.box = "ftyp" /\ x.init = pendingInit
    BY <2>1 DEF InitSegment
  <2>4. hlsFile' \in Seq({x} \cup {y}) /\ Len(hlsFile') = 2 /\ hlsFile'[1] = x /\ hlsFile'[2] = y
    <3>1. PICK pre : pre = IF InitOwed THEN <<InitSegment(pendingInit)>> ELSE <<>>
      OBVIOUS
    <3>2. hlsFile' = hlsFile \o pre \o <<y>>
      BY <1>5, <3>1, Zenon DEF Fragment, InitOwed
    <3>3. pre = <<x>>
      BY <1>9, <2>1, <3>1
    <3>4. hlsFile = <<>>
      BY <1>1, <1>9 DEF ChainInv, FileShape
    <3>5. hlsFile' = <<x>> \o <<y>>
      BY <3>2, <3>3, <3>4
    <3>6. <<x>> \in Seq({x}) /\ Len(<<x>>) = 1 /\ <<x>>[1] = x
      OBVIOUS
    <3>7. hlsFile' = Append(<<x>>, y)
      BY <3>5, <3>6
    <3> QED BY <3>6, <3>7, OneMore
  <2>5. Under(hlsFile', 1, x.init)
    BY <2>2, <2>4 DEF Under
  <2>6. y.box = "moof" /\ y.init # "broken" => y.init = x.init
    BY <1>1, <1>3, <1>6, <1>9, <2>2 DEF ChainInv, Current
  <2>7. ASSUME NEW i \in 1..Len(hlsFile'), hlsFile'[i].box = "moof", hlsFile'[i].init # "broken"
        PROVE  Under(hlsFile', i - 1, hlsFile'[i].init)
    <3>1. i = 2 /\ hlsFile'[i] = y
      BY <2>2, <2>4, <2>7
    <3> QED BY <2>5, <2>6, <2>7, <3>1
  <2>8. FileShape'
    BY <1>2, <2>4, <2>7 DEF FileShape
  <2>9. Current'
    <3>1. y.init # "broken" => Under(hlsFile', 2, y.init)
      <4>1. CASE y.box = "ftyp"
        BY <2>4, <4>1 DEF Under
      <4>2. CASE y.box = "moof"
        BY <2>2, <2>4, <2>6, <4>2 DEF Under
      <4> QED BY <1>3, <1>6, <4>1, <4>2
    <3> QED BY <1>2, <1>4, <1>6, <2>4, <3>1 DEF Current
  <2> QED BY <1>1, <1>2, <2>8, <2>9 DEF ChainInv
<1> QED BY <1>8, <1>9

LEMMA ChainStep == ASSUME ChainInv, [HlsChainNext]_hlsVars PROVE ChainInv'
<1>1. CASE UNCHANGED hlsVars
  BY <1>1 DEF ChainInv, FileShape, Current, Remembered, InitOwed, hlsVars
<1>2. ASSUME NEW s \in Arriving,
             Duplicate(s) \/ Dropped(s) \/ Fragment(s) \/ Discontinuity(s) \/ TsSegment(s)
      PROVE  ChainInv'
  <2>1. CASE mode = "fmp4"
    BY <1>2, <2>1, DuplicateStep, DroppedStep, FragmentStep, DiscontinuityStep DEF TsSegment
  <2>2. CASE mode # "fmp4"
    <3>1. mode' = mode
      BY <1>2 DEF Duplicate, Dropped, Fragment, Discontinuity, TsSegment, Pass, Arrive
    <3> QED BY <2>2, <3>1 DEF ChainInv
  <2> QED BY <2>1, <2>2
<1> QED BY <1>1, <1>2 DEF HlsChainNext

\* Media stands behind the init segment it was sent under
\* (Fmp4BoxGuardProcessor, fmp4InitWriterProcessor).
THEOREM MediaStaysUnderInit == HlsChainSpec => []MediaUnderInit
<1>1. HlsChainInit => ChainInv
  BY ChainStarts
<1>2. ChainInv /\ [HlsChainNext]_hlsVars => ChainInv'
  BY ChainStep
<1>3. ChainInv => MediaUnderInit
  <2> SUFFICES ASSUME ChainInv, mode = "fmp4", NEW i \in DOMAIN hlsFile,
                      hlsFile[i].box = "moof" /\ hlsFile[i].init # "broken"
               PROVE  LET before == {j \in 1..(i - 1) : hlsFile[j].box = "ftyp"}
                      IN before # {} /\ hlsFile[CHOOSE j \in before : \A k \in before : k <= j].init = hlsFile[i].init
    BY DEF MediaUnderInit
  <2> DEFINE before == {j \in 1..(i - 1) : hlsFile[j].box = "ftyp"}
  <2>1. i \in 1..Len(hlsFile) /\ Len(hlsFile) \in Nat
    BY DEF ChainInv, FileShape
  <2>2. PICK j \in 1..(i - 1) : /\ hlsFile[j].box = "ftyp" /\ hlsFile[j].init = hlsFile[i].init
                                /\ \A k \in (j + 1)..(i - 1) : hlsFile[k].box # "ftyp"
    BY <2>1 DEF ChainInv, FileShape, Under
  <2>3. j \in before /\ \A k \in before : k <= j
    BY <2>1, <2>2
  <2>4. \A l \in before : (\A k \in before : k <= l) => l = j
    BY <2>1, <2>3
  <2>5. (CHOOSE l \in before : \A k \in before : k <= l) = j
    BY <2>3, <2>4
  <2> QED BY <2>2, <2>3, <2>5
<1> QED BY <1>1, <1>2, <1>3, PTL DEF HlsChainSpec

(***************************************************************************)
(* Induction, and the folds of the FLV chain.                              *)
(***************************************************************************)
\* A set of numbers that has 0 and with a number the next one has them all: the numbers
\* up to n that it lacks would be as many as their predecessors, of which n is none.
LEMMA SetInduction ==
  ASSUME NEW S, 0 \in S, \A n \in Nat : n \in S => n + 1 \in S
  PROVE  \A n \in Nat : n \in S
<1>. SUFFICES ASSUME NEW n \in Nat, n \notin S PROVE FALSE
  OBVIOUS
<1>. DEFINE T == {i \in 0..n : i \notin S}
            f == [i \in T |-> i - 1]
<1>1. IsFiniteSet(T)
  <2>1. IsFiniteSet(0..n) BY FS_Interval
  <2>2. T \subseteq 0..n OBVIOUS
  <2>. HIDE DEF T
  <2>. QED BY <2>1, <2>2, FS_Subset
<1>2. n \in T
  OBVIOUS
<1>3. f \in [T -> T \ {n}]
  OBVIOUS
<1>4. IsFiniteSet(T \ {n}) /\ Cardinality(T \ {n}) < Cardinality(T)
  <2>. HIDE DEF T
  <2>1. IsFiniteSet(T \ {n}) /\ Cardinality(T \ {n}) = Cardinality(T) - 1
    BY <1>1, <1>2, FS_RemoveElement
  <2>. QED BY <2>1, <1>1, FS_CardinalityType
<1>5. PICK x \in T, y \in T : x # y /\ f[x] = f[y]
  <2>. HIDE DEF T, f
  <2>. QED BY <1>1, <1>3, <1>4, FS_PigeonHole
<1>. QED BY <1>5

\* The same up to a bound.
LEMMA BoundedInduction ==
  ASSUME NEW N \in Nat, NEW S, 0 \in S, \A n \in 0..N : n < N /\ n \in S => n + 1 \in S
  PROVE  \A n \in 0..N : n \in S
<1>. DEFINE T == {n \in Nat : n <= N => n \in S}
<1>1. 0 \in T /\ \A n \in Nat : n \in T => n + 1 \in T
  OBVIOUS
<1>2. \A n \in Nat : n \in T
  <2>. HIDE DEF T
  <2>. QED BY <1>1, SetInduction
<1>. QED BY <1>2

\* A set of numbers up to n + 1 that has n + 1.
LEMMA GreatestUpTo ==
  ASSUME NEW n \in Nat, NEW t, t \subseteq 1..(n + 1), n + 1 \in t
  PROVE  Max(t) = n + 1
<1>1. \A x \in t : x \in Int /\ x <= n + 1
  OBVIOUS
<1>2. (CHOOSE x \in t : \A y \in t : x >= y) \in t
      /\ \A y \in t : (CHOOSE x \in t : \A y_1 \in t : x >= y_1) >= y
  <2>1. \E x \in t : \A y \in t : x >= y
    BY <1>1
  <2>. QED BY <2>1, Zenon
<1>3. Max(t) \in t /\ Max(t) >= n + 1
  BY <1>2, Zenon DEF Max
<1>4. PICK m : m = Max(t)
  OBVIOUS
<1>5. m \in t /\ m >= n + 1
  BY <1>3, <1>4
<1>6. m = n + 1
  BY <1>1, <1>5
<1>. QED BY <1>4, <1>6

\* A nonempty set of numbers up to n has a greatest one.
LEMMA GreatestExists ==
  ASSUME NEW n \in Nat, NEW t, t \subseteq 1..n, t # {}
  PROVE  Max(t) \in t /\ t \ {Max(t)} \subseteq 1..n /\ \A y \in t : Max(t) >= y
<1>. DEFINE S == {k \in Nat : \A u \in SUBSET (1..k) : u # {} => \E x \in u : \A y \in u : x >= y}
<1>1. 0 \in S
  <2>1. ASSUME NEW u \in SUBSET (1..0), u # {} PROVE FALSE
    <3>1. PICK x \in u : TRUE
      BY <2>1
    <3>2. x \in 1..0
      OBVIOUS
    <3>. QED BY <3>2
  <2>. QED BY <2>1
<1>2. ASSUME NEW k \in Nat, k \in S PROVE k + 1 \in S
  <2>1. ASSUME NEW u \in SUBSET (1..(k + 1)), u # {} PROVE \E x \in u : \A y \in u : x >= y
    <3>1. CASE k + 1 \in u
      BY <3>1
    <3>2. CASE k + 1 \notin u
      <4>1. u \in SUBSET (1..k) BY <3>2
      <4>. QED BY <4>1, <2>1, <1>2
    <3>. QED BY <3>1, <3>2
  <2>. QED BY <2>1
<1>3. \A k \in Nat : k \in S
  <2>. HIDE DEF S
  <2>. QED BY <1>1, <1>2, SetInduction
<1>4. \E x \in t : \A y \in t : x >= y
  BY <1>3
<1>5. (CHOOSE x \in t : \A y \in t : x >= y) \in t
      /\ \A y \in t : (CHOOSE x \in t : \A y_1 \in t : x >= y_1) >= y
  BY <1>4, Zenon
<1>6. Max(t) \in t /\ \A y \in t : Max(t) >= y
  BY <1>5, Zenon DEF Max
<1>. QED BY <1>6

\* And a least one.
LEMMA LeastExists ==
  ASSUME NEW n \in Nat, NEW t, t \subseteq 1..n, t # {}
  PROVE  Min(t) \in t /\ \A y \in t : Min(t) <= y
<1>. DEFINE S == {k \in Nat : \A u \in SUBSET (1..k) : u # {} => \E x \in u : \A y \in u : x <= y}
<1>1. 0 \in S
  <2>1. ASSUME NEW u \in SUBSET (1..0), u # {} PROVE FALSE
    <3>1. PICK x \in u : TRUE
      BY <2>1
    <3>2. x \in 1..0
      OBVIOUS
    <3>. QED BY <3>2
  <2>. QED BY <2>1
<1>2. ASSUME NEW k \in Nat, k \in S PROVE k + 1 \in S
  <2>1. ASSUME NEW u \in SUBSET (1..(k + 1)), u # {} PROVE \E x \in u : \A y \in u : x <= y
    <3>1. CASE u \ {k + 1} = {}
      <4>1. u = {k + 1} BY <2>1, <3>1
      <4>. QED BY <4>1
    <3>2. CASE u \ {k + 1} # {}
      <4>1. u \ {k + 1} \in SUBSET (1..k) OBVIOUS
      <4>2. PICK x \in u \ {k + 1} : \A y \in u \ {k + 1} : x <= y BY <4>1, <3>2, <1>2
      <4>3. x <= k + 1 BY <4>1
      <4>. QED BY <4>2, <4>3
    <3>. QED BY <3>1, <3>2
  <2>. QED BY <2>1
<1>3. \A k \in Nat : k \in S
  <2>. HIDE DEF S
  <2>. QED BY <1>1, <1>2, SetInduction
<1>4. \E x \in t : \A y \in t : x <= y
  BY <1>3
<1>5. (CHOOSE x \in t : \A y \in t : x <= y) \in t
      /\ \A y \in t : (CHOOSE x \in t : \A y_1 \in t : x <= y_1) <= y
  BY <1>4, Zenon
<1>6. Min(t) \in t /\ \A y \in t : Min(t) <= y
  BY <1>5, Zenon DEF Min
<1>. QED BY <1>6

FixFold(base, s) == FoldLeft(fixTag, base, s)
DetectFold(base, s) == FoldLeft(detectTag, base, s)

\* g[i] is the state of the loop behind element i, for i up to n.
FixSteps(g, base, s, n) ==
    g[0] = base /\ \A i \in 1..n : g[i] = fixTag(g[i - 1], s[i])
DetectSteps(g, base, s, n) ==
    g[0] = base /\ \A i \in 1..n : g[i] = detectTag(g[i - 1], s[i])

\* FoldLeft of fixTag is a run of the loop in Fix: g[i] is its state behind tag i.
LEMMA FixFolds ==
  ASSUME NEW base, NEW s, NEW N \in Nat, DOMAIN s = 1..N
  PROVE  \E g : FixSteps(g, base, s, N) /\ FixFold(base, s) = g[N]
<1>. DEFINE Iter(g, n) == g = [t \in SUBSET (1..n) |-> IF t = {} THEN base
                                 ELSE fixTag(g[t \ {Max(t)}], s[Max(t)])]
            S == {n \in Nat : \E g : Iter(g, n)}
<1>1. 0 \in S
  <2>1. Iter([t \in SUBSET (1..0) |-> base], 0)
    OBVIOUS
  <2>. QED BY <2>1
<1>2. ASSUME NEW n \in Nat, n \in S PROVE n + 1 \in S
  <2>1. PICK g : Iter(g, n)
    BY <1>2
  <2>. DEFINE h == [t \in SUBSET (1..(n+1)) |->
            IF n + 1 \in t THEN fixTag(g[t \ {n + 1}], s[n + 1]) ELSE g[t]]
  <2>2. ASSUME NEW t \in SUBSET (1..(n+1))
        PROVE h[t] = IF t = {} THEN base ELSE fixTag(h[t \ {Max(t)}], s[Max(t)])
    <3>1. CASE n + 1 \in t
      <4>1. Max(t) = n + 1 BY <3>1, GreatestUpTo
      <4>2. t \ {n + 1} \in SUBSET (1..n) OBVIOUS
      <4>3. h[t \ {n + 1}] = g[t \ {n + 1}] BY <4>2
      <4>. QED BY <3>1, <4>1, <4>2, <4>3
    <3>2. CASE n + 1 \notin t
      <4>1. t \in SUBSET (1..n) BY <3>2
      <4>2. t # {} => t \ {Max(t)} \in SUBSET (1..n)
        BY <4>1
      <4>3. t # {} => h[t \ {Max(t)}] = g[t \ {Max(t)}]
        BY <4>2
      <4>4. g[t] = IF t = {} THEN base ELSE fixTag(g[t \ {Max(t)}], s[Max(t)])
        BY <2>1, <4>1
      <4>5. h[t] = g[t]
        BY <4>1
      <4>. HIDE DEF h, Iter
      <4>. QED BY <4>3, <4>4, <4>5
    <3>. QED BY <3>1, <3>2
  <2>3. Iter(h, n + 1)
    BY <2>2, Zenon
  <2>4. n + 1 \in Nat
    OBVIOUS
  <2>. HIDE DEF h, Iter
  <2>. QED BY <2>3, <2>4
<1>3. \A n \in Nat : n \in S
  <2>. HIDE DEF S
  <2>. QED BY <1>1, <1>2, SetInduction
<1>. DEFINE f == CHOOSE g : Iter(g, N)
<1>4. Iter(f, N)
  <2>1. \E g : Iter(g, N) BY <1>3
  <2>. HIDE DEF Iter
  <2>. QED BY <2>1
<1>5. FixFold(base, s) = f[1..N]
  BY DEF FixFold, FoldLeft, MapThenFoldSet
<1>. DEFINE r == [i \in 0..N |-> f[1..i]]
<1>6. r[0] = base
  <2>1. 1..0 = {} OBVIOUS
  <2>. HIDE DEF f
  <2>2. f[1..0] = base BY <1>4, <2>1
  <2>. QED BY <2>2
<1>7. ASSUME NEW i \in 1..N PROVE r[i] = fixTag(r[i - 1], s[i])
  <2>1. PICK k \in Nat : i = k + 1 
    <3>1. i - 1 \in Nat /\ i = (i - 1) + 1 OBVIOUS
    <3>. QED BY <3>1
  <2>2. Max(1..i) = i
    BY <2>1, GreatestUpTo
  <2>3. (1..i) \ {i} = 1..(i - 1) /\ 1..i \in SUBSET (1..N) /\ 1..i # {}
    OBVIOUS
  <2>. HIDE DEF f
  <2>4. f[1..i] = fixTag(f[1..(i - 1)], s[i])
    BY <1>4, <2>2, <2>3
  <2>. QED BY <2>4
<1>8. r[N] = f[1..N]
  OBVIOUS
<1>9. FixSteps(r, base, s, N)
  <2>. HIDE DEF r
  <2>. QED BY <1>6, <1>7 DEF FixSteps
<1>. HIDE DEF r, f
<1>. QED BY <1>5, <1>8, <1>9

\* The same for the loop in DetectChange.
LEMMA DetectFolds ==
  ASSUME NEW base, NEW s, NEW N \in Nat, DOMAIN s = 1..N
  PROVE  \E g : DetectSteps(g, base, s, N) /\ DetectFold(base, s) = g[N]
<1>. DEFINE Iter(g, n) == g = [t \in SUBSET (1..n) |-> IF t = {} THEN base
                                 ELSE detectTag(g[t \ {Max(t)}], s[Max(t)])]
            S == {n \in Nat : \E g : Iter(g, n)}
<1>1. 0 \in S
  <2>1. Iter([t \in SUBSET (1..0) |-> base], 0)
    OBVIOUS
  <2>. QED BY <2>1
<1>2. ASSUME NEW n \in Nat, n \in S PROVE n + 1 \in S
  <2>1. PICK g : Iter(g, n)
    BY <1>2
  <2>. DEFINE h == [t \in SUBSET (1..(n+1)) |->
            IF n + 1 \in t THEN detectTag(g[t \ {n + 1}], s[n + 1]) ELSE g[t]]
  <2>2. ASSUME NEW t \in SUBSET (1..(n+1))
        PROVE h[t] = IF t = {} THEN base ELSE detectTag(h[t \ {Max(t)}], s[Max(t)])
    <3>1. CASE n + 1 \in t
      <4>1. Max(t) = n + 1 BY <3>1, GreatestUpTo
      <4>2. t \ {n + 1} \in SUBSET (1..n) OBVIOUS
      <4>3. h[t \ {n + 1}] = g[t \ {n + 1}] BY <4>2
      <4>. QED BY <3>1, <4>1, <4>2, <4>3
    <3>2. CASE n + 1 \notin t
      <4>1. t \in SUBSET (1..n) BY <3>2
      <4>2. t # {} => t \ {Max(t)} \in SUBSET (1..n)
        BY <4>1
      <4>3. t # {} => h[t \ {Max(t)}] = g[t \ {Max(t)}]
        BY <4>2
      <4>4. g[t] = IF t = {} THEN base ELSE detectTag(g[t \ {Max(t)}], s[Max(t)])
        BY <2>1, <4>1
      <4>5. h[t] = g[t]
        BY <4>1
      <4>. HIDE DEF h, Iter
      <4>. QED BY <4>3, <4>4, <4>5
    <3>. QED BY <3>1, <3>2
  <2>3. Iter(h, n + 1)
    BY <2>2, Zenon
  <2>4. n + 1 \in Nat
    OBVIOUS
  <2>. HIDE DEF h, Iter
  <2>. QED BY <2>3, <2>4
<1>3. \A n \in Nat : n \in S
  <2>. HIDE DEF S
  <2>. QED BY <1>1, <1>2, SetInduction
<1>. DEFINE f == CHOOSE g : Iter(g, N)
<1>4. Iter(f, N)
  <2>1. \E g : Iter(g, N) BY <1>3
  <2>. HIDE DEF Iter
  <2>. QED BY <2>1
<1>5. DetectFold(base, s) = f[1..N]
  BY DEF DetectFold, FoldLeft, MapThenFoldSet
<1>. DEFINE r == [i \in 0..N |-> f[1..i]]
<1>6. r[0] = base
  <2>1. 1..0 = {} OBVIOUS
  <2>. HIDE DEF f
  <2>2. f[1..0] = base BY <1>4, <2>1
  <2>. QED BY <2>2
<1>7. ASSUME NEW i \in 1..N PROVE r[i] = detectTag(r[i - 1], s[i])
  <2>1. PICK k \in Nat : i = k + 1 
    <3>1. i - 1 \in Nat /\ i = (i - 1) + 1 OBVIOUS
    <3>. QED BY <3>1
  <2>2. Max(1..i) = i
    BY <2>1, GreatestUpTo
  <2>3. (1..i) \ {i} = 1..(i - 1) /\ 1..i \in SUBSET (1..N) /\ 1..i # {}
    OBVIOUS
  <2>. HIDE DEF f
  <2>4. f[1..i] = detectTag(f[1..(i - 1)], s[i])
    BY <1>4, <2>2, <2>3
  <2>. QED BY <2>4
<1>8. r[N] = f[1..N]
  OBVIOUS
<1>9. DetectSteps(r, base, s, N)
  <2>. HIDE DEF r
  <2>. QED BY <1>6, <1>7 DEF DetectSteps
<1>. HIDE DEF r, f
<1>. QED BY <1>5, <1>8, <1>9

(***************************************************************************)
(* The fixer, one tag at a time.                                           *)
(***************************************************************************)
Tag == [kind : {"video", "audio"}, header : BOOLEAN, config : Nat \ {0}, ts : Nat, body : Nat]
Entry == [tag : Tag, at : Nat]
Store == [firstChunk : BOOLEAN, lastOriginal : Nat, currentOffset : Int, nextTarget : Nat]

\* A fixer, up to the list of hashes.
FixerLike(f) ==
    /\ f = [headerOK |-> f.headerOK, rotation |-> f.rotation, store |-> f.store,
            cache |-> f.cache, lastClean |-> f.lastClean]
    /\ f.cache = [signatures |-> f.cache.signatures, order |-> f.cache.order]
    /\ f.store \in Store

\* What the loop in Fix works on.
LoopLike(f) ==
    /\ f = [fixer |-> f.fixer, out |-> f.out, dups |-> f.dups]
    /\ FixerLike(f.fixer) /\ f.out \in Seq(Entry) /\ f.dups \subseteq Tag

\* The signatures of some tags.
Signatures(ts) == {computeSignature(t) : t \in ts}

LEMMA FallbackRange ==
  /\ JumpThreshold \in Nat
  /\ VideoDurationFallback \in Nat /\ VideoDurationFallback <= JumpThreshold
  /\ AudioDurationFallback \in Nat /\ AudioDurationFallback <= JumpThreshold
BY FlvAssumption DEF FlvAssumption

\* What a tag does to the timestamp store.
LEMMA FixTimestampType ==
  ASSUME NEW s \in Store, NEW t \in Tag
  PROVE  /\ fixTimestamp(s, t).store \in Store
         /\ fixTimestamp(s, t).store.firstChunk = FALSE
         /\ fixTimestamp(s, t).at \in Nat
<1>. DEFINE diff == t.ts - s.lastOriginal
            jump == diff < -JumpThreshold \/ (s.lastOriginal = 0 /\ diff < 0) \/ diff > JumpThreshold
            offset == IF jump THEN t.ts - s.nextTarget
                      ELSE IF s.firstChunk THEN t.ts ELSE s.currentOffset
            at == IF t.ts - offset < 0 THEN 0 ELSE t.ts - offset
            next == CalculateNextTarget(t, at)
            st == [firstChunk |-> FALSE, lastOriginal |-> t.ts, currentOffset |-> offset,
                   nextTarget |-> next]
<1>1. fixTimestamp(s, t) = [store |-> st, at |-> at]
  BY DEF fixTimestamp
<1>2. t.ts \in Nat /\ s.nextTarget \in Nat /\ s.currentOffset \in Int
  BY DEF Tag, Store
<1>3. offset \in Int
  <2>. HIDE DEF jump
  <2>. QED BY <1>2
<1>4. at \in Nat
  <2>. HIDE DEF offset
  <2>. QED BY <1>2, <1>3
<1>5. next \in Nat
  <2>. HIDE DEF at
  <2>. QED BY <1>4, FallbackRange DEF CalculateNextTarget
<1>6. st \in Store
  <2>. HIDE DEF offset, next
  <2>. QED BY <1>2, <1>3, <1>5 DEF Store
<1>. HIDE DEF st, at
<1>7. st.firstChunk = FALSE
  BY DEF st
<1>. QED BY <1>1, <1>4, <1>6, <1>7

\* A tag whose signature is cached is dropped.
LEMMA FixTagKnown ==
  ASSUME NEW f, LoopLike(f), NEW t \in Tag, computeSignature(t) \in f.fixer.cache.signatures
  PROVE  /\ LoopLike(fixTag(f, t))
         /\ fixTag(f, t).fixer = f.fixer /\ fixTag(f, t).out = f.out
         /\ fixTag(f, t).dups = f.dups \cup {t}
<1>1. fixTag(f, t) = [f EXCEPT !.dups = @ \cup {t}]
  BY DEF fixTag
<1>2. f = [fixer |-> f.fixer, out |-> f.out, dups |-> f.dups]
  BY DEF LoopLike
<1>3. fixTag(f, t) = [fixer |-> f.fixer, out |-> f.out, dups |-> f.dups \cup {t}]
  BY <1>1, <1>2
<1>4. PICK g : g = fixTag(f, t)
  OBVIOUS
<1>5. g.fixer = f.fixer /\ g.out = f.out /\ g.dups = f.dups \cup {t}
      /\ g = [fixer |-> g.fixer, out |-> g.out, dups |-> g.dups]
  BY <1>3, <1>4
<1>6. LoopLike(g)
  BY <1>5 DEF LoopLike
<1>. QED BY <1>4, <1>5, <1>6

\* Making room takes signatures out and puts the one of the tag in.
LEMMA AddSignature ==
  ASSUME NEW c, NEW sig
  PROVE  /\ addSignature(c, sig) = [signatures |-> addSignature(c, sig).signatures,
                                    order |-> addSignature(c, sig).order]
         /\ addSignature(c, sig).signatures \subseteq c.signatures \cup {sig}
<1>. DEFINE room == IF Cardinality(c.signatures) >= MaxDedupCacheSize
                    THEN evictOldest(c, AtLeastOne(MaxDedupCacheSize \div 5)) ELSE c
<1>1. addSignature(c, sig) = [signatures |-> room.signatures \cup {sig}, order |-> Append(room.order, sig)]
  BY DEF addSignature
<1>2. room.signatures \subseteq c.signatures
  <2>1. \A n : evictOldest(c, n).signatures \subseteq c.signatures
    BY DEF evictOldest
  <2>. QED BY <2>1
<1>. HIDE DEF room
<1>. QED BY <1>1, <1>2

\* Any other tag is handed on with its fixed time.
LEMMA FixTagNew ==
  ASSUME NEW f, LoopLike(f), NEW t \in Tag, computeSignature(t) \notin f.fixer.cache.signatures
  PROVE  /\ LoopLike(fixTag(f, t))
         /\ fixTag(f, t).fixer.store = fixTimestamp(f.fixer.store, t).store
         /\ fixTag(f, t).fixer.cache.signatures \subseteq f.fixer.cache.signatures \cup {computeSignature(t)}
         /\ fixTag(f, t).out = Append(f.out, [tag |-> t, at |-> fixTimestamp(f.fixer.store, t).at])
         /\ [tag |-> t, at |-> fixTimestamp(f.fixer.store, t).at] \in Entry
         /\ fixTag(f, t).dups = f.dups
<1>. DEFINE ft == fixTimestamp(f.fixer.store, t)
            e == [tag |-> t, at |-> ft.at]
            c == addSignature(f.fixer.cache, computeSignature(t))
            x == f.fixer
<1>1. fixTag(f, t) = [f EXCEPT !.fixer.cache = c, !.fixer.store = ft.store, !.out = Append(@, e)]
  BY DEF fixTag
<1>2. f = [fixer |-> f.fixer, out |-> f.out, dups |-> f.dups] /\ FixerLike(x) /\ f.out \in Seq(Entry)
      /\ f.dups \subseteq Tag
  BY DEF LoopLike
<1>3. x = [headerOK |-> x.headerOK, rotation |-> x.rotation, store |-> x.store,
           cache |-> x.cache, lastClean |-> x.lastClean] /\ x.store \in Store
  BY <1>2 DEF FixerLike
<1>4. ft.store \in Store /\ ft.at \in Nat
  BY <1>3, FixTimestampType
<1>5. e \in Entry
  BY <1>4 DEF Entry
<1>6. c = [signatures |-> c.signatures, order |-> c.order] /\ c.signatures \subseteq x.cache.signatures \cup {computeSignature(t)}
  BY AddSignature
<1>. DEFINE y == [headerOK |-> x.headerOK, rotation |-> x.rotation, store |-> ft.store,
                  cache |-> c, lastClean |-> x.lastClean]
            o == Append(f.out, e)
<1>7. fixTag(f, t) = [fixer |-> y, out |-> o, dups |-> f.dups]
  <2>. HIDE DEF c, ft, e
  <2>1. PICK hk, ro, sto, ca, la : x = [headerOK |-> hk, rotation |-> ro, store |-> sto, cache |-> ca, lastClean |-> la]
    BY <1>3
  <2>. QED BY <1>1, <1>2, <2>1
<1>8. FixerLike(y)
  <2>. HIDE DEF c, ft, x
  <2>1. y.store = ft.store /\ y.cache = c /\ y.headerOK = x.headerOK /\ y.rotation = x.rotation /\ y.lastClean = x.lastClean
    OBVIOUS
  <2>. QED BY <2>1, <1>4, <1>6 DEF FixerLike
<1>9. o \in Seq(Entry)
  <2>. HIDE DEF e
  <2>. QED BY <1>2, <1>5
<1>10. y.store = ft.store /\ y.cache.signatures = c.signatures
  BY Zenon
<1>11. PICK g : g = fixTag(f, t)
  OBVIOUS
<1>12. g.fixer = y /\ g.out = o /\ g.dups = f.dups /\ g = [fixer |-> g.fixer, out |-> g.out, dups |-> g.dups]
  <2>. HIDE DEF y, o
  <2>. QED BY <1>7, <1>11
<1>13. LoopLike(g)
  <2>. HIDE DEF y, o
  <2>. QED BY <1>12, <1>8, <1>9, <1>2 DEF LoopLike
<1>. HIDE DEF y
<1>. QED BY <1>5, <1>6, <1>10, <1>11, <1>12, <1>13

\* A run of the loop over the tags s: g[i] is its state behind tag i.
FixLoop(g, f, s) ==
    FixSteps(g, [fixer |-> [f EXCEPT !.headerOK = TRUE], out |-> <<>>, dups |-> {}], s, Len(s))

\* What was seen was handed on or is dropped, and what is dropped or cached has the signature
\* of a tag that was handed on, or one that was cached before.
Accounted(l, sigs, s, i) ==
    /\ l.fixer.cache.signatures \subseteq sigs \cup Signatures(Tags(l.out))
    /\ Signatures(l.dups) \subseteq sigs \cup Signatures(Tags(l.out))
    /\ \A j \in 1..i : s[j] \in l.dups \cup Tags(l.out)
    /\ Tags(l.out) \subseteq {s[j] : j \in 1..i}

LEMMA SignaturesJoined ==
  /\ \A A, B : Signatures(A \cup B) = Signatures(A) \cup Signatures(B)
  /\ \A t : Signatures({t}) = {computeSignature(t)}
  /\ \A A, B : A \subseteq B => Signatures(A) \subseteq Signatures(B)
  /\ Signatures({}) = {}
BY DEF Signatures

LEMMA SignaturesWith ==
  ASSUME NEW A, NEW B, NEW t, B = A \cup {t}
  PROVE  Signatures(B) = Signatures(A) \cup {computeSignature(t)}
<1>1. Signatures(B) = Signatures(A) \cup Signatures({t})
  BY SignaturesJoined
<1>. QED BY <1>1, SignaturesJoined

LEMMA TagsAppend ==
  ASSUME NEW es \in Seq(Entry), NEW e \in Entry
  PROVE  Tags(Append(es, e)) = Tags(es) \cup {e.tag}
<1>1. PICK fs : fs = Append(es, e)
  OBVIOUS
<1>2. DOMAIN fs = 1..(Len(es) + 1) /\ (\A i \in 1..Len(es) : fs[i] = es[i]) /\ fs[Len(es) + 1] = e
      /\ DOMAIN es = 1..Len(es) /\ Len(es) \in Nat
  BY <1>1
<1>3. Tags(fs) \subseteq Tags(es) \cup {e.tag}
  <2>1. ASSUME NEW i \in DOMAIN fs PROVE fs[i].tag \in Tags(es) \cup {e.tag}
    <3>1. CASE i = Len(es) + 1
      BY <3>1, <1>2
    <3>2. CASE i # Len(es) + 1
      <4>1. i \in DOMAIN es /\ fs[i] = es[i] BY <3>2, <1>2
      <4>. QED BY <4>1 DEF Tags
    <3>. QED BY <3>1, <3>2
  <2>. QED BY <2>1 DEF Tags
<1>4. Tags(es) \subseteq Tags(fs)
  <2>1. ASSUME NEW i \in DOMAIN es PROVE es[i].tag \in Tags(fs)
    <3>1. i \in DOMAIN fs /\ fs[i] = es[i] BY <1>2
    <3>. QED BY <3>1 DEF Tags
  <2>. QED BY <2>1 DEF Tags
<1>5. e.tag \in Tags(fs)
  <2>1. Len(es) + 1 \in DOMAIN fs BY <1>2
  <2>. QED BY <2>1, <1>2 DEF Tags
<1>. QED BY <1>1, <1>3, <1>4, <1>5

LEMMA TagsEmpty == Tags(<<>>) = {}
BY DEF Tags

\* One turn keeps the account.
LEMMA AccountedStep ==
  ASSUME NEW l, LoopLike(l), NEW sigs, NEW s \in Seq(Tag), NEW i \in 1..Len(s),
         Accounted(l, sigs, s, i - 1)
  PROVE  LoopLike(fixTag(l, s[i])) /\ Accounted(fixTag(l, s[i]), sigs, s, i)
<1>1. PICK t \in Tag : t = s[i]
  OBVIOUS
<1>2. PICK m : m = fixTag(l, t)
  OBVIOUS
<1>3. i \in Nat /\ \A j \in 1..i : j = i \/ j \in 1..(i - 1)
  OBVIOUS
<1>4. i \in 1..i /\ \A j \in 1..(i - 1) : j \in 1..i
  BY <1>3
<1>5. CASE computeSignature(t) \in l.fixer.cache.signatures
  <2>1. LoopLike(m) /\ m.fixer = l.fixer /\ m.out = l.out /\ m.dups = l.dups \cup {t}
    BY <1>2, <1>5, FixTagKnown
  <2>2. Signatures(m.dups) = Signatures(l.dups) \cup {computeSignature(t)}
    <3>1. m.dups = l.dups \cup {t}
      BY <2>1
    <3>. QED BY <3>1, SignaturesWith
  <2>3. \A j \in 1..i : s[j] \in m.dups \cup Tags(m.out)
    BY <2>1, <1>1, <1>3 DEF Accounted
  <2>4. Accounted(m, sigs, s, i)
    BY <2>1, <2>2, <2>3, <1>4, <1>5 DEF Accounted
  <2>. QED BY <2>1, <2>4, <1>1, <1>2
<1>6. CASE computeSignature(t) \notin l.fixer.cache.signatures
  <2>1. PICK e \in Entry : e.tag = t /\ m.out = Append(l.out, e)
    <3>1. PICK e : e = [tag |-> t, at |-> fixTimestamp(l.fixer.store, t).at]
      OBVIOUS
    <3>. QED BY <3>1, <1>2, <1>6, FixTagNew
  <2>2. LoopLike(m) /\ m.dups = l.dups
        /\ m.fixer.cache.signatures \subseteq l.fixer.cache.signatures \cup {computeSignature(t)}
    BY <1>2, <1>6, FixTagNew
  <2>3. Tags(m.out) = Tags(l.out) \cup {t}
    BY <2>1, TagsAppend DEF LoopLike
  <2>4. Signatures(Tags(m.out)) = Signatures(Tags(l.out)) \cup {computeSignature(t)}
    BY <2>3, SignaturesWith
  <2>5. \A j \in 1..i : s[j] \in m.dups \cup Tags(m.out)
    BY <2>2, <2>3, <1>1, <1>3 DEF Accounted
  <2>6. Tags(m.out) \subseteq {s[j] : j \in 1..i}
    BY <2>3, <1>1, <1>4 DEF Accounted
  <2>7. Accounted(m, sigs, s, i)
    BY <2>2, <2>4, <2>5, <2>6 DEF Accounted
  <2>. QED BY <2>2, <2>7, <1>1, <1>2
<1>. QED BY <1>5, <1>6

\* Cleaning the cache takes signatures away and leaves the rest alone.
LEMMA CleanedKeeps ==
  ASSUME NEW f, FixerLike(f), NEW n
  PROVE  /\ FixerLike(cleaned(f, n)) /\ cleaned(f, n).store = f.store
         /\ cleaned(f, n).cache.signatures \subseteq f.cache.signatures
<1>. DEFINE now == f.store.lastOriginal
            high == Cardinality(f.cache.signatures) >= highWaterSize
            c == IF high THEN cleanHighWater(f.cache, now) ELSE cleanOld(f.cache, now)
            g == [f EXCEPT !.lastClean = now, !.cache = c]
<1>1. cleaned(f, n) = g \/ cleaned(f, n) = f
  <2>. cleaned(f, n) = IF now > 0 /\ (now - f.lastClean > CleanPeriod \/ n >= CleanTags \/ high)
                       THEN g ELSE f
    BY DEF cleaned
  <2>. HIDE DEF g, now, high
  <2>. QED OBVIOUS
<1>2. \A a, b : /\ cleanOld(a, b) = [signatures |-> cleanOld(a, b).signatures, order |-> cleanOld(a, b).order]
                /\ cleanOld(a, b).signatures \subseteq a.signatures
  BY DEF cleanOld
<1>3. \A a, b : /\ evictOldest(a, b) = [signatures |-> evictOldest(a, b).signatures, order |-> evictOldest(a, b).order]
                /\ evictOldest(a, b).signatures \subseteq a.signatures
  BY DEF evictOldest
<1>4. \A a, b : /\ cleanHighWater(a, b) = [signatures |-> cleanHighWater(a, b).signatures, order |-> cleanHighWater(a, b).order]
                /\ cleanHighWater(a, b).signatures \subseteq a.signatures
  <2>. SUFFICES ASSUME NEW a, NEW b
                PROVE /\ cleanHighWater(a, b) = [signatures |-> cleanHighWater(a, b).signatures, order |-> cleanHighWater(a, b).order]
                      /\ cleanHighWater(a, b).signatures \subseteq a.signatures
    OBVIOUS
  <2>1. \/ cleanHighWater(a, b) = cleanOld(a, b)
        \/ cleanHighWater(a, b) = evictOldest(cleanOld(a, b), AtLeastOne(MaxDedupCacheSize \div 10))
    BY DEF cleanHighWater
  <2>2. PICK y : y = cleanOld(a, b)
    OBVIOUS
  <2>3. PICK z : z = evictOldest(y, AtLeastOne(MaxDedupCacheSize \div 10))
    OBVIOUS
  <2>4. z = [signatures |-> z.signatures, order |-> z.order] /\ z.signatures \subseteq y.signatures
    BY <1>3, <2>3
  <2>5. y = [signatures |-> y.signatures, order |-> y.order] /\ y.signatures \subseteq a.signatures
    BY <1>2, <2>2
  <2>6. cleanHighWater(a, b) = y \/ cleanHighWater(a, b) = z
    BY <2>1, <2>2, <2>3, Zenon
  <2>. QED BY <2>4, <2>5, <2>6
<1>5. c = [signatures |-> c.signatures, order |-> c.order] /\ c.signatures \subseteq f.cache.signatures
  <2>1. c = cleanHighWater(f.cache, now) \/ c = cleanOld(f.cache, now)
    BY Zenon
  <2>. HIDE DEF c, now
  <2>. QED BY <2>1, <1>2, <1>4
<1>6. FixerLike(g) /\ g.store = f.store /\ g.cache.signatures \subseteq f.cache.signatures
  <2>. HIDE DEF c, now
  <2>1. PICK hk, ro, st, ca, la : f = [headerOK |-> hk, rotation |-> ro, store |-> st, cache |-> ca, lastClean |-> la]
    BY DEF FixerLike
  <2>2. g = [headerOK |-> hk, rotation |-> ro, store |-> st, cache |-> c, lastClean |-> now]
    <3>1. PICK f1 : f1 = [f EXCEPT !.lastClean = now]
      OBVIOUS
    <3>2. f1 = [headerOK |-> hk, rotation |-> ro, store |-> st, cache |-> ca, lastClean |-> now]
      BY <3>1, <2>1
    <3>3. [f1 EXCEPT !.cache = c] = [headerOK |-> hk, rotation |-> ro, store |-> st, cache |-> c, lastClean |-> now]
      BY <3>2
    <3>4. g = [[f EXCEPT !.lastClean = now] EXCEPT !.cache = c]
      OBVIOUS
    <3>. QED BY <3>1, <3>3, <3>4
  <2>3. PICK h : h = g
    OBVIOUS
  <2>4. h.headerOK = hk /\ h.rotation = ro /\ h.store = st /\ h.cache = c /\ h.lastClean = now /\ st = f.store
    BY <2>1, <2>2, <2>3
  <2>5. h = [headerOK |-> h.headerOK, rotation |-> h.rotation, store |-> h.store,
             cache |-> h.cache, lastClean |-> h.lastClean]
    BY <2>2, <2>3, <2>4
  <2>6. st \in Store
    BY <2>4 DEF FixerLike
  <2>7. FixerLike(h)
    BY <2>4, <2>5, <2>6, <1>5 DEF FixerLike
  <2>. QED BY <2>3, <2>4, <2>7, <1>5
<1>. HIDE DEF g
<1>. QED BY <1>1, <1>6

\* What Fix does to a chunk, with the run of its loop.
LEMMA FixRuns ==
  ASSUME NEW f, FixerLike(f), NEW s \in Seq(Tag)
  PROVE  \E g : /\ FixLoop(g, f, s)
                /\ \A i \in 0..Len(s) : LoopLike(g[i]) /\ Accounted(g[i], f.cache.signatures, s, i)
                /\ Fix(f, s).out = g[Len(s)].out /\ Fix(f, s).dups = g[Len(s)].dups
                /\ FixerLike(Fix(f, s).fixer)
                /\ Fix(f, s).fixer.store = g[Len(s)].fixer.store
                /\ Fix(f, s).fixer.cache.signatures \subseteq g[Len(s)].fixer.cache.signatures
<1>. DEFINE h == [f EXCEPT !.headerOK = TRUE]
            base == [fixer |-> h, out |-> <<>>, dups |-> {}]
            N == Len(s)
<1>0. N \in Nat /\ DOMAIN s = 1..N
  OBVIOUS
<1>1. FixerLike(h) /\ h.cache = f.cache /\ h.store = f.store
  <2>1. PICK hk, ro, st, ca, la : f = [headerOK |-> hk, rotation |-> ro, store |-> st, cache |-> ca, lastClean |-> la]
    BY DEF FixerLike
  <2>2. h = [headerOK |-> TRUE, rotation |-> ro, store |-> st, cache |-> ca, lastClean |-> la]
    <3>1. ASSUME NEW b
          PROVE  [f EXCEPT !.headerOK = b]
                 = [headerOK |-> b, rotation |-> ro, store |-> st, cache |-> ca, lastClean |-> la]
      BY <2>1
    <3>. QED BY <3>1, Zenon
  <2>3. PICK k : k = h
    OBVIOUS
  <2>4. k = [headerOK |-> k.headerOK, rotation |-> k.rotation, store |-> k.store,
             cache |-> k.cache, lastClean |-> k.lastClean] /\ k.store = f.store /\ k.cache = f.cache
    BY <2>1, <2>2, <2>3
  <2>5. FixerLike(k)
    BY <2>4 DEF FixerLike
  <2>. QED BY <2>3, <2>4, <2>5
<1>2. LoopLike(base) /\ Accounted(base, f.cache.signatures, s, 0)
  <2>. HIDE DEF h
  <2>1. base.fixer = h /\ base.out = <<>> /\ base.dups = {}
        /\ base = [fixer |-> base.fixer, out |-> base.out, dups |-> base.dups]
    OBVIOUS
  <2>2. <<>> \in Seq(Entry) /\ 1..0 = {}
    OBVIOUS
  <2>. HIDE DEF base
  <2>3. LoopLike(base)
    BY <1>1, <2>1, <2>2 DEF LoopLike
  <2>4. Accounted(base, f.cache.signatures, s, 0)
    BY <1>1, <2>1, <2>2, TagsEmpty, SignaturesJoined DEF Accounted
  <2>. QED BY <2>3, <2>4
<1>3. PICK g : FixSteps(g, base, s, N) /\ FixFold(base, s) = g[N]
  <2>. HIDE DEF base, N
  <2>. QED BY <1>0, FixFolds
<1>4. g[0] = base /\ (\A i \in 1..N : g[i] = fixTag(g[i - 1], s[i])) /\ FixLoop(g, f, s)
  BY <1>3 DEF FixSteps, FixLoop
<1>. DEFINE S == {i \in 0..N : LoopLike(g[i]) /\ Accounted(g[i], f.cache.signatures, s, i)}
<1>5. 0 \in S
  BY <1>0, <1>2, <1>4
<1>6. ASSUME NEW i \in 0..N, i < N, i \in S PROVE i + 1 \in S
  <2>1. i + 1 \in 1..N /\ (i + 1) - 1 = i /\ i + 1 \in 0..N
    BY <1>0, <1>6
  <2>2. PICK j \in 1..N : j = i + 1 /\ j - 1 = i
    BY <2>1
  <2>3. LoopLike(g[i]) /\ Accounted(g[i], f.cache.signatures, s, j - 1)
    BY <1>6, <2>2
  <2>4. g[j] = fixTag(g[i], s[j])
    BY <1>4, <2>2
  <2>5. LoopLike(g[j]) /\ Accounted(g[j], f.cache.signatures, s, j)
    BY <2>3, <2>4, AccountedStep
  <2>. QED BY <2>1, <2>2, <2>5
<1>7. \A i \in 0..N : i \in S
  <2>. HIDE DEF S, N
  <2>. QED BY <1>0, <1>5, <1>6, BoundedInduction
<1>8. \A i \in 0..N : LoopLike(g[i]) /\ Accounted(g[i], f.cache.signatures, s, i)
  BY <1>7
<1>9. Fix(f, s) = [g[N] EXCEPT !.fixer = cleaned(@, N)]
  <2>1. Fix(f, s) = [FixFold(base, s) EXCEPT !.fixer = cleaned(@, N)]
    BY DEF Fix, FixFold, FoldLeft, MapThenFoldSet
  <2>. QED BY <1>3, <2>1
<1>10. LoopLike(g[N])
  BY <1>0, <1>8
<1>. HIDE DEF N
<1>11. PICK l : l = g[N]
  OBVIOUS
<1>12. l = [fixer |-> l.fixer, out |-> l.out, dups |-> l.dups] /\ FixerLike(l.fixer)
  BY <1>10, <1>11 DEF LoopLike
<1>13. Fix(f, s) = [fixer |-> cleaned(l.fixer, N), out |-> l.out, dups |-> l.dups]
  BY <1>9, <1>11, <1>12
<1>14. FixerLike(cleaned(l.fixer, N)) /\ cleaned(l.fixer, N).store = l.fixer.store
       /\ cleaned(l.fixer, N).cache.signatures \subseteq l.fixer.cache.signatures
  BY <1>12, CleanedKeeps
<1>15. PICK r : r = Fix(f, s)
  OBVIOUS
<1>16. r.fixer = cleaned(l.fixer, N) /\ r.out = l.out /\ r.dups = l.dups
  BY <1>13, <1>15
<1>17. /\ r.out = g[N].out /\ r.dups = g[N].dups /\ FixerLike(r.fixer)
       /\ r.fixer.store = g[N].fixer.store
       /\ r.fixer.cache.signatures \subseteq g[N].fixer.cache.signatures
  BY <1>11, <1>14, <1>16
<1>. QED BY <1>4, <1>8, <1>15, <1>17 DEF N

(***************************************************************************)
(* Timestamps.                                                             *)
(***************************************************************************)
\* The store st behind a tag that got the time prev.
StoreBehind(st, prev) ==
    /\ st \in Store /\ prev \in Nat /\ st.firstChunk = FALSE
    /\ prev = (IF st.lastOriginal - st.currentOffset < 0 THEN 0
               ELSE st.lastOriginal - st.currentOffset)
    /\ prev <= st.nextTarget /\ st.nextTarget <= prev + JumpThreshold

Near(a, b) == Abs(a - b) <= JumpThreshold

\* Near, without an absolute value.
LEMMA NearRange ==
  ASSUME NEW a \in Nat, NEW b \in Nat, a - b <= JumpThreshold, b - a <= JumpThreshold
  PROVE  Near(a, b)
BY FallbackRange DEF Near, Abs

\* The first tag of a file gets the time 0.
LEMMA FirstStamp ==
  ASSUME NEW t \in Tag
  PROVE  /\ fixTimestamp(TimestampStore, t).at = 0
         /\ StoreBehind(fixTimestamp(TimestampStore, t).store, 0)
<1>. DEFINE s == TimestampStore
            jump == t.ts - 0 < -JumpThreshold \/ (0 = 0 /\ t.ts - 0 < 0) \/ t.ts - 0 > JumpThreshold
            offset == IF jump THEN t.ts - 0 ELSE t.ts
            at == IF t.ts - offset < 0 THEN 0 ELSE t.ts - offset
            st == [firstChunk |-> FALSE, lastOriginal |-> t.ts, currentOffset |-> offset,
                   nextTarget |-> CalculateNextTarget(t, at)]
<1>1. s.firstChunk = TRUE /\ s.lastOriginal = 0 /\ s.currentOffset = 0 /\ s.nextTarget = 0
  BY DEF TimestampStore
<1>2. fixTimestamp(s, t) = [store |-> st, at |-> at]
  <2>. HIDE DEF s
  <2>. QED BY <1>1 DEF fixTimestamp
<1>3. t.ts \in Nat
  BY DEF Tag
<1>4. offset = t.ts
  <2>. HIDE DEF jump
  <2>. QED BY <1>3
<1>5. at = 0
  <2>. HIDE DEF offset
  <2>. QED BY <1>3, <1>4
<1>6. fixTimestamp(s, t).at = at /\ fixTimestamp(s, t).store = st
  <2>. HIDE DEF st, at
  <2>. QED BY <1>2
<1>7. s \in Store
  BY DEF TimestampStore, Store
<1>8. st \in Store
  <2>. HIDE DEF st, at, s
  <2>. QED BY <1>6, <1>7, FixTimestampType
<1>9. st.firstChunk = FALSE /\ st.lastOriginal = t.ts /\ st.currentOffset = offset
      /\ st.nextTarget = CalculateNextTarget(t, at)
  <2>. HIDE DEF offset, at
  <2>. QED OBVIOUS
<1>10. CalculateNextTarget(t, at) \in 0..JumpThreshold
  <2>. HIDE DEF at
  <2>. QED BY <1>5, FallbackRange DEF CalculateNextTarget
<1>. HIDE DEF offset, at, st, s
<1>11. StoreBehind(st, 0)
  BY <1>3, <1>4, <1>8, <1>9, <1>10, FallbackRange DEF StoreBehind
<1>. QED BY <1>5, <1>6, <1>11 DEF s

\* Every other tag gets a time near to that of the tag before it.
LEMMA NextStamp ==
  ASSUME NEW s, NEW prev, StoreBehind(s, prev), NEW t \in Tag
  PROVE  /\ Near(fixTimestamp(s, t).at, prev)
         /\ StoreBehind(fixTimestamp(s, t).store, fixTimestamp(s, t).at)
<1>. DEFINE diff == t.ts - s.lastOriginal
            jump == diff < -JumpThreshold \/ (s.lastOriginal = 0 /\ diff < 0) \/ diff > JumpThreshold
            offset == IF jump THEN t.ts - s.nextTarget
                      ELSE IF s.firstChunk THEN t.ts ELSE s.currentOffset
            at == IF t.ts - offset < 0 THEN 0 ELSE t.ts - offset
            next == CalculateNextTarget(t, at)
            st == [firstChunk |-> FALSE, lastOriginal |-> t.ts, currentOffset |-> offset,
                   nextTarget |-> next]
<1>1. fixTimestamp(s, t) = [store |-> st, at |-> at]
  BY DEF fixTimestamp
<1>2. fixTimestamp(s, t).at = at /\ fixTimestamp(s, t).store = st
  <2>. HIDE DEF st, at
  <2>. QED BY <1>1
<1>3. s \in Store /\ prev \in Nat /\ s.firstChunk = FALSE
  BY DEF StoreBehind
<1>4. at \in Nat /\ st \in Store
  <2>. HIDE DEF st, at
  <2>. QED BY <1>2, <1>3, FixTimestampType
<1>5. PICK ts, lo, off, nt : ts = t.ts /\ lo = s.lastOriginal /\ off = s.currentOffset /\ nt = s.nextTarget
  OBVIOUS
<1>6. ts \in Nat /\ lo \in Nat /\ off \in Int /\ nt \in Nat
  BY <1>3, <1>5 DEF Tag, Store
<1>7. /\ prev = (IF lo - off < 0 THEN 0 ELSE lo - off)
      /\ prev <= nt /\ nt <= prev + JumpThreshold
  BY <1>5 DEF StoreBehind
<1>8. \/ offset = ts - nt
      \/ offset = off /\ ts - lo <= JumpThreshold /\ lo - ts <= JumpThreshold
  <2>1. jump \/ (ts - lo <= JumpThreshold /\ lo - ts <= JumpThreshold)
    BY <1>5, <1>6, FallbackRange
  <2>2. jump => offset = ts - nt
    BY <1>5
  <2>3. ~jump => offset = off
    <3>. HIDE DEF jump
    <3>. QED BY <1>3, <1>5
  <2>. HIDE DEF jump, offset
  <2>. QED BY <2>1, <2>2, <2>3
<1>9. at = (IF ts - offset < 0 THEN 0 ELSE ts - offset)
  BY <1>5
<1>10. next = at + (IF t.kind = "audio" THEN AudioDurationFallback ELSE VideoDurationFallback)
  BY DEF CalculateNextTarget
<1>11. at <= next /\ next <= at + JumpThreshold
  <2>. HIDE DEF at, next
  <2>. QED BY <1>4, <1>10, FallbackRange
<1>12. at - prev <= JumpThreshold /\ prev - at <= JumpThreshold
  <2>. HIDE DEF at, offset
  <2>. QED BY <1>3, <1>6, <1>7, <1>8, <1>9, FallbackRange
<1>13. Near(at, prev)
  <2>. HIDE DEF at
  <2>. QED BY <1>3, <1>4, <1>12, NearRange
<1>14. st.firstChunk = FALSE /\ st.lastOriginal = ts /\ st.currentOffset = offset /\ st.nextTarget = next
  <2>. HIDE DEF offset, at, next
  <2>. QED BY <1>5
<1>15. StoreBehind(st, at)
  <2>. HIDE DEF st, at, offset, next
  <2>. QED BY <1>4, <1>9, <1>11, <1>14 DEF StoreBehind
<1>. HIDE DEF st, at
<1>. QED BY <1>2, <1>13, <1>15

\* The times of what was handed on since the store was st0: no jumps among them, a start
\* at 0 when st0 is new, and none from the time l0 when st0 is behind l0.
Stamped(l, st0, l0) ==
    /\ l.out = <<>> => l.fixer.store = st0
    /\ l.out # <<>> => /\ StoreBehind(l.fixer.store, l.out[Len(l.out)].at)
                       /\ st0 = TimestampStore => l.out[1].at = 0
                       /\ st0 # TimestampStore => Near(l.out[1].at, l0)
    /\ \A i \in 2..Len(l.out) : Near(l.out[i].at, l.out[i - 1].at)

\* One turn of the loop in Fix.
LEMMA StampedStep ==
  ASSUME NEW l, LoopLike(l), NEW t \in Tag, NEW st0, NEW l0, Stamped(l, st0, l0),
         st0 = TimestampStore \/ StoreBehind(st0, l0)
  PROVE  Stamped(fixTag(l, t), st0, l0)
<1>1. PICK m : m = fixTag(l, t)
  OBVIOUS
<1>2. CASE computeSignature(t) \in l.fixer.cache.signatures
  <2>1. m.fixer = l.fixer /\ m.out = l.out
    BY <1>1, <1>2, FixTagKnown
  <2>2. Stamped(m, st0, l0)
    BY <2>1, Zenon DEF Stamped
  <2>. QED BY <2>2, <1>1
<1>3. CASE computeSignature(t) \notin l.fixer.cache.signatures
  <2>1. PICK ft : ft = fixTimestamp(l.fixer.store, t)
    OBVIOUS
  <2>2. PICK e : e = [tag |-> t, at |-> ft.at]
    OBVIOUS
  <2>3. m.out = Append(l.out, e) /\ e \in Entry /\ m.fixer.store = ft.store /\ e.at = ft.at
    BY <1>1, <1>3, <2>1, <2>2, FixTagNew
  <2>4. PICK n : n = Len(l.out)
    OBVIOUS
  <2>5. /\ n \in Nat /\ Len(m.out) = n + 1 /\ m.out[n + 1] = e
        /\ \A i \in 1..n : m.out[i] = l.out[i]
        /\ m.out # <<>> /\ (n = 0 <=> l.out = <<>>)
    <3>1. PICK o, p : o = l.out /\ p = m.out
      OBVIOUS
    <3>2. o \in Seq(Entry) /\ p = Append(o, e) /\ n = Len(o)
      BY <2>3, <2>4, <3>1 DEF LoopLike
    <3>3. /\ n \in Nat /\ Len(p) = n + 1 /\ p[n + 1] = e
          /\ \A i \in 1..n : p[i] = o[i]
      BY <3>2, <2>3
    <3>4. p # <<>> /\ (n = 0 <=> o = <<>>)
      BY <3>2, <3>3
    <3>. QED BY <3>1, <3>3, <3>4
  <2>6. n = 0 => l.fixer.store = st0
    BY <2>5 DEF Stamped
  <2>7. n # 0 => StoreBehind(l.fixer.store, l.out[n].at)
    BY <2>4, <2>5 DEF Stamped
  <2>8. StoreBehind(m.fixer.store, e.at)
    <3>1. CASE n = 0 /\ st0 = TimestampStore
      BY <3>1, <2>1, <2>3, <2>6, FirstStamp
    <3>2. CASE n = 0 /\ StoreBehind(st0, l0)
      BY <3>2, <2>1, <2>3, <2>6, NextStamp
    <3>3. CASE n # 0
      BY <3>3, <2>1, <2>3, <2>7, NextStamp
    <3>. QED BY <3>1, <3>2, <3>3
  <2>9. n # 0 => Near(e.at, m.out[n].at)
    <3>1. ASSUME n # 0 PROVE Near(e.at, l.out[n].at)
      BY <3>1, <2>1, <2>3, <2>7, NextStamp
    <3>. QED BY <3>1, <2>5
  <2>10. st0 = TimestampStore => m.out[1].at = 0
    <3>1. CASE n = 0
      BY <3>1, <2>1, <2>3, <2>5, <2>6, FirstStamp
    <3>2. CASE n # 0
      <4>1. 1 \in 1..n BY <3>2, <2>5
      <4>. QED BY <4>1, <3>2, <2>5 DEF Stamped
    <3>. QED BY <3>1, <3>2
  <2>11. st0 # TimestampStore => Near(m.out[1].at, l0)
    <3>1. CASE n = 0
      BY <3>1, <2>1, <2>3, <2>5, <2>6, NextStamp
    <3>2. CASE n # 0
      <4>1. 1 \in 1..n BY <3>2, <2>5
      <4>. QED BY <4>1, <3>2, <2>5 DEF Stamped
    <3>. QED BY <3>1, <3>2
  <2>12. ASSUME NEW i \in 2..Len(m.out) PROVE Near(m.out[i].at, m.out[i - 1].at)
    <3>1. CASE i = n + 1
      <4>1. n # 0 /\ i - 1 = n BY <3>1, <2>5
      <4>. QED BY <4>1, <3>1, <2>5, <2>9
    <3>2. CASE i # n + 1
      <4>1. i \in 2..n /\ i \in 1..n /\ i - 1 \in 1..n BY <3>2, <2>5
      <4>2. Near(l.out[i].at, l.out[i - 1].at) BY <4>1, <2>4 DEF Stamped
      <4>. QED BY <4>1, <4>2, <2>5
    <3>. QED BY <3>1, <3>2
  <2>13. StoreBehind(m.fixer.store, m.out[Len(m.out)].at)
    BY <2>5, <2>8
  <2>14. Stamped(m, st0, l0)
    BY <2>5, <2>10, <2>11, <2>12, <2>13 DEF Stamped
  <2>. QED BY <2>14, <1>1
<1>. QED BY <1>2, <1>3

\* The whole run.
LEMMA RunStamped ==
  ASSUME NEW f, FixerLike(f), NEW s \in Seq(Tag), NEW g, FixLoop(g, f, s),
         \A i \in 0..Len(s) : LoopLike(g[i]),
         NEW l0, f.store = TimestampStore \/ StoreBehind(f.store, l0)
  PROVE  Stamped(g[Len(s)], f.store, l0)
<1>. DEFINE N == Len(s)
            S == {i \in 0..N : Stamped(g[i], f.store, l0)}
<1>1. N \in Nat
  OBVIOUS
<1>2. 0 \in S
  <2>1. g[0] = [fixer |-> [f EXCEPT !.headerOK = TRUE], out |-> <<>>, dups |-> {}]
    BY Zenon DEF FixLoop, FixSteps
  <2>2. PICK h : h = [f EXCEPT !.headerOK = TRUE]
    OBVIOUS
  <2>3. h.store = f.store
    <3>1. ASSUME NEW b PROVE [f EXCEPT !.headerOK = b].store = f.store
      BY DEF FixerLike
    <3>. QED BY <2>2, <3>1, Zenon
  <2>4. g[0].out = <<>> /\ g[0].fixer.store = f.store
    <3>1. g[0] = [fixer |-> h, out |-> <<>>, dups |-> {}]
      BY <2>1, <2>2
    <3>. QED BY <2>3, <3>1
  <2>5. Stamped(g[0], f.store, l0)
    BY <2>4 DEF Stamped
  <2>. QED BY <2>5, <1>1
<1>3. ASSUME NEW i \in 0..N, i < N, i \in S PROVE i + 1 \in S
  <2>1. PICK j \in 1..N : j = i + 1 /\ j - 1 = i
    BY <1>1, <1>3
  <2>2. g[j] = fixTag(g[j - 1], s[j])
    BY DEF FixLoop, FixSteps
  <2>3. LoopLike(g[i]) /\ s[j] \in Tag /\ Stamped(g[i], f.store, l0)
    BY <1>3
  <2>4. Stamped(g[j], f.store, l0)
    BY <2>1, <2>2, <2>3, StampedStep
  <2>. QED BY <2>1, <2>4
<1>4. \A i \in 0..N : i \in S
  <2>. HIDE DEF S, N
  <2>. QED BY <1>1, <1>2, <1>3, BoundedInduction
<1>. QED BY <1>1, <1>4

(***************************************************************************)
(* The stream: Chunks is a recursive function, which exists because its    *)
(* beginnings do and agree.                                                *)
(***************************************************************************)
NoTags == {[tags |-> <<>>, source |-> source]}
OneTagMore(cs) ==
    UNION {{[tags |-> Append(c.tags, t), source |-> Said(c.source, t)] : t \in Sendable(c.source)}
           : c \in cs}

\* g has the chunks of up to n tags.
Growing(g, n) == /\ g[0] = NoTags
                 /\ \A i \in 1..n : g[i] = OneTagMore(g[i - 1])

LEMMA GrowingExists == \A n \in Nat : \E g : Growing(g, n)
<1>. DEFINE S == {n \in Nat : \E g : Growing(g, n)}
<1>1. 0 \in S
  <2>1. Growing([i \in 0..0 |-> NoTags], 0)
    BY DEF Growing
  <2>. QED BY <2>1
<1>2. ASSUME NEW n \in Nat, n \in S PROVE n + 1 \in S
  <2>1. PICK g : Growing(g, n)
    BY <1>2
  <2>. DEFINE h == [i \in 0..(n + 1) |-> IF i = n + 1 THEN OneTagMore(g[n]) ELSE g[i]]
  <2>2. h[0] = g[0] /\ h[n + 1] = OneTagMore(g[n]) /\ \A i \in 0..n : h[i] = g[i]
    OBVIOUS
  <2>3. ASSUME NEW i \in 1..(n + 1) PROVE h[i] = OneTagMore(h[i - 1])
    <3>. HIDE DEF h
    <3>1. CASE i = n + 1
      <4>1. i - 1 = n /\ n \in 0..n BY <3>1
      <4>. QED BY <4>1, <3>1, <2>2
    <3>2. CASE i # n + 1
      <4>1. i \in 1..n /\ i \in 0..n /\ i - 1 \in 0..n BY <3>2
      <4>2. g[i] = OneTagMore(g[i - 1]) BY <4>1, <2>1 DEF Growing
      <4>. QED BY <4>1, <4>2, <2>2
    <3>. QED BY <3>1, <3>2
  <2>4. Growing(h, n + 1)
    <3>. HIDE DEF h
    <3>. QED BY <2>1, <2>2, <2>3 DEF Growing
  <2>. HIDE DEF h
  <2>. QED BY <2>4
<1>3. \A n \in Nat : n \in S
  <2>. HIDE DEF S
  <2>. QED BY <1>1, <1>2, SetInduction
<1>. QED BY <1>3

LEMMA GrowingAgree ==
  ASSUME NEW n \in Nat, NEW m \in Nat, m <= n, NEW g, Growing(g, n), NEW h, Growing(h, m)
  PROVE  g[m] = h[m]
<1>. DEFINE S == {i \in 0..m : g[i] = h[i]}
<1>1. 0 \in S
  BY DEF Growing
<1>2. ASSUME NEW i \in 0..m, i < m, i \in S PROVE i + 1 \in S
  <2>1. PICK j : j = i + 1 /\ j \in 1..m /\ j \in 1..n /\ j - 1 = i /\ j \in 0..m
    BY <1>2
  <2>2. g[j] = OneTagMore(g[i]) /\ h[j] = OneTagMore(h[i])
    BY <2>1 DEF Growing
  <2>. QED BY <2>1, <2>2, <1>2
<1>3. \A i \in 0..m : i \in S
  <2>. HIDE DEF S
  <2>. QED BY <1>1, <1>2, BoundedInduction
<1>. QED BY <1>3

\* The chunks of one tag more are those of n tags with one more.
LEMMA ChunksGrow ==
  /\ Chunks[0] = NoTags
  /\ \A n \in Nat \ {0} : Chunks[n] = OneTagMore(Chunks[n - 1])
<1>. DEFINE P(n) == CHOOSE g : Growing(g, n)
            f == [n \in Nat |-> P(n)[n]]
            Rec(g) == g = [n \in Nat |-> IF n = 0 THEN NoTags ELSE OneTagMore(g[n - 1])]
<1>1. ASSUME NEW n \in Nat PROVE Growing(P(n), n)
  BY GrowingExists
<1>2. ASSUME NEW n \in Nat PROVE f[n] = IF n = 0 THEN NoTags ELSE OneTagMore(f[n - 1])
  <2>1. CASE n = 0
    <3>1. Growing(P(0), 0) BY <1>1
    <3>2. P(0)[0] = NoTags
      <4>. HIDE DEF P
      <4>. QED BY <3>1 DEF Growing
    <3>. QED BY <2>1, <3>2
  <2>2. CASE n # 0
    <3>1. n - 1 \in Nat /\ n - 1 <= n /\ n \in 1..n
      BY <2>2
    <3>2. Growing(P(n), n) /\ Growing(P(n - 1), n - 1)
      <4>. HIDE DEF P
      <4>. QED BY <1>1, <3>1
    <3>3. f[n] = P(n)[n] /\ f[n - 1] = P(n - 1)[n - 1]
      BY <3>1
    <3>. HIDE DEF P, f
    <3>4. P(n)[n] = OneTagMore(P(n)[n - 1])
      BY <3>1, <3>2 DEF Growing
    <3>5. P(n)[n - 1] = P(n - 1)[n - 1]
      BY <3>1, <3>2, GrowingAgree
    <3>. QED BY <2>2, <3>3, <3>4, <3>5
  <2>. QED BY <2>1, <2>2
<1>3. Rec(f)
  <2>1. PICK k : k = f
    OBVIOUS
  <2>2. k = [n \in Nat |-> k[n]]
    BY <2>1
  <2>3. \A n \in Nat : k[n] = IF n = 0 THEN NoTags ELSE OneTagMore(k[n - 1])
    <3>. HIDE DEF f
    <3>. QED BY <1>2, <2>1
  <2>4. Rec(k)
    BY <2>2, <2>3
  <2>. HIDE DEF Rec, f
  <2>. QED BY <2>1, <2>4
<1>4. Chunks = CHOOSE g : Rec(g)
  BY DEF Chunks, NoTags, OneTagMore
<1>5. Rec(Chunks)
  <2>. HIDE DEF Rec, f
  <2>. QED BY <1>3, <1>4
<1>. QED BY <1>5

(***************************************************************************)
(* What the stream says: a video frame carries the configuration of the    *)
(* video header before it.                                                 *)
(***************************************************************************)
SourceLike(s) ==
    s \in [magic : BOOLEAN, video : Nat, audio : Nat, ts : Nat, sent : Nat]

\* Behind the configuration v the tag t may come, and leaves w in force.
Leads(v, t, w) ==
    IF t.kind = "video" THEN w = t.config /\ (t.header \/ v = t.config) ELSE w = v

\* h[i] is the configuration in force behind tag i of s.
Forces(h, v, s, w) ==
    /\ h[0] = v /\ h[Len(s)] = w
    /\ \A i \in 1..Len(s) : Leads(h[i - 1], s[i], h[i])

InForce(v, s, w) == \E h : Forces(h, v, s, w)

\* No tag changes nothing.
LEMMA InForceNone ==
  ASSUME NEW v, NEW s, s = <<>>
  PROVE  InForce(v, s, v)
<1>1. Len(s) = 0
  OBVIOUS
<1>2. Forces([i \in 0..0 |-> v], v, s, v)
  BY <1>1 DEF Forces
<1>. QED BY <1>2 DEF InForce

\* One more tag at the end.
LEMMA InForceAppend ==
  ASSUME NEW v, NEW s \in Seq(Tag), NEW w, InForce(v, s, w), NEW t \in Tag, NEW x, Leads(w, t, x)
  PROVE  InForce(v, Append(s, t), x)
<1>1. PICK h : Forces(h, v, s, w)
  BY DEF InForce
<1>2. PICK n \in Nat : n = Len(s)
  OBVIOUS
<1>3. PICK r : r = Append(s, t)
  OBVIOUS
<1>4. Len(r) = n + 1 /\ r[n + 1] = t /\ \A i \in 1..n : r[i] = s[i]
  BY <1>2, <1>3
<1>. DEFINE k == [i \in 0..(n + 1) |-> IF i = n + 1 THEN x ELSE h[i]]
<1>5. k[n + 1] = x /\ (\A i \in 0..n : k[i] = h[i])
  OBVIOUS
<1>. HIDE DEF k
<1>6. k[0] = v /\ k[Len(r)] = x
  <2>1. 0 \in 0..n OBVIOUS
  <2>. QED BY <2>1, <1>1, <1>4, <1>5 DEF Forces
<1>7. ASSUME NEW i \in 1..Len(r) PROVE Leads(k[i - 1], r[i], k[i])
  <2>1. CASE i = n + 1
    <3>1. i - 1 = n /\ n \in 0..n BY <2>1
    <3>2. k[n] = w BY <3>1, <1>1, <1>2, <1>5 DEF Forces
    <3>. QED BY <3>1, <3>2, <2>1, <1>4, <1>5
  <2>2. CASE i # n + 1
    <3>1. i \in 1..n /\ i \in 0..n /\ i - 1 \in 0..n BY <2>2, <1>4
    <3>2. Leads(h[i - 1], s[i], h[i]) BY <3>1, <1>1, <1>2 DEF Forces
    <3>3. k[i - 1] = h[i - 1] /\ k[i] = h[i] /\ r[i] = s[i] BY <3>1, <1>4, <1>5
    <3>. QED BY <3>2, <3>3
  <2>. QED BY <2>1, <2>2
<1>8. Forces(k, v, r, x)
  BY <1>6, <1>7 DEF Forces
<1>. QED BY <1>3, <1>8 DEF InForce

\* One more tag in front.
LEMMA InForceBehind ==
  ASSUME NEW v, NEW t \in Tag, NEW x, Leads(v, t, x), NEW s \in Seq(Tag), NEW w, InForce(x, s, w)
  PROVE  InForce(v, <<t>> \o s, w)
<1>1. PICK h : Forces(h, x, s, w)
  BY DEF InForce
<1>2. PICK n \in Nat : n = Len(s)
  OBVIOUS
<1>3. PICK r : r = <<t>> \o s
  OBVIOUS
<1>4. Len(r) = n + 1 /\ r[1] = t /\ \A i \in 2..(n + 1) : r[i] = s[i - 1]
  BY <1>2, <1>3
<1>. DEFINE k == [i \in 0..(n + 1) |-> IF i = 0 THEN v ELSE h[i - 1]]
<1>5. k[0] = v /\ (\A i \in 1..(n + 1) : k[i] = h[i - 1])
  OBVIOUS
<1>. HIDE DEF k
<1>6. k[Len(r)] = w
  <2>1. n + 1 \in 1..(n + 1) /\ (n + 1) - 1 = n OBVIOUS
  <2>. QED BY <2>1, <1>1, <1>2, <1>4, <1>5 DEF Forces
<1>7. ASSUME NEW i \in 1..Len(r) PROVE Leads(k[i - 1], r[i], k[i])
  <2>1. CASE i = 1
    <3>1. i - 1 = 0 /\ 1 \in 1..(n + 1) BY <2>1
    <3>2. k[1] = x /\ k[0] = v /\ r[1] = t BY <3>1, <2>1, <1>1, <1>4, <1>5 DEF Forces
    <3>. QED BY <3>1, <3>2, <2>1
  <2>2. CASE i # 1
    <3>1. i \in 2..(n + 1) /\ i \in 1..(n + 1) /\ i - 1 \in 1..(n + 1) /\ i - 1 \in 1..n BY <2>2, <1>4
    <3>2. PICK j : j = i - 1 OBVIOUS
    <3>3. Leads(h[j - 1], s[j], h[j]) BY <3>1, <3>2, <1>1, <1>2 DEF Forces
    <3>4. k[j] = h[j - 1] /\ k[i] = h[j] /\ r[i] = s[j] BY <3>1, <3>2, <1>4, <1>5
    <3>. QED BY <3>2, <3>3, <3>4
  <2>. QED BY <2>1, <2>2
<1>8. Forces(k, v, r, w)
  BY <1>5, <1>6, <1>7 DEF Forces
<1>. QED BY <1>3, <1>8 DEF InForce

\* All tags but the last.
LEMMA InForceFront ==
  ASSUME NEW v, NEW s \in Seq(Tag), s # <<>>, NEW w, InForce(v, s, w)
  PROVE  /\ Front(s) \in Seq(Tag) /\ Last(s) \in Tag
         /\ \E u : InForce(v, Front(s), u) /\ Leads(u, Last(s), w)
<1>1. PICK h : Forces(h, v, s, w)
  BY DEF InForce
<1>2. PICK n \in Nat : n = Len(s)
  OBVIOUS
<1>3. n # 0 /\ n \in 1..n /\ n - 1 \in Nat
  BY <1>2
<1>4. PICK r : r = Front(s)
  OBVIOUS
<1>5. r \in Seq(Tag) /\ Len(r) = n - 1 /\ (\A i \in 1..(n - 1) : r[i] = s[i]) /\ Last(s) = s[n] /\ s[n] \in Tag
  BY <1>2, <1>3, <1>4 DEF Front, Last
<1>6. Forces(h, v, r, h[n - 1])
  <2>1. ASSUME NEW i \in 1..(n - 1) PROVE Leads(h[i - 1], r[i], h[i])
    <3>1. i \in 1..n BY <1>3
    <3>. QED BY <3>1, <1>1, <1>2, <1>5 DEF Forces
  <2>. QED BY <2>1, <1>1, <1>5 DEF Forces
<1>7. Leads(h[n - 1], s[n], w)
  BY <1>1, <1>2, <1>3 DEF Forces
<1>. QED BY <1>4, <1>5, <1>6, <1>7 DEF InForce

\* Sending one more tag.
LEMMA SendOne ==
  ASSUME NEW s, SourceLike(s), NEW t \in Sendable(s)
  PROVE  t \in Tag /\ SourceLike(Said(s, t)) /\ Leads(s.video, t, Said(s, t).video)
<1>1. /\ VideoConfigs \subseteq Nat \ {0} /\ AudioConfigs \subseteq Nat \ {0} /\ Times \subseteq Nat
      /\ FrameBodies \subseteq Nat
  BY FlvAssumption DEF FlvAssumption
<1>2. s.ts \in Nat /\ s.video \in Nat /\ s.audio \in Nat
  BY DEF SourceLike
<1>3. PICK kk, hh, cc, tt, bb : t = [kind |-> kk, header |-> hh, config |-> cc, ts |-> tt, body |-> bb]
        /\ kk \in {"video", "audio"} /\ hh \in BOOLEAN /\ cc \in Nat \ {0} /\ tt \in Nat /\ bb \in Nat
        /\ (kk = "video" => hh = TRUE \/ cc = s.video)
  <2>. DEFINE Form(kk, hh, cc, tt, bb) ==
         /\ t = [kind |-> kk, header |-> hh, config |-> cc, ts |-> tt, body |-> bb]
         /\ kk \in {"video", "audio"} /\ hh \in BOOLEAN /\ cc \in Nat \ {0} /\ tt \in Nat /\ bb \in Nat
         /\ (kk = "video" => hh = TRUE \/ cc = s.video)
  <2>1. CASE \E c \in VideoConfigs : t = VideoHeader(c, s.ts)
    <3>1. PICK c \in VideoConfigs : t = VideoHeader(c, s.ts)
      BY <2>1
    <3>2. Form("video", TRUE, c, s.ts, c)
      BY <3>1, <1>1, <1>2 DEF VideoHeader
    <3>. QED BY <3>2
  <2>2. CASE \E c \in AudioConfigs : t = AudioHeader(c, s.ts)
    <3>1. PICK c \in AudioConfigs : t = AudioHeader(c, s.ts)
      BY <2>2
    <3>2. Form("audio", TRUE, c, s.ts, c)
      BY <3>1, <1>1, <1>2 DEF AudioHeader
    <3>. QED BY <3>2
  <2>3. CASE \E c \in {s.video} \ {0}, u \in Times, b \in FrameBodies : t = Frame("video", c, u, b)
    <3>1. PICK c \in {s.video} \ {0}, u \in Times, b \in FrameBodies : t = Frame("video", c, u, b)
      BY <2>3
    <3>2. Form("video", FALSE, c, u, b)
      BY <3>1, <1>1, <1>2 DEF Frame
    <3>. QED BY <3>2
  <2>4. CASE \E c \in {s.audio} \ {0}, u \in Times, b \in FrameBodies : t = Frame("audio", c, u, b)
    <3>1. PICK c \in {s.audio} \ {0}, u \in Times, b \in FrameBodies : t = Frame("audio", c, u, b)
      BY <2>4
    <3>2. Form("audio", FALSE, c, u, b)
      BY <3>1, <1>1, <1>2 DEF Frame
    <3>. QED BY <3>2
  <2>5. \/ \E c \in VideoConfigs : t = VideoHeader(c, s.ts)
        \/ \E c \in AudioConfigs : t = AudioHeader(c, s.ts)
        \/ \E c \in {s.video} \ {0}, u \in Times, b \in FrameBodies : t = Frame("video", c, u, b)
        \/ \E c \in {s.audio} \ {0}, u \in Times, b \in FrameBodies : t = Frame("audio", c, u, b)
    <3>. DEFINE A == {VideoHeader(c, s.ts) : c \in VideoConfigs}
                B == {AudioHeader(c, s.ts) : c \in AudioConfigs}
                C == {Frame("video", c, u, b) : c \in {s.video} \ {0}, u \in Times, b \in FrameBodies}
                D == {Frame("audio", c, u, b) : c \in {s.audio} \ {0}, u \in Times, b \in FrameBodies}
    <3>2. Sendable(s) = A \cup B \cup C \cup D
      BY DEF Sendable
    <3>3. t \in A \/ t \in B \/ t \in C \/ t \in D
      <4>. HIDE DEF A, B, C, D
      <4>. QED BY <3>2
    <3>4. t \in A => \E c \in VideoConfigs : t = VideoHeader(c, s.ts)
      OBVIOUS
    <3>5. t \in B => \E c \in AudioConfigs : t = AudioHeader(c, s.ts)
      OBVIOUS
    <3>6. t \in C => \E c \in {s.video} \ {0}, u \in Times, b \in FrameBodies : t = Frame("video", c, u, b)
      OBVIOUS
    <3>7. t \in D => \E c \in {s.audio} \ {0}, u \in Times, b \in FrameBodies : t = Frame("audio", c, u, b)
      OBVIOUS
    <3>. HIDE DEF A, B, C, D
    <3>. QED BY <3>3, <3>4, <3>5, <3>6, <3>7, Zenon
  <2>. QED BY <2>1, <2>2, <2>3, <2>4, <2>5, Zenon
<1>4. t \in Tag
  BY <1>3 DEF Tag
<1>5. t.kind = kk /\ t.header = hh /\ t.config = cc /\ t.ts = tt
  BY <1>3
<1>6. PICK mm, vv, aa, ss, nn : s = [magic |-> mm, video |-> vv, audio |-> aa, ts |-> ss, sent |-> nn]
         /\ mm \in BOOLEAN /\ vv \in Nat /\ aa \in Nat /\ ss \in Nat /\ nn \in Nat
  BY DEF SourceLike
<1>. DEFINE v2 == IF kk = "video" THEN cc ELSE vv
            a2 == IF kk = "audio" THEN cc ELSE aa
<1>7. Said(s, t) = [magic |-> mm, video |-> v2, audio |-> a2, ts |-> tt, sent |-> nn + 1]
  <2>1. Said(s, t) = [s EXCEPT !.ts = tt, !.sent = nn + 1, !.video = v2, !.audio = a2]
    BY <1>5, <1>6 DEF Said
  <2>. HIDE DEF v2, a2
  <2>2. PICK s1 : s1 = [s EXCEPT !.ts = tt]
    OBVIOUS
  <2>3. s1 = [magic |-> mm, video |-> vv, audio |-> aa, ts |-> tt, sent |-> nn]
    BY <2>2, <1>6
  <2>4. PICK n2 : n2 = nn + 1
    OBVIOUS
  <2>5. PICK s2 : s2 = [s1 EXCEPT !.sent = n2]
    OBVIOUS
  <2>6. s2 = [magic |-> mm, video |-> vv, audio |-> aa, ts |-> tt, sent |-> n2]
    BY <2>3, <2>5
  <2>7. PICK s3 : s3 = [s2 EXCEPT !.video = v2]
    OBVIOUS
  <2>8. s3 = [magic |-> mm, video |-> v2, audio |-> aa, ts |-> tt, sent |-> n2]
    BY <2>6, <2>7
  <2>9. [s3 EXCEPT !.audio = a2] = [magic |-> mm, video |-> v2, audio |-> a2, ts |-> tt, sent |-> n2]
    BY <2>8
  <2>10. [s EXCEPT !.ts = tt, !.sent = n2, !.video = v2, !.audio = a2] = [s3 EXCEPT !.audio = a2]
    BY <2>2, <2>5, <2>7
  <2>. QED BY <2>1, <2>4, <2>9, <2>10
<1>8. v2 \in Nat /\ a2 \in Nat /\ nn + 1 \in Nat
  BY <1>3, <1>6
<1>9. Said(s, t).video = v2 /\ s.video = vv
  <2>. HIDE DEF v2, a2
  <2>. QED BY <1>6, <1>7
<1>10. SourceLike(Said(s, t))
  <2>. HIDE DEF v2, a2
  <2>. QED BY <1>3, <1>6, <1>7, <1>8 DEF SourceLike
<1>11. Leads(s.video, t, Said(s, t).video)
  BY <1>3, <1>5, <1>9, Zenon DEF Leads
<1>. QED BY <1>4, <1>10, <1>11

\* A chunk is as the stream may send it.
ChunkLike(c, n) ==
    /\ c.tags \in Seq(Tag) /\ Len(c.tags) = n /\ SourceLike(c.source)
    /\ InForce(source.video, c.tags, c.source.video)

LEMMA ChunksLike ==
  ASSUME SourceLike(source)
  PROVE  \A n \in Nat : \A c \in Chunks[n] : ChunkLike(c, n)
<1>. DEFINE S == {n \in Nat : \A c \in Chunks[n] : ChunkLike(c, n)}
<1>1. 0 \in S
  <2>1. ASSUME NEW c \in Chunks[0] PROVE ChunkLike(c, 0)
    <3>1. c = [tags |-> <<>>, source |-> source]
      BY ChunksGrow DEF NoTags
    <3>2. PICK ts : ts = c.tags /\ ts = <<>>
      BY <3>1
    <3>3. ts \in Seq(Tag) /\ Len(ts) = 0
      BY <3>2
    <3>4. c.source = source
      BY <3>1
    <3>5. InForce(source.video, ts, source.video)
      BY <3>2, InForceNone
    <3>. QED BY <3>2, <3>3, <3>4, <3>5 DEF ChunkLike
  <2>. QED BY <2>1
<1>2. ASSUME NEW n \in Nat, n \in S PROVE n + 1 \in S
  <2>1. ASSUME NEW c \in Chunks[n + 1] PROVE ChunkLike(c, n + 1)
    <3>1. Chunks[n + 1] = OneTagMore(Chunks[n])
      <4>1. n + 1 \in Nat \ {0} /\ (n + 1) - 1 = n OBVIOUS
      <4>. QED BY <4>1, ChunksGrow
    <3>2. PICK b \in Chunks[n] : \E t \in Sendable(b.source) :
            c = [tags |-> Append(b.tags, t), source |-> Said(b.source, t)]
      BY <3>1, Zenon DEF OneTagMore
    <3>. PICK t \in Sendable(b.source) :
            c = [tags |-> Append(b.tags, t), source |-> Said(b.source, t)]
      BY <3>2
    <3>3. ChunkLike(b, n)
      BY <1>2
    <3>4. PICK bt, bs : bt = b.tags /\ bs = b.source
      OBVIOUS
    <3>5. /\ bt \in Seq(Tag) /\ Len(bt) = n /\ SourceLike(bs)
          /\ InForce(source.video, bt, bs.video) /\ t \in Sendable(bs)
      BY <3>3, <3>4 DEF ChunkLike
    <3>6. t \in Tag /\ SourceLike(Said(bs, t)) /\ Leads(bs.video, t, Said(bs, t).video)
      BY <3>5, SendOne
    <3>7. PICK ct, cs : ct = Append(bt, t) /\ cs = Said(bs, t)
      OBVIOUS
    <3>8. c.tags = ct /\ c.source = cs
      BY <3>2, <3>4, <3>7
    <3>9. InForce(source.video, ct, cs.video)
      BY <3>5, <3>6, <3>7, InForceAppend
    <3>10. ct \in Seq(Tag) /\ Len(ct) = n + 1
      BY <3>5, <3>6, <3>7
    <3>. QED BY <3>6, <3>7, <3>8, <3>9, <3>10 DEF ChunkLike
  <2>. QED BY <2>1
<1>3. \A n \in Nat : n \in S
  <2>. HIDE DEF S
  <2>. QED BY <1>1, <1>2, SetInduction
<1>. QED BY <1>3

(***************************************************************************)
(* The detector.                                                           *)
(***************************************************************************)
IsVideoHeader(t) == t.kind = "video" /\ t.header

SeenLike(d) == d \in [video : Nat, audio : Nat]

\* Behind k entries of es, for a detector that began with d.
Detects(r, d, es, k) ==
    /\ r = [seen |-> r.seen, at |-> r.at, changed |-> r.changed]
    /\ SeenLike(r.seen) /\ r.changed \in BOOLEAN
    /\ ~r.changed => /\ \A j \in 1..k : IsVideoHeader(es[j].tag) => es[j].tag.config = r.seen.video
                     /\ \/ r.seen.video = d.video
                        \/ d.video = 0 /\ \E j \in 1..k : IsVideoHeader(es[j].tag)
    /\ r.changed => r.seen.video # 0 /\ \E j \in 1..k : IsVideoHeader(es[j].tag)

\* A header replaces what the detector knows of its kind.
LEMMA CheckHeaderType ==
  ASSUME NEW d, SeenLike(d), NEW t \in Tag
  PROVE  /\ SeenLike(checkHeader(d, t))
         /\ checkHeader(d, t).video = (IF t.kind = "video" THEN t.config ELSE d.video)
<1>1. PICK v \in Nat, a \in Nat : d = [video |-> v, audio |-> a]
  BY DEF SeenLike
<1>2. PICK c \in Nat : c = t.config
  BY DEF Tag
<1>3. CASE t.kind = "video"
  <2>1. checkHeader(d, t) = [d EXCEPT !.video = c]
    BY <1>2, <1>3 DEF checkHeader
  <2>2. checkHeader(d, t) = [video |-> c, audio |-> a]
    BY <1>1, <2>1
  <2>. QED BY <1>2, <1>3, <2>2 DEF SeenLike
<1>4. CASE t.kind # "video"
  <2>1. checkHeader(d, t) = [d EXCEPT !.audio = c]
    BY <1>2, <1>4 DEF checkHeader
  <2>2. checkHeader(d, t) = [video |-> v, audio |-> c]
    BY <1>1, <2>1
  <2>. QED BY <1>1, <1>4, <2>2 DEF SeenLike
<1>. QED BY <1>3, <1>4

\* One turn of the loop in DetectChange.
LEMMA DetectStep ==
  ASSUME NEW r, NEW d, NEW es \in Seq(Entry), NEW k \in 1..Len(es), Detects(r, d, es, k - 1)
  PROVE  Detects(detectTag(r, es[k]), d, es, k)
<1>1. PICK e \in Entry : e = es[k]
  OBVIOUS
<1>2. PICK t \in Tag : t = e.tag
  BY DEF Entry
<1>3. t.config \in Nat \ {0} /\ t.header \in BOOLEAN
  BY DEF Tag
<1>4. k \in Nat /\ k \in 1..k /\ (\A j \in 1..k : j = k \/ j \in 1..(k - 1)) /\ (\A j \in 1..(k - 1) : j \in 1..k)
  OBVIOUS
<1>5. PICK q : q = detectTag(r, e)
  OBVIOUS
<1>6. PICK se, at, ch : se = r.seen /\ at = r.at /\ ch = r.changed
  OBVIOUS
<1>7. r = [seen |-> se, at |-> at, changed |-> ch] /\ SeenLike(se) /\ ch \in BOOLEAN
  BY <1>6 DEF Detects
<1>8. ASSUME ch \/ ~t.header PROVE Detects(q, d, es, k)
  <2>1. PICK m : m = IF ch THEN at ELSE at + 1
    OBVIOUS
  <2>2. q = [r EXCEPT !.at = m]
    BY <1>2, <1>5, <1>6, <1>7, <1>8, <2>1 DEF detectTag
  <2>3. q = [seen |-> se, at |-> m, changed |-> ch]
    BY <1>7, <2>2
  <2>4. q.seen = se /\ q.at = m /\ q.changed = ch
    BY <2>3
  <2>5. q = [seen |-> q.seen, at |-> q.at, changed |-> q.changed]
    BY <2>3, <2>4
  <2>6. ~ch => ~IsVideoHeader(t)
    BY <1>8 DEF IsVideoHeader
  <2>8. ASSUME NEW j \in 1..k, ~ch, IsVideoHeader(es[j].tag) PROVE es[j].tag.config = se.video
    <3>1. j \in 1..(k - 1)
      BY <1>1, <1>2, <1>4, <2>6, <2>8
    <3>. QED BY <3>1, <1>6, <2>8 DEF Detects
  <2>9. ~ch => \/ se.video = d.video
               \/ d.video = 0 /\ \E j \in 1..k : IsVideoHeader(es[j].tag)
    BY <1>4, <1>6 DEF Detects
  <2>10. ch => se.video # 0 /\ \E j \in 1..k : IsVideoHeader(es[j].tag)
    BY <1>4, <1>6 DEF Detects
  <2>. QED BY <1>7, <2>4, <2>5, <2>8, <2>9, <2>10, Zenon DEF Detects
<1>9. ASSUME ~ch, t.header PROVE Detects(q, d, es, k)
  <2>1. PICK s2 : s2 = checkHeader(se, t)
    OBVIOUS
  <2>2. PICK c2 \in BOOLEAN : c2 = (t.kind = "video" /\ se.video \notin {0, t.config})
    OBVIOUS
  <2>3. q = [seen |-> s2, at |-> at + 1, changed |-> c2]
    BY <1>2, <1>5, <1>6, <1>9, <2>1, <2>2 DEF detectTag
  <2>4. q.seen = s2 /\ q.changed = c2
    BY <2>3
  <2>5. q = [seen |-> q.seen, at |-> q.at, changed |-> q.changed]
    BY <2>3
  <2>6. SeenLike(s2) /\ s2.video = (IF t.kind = "video" THEN t.config ELSE se.video)
    BY <1>7, <2>1, CheckHeaderType
  <2>7. /\ \A j \in 1..(k - 1) : IsVideoHeader(es[j].tag) => es[j].tag.config = se.video
        /\ \/ se.video = d.video
           \/ d.video = 0 /\ \E j \in 1..(k - 1) : IsVideoHeader(es[j].tag)
    BY <1>6, <1>9 DEF Detects
  <2>8. CASE t.kind # "video"
    <3>1. ~c2 /\ s2.video = se.video /\ ~IsVideoHeader(t)
      BY <2>2, <2>6, <2>8 DEF IsVideoHeader
    <3>2. \A j \in 1..k : IsVideoHeader(es[j].tag) => es[j].tag.config = s2.video
      BY <3>1, <1>1, <1>2, <1>4, <2>7
    <3>3. \/ s2.video = d.video
          \/ d.video = 0 /\ \E j \in 1..k : IsVideoHeader(es[j].tag)
      BY <3>1, <1>4, <2>7
    <3>. QED BY <3>1, <3>2, <3>3, <2>4, <2>5, <2>6, Zenon DEF Detects
  <2>9. CASE t.kind = "video"
    <3>1. s2.video = t.config /\ IsVideoHeader(t) /\ s2.video # 0 /\ c2 = (se.video \notin {0, t.config})
      BY <2>2, <2>6, <2>9, <1>3, <1>9 DEF IsVideoHeader
    <3>2. \E j \in 1..k : IsVideoHeader(es[j].tag)
      BY <3>1, <1>1, <1>2, <1>4
    <3>3. ASSUME ~c2, NEW j \in 1..k, IsVideoHeader(es[j].tag) PROVE es[j].tag.config = s2.video
      <4>1. CASE j = k
        BY <4>1, <3>1, <1>1, <1>2
      <4>2. CASE j \in 1..(k - 1)
        <5>1. es[j].tag.config = se.video
          BY <4>2, <2>7, <3>3
        <5>2. es[j].tag.config # 0
          <6>1. j \in 1..Len(es) OBVIOUS
          <6>2. es[j] \in Entry BY <6>1
          <6>. QED BY <6>2 DEF Entry, Tag
        <5>. QED BY <5>1, <5>2, <3>1, <3>3
      <4>. QED BY <4>1, <4>2, <1>4
    <3>4. ~c2 => \/ s2.video = d.video
                 \/ d.video = 0 /\ \E j \in 1..k : IsVideoHeader(es[j].tag)
      <4>1. CASE d.video = 0
        BY <4>1, <3>2
      <4>2. CASE d.video # 0
        <5>1. se.video = d.video BY <4>2, <2>7
        <5>. QED BY <5>1, <4>2, <3>1
      <4>. QED BY <4>1, <4>2
    <3>. QED BY <3>1, <3>2, <3>3, <3>4, <2>4, <2>5, <2>6, Zenon DEF Detects
  <2>. QED BY <2>8, <2>9
<1>10. Detects(q, d, es, k)
  BY <1>3, <1>7, <1>8, <1>9
<1>. QED BY <1>1, <1>5, <1>10

\* What DetectChange finds.
LEMMA DetectFinds ==
  ASSUME NEW d, SeenLike(d), NEW es \in Seq(Entry)
  PROVE  Detects(DetectChange(d, es), d, es, Len(es))
<1>. DEFINE base == [seen |-> d, at |-> 0, changed |-> FALSE]
            N == Len(es)
<1>1. N \in Nat /\ DOMAIN es = 1..N
  OBVIOUS
<1>2. PICK g : DetectSteps(g, base, es, N) /\ DetectFold(base, es) = g[N]
  <2>. HIDE DEF base, N
  <2>. QED BY <1>1, DetectFolds
<1>3. DetectChange(d, es) = g[N]
  <2>1. DetectChange(d, es) = DetectFold(base, es)
    BY DEF DetectChange, DetectFold, FoldLeft, MapThenFoldSet
  <2>. QED BY <1>2, <2>1
<1>4. g[0] = base /\ \A i \in 1..N : g[i] = detectTag(g[i - 1], es[i])
  BY <1>2 DEF DetectSteps
<1>. DEFINE S == {i \in 0..N : Detects(g[i], d, es, i)}
<1>5. 0 \in S
  <2>1. base.seen = d /\ base.changed = FALSE /\ base = [seen |-> base.seen, at |-> base.at, changed |-> base.changed]
    OBVIOUS
  <2>2. \A j \in 1..0 : FALSE
    OBVIOUS
  <2>. HIDE DEF base
  <2>3. Detects(base, d, es, 0)
    BY <2>1, <2>2 DEF Detects
  <2>. QED BY <2>3, <1>1, <1>4
<1>6. ASSUME NEW i \in 0..N, i < N, i \in S PROVE i + 1 \in S
  <2>1. PICK j \in 1..N : j = i + 1 /\ j - 1 = i /\ j \in 0..N
    BY <1>1, <1>6
  <2>2. Detects(g[i], d, es, j - 1)
    BY <1>6, <2>1
  <2>3. g[j] = detectTag(g[i], es[j])
    BY <1>4, <2>1
  <2>4. Detects(g[j], d, es, j)
    BY <2>2, <2>3, DetectStep
  <2>. QED BY <2>1, <2>4
<1>7. \A i \in 0..N : i \in S
  <2>. HIDE DEF S, N
  <2>. QED BY <1>1, <1>5, <1>6, BoundedInduction
<1>. QED BY <1>1, <1>3, <1>7

(***************************************************************************)
(* One configuration: a chunk in which the detector sees no change.        *)
(***************************************************************************)
\* The run of a chunk s through the fixer f and the detector d.
ChunkRun(g, f, d, s) ==
    /\ FixerLike(f) /\ SeenLike(d) /\ s \in Seq(Tag) /\ FixLoop(g, f, s)
    /\ \A i \in 0..Len(s) : LoopLike(g[i]) /\ Accounted(g[i], f.cache.signatures, s, i)

\* Before the detector knows a configuration, no video tag is cached.
CachedConfig(f, v) == v = 0 => \A sig \in f.cache.signatures : sig.kind # "video"

\* The video headers among the dropped tags ds are tags of es, or of K, where the configuration
\* is v.
HeadersKept(ds, K, v, es) ==
    /\ \A t \in K : t.kind = "video" => t.config = v
    /\ \A t \in ds : IsVideoHeader(t) => t \in K \cup Tags(es)

\* A video tag of the entries stands behind a video header.
Headed(es) ==
    \A k \in DOMAIN es : es[k].tag.kind = "video" =>
        \E j \in DOMAIN es : j <= k /\ IsVideoHeader(es[j].tag)

HasHeader(es) == \E j \in DOMAIN es : IsVideoHeader(es[j].tag)

LEMMA TagConfig ==
  ASSUME NEW t \in Tag
  PROVE  t.config \in Nat /\ t.config # 0 /\ (IsVideoHeader(t) => t.kind = "video")
BY DEF Tag, IsVideoHeader

\* Where nothing was known, the first video tag that is handed on is a header.
LEMMA HeaderComesFirst ==
  ASSUME NEW g, NEW f, NEW d, NEW s, ChunkRun(g, f, d, s), CachedConfig(f, 0),
         NEW h, NEW w, Forces(h, 0, s, w)
  PROVE  Headed(g[Len(s)].out)
<1>. DEFINE N == Len(s)
            S == {i \in 0..N : Headed(g[i].out) /\ (h[i] # 0 => HasHeader(g[i].out))}
<1>0. N \in Nat /\ s \in Seq(Tag)
  BY DEF ChunkRun
<1>1. 0 \in S
  <2>1. g[0].out = <<>>
    <3>1. g[0] = [fixer |-> [f EXCEPT !.headerOK = TRUE], out |-> <<>>, dups |-> {}]
      BY Zenon DEF ChunkRun, FixLoop, FixSteps
    <3>. QED BY <3>1
  <2>2. h[0] = 0
    BY DEF Forces
  <2>3. Headed(g[0].out)
    BY <2>1 DEF Headed
  <2>. QED BY <1>0, <2>2, <2>3
<1>2. ASSUME NEW i \in 0..N, i < N, i \in S PROVE i + 1 \in S
  <2>1. PICK n \in 1..N : n = i + 1 /\ n - 1 = i /\ n \in 0..N
    BY <1>0, <1>2
  <2>2. PICK t \in Tag : t = s[n]
    BY <1>0
  <2>3. PICK l, m : l = g[i] /\ m = g[n]
    OBVIOUS
  <2>4. m = fixTag(l, t)
    BY <2>1, <2>2, <2>3 DEF ChunkRun, FixLoop, FixSteps
  <2>5. LoopLike(l) /\ l.fixer.cache.signatures \subseteq f.cache.signatures \cup Signatures(Tags(l.out))
    BY <2>3 DEF ChunkRun, Accounted
  <2>6. Headed(l.out) /\ (h[i] # 0 => HasHeader(l.out))
    BY <1>2, <2>3
  <2>7. Leads(h[i], t, h[n])
    BY <2>1, <2>2 DEF Forces
  <2>8. CASE computeSignature(t) \in l.fixer.cache.signatures
    <3>1. m.out = l.out
      BY <2>4, <2>5, <2>8, FixTagKnown
    <3>2. ASSUME h[n] # 0 PROVE HasHeader(l.out)
      <4>1. CASE h[i] # 0
        BY <4>1, <2>6
      <4>2. CASE h[i] = 0
        <5>1. IsVideoHeader(t)
          BY <4>2, <3>2, <2>7, TagConfig, Zenon DEF Leads, IsVideoHeader
        <5>2. computeSignature(t).kind = "video" /\ computeSignature(t).header
          BY <5>1 DEF IsVideoHeader, computeSignature
        <5>3. computeSignature(t) \in Signatures(Tags(l.out))
          BY <5>2, <2>5, <2>8 DEF CachedConfig
        <5>4. PICK u \in Tags(l.out) : computeSignature(u) = computeSignature(t)
          BY <5>3 DEF Signatures
        <5>5. IsVideoHeader(u)
          BY <5>2, <5>4 DEF computeSignature, IsVideoHeader
        <5>. QED BY <5>4, <5>5 DEF Tags, HasHeader
      <4>. QED BY <4>1, <4>2
    <3>. QED BY <3>1, <3>2, <2>1, <2>3, <2>6
  <2>9. CASE computeSignature(t) \notin l.fixer.cache.signatures
    <3>1. PICK e \in Entry : e.tag = t /\ m.out = Append(l.out, e)
      <4>1. PICK e : e = [tag |-> t, at |-> fixTimestamp(l.fixer.store, t).at]
        OBVIOUS
      <4>2. e \in Entry /\ m.out = Append(l.out, e)
        BY <4>1, <2>4, <2>5, <2>9, FixTagNew
      <4>. QED BY <4>1, <4>2
    <3>2. PICK o, p : o = l.out /\ p = m.out
      OBVIOUS
    <3>3. PICK k \in Nat : k = Len(o)
      BY <3>2, <2>5 DEF LoopLike
    <3>4. /\ DOMAIN o = 1..k /\ DOMAIN p = 1..(k + 1) /\ p[k + 1].tag = t
          /\ \A j \in 1..k : p[j] = o[j]
      <4>1. o \in Seq(Entry) /\ p = Append(o, e)
        BY <3>1, <3>2, <2>5 DEF LoopLike
      <4>. QED BY <4>1, <3>1, <3>3
    <3>5. HasHeader(o) => HasHeader(p)
      <4>1. ASSUME NEW j \in DOMAIN o, IsVideoHeader(o[j].tag) PROVE HasHeader(p)
        <5>1. j \in DOMAIN p /\ p[j] = o[j] BY <3>4
        <5>. QED BY <4>1, <5>1 DEF HasHeader
      <4>. QED BY <4>1 DEF HasHeader
    <3>6. IsVideoHeader(t) => HasHeader(p)
      <4>1. k + 1 \in DOMAIN p BY <3>4
      <4>. QED BY <4>1, <3>4 DEF HasHeader
    <3>7. t.kind = "video" => IsVideoHeader(t) \/ h[i] # 0
      BY <2>7, TagConfig DEF Leads, IsVideoHeader
    <3>8. Headed(p)
      <4>1. ASSUME NEW j \in DOMAIN p, p[j].tag.kind = "video"
            PROVE  \E q \in DOMAIN p : q <= j /\ IsVideoHeader(p[q].tag)
        <5>1. CASE j \in 1..k
          <6>1. j \in DOMAIN o /\ o[j].tag.kind = "video" BY <5>1, <3>4, <4>1
          <6>2. PICK q \in DOMAIN o : q <= j /\ IsVideoHeader(o[q].tag)
            BY <6>1, <2>6, <3>2 DEF Headed
          <6>3. q \in DOMAIN p /\ p[q] = o[q] BY <3>4
          <6>. QED BY <6>2, <6>3
        <5>2. CASE j = k + 1 /\ IsVideoHeader(t)
          BY <5>2, <3>4
        <5>3. CASE j = k + 1 /\ ~IsVideoHeader(t)
          <6>1. HasHeader(o) BY <5>3, <4>1, <3>4, <3>7, <2>6, <3>2
          <6>2. PICK q \in DOMAIN o : IsVideoHeader(o[q].tag) BY <6>1 DEF HasHeader
          <6>3. q \in DOMAIN p /\ p[q] = o[q] /\ q <= j BY <5>3, <3>4
          <6>. QED BY <6>2, <6>3
        <5>4. j \in 1..k \/ j = k + 1 BY <3>4
        <5>. QED BY <5>1, <5>2, <5>3, <5>4
      <4>. QED BY <4>1 DEF Headed
    <3>9. ASSUME h[n] # 0 PROVE HasHeader(p)
      <4>1. IsVideoHeader(t) \/ h[i] # 0
        BY <3>9, <3>7, <2>7 DEF Leads
      <4>. QED BY <4>1, <3>5, <3>6, <2>6, <3>2
    <3>. QED BY <3>2, <3>8, <3>9, <2>1, <2>3
  <2>. QED BY <2>8, <2>9
<1>3. \A i \in 0..N : i \in S
  <2>. HIDE DEF S, N
  <2>. QED BY <1>0, <1>1, <1>2, BoundedInduction
<1>. QED BY <1>0, <1>3

\* The detector d finds no change in the tags es that the loop made of s, behind which w
\* is in force: it ends as r.
Unchanged(g, f, d, s, w, es, r, K) ==
    /\ ChunkRun(g, f, d, s) /\ CachedConfig(f, d.video) /\ InForce(d.video, s, w)
    /\ HeadersKept(g[Len(s)].dups, K, d.video, es)
    /\ es = g[Len(s)].out /\ Detects(r, d, es, Len(es)) /\ ~r.changed

ConfigSettled(d, w, es, r) ==
    /\ w = r.seen.video
    /\ \A i \in DOMAIN es : es[i].tag.kind = "video" => es[i].tag.config = r.seen.video
    /\ d.video # 0 => r.seen.video = d.video
    /\ d.video = 0 => Headed(es)

\* With no change seen, all video tags of the chunk have the configuration seen.
LEMMA OneConfig ==
  ASSUME NEW g, NEW f, NEW d, NEW s, NEW w, NEW es, NEW r, NEW K, Unchanged(g, f, d, s, w, es, r, K)
  PROVE  ConfigSettled(d, w, es, r)
<1>. SUFFICES ASSUME ChunkRun(g, f, d, s), CachedConfig(f, d.video), InForce(d.video, s, w),
                     es = g[Len(s)].out, Detects(r, d, es, Len(es)), ~r.changed,
                     HeadersKept(g[Len(s)].dups, K, d.video, es)
              PROVE  /\ w = r.seen.video
                     /\ \A i \in DOMAIN es : es[i].tag.kind = "video" => es[i].tag.config = r.seen.video
                     /\ d.video # 0 => r.seen.video = d.video
                     /\ d.video = 0 => Headed(es)
  BY Zenon DEF Unchanged, ConfigSettled
<1>1. PICK N \in Nat : N = Len(s)
  BY DEF ChunkRun
<1>1b. PICK z, v : z = r.seen.video /\ v = d.video
  OBVIOUS
<1>2. PICK h : Forces(h, v, s, w)
  BY <1>1, <1>1b DEF InForce
<1>3. s \in Seq(Tag) /\ es \in Seq(Entry)
      /\ (\A j \in 1..N : s[j] \in g[N].dups \cup Tags(es))
      /\ Tags(es) \subseteq {s[j] : j \in 1..N}
  <2>1. N \in 0..Len(s) BY <1>1, <1>1b
  <2>2. LoopLike(g[N]) /\ Accounted(g[N], f.cache.signatures, s, N) /\ s \in Seq(Tag)
    BY <2>1 DEF ChunkRun
  <2>. QED BY <2>2, <1>1, <1>1b DEF LoopLike, Accounted
<1>4. DOMAIN es = 1..Len(es) /\ \A i \in DOMAIN es : es[i].tag \in Tag
  <2>1. DOMAIN es = 1..Len(es)
    BY <1>3
  <2>2. ASSUME NEW i \in DOMAIN es PROVE es[i].tag \in Tag
    <3>1. es[i] \in Entry BY <1>3, <2>1
    <3>. QED BY <3>1 DEF Entry
  <2>. QED BY <2>1, <2>2
<1>5. /\ \A i \in DOMAIN es : IsVideoHeader(es[i].tag) => es[i].tag.config = z
      /\ \/ z = v
         \/ v = 0 /\ \E j \in DOMAIN es : IsVideoHeader(es[j].tag)
  BY <1>1, <1>1b, <1>4 DEF Detects
<1>6. ASSUME NEW j \in 1..N, IsVideoHeader(s[j]) PROVE s[j].config = z
  <2>1. CASE s[j] \in K
    <3>1. s[j] \in Tag BY <1>1, <1>1b, <1>3
    <3>2. s[j].config = v /\ s[j].config # 0
      BY <2>1, <3>1, <1>1b, <1>6, TagConfig DEF HeadersKept
    <3>. QED BY <3>2, <1>5
  <2>2. CASE s[j] \in Tags(es)
    BY <2>2, <1>5, <1>6 DEF Tags
  <2>3. s[j] \in K \cup Tags(es)
    BY <1>1, <1>3, <1>6 DEF HeadersKept
  <2>. QED BY <2>1, <2>2, <2>3
<1>. DEFINE S == {i \in 0..N : h[i] = z \/ (h[i] = v /\ \A j \in 1..i : ~IsVideoHeader(s[j]))}
<1>7. 0 \in S
  BY <1>2 DEF Forces
<1>8. ASSUME NEW i \in 0..N, i < N, i \in S PROVE i + 1 \in S
  <2>1. PICK n \in 1..N : n = i + 1 /\ n - 1 = i /\ n \in 0..N
    BY <1>8
  <2>2. Leads(h[i], s[n], h[n])
    BY <1>1, <1>1b, <1>2, <2>1 DEF Forces
  <2>3. CASE IsVideoHeader(s[n])
    <3>1. h[n] = z BY <2>2, <2>3, <1>6 DEF Leads, IsVideoHeader
    <3>. QED BY <3>1, <2>1
  <2>4. CASE ~IsVideoHeader(s[n])
    <3>1. h[n] = h[i] BY <2>2, <2>4 DEF Leads, IsVideoHeader
    <3>2. \A j \in 1..n : j = n \/ j \in 1..i BY <2>1
    <3>. QED BY <3>1, <3>2, <2>1, <2>4, <1>8
  <2>. QED BY <2>3, <2>4
<1>9. \A i \in 0..N : i \in S
  <2>. HIDE DEF S
  <2>. QED BY <1>7, <1>8, BoundedInduction
<1>10. ASSUME NEW i \in 0..N PROVE h[i] = z \/ (h[i] = v /\ \A j \in 1..i : ~IsVideoHeader(s[j]))
  BY <1>9
<1>. HIDE DEF S
<1>11. w = z
  <2>1. N \in 0..N /\ h[N] = w
    BY <1>1, <1>1b, <1>2 DEF Forces
  <2>2. CASE v = 0 /\ \E j \in DOMAIN es : IsVideoHeader(es[j].tag)
    <3>1. PICK j \in DOMAIN es : IsVideoHeader(es[j].tag) BY <2>2
    <3>2. PICK i \in 1..N : es[j].tag = s[i] BY <1>3 DEF Tags
    <3>. QED BY <3>1, <3>2, <2>1, <1>10
  <2>. QED BY <2>1, <2>2, <1>5, <1>10
<1>12. ASSUME NEW i \in DOMAIN es, es[i].tag.kind = "video" PROVE es[i].tag.config = z
  <2>1. PICK j \in 1..N : es[i].tag = s[j] BY <1>3 DEF Tags
  <2>2. CASE IsVideoHeader(s[j])
    BY <2>1, <2>2, <1>6
  <2>3. CASE ~IsVideoHeader(s[j])
    <3>1. j - 1 \in 0..N BY <1>1, <1>1b
    <3>2. h[j - 1] = s[j].config
      BY <2>1, <2>3, <1>1, <1>1b, <1>2, <1>12 DEF Forces, Leads, IsVideoHeader
    <3>3. s[j].config # 0 BY <2>1, <1>4, TagConfig
    <3>. QED BY <3>1, <3>2, <3>3, <2>1, <1>5, <1>10
  <2>. QED BY <2>2, <2>3
<1>13. ASSUME v = 0 PROVE Headed(es)
  BY <1>1, <1>1b, <1>2, <1>13, HeaderComesFirst
<1>. QED BY <1>1, <1>1b, <1>5, <1>11, <1>12, <1>13

(***************************************************************************)
(* Sequences of entries.                                                   *)
(***************************************************************************)
LEMMA Joined ==
  ASSUME NEW a \in Seq(Entry), NEW b \in Seq(Entry)
  PROVE  /\ a \o b \in Seq(Entry) /\ Len(a \o b) = Len(a) + Len(b)
         /\ \A i \in 1..Len(a) : (a \o b)[i] = a[i]
         /\ \A i \in 1..Len(b) : (a \o b)[Len(a) + i] = b[i]
OBVIOUS

\* An entry of a joined sequence is one of either part.
LEMMA JoinedPart ==
  ASSUME NEW a \in Seq(Entry), NEW b \in Seq(Entry), NEW c, c = a \o b, NEW i \in DOMAIN c
  PROVE  \/ i \in DOMAIN a /\ c[i] = a[i]
         \/ \E j \in DOMAIN b : i = Len(a) + j /\ c[i] = b[j]
<1>1. PICK n \in Nat, m \in Nat : n = Len(a) /\ m = Len(b) /\ DOMAIN a = 1..n /\ DOMAIN b = 1..m
  OBVIOUS
<1>2. DOMAIN c = 1..(n + m) /\ (\A k \in 1..n : c[k] = a[k]) /\ \A k \in 1..m : c[n + k] = b[k]
  BY <1>1, Joined
<1>3. CASE i <= n
  BY <1>1, <1>2, <1>3
<1>4. CASE i > n
  <2>1. PICK j \in 1..m : j = i - n
    <3>1. i \in 1..(n + m)
      BY <1>2
    <3>. QED BY <1>4, <3>1
  <2>2. i = n + j /\ c[i] = b[j]
    <3>1. i \in 1..(n + m)
      BY <1>2
    <3>2. i = n + j
      BY <2>1, <3>1
    <3>3. c[n + j] = b[j]
      BY <1>2
    <3>. QED BY <3>2, <3>3
  <2>3. j \in DOMAIN b /\ i = Len(a) + j
    BY <1>1, <2>2
  <2>. QED BY <2>2, <2>3, Zenon
<1>. QED BY <1>3, <1>4, <1>2

\* And the other way round.
LEMMA JoinedLeft ==
  ASSUME NEW a \in Seq(Entry), NEW b \in Seq(Entry), NEW c, c = a \o b, NEW i \in DOMAIN a
  PROVE  i \in DOMAIN c /\ c[i] = a[i] /\ i <= Len(a)
<1>1. PICK n \in Nat, m \in Nat : n = Len(a) /\ m = Len(b) /\ DOMAIN a = 1..n
  OBVIOUS
<1>2. DOMAIN c = 1..(n + m) /\ (\A k \in 1..n : c[k] = a[k])
  BY <1>1, Joined
<1>. QED BY <1>1, <1>2

LEMMA JoinedRight ==
  ASSUME NEW a \in Seq(Entry), NEW b \in Seq(Entry), NEW c, c = a \o b, NEW j \in DOMAIN b
  PROVE  Len(a) + j \in DOMAIN c /\ c[Len(a) + j] = b[j] /\ Len(a) + j > Len(a)
<1>1. PICK n \in Nat, m \in Nat : n = Len(a) /\ m = Len(b) /\ DOMAIN b = 1..m
  OBVIOUS
<1>2. DOMAIN c = 1..(n + m) /\ (\A k \in 1..m : c[n + k] = b[k])
  BY <1>1, Joined
<1>. QED BY <1>1, <1>2

\* The tags and headers of a joined sequence.
LEMMA JoinedTags ==
  ASSUME NEW a \in Seq(Entry), NEW b \in Seq(Entry), NEW c, c = a \o b
  PROVE  Tags(c) = Tags(a) \cup Tags(b)
<1>1. ASSUME NEW t \in Tags(c) PROVE t \in Tags(a) \cup Tags(b)
  <2>1. PICK i \in DOMAIN c : t = c[i].tag
    BY DEF Tags
  <2>2. \/ i \in DOMAIN a /\ c[i] = a[i]
        \/ \E j \in DOMAIN b : i = Len(a) + j /\ c[i] = b[j]
    BY JoinedPart
  <2>. QED BY <2>1, <2>2 DEF Tags
<1>2. ASSUME NEW t \in Tags(a) PROVE t \in Tags(c)
  <2>1. PICK i \in DOMAIN a : t = a[i].tag
    BY DEF Tags
  <2>2. i \in DOMAIN c /\ c[i] = a[i]
    BY JoinedLeft
  <2>. QED BY <2>1, <2>2 DEF Tags
<1>3. ASSUME NEW t \in Tags(b) PROVE t \in Tags(c)
  <2>1. PICK i \in DOMAIN b : t = b[i].tag
    BY DEF Tags
  <2>2. PICK k : k = Len(a) + i
    OBVIOUS
  <2>3. k \in DOMAIN c /\ c[k] = b[i]
    BY <2>2, JoinedRight
  <2>. QED BY <2>1, <2>3 DEF Tags
<1>. QED BY <1>1, <1>2, <1>3

LEMMA JoinedHeader ==
  ASSUME NEW a \in Seq(Entry), NEW b \in Seq(Entry), NEW c, c = a \o b, HasHeader(a) \/ HasHeader(b)
  PROVE  HasHeader(c)
<1>1. ASSUME NEW i \in DOMAIN a, IsVideoHeader(a[i].tag) PROVE HasHeader(c)
  <2>1. i \in DOMAIN c /\ c[i] = a[i]
    BY JoinedLeft
  <2>. QED BY <1>1, <2>1 DEF HasHeader
<1>2. ASSUME NEW i \in DOMAIN b, IsVideoHeader(b[i].tag) PROVE HasHeader(c)
  <2>1. PICK k : k = Len(a) + i
    OBVIOUS
  <2>2. k \in DOMAIN c /\ c[k] = b[i]
    BY <2>1, JoinedRight
  <2>. QED BY <1>2, <2>2 DEF HasHeader
<1>. QED BY <1>1, <1>2 DEF HasHeader

LEMMA JoinedHeaded ==
  ASSUME NEW a \in Seq(Entry), NEW b \in Seq(Entry), NEW c, c = a \o b,
         Headed(a), Headed(b) \/ HasHeader(a)
  PROVE  Headed(c)
<1>1. Len(a) \in Nat
  OBVIOUS
<1>2. ASSUME NEW i \in DOMAIN c, c[i].tag.kind = "video"
      PROVE  \E j \in DOMAIN c : j <= i /\ IsVideoHeader(c[j].tag)
  <2>1. CASE i \in DOMAIN a /\ c[i] = a[i]
    <3>1. PICK j \in DOMAIN a : j <= i /\ IsVideoHeader(a[j].tag)
      BY <2>1, <1>2 DEF Headed
    <3>. QED BY <3>1, JoinedLeft
  <2>2. CASE \E j \in DOMAIN b : i = Len(a) + j /\ c[i] = b[j]
    <3>1. PICK k \in DOMAIN b : i = Len(a) + k /\ c[i] = b[k]
      BY <2>2
    <3>2. k \in Nat /\ DOMAIN b \subseteq Nat /\ DOMAIN a \subseteq Nat
      OBVIOUS
    <3>3. CASE HasHeader(a)
      <4>1. PICK j \in DOMAIN a : IsVideoHeader(a[j].tag)
        BY <3>3 DEF HasHeader
      <4>2. j \in DOMAIN c /\ c[j] = a[j] /\ j <= Len(a)
        BY JoinedLeft
      <4>3. j <= i
        BY <4>2, <3>1, <3>2, <1>1
      <4>. QED BY <4>1, <4>2, <4>3
    <3>4. CASE Headed(b)
      <4>1. PICK j \in DOMAIN b : j <= k /\ IsVideoHeader(b[j].tag)
        BY <3>1, <3>4, <1>2 DEF Headed
      <4>2. Len(a) + j \in DOMAIN c /\ c[Len(a) + j] = b[j]
        BY JoinedRight
      <4>3. Len(a) + j <= i
        BY <4>1, <3>1, <3>2, <1>1
      <4>. QED BY <4>1, <4>2, <4>3
    <3>. QED BY <3>3, <3>4
  <2>. QED BY <2>1, <2>2, JoinedPart
<1>. QED BY <1>2 DEF Headed

\* The headers at the beginning of a file.
LEMMA PreambleLike ==
  ASSUME NEW h, SeenLike(h)
  PROVE  /\ Preamble(h) \in Seq(Entry)
         /\ \A t \in Tags(Preamble(h)) : t.kind = "video" => t.config = h.video /\ IsVideoHeader(t)
         /\ h.video # 0 => HasHeader(Preamble(h))
<1>1. PICK v \in Nat, a \in Nat : v = h.video /\ a = h.audio
  BY DEF SeenLike
<1>. DEFINE ev == [tag |-> VideoHeader(v, 0), at |-> 0]
            ea == [tag |-> AudioHeader(a, 0), at |-> 0]
            A == IF v = 0 THEN <<>> ELSE <<ev>>
            B == IF a = 0 THEN <<>> ELSE <<ea>>
<1>2. Preamble(h) = A \o B
  BY <1>1 DEF Preamble
<1>3. v # 0 => ev \in Entry /\ ev.tag.kind = "video" /\ ev.tag.config = v /\ IsVideoHeader(ev.tag)
  BY <1>1 DEF Entry, Tag, VideoHeader, IsVideoHeader
<1>4. a # 0 => ea \in Entry /\ ea.tag.kind = "audio"
  BY <1>1 DEF Entry, Tag, AudioHeader
<1>. HIDE DEF ev, ea
<1>5. A \in Seq(Entry) /\ (\A i \in DOMAIN A : v # 0 /\ A[i] = ev) /\ (v # 0 => 1 \in DOMAIN A /\ A[1] = ev)
  <2>1. CASE v = 0
    BY <2>1
  <2>2. CASE v # 0
    BY <2>2, <1>3
  <2>. QED BY <2>1, <2>2
<1>6. B \in Seq(Entry) /\ (\A i \in DOMAIN B : a # 0 /\ B[i] = ea)
  <2>1. CASE a = 0
    BY <2>1
  <2>2. CASE a # 0
    BY <2>2, <1>4
  <2>. QED BY <2>1, <2>2
<1>. HIDE DEF A, B
<1>7. PICK p : p = A \o B
  OBVIOUS
<1>8. p \in Seq(Entry)
  BY <1>5, <1>6, <1>7, Joined
<1>9. ASSUME NEW t \in Tags(p), t.kind = "video" PROVE t.config = v /\ IsVideoHeader(t)
  <2>1. t \in Tags(A) \cup Tags(B)
    BY <1>5, <1>6, <1>7, JoinedTags
  <2>2. CASE t \in Tags(A)
    BY <2>2, <1>3, <1>5 DEF Tags
  <2>3. CASE t \in Tags(B)
    BY <2>3, <1>4, <1>6, <1>9 DEF Tags
  <2>. QED BY <2>1, <2>2, <2>3
<1>10. ASSUME v # 0 PROVE HasHeader(p)
  <2>1. HasHeader(A)
    BY <1>10, <1>3, <1>5 DEF HasHeader
  <2>. QED BY <2>1, <1>5, <1>6, <1>7, JoinedHeader
<1>. QED BY <1>1, <1>2, <1>7, <1>8, <1>9, <1>10

\* Entries whose video tags are all headers.
LEMMA AllHeaders ==
  ASSUME NEW es \in Seq(Entry), \A t \in Tags(es) : t.kind = "video" => IsVideoHeader(t)
  PROVE  Headed(es)
<1>1. ASSUME NEW i \in DOMAIN es, es[i].tag.kind = "video" PROVE i <= i /\ IsVideoHeader(es[i].tag)
  <2>1. i \in Int OBVIOUS
  <2>. QED BY <1>1, <2>1 DEF Tags
<1>. QED BY <1>1 DEF Headed

\* A start at 0 and no jumps.
Smooth(es) ==
    /\ es # <<>> /\ es[1].at = 0
    /\ \A i \in 2..Len(es) : Near(es[i].at, es[i - 1].at)

\* Two smooth parts that are near where they meet.
LEMMA TimedJoined ==
  ASSUME NEW a \in Seq(Entry), Smooth(a), NEW b \in Seq(Entry), b # <<>>,
         Near(b[1].at, a[Len(a)].at),
         \A i \in 2..Len(b) : Near(b[i].at, b[i - 1].at)
  PROVE  Smooth(a \o b) /\ (a \o b)[Len(a \o b)] = b[Len(b)]
<1>1. PICK n \in Nat, m \in Nat : n = Len(a) /\ m = Len(b)
  OBVIOUS
<1>2. n # 0 /\ m # 0
  BY <1>1 DEF Smooth
<1>3. PICK c : c = a \o b
  OBVIOUS
<1>4. /\ c \in Seq(Entry) /\ Len(c) = n + m
      /\ \A i \in 1..n : c[i] = a[i]
      /\ \A i \in 1..m : c[n + i] = b[i]
  BY <1>1, <1>3, Joined
<1>5. c # <<>> /\ c[1].at = 0
  <2>1. 1 \in 1..n BY <1>2
  <2>2. c # <<>> BY <1>2, <1>4
  <2>. QED BY <2>1, <2>2, <1>4 DEF Smooth
<1>6. ASSUME NEW i \in 2..(n + m) PROVE Near(c[i].at, c[i - 1].at)
  <2>1. CASE i <= n
    <3>1. i \in 2..Len(a) /\ i \in 1..n /\ i - 1 \in 1..n BY <2>1, <1>1
    <3>2. Near(a[i].at, a[i - 1].at) BY <3>1 DEF Smooth
    <3>. QED BY <3>1, <3>2, <1>4
  <2>2. CASE i = n + 1
    <3>1. 1 \in 1..m /\ n \in 1..n /\ i - 1 = n BY <2>2, <1>2
    <3>2. c[i] = b[1] /\ c[i - 1] = a[n] BY <3>1, <2>2, <1>4
    <3>. QED BY <3>2, <1>1
  <2>3. CASE i > n + 1
    <3>1. PICK j : j = i - n /\ j \in 2..Len(b) /\ j \in 1..m /\ j - 1 \in 1..m BY <2>3, <1>1
    <3>2. i = n + j /\ i - 1 = n + (j - 1) BY <3>1
    <3>3. c[i] = b[j] /\ c[i - 1] = b[j - 1] BY <3>1, <3>2, <1>4
    <3>. QED BY <3>1, <3>3
  <2>. QED BY <2>1, <2>2, <2>3
<1>7. c[Len(c)] = b[Len(b)]
  <2>1. m \in 1..m BY <1>2
  <2>. QED BY <2>1, <1>1, <1>4
<1>8. Smooth(c)
  BY <1>4, <1>5, <1>6 DEF Smooth
<1>. QED BY <1>3, <1>7, <1>8

LEMMA JoinAssoc ==
  ASSUME NEW a \in Seq(Entry), NEW b \in Seq(Entry), NEW c \in Seq(Entry)
  PROVE  (a \o b) \o c = a \o (b \o c)
OBVIOUS

(***************************************************************************)
(* The inductive invariant of the FLV chain.                               *)
(***************************************************************************)
FlvTypes ==
    /\ SourceLike(source) /\ FixerLike(fixer) /\ SeenLike(seen) /\ SeenLike(seeds)
    /\ written \in BOOLEAN /\ file \in Seq(Entry)
    /\ partial \in Seq(Tag) /\ Len(partial) <= 1

\* What the cache knows and what was dropped is in the file.
CacheInFile ==
    /\ fixer.cache.signatures \subseteq Signatures(Tags(file))
    /\ Signatures(dropped) \subseteq Signatures(Tags(file))

\* The file fl behind its preamble of the headers h.
FileBody(fl, h) == SubSeq(fl, Len(Preamble(h)) + 1, Len(fl))

\* A file that was begun (wr) is its preamble and a smooth body.
TimedFile(wr, fl, h) ==
    IF wr THEN FileBody(fl, h) \in Seq(Entry) /\ Smooth(FileBody(fl, h)) /\ fl = Preamble(h) \o FileBody(fl, h)
    ELSE fl = <<>>

\* The configuration c of the video tags of a file that begins with a header.
Configured(es, c) ==
    Headed(es) /\ \A t \in Tags(es) : t.kind = "video" => t.config = c

\* A detector that knows a configuration v has it from the file or from its preamble.
Known(v, wr, fl, h) ==
    /\ h.video # 0 => v = h.video
    /\ v # 0 => IF wr THEN HasHeader(fl) ELSE h.video # 0

\* The source is in the configuration w, and p is the tag of which it has sent a part:
\* the tags before it left v in force.
Caught(v, p, w) == IF p = <<>> THEN w = v ELSE Leads(v, p[1], w)

\* The cut tag, if it has a configuration, has the one of the source.
PartAnnounced(p, w) == p # <<>> /\ p[1].kind = "video" => w = p[1].config

\* While the chain runs.
Running ==
    /\ fixer.store \in Store
    /\ IF written THEN StoreBehind(fixer.store, file[Len(file)].at) ELSE fixer.store = TimestampStore
    /\ PartAnnounced(partial, source.video)
    /\ ~lostHeader => Caught(seen.video, partial, source.video)

FlvInv ==
    /\ FlvTypes /\ CacheInFile /\ TimedFile(written, file, seeds)
    /\ ~lostHeader => Configured(file, seen.video)
    /\ Known(seen.video, written, file, seeds)
    /\ flvPc = "run" => Running

(***************************************************************************)
(* The parse buffer and the last header of a chunk.                        *)
(***************************************************************************)
\* Something was in force before the tag of which a part is there.
LEMMA SomeCaught ==
  ASSUME NEW p \in Seq(Tag), Len(p) <= 1, NEW w, PartAnnounced(p, w)
  PROVE  \E v : Caught(v, p, w)
<1>1. CASE p = <<>>
  BY <1>1 DEF Caught
<1>2. CASE p # <<>>
  <2>1. PICK t \in Tag : t = p[1]
    BY <1>2
  <2>2. Leads(w, t, w)
    BY <2>1, <1>2 DEF PartAnnounced, Leads
  <2>. QED BY <2>1, <2>2, <1>2 DEF Caught
<1>. QED BY <1>1, <1>2

LEMMA TagsJoined ==
  ASSUME NEW a \in Seq(Tag), NEW b \in Seq(Tag)
  PROVE  a \o b \in Seq(Tag) /\ (a = <<>> => a \o b = b)
OBVIOUS

LEMMA OneTag ==
  ASSUME NEW p \in Seq(Tag), Len(p) <= 1, p # <<>>
  PROVE  p[1] \in Tag /\ p = <<p[1]>>
OBVIOUS

LEMMA Singleton ==
  ASSUME NEW t \in Tag
  PROVE  <<t>> \in Seq(Tag) /\ Len(<<t>>) = 1 /\ <<t>> # <<>> /\ <<t>>[1] = t
OBVIOUS

\* What is parsed of a chunk: the tag that waited and the new ones, but for one that is cut.
LEMMA CarriedOver ==
  ASSUME NEW p \in Seq(Tag), Len(p) <= 1, NEW w0, PartAnnounced(p, w0),
         NEW ts \in Seq(Tag), ts # <<>>, NEW w, InForce(w0, ts, w), NEW cut \in BOOLEAN,
         NEW s, s = p \o (IF cut THEN Front(ts) ELSE ts),
         NEW q, q = (IF cut THEN <<Last(ts)>> ELSE <<>>)
  PROVE  /\ s \in Seq(Tag) /\ q \in Seq(Tag) /\ Len(q) <= 1 /\ PartAnnounced(q, w)
         /\ \A v : Caught(v, p, w0) => \E u : InForce(v, s, u) /\ Caught(u, q, w)
<1>1. PICK m : m = IF cut THEN Front(ts) ELSE ts
  OBVIOUS
<1>2. \E y : /\ m \in Seq(Tag) /\ InForce(w0, m, y) /\ Caught(y, q, w)
             /\ q \in Seq(Tag) /\ Len(q) <= 1 /\ PartAnnounced(q, w)
  <2>1. CASE ~cut
    <3>1. m = ts /\ q = <<>> BY <2>1, <1>1
    <3>2. Caught(w, q, w) /\ PartAnnounced(q, w) BY <3>1 DEF Caught, PartAnnounced
    <3>3. m \in Seq(Tag) /\ InForce(w0, m, w) BY <3>1, Zenon
    <3>4. q \in Seq(Tag) /\ Len(q) <= 1 BY <3>1
    <3>. QED BY <3>2, <3>3, <3>4, Zenon
  <2>2. CASE cut
    <3>1. m = Front(ts) /\ q = <<Last(ts)>> BY <2>2, <1>1
    <3>2. PICK u : InForce(w0, Front(ts), u) /\ Leads(u, Last(ts), w)
      BY InForceFront, Zenon
    <3>3. Front(ts) \in Seq(Tag) /\ Last(ts) \in Tag
      BY InForceFront, <3>2
    <3>4. PICK t \in Tag : t = Last(ts)
      BY <3>3
    <3>5. q = <<t>> /\ q # <<>> /\ q[1] = t /\ q \in Seq(Tag) /\ Len(q) <= 1
      <4>1. q = <<t>> BY <3>1, <3>4, Zenon
      <4>2. <<t>> \in Seq(Tag) /\ Len(<<t>>) = 1 /\ <<t>> # <<>> /\ <<t>>[1] = t BY Singleton, Zenon
      <4>3. \A z : z = <<t>> => z # <<>> /\ z[1] = t /\ z \in Seq(Tag) /\ Len(z) <= 1
        BY <4>2
      <4>. QED BY <4>1, <4>3, Zenon
    <3>6. Caught(u, q, w) /\ PartAnnounced(q, w)
      BY <3>2, <3>4, <3>5 DEF Caught, PartAnnounced, Leads
    <3>7. q \in Seq(Tag) /\ Len(q) <= 1
      BY <3>5
    <3>8. m \in Seq(Tag) /\ InForce(w0, m, u)
      BY <3>1, <3>2, <3>3, Zenon
    <3>. QED BY <3>6, <3>7, <3>8, Zenon
  <2>. QED BY <2>1, <2>2
<1>3. PICK y : /\ m \in Seq(Tag) /\ InForce(w0, m, y) /\ Caught(y, q, w)
               /\ q \in Seq(Tag) /\ Len(q) <= 1 /\ PartAnnounced(q, w)
  BY <1>2
<1>4. s = p \o m
  BY <1>1
<1>5. s \in Seq(Tag)
  BY <1>3, <1>4, TagsJoined, Zenon
<1>6. ASSUME NEW v, Caught(v, p, w0) PROVE InForce(v, s, y)
  <2>1. CASE p = <<>>
    <3>1. s = m BY <2>1, <1>3, <1>4, TagsJoined, Zenon
    <3>2. v = w0 BY <1>6, <2>1 DEF Caught
    <3>. QED BY <3>1, <3>2, <1>3
  <2>2. CASE p # <<>>
    <3>1. PICK t \in Tag : t = p[1] /\ p = <<t>> BY <2>2, OneTag, Zenon
    <3>2. Leads(v, t, w0) BY <1>6, <2>2, <3>1 DEF Caught
    <3>3. s = <<t>> \o m BY <3>1, <1>4
    <3>4. InForce(v, <<t>> \o m, y) BY <3>2, <1>3, InForceBehind
    <3>. QED BY <3>3, <3>4
  <2>. QED BY <2>1, <2>2
<1>7. \A v : Caught(v, p, w0) => \E u : InForce(v, s, u) /\ Caught(u, q, w)
  BY <1>3, <1>6
<1>. QED BY <1>3, <1>5, <1>7

\* The last header of a chunk is in force behind it.
LEMMA LastHeaderInForce ==
  ASSUME NEW v, NEW s \in Seq(Tag), NEW w, InForce(v, s, w),
         NEW H, H = {i \in DOMAIN s : s[i].kind = "video" /\ s[i].header}, H # {}
  PROVE  s[Max(H)].config = w
<1>1. PICK N \in Nat : N = Len(s) /\ DOMAIN s = 1..N
  OBVIOUS
<1>2. PICK h : Forces(h, v, s, w)
  BY DEF InForce
<1>3. H \subseteq 1..N
  BY <1>1
<1>4. Max(H) \in H /\ \A y \in H : Max(H) >= y
  BY <1>3, GreatestExists
<1>5. PICK m \in 1..N : m = Max(H) /\ \A y \in H : m >= y
  BY <1>3, <1>4
<1>6. PICK c : c = s[m].config
  OBVIOUS
<1>. DEFINE S == {i \in 0..N : i >= m => h[i] = c}
<1>7. 0 \in S
  OBVIOUS
<1>8. ASSUME NEW i \in 0..N, i < N, i \in S PROVE i + 1 \in S
  <2>1. PICK j \in 1..N : j = i + 1 /\ j - 1 = i /\ j \in 0..N
    BY <1>8
  <2>2. Leads(h[i], s[j], h[j])
    BY <1>1, <1>2, <2>1 DEF Forces
  <2>3. PICK t \in Tag : t = s[j]
    BY <1>1
  <2>4. CASE j = m
    <3>1. t.kind = "video" /\ t.config = c BY <1>4, <1>5, <1>6, <2>3, <2>4
    <3>2. h[j] = c BY <2>2, <2>3, <3>1 DEF Leads
    <3>. QED BY <3>2, <2>1
  <2>5. CASE j < m
    BY <2>1, <2>5
  <2>6. CASE j > m
    <3>1. ASSUME j \in H PROVE FALSE
      <4>1. m >= j BY <1>5, <3>1, Zenon
      <4>. QED BY <2>6, <4>1
    <3>2. ~(t.kind = "video" /\ t.header) BY <3>1, <1>1, <2>3
    <3>3. h[i] = c BY <1>8, <2>1, <2>6
    <3>4. h[j] = c
      BY <2>2, <2>3, <3>2, <3>3 DEF Leads
    <3>. QED BY <3>4, <2>1
  <2>. QED BY <2>1, <2>4, <2>5, <2>6
<1>9. \A i \in 0..N : i \in S
  <2>. HIDE DEF S
  <2>. QED BY <1>7, <1>8, BoundedInduction
<1>10. h[N] = c /\ h[N] = w
  BY <1>9, <1>1, <1>2 DEF Forces
<1>. QED BY <1>10, <1>5, <1>6

(***************************************************************************)
(* What a chunk makes of the file.                                         *)
(***************************************************************************)
\* What Fix makes of the tags s of a chunk: the entries es, every one of a tag of s, at times
\* that continue those of the fixer f.
Returned(f, s, r, es, l0) ==
    /\ es \in Seq(Entry) /\ FixerLike(r.fixer)
    /\ r.fixer.cache.signatures \subseteq f.cache.signatures \cup Signatures(Tags(es))
    /\ Signatures(r.dups) \subseteq f.cache.signatures \cup Signatures(Tags(es))
    /\ Tags(es) \subseteq {s[j] : j \in 1..Len(s)}
    /\ es = <<>> => r.fixer.store = f.store
    /\ es # <<>> => /\ StoreBehind(r.fixer.store, es[Len(es)].at)
                    /\ f.store = TimestampStore => es[1].at = 0
                    /\ f.store # TimestampStore => Near(es[1].at, l0)
    /\ \A i \in 2..Len(es) : Near(es[i].at, es[i - 1].at)

\* What Fix returns for the tags s, seen from the file.
LEMMA FixReturns ==
  ASSUME NEW f, FixerLike(f), NEW s \in Seq(Tag), NEW r, r = Fix(f, s), NEW es, es = r.out,
         NEW l0, f.store = TimestampStore \/ StoreBehind(f.store, l0)
  PROVE  Returned(f, s, r, es, l0)
<1>1. PICK g : /\ FixLoop(g, f, s)
               /\ \A i \in 0..Len(s) : LoopLike(g[i]) /\ Accounted(g[i], f.cache.signatures, s, i)
               /\ r.out = g[Len(s)].out /\ r.dups = g[Len(s)].dups
               /\ FixerLike(r.fixer)
               /\ r.fixer.store = g[Len(s)].fixer.store
               /\ r.fixer.cache.signatures \subseteq g[Len(s)].fixer.cache.signatures
  BY FixRuns, Zenon
<1>2. Len(s) \in 0..Len(s)
  OBVIOUS
<1>3. LoopLike(g[Len(s)]) /\ Accounted(g[Len(s)], f.cache.signatures, s, Len(s))
  BY <1>1, <1>2, Zenon
<1>4. Stamped(g[Len(s)], f.store, l0)
  BY <1>1, RunStamped, Zenon
<1>5. PICK l : l = g[Len(s)] /\ l.out = es
  BY <1>1
<1>6. es \in Seq(Entry)
  BY <1>3, <1>5 DEF LoopLike
<1>7. /\ r.fixer.cache.signatures \subseteq f.cache.signatures \cup Signatures(Tags(es))
      /\ Signatures(r.dups) \subseteq f.cache.signatures \cup Signatures(Tags(es))
      /\ Tags(es) \subseteq {s[j] : j \in 1..Len(s)}
  BY <1>1, <1>3, <1>5 DEF Accounted
<1>8. Stamped(l, f.store, l0) /\ l.fixer.store = r.fixer.store
  BY <1>1, <1>4, <1>5
<1>9. /\ es = <<>> => r.fixer.store = f.store
      /\ es # <<>> => /\ StoreBehind(r.fixer.store, es[Len(es)].at)
                      /\ f.store = TimestampStore => es[1].at = 0
                      /\ f.store # TimestampStore => Near(es[1].at, l0)
      /\ \A i \in 2..Len(es) : Near(es[i].at, es[i - 1].at)
  BY <1>5, <1>8, Zenon DEF Stamped
<1>. QED BY <1>1, <1>6, <1>7, <1>9, Zenon DEF Returned

\* And what the detector makes of it when it finds no change.
LEMMA ChunkConfig ==
  ASSUME NEW f, FixerLike(f), NEW s \in Seq(Tag), NEW es, es = Fix(f, s).out, es \in Seq(Entry),
         NEW d, SeenLike(d), CachedConfig(f, d.video), NEW w, InForce(d.video, s, w),
         NEW r, r = DetectChange(d, es), ~r.changed, NEW K, HeadersKept(Fix(f, s).dups, K, d.video, es)
  PROVE  ConfigSettled(d, w, es, r)
<1>1. PICK g : /\ FixLoop(g, f, s)
               /\ \A i \in 0..Len(s) : LoopLike(g[i]) /\ Accounted(g[i], f.cache.signatures, s, i)
               /\ es = g[Len(s)].out /\ Fix(f, s).dups = g[Len(s)].dups
  BY FixRuns, Zenon
<1>2. ChunkRun(g, f, d, s)
  BY <1>1, Zenon DEF ChunkRun
<1>3. Detects(r, d, es, Len(es))
  BY DetectFinds, Zenon
<1>4. es = g[Len(s)].out
  BY <1>1
<1>5. Unchanged(g, f, d, s, w, es, r, K)
  BY <1>1, <1>2, <1>3, <1>4, Zenon DEF Unchanged
<1>. QED BY <1>5, OneConfig, Zenon

LEMMA NothingJoined ==
  ASSUME NEW a \in Seq(Entry)
  PROVE  a \o <<>> = a /\ <<>> \o a = a
OBVIOUS

LEMMA JoinedLast ==
  ASSUME NEW a \in Seq(Entry), NEW b \in Seq(Entry), b # <<>>
  PROVE  (a \o b)[Len(a \o b)] = b[Len(b)]
<1>1. PICK n \in Nat, m \in Nat : n = Len(a) /\ m = Len(b) /\ m # 0
  OBVIOUS
<1>2. PICK c : c = a \o b
  OBVIOUS
<1>2a. Len(c) = n + m /\ \A i \in 1..m : c[n + i] = b[i]
  BY <1>1, <1>2, Joined
<1>3. m \in 1..m
  BY <1>1
<1>4. c[n + m] = b[m]
  BY <1>2a, <1>3
<1>. QED BY <1>1, <1>2, <1>2a, <1>4

\* The file fl behind the tags es: a file that is not begun gets its preamble first.
Grown(fl, wr, es, h) == fl \o (IF wr \/ es = <<>> THEN <<>> ELSE Preamble(h)) \o es

LEMMA GrownNot ==
  ASSUME NEW h, NEW wr, NEW fl \in Seq(Entry), NEW es, es = <<>>, NEW fl2, fl2 = Grown(fl, wr, es, h)
  PROVE  fl2 = fl
<1>1. fl2 = fl \o <<>> \o <<>> BY DEF Grown
<1>. QED BY <1>1, NothingJoined, Zenon

LEMMA GrownFirst ==
  ASSUME NEW h, SeenLike(h), NEW es \in Seq(Entry), es # <<>>, NEW fl2, fl2 = Grown(<<>>, FALSE, es, h)
  PROVE  fl2 = Preamble(h) \o es
<1>1. PICK P \in Seq(Entry) : P = Preamble(h)
  BY PreambleLike
<1>2. fl2 = <<>> \o P \o es BY <1>1 DEF Grown
<1>. QED BY <1>1, <1>2, NothingJoined, Zenon

LEMMA BodyBehind ==
  ASSUME NEW a \in Seq(Entry), NEW b \in Seq(Entry)
  PROVE  SubSeq(a \o b, Len(a) + 1, Len(a \o b)) = b
OBVIOUS

\* A file that grows by smooth tags stays smooth.
LEMMA TimedGrows ==
  ASSUME NEW h, SeenLike(h), NEW wr \in BOOLEAN, NEW fl \in Seq(Entry), TimedFile(wr, fl, h),
         NEW es \in Seq(Entry), NEW wr2, wr2 = (wr \/ es # <<>>),
         NEW fl2, fl2 = Grown(fl, wr, es, h),
         es # <<>> /\ ~wr => es[1].at = 0,
         es # <<>> /\ wr => Near(es[1].at, fl[Len(fl)].at),
         \A i \in 2..Len(es) : Near(es[i].at, es[i - 1].at)
  PROVE  /\ fl2 \in Seq(Entry) /\ TimedFile(wr2, fl2, h)
         /\ es # <<>> => fl2[Len(fl2)] = es[Len(es)]
<1>1. PICK P \in Seq(Entry) : P = Preamble(h)
  BY PreambleLike
<1>2. ~wr => fl = <<>>
  BY DEF TimedFile
<1>3. CASE es = <<>> /\ fl2 = fl /\ wr2 = wr
  BY <1>3
<1>4. CASE es # <<>> /\ wr /\ wr2 /\ fl2 = fl \o es
  <2>1. PICK b \in Seq(Entry) : b = FileBody(fl, h) /\ Smooth(b) /\ fl = P \o b
    BY <1>1, <1>4 DEF TimedFile
  <2>2. b # <<>> BY <2>1 DEF Smooth
  <2>3. fl[Len(fl)] = b[Len(b)]
    BY <2>1, <2>2, Joined
  <2>4. PICK c : c = b \o es /\ c \in Seq(Entry)
    BY Joined
  <2>5. Near(es[1].at, b[Len(b)].at)
    BY <1>4, <2>3
  <2>6. Smooth(c) /\ c[Len(c)] = es[Len(es)]
    BY <2>1, <2>4, <2>5, <1>4, TimedJoined, Zenon
  <2>7. fl2 = P \o c
    <3>1. fl2 = (P \o b) \o es BY <2>1, <1>4
    <3>2. (P \o b) \o es = P \o (b \o es) BY JoinAssoc, Zenon
    <3>. QED BY <3>1, <3>2, <2>4
  <2>8. fl2 \in Seq(Entry)
    BY <2>7, <2>4, Joined
  <2>9. FileBody(fl2, h) = c
    <3>1. SubSeq(P \o c, Len(P) + 1, Len(P \o c)) = c BY <2>4, BodyBehind
    <3>. QED BY <3>1, <2>7, <1>1 DEF FileBody
  <2>10. fl2[Len(fl2)] = c[Len(c)]
    <3>1. c # <<>> BY <2>6 DEF Smooth
    <3>. QED BY <3>1, <2>7, <2>4, Joined
  <2>. QED BY <2>4, <2>6, <2>7, <2>8, <2>9, <2>10, <1>1, <1>4 DEF TimedFile
<1>5. CASE es # <<>> /\ ~wr /\ wr2 /\ fl = <<>> /\ fl2 = P \o es
  <2>1. Smooth(es)
    BY <1>5 DEF Smooth
  <2>2. fl2 \in Seq(Entry) /\ fl2[Len(fl2)] = es[Len(es)]
    <3>1. fl2 \in Seq(Entry) BY <1>5, Joined
    <3>2. fl2[Len(fl2)] = es[Len(es)] BY <1>5, JoinedLast, Zenon
    <3>. QED BY <3>1, <3>2
  <2>3. FileBody(fl2, h) = es
    <3>1. SubSeq(P \o es, Len(P) + 1, Len(P \o es)) = es BY BodyBehind
    <3>. QED BY <3>1, <1>5, <1>1 DEF FileBody
  <2>. QED BY <2>1, <2>2, <2>3, <1>1, <1>5 DEF TimedFile
<1>6. CASE es = <<>>
  <2>1. fl2 = fl BY <1>2, <1>6, GrownNot, Zenon
  <2>. QED BY <1>3, <1>6, <2>1
<1>7. CASE es # <<>> /\ wr
  <2>1. fl2 = fl \o es
    <3>1. fl2 = fl \o <<>> \o es BY <1>2, <1>7 DEF Grown
    <3>. QED BY <3>1, NothingJoined, Zenon
  <2>. QED BY <1>4, <1>7, <2>1
<1>8. CASE es # <<>> /\ ~wr
  <2>1. fl2 = P \o es
    <3>1. fl2 = Grown(<<>>, FALSE, es, h) BY <1>1, <1>2, <1>8, Zenon
    <3>2. fl2 = Preamble(h) \o es BY <1>1, <1>2, <1>8, <3>1, GrownFirst, Zenon
    <3>. QED BY <3>2, <1>1, Zenon
  <2>. QED BY <1>2, <1>5, <1>8, <2>1
<1>. QED BY <1>6, <1>7, <1>8

\* What was in the file stays, and what the fixer handed on is in it.
LEMMA TagsGrow ==
  ASSUME NEW h, SeenLike(h), NEW wr \in BOOLEAN, NEW fl \in Seq(Entry), ~wr => fl = <<>>,
         NEW es \in Seq(Entry), NEW fl2, fl2 = Grown(fl, wr, es, h)
  PROVE  Tags(fl) \subseteq Tags(fl2) /\ Tags(es) \subseteq Tags(fl2)
<1>1. PICK P \in Seq(Entry) : P = Preamble(h)
  BY PreambleLike
<1>2. CASE es = <<>>
  <2>1. fl2 = fl BY <1>2, GrownNot, Zenon
  <2>. QED BY <2>1, <1>2, TagsEmpty
<1>3. CASE es # <<>> /\ wr
  <2>1. fl2 = fl \o es
    <3>1. fl2 = fl \o <<>> \o es BY <1>3 DEF Grown
    <3>. QED BY <3>1, NothingJoined, Zenon
  <2>2. Tags(fl2) = Tags(fl) \cup Tags(es) BY <2>1, JoinedTags, Zenon
  <2>. QED BY <2>2
<1>4. CASE es # <<>> /\ ~wr
  <2>1. fl2 = P \o es
    <3>1. fl2 = Grown(<<>>, FALSE, es, h) BY <1>1, <1>4, Zenon
    <3>2. fl2 = Preamble(h) \o es BY <1>1, <1>4, <3>1, GrownFirst, Zenon
    <3>. QED BY <3>2, <1>1, Zenon
  <2>2. Tags(fl2) = Tags(P) \cup Tags(es) BY <2>1, JoinedTags
  <2>. QED BY <2>2, <1>4, TagsEmpty
<1>. QED BY <1>2, <1>3, <1>4

\* And nothing else is.
LEMMA TagsCome ==
  ASSUME NEW h, SeenLike(h), NEW wr \in BOOLEAN, NEW fl \in Seq(Entry), ~wr => fl = <<>>,
         NEW es \in Seq(Entry), NEW fl2, fl2 = Grown(fl, wr, es, h)
  PROVE  Tags(fl2) \subseteq Tags(fl) \cup Tags(Preamble(h)) \cup Tags(es)
<1>1. PICK P \in Seq(Entry) : P = Preamble(h)
  BY PreambleLike
<1>2. CASE es = <<>>
  <2>1. fl2 = fl BY <1>2, GrownNot, Zenon
  <2>. QED BY <2>1
<1>3. CASE es # <<>> /\ wr
  <2>1. fl2 = fl \o es
    <3>1. fl2 = fl \o <<>> \o es BY <1>3 DEF Grown
    <3>. QED BY <3>1, NothingJoined, Zenon
  <2>2. Tags(fl2) = Tags(fl) \cup Tags(es) BY <2>1, JoinedTags, Zenon
  <2>. QED BY <2>2
<1>4. CASE es # <<>> /\ ~wr
  <2>1. fl2 = P \o es
    <3>1. fl2 = Grown(<<>>, FALSE, es, h) BY <1>1, <1>4, Zenon
    <3>2. fl2 = Preamble(h) \o es BY <1>1, <1>4, <3>1, GrownFirst, Zenon
    <3>. QED BY <3>2, <1>1, Zenon
  <2>2. Tags(fl2) = Tags(P) \cup Tags(es) BY <2>1, JoinedTags
  <2>. QED BY <2>2, <1>1
<1>. QED BY <1>2, <1>3, <1>4

LEMMA TagsTyped ==
  ASSUME NEW es \in Seq(Entry), NEW t \in Tags(es)
  PROVE  t \in Tag
<1>1. PICK i \in DOMAIN es : t = es[i].tag
  BY DEF Tags
<1>2. es[i] \in Entry
  OBVIOUS
<1>. QED BY <1>1, <1>2 DEF Entry

\* A file with one configuration that gets tags of the same one, or a header first.
LEMMA ConfiguredGrows ==
  ASSUME NEW h, SeenLike(h), NEW wr \in BOOLEAN, NEW fl \in Seq(Entry), ~wr => fl = <<>>,
         NEW es \in Seq(Entry), NEW fl2, fl2 = Grown(fl, wr, es, h),
         NEW v, Known(v, wr, fl, h), Configured(fl, v), NEW r, ConfigSettled([video |-> v], r.seen.video, es, r)
  PROVE  Configured(fl2, r.seen.video)
<1>1. PICK P \in Seq(Entry) : P = Preamble(h)
  BY PreambleLike
<1>2. PICK u : u = r.seen.video
  OBVIOUS
<1>3. /\ \A t \in Tags(es) : t.kind = "video" => t.config = u
      /\ v # 0 => u = v
      /\ v = 0 => Headed(es)
  BY <1>2 DEF ConfigSettled, Tags
<1>4. \A e \in Seq(Entry) : \A t \in Tags(e) : t \in Tag /\ t.config # 0
  BY TagsTyped, TagConfig
<1>5. Headed(fl) /\ \A t \in Tags(fl) : t.kind = "video" => t.config = u
  BY <1>3, <1>4 DEF Configured
<1>6. Headed(P) /\ \A t \in Tags(P) : t.kind = "video" => t.config = u
  <2>1. Headed(P) BY <1>1, PreambleLike, AllHeaders
  <2>2. \A t \in Tags(P) : t.kind = "video" => t.config = h.video BY <1>1, PreambleLike
  <2>3. h.video # 0 => h.video = u BY <1>3 DEF Known
  <2>. QED BY <2>1, <2>2, <2>3, <1>4
<1>7. CASE es = <<>>
  <2>1. fl2 = fl BY <1>7, GrownNot, Zenon
  <2>. QED BY <2>1, <1>2, <1>5 DEF Configured
<1>8. CASE es # <<>> /\ wr
  <2>1. fl2 = fl \o es
    <3>1. fl2 = fl \o <<>> \o es BY <1>8 DEF Grown
    <3>. QED BY <3>1, NothingJoined, Zenon
  <2>2. Headed(es) \/ HasHeader(fl) BY <1>3, <1>8 DEF Known
  <2>3. Headed(fl2) BY <2>1, <2>2, <1>5, JoinedHeaded
  <2>4. Tags(fl2) = Tags(fl) \cup Tags(es) BY <2>1, JoinedTags
  <2>. QED BY <2>3, <2>4, <1>2, <1>3, <1>5 DEF Configured
<1>9. CASE es # <<>> /\ ~wr
  <2>1. fl2 = P \o es
    <3>1. fl2 = Grown(<<>>, FALSE, es, h) BY <1>1, <1>9, Zenon
    <3>2. fl2 = Preamble(h) \o es BY <1>1, <1>9, <3>1, GrownFirst, Zenon
    <3>. QED BY <3>2, <1>1, Zenon
  <2>2. Headed(es) \/ HasHeader(P) BY <1>1, <1>3, <1>9, PreambleLike DEF Known
  <2>3. Headed(fl2) BY <2>1, <2>2, <1>6, JoinedHeaded
  <2>4. Tags(fl2) = Tags(P) \cup Tags(es) BY <2>1, JoinedTags
  <2>. QED BY <2>3, <2>4, <1>2, <1>3, <1>6 DEF Configured
<1>. QED BY <1>7, <1>8, <1>9

\* The detector still has what it knows from the file or from its preamble.
LEMMA KnownGrows ==
  ASSUME SeenLike(seeds), written \in BOOLEAN, file \in Seq(Entry), ~written => file = <<>>,
         NEW es \in Seq(Entry), file' = Grown(file, written, es, seeds), written' = (written \/ es # <<>>),
         Known(seen.video, written, file, seeds), NEW u, u = seen.video \/ (seen.video = 0 /\ HasHeader(es))
  PROVE  Known(u, written', file', seeds)
<1>1. PICK P \in Seq(Entry) : P = Preamble(seeds)
  BY PreambleLike
<1>2. seeds.video # 0 => u = seeds.video
  BY DEF Known
<1>3. HasHeader(es) => es # <<>>
  BY DEF HasHeader
<1>4. u # 0 => (IF written' THEN HasHeader(file') ELSE seeds.video # 0)
  <2>1. CASE es = <<>>
    <3>1. file' = file BY <2>1, GrownNot, Zenon
    <3>2. u = seen.video BY <1>3, <2>1
    <3>. QED BY <2>1, <3>1, <3>2 DEF Known
  <2>2. CASE es # <<>> /\ written
    <3>1. file' = file \o es
      <4>1. file' = file \o <<>> \o es BY <2>2 DEF Grown
      <4>. QED BY <4>1, NothingJoined, Zenon
    <3>2. u # 0 => HasHeader(file) \/ HasHeader(es) BY <2>2 DEF Known
    <3>. QED BY <2>2, <3>1, <3>2, JoinedHeader
  <2>3. CASE es # <<>> /\ ~written
    <3>1. file' = P \o es
      <4>1. file' = Grown(<<>>, FALSE, es, seeds) BY <1>1, <2>3, Zenon
      <4>2. file' = Preamble(seeds) \o es BY <1>1, <2>3, <4>1, GrownFirst, Zenon
      <4>. QED BY <4>2, <1>1, Zenon
    <3>2. u # 0 => HasHeader(P) \/ HasHeader(es) BY <1>1, <2>3, PreambleLike DEF Known
    <3>. QED BY <2>3, <3>1, <3>2, JoinedHeader
  <2>. QED BY <2>1, <2>2, <2>3
<1>. QED BY <1>2, <1>4 DEF Known

(***************************************************************************)
(* The steps of the chain keep the invariant.                              *)
(***************************************************************************)
LEMMA EmptyFile ==
  ASSUME NEW c
  PROVE  /\ <<>> \in Seq(Entry) /\ Tags(<<>>) = {} /\ Configured(<<>>, c)
         /\ <<>> \in Seq(Tag) /\ Len(<<>>) <= 1
BY TagsEmpty DEF Configured, Headed

LEMMA FreshFixer ==
  /\ FixerLike(NewRealtimeFixer) /\ NewRealtimeFixer.store = TimestampStore
  /\ NewRealtimeFixer.cache.signatures = {} /\ TimestampStore \in Store
BY DEF FixerLike, NewRealtimeFixer, TimestampStore, NewDedupCache, Store

LEMMA FlvInitial == FlvInit => FlvInv
<1>. SUFFICES ASSUME FlvInit PROVE FlvInv
  OBVIOUS
<1>1. SourceLike(source) /\ source.video = 0
  BY DEF FlvInit, SourceLike
<1>2. seen = [video |-> 0, audio |-> 0] /\ seeds = [video |-> 0, audio |-> 0]
  BY DEF FlvInit, NoHeaders
<1>3. SeenLike(seen) /\ SeenLike(seeds) /\ seen.video = 0 /\ seeds.video = 0
  BY <1>2 DEF SeenLike
<1>4. /\ partial = <<>> /\ fixer = NewRealtimeFixer /\ written = FALSE /\ file = <<>>
      /\ dropped = {} /\ lostHeader = FALSE
  BY DEF FlvInit
<1>5. FlvTypes /\ CacheInFile
  BY <1>1, <1>3, <1>4, EmptyFile, FreshFixer, SignaturesJoined DEF FlvTypes, CacheInFile
<1>6. TimedFile(written, file, seeds) /\ Known(seen.video, written, file, seeds)
  BY <1>3, <1>4 DEF TimedFile, Known
<1>7. Configured(file, seen.video)
  BY <1>4, EmptyFile
<1>8. Running
  BY <1>1, <1>3, <1>4, FreshFixer DEF Running, PartAnnounced, Caught
<1>. QED BY <1>5, <1>6, <1>7, <1>8 DEF FlvInv

\* What the tags s of a chunk leave behind: the source w2 and the cut tag q.
Carries(p, w, s, q, w2) ==
    /\ q \in Seq(Tag) /\ Len(q) <= 1 /\ PartAnnounced(q, w2)
    /\ \A v : Caught(v, p, w) => \E u : InForce(v, s, u) /\ Caught(u, q, w2)

\* The pipeline takes a chunk: the file grows by what the fixer hands on.
LEMMA WriteKeeps ==
  ASSUME FlvInv, Running, NEW s \in Seq(Tag), NEW r, r = Fix(fixer, s),
         NEW d, d = DetectChange(seen, r.out), Write(r, d), SourceLike(source'),
         Carries(partial, source.video, s, partial', source'.video)
  PROVE  FlvInv'
<1>1. /\ FlvTypes /\ CacheInFile /\ TimedFile(written, file, seeds)
      /\ Known(seen.video, written, file, seeds)
  BY DEF FlvInv
<1>2. FixerLike(fixer) /\ SeenLike(seen) /\ SeenLike(seeds) /\ written \in BOOLEAN /\ file \in Seq(Entry)
  BY <1>1 DEF FlvTypes
<1>3. PICK es : es = r.out
  OBVIOUS
<1>4. PICK prev : prev = file[Len(file)].at
  OBVIOUS
<1>5. fixer.store = TimestampStore \/ StoreBehind(fixer.store, prev)
  BY <1>4 DEF Running
<1>6. /\ es \in Seq(Entry) /\ FixerLike(r.fixer)
      /\ r.fixer.cache.signatures \subseteq fixer.cache.signatures \cup Signatures(Tags(es))
      /\ Signatures(r.dups) \subseteq fixer.cache.signatures \cup Signatures(Tags(es))
      /\ es = <<>> => r.fixer.store = fixer.store
      /\ es # <<>> => /\ StoreBehind(r.fixer.store, es[Len(es)].at)
                      /\ fixer.store = TimestampStore => es[1].at = 0
                      /\ fixer.store # TimestampStore => Near(es[1].at, prev)
      /\ \A i \in 2..Len(es) : Near(es[i].at, es[i - 1].at)
  <2>1. Returned(fixer, s, r, es, prev)
    BY <1>2, <1>3, <1>5, FixReturns, Zenon
  <2>. QED BY <2>1, Zenon DEF Returned
<1>7. /\ ~d.changed /\ seen' = d.seen /\ fixer' = r.fixer /\ seeds' = seeds
      /\ lostHeader' = (lostHeader \/ \E t \in r.dups : t.kind = "video" /\ t.header /\ t \notin Tags(file'))
      /\ written' = (written \/ es # <<>>) /\ dropped' = dropped \cup r.dups
      /\ file' = Grown(file, written, es, seeds)
  BY <1>3, Zenon DEF Write, Grown
<1>8. ~written => file = <<>> /\ fixer.store = TimestampStore
  BY <1>1 DEF TimedFile, Running
<1>9. written => fixer.store # TimestampStore
  BY <1>4, <1>5 DEF Running, StoreBehind, TimestampStore
<1>10. /\ es # <<>> /\ ~written => es[1].at = 0
       /\ es # <<>> /\ written => Near(es[1].at, file[Len(file)].at)
  BY <1>4, <1>6, <1>8, <1>9
<1>11. /\ file' \in Seq(Entry) /\ TimedFile(written', file', seeds')
       /\ es # <<>> => file'[Len(file')] = es[Len(es)]
  BY <1>1, <1>2, <1>6, <1>7, <1>10, TimedGrows
<1>12. Tags(file) \subseteq Tags(file') /\ Tags(es) \subseteq Tags(file')
  BY <1>2, <1>6, <1>7, <1>8, TagsGrow
<1>13. CacheInFile'
  <2>1. PICK fl : fl = file'
    OBVIOUS
  <2>2. Signatures(Tags(file)) \subseteq Signatures(Tags(fl)) /\ Signatures(Tags(es)) \subseteq Signatures(Tags(fl))
    BY <2>1, <1>12, SignaturesJoined, Zenon
  <2>3. Signatures(dropped') = Signatures(dropped) \cup Signatures(r.dups)
    BY <1>7, SignaturesJoined
  <2>4. fixer'.cache.signatures \subseteq Signatures(Tags(fl)) /\ Signatures(dropped') \subseteq Signatures(Tags(fl))
    BY <2>2, <2>3, <1>1, <1>6, <1>7 DEF CacheInFile
  <2>. QED BY <2>1, <2>4 DEF CacheInFile
<1>14. d = DetectChange(seen, es)
  BY <1>3
<1>15. Detects(d, seen, es, Len(es))
  BY <1>2, <1>6, <1>14, DetectFinds
<1>16. SeenLike(seen') /\ (seen'.video = seen.video \/ (seen.video = 0 /\ HasHeader(es)))
  BY <1>6, <1>7, <1>15 DEF Detects, HasHeader
<1>17. Known(seen'.video, written', file', seeds')
  <2>1. PICK u : u = d.seen.video
    OBVIOUS
  <2>2. u = seen.video \/ (seen.video = 0 /\ HasHeader(es))
    BY <2>1, <1>7, <1>16
  <2>3. Known(u, written', file', seeds)
    <3>1. ~written => file = <<>>
      BY <1>8
    <3>2. es \in Seq(Entry) /\ file' = Grown(file, written, es, seeds) /\ written' = (written \/ es # <<>>)
      BY <1>6, <1>7
    <3>3. SeenLike(seeds) /\ written \in BOOLEAN /\ file \in Seq(Entry)
      BY <1>2
    <3>4. Known(seen.video, written, file, seeds)
      BY <1>1
    <3>. QED BY <2>2, <3>1, <3>2, <3>3, <3>4, KnownGrows, Zenon
  <2>. QED BY <2>1, <2>3, <1>7
<1>18. ASSUME ~lostHeader' PROVE Configured(file', seen'.video) /\ Caught(seen'.video, partial', source'.video)
  <2>1. Configured(file, seen.video) /\ Caught(seen.video, partial, source.video)
    BY <1>7, <1>18 DEF FlvInv, Running
  <2>2. PICK u : InForce(seen.video, s, u) /\ Caught(u, partial', source'.video)
    BY <2>1 DEF Carries
  <2>3. CachedConfig(fixer, seen.video)
    <3>1. ASSUME seen.video = 0, NEW sig \in fixer.cache.signatures, sig.kind = "video" PROVE FALSE
      <4>1. PICK t \in Tags(file) : sig = computeSignature(t)
        BY <1>1, <3>1 DEF CacheInFile, Signatures
      <4>2. t.kind = "video"
        BY <4>1, <3>1 DEF computeSignature
      <4>3. t.config = 0
        BY <4>2, <3>1, <2>1 DEF Configured
      <4>4. t \in Tag
        BY <1>2, TagsTyped
      <4>. QED BY <4>3, <4>4, TagConfig
    <3>. QED BY <3>1 DEF CachedConfig
  <2>8. PICK P : P = Preamble(seeds)
    OBVIOUS
  <2>9. HeadersKept(r.dups, Tags(file) \cup Tags(P), seen.video, es)
    <3>1. ASSUME NEW t \in Tags(file) \cup Tags(P), t.kind = "video" PROVE t.config = seen.video
      <4>1. CASE t \in Tags(file)
        BY <4>1, <3>1, <2>1 DEF Configured
      <4>2. CASE t \in Tags(P)
        <5>1. P \in Seq(Entry) /\ t.config = seeds.video
          BY <4>2, <3>1, <2>8, <1>2, PreambleLike
        <5>2. t \in Tag
          BY <4>2, <5>1, TagsTyped
        <5>. QED BY <5>1, <5>2, <1>1, TagConfig DEF Known
      <4>. QED BY <4>1, <4>2
    <3>2. PICK fl : fl = file'
      OBVIOUS
    <3>3. Tags(fl) \subseteq Tags(file) \cup Tags(P) \cup Tags(es)
      BY <3>2, <2>8, <1>2, <1>6, <1>7, <1>8, TagsCome
    <3>4. \A t \in r.dups : IsVideoHeader(t) => t \in Tags(fl)
      BY <3>2, <1>7, <1>18 DEF IsVideoHeader
    <3>. QED BY <3>1, <3>3, <3>4 DEF HeadersKept
  <2>10. PICK K : K = Tags(file) \cup Tags(P)
    OBVIOUS
  <2>4. ConfigSettled(seen, u, es, d)
    <3>1. HeadersKept(Fix(fixer, s).dups, K, seen.video, es)
      BY <2>9, <2>10, Zenon
    <3>2. es = Fix(fixer, s).out /\ es \in Seq(Entry) /\ ~d.changed
      BY <1>3, <1>6, <1>7
    <3>. QED BY <3>1, <3>2, <1>2, <1>14, <2>2, <2>3, ChunkConfig
  <2>5. u = d.seen.video
    BY <2>4 DEF ConfigSettled
  <2>6. ConfigSettled([video |-> seen.video], d.seen.video, es, d)
    BY <2>4 DEF ConfigSettled
  <2>7. Configured(file', d.seen.video)
    BY <1>1, <1>2, <1>6, <1>7, <1>8, <2>1, <2>6, ConfiguredGrows
  <2>. QED BY <1>7, <2>2, <2>5, <2>7
<1>19. FlvTypes'
  BY <1>2, <1>6, <1>7, <1>11, <1>16 DEF FlvTypes, Carries
<1>20. Running'
  <2>1. fixer'.store \in Store
    BY <1>6, <1>7 DEF FixerLike
  <2>2. IF written' THEN StoreBehind(fixer'.store, file'[Len(file')].at) ELSE fixer'.store = TimestampStore
    <3>1. CASE es = <<>>
      <4>1. file' = file BY <1>2, <1>7, <3>1, GrownNot
      <4>. QED BY <4>1, <3>1, <1>6, <1>7 DEF Running
    <3>2. CASE es # <<>>
      BY <3>2, <1>6, <1>7, <1>11
    <3>. QED BY <3>1, <3>2
  <2>. QED BY <2>1, <2>2, <1>18 DEF Running, Carries
<1>. QED BY <1>7, <1>11, <1>13, <1>17, <1>18, <1>19, <1>20 DEF FlvInv

\* A rotation leaves a fixer that has seen nothing.
LEMMA HandledErr ==
  ASSUME NEW f, FixerLike(f), NEW g, g = HandleErr(f)
  PROVE  FixerLike(g) /\ g.store = TimestampStore /\ g.cache.signatures = {}
<1>1. PICK hk, ro, st, ca, la : f = [headerOK |-> hk, rotation |-> ro, store |-> st, cache |-> ca, lastClean |-> la]
  BY DEF FixerLike
<1>2. PICK f1 : f1 = [f EXCEPT !.store = TimestampStore]
  OBVIOUS
<1>3. f1 = [headerOK |-> hk, rotation |-> ro, store |-> TimestampStore, cache |-> ca, lastClean |-> la]
  BY <1>1, <1>2
<1>4. ASSUME NEW tt, NEW ff, NEW f2, NEW f3, f2 = [f1 EXCEPT !.rotation = tt], f3 = [f2 EXCEPT !.headerOK = ff]
      PROVE  f3 = [headerOK |-> ff, rotation |-> tt, store |-> TimestampStore, cache |-> ca, lastClean |-> la]
  <2>1. f2 = [headerOK |-> hk, rotation |-> tt, store |-> TimestampStore, cache |-> ca, lastClean |-> la]
    BY <1>3, <1>4
  <2>2. f3 = [f2 EXCEPT !.headerOK = ff]
    BY <1>4, Zenon
  <2>. QED BY <2>1, <2>2
<1>5. PICK f2 : f2 = [f1 EXCEPT !.rotation = TRUE]
  OBVIOUS
<1>6. PICK f3 : f3 = [f2 EXCEPT !.headerOK = FALSE]
  OBVIOUS
<1>7. f3 = [headerOK |-> FALSE, rotation |-> TRUE, store |-> TimestampStore, cache |-> ca, lastClean |-> la]
  BY <1>4, <1>5, <1>6, Zenon
<1>8. ResetTimestampStore(f) = f3
  BY <1>2, <1>5, <1>6 DEF ResetTimestampStore
<1>9. g = [f3 EXCEPT !.cache = NewDedupCache]
  BY <1>8 DEF HandleErr, ResetDedupCache
<1>10. g = [headerOK |-> FALSE, rotation |-> TRUE, store |-> TimestampStore, cache |-> NewDedupCache, lastClean |-> la]
  BY <1>7, <1>9
<1>11. NewDedupCache = [signatures |-> {}, order |-> <<>>] /\ TimestampStore \in Store
  BY FreshFixer DEF NewDedupCache
<1>. QED BY <1>10, <1>11 DEF FixerLike

\* A changed video header: the next file is empty, its detector knows the new header.
LEMMA RotateKeeps ==
  ASSUME FlvInv, Running, NEW s \in Seq(Tag), NEW r, r = Fix(fixer, s),
         NEW d, d = DetectChange(seen, r.out), Rotate(s, r, d), SourceLike(source'),
         Carries(partial, source.video, s, partial', source'.video)
  PROVE  FlvInv'
<1>1. FixerLike(fixer) /\ SeenLike(seen) /\ partial \in Seq(Tag) /\ Len(partial) <= 1
  BY DEF FlvInv, FlvTypes
<1>2. PICK es : es = r.out
  OBVIOUS
<1>3. PICK prev : prev = file[Len(file)].at
  OBVIOUS
<1>4. fixer.store = TimestampStore \/ StoreBehind(fixer.store, prev)
  BY <1>3 DEF Running
<1>5. /\ es \in Seq(Entry) /\ FixerLike(r.fixer)
      /\ Tags(es) \subseteq {s[j] : j \in 1..Len(s)}
  <2>1. Returned(fixer, s, r, es, prev)
    BY <1>1, <1>2, <1>4, FixReturns, Zenon
  <2>. QED BY <2>1, Zenon DEF Returned
<1>. DEFINE H == {i \in DOMAIN s : s[i].kind = "video" /\ s[i].header}
<1>6. /\ d.changed /\ fixer' = HandleErr(r.fixer) /\ seeds' = d.seen /\ seen' = SeedVideoHeader(d.seen)
      /\ written' = FALSE /\ file' = <<>> /\ dropped' = {}
      /\ lostHeader' = (s[Max(H)].config # d.seen.video)
  BY Zenon DEF Rotate
<1>7. d = DetectChange(seen, es)
  BY <1>2
<1>8. Detects(d, seen, es, Len(es))
  BY <1>1, <1>5, <1>7, DetectFinds
<1>9. SeenLike(d.seen) /\ \E j \in 1..Len(es) : IsVideoHeader(es[j].tag)
  BY <1>6, <1>8 DEF Detects
<1>10. SeenLike(seen') /\ SeenLike(seeds') /\ seen'.video = d.seen.video /\ seeds'.video = d.seen.video
  BY <1>6, <1>9 DEF SeenLike, SeedVideoHeader
<1>11. FixerLike(fixer') /\ fixer'.store = TimestampStore /\ fixer'.cache.signatures = {}
  BY <1>5, <1>6, HandledErr
<1>12. H # {}
  <2>1. PICK j \in 1..Len(es) : IsVideoHeader(es[j].tag)
    BY <1>9
  <2>2. es[j].tag \in Tags(es)
    BY <1>5 DEF Tags
  <2>3. PICK i \in 1..Len(s) : s[i] = es[j].tag
    BY <2>2, <1>5
  <2>. QED BY <2>1, <2>3 DEF IsVideoHeader
<1>13. ASSUME ~lostHeader' PROVE Caught(seen'.video, partial', source'.video)
  <2>1. PICK v : Caught(v, partial, source.video)
    BY <1>1, SomeCaught DEF Running
  <2>2. PICK u : InForce(v, s, u) /\ Caught(u, partial', source'.video)
    BY <2>1 DEF Carries
  <2>3. s[Max(H)].config = u
    <3>1. PICK I : I = H OBVIOUS
    <3>2. s[Max(I)].config = u BY <3>1, <1>12, <2>2, LastHeaderInForce
    <3>. QED BY <3>1, <3>2
  <2>4. s[Max(H)].config = d.seen.video
    <3>. HIDE DEF H
    <3>. QED BY <1>6, <1>13, Zenon
  <2>5. u = d.seen.video
    <3>. HIDE DEF H
    <3>. QED BY <2>3, <2>4
  <2>. QED BY <2>2, <2>5, <1>10
<1>14. FlvTypes'
  BY <1>6, <1>10, <1>11, EmptyFile DEF FlvTypes, Carries
<1>15. CacheInFile' /\ TimedFile(written', file', seeds') /\ Known(seen'.video, written', file', seeds')
  BY <1>6, <1>10, <1>11, SignaturesJoined DEF CacheInFile, TimedFile, Known
<1>16. Configured(file', seen'.video)
  BY <1>6, EmptyFile
<1>17. Running'
  BY <1>6, <1>11, <1>13, FreshFixer DEF Running, Carries
<1>. QED BY <1>14, <1>15, <1>16, <1>17 DEF FlvInv

\* A chunk arrives.
LEMMA ProcessKeeps ==
  ASSUME FlvInv, Process
  PROVE  FlvInv'
<1>1. PICK n \in 1..MaxChunk, cut \in BOOLEAN : \E c \in Chunks[n] :
        LET whole == partial \o (IF cut THEN Front(c.tags) ELSE c.tags)
            r == Fix(fixer, whole)
            d == DetectChange(seen, r.out)
        IN /\ source' = c.source
           /\ partial' = IF cut THEN <<Last(c.tags)>> ELSE <<>>
           /\ Write(r, d) \/ Rotate(whole, r, d)
  BY Zenon DEF Process
<1>2. PICK c \in Chunks[n] :
        LET whole == partial \o (IF cut THEN Front(c.tags) ELSE c.tags)
            r == Fix(fixer, whole)
            d == DetectChange(seen, r.out)
        IN /\ source' = c.source
           /\ partial' = IF cut THEN <<Last(c.tags)>> ELSE <<>>
           /\ Write(r, d) \/ Rotate(whole, r, d)
  BY <1>1, Zenon
<1>3. PICK s : s = partial \o (IF cut THEN Front(c.tags) ELSE c.tags)
  OBVIOUS
<1>4. PICK r : r = Fix(fixer, s)
  OBVIOUS
<1>5. PICK d : d = DetectChange(seen, r.out)
  OBVIOUS
<1>6. /\ source' = c.source
      /\ partial' = IF cut THEN <<Last(c.tags)>> ELSE <<>>
      /\ Write(r, d) \/ Rotate(s, r, d)
  BY <1>2, <1>3, <1>4, <1>5, Zenon
<1>7. flvPc = "run" /\ flvPc' = "run"
  BY DEF Process
<1>8. Running /\ SourceLike(source) /\ partial \in Seq(Tag) /\ Len(partial) <= 1
  BY <1>7 DEF FlvInv, FlvTypes
<1>9. n \in Nat /\ n # 0
  BY FlvAssumption DEF FlvAssumption
<1>10. ChunkLike(c, n)
  BY <1>8, <1>9, ChunksLike
<1>11. PICK ts : ts = c.tags
  OBVIOUS
<1>12. PICK w : w = c.source.video
  OBVIOUS
<1>13. /\ ts \in Seq(Tag) /\ ts # <<>> /\ InForce(source.video, ts, w) /\ SourceLike(c.source)
  BY <1>9, <1>10, <1>11, <1>12 DEF ChunkLike
<1>14. PICK q : q = partial'
  OBVIOUS
<1>15. /\ s \in Seq(Tag) /\ q \in Seq(Tag) /\ Len(q) <= 1 /\ PartAnnounced(q, w)
       /\ \A v : Caught(v, partial, source.video) => \E u : InForce(v, s, u) /\ Caught(u, q, w)
  <2>1. s = partial \o (IF cut THEN Front(ts) ELSE ts) /\ q = (IF cut THEN <<Last(ts)>> ELSE <<>>)
    BY <1>3, <1>6, <1>11, <1>14, Zenon
  <2>2. PartAnnounced(partial, source.video)
    BY <1>8 DEF Running
  <2>. QED BY <2>1, <2>2, <1>8, <1>13, CarriedOver, Zenon
<1>16. Carries(partial, source.video, s, partial', source'.video)
  BY <1>6, <1>12, <1>14, <1>15, Zenon DEF Carries
<1>17. SourceLike(source')
  BY <1>6, <1>13
<1>18. CASE Write(r, d)
  BY <1>4, <1>5, <1>8, <1>15, <1>16, <1>17, <1>18, WriteKeeps, Zenon
<1>19. CASE Rotate(s, r, d)
  BY <1>4, <1>5, <1>8, <1>15, <1>16, <1>17, <1>19, RotateKeeps, Zenon
<1>. QED BY <1>6, <1>18, <1>19

\* The file and its detector stay as they are.
LEMMA FlvStays ==
  ASSUME FlvInv, UNCHANGED <<source, seen, seeds, written, file, dropped, lostHeader>>,
         partial' \in Seq(Tag), Len(partial') <= 1, FixerLike(fixer'),
         fixer'.cache.signatures \subseteq fixer.cache.signatures, flvPc' = "run" => Running'
  PROVE  FlvInv'
<1>1. FlvTypes' /\ CacheInFile'
  BY DEF FlvInv, FlvTypes, CacheInFile
<1>. QED BY <1>1 DEF FlvInv

\* The bytes are not those of an FLV file.
LEMMA NotFlvKeeps ==
  ASSUME FlvInv, NotFlv
  PROVE  FlvInv'
<1>1. partial' \in Seq(Tag) /\ Len(partial') <= 1 /\ FixerLike(fixer') /\ fixer' = fixer
  BY DEF FlvInv, FlvTypes, NotFlv
<1>. QED BY <1>1, FlvStays DEF NotFlv

\* The channel is closed.
LEMMA CloseFixerKeeps ==
  ASSUME FlvInv, CloseFixer
  PROVE  FlvInv'
<1>1. FixerLike(fixer)
  BY DEF FlvInv, FlvTypes
<1>2. PICK hk, ro, st, ca, la : fixer = [headerOK |-> hk, rotation |-> ro, store |-> st, cache |-> ca, lastClean |-> la]
  BY <1>1 DEF FixerLike
<1>3. PICK f1 : f1 = [fixer EXCEPT !.cache = NewDedupCache]
  OBVIOUS
<1>4. f1 = [headerOK |-> hk, rotation |-> ro, store |-> st, cache |-> NewDedupCache, lastClean |-> la]
  BY <1>2, <1>3
<1>5. PICK f2 : f2 = [f1 EXCEPT !.store = TimestampStore]
  OBVIOUS
<1>6. f2 = [headerOK |-> hk, rotation |-> ro, store |-> TimestampStore, cache |-> NewDedupCache, lastClean |-> la]
  BY <1>4, <1>5
<1>7. ASSUME NEW ff, NEW f3, f3 = [f2 EXCEPT !.headerOK = ff]
      PROVE  f3 = [headerOK |-> ff, rotation |-> ro, store |-> TimestampStore, cache |-> NewDedupCache, lastClean |-> la]
  BY <1>6, <1>7
<1>8. fixer' = [f2 EXCEPT !.headerOK = FALSE]
  BY <1>3, <1>5 DEF CloseFixer
<1>9. fixer' = [headerOK |-> FALSE, rotation |-> ro, store |-> TimestampStore, cache |-> NewDedupCache, lastClean |-> la]
  BY <1>7, <1>8, Zenon
<1>10. NewDedupCache = [signatures |-> {}, order |-> <<>>] /\ TimestampStore \in Store
  BY FreshFixer DEF NewDedupCache
<1>11. FixerLike(fixer') /\ fixer'.cache.signatures \subseteq fixer.cache.signatures
  BY <1>9, <1>10 DEF FixerLike
<1>12. partial' \in Seq(Tag) /\ Len(partial') <= 1
  BY EmptyFile DEF CloseFixer
<1>. QED BY <1>11, <1>12, FlvStays DEF CloseFixer

\* Process of RealtimeFixer, HeaderChangeDetector and the header writer, rotate and rev keep
\* what the cache, the timestamp store, the detector and the parse buffer know of the file.
THEOREM FlvInvariant == FlvSpec => []FlvInv
<1>1. FlvInv /\ [FlvNext]_flvVars => FlvInv'
  <2>. SUFFICES ASSUME FlvInv, [FlvNext]_flvVars PROVE FlvInv'
    OBVIOUS
  <2>1. CASE NotFlv
    BY <2>1, NotFlvKeeps
  <2>2. CASE Process
    BY <2>2, ProcessKeeps
  <2>3. CASE CloseFixer
    BY <2>3, CloseFixerKeeps
  <2>4. CASE UNCHANGED flvVars
    BY <2>4 DEF flvVars, FlvInv, FlvTypes, CacheInFile, Running
  <2>. QED BY <2>1, <2>2, <2>3, <2>4 DEF FlvNext
<1>. QED BY FlvInitial, <1>1, PTL DEF FlvSpec

\* A file has one video configuration and, as far as video goes, its sequence header in front:
\* DetectChange ends the file at the first other header, and a frame is never fixed before the
\* header it was sent under has been seen.
THEOREM FileHasOneConfig == FlvSpec => []OneConfigPerFile
<1>1. FlvInv => OneConfigPerFile
  <2>. SUFFICES ASSUME FlvInv, ~lostHeader, NEW video, video = {i \in DOMAIN file : file[i].tag.kind = "video"},
                       video # {}
                PROVE  /\ file[Min(video)].tag.header
                       /\ \A i \in video : file[i].tag.config = file[Min(video)].tag.config
    BY Zenon DEF OneConfigPerFile
  <2>1. Configured(file, seen.video) /\ file \in Seq(Entry)
    BY DEF FlvInv, FlvTypes
  <2>2. PICK m : m = Min(video)
    OBVIOUS
  <2>3. Len(file) \in Nat /\ video \subseteq 1..Len(file) /\ DOMAIN file = 1..Len(file)
    BY <2>1
  <2>4. m \in video /\ \A y \in video : m <= y
    BY <2>2, <2>3, LeastExists
  <2>5. \A i \in video : file[i].tag \in Tags(file) /\ file[i].tag.kind = "video"
    BY DEF Tags
  <2>6. \A i \in video : file[i].tag.config = seen.video
    BY <2>1, <2>5 DEF Configured
  <2>7. PICK j \in DOMAIN file : j <= m /\ IsVideoHeader(file[j].tag)
    BY <2>1, <2>4 DEF Configured, Headed
  <2>8. j \in video
    BY <2>7 DEF IsVideoHeader
  <2>9. j = m
    BY <2>3, <2>4, <2>7, <2>8
  <2>. QED BY <2>2, <2>4, <2>6, <2>7, <2>9 DEF IsVideoHeader
<1>. QED BY FlvInvariant, <1>1, PTL

\* The times that fixTimestamp gives the tags of a file begin at 0 and differ from tag to tag
\* by no more than the threshold, because a rotation resets the store of the fixer.
THEOREM TimestampsAreSmooth == FlvSpec => []SmoothTimestamps
<1>1. FlvInv => SmoothTimestamps
  <2>. SUFFICES ASSUME FlvInv, NEW fixed,
                       fixed = IF Len(file) > 0 THEN SubSeq(file, Len(Preamble(seeds)) + 1, Len(file)) ELSE <<>>
                PROVE  /\ fixed # <<>> => fixed[1].at = 0
                       /\ \A i \in 2..Len(fixed) : Abs(fixed[i].at - fixed[i - 1].at) <= JumpThreshold
    BY Zenon DEF SmoothTimestamps
  <2>1. TimedFile(written, file, seeds) /\ file \in Seq(Entry)
    BY DEF FlvInv, FlvTypes
  <2>2. CASE fixed = <<>>
    <3>1. 2..Len(fixed) = {}
      BY <2>2
    <3>2. \A i \in 2..Len(fixed) : Abs(fixed[i].at - fixed[i - 1].at) <= JumpThreshold
      BY <3>1, Zenon
    <3>. QED BY <2>2, <3>2, Zenon
  <2>3. CASE fixed # <<>>
    <3>1. fixed = FileBody(file, seeds) /\ file # <<>>
      BY <2>1, <2>3 DEF FileBody
    <3>2. Smooth(fixed)
      BY <2>1, <3>1 DEF TimedFile
    <3>. QED BY <3>2, Zenon DEF Smooth, Near
  <2>. QED BY <2>2, <2>3
<1>. QED BY FlvInvariant, <1>1, PTL

\* What the dedup cache makes Fix drop is in the file: the cache is emptied when a file ends.
THEOREM DuplicatesAreInFile == FlvSpec => []DroppedHasTwin
<1>1. FlvInv => DroppedHasTwin
  BY DEF FlvInv, CacheInFile, DroppedHasTwin, Signatures
<1>. QED BY FlvInvariant, <1>1, PTL

===============================================================================
