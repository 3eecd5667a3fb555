-------------------------- MODULE StreamWriterProofs --------------------------
(***************************************************************************)
(* The safety of the buffered stream writer, for every value of the        *)
(* constants.                                                              *)
(***************************************************************************)
EXTENDS StreamWriter, SequenceTheorems, WellFoundedInduction, TLAPS

(***************************************************************************)
(* Flat(cs), the bytes of the chunks cs one after the other.               *)
(***************************************************************************)
ByteSeq == Seq(Int)
Chunks == Seq(ByteSeq)

\* f[i] is the first i chunks of cs put together, for i up to n.
Folds(f, cs, n) == f = [i \in 0..n |-> IF i = 0 THEN <<>> ELSE f[i - 1] \o cs[i]]

\* The least number of a set that holds one.
LEMMA NatMinimum ==
  ASSUME NEW T, T \subseteq Nat, T # {}
  PROVE  \E m \in T : \A n \in T : m <= n
<1>1. PICK m \in T : \A n \in T : ~(<<n, m>> \in OpToRel(<, Nat))
  BY NatLessThanWellFounded, WFMin
<1>2. ASSUME NEW n \in T, n < m PROVE FALSE
  <2>1. n \in Nat /\ m \in Nat
    OBVIOUS
  <2>2. <<n, m>> \in OpToRel(<, Nat)
    BY <1>2, <2>1, Zenon DEF OpToRel
  <2> QED BY <1>1, <2>2
<1>3. \A n \in T : ~(n < m)
  BY <1>2
<1>4. \A n \in T : m <= n
  BY <1>3
<1> QED BY <1>4

LEMMA FoldExists ==
  ASSUME NEW cs \in Chunks, NEW n \in 0..Len(cs)
  PROVE  \E f : Folds(f, cs, n)
<1> DEFINE T == {k \in 0..Len(cs) : ~\E f : Folds(f, cs, k)}
<1>1. SUFFICES ASSUME T # {} PROVE FALSE
  OBVIOUS
<1>2. PICK m \in T : \A k \in T : m <= k
  <2>1. T \subseteq Nat
    OBVIOUS
  <2> HIDE DEF T
  <2> QED BY <1>1, <2>1, NatMinimum
<1>3. m # 0
  <2>1. \E f : Folds(f, cs, 0)
    <3> DEFINE e == [i \in 0..0 |-> <<>>]
    <3>1. e = [i \in 0..0 |-> IF i = 0 THEN <<>> ELSE e[i - 1] \o cs[i]]
      OBVIOUS
    <3> QED BY <3>1 DEF Folds
  <2> QED BY <2>1
<1>4. PICK f : Folds(f, cs, m - 1)
  BY <1>2, <1>3
<1> DEFINE g == [i \in 0..m |-> IF i = m THEN f[m - 1] \o cs[m] ELSE f[i]]
<1>5. m \in Nat
  OBVIOUS
<1>6. \A i \in 0..(m - 1) : f[i] = IF i = 0 THEN <<>> ELSE f[i - 1] \o cs[i]
  BY <1>4 DEF Folds
<1>7. ASSUME NEW i \in 0..m PROVE g[i] = IF i = 0 THEN <<>> ELSE g[i - 1] \o cs[i]
  <2>1. CASE i = m
    <3>1. m - 1 \in 0..m /\ m - 1 # m
      BY <1>3, <1>5
    <3>2. g[m - 1] = f[m - 1]
      BY <3>1
    <3> QED BY <1>3, <2>1, <3>2
  <2>2. CASE i # m
    <3>1. g[i] = f[i] /\ i \in 0..(m - 1)
      BY <1>5, <2>2
    <3>2. i # 0 => g[i - 1] = f[i - 1]
      BY <1>5, <2>2
    <3> QED BY <1>6, <3>1, <3>2
  <2> QED BY <2>1, <2>2
<1>8. g = [i \in 0..m |-> IF i = 0 THEN <<>> ELSE g[i - 1] \o cs[i]]
  <2>1. \A i \in 0..m : g[i] = [j \in 0..m |-> IF j = 0 THEN <<>> ELSE g[j - 1] \o cs[j]][i]
    BY <1>7
  <2> QED BY <2>1
<1>9. Folds(g, cs, m)
  BY <1>8 DEF Folds
<1> QED BY <1>9

\* What Flat is: the last value of such a function.
LEMMA FlatFold ==
  ASSUME NEW cs \in Chunks
  PROVE  \E f : Folds(f, cs, Len(cs)) /\ Flat(cs) = f[Len(cs)]
<1>1. \E f : Folds(f, cs, Len(cs))
  BY FoldExists, LenProperties DEF Chunks
<1> QED BY <1>1 DEF Flat, Folds

\* Two such functions are the same as far as their chunks are.
LEMMA FoldsAgree ==
  ASSUME NEW cs \in Chunks, NEW ds \in Chunks, NEW n \in 0..Len(cs), n <= Len(ds),
         \A i \in 1..n : cs[i] = ds[i],
         NEW f, Folds(f, cs, Len(cs)), NEW g, Folds(g, ds, Len(ds))
  PROVE  f[n] = g[n]
<1> DEFINE T == {k \in 0..n : f[k] # g[k]}
<1>1. SUFFICES ASSUME T # {} PROVE FALSE
  OBVIOUS
<1>2. PICK m \in T : \A k \in T : m <= k
  <2>1. T \subseteq Nat
    OBVIOUS
  <2> HIDE DEF T
  <2> QED BY <1>1, <2>1, NatMinimum
<1>3. m \in 0..Len(cs) /\ m \in 0..Len(ds) /\ m \in Nat /\ Len(cs) \in Nat /\ Len(ds) \in Nat
  BY LenProperties DEF Chunks
<1>4. f[m] = IF m = 0 THEN <<>> ELSE f[m - 1] \o cs[m]
  BY <1>3 DEF Folds
<1>5. g[m] = IF m = 0 THEN <<>> ELSE g[m - 1] \o ds[m]
  BY <1>3 DEF Folds
<1>6. m # 0 => f[m - 1] = g[m - 1]
  BY <1>2, <1>3
<1>7. m # 0 => cs[m] = ds[m]
  BY <1>3
<1> QED BY <1>4, <1>5, <1>6, <1>7

LEMMA FlatNone == Flat(<<>>) = <<>>
<1>1. <<>> \in Chunks /\ Len(<<>>) = 0
  BY DEF Chunks
<1>2. PICK f : Folds(f, <<>>, 0) /\ Flat(<<>>) = f[0]
  BY <1>1, FlatFold
<1> QED BY <1>2 DEF Folds

LEMMA FlatAppend ==
  ASSUME NEW cs \in Chunks, NEW c \in ByteSeq
  PROVE  Append(cs, c) \in Chunks /\ Flat(Append(cs, c)) = Flat(cs) \o c
<1>1. PICK ds : ds = Append(cs, c)
  OBVIOUS
<1>2. ds \in Chunks /\ Len(ds) = Len(cs) + 1 /\ ds[Len(ds)] = c /\ \A i \in 1..Len(cs) : ds[i] = cs[i]
  BY <1>1, AppendProperties DEF Chunks
<1>3. Len(cs) \in Nat
  BY LenProperties DEF Chunks
<1>4. PICK f : Folds(f, cs, Len(cs)) /\ Flat(cs) = f[Len(cs)]
  BY FlatFold
<1>5. PICK g : Folds(g, ds, Len(ds)) /\ Flat(ds) = g[Len(ds)]
  BY <1>2, FlatFold
<1>6. g[Len(ds)] = g[Len(cs)] \o c
  <2>1. Len(ds) \in 0..Len(ds) /\ Len(ds) # 0 /\ Len(ds) - 1 = Len(cs)
    BY <1>2, <1>3
  <2>2. g[Len(ds)] = g[Len(ds) - 1] \o ds[Len(ds)]
    BY <1>5, <2>1 DEF Folds
  <2> QED BY <1>2, <2>1, <2>2
<1>7. f[Len(cs)] = g[Len(cs)]
  BY <1>2, <1>3, <1>4, <1>5, FoldsAgree
<1> QED BY <1>1, <1>2, <1>4, <1>5, <1>6, <1>7

LEMMA FlatOne == ASSUME NEW c \in ByteSeq PROVE <<c>> \in Chunks /\ Flat(<<c>>) = c
<1>1. <<>> \in Chunks /\ Append(<<>>, c) = <<c>>
  BY DEF Chunks
<1>2. <<>> \o c = c
  BY DEF ByteSeq
<1> QED BY <1>1, <1>2, FlatAppend, FlatNone

LEMMA FoldIsBytes ==
  ASSUME NEW cs \in Chunks, NEW f, Folds(f, cs, Len(cs)), NEW n \in 0..Len(cs)
  PROVE  f[n] \in ByteSeq
<1> DEFINE T == {k \in 0..n : f[k] \notin ByteSeq}
<1>1. SUFFICES ASSUME T # {} PROVE FALSE
  OBVIOUS
<1>2. PICK m \in T : \A k \in T : m <= k
  <2>1. T \subseteq Nat
    OBVIOUS
  <2> HIDE DEF T
  <2> QED BY <1>1, <2>1, NatMinimum
<1>3. m \in 0..Len(cs) /\ Len(cs) \in Nat
  BY LenProperties DEF Chunks
<1>4. f[m] = IF m = 0 THEN <<>> ELSE f[m - 1] \o cs[m]
  BY <1>3 DEF Folds
<1>5. m # 0 => f[m - 1] \in ByteSeq /\ cs[m] \in ByteSeq
  BY <1>2, <1>3 DEF Chunks
<1>6. f[m] \in ByteSeq
  BY <1>4, <1>5, ConcatProperties DEF ByteSeq
<1> QED BY <1>6

LEMMA FlatIsBytes == ASSUME NEW cs \in Chunks PROVE Flat(cs) \in ByteSeq
<1>1. PICK f : Folds(f, cs, Len(cs)) /\ Flat(cs) = f[Len(cs)]
  BY FlatFold
<1> QED BY <1>1, FoldIsBytes, LenProperties DEF Chunks

LEMMA Associative ==
  ASSUME NEW a \in ByteSeq, NEW b \in ByteSeq, NEW c \in ByteSeq
  PROVE  (a \o b) \o c = a \o (b \o c)
<1>1. a \in Seq(Int) /\ b \in Seq(Int) /\ c \in Seq(Int)
  BY DEF ByteSeq
<1> QED BY <1>1, ConcatAssociative, SMTT(20)

LEMMA FlatHead ==
  ASSUME NEW cs \in Chunks, cs # <<>>
  PROVE  /\ Tail(cs) \in Chunks /\ Head(cs) \in ByteSeq
         /\ Flat(cs) = Head(cs) \o Flat(Tail(cs))
<1>1. PICK ds : ds = Tail(cs)
  OBVIOUS
<1>2. /\ ds \in Chunks /\ Head(cs) \in ByteSeq /\ Head(cs) = cs[1] /\ Len(ds) = Len(cs) - 1
      /\ Len(cs) \in Nat /\ Len(cs) # 0
      /\ \A i \in 1..Len(ds) : ds[i] = cs[i + 1]
  BY <1>1, HeadTailProperties, LenProperties, EmptySeq DEF Chunks
<1>3. Len(ds) \in Nat /\ Len(cs) = Len(ds) + 1
  <2>1. Len(cs) \in Nat /\ Len(ds) \in Nat
    BY <1>2, LenProperties DEF Chunks
  <2> QED BY <1>2, <2>1
<1>4. PICK f : Folds(f, cs, Len(cs)) /\ Flat(cs) = f[Len(cs)]
  BY FlatFold
<1>5. PICK g : Folds(g, ds, Len(ds)) /\ Flat(ds) = g[Len(ds)]
  BY <1>2, FlatFold
<1>6. \A k \in 0..Len(cs) : f[k] = IF k = 0 THEN <<>> ELSE f[k - 1] \o cs[k]
  BY <1>4 DEF Folds
<1>7. \A k \in 0..Len(ds) : g[k] = IF k = 0 THEN <<>> ELSE g[k - 1] \o ds[k]
  BY <1>5 DEF Folds
<1> DEFINE T == {k \in 0..Len(ds) : f[k + 1] # Head(cs) \o g[k]}
<1>8. ASSUME T # {} PROVE FALSE
  <2>1. PICK m \in T : \A k \in T : m <= k
    <3>0. 0..Len(ds) \subseteq Nat
      BY <1>3
    <3>1. T \subseteq Nat
      BY <3>0, Zenon
    <3> HIDE DEF T
    <3> QED BY <1>8, <3>1, NatMinimum
  <2>2. m \in 0..Len(ds) /\ m \in Nat /\ m + 1 \in 0..Len(cs) /\ m + 1 # 0 /\ (m + 1) - 1 = m
    BY <1>3
  <2>3. f[m + 1] = f[m] \o cs[m + 1]
    BY <1>6, <2>2
  <2>6. f[m + 1] # Head(cs) \o g[m]
    OBVIOUS
  <2>4. CASE m = 0
    <3>1. f[m] = <<>> /\ g[m] = <<>>
      BY <1>6, <1>7, <2>2, <2>4
    <3>2. <<>> \o cs[1] = cs[1] /\ cs[1] \o <<>> = cs[1]
      BY <1>2, ConcatEmptySeq DEF ByteSeq
    <3>3. cs[m + 1] = cs[1]
      BY <2>4
    <3>4. f[m + 1] = cs[1] /\ Head(cs) \o g[m] = cs[1]
      BY <1>2, <2>3, <3>1, <3>2, <3>3
    <3> QED BY <2>6, <3>4
  <2>5. CASE m # 0
    <3>1. m - 1 \in 0..Len(ds) /\ ~(m <= m - 1) /\ (m - 1) + 1 = m
      BY <2>2, <2>5
    <3>2. f[m] = Head(cs) \o g[m - 1]
      BY <2>1, <3>1
    <3>3. cs[m + 1] = ds[m] /\ ds[m] \in ByteSeq
      BY <1>2, <2>2, <2>5 DEF Chunks
    <3>4. g[m - 1] \in ByteSeq
      BY <1>2, <1>5, <3>1, FoldIsBytes
    <3>5. g[m] = g[m - 1] \o ds[m]
      BY <1>7, <2>2, <2>5
    <3>6. (Head(cs) \o g[m - 1]) \o ds[m] = Head(cs) \o (g[m - 1] \o ds[m])
      BY <1>2, <3>3, <3>4, Associative, Zenon
    <3> QED BY <2>3, <2>6, <3>2, <3>3, <3>5, <3>6
  <2> QED BY <2>4, <2>5
<1>10. Len(ds) \in 0..Len(ds) /\ Len(ds) \notin T
  <2>1. Len(ds) \in 0..Len(ds)
    BY <1>3
  <2> QED BY <1>8, <2>1, Zenon
<1>9. f[Len(ds) + 1] = Head(cs) \o g[Len(ds)]
  BY <1>10
<1> QED BY <1>1, <1>2, <1>3, <1>4, <1>5, <1>9

LEMMA BytesAre ==
  ASSUME NEW first \in Int, NEW n \in Nat
  PROVE  /\ Bytes(first, n) \in ByteSeq /\ Len(Bytes(first, n)) = n
         /\ \A i \in 1..n : Bytes(first, n)[i] = first + i - 1
BY DEF Bytes, ByteSeq

\* What is dropped and what is left.
LEMMA Parts ==
  ASSUME NEW s \in ByteSeq, NEW n \in 0..Len(s)
  PROVE  /\ SubSeq(s, 1, n) \in ByteSeq /\ Len(SubSeq(s, 1, n)) = n
         /\ Drop(s, n) \in ByteSeq /\ Len(Drop(s, n)) = Len(s) - n
         /\ SubSeq(s, 1, n) \o Drop(s, n) = s
<1>1. Len(s) \in Nat /\ n \in Nat /\ \A i \in 1..Len(s) : s[i] \in Int
  BY LenProperties DEF ByteSeq
<1>2. /\ SubSeq(s, 1, n) \in ByteSeq /\ Len(SubSeq(s, 1, n)) = n
      /\ \A i \in 1..n : SubSeq(s, 1, n)[i] = s[i]
  BY <1>1, SubSeqProperties DEF ByteSeq
<1>3. /\ Drop(s, n) \in ByteSeq /\ Len(Drop(s, n)) = Len(s) - n
      /\ \A i \in 1..(Len(s) - n) : Drop(s, n)[i] = s[n + i]
  BY <1>1, SubSeqProperties DEF ByteSeq, Drop
<1>4. SubSeq(s, 1, n) \o Drop(s, n) = s
  <2> DEFINE a == SubSeq(s, 1, n)
             b == Drop(s, n)
  <2>1. a \o b \in ByteSeq /\ Len(a \o b) = Len(s)
        /\ \A i \in 1..Len(s) : (a \o b)[i] = IF i <= n THEN a[i] ELSE b[i - n]
    <3>1. a \in ByteSeq /\ b \in ByteSeq /\ Len(a) = n /\ Len(b) = Len(s) - n
      BY <1>2, <1>3
    <3> HIDE DEF a, b
    <3>2. a \o b \in ByteSeq /\ Len(a \o b) = Len(a) + Len(b)
          /\ \A i \in 1..(Len(a) + Len(b)) : (a \o b)[i] = IF i <= Len(a) THEN a[i] ELSE b[i - Len(a)]
      BY <3>1, ConcatProperties DEF ByteSeq
    <3> QED BY <1>1, <3>1, <3>2
  <2>2. \A i \in 1..Len(s) : (a \o b)[i] = s[i]
    BY <1>1, <1>2, <1>3, <2>1
  <2> QED BY <2>1, <2>2, SeqEqual DEF ByteSeq
<1> QED BY <1>2, <1>3, <1>4

LEMMA Puts ==
  ASSUME NEW a \in ByteSeq, NEW b \in ByteSeq
  PROVE  a \o b \in ByteSeq /\ Len(a \o b) = Len(a) + Len(b) /\ Len(a) \in Nat /\ Len(b) \in Nat
         /\ \A i \in 1..(Len(a) + Len(b)) : (a \o b)[i] = IF i <= Len(a) THEN a[i] ELSE b[i - Len(a)]
BY ConcatProperties, LenProperties DEF ByteSeq

LEMMA Nothing == ASSUME NEW a \in ByteSeq PROVE a \o <<>> = a /\ <<>> \o a = a /\ <<>> \in ByteSeq
BY ConcatEmptySeq, EmptySeq DEF ByteSeq

\* What is dropped from a concatenation after its first part has begun.
LEMMA DropFront ==
  ASSUME NEW a \in ByteSeq, NEW b \in ByteSeq, NEW n \in 0..Len(a)
  PROVE  Drop(a \o b, n) = Drop(a, n) \o b
<1> DEFINE s == Drop(a \o b, n)
           t == Drop(a, n) \o b
<1>0. Len(a) \in Nat /\ Len(b) \in Nat /\ n \in Nat /\ n <= Len(a)
  BY Puts
<1>1. Drop(a, n) \in ByteSeq /\ Len(Drop(a, n)) = Len(a) - n
      /\ \A i \in 1..(Len(a) - n) : Drop(a, n)[i] = a[n + i]
  <2>1. PICK k \in Int : k = Len(a)
    BY <1>0
  <2>2. n + 1 \in Int /\ \A i \in (n + 1)..k : a[i] \in Int
    BY <1>0, <2>1 DEF ByteSeq
  <2>3. /\ SubSeq(a, n + 1, k) \in Seq(Int)
        /\ Len(SubSeq(a, n + 1, k)) = IF n + 1 <= k THEN k - (n + 1) + 1 ELSE 0
        /\ \A i \in 1..(k - (n + 1) + 1) : SubSeq(a, n + 1, k)[i] = a[(n + 1) + i - 1]
    BY <2>2, SubSeqProperties
  <2>4. Drop(a, n) = SubSeq(a, n + 1, k)
    BY <2>1 DEF Drop
  <2>5. Len(Drop(a, n)) = Len(a) - n
    BY <1>0, <2>1, <2>3, <2>4
  <2>6. ASSUME NEW i \in 1..(Len(a) - n) PROVE Drop(a, n)[i] = a[n + i]
    <3>1. i \in 1..(k - (n + 1) + 1) /\ (n + 1) + i - 1 = n + i
      BY <1>0, <2>1
    <3> QED BY <2>3, <2>4, <3>1
  <2> QED BY <2>3, <2>4, <2>5, <2>6 DEF ByteSeq
<1>2. PICK ab : ab = a \o b
  OBVIOUS
<1>3. ab \in ByteSeq /\ Len(ab) = Len(a) + Len(b)
      /\ \A i \in 1..(Len(a) + Len(b)) : ab[i] = IF i <= Len(a) THEN a[i] ELSE b[i - Len(a)]
  BY <1>2, Puts
<1>4. Drop(ab, n) \in ByteSeq /\ Len(Drop(ab, n)) = Len(a) + Len(b) - n
      /\ \A i \in 1..(Len(a) + Len(b) - n) : Drop(ab, n)[i] = ab[n + i]
  <2>1. \A i \in 1..Len(ab) : ab[i] \in Int
    BY <1>3, LenProperties DEF ByteSeq
  <2> QED BY <1>0, <1>3, <2>1, SubSeqProperties DEF ByteSeq, Drop
<1>5. t \in ByteSeq /\ Len(t) = Len(a) - n + Len(b)
      /\ \A i \in 1..(Len(a) - n + Len(b)) : t[i] = IF i <= Len(a) - n THEN Drop(a, n)[i] ELSE b[i - (Len(a) - n)]
  <2>1. PICK d : d = Drop(a, n)
    OBVIOUS
  <2>2. d \in ByteSeq /\ Len(d) = Len(a) - n
    BY <1>1, <2>1
  <2>3. d \o b \in ByteSeq /\ Len(d \o b) = Len(d) + Len(b)
        /\ \A i \in 1..(Len(d) + Len(b)) : (d \o b)[i] = IF i <= Len(d) THEN d[i] ELSE b[i - Len(d)]
    BY <2>2, Puts
  <2> QED BY <2>1, <2>2, <2>3
<1>6. ASSUME NEW i \in 1..(Len(a) + Len(b) - n) PROVE Drop(ab, n)[i] = t[i]
  <2>1. i \in Nat /\ n + i \in 1..(Len(a) + Len(b)) /\ i \in 1..(Len(a) - n + Len(b))
    BY <1>0
  <2>2. Drop(ab, n)[i] = ab[n + i]
    BY <1>4
  <2>3. CASE i <= Len(a) - n
    <3>1. i \in 1..(Len(a) - n) /\ n + i <= Len(a)
      BY <1>0, <2>1, <2>3
    <3>2. t[i] = Drop(a, n)[i] /\ Drop(a, n)[i] = a[n + i]
      BY <1>1, <1>5, <2>1, <2>3, <3>1
    <3>3. ab[n + i] = a[n + i]
      BY <1>3, <2>1, <3>1
    <3> QED BY <2>2, <3>2, <3>3
  <2>4. CASE ~(i <= Len(a) - n)
    <3>1. ~(n + i <= Len(a)) /\ n + i - Len(a) = i - (Len(a) - n)
      BY <1>0, <2>1, <2>4
    <3>2. t[i] = b[i - (Len(a) - n)]
      BY <1>5, <2>1, <2>4
    <3>3. ab[n + i] = b[n + i - Len(a)]
      BY <1>3, <2>1, <3>1
    <3> QED BY <2>2, <3>1, <3>2, <3>3, Zenon
  <2> QED BY <2>3, <2>4
<1>7. Len(Drop(ab, n)) = Len(t) /\ \A i \in 1..Len(Drop(ab, n)) : Drop(ab, n)[i] = t[i]
  BY <1>0, <1>4, <1>5, <1>6
<1>8. Drop(ab, n) = t
  <2> HIDE DEF t
  <2> QED BY <1>4, <1>5, <1>7, SeqEqual DEF ByteSeq
<1> QED BY <1>2, <1>8

(***************************************************************************)
(* Bytes in the order of the stream, all of them below b.                  *)
(***************************************************************************)
Ascends(s, b) ==
    /\ s \in ByteSeq
    /\ \A i, j \in 1..Len(s) : i < j => s[i] < s[j]
    /\ \A i \in 1..Len(s) : s[i] < b

LEMMA AscendsIncreasing == ASSUME NEW s, NEW b, Ascends(s, b) PROVE Increasing(s)
<1>1. Len(s) \in Nat
  BY LenProperties DEF Ascends, ByteSeq
<1>2. \A i \in 1..(Len(s) - 1) : i \in 1..Len(s) /\ i + 1 \in 1..Len(s) /\ i < i + 1
  BY <1>1
<1> QED BY <1>2 DEF Ascends, Increasing

LEMMA AscendsMore ==
  ASSUME NEW s, NEW b \in Int, NEW n \in Nat, Ascends(s, b)
  PROVE  Ascends(s \o Bytes(b, n), b + n)
<1>1. s \in ByteSeq /\ Len(s) \in Nat /\ \A i \in 1..Len(s) : s[i] \in Int
  BY LenProperties DEF Ascends, ByteSeq
<1>2. PICK t : t = Bytes(b, n)
  OBVIOUS
<1>3. t \in ByteSeq /\ Len(t) = n /\ \A i \in 1..n : t[i] = b + i - 1
  BY <1>2, BytesAre
<1>4. PICK u : u = s \o t
  OBVIOUS
<1>5. u \in ByteSeq /\ Len(u) = Len(s) + n
      /\ \A i \in 1..(Len(s) + n) : u[i] = IF i <= Len(s) THEN s[i] ELSE t[i - Len(s)]
  BY <1>1, <1>3, <1>4, Puts
<1>6. \A i \in 1..(Len(s) + n) : IF i <= Len(s) THEN i \in 1..Len(s) /\ u[i] = s[i]
                                 ELSE u[i] = b + (i - Len(s)) - 1
  <2>1. ASSUME NEW i \in 1..(Len(s) + n), ~(i <= Len(s)) PROVE u[i] = b + (i - Len(s)) - 1
    <3>1. i - Len(s) \in 1..n
      BY <1>1, <2>1
    <3> QED BY <1>3, <1>5, <2>1, <3>1
  <2>2. ASSUME NEW i \in 1..(Len(s) + n), i <= Len(s) PROVE i \in 1..Len(s) /\ u[i] = s[i]
    BY <1>1, <1>5, <2>2
  <2> QED BY <2>1, <2>2
<1>7. \A i \in 1..(Len(s) + n) : u[i] < b + n
  BY <1>1, <1>6 DEF Ascends
<1>8. \A i, j \in 1..(Len(s) + n) : i < j => u[i] < u[j]
  BY <1>1, <1>6 DEF Ascends
<1> QED BY <1>2, <1>4, <1>5, <1>7, <1>8 DEF Ascends

LEMMA AscendsLess ==
  ASSUME NEW a \in ByteSeq, NEW m \in ByteSeq, NEW c \in ByteSeq, NEW b, Ascends(a \o (m \o c), b)
  PROVE  Ascends(a \o c, b)
<1>1. PICK u : u = m \o c
  OBVIOUS
<1>2. PICK s : s = a \o u
  OBVIOUS
<1>3. PICK t : t = a \o c
  OBVIOUS
<1>4. /\ Len(a) \in Nat /\ Len(m) \in Nat /\ Len(c) \in Nat
      /\ u \in ByteSeq /\ Len(u) = Len(m) + Len(c)
      /\ \A i \in 1..(Len(m) + Len(c)) : u[i] = IF i <= Len(m) THEN m[i] ELSE c[i - Len(m)]
  BY <1>1, Puts
<1>5. /\ s \in ByteSeq /\ Len(s) = Len(a) + Len(u)
      /\ \A i \in 1..(Len(a) + Len(u)) : s[i] = IF i <= Len(a) THEN a[i] ELSE u[i - Len(a)]
  BY <1>2, <1>4, Puts
<1>6. /\ t \in ByteSeq /\ Len(t) = Len(a) + Len(c)
      /\ \A i \in 1..(Len(a) + Len(c)) : t[i] = IF i <= Len(a) THEN a[i] ELSE c[i - Len(a)]
  BY <1>3, Puts
<1> DEFINE at(i) == IF i <= Len(a) THEN i ELSE i + Len(m)
<1>7. ASSUME NEW i \in 1..Len(t) PROVE at(i) \in 1..Len(s) /\ t[i] = s[at(i)]
  <2>1. i \in Nat /\ i \in 1..(Len(a) + Len(c))
    BY <1>4, <1>6
  <2>2. CASE i <= Len(a)
    BY <1>4, <1>5, <1>6, <2>1, <2>2
  <2>3. CASE ~(i <= Len(a))
    <3>1. /\ i + Len(m) \in 1..(Len(a) + Len(u)) /\ ~(i + Len(m) <= Len(a))
          /\ i + Len(m) - Len(a) \in 1..(Len(m) + Len(c)) /\ ~(i + Len(m) - Len(a) <= Len(m))
          /\ (i + Len(m) - Len(a)) - Len(m) = i - Len(a)
      BY <1>4, <2>1, <2>3
    <3>2. s[i + Len(m)] = u[i + Len(m) - Len(a)]
      BY <1>5, <3>1
    <3>3. u[i + Len(m) - Len(a)] = c[i - Len(a)]
      BY <1>4, <3>1
    <3>4. t[i] = c[i - Len(a)]
      BY <1>6, <2>1, <2>3
    <3> QED BY <1>4, <1>5, <2>3, <3>1, <3>2, <3>3, <3>4
  <2> QED BY <2>2, <2>3
<1>8. \A i, j \in 1..Len(t) : i < j => at(i) < at(j)
  BY <1>4, <1>6
<1>9. Ascends(s, b)
  BY <1>1, <1>2
<1>10. \A i, j \in 1..Len(t) : i < j => t[i] < t[j]
  <2> HIDE DEF at
  <2> QED BY <1>7, <1>8, <1>9 DEF Ascends
<1>11. \A i \in 1..Len(t) : t[i] < b
  <2> HIDE DEF at
  <2> QED BY <1>7, <1>9 DEF Ascends
<1> QED BY <1>3, <1>6, <1>10, <1>11 DEF Ascends

\* The stream goes on where it was.
LEMMA BytesGoOn ==
  ASSUME NEW k \in Nat, NEW n \in Nat
  PROVE  Bytes(1, k) \o Bytes(k + 1, n) = Bytes(1, k + n)
<1> DEFINE s == Bytes(1, k)
           t == Bytes(k + 1, n)
           u == Bytes(1, k + n)
<1>1. k + 1 \in Int /\ k + n \in Nat /\ 1 \in Int
  OBVIOUS
<1>2. s \in ByteSeq /\ Len(s) = k /\ \A i \in 1..k : s[i] = 1 + i - 1
  BY <1>1, BytesAre, Zenon
<1>3. t \in ByteSeq /\ Len(t) = n /\ \A i \in 1..n : t[i] = (k + 1) + i - 1
  BY <1>1, BytesAre, Zenon
<1>4. u \in ByteSeq /\ Len(u) = k + n /\ \A i \in 1..(k + n) : u[i] = 1 + i - 1
  BY <1>1, BytesAre, Zenon
<1> HIDE DEF s, t, u
<1>5. s \o t \in ByteSeq /\ Len(s \o t) = k + n
      /\ \A i \in 1..(k + n) : (s \o t)[i] = IF i <= k THEN s[i] ELSE t[i - k]
  BY <1>2, <1>3, Puts
<1>6. \A i \in 1..(k + n) : (s \o t)[i] = u[i]
  BY <1>2, <1>3, <1>4, <1>5
<1>7. s \o t = u
  BY <1>4, <1>5, <1>6, SeqEqual DEF ByteSeq
<1> QED BY <1>7 DEF s, t, u

(***************************************************************************)
(* Where the goroutines are and what they hold there.                      *)
(***************************************************************************)
Writing == owner \in {"write", "wrote"} \/ (owner \in {"flush", "flushing"} /\ back = "write")

WriterTypes ==
    /\ next \in Nat \ {0} /\ accepted \in Nat /\ taken \in Nat /\ bytesWritten \in Nat
    /\ dataCh \in Chunks /\ pending \in Chunks /\ chunks \in Chunks
    /\ disk \in ByteSeq /\ buf \in ByteSeq

\* The writer has chunks in hand only while it writes them.
InHand ==
    /\ Writing => chunks # <<>> /\ taken <= Len(Head(chunks))
    /\ ~Writing => chunks = <<>> /\ taken = 0

Stages ==
    /\ owner \in {"select", "write", "wrote", "flush", "flushing", "done", "sync", "close", "closed"}
    /\ caller \in {"record", "closing", "final", "closed"} /\ file \in {"none", "open", "closed"}
    /\ (caller = "closed" <=> owner = "closed")
    /\ owner \in {"sync", "close"} => caller = "final"
    /\ owner \in {"select", "done"} => caller \in {"record", "closing"}
    /\ owner = "done" => caller = "closing" /\ dataCh = <<>>
    /\ owner \in {"flush", "flushing"} => \/ back = "write"
                                           \/ (back = "select" /\ caller \in {"record", "closing"})
                                           \/ (back = "sync" /\ caller = "final")
    /\ caller \in {"final", "closed"} => dataCh = <<>> /\ pending = <<>>
    /\ file = "none" => disk = <<>> /\ buf = <<>> /\ owner \in {"select", "done", "close", "closed"}
    /\ file # "none" => pending = <<>>
    /\ file = "none" => Threshold > 0

\* What is in the file and in the buffer is what the writer counts, with the
\* bytes Write has taken of the chunk in hand; the I/O worker's reading of
\* the counter is at most the counter.
Counted ==
    /\ Len(disk) + Len(buf) = bytesWritten + taken
    /\ released \in Int
    /\ io = "plan" => ioBytes \in Int /\ ioBytes <= bytesWritten
    /\ ReleaseBehindDisk

HoldsInv == WriterTypes /\ InHand /\ Stages /\ Counted

LEMMA HoldsStarts == ASSUME Init PROVE HoldsInv
<1>1. <<>> \in Chunks /\ <<>> \in ByteSeq /\ Len(<<>>) = 0
  BY EmptySeq DEF Chunks, ByteSeq
<1>2. WriterTypes /\ InHand /\ Stages
  BY <1>1 DEF Init, WriterTypes, InHand, Writing, Stages, Deferred
<1>3. Counted
  BY <1>1 DEF Init, Counted, ReleaseBehindDisk
<1> QED BY <1>2, <1>3 DEF HoldsInv

\* The chunk in hand.
LEMMA ChunkInHand ==
  ASSUME HoldsInv, Writing
  PROVE  /\ Head(chunks) \in ByteSeq /\ Tail(chunks) \in Chunks /\ taken \in 0..Len(Head(chunks))
         /\ Rest \in ByteSeq /\ Len(Rest) = Len(Head(chunks)) - taken /\ Len(Head(chunks)) \in Nat
         /\ Len(chunks) \in Nat \ {0} /\ Len(Tail(chunks)) = Len(chunks) - 1
<1>1. chunks \in Chunks /\ chunks # <<>> /\ taken \in Nat /\ taken <= Len(Head(chunks))
  BY DEF HoldsInv, WriterTypes, InHand
<1>2. Head(chunks) \in ByteSeq /\ Tail(chunks) \in Chunks
  BY <1>1, FlatHead
<1>3. Len(chunks) \in Nat \ {0} /\ Len(Tail(chunks)) = Len(chunks) - 1
  BY <1>1, EmptySeq, HeadTailProperties DEF Chunks
<1>4. Len(Head(chunks)) \in Nat
  BY <1>2, LenProperties DEF ByteSeq
<1>5. taken \in 0..Len(Head(chunks))
  BY <1>1, <1>4
<1>6. Rest \in ByteSeq /\ Len(Rest) = Len(Head(chunks)) - taken
  BY <1>2, <1>5, Parts DEF Rest
<1> QED BY <1>2, <1>3, <1>4, <1>5, <1>6

LEMMA Emptied == ASSUME NEW s \in ByteSeq, Len(s) = 0 PROVE s = <<>>
BY EmptySeq DEF ByteSeq

\* A write of the first n bytes of the rest of the chunk in hand.
LEMMA WriteHolds ==
  ASSUME HoldsInv, \/ WriteFull \/ WriteCopy \/ WriteReturns \/ Account \/ \E n \in 0..MaxBytes : WriteDirect(n)
  PROVE  HoldsInv'
<1> USE DEF stream, worker
<1>0. Writing /\ owner \in {"write", "wrote"}
  BY DEF WriteFull, WriteCopy, WriteReturns, Account, WriteDirect, Writing
<1>1. /\ Head(chunks) \in ByteSeq /\ Tail(chunks) \in Chunks /\ taken \in 0..Len(Head(chunks))
      /\ Rest \in ByteSeq /\ Len(Rest) = Len(Head(chunks)) - taken /\ Len(Head(chunks)) \in Nat
      /\ Len(chunks) \in Nat \ {0} /\ Len(Tail(chunks)) = Len(chunks) - 1
  BY <1>0, ChunkInHand
<1>2. Len(buf) \in Nat /\ Len(disk) \in Nat /\ buf \in ByteSeq /\ disk \in ByteSeq
  BY LenProperties DEF HoldsInv, WriterTypes, ByteSeq
<1>3. CASE WriteFull \/ WriteReturns
  <2>1. /\ UNCHANGED <<stream, dataCh, caller, pending, file, writer, lock, worker, failed>>
        /\ \/ owner' = "flush" /\ back' = "write"
           \/ owner' = "wrote"
    BY <1>3 DEF WriteFull, WriteReturns
  <2>2. file # "none" /\ Writing'
    BY <1>0, <2>1 DEF HoldsInv, Stages, Writing
  <2>3. caller # "closed"
    BY <1>0 DEF HoldsInv, Stages
  <2>4. WriterTypes' /\ InHand' /\ Counted'
    BY <1>0, <2>1, <2>2 DEF HoldsInv, WriterTypes, InHand, Counted, ReleaseBehindDisk, writer
  <2>6. disk' = disk /\ buf' = buf
    BY <2>1 DEF writer
  <2>5. Stages'
    <3>1. CASE owner' = "flush" /\ back' = "write"
      BY <1>0, <2>1, <2>2, <2>3, <2>6, <3>1 DEF HoldsInv, Stages
    <3>2. CASE owner' = "wrote"
      BY <1>0, <2>1, <2>2, <2>3, <2>6, <3>2 DEF HoldsInv, Stages
    <3> QED BY <2>1, <3>1, <3>2
  <2> QED BY <2>4, <2>5 DEF HoldsInv
<1>4. ASSUME NEW n \in 0..Len(Rest), taken' = taken + n,
             UNCHANGED <<stream, dataCh, caller, pending, file, chunks, bytesWritten, back, lock, worker>>,
             \/ disk' = disk /\ buf' = buf \o SubSeq(Rest, 1, n)
             \/ disk' = disk \o SubSeq(Rest, 1, n) /\ buf' = buf,
             owner' \in {"write", "wrote"}
      PROVE  HoldsInv'
  <2>1. n \in Nat /\ n <= Len(Rest) /\ SubSeq(Rest, 1, n) \in ByteSeq /\ Len(SubSeq(Rest, 1, n)) = n
    BY <1>1, <1>4, Parts
  <2>2. disk' \in ByteSeq /\ buf' \in ByteSeq /\ Len(disk') + Len(buf') = Len(disk) + Len(buf) + n
        /\ Len(disk) <= Len(disk')
    <3>1. PICK x : x = SubSeq(Rest, 1, n)
      OBVIOUS
    <3>4. x \in ByteSeq /\ Len(x) = n
      BY <2>1, <3>1
    <3>2. CASE disk' = disk /\ buf' = buf \o x
      <4>1. buf \o x \in ByteSeq /\ Len(buf \o x) = Len(buf) + n
        <5>1. buf \in ByteSeq
          BY <1>2
        <5>2. buf \o x \in ByteSeq /\ Len(buf \o x) = Len(buf) + Len(x)
          BY <3>4, <5>1, Puts
        <5> QED BY <3>4, <5>2
      <4> QED BY <1>2, <2>1, <3>2, <4>1
    <3>3. CASE disk' = disk \o x /\ buf' = buf
      <4>1. disk \o x \in ByteSeq /\ Len(disk \o x) = Len(disk) + n
        <5>1. disk \in ByteSeq
          BY <1>2
        <5>2. disk \o x \in ByteSeq /\ Len(disk \o x) = Len(disk) + Len(x)
          BY <3>4, <5>1, Puts
        <5> QED BY <3>4, <5>2
      <4> QED BY <1>2, <2>1, <3>3, <4>1
    <3> QED BY <1>4, <3>1, <3>2, <3>3
  <2>3. Len(disk') \in Nat /\ Len(buf') \in Nat
    BY <2>2, LenProperties DEF ByteSeq
  <2>4. WriterTypes'
    BY <1>4, <2>1, <2>2 DEF HoldsInv, WriterTypes
  <2>5. Writing' /\ taken' <= Len(Head(chunks)) /\ chunks # <<>>
    BY <1>0, <1>1, <1>4, <2>1 DEF Writing, HoldsInv, InHand
  <2>6. InHand'
    BY <1>4, <2>5 DEF InHand
  <2>7. file # "none" /\ caller # "closed"
    BY <1>0 DEF HoldsInv, Stages
  <2>8. Stages'
    BY <1>0, <1>4, <2>7 DEF HoldsInv, Stages
  <2>9. Counted'
    <3>1. Len(disk') + Len(buf') = bytesWritten' + taken'
      <4>1. Len(disk) + Len(buf) = bytesWritten + taken /\ bytesWritten \in Nat /\ taken \in Nat
        BY DEF HoldsInv, WriterTypes, Counted
      <4>2. \A a, b, c, t, m, u, v \in Nat : a + b = c + t /\ u + v = a + b + m => u + v = c + (t + m)
        OBVIOUS
      <4>3. Len(disk') + Len(buf') = bytesWritten + (taken + n)
        BY <1>2, <2>1, <2>2, <2>3, <4>1, <4>2
      <4> QED BY <1>4, <4>3
    <3>2. released + HotWindow <= Len(disk) => released + HotWindow <= Len(disk')
      BY <1>2, <2>2, <2>3, WriterAssumption DEF HoldsInv, Counted
    <3> QED BY <1>4, <3>1, <3>2 DEF HoldsInv, Counted, ReleaseBehindDisk
  <2> QED BY <2>4, <2>6, <2>8, <2>9 DEF HoldsInv
<1>5. CASE WriteCopy
  <2>1. PICK n : n = IF Len(Rest) < BufferSize - Len(buf) THEN Len(Rest) ELSE BufferSize - Len(buf)
    OBVIOUS
  <2>2. n \in 0..Len(Rest)
    BY <1>1, <1>2, <1>5, <2>1, WriterAssumption DEF WriteCopy
  <2> QED BY <1>4, <1>5, <2>1, <2>2 DEF WriteCopy
<1>6. ASSUME NEW n \in 0..MaxBytes, WriteDirect(n) PROVE HoldsInv'
  <2>1. n \in 0..Len(Rest)
    BY <1>1, <1>6 DEF WriteDirect
  <2> QED BY <1>4, <1>6, <2>1 DEF WriteDirect
<1>7. CASE Account
  <2>1. /\ UNCHANGED <<stream, dataCh, caller, pending, file, disk, buf, lock, worker, failed>>
        /\ bytesWritten' = bytesWritten + taken /\ taken' = 0 /\ chunks' = Tail(chunks)
    BY <1>7 DEF Account
  <2>2. \/ Len(chunks) > 1 /\ owner' = "write" /\ back' = back
        \/ Len(chunks) = 1 /\ caller # "final" /\ owner' = "select" /\ back' = back
        \/ Len(chunks) = 1 /\ caller = "final" /\ owner' = "flush" /\ back' = "sync"
    BY <1>7 DEF Account
  <2>3. bytesWritten \in Nat /\ taken \in Nat
    BY DEF HoldsInv, WriterTypes
  <2>4. WriterTypes'
    BY <1>1, <2>1, <2>3 DEF HoldsInv, WriterTypes
  <2>5. InHand'
    <3>1. CASE Len(chunks) > 1
      <4>1. Len(Tail(chunks)) # 0 /\ Tail(chunks) # <<>>
        BY <1>1, <3>1
      <4>2. Head(Tail(chunks)) \in ByteSeq
        BY <1>1, <4>1, FlatHead
      <4>3. 0 <= Len(Head(Tail(chunks)))
        BY <4>2, LenProperties DEF ByteSeq
      <4>4. Writing'
        BY <1>1, <2>2, <3>1 DEF Writing
      <4> QED BY <2>1, <4>1, <4>3, <4>4 DEF InHand
    <3>2. CASE Len(chunks) = 1
      <4>1. Tail(chunks) = <<>>
        <5>1. Len(Tail(chunks)) = 0
          BY <1>1, <3>2
        <5> QED BY <1>1, <5>1, EmptySeq DEF Chunks
      <4>2. ~Writing'
        BY <2>2, <3>2 DEF Writing
      <4> QED BY <2>1, <4>1, <4>2 DEF InHand
    <3> QED BY <2>2, <3>1, <3>2
  <2>6. file # "none" /\ caller # "closed"
    BY <1>0 DEF HoldsInv, Stages
  <2>7. Stages'
    BY <1>0, <2>1, <2>2, <2>6 DEF HoldsInv, Stages
  <2>8. Counted'
    BY <2>1, <2>3 DEF HoldsInv, Counted, ReleaseBehindDisk
  <2> QED BY <2>4, <2>5, <2>7, <2>8 DEF HoldsInv
<1> QED BY <1>3, <1>5, <1>6, <1>7

\* Steps that move nothing between the parts of the writer.
LEMMA StayHolds ==
  ASSUME HoldsInv, UNCHANGED <<accepted, dataCh, pending, file, writer, worker>>, next' \in Nat \ {0}, Stages',
         chunks = <<>>, taken = 0, ~Writing'
  PROVE  HoldsInv'
<1>1. UNCHANGED <<disk, buf, chunks, taken, bytesWritten, io, ioBytes, released>>
  BY DEF writer, worker
<1>2. WriterTypes' /\ InHand' /\ Counted'
  BY <1>1 DEF HoldsInv, WriterTypes, InHand, Counted, ReleaseBehindDisk
<1> QED BY <1>2 DEF HoldsInv

LEMMA CaptureHolds == ASSUME HoldsInv, Capture PROVE HoldsInv'
<1> USE DEF stream, writer, worker
<1>1. CASE CloseChannels
  <2>1. Writing' = Writing
    BY <1>1 DEF CloseChannels, Writing
  <2>2. WriterTypes' /\ InHand' /\ Counted'
    BY <1>1, <2>1 DEF CloseChannels, HoldsInv, WriterTypes, InHand, Counted, ReleaseBehindDisk
  <2>3. Stages'
    BY <1>1 DEF CloseChannels, HoldsInv, Stages
  <2> QED BY <2>2, <2>3 DEF HoldsInv
<1>2. ASSUME NEW n \in ChunkSizes, ProcessTimeout(n) PROVE HoldsInv'
  <2>1. Writing' = Writing
    BY <1>2 DEF ProcessTimeout, Writing
  <2>2. next' \in Nat \ {0}
    BY <1>2, WriterAssumption DEF ProcessTimeout, HoldsInv, WriterTypes
  <2>3. WriterTypes' /\ InHand' /\ Counted'
    BY <1>2, <2>1, <2>2 DEF ProcessTimeout, HoldsInv, WriterTypes, InHand, Counted, ReleaseBehindDisk
  <2>4. Stages'
    BY <1>2 DEF ProcessTimeout, HoldsInv, Stages
  <2> QED BY <2>3, <2>4 DEF HoldsInv
<1>3. ASSUME NEW n \in ChunkSizes, Process(n) PROVE HoldsInv'
  <2>1. Writing' = Writing
    BY <1>3 DEF Process, Writing
  <2>2. next' \in Nat \ {0} /\ accepted' \in Nat
    BY <1>3, WriterAssumption DEF Process, HoldsInv, WriterTypes
  <2>3. dataCh' \in Chunks
    <3>1. Bytes(next, n) \in ByteSeq
      BY BytesAre, WriterAssumption DEF HoldsInv, WriterTypes
    <3> QED BY <1>3, <3>1, FlatAppend DEF Process, HoldsInv, WriterTypes
  <2>4. WriterTypes' /\ InHand' /\ Counted'
    BY <1>3, <2>1, <2>2, <2>3 DEF Process, HoldsInv, WriterTypes, InHand, Counted, ReleaseBehindDisk
  <2>5. Stages'
    BY <1>3 DEF Process, HoldsInv, Stages
  <2> QED BY <2>4, <2>5 DEF HoldsInv
<1> QED BY <1>1, <1>2, <1>3 DEF Capture

\* A chunk of the channel, or of the memory, is in hand.
LEMMA InHandNow ==
  ASSUME chunks' # <<>>, chunks' \in Chunks, taken' = 0
  PROVE  InHand' <=> Writing'
<1>1. Head(chunks') \in ByteSeq
  BY FlatHead
<1>2. 0 <= Len(Head(chunks'))
  BY <1>1, LenProperties DEF ByteSeq
<1> QED BY <1>2 DEF InHand

LEMMA TakeHolds == ASSUME HoldsInv, TakeChunk PROVE HoldsInv'
<1> USE DEF stream, worker
<1>1. ~Writing /\ taken = 0 /\ Writing'
  BY DEF TakeChunk, Writing, HoldsInv, InHand
<1>2. Head(dataCh) \in ByteSeq /\ dataCh' \in Chunks /\ chunks' = <<Head(dataCh)>>
  BY FlatHead DEF TakeChunk, HoldsInv, WriterTypes
<1>3. chunks' \in Chunks /\ chunks' # <<>>
  BY <1>2, FlatOne
<1>4. WriterTypes' /\ Counted' /\ taken' = 0
  BY <1>1, <1>2, <1>3 DEF TakeChunk, HoldsInv, WriterTypes, Counted, ReleaseBehindDisk
<1>5. InHand'
  BY <1>1, <1>3, <1>4, InHandNow
<1>6. Stages'
  BY DEF TakeChunk, HoldsInv, Stages
<1> QED BY <1>4, <1>5, <1>6 DEF HoldsInv

LEMMA FlatFilled == ASSUME NEW cs \in Chunks, Len(Flat(cs)) # 0 PROVE cs # <<>>
BY FlatNone, EmptySeq

LEMMA HoldHolds == ASSUME HoldsInv, HoldChunk PROVE HoldsInv'
<1> USE DEF stream, worker
<1>1. ~Writing /\ taken = 0 /\ chunks = <<>> /\ owner = "select" /\ file = "none"
  BY DEF HoldChunk, Writing, HoldsInv, InHand
<1>2. Head(dataCh) \in ByteSeq /\ dataCh' \in Chunks
  BY FlatHead DEF HoldChunk, HoldsInv, WriterTypes
<1>3. PICK held : held = Append(pending, Head(dataCh))
  OBVIOUS
<1>4. held \in Chunks /\ held # <<>>
  <2>1. held \in Chunks /\ Len(held) = Len(pending) + 1 /\ Len(pending) \in Nat
    BY <1>2, <1>3, AppendProperties, LenProperties DEF Chunks, HoldsInv, WriterTypes
  <2> QED BY <2>1, EmptySeq
<1>5. \/ pending' \in {held, <<>>} /\ UNCHANGED <<file, chunks, owner>>
      \/ file' = "open" /\ chunks' = held /\ pending' = <<>> /\ owner' = "write"
  BY <1>3 DEF HoldChunk, Create, CreateFails
<1>6. UNCHANGED <<next, accepted, caller, disk, buf, taken, bytesWritten, back, io, ioBytes, released>>
  BY DEF HoldChunk
<1>7. <<>> \in Chunks
  BY EmptySeq DEF Chunks
<1>8. WriterTypes' /\ Counted'
  BY <1>2, <1>4, <1>5, <1>6, <1>7 DEF HoldsInv, WriterTypes, Counted, ReleaseBehindDisk
<1>9. caller \in {"record", "closing"}
  BY <1>1 DEF HoldsInv, Stages
<1>10. CASE pending' \in {held, <<>>} /\ UNCHANGED <<file, chunks, owner>>
  <2>1. InHand'
    BY <1>1, <1>6, <1>10 DEF InHand, Writing
  <2>2. Stages'
    BY <1>1, <1>6, <1>9, <1>10 DEF HoldsInv, Stages
  <2> QED BY <1>8, <2>1, <2>2 DEF HoldsInv
<1>11. CASE file' = "open" /\ chunks' = held /\ pending' = <<>> /\ owner' = "write"
  <2>1. InHand'
    BY <1>1, <1>4, <1>6, <1>11, InHandNow DEF Writing
  <2>2. Stages'
    BY <1>1, <1>6, <1>9, <1>11 DEF HoldsInv, Stages
  <2> QED BY <1>8, <2>1, <2>2 DEF HoldsInv
<1> QED BY <1>5, <1>10, <1>11

LEMMA CloseHolds == ASSUME HoldsInv, Close PROVE HoldsInv'
<1> USE DEF stream, worker
<1>0. owner \in {"done", "sync", "close"}
  BY DEF Close, CloseWaited, CloseSync, CloseFile
<1>1. ~Writing /\ taken = 0 /\ chunks = <<>>
  BY <1>0 DEF Writing, HoldsInv, InHand
<1>2. CASE CloseSync
  <2>1. Stages'
    BY <1>2 DEF CloseSync, HoldsInv, Stages, writer
  <2> QED BY <1>1, <1>2, <2>1, StayHolds DEF CloseSync, Writing, HoldsInv, WriterTypes
<1>3. CASE CloseFile
  <2>1. UNCHANGED <<next, accepted, dataCh, pending, disk, buf, chunks, taken, bytesWritten, back, io, ioBytes, released>>
        /\ owner' = "closed" /\ caller' = "closed" /\ caller = "final" /\ file' = (IF file = "open" THEN "closed" ELSE file)
    BY <1>3 DEF CloseFile, writer, HoldsInv, Stages
  <2>2. WriterTypes' /\ Counted'
    BY <2>1 DEF HoldsInv, WriterTypes, Counted, ReleaseBehindDisk
  <2>3. Stages'
    BY <2>1 DEF HoldsInv, Stages
  <2>4. InHand'
    BY <1>1, <2>1 DEF InHand, Writing
  <2> QED BY <2>2, <2>3, <2>4 DEF HoldsInv
<1>4. CASE CloseWaited
  <2>1. /\ UNCHANGED <<next, accepted, dataCh, disk, buf, taken, bytesWritten, lock, io, ioBytes, released>>
        /\ caller' = "final" /\ owner = "done" /\ caller = "closing" /\ dataCh = <<>>
        /\ file # "none" => pending = <<>>
        /\ file = "none" => disk = <<>> /\ buf = <<>>
    BY <1>4 DEF CloseWaited, HoldsInv, Stages
  <2>2. \/ file = "open" /\ owner' = "flush" /\ back' = "sync" /\ UNCHANGED <<file, pending, chunks>>
        \/ file = "none" /\ pending' = <<>> /\ owner' = "close" /\ UNCHANGED <<file, back, chunks>>
        \/ file = "none" /\ file' = "open" /\ chunks' = pending /\ pending' = <<>> /\ owner' = "write"
           /\ Len(Flat(pending)) >= Threshold
    BY <1>4 DEF CloseWaited, Create, CreateFails
  <2>3. <<>> \in Chunks
    BY EmptySeq DEF Chunks
  <2>4. WriterTypes' /\ Counted'
    BY <1>1, <2>1, <2>2, <2>3 DEF HoldsInv, WriterTypes, Counted, ReleaseBehindDisk
  <2>5. Stages'
    BY <2>1, <2>2 DEF HoldsInv, Stages
  <2>6. InHand'
    <3>1. CASE chunks' = chunks /\ ((owner' = "flush" /\ back' = "sync") \/ owner' = "close")
      BY <1>1, <2>1, <2>2, <3>1 DEF InHand, Writing
    <3>2. CASE file = "none" /\ chunks' = pending /\ owner' = "write" /\ Len(Flat(pending)) >= Threshold
      <4>1. Threshold > 0 /\ pending \in Chunks
        BY <3>2 DEF HoldsInv, Stages, WriterTypes
      <4>2. Len(Flat(pending)) # 0
        BY <3>2, <4>1, WriterAssumption
      <4>3. pending # <<>>
        BY <4>1, <4>2, FlatFilled
      <4> QED BY <1>1, <2>1, <3>2, <4>1, <4>3, InHandNow DEF Writing
    <3> QED BY <2>2, <3>1, <3>2
  <2> QED BY <2>4, <2>5, <2>6 DEF HoldsInv
<1> QED BY <1>2, <1>3, <1>4 DEF Close

LEMMA FlushHolds == ASSUME HoldsInv, FlushLock \/ \E n \in 0..MaxBytes : FlushWrite(n) PROVE HoldsInv'
<1> USE DEF stream, worker
<1>1. CASE FlushLock
  <2>1. Writing' = Writing
    BY <1>1 DEF FlushLock, Writing
  <2>2. WriterTypes' /\ InHand' /\ Counted'
    BY <1>1, <2>1 DEF FlushLock, HoldsInv, WriterTypes, InHand, Counted, ReleaseBehindDisk, writer
  <2>3. Stages'
    BY <1>1 DEF FlushLock, HoldsInv, Stages, writer
  <2> QED BY <2>2, <2>3 DEF HoldsInv
<1>2. ASSUME NEW n \in 0..MaxBytes, FlushWrite(n) PROVE HoldsInv'
  <2>1. /\ UNCHANGED <<next, accepted, dataCh, caller, pending, file, chunks, taken, bytesWritten, back, io, ioBytes, released>>
        /\ owner = "flushing" /\ disk' = disk \o SubSeq(buf, 1, n) /\ buf' = Drop(buf, n) /\ owner' = AfterFlush(n)
    BY <1>2 DEF FlushWrite
  <2>2. Len(buf) \in Nat /\ Len(disk) \in Nat /\ buf \in ByteSeq /\ disk \in ByteSeq
    BY LenProperties DEF HoldsInv, WriterTypes, ByteSeq
  <2>3. n \in 0..Len(buf)
    BY <1>2, <2>2 DEF FlushWrite
  <2>4. SubSeq(buf, 1, n) \in ByteSeq /\ Len(SubSeq(buf, 1, n)) = n /\ buf' \in ByteSeq /\ Len(buf') = Len(buf) - n
    BY <2>1, <2>2, <2>3, Parts
  <2>5. disk' \in ByteSeq /\ Len(disk') = Len(disk) + n
    <3>1. PICK x : x = SubSeq(buf, 1, n)
      OBVIOUS
    <3>2. disk \o x \in ByteSeq /\ Len(disk \o x) = Len(disk) + n
      BY <2>2, <2>4, <3>1, Puts
    <3> QED BY <2>1, <3>1, <3>2
  <2>6. WriterTypes'
    BY <2>1, <2>4, <2>5 DEF HoldsInv, WriterTypes
  <2>7. \/ back = "write" /\ owner' \in {"write", "wrote"}
        \/ back = "sync" /\ owner' \in {"sync", "close"}
        \/ back = "select" /\ owner' = "select"
    BY <2>1 DEF AfterFlush, HoldsInv, Stages
  <2>8. InHand'
    BY <2>1, <2>7 DEF HoldsInv, InHand, Writing
  <2>9. file # "none" /\ caller # "closed"
    BY <2>1 DEF HoldsInv, Stages
  <2>10. Stages'
    BY <2>1, <2>7, <2>9 DEF HoldsInv, Stages
  <2>11. Counted'
    <3>1. n \in Nat /\ released \in Int
      BY <2>3 DEF HoldsInv, Counted
    <3>2. Len(disk') + Len(buf') = bytesWritten + taken
      BY <2>2, <2>4, <2>5, <3>1 DEF HoldsInv, Counted
    <3>3. released + HotWindow <= Len(disk) => released + HotWindow <= Len(disk')
      BY <2>2, <2>5, <3>1, WriterAssumption
    <3> QED BY <2>1, <3>1, <3>2, <3>3 DEF HoldsInv, Counted, ReleaseBehindDisk
  <2> QED BY <2>6, <2>8, <2>10, <2>11 DEF HoldsInv
<1> QED BY <1>1, <1>2

LEMMA RestHolds ==
  ASSUME HoldsInv, WriterEnds \/ PeriodicFlush \/ IoWorker \/ OtherLocks \/ OtherUnlocks \/ UNCHANGED vars
  PROVE  HoldsInv'
<1> USE DEF stream, worker
<1>1. CASE WriterEnds \/ PeriodicFlush
  <2>1. owner = "select" /\ UNCHANGED <<next, accepted, dataCh, pending, file, writer, worker, caller>>
    BY <1>1 DEF WriterEnds, PeriodicFlush
  <2>2. ~Writing /\ ~Writing' /\ chunks = <<>> /\ taken = 0
    BY <1>1, <2>1 DEF WriterEnds, PeriodicFlush, Writing, HoldsInv, InHand
  <2>4. Stages'
    <3>1. CASE WriterEnds
      BY <2>1, <3>1 DEF WriterEnds, HoldsInv, Stages, writer
    <3>2. CASE PeriodicFlush
      BY <2>1, <3>2 DEF PeriodicFlush, HoldsInv, Stages, writer
    <3> QED BY <1>1, <3>1, <3>2
  <2>5. next' \in Nat \ {0}
    BY <2>1 DEF HoldsInv, WriterTypes
  <2> QED BY <2>1, <2>2, <2>4, <2>5, StayHolds
<1>2. CASE OtherLocks \/ OtherUnlocks \/ IoWorker \/ UNCHANGED vars
  <2>1. UNCHANGED <<next, accepted, dataCh, caller, pending, file, disk, buf, chunks, taken, bytesWritten, owner, back>>
    BY <1>2 DEF OtherLocks, OtherUnlocks, IoWorker, IoTick, IoSynced, IoRead, IoRelease, IoUnlock, IoEnds, vars, writer
  <2>2. WriterTypes' /\ InHand' /\ Stages'
    BY <2>1 DEF HoldsInv, WriterTypes, InHand, Writing, Stages
  <2>3. CASE OtherLocks \/ OtherUnlocks \/ IoTick \/ IoSynced \/ IoUnlock \/ IoEnds \/ UNCHANGED vars
    <3>1. released' = released /\ (io' = "plan" => io = "plan" /\ ioBytes' = ioBytes)
      BY <2>3 DEF OtherLocks, OtherUnlocks, IoTick, IoSynced, IoUnlock, IoEnds, vars
    <3>2. Counted'
      BY <2>1, <3>1 DEF HoldsInv, Counted, ReleaseBehindDisk
    <3> QED BY <2>2, <3>2 DEF HoldsInv
  <2>4. CASE IoRead
    <3>1. Counted'
      BY <2>1, <2>4 DEF IoRead, HoldsInv, WriterTypes, Counted, ReleaseBehindDisk
    <3> QED BY <2>2, <3>1 DEF HoldsInv
  <2>5. CASE IoRelease
    <3>1. Len(buf) \in Nat /\ Len(disk) \in Nat
      BY LenProperties DEF HoldsInv, WriterTypes, ByteSeq
    <3>2. /\ ioBytes \in Int /\ ioBytes <= bytesWritten /\ bytesWritten \in Nat /\ taken \in Nat
          /\ Len(disk) + Len(buf) = bytesWritten + taken /\ released \in Int /\ ReleaseBehindDisk
          /\ released' = planColdRelease(ioBytes - Len(buf)) /\ io' = "unlock"
      BY <2>5 DEF IoRelease, HoldsInv, Counted, WriterTypes
    <3>3. PICK d : d = ioBytes - Len(buf)
      OBVIOUS
    \* What the worker believes to be in the file is in it, less what the
    \* Write under way has put there.
    <3>4. d \in Int /\ d + taken <= Len(disk)
      BY <3>1, <3>2, <3>3
    <3>5. released' \in {d - HotWindow, released}
      BY <3>2, <3>3 DEF planColdRelease
    <3>6. released' \in Int /\ (released' > 0 => released' + HotWindow <= Len(disk))
      BY <3>1, <3>2, <3>4, <3>5, WriterAssumption DEF ReleaseBehindDisk
    <3>7. Counted'
      BY <2>1, <3>2, <3>6 DEF Counted, ReleaseBehindDisk
    <3> QED BY <2>2, <3>7 DEF HoldsInv
  <2> QED BY <1>2, <2>3, <2>4, <2>5 DEF IoWorker
<1> QED BY <1>1, <1>2

LEMMA HoldsStep == ASSUME HoldsInv, [Next]_vars PROVE HoldsInv'
BY CaptureHolds, WriteHolds, FlushHolds, TakeHolds, HoldHolds, CloseHolds, RestHolds
   DEF Next, Owner, Write, Flush

\* The I/O worker computes what to release from a byte count and a buffer
\* size that it reads one after the other without the writer's goroutine
\* standing still (releaseColdPrefixLocked): it never reaches into the hot
\* window of what is in the file.
THEOREM ReleaseStaysBehind == Spec => []ReleaseBehindDisk
<1>1. Init => HoldsInv
  BY HoldsStarts
<1>2. HoldsInv /\ [Next]_vars => HoldsInv'
  BY HoldsStep
<1>3. HoldsInv => ReleaseBehindDisk
  BY DEF HoldsInv, Counted
<1> QED BY <1>1, <1>2, <1>3, PTL DEF Spec

(***************************************************************************)
(* What the pipeline holds of the stream: file, buffer, chunks in hand,    *)
(* memory and queue, one after the other.                                  *)
(***************************************************************************)
Cat(a, b) == a \o b
InWrite == IF chunks = <<>> THEN <<>> ELSE Drop(Flat(chunks), taken)
Content == Cat(disk, Cat(buf, Cat(InWrite, Cat(Flat(pending), Flat(dataCh)))))

Ordered == Ascends(Content, next)

\* While nothing has failed, that is all of what Process took, unless it was
\* too little for a file and has been dropped by Close.
Complete ==
    ~failed =>
        /\ caller = "record" => next = accepted + 1
        /\ owner = "wrote" => taken = Len(Head(chunks))
        /\ file # "none" => accepted >= Threshold
        /\ owner \in {"sync", "close", "closed"} => buf = <<>>
        /\ \/ Content = Bytes(1, accepted)
           \/ file = "none" /\ accepted < Threshold /\ caller \in {"final", "closed"}

WriterInv == HoldsInv /\ Ordered /\ Complete

LEMMA CatIs == ASSUME NEW a \in ByteSeq, NEW b \in ByteSeq PROVE Cat(a, b) \in ByteSeq
BY Puts DEF Cat

LEMMA CatAssociative ==
  ASSUME NEW a \in ByteSeq, NEW b \in ByteSeq, NEW c \in ByteSeq
  PROVE  Cat(Cat(a, b), c) = Cat(a, Cat(b, c))
BY Associative DEF Cat

LEMMA CatNothing == ASSUME NEW a \in ByteSeq PROVE Cat(a, <<>>) = a /\ Cat(<<>>, a) = a /\ <<>> \in ByteSeq
BY Nothing DEF Cat

\* x goes from the front of one part to the end of the one before it.
LEMMA CatShift ==
  ASSUME NEW a \in ByteSeq, NEW x \in ByteSeq, NEW y \in ByteSeq, NEW r \in ByteSeq
  PROVE  Cat(Cat(a, x), Cat(y, r)) = Cat(a, Cat(Cat(x, y), r))
BY CatIs, CatAssociative

\* What is left of the chunks cs when the first n bytes have been written.
LEMMA LeftOf ==
  ASSUME NEW cs \in Chunks, cs # <<>>, NEW n \in 0..Len(Head(cs))
  PROVE  /\ Drop(Flat(cs), n) = Drop(Head(cs), n) \o Flat(Tail(cs)) /\ Drop(Flat(cs), n) \in ByteSeq
         /\ Drop(Head(cs), n) \in ByteSeq /\ Flat(Tail(cs)) \in ByteSeq
<1>1. Head(cs) \in ByteSeq /\ Tail(cs) \in Chunks /\ Flat(cs) = Head(cs) \o Flat(Tail(cs))
  BY FlatHead
<1>2. Flat(Tail(cs)) \in ByteSeq
  BY <1>1, FlatIsBytes
<1>3. Drop(Head(cs), n) \in ByteSeq
  BY <1>1, Parts
<1>4. Drop(Flat(cs), n) = Drop(Head(cs), n) \o Flat(Tail(cs))
  BY <1>1, <1>2, DropFront
<1> QED BY <1>2, <1>3, <1>4, Puts

LEMMA ContentParts ==
  ASSUME HoldsInv
  PROVE  /\ disk \in ByteSeq /\ buf \in ByteSeq /\ InWrite \in ByteSeq
         /\ Flat(pending) \in ByteSeq /\ Flat(dataCh) \in ByteSeq
         /\ Cat(Flat(pending), Flat(dataCh)) \in ByteSeq
         /\ Cat(InWrite, Cat(Flat(pending), Flat(dataCh))) \in ByteSeq
         /\ Cat(buf, Cat(InWrite, Cat(Flat(pending), Flat(dataCh)))) \in ByteSeq
<1>1. disk \in ByteSeq /\ buf \in ByteSeq /\ Flat(pending) \in ByteSeq /\ Flat(dataCh) \in ByteSeq
  BY FlatIsBytes DEF HoldsInv, WriterTypes
<1>2. InWrite \in ByteSeq
  <2>1. CASE chunks = <<>>
    BY <2>1, EmptySeq DEF InWrite, ByteSeq
  <2>2. CASE chunks # <<>>
    <3>1. Writing
      BY <2>2 DEF HoldsInv, InHand
    <3>2. taken \in 0..Len(Head(chunks)) /\ chunks \in Chunks
      BY <3>1, ChunkInHand DEF HoldsInv, WriterTypes
    <3> QED BY <2>2, <3>2, LeftOf DEF InWrite
  <2> QED BY <2>1, <2>2
<1> QED BY <1>1, <1>2, CatIs

LEMMA OrderedStays ==
  ASSUME Ordered, Content' = Content, next \in Int, next' \in Int, next' >= next
  PROVE  Ordered'
<1>1. \A i \in 1..Len(Content) : Content[i] \in Int
  BY LenProperties DEF Ordered, Ascends, ByteSeq
<1> QED BY <1>1 DEF Ordered, Ascends

\* Steps that move no byte.
LEMMA StaysComplete ==
  ASSUME WriterInv, HoldsInv', UNCHANGED <<disk, buf, chunks, taken, pending, dataCh, accepted, file>>,
         failed' = failed, next' \in Int, next' >= next,
         caller' = "record" => caller = "record" /\ next' = next,
         caller \in {"final", "closed"} => caller' \in {"final", "closed"},
         owner' = "wrote" => owner = "wrote" \/ taken = Len(Head(chunks)),
         owner' \in {"sync", "close", "closed"} => owner \in {"sync", "close", "closed"}
  PROVE  WriterInv'
<1>1. Content' = Content
  BY DEF Content, InWrite
<1>2. Ordered'
  BY <1>1, OrderedStays DEF WriterInv, HoldsInv, WriterTypes
<1>3. Complete'
  BY <1>1 DEF WriterInv, Complete
<1> QED BY <1>2, <1>3 DEF WriterInv

LEMMA IdleSteps ==
  ASSUME WriterInv, HoldsInv',
         \/ CloseChannels \/ WriterEnds \/ PeriodicFlush \/ WriteFull \/ WriteReturns \/ FlushLock
         \/ CloseSync \/ CloseFile \/ IoWorker \/ OtherLocks \/ OtherUnlocks \/ UNCHANGED vars
         \/ \E n \in ChunkSizes : ProcessTimeout(n)
  PROVE  WriterInv'
<1> USE DEF stream, writer, worker
<1>0. next \in Int /\ caller \in {"record", "closing", "final", "closed"}
  BY DEF WriterInv, HoldsInv, WriterTypes, Stages
<1>1. CASE CloseChannels \/ WriterEnds \/ PeriodicFlush \/ WriteFull \/ FlushLock \/ OtherLocks \/ OtherUnlocks
  BY <1>0, <1>1, StaysComplete DEF CloseChannels, WriterEnds, PeriodicFlush, WriteFull, FlushLock, OtherLocks, OtherUnlocks
<1>2. CASE IoWorker \/ UNCHANGED vars
  BY <1>0, <1>2, StaysComplete DEF IoWorker, IoTick, IoSynced, IoRead, IoRelease, IoUnlock, IoEnds, vars
<1>3. CASE CloseSync
  BY <1>0, <1>3, StaysComplete DEF CloseSync
<1>4. CASE WriteReturns
  <2>1. Writing /\ Rest = <<>>
    BY <1>4 DEF WriteReturns, Writing
  <2>2. taken \in 0..Len(Head(chunks)) /\ Len(Rest) = Len(Head(chunks)) - taken /\ Len(Head(chunks)) \in Nat
    BY <2>1, ChunkInHand DEF WriterInv
  <2>3. taken = Len(Head(chunks))
    <3>1. Len(Rest) = 0
      BY <2>1, EmptySeq
    <3> QED BY <2>2, <3>1
  <2> QED BY <1>0, <1>4, <2>3, StaysComplete DEF WriteReturns
<1>5. CASE CloseFile
  <2>1. /\ UNCHANGED <<disk, buf, chunks, taken, pending, dataCh, accepted, next>>
        /\ failed' = failed /\ owner = "close" /\ owner' = "closed" /\ caller' = "closed"
        /\ (file' = "none") = (file = "none")
    BY <1>5 DEF CloseFile
  <2>2. Content' = Content
    BY <2>1 DEF Content, InWrite
  <2>3. Ordered'
    BY <1>0, <2>1, <2>2, OrderedStays DEF WriterInv
  <2>4. caller = "final"
    BY <2>1 DEF WriterInv, HoldsInv, Stages
  <2>5. Complete'
    BY <2>1, <2>2, <2>4 DEF WriterInv, Complete
  <2> QED BY <2>3, <2>5 DEF WriterInv
<1>6. ASSUME NEW n \in ChunkSizes, ProcessTimeout(n) PROVE WriterInv'
  <2>1. n \in Nat
    BY WriterAssumption
  <2>2. next' \in Int /\ next' >= next
    BY <1>0, <1>6, <2>1 DEF ProcessTimeout
  <2>3. UNCHANGED <<disk, buf, chunks, taken, pending, dataCh, accepted, file>>
        /\ failed' = failed /\ caller = "record" /\ caller' = "closing" /\ owner' = owner
    BY <1>6 DEF ProcessTimeout
  <2> QED BY <2>2, <2>3, StaysComplete
<1> QED BY <1>1, <1>2, <1>3, <1>4, <1>5, <1>6

LEMMA WriterStarts == ASSUME Init PROVE WriterInv
<1>1. HoldsInv
  BY HoldsStarts
<1>2. disk = <<>> /\ buf = <<>> /\ InWrite = <<>> /\ Flat(pending) = <<>> /\ Flat(dataCh) = <<>>
  BY FlatNone DEF Init, InWrite
<1>3. <<>> \in ByteSeq /\ Cat(<<>>, <<>>) = <<>> /\ Len(<<>>) = 0
  BY CatNothing, EmptySeq DEF ByteSeq
<1>4. Content = <<>>
  BY <1>2, <1>3 DEF Content
<1>5. Bytes(1, 0) = <<>>
  BY DEF Bytes
<1>6. Ordered
  BY <1>3, <1>4 DEF Ordered, Ascends
<1>7. Complete
  BY <1>4, <1>5, WriterAssumption DEF Init, Complete, Deferred
<1> QED BY <1>1, <1>6, <1>7 DEF WriterInv

\* Process appends to the last part.
LEMMA ProcessInStream == ASSUME WriterInv, HoldsInv', NEW n \in ChunkSizes, Process(n) PROVE WriterInv'
<1> USE DEF stream, writer, worker
<1> DEFINE d == disk
           b == buf
           w == InWrite
           p == Flat(pending)
           q == Flat(dataCh)
           s == Bytes(next, n)
<1>1. /\ UNCHANGED <<disk, buf, chunks, taken, pending, owner, caller, file>> /\ failed' = failed
      /\ caller = "record" /\ dataCh' = Append(dataCh, Bytes(next, n)) /\ next' = next + n /\ accepted' = accepted + n
  BY DEF Process
<1>2. next \in Int /\ accepted \in Nat /\ n \in Nat /\ dataCh \in Chunks
  BY WriterAssumption DEF WriterInv, HoldsInv, WriterTypes
<1>3. s \in ByteSeq
  BY <1>2, BytesAre
<1>4. Flat(dataCh') = Cat(q, s)
  BY <1>1, <1>2, <1>3, FlatAppend DEF Cat
<1>5. d \in ByteSeq /\ b \in ByteSeq /\ w \in ByteSeq /\ p \in ByteSeq /\ q \in ByteSeq
  BY ContentParts DEF WriterInv
<1>6. Content' = Cat(d, Cat(b, Cat(w, Cat(p, Cat(q, s)))))
  BY <1>1, <1>4 DEF Content, InWrite
<1>7. Content = Cat(d, Cat(b, Cat(w, Cat(p, q))))
  BY DEF Content
<1> HIDE DEF d, b, w, p, q, s
<1>12. Content' = Cat(Content, s)
  BY <1>3, <1>5, <1>6, <1>7, CatIs, CatAssociative
<1>13. Ordered'
  BY <1>1, <1>2, <1>12, AscendsMore DEF WriterInv, Ordered, s, Cat
<1>14. Complete'
  <2>1. SUFFICES ASSUME ~failed' PROVE /\ next' = accepted' + 1
                                       /\ owner' = "wrote" => taken' = Len(Head(chunks'))
                                       /\ file' # "none" => accepted' >= Threshold
                                       /\ owner' \in {"sync", "close", "closed"} => buf' = <<>>
                                       /\ Content' = Bytes(1, accepted')
    BY DEF Complete
  <2>2. ~failed /\ next = accepted + 1 /\ Content = Bytes(1, accepted)
    BY <1>1, <2>1 DEF WriterInv, Complete
  <2>3. Content' = Bytes(1, accepted')
    BY <1>1, <1>2, <1>12, <2>2, BytesGoOn DEF s, Cat
  <2>4. file # "none" => accepted + n >= Threshold
    BY <1>2, <2>2, WriterAssumption DEF WriterInv, Complete
  <2> QED BY <1>1, <1>2, <2>2, <2>3, <2>4 DEF WriterInv, Complete
<1> QED BY <1>13, <1>14 DEF WriterInv

LEMMA TakeInStream == ASSUME WriterInv, HoldsInv', TakeChunk PROVE WriterInv'
<1> USE DEF stream, writer, worker
<1>1. /\ UNCHANGED <<next, accepted, disk, buf, taken, pending, caller, file>> /\ failed' = failed
      /\ owner = "select" /\ owner' = "write" /\ dataCh # <<>> /\ file = "open"
      /\ chunks' = <<Head(dataCh)>> /\ dataCh' = Tail(dataCh)
  BY DEF TakeChunk
<1>2. chunks = <<>> /\ taken = 0 /\ pending = <<>> /\ dataCh \in Chunks
  BY <1>1 DEF WriterInv, HoldsInv, InHand, Writing, Stages, WriterTypes
<1>3. PICK h, q : h = Head(dataCh) /\ q = Flat(Tail(dataCh))
  OBVIOUS
<1>4. h \in ByteSeq /\ q \in ByteSeq /\ Flat(dataCh) = Cat(h, q)
  BY <1>1, <1>2, <1>3, FlatHead, FlatIsBytes DEF Cat
<1>5. Flat(chunks') = h /\ chunks' # <<>>
  BY <1>1, <1>3, <1>4, FlatOne
<1>6. Drop(h, 0) = h
  BY <1>4, SubSeqFull, LenProperties DEF Drop, ByteSeq
<1>7. Content = Cat(disk, Cat(buf, Cat(<<>>, Cat(<<>>, Cat(h, q)))))
  BY <1>2, <1>4, FlatNone DEF Content, InWrite
<1>8. Content' = Cat(disk, Cat(buf, Cat(h, Cat(<<>>, q))))
  BY <1>1, <1>2, <1>3, <1>5, <1>6, FlatNone DEF Content, InWrite
<1>10. Content' = Content
  BY <1>4, <1>7, <1>8, CatIs, CatNothing
<1>11. Ordered'
  BY <1>1, <1>10, OrderedStays DEF WriterInv, HoldsInv, WriterTypes
<1>12. Complete'
  BY <1>1, <1>10 DEF WriterInv, Complete
<1> QED BY <1>11, <1>12 DEF WriterInv

LEMMA FlushInStream == ASSUME WriterInv, HoldsInv', NEW n \in 0..MaxBytes, FlushWrite(n) PROVE WriterInv'
<1> USE DEF stream, writer, worker
<1>1. /\ UNCHANGED <<next, accepted, dataCh, caller, pending, file, chunks, taken, back>>
      /\ owner = "flushing" /\ disk' = disk \o SubSeq(buf, 1, n) /\ buf' = Drop(buf, n) /\ owner' = AfterFlush(n)
      /\ failed' = (failed \/ n < Len(buf))
  BY DEF FlushWrite
<1>2. PICK r : r = Cat(InWrite, Cat(Flat(pending), Flat(dataCh)))
  OBVIOUS
<1>3. disk \in ByteSeq /\ buf \in ByteSeq /\ r \in ByteSeq /\ Len(buf) \in Nat
  BY <1>2, ContentParts, LenProperties DEF WriterInv, ByteSeq
<1>4. n \in 0..Len(buf) /\ n \in Nat
  BY <1>3 DEF FlushWrite
<1>5. PICK x, y : x = SubSeq(buf, 1, n) /\ y = Drop(buf, n)
  OBVIOUS
<1>6. x \in ByteSeq /\ y \in ByteSeq /\ Cat(x, y) = buf /\ Len(y) = Len(buf) - n
  BY <1>3, <1>4, <1>5, Parts DEF Cat
<1>7. Cat(Cat(disk, x), Cat(y, r)) = Cat(disk, Cat(Cat(x, y), r))
  BY <1>3, <1>6, CatShift
<1>8. Content' = Cat(Cat(disk, x), Cat(y, r))
  BY <1>1, <1>2, <1>5 DEF Content, InWrite, Cat
<1>9. Content' = Content
  BY <1>2, <1>6, <1>7, <1>8 DEF Content
<1>10. Ordered'
  BY <1>1, <1>9, OrderedStays DEF WriterInv, HoldsInv, WriterTypes
<1>11. Complete'
  <2>1. SUFFICES ASSUME ~failed' PROVE Complete'
    BY DEF Complete
  <2>2. ~failed /\ ~(n < Len(buf))
    BY <1>1, <2>1
  <2>3. buf' = <<>>
    <3>1. Len(y) = 0
      BY <1>3, <1>4, <1>6, <2>2
    <3> QED BY <1>1, <1>5, <1>6, <3>1, Emptied
  <2>4. owner' = back /\ back \in {"write", "select", "sync"}
    BY <1>1, <2>2 DEF AfterFlush, WriterInv, HoldsInv, Stages
  <2> QED BY <1>1, <1>9, <2>2, <2>3, <2>4 DEF WriterInv, Complete
<1> QED BY <1>10, <1>11 DEF WriterInv

LEMMA DropAll == ASSUME NEW a \in ByteSeq PROVE Drop(a, 0) = a
BY SubSeqFull, LenProperties DEF Drop, ByteSeq

LEMMA DropMore ==
  ASSUME NEW a \in ByteSeq, NEW k \in 0..Len(a), NEW n \in 0..(Len(a) - k)
  PROVE  Drop(Drop(a, k), n) = Drop(a, k + n)
<1>0. Len(a) \in Nat /\ k \in Nat /\ n \in Nat /\ k <= Len(a) /\ n <= Len(a) - k /\ \A i \in 1..Len(a) : a[i] \in Int
  <2>1. Len(a) \in Nat /\ \A i \in 1..Len(a) : a[i] \in Int
    BY LenProperties DEF ByteSeq
  <2> QED BY <2>1
<1>1. PICK b : b = Drop(a, k)
  OBVIOUS
<1>2. b \in ByteSeq /\ Len(b) = Len(a) - k /\ \A i \in 1..(Len(a) - k) : b[i] = a[k + i]
  BY <1>0, <1>1, SubSeqProperties DEF ByteSeq, Drop
<1>3. PICK c : c = Drop(b, n)
  OBVIOUS
<1>4. \A i \in 1..Len(b) : b[i] \in Int
  BY <1>2, LenProperties DEF ByteSeq
<1>5. c \in ByteSeq /\ Len(c) = Len(b) - n /\ \A i \in 1..(Len(b) - n) : c[i] = b[n + i]
  BY <1>0, <1>2, <1>3, <1>4, SubSeqProperties DEF ByteSeq, Drop
<1>6. PICK e : e = Drop(a, k + n)
  OBVIOUS
<1>7. PICK m : m = k + n
  OBVIOUS
<1>8. e \in ByteSeq /\ Len(e) = Len(a) - m /\ \A i \in 1..(Len(a) - m) : e[i] = a[m + i]
  BY <1>0, <1>6, <1>7, SubSeqProperties DEF ByteSeq, Drop
<1>9. Len(c) = Len(e) /\ \A i \in 1..Len(c) : c[i] = e[i]
  <2>1. Len(c) = Len(a) - m /\ Len(c) = Len(a) - k - n
    BY <1>0, <1>2, <1>5, <1>7
  <2>2. ASSUME NEW i \in 1..Len(c) PROVE c[i] = e[i]
    <3>1. n + i \in 1..(Len(a) - k) /\ i \in 1..(Len(a) - m) /\ i \in 1..(Len(b) - n) /\ k + (n + i) = m + i
      BY <1>0, <1>2, <1>7, <2>1
    <3>2. c[i] = b[n + i] /\ b[n + i] = a[k + (n + i)] /\ e[i] = a[m + i]
      BY <1>2, <1>5, <1>8, <3>1
    <3> QED BY <3>1, <3>2
  <2> QED BY <1>8, <2>1, <2>2
<1>10. c = e
  BY <1>5, <1>8, <1>9, SeqEqual DEF ByteSeq
<1> QED BY <1>1, <1>3, <1>6, <1>10

\* Write puts the first n bytes of the rest of the chunk in hand elsewhere.
LEMMA WriteInStream ==
  ASSUME WriterInv, HoldsInv', Writing, NEW n \in 0..Len(Rest), taken' = taken + n,
         UNCHANGED <<next, accepted, dataCh, caller, pending, file, chunks>>,
         \/ disk' = disk /\ buf' = buf \o SubSeq(Rest, 1, n)
         \/ buf = <<>> /\ disk' = disk \o SubSeq(Rest, 1, n) /\ buf' = buf,
         failed => failed',
         owner' = "write" \/ (owner' = "wrote" /\ failed')
  PROVE  WriterInv'
<1>1. PICK r : r = Cat(Flat(pending), Flat(dataCh))
  OBVIOUS
<1>2. disk \in ByteSeq /\ buf \in ByteSeq /\ r \in ByteSeq
  BY <1>1, ContentParts DEF WriterInv
<1>3. /\ Head(chunks) \in ByteSeq /\ Tail(chunks) \in Chunks /\ taken \in 0..Len(Head(chunks))
      /\ Rest \in ByteSeq /\ Len(Rest) = Len(Head(chunks)) - taken /\ Len(Head(chunks)) \in Nat
  BY ChunkInHand DEF WriterInv
<1>4. chunks # <<>> /\ chunks \in Chunks
  BY DEF WriterInv, HoldsInv, InHand, WriterTypes
<1>5. PICK x, y, t : x = SubSeq(Rest, 1, n) /\ y = Drop(Rest, n) /\ t = Flat(Tail(chunks))
  OBVIOUS
<1>6. x \in ByteSeq /\ y \in ByteSeq /\ Cat(x, y) = Rest
  BY <1>3, <1>5, Parts DEF Cat
<1>7. t \in ByteSeq /\ InWrite = Cat(Cat(x, y), t)
  BY <1>3, <1>4, <1>5, <1>6, LeftOf DEF InWrite, Rest, Cat
<1>8. y = Drop(Head(chunks), taken + n)
  BY <1>3, <1>5, DropMore DEF Rest
<1>9. InWrite' = Cat(y, t)
  <2>1. taken + n \in 0..Len(Head(chunks))
    BY <1>3
  <2>2. Drop(Flat(chunks), taken + n) = Drop(Head(chunks), taken + n) \o Flat(Tail(chunks))
    BY <1>4, <2>1, LeftOf
  <2> QED BY <1>4, <1>5, <1>8, <2>2 DEF InWrite, Cat
<1>10. Content = Cat(disk, Cat(buf, Cat(Cat(Cat(x, y), t), r)))
  BY <1>1, <1>7 DEF Content
<1>11. Content' = Cat(disk', Cat(buf', Cat(Cat(y, t), r)))
  BY <1>1, <1>9 DEF Content
<1>12. Content' = Content
  <2>1. CASE disk' = disk /\ buf' = buf \o x
    <3>1. Content' = Cat(disk, Cat(Cat(buf, x), Cat(Cat(y, t), r)))
      BY <1>11, <2>1 DEF Cat
    <3>2. Cat(Cat(Cat(x, y), t), r) = Cat(x, Cat(Cat(y, t), r))
      BY <1>2, <1>6, <1>7, CatIs, CatAssociative
    <3>3. Cat(Cat(buf, x), Cat(Cat(y, t), r)) = Cat(buf, Cat(x, Cat(Cat(y, t), r)))
      BY <1>2, <1>6, <1>7, CatIs, CatAssociative
    <3> QED BY <1>10, <3>1, <3>2, <3>3
  <2>2. CASE buf = <<>> /\ disk' = disk \o x /\ buf' = buf
    <3>1. Content' = Cat(Cat(disk, x), Cat(<<>>, Cat(Cat(y, t), r)))
      BY <1>11, <2>2 DEF Cat
    <3>2. Cat(Cat(Cat(x, y), t), r) = Cat(x, Cat(Cat(y, t), r)) /\ Cat(Cat(y, t), r) \in ByteSeq
      BY <1>2, <1>6, <1>7, CatIs, CatAssociative
    <3>3. Cat(Cat(disk, x), Cat(Cat(y, t), r)) = Cat(disk, Cat(x, Cat(Cat(y, t), r)))
      BY <1>2, <1>6, <3>2, CatAssociative
    <3>4. Cat(x, Cat(Cat(y, t), r)) \in ByteSeq
      BY <1>6, <3>2, CatIs
    <3> QED BY <1>10, <2>2, <3>1, <3>2, <3>3, <3>4, CatNothing
  <2> QED BY <1>5, <2>1, <2>2
<1>13. Ordered'
  BY <1>12, OrderedStays DEF WriterInv, HoldsInv, WriterTypes
<1>14. Complete'
  BY <1>12 DEF WriterInv, Complete
<1> QED BY <1>13, <1>14 DEF WriterInv

LEMMA AccountInStream == ASSUME WriterInv, HoldsInv', Account PROVE WriterInv'
<1> USE DEF stream, worker
<1>1. /\ UNCHANGED <<next, accepted, dataCh, caller, pending, file, disk, buf>> /\ failed' = failed
      /\ owner = "wrote" /\ taken' = 0 /\ chunks' = Tail(chunks) /\ owner' \in {"write", "select", "flush"}
  BY DEF Account
<1>2. Writing
  BY <1>1 DEF Writing
<1>3. PICK r : r = Cat(Flat(pending), Flat(dataCh))
  OBVIOUS
<1>4. disk \in ByteSeq /\ buf \in ByteSeq /\ r \in ByteSeq
  BY <1>3, ContentParts DEF WriterInv
<1>5. /\ Head(chunks) \in ByteSeq /\ Tail(chunks) \in Chunks /\ taken \in 0..Len(Head(chunks))
      /\ Rest \in ByteSeq /\ Len(Rest) = Len(Head(chunks)) - taken /\ Len(Head(chunks)) \in Nat
  BY <1>2, ChunkInHand DEF WriterInv
<1>6. chunks # <<>> /\ chunks \in Chunks
  BY <1>2 DEF WriterInv, HoldsInv, InHand, WriterTypes
<1>7. PICK x, t : x = Rest /\ t = Flat(Tail(chunks))
  OBVIOUS
<1>8. x \in ByteSeq /\ t \in ByteSeq /\ InWrite = Cat(x, t)
  BY <1>5, <1>6, <1>7, LeftOf DEF InWrite, Rest, Cat
<1>9. InWrite' = t
  BY <1>1, <1>5, <1>7, <1>8, DropAll, FlatNone DEF InWrite
<1>10. Content = Cat(disk, Cat(buf, Cat(Cat(x, t), r))) /\ Content' = Cat(disk, Cat(buf, Cat(t, r)))
  BY <1>1, <1>3, <1>8, <1>9 DEF Content
<1>11. PICK a, c : a = Cat(disk, buf) /\ c = Cat(t, r)
  OBVIOUS
<1>12. a \in ByteSeq /\ c \in ByteSeq
  BY <1>4, <1>8, <1>11, CatIs
<1>13. Content = Cat(a, Cat(x, c)) /\ Content' = Cat(a, c)
  BY <1>4, <1>8, <1>10, <1>11, <1>12, CatIs, CatAssociative
<1>14. Ordered'
  BY <1>1, <1>8, <1>12, <1>13, AscendsLess DEF WriterInv, Ordered, Cat
<1>15. Complete'
  <2>1. SUFFICES ASSUME ~failed' PROVE Complete'
    BY DEF Complete
  <2>2. ~failed /\ taken = Len(Head(chunks))
    BY <1>1, <2>1 DEF WriterInv, Complete
  <2>3. x = <<>>
    <3>1. Len(x) = 0
      BY <1>5, <1>7, <2>2
    <3> QED BY <1>8, <3>1, Emptied
  <2>4. Content' = Content
    BY <1>12, <1>13, <2>3, CatNothing
  <2> QED BY <1>1, <2>2, <2>4 DEF WriterInv, Complete
<1> QED BY <1>14, <1>15 DEF WriterInv

LEMMA WriteStepsInStream ==
  ASSUME WriterInv, HoldsInv', WriteCopy \/ \E n \in 0..MaxBytes : WriteDirect(n)
  PROVE  WriterInv'
<1> USE DEF stream, worker
<1>1. Writing
  BY DEF WriteCopy, WriteDirect, Writing
<1>2. Rest \in ByteSeq /\ Len(Rest) \in Nat /\ Len(buf) \in Nat
  BY <1>1, ChunkInHand, ContentParts, LenProperties DEF WriterInv, ByteSeq
<1>3. CASE WriteCopy
  <2>1. PICK n : n = IF Len(Rest) < BufferSize - Len(buf) THEN Len(Rest) ELSE BufferSize - Len(buf)
    OBVIOUS
  <2>2. n \in 0..Len(Rest)
    BY <1>2, <1>3, <2>1, WriterAssumption DEF WriteCopy
  <2>3. /\ taken' = taken + n /\ disk' = disk /\ buf' = buf \o SubSeq(Rest, 1, n) /\ owner' = "write" /\ failed' = failed
        /\ UNCHANGED <<next, accepted, dataCh, caller, pending, file, chunks>>
    BY <1>3, <2>1 DEF WriteCopy
  <2> QED BY <1>1, <2>2, <2>3, WriteInStream
<1>4. ASSUME NEW n \in 0..MaxBytes, WriteDirect(n) PROVE WriterInv'
  <2>1. n \in 0..Len(Rest)
    BY <1>2, <1>4 DEF WriteDirect
  <2>2. /\ taken' = taken + n /\ buf = <<>> /\ disk' = disk \o SubSeq(Rest, 1, n) /\ buf' = buf
        /\ UNCHANGED <<next, accepted, dataCh, caller, pending, file, chunks>>
    BY <1>4 DEF WriteDirect
  <2>3. (failed => failed') /\ (owner' = "write" \/ (owner' = "wrote" /\ failed'))
    BY <1>4 DEF WriteDirect
  <2> QED BY <1>1, <2>1, <2>2, <2>3, WriteInStream
<1> QED BY <1>3, <1>4

\* A chunk waits in memory, or the memory becomes the chunks in hand, or is given up.
LEMMA HoldInStream == ASSUME WriterInv, HoldsInv', HoldChunk PROVE WriterInv'
<1> USE DEF stream, worker
<1>1. /\ UNCHANGED <<next, accepted, caller, disk, buf, taken>>
      /\ owner = "select" /\ dataCh # <<>> /\ file = "none" /\ dataCh' = Tail(dataCh)
  BY DEF HoldChunk
<1>2. /\ chunks = <<>> /\ taken = 0 /\ dataCh \in Chunks /\ pending \in Chunks
      /\ disk = <<>> /\ buf = <<>> /\ caller \in {"record", "closing"}
  BY <1>1 DEF WriterInv, HoldsInv, InHand, Writing, Stages, WriterTypes
<1>3. PICK h, p, q, held : /\ h = Head(dataCh) /\ p = Flat(pending) /\ q = Flat(Tail(dataCh))
                           /\ held = Append(pending, Head(dataCh))
  OBVIOUS
<1>4. h \in ByteSeq /\ p \in ByteSeq /\ q \in ByteSeq /\ Flat(dataCh) = Cat(h, q)
  BY <1>1, <1>2, <1>3, FlatHead, FlatIsBytes DEF Cat
<1>5. Flat(held) = Cat(p, h) /\ held \in Chunks /\ Cat(p, h) \in ByteSeq
  BY <1>2, <1>3, <1>4, FlatAppend, CatIs DEF Cat
<1>6. Cat(h, q) \in ByteSeq /\ Cat(p, Cat(h, q)) \in ByteSeq /\ Cat(Cat(p, h), q) = Cat(p, Cat(h, q)) /\ <<>> \in ByteSeq
  BY <1>4, CatIs, CatAssociative, CatNothing
<1>7. Content = Cat(p, Cat(h, q))
  <2>1. Content = Cat(<<>>, Cat(<<>>, Cat(<<>>, Cat(p, Cat(h, q)))))
    BY <1>2, <1>3, <1>4 DEF Content, InWrite
  <2> QED BY <2>1, <1>6, CatNothing
<1>8. \/ pending' = held /\ failed' = failed /\ UNCHANGED <<file, chunks, owner>>
      \/ Len(Flat(held)) >= Threshold /\ file' = "open" /\ failed' = failed /\ chunks' = held /\ pending' = <<>>
         /\ owner' = "write"
      \/ failed' /\ pending' \in {held, <<>>} /\ UNCHANGED <<file, chunks, owner>>
  BY <1>3 DEF HoldChunk, Create, CreateFails
<1>9. CASE pending' = held /\ UNCHANGED <<file, chunks, owner>> /\ (failed' = failed \/ failed')
  <2>1. Content' = Cat(<<>>, Cat(<<>>, Cat(<<>>, Cat(Cat(p, h), q))))
    BY <1>1, <1>2, <1>3, <1>5, <1>9 DEF Content, InWrite
  <2>2. Content' = Content
    BY <2>1, <1>6, <1>7, CatNothing
  <2>3. Ordered'
    BY <1>1, <2>2, OrderedStays DEF WriterInv, HoldsInv, WriterTypes
  <2>4. Complete'
    BY <1>1, <1>9, <2>2 DEF WriterInv, Complete
  <2> QED BY <2>3, <2>4 DEF WriterInv
<1>10. CASE Len(Flat(held)) >= Threshold /\ file' = "open" /\ failed' = failed /\ chunks' = held /\ pending' = <<>>
            /\ owner' = "write"
  <2>1. held # <<>>
    <3>1. Len(held) = Len(pending) + 1 /\ Len(pending) \in Nat
      BY <1>2, <1>3, <1>4, AppendProperties, LenProperties DEF Chunks
    <3> QED BY <3>1, EmptySeq
  <2>2. InWrite' = Cat(p, h)
    BY <1>1, <1>2, <1>5, <1>10, <2>1, DropAll DEF InWrite
  <2>3. Content' = Cat(<<>>, Cat(<<>>, Cat(Cat(p, h), Cat(<<>>, q))))
    BY <1>1, <1>2, <1>3, <1>10, <2>2, FlatNone DEF Content
  <2>4. Content' = Content
    BY <2>3, <1>4, <1>6, <1>7, CatNothing
  <2>5. Ordered'
    BY <1>1, <2>4, OrderedStays DEF WriterInv, HoldsInv, WriterTypes
  <2>6. Complete'
    <3>1. SUFFICES ASSUME ~failed' PROVE Complete'
      BY DEF Complete
    <3>2. Content = Bytes(1, accepted) /\ accepted \in Nat /\ (caller = "record" => next = accepted + 1)
      BY <1>2, <1>10, <3>1 DEF WriterInv, HoldsInv, WriterTypes, Complete
    <3>3. Len(Content) = accepted
      BY <3>2, BytesAre
    <3>4. Content = Cat(Cat(p, h), q)
      BY <1>6, <1>7
    <3>5. Len(Content) = Len(Cat(p, h)) + Len(q) /\ Len(Cat(p, h)) \in Nat /\ Len(q) \in Nat
      BY <1>4, <1>5, <3>4, Puts DEF Cat
    <3>6. accepted >= Threshold
      BY <1>5, <1>10, <3>3, <3>5, WriterAssumption
    <3> QED BY <1>1, <1>10, <2>4, <3>2, <3>6 DEF Complete
  <2> QED BY <2>5, <2>6 DEF WriterInv
<1>11. CASE failed' /\ pending' = <<>> /\ UNCHANGED <<file, chunks, owner>>
  <2>1. Content' = Cat(<<>>, Cat(<<>>, Cat(<<>>, Cat(<<>>, q))))
    BY <1>1, <1>2, <1>3, <1>11, FlatNone DEF Content, InWrite
  <2>2. Content' = Cat(<<>>, q)
    BY <2>1, <1>4, CatNothing
  <2>3. Content = Cat(<<>>, Cat(Cat(p, h), q))
    BY <1>6, <1>7, CatNothing
  <2>4. Ordered'
    BY <1>1, <1>4, <1>5, <1>6, <2>2, <2>3, AscendsLess DEF WriterInv, Ordered, Cat
  <2>5. Complete'
    BY <1>11 DEF Complete
  <2> QED BY <2>4, <2>5 DEF WriterInv
<1> QED BY <1>8, <1>9, <1>10, <1>11

\* Close gives up what is too little for a file, or what no file could be created for.
LEMMA CloseInStream == ASSUME WriterInv, HoldsInv', CloseWaited PROVE WriterInv'
<1> USE DEF stream, worker
<1>1. /\ UNCHANGED <<next, accepted, dataCh, disk, buf, taken>>
      /\ owner = "done" /\ caller' = "final" /\ next \in Int
  BY DEF CloseWaited, WriterInv, HoldsInv, WriterTypes
<1>2. /\ chunks = <<>> /\ taken = 0 /\ dataCh = <<>> /\ pending \in Chunks /\ caller = "closing"
      /\ (file = "none" => disk = <<>> /\ buf = <<>>)
  BY <1>1 DEF WriterInv, HoldsInv, InHand, Writing, Stages, WriterTypes
<1>3. \/ file = "open" /\ owner' = "flush" /\ UNCHANGED <<file, pending, chunks>> /\ failed' = failed
      \/ /\ file = "none" /\ Len(Flat(pending)) < Threshold /\ pending' = <<>> /\ owner' = "close"
         /\ UNCHANGED <<file, chunks>> /\ failed' = failed
      \/ file = "none" /\ failed' /\ pending' = <<>> /\ owner' = "close" /\ UNCHANGED <<file, chunks>>
      \/ /\ file = "none" /\ Len(Flat(pending)) >= Threshold /\ file' = "open" /\ failed' = failed
         /\ chunks' = pending /\ pending' = <<>> /\ owner' = "write"
  BY DEF CloseWaited, Create, CreateFails
<1>4. CASE file = "open" /\ owner' = "flush" /\ UNCHANGED <<file, pending, chunks>> /\ failed' = failed
  <2>1. Content' = Content
    BY <1>1, <1>4 DEF Content, InWrite
  <2>2. Ordered'
    BY <1>1, <2>1, OrderedStays DEF WriterInv
  <2>3. Complete'
    BY <1>1, <1>4, <2>1 DEF WriterInv, Complete
  <2> QED BY <2>2, <2>3 DEF WriterInv
<1>5. PICK p : p = Flat(pending)
  OBVIOUS
<1>6. p \in ByteSeq /\ <<>> \in ByteSeq /\ Cat(<<>>, p) = p /\ Cat(p, <<>>) = p /\ Cat(<<>>, <<>>) = <<>>
  BY <1>2, <1>5, FlatIsBytes, CatNothing
<1>7. file = "none" => Content = p
  <2>1. SUFFICES ASSUME file = "none" PROVE Content = p
    OBVIOUS
  <2>2. Content = Cat(<<>>, Cat(<<>>, Cat(<<>>, Cat(p, <<>>))))
    BY <1>2, <1>5, <2>1, FlatNone DEF Content, InWrite
  <2> QED BY <1>6, <2>2
<1>8. file = "none" /\ ~failed => Len(p) = accepted
  <2>1. SUFFICES ASSUME file = "none", ~failed PROVE Len(p) = accepted
    OBVIOUS
  <2>2. Content = Bytes(1, accepted) /\ accepted \in Nat
    BY <1>2, <2>1 DEF WriterInv, HoldsInv, WriterTypes, Complete
  <2> QED BY <1>7, <2>1, <2>2, BytesAre
<1>9. CASE /\ file = "none" /\ pending' = <<>> /\ owner' = "close" /\ UNCHANGED <<file, chunks>>
           /\ failed' \/ (Len(Flat(pending)) < Threshold /\ failed' = failed)
  <2>1. Content' = Cat(<<>>, Cat(<<>>, Cat(<<>>, Cat(<<>>, <<>>))))
    BY <1>1, <1>2, <1>9, FlatNone DEF Content, InWrite
  <2>2. Content' = <<>>
    BY <1>6, <2>1
  <2>3. Ordered'
    <3>1. Len(<<>>) = 0
      OBVIOUS
    <3> QED BY <1>1, <1>6, <2>2, <3>1 DEF Ordered, Ascends
  <2>4. Complete'
    BY <1>1, <1>2, <1>5, <1>8, <1>9 DEF Complete
  <2> QED BY <2>3, <2>4 DEF WriterInv
<1>10. CASE /\ file = "none" /\ Len(Flat(pending)) >= Threshold /\ file' = "open" /\ failed' = failed
            /\ chunks' = pending /\ pending' = <<>> /\ owner' = "write"
  <2>1. InWrite' = p
    BY <1>1, <1>2, <1>5, <1>6, <1>10, DropAll, FlatNone DEF InWrite
  <2>2. Content' = Cat(<<>>, Cat(<<>>, Cat(p, Cat(<<>>, <<>>))))
    BY <1>1, <1>2, <1>10, <2>1, FlatNone DEF Content
  <2>3. Content' = Content
    BY <1>6, <1>7, <1>10, <2>2
  <2>4. Ordered'
    BY <1>1, <2>3, OrderedStays DEF WriterInv
  <2>5. Complete'
    BY <1>1, <1>2, <1>5, <1>8, <1>10, <2>3 DEF WriterInv, Complete
  <2> QED BY <2>4, <2>5 DEF WriterInv
<1> QED BY <1>3, <1>4, <1>9, <1>10

LEMMA WriterStep == ASSUME WriterInv, [Next]_vars PROVE WriterInv'
<1>1. HoldsInv'
  BY HoldsStep DEF WriterInv
<1> QED BY <1>1, IdleSteps, ProcessInStream, TakeInStream, FlushInStream, WriteStepsInStream, AccountInStream,
           HoldInStream, CloseInStream DEF Next, Capture, Owner, Write, Flush, Close

\* No byte is written twice or out of order, in whatever write the disk
\* fails and however short that write was (FlushLockedBufferedWriter).
THEOREM NothingTwice == Spec => []NoDuplicates
<1>1. Init => WriterInv
  BY WriterStarts
<1>2. WriterInv /\ [Next]_vars => WriterInv'
  BY WriterStep
<1>3. WriterInv => NoDuplicates
  <2>1. SUFFICES ASSUME WriterInv PROVE NoDuplicates
    OBVIOUS
  <2>2. PICK d, b, w, p, q : d = disk /\ b = buf /\ w = InWrite /\ p = Flat(pending) /\ q = Flat(dataCh)
    OBVIOUS
  <2>3. d \in ByteSeq /\ b \in ByteSeq /\ w \in ByteSeq /\ p \in ByteSeq /\ q \in ByteSeq
    BY <2>1, <2>2, ContentParts DEF WriterInv
  <2>4. Cat(Cat(Cat(Cat(d, b), w), p), q) = Cat(d, Cat(b, Cat(w, Cat(p, q))))
    <3>1. Cat(d, b) \in ByteSeq /\ Cat(p, q) \in ByteSeq
      BY <2>3, CatIs
    <3>2. Cat(Cat(d, b), w) \in ByteSeq /\ Cat(w, Cat(p, q)) \in ByteSeq
      BY <2>3, <3>1, CatIs
    <3>3. Cat(Cat(Cat(Cat(d, b), w), p), q) = Cat(Cat(Cat(d, b), w), Cat(p, q))
      BY <2>3, <3>2, CatAssociative
    <3>4. Cat(Cat(Cat(d, b), w), Cat(p, q)) = Cat(Cat(d, b), Cat(w, Cat(p, q)))
      BY <2>3, <3>1, CatAssociative
    <3>5. Cat(Cat(d, b), Cat(w, Cat(p, q))) = Cat(d, Cat(b, Cat(w, Cat(p, q))))
      BY <2>3, <3>2, CatAssociative
    <3> QED BY <3>3, <3>4, <3>5
  <2>5. Content = Cat(Cat(Cat(Cat(d, b), w), p), q)
    BY <2>2, <2>4 DEF Content
  <2>6. Content = disk \o buf \o InWrite \o Flat(pending) \o Flat(dataCh)
    BY <2>2, <2>5 DEF Cat
  <2>7. Increasing(Content)
    BY <2>1, AscendsIncreasing DEF WriterInv, Ordered
  <2> QED BY <2>6, <2>7 DEF NoDuplicates, InWrite
<1> QED BY <1>1, <1>2, <1>3, PTL DEF Spec

\* When Close has returned and nothing has failed, the file is what Process
\* took, or there is none and it was too little (BufferedStreamWriterProcessor).
THEOREM CloseLeavesAll == Spec => []CloseIsComplete
<1>1. Init => WriterInv
  BY WriterStarts
<1>2. WriterInv /\ [Next]_vars => WriterInv'
  BY WriterStep
<1>3. WriterInv => CloseIsComplete
  <2>1. SUFFICES ASSUME WriterInv, caller = "closed", ~failed
                 PROVE  IF accepted >= Threshold THEN disk = Bytes(1, accepted) ELSE file = "none" /\ disk = <<>>
    BY DEF CloseIsComplete
  <2>2. owner = "closed" /\ chunks = <<>> /\ pending = <<>> /\ dataCh = <<>> /\ disk \in ByteSeq
        /\ (file = "none" => disk = <<>>) /\ accepted \in Nat
    BY <2>1 DEF WriterInv, HoldsInv, Stages, InHand, Writing, WriterTypes
  <2>3. buf = <<>>
    BY <2>1, <2>2 DEF WriterInv, Complete
  <2>4. Content = Cat(disk, Cat(<<>>, Cat(<<>>, Cat(<<>>, <<>>))))
    BY <2>2, <2>3, FlatNone DEF Content, InWrite
  <2>5. Content = disk
    <3>1. <<>> \in ByteSeq /\ Cat(<<>>, <<>>) = <<>>
      BY <2>2, CatNothing
    <3> QED BY <2>2, <2>4, <3>1, CatNothing
  <2> QED BY <2>1, <2>2, <2>5, WriterAssumption DEF WriterInv, Complete
<1> QED BY <1>1, <1>2, <1>3, PTL DEF Spec
=============================================================================
