------------------------ MODULE SessionAttachmentProofs ------------------------
(* Theorems about SessionAttachment and the decoder of AttachmentStream. *)
EXTENDS SessionAttachment, SequenceTheorems, WellFoundedInduction, TLAPS

-----------------------------------------------------------------------------
(* First and last elements.                                                *)

LEMMA HasMinimum ==
    ASSUME NEW I \in SUBSET Nat, NEW k \in I
    PROVE  Min(I) \in I /\ \A j \in I : Min(I) <= j
<1> DEFINE R == OpToRel(<, Nat)
<1>1. \E i \in I : \A j \in I : ~(<<j, i>> \in R)
  <2> HIDE DEF R
  <2>1. IsWellFoundedOn(R, Nat)
    BY NatLessThanWellFounded DEF R
  <2> QED  BY <2>1, WFMin
<1>2. \A i, j \in Nat : <<j, i>> \in R <=> j < i
  BY DEF OpToRel
<1> HIDE DEF R
<1>3. PICK i \in I : \A j \in I : ~(<<j, i>> \in R)
  BY <1>1
<1>4. \A j \in I : i <= j
  <2> TAKE j \in I
  <2>1. i \in Nat /\ j \in Nat
    OBVIOUS
  <2>2. ~(j < i)
    BY <1>2, <1>3, <2>1
  <2> QED  BY <2>1, <2>2
<1> QED  BY <1>4 DEF Min

\* What holds of 0 and is passed on holds of every number.
LEMMA Induction ==
    ASSUME NEW I, 0 \in I, \A n \in Nat : n \in I => n + 1 \in I
    PROVE  Nat \subseteq I
<1> SUFFICES ASSUME NEW k \in Nat, k \notin I PROVE FALSE
  OBVIOUS
<1> DEFINE J == Nat \ I
<1>1. Min(J) \in J /\ \A j \in J : Min(J) <= j
  <2>1. J \in SUBSET Nat /\ k \in J
    OBVIOUS
  <2> HIDE DEF J
  <2> QED  BY <2>1, HasMinimum
<1>2. Min(J) # 0 /\ Min(J) \in Nat
  BY <1>1
<1>3. Min(J) - 1 \in Nat /\ Min(J) - 1 \notin J
  BY <1>1, <1>2
<1>4. Min(J) - 1 \in I
  BY <1>3
<1>5. Min(J) - 1 + 1 = Min(J)
  BY <1>2
<1> QED  BY <1>1, <1>3, <1>4, <1>5

LEMMA MaximumIs ==
    ASSUME NEW I, NEW m \in I, I \subseteq Nat, \A i \in I : i <= m
    PROVE  Max(I) = m
<1>1. Max(I) \in I /\ \A i \in I : Max(I) >= i
  BY DEF Max
<1>2. m \in Nat /\ Max(I) \in Nat
  BY <1>1
<1> QED  BY <1>1, <1>2

-----------------------------------------------------------------------------
(* Pieces of the stream.                                                   *)

\* What a stream is made of.
Byte == {"rs", "v1", "us"} \cup Tokens \cup Events
        \cup UNION {{body[i] : i \in DOMAIN body} : body \in Bodies}

Bytes == Seq(Byte)

LEMMA BytesOfMarkers ==
    /\ {"rs", "v1", "us"} \subseteq Byte
    /\ Tokens \subseteq Byte /\ Events \subseteq Byte
BY DEF Byte

\* The stream from the k-th byte on.
From(bytes, k) == SubSeq(bytes, k, Len(bytes))

LEMMA FromIs ==
    ASSUME NEW S, NEW bytes \in Seq(S), NEW k \in 1..(Len(bytes) + 1)
    PROVE  /\ From(bytes, k) \in Seq(S)
           /\ Len(From(bytes, k)) = Len(bytes) + 1 - k
           /\ \A i \in 1..(Len(bytes) + 1 - k) : From(bytes, k)[i] = bytes[k + i - 1]
<1>1. Len(bytes) \in Nat
  OBVIOUS
<1>2. \A i \in k..Len(bytes) : bytes[i] \in S
  OBVIOUS
<1> QED  BY <1>1, <1>2, SubSeqProperties DEF From

LEMMA FirstsAre ==
    ASSUME NEW S, NEW bytes \in Seq(S), NEW n \in 0..Len(bytes)
    PROVE  /\ SubSeq(bytes, 1, n) \in Seq(S)
           /\ Len(SubSeq(bytes, 1, n)) = n
           /\ \A i \in 1..n : SubSeq(bytes, 1, n)[i] = bytes[i]
<1>1. Len(bytes) \in Nat
  OBVIOUS
<1>2. \A i \in 1..n : bytes[i] \in S
  OBVIOUS
<1> QED  BY <1>1, <1>2, SubSeqProperties

\* What is cut in two is whole again.
LEMMA CutAndJoin ==
    ASSUME NEW S, NEW bytes \in Seq(S), NEW n \in 0..Len(bytes)
    PROVE  SubSeq(bytes, 1, n) \o From(bytes, n + 1) = bytes
<1>1. Len(bytes) \in Nat
  OBVIOUS
<1>2. SubSeq(bytes, 1, n) \o SubSeq(bytes, n + 1, Len(bytes)) = SubSeq(bytes, 1, Len(bytes))
  <2>1. 1 \in 1..(Len(bytes) + 1) /\ n \in (1 - 1)..Len(bytes) /\ Len(bytes) \in n..Len(bytes)
    BY <1>1
  <2> QED  BY <2>1, ConcatAdjacentSubSeq
<1> QED  BY <1>2, SubSeqFull DEF From

LEMMA FromFrom ==
    ASSUME NEW S, NEW bytes \in Seq(S), NEW k \in 1..(Len(bytes) + 1),
           NEW l \in 1..(Len(bytes) + 2 - k)
    PROVE  From(From(bytes, k), l) = From(bytes, k + l - 1)
<1>1. Len(bytes) \in Nat /\ k + l - 1 \in 1..(Len(bytes) + 1)
  OBVIOUS
<1> DEFINE a == From(bytes, k)
           b == From(bytes, k + l - 1)
<1>2. a \in Seq(S) /\ Len(a) = Len(bytes) + 1 - k
      /\ \A i \in 1..(Len(bytes) + 1 - k) : a[i] = bytes[k + i - 1]
  BY FromIs
<1>3. b \in Seq(S) /\ Len(b) = Len(bytes) + 2 - k - l
      /\ \A i \in 1..(Len(bytes) + 2 - k - l) : b[i] = bytes[k + l + i - 2]
  BY <1>1, FromIs
<1> HIDE DEF a, b
<1>4. l \in 1..(Len(a) + 1)
  BY <1>1, <1>2
<1>5. From(a, l) \in Seq(S) /\ Len(From(a, l)) = Len(a) + 1 - l
      /\ \A i \in 1..(Len(a) + 1 - l) : From(a, l)[i] = a[l + i - 1]
  <2>1. a \in Seq(S)
    BY <1>2
  <2> QED  BY <2>1, <1>4, FromIs
<1>6. Len(From(a, l)) = Len(b)
  BY <1>1, <1>2, <1>3, <1>5
<1>7. \A i \in 1..Len(b) : From(a, l)[i] = b[i]
  BY <1>1, <1>2, <1>3, <1>5, <1>6
<1>8. From(a, l) = b
  BY <1>3, <1>5, <1>6, <1>7, SeqEqual
<1> QED  BY <1>8 DEF a, b

\* What is left of a stream when more of it has come.
LEMMA FromConcat ==
    ASSUME NEW S, NEW s \in Seq(S), NEW t \in Seq(S), NEW k \in 1..(Len(s) + 1)
    PROVE  From(s \o t, k) = From(s, k) \o t
<1> DEFINE m == Len(s)
           n == Len(t)
           u == s \o t
           r == From(s, k)
           a == From(u, k)
           b == r \o t
<1>1. m \in Nat /\ n \in Nat /\ k \in Nat /\ 1 <= k /\ k <= m + 1
  OBVIOUS
<1>2. u \in Seq(S) /\ Len(u) = m + n
      /\ \A i \in 1..(m + n) : u[i] = IF i <= m THEN s[i] ELSE t[i - m]
  BY ConcatProperties
<1>3. r \in Seq(S) /\ Len(r) = m + 1 - k
      /\ \A i \in 1..(m + 1 - k) : r[i] = s[k + i - 1]
  BY FromIs
<1> HIDE DEF m, u, r
<1>4. a \in Seq(S) /\ Len(a) = m + n + 1 - k
      /\ \A i \in 1..(m + n + 1 - k) : a[i] = u[k + i - 1]
  <2>1. u \in Seq(S) /\ k \in 1..(Len(u) + 1)
    BY <1>1, <1>2
  <2>2. a \in Seq(S) /\ Len(a) = Len(u) + 1 - k
        /\ \A i \in 1..(Len(u) + 1 - k) : a[i] = u[k + i - 1]
    BY <2>1, FromIs
  <2> QED  BY <2>2, <1>2
<1>5. b \in Seq(S) /\ Len(b) = m + 1 - k + n
      /\ \A i \in 1..(m + 1 - k + n) :
            b[i] = IF i <= m + 1 - k THEN r[i] ELSE t[i - (m + 1 - k)]
  <2>1. r \in Seq(S)
    BY <1>3
  <2>2. b \in Seq(S) /\ Len(b) = Len(r) + n
        /\ \A i \in 1..(Len(r) + n) : b[i] = IF i <= Len(r) THEN r[i] ELSE t[i - Len(r)]
    BY <2>1, ConcatProperties
  <2> QED  BY <2>2, <1>3
<1> HIDE DEF a, b, n
<1>6. ASSUME NEW i \in 1..(m + n + 1 - k) PROVE a[i] = b[i]
  <2>1. i \in Nat /\ 1 <= i /\ i <= m + n + 1 - k
    BY <1>1
  <2>2. CASE i <= m + 1 - k
    <3>1. k + i - 1 \in 1..(m + n) /\ k + i - 1 <= m /\ i \in 1..(m + 1 - k) /\ i \in 1..(m + 1 - k + n)
      BY <1>1, <2>1, <2>2
    <3> QED  BY <1>2, <1>3, <1>4, <1>5, <2>2, <3>1
  <2>3. CASE i > m + 1 - k
    <3>1. k + i - 1 \in 1..(m + n) /\ ~(k + i - 1 <= m) /\ ~(i <= m + 1 - k) /\ i \in 1..(m + 1 - k + n)
          /\ k + i - 1 - m = i - (m + 1 - k)
      BY <1>1, <2>1, <2>3
    <3>2. a[i] = t[k + i - 1 - m]
      BY <1>1, <1>2, <1>4, <2>1, <3>1
    <3>3. b[i] = t[i - (m + 1 - k)]
      BY <1>5, <3>1
    <3> QED  BY <3>1, <3>2, <3>3
  <2> QED  BY <1>1, <2>1, <2>2, <2>3
<1>7. Len(a) = Len(b)
  BY <1>1, <1>4, <1>5
<1>8. a = b
  BY <1>4, <1>5, <1>6, <1>7, SeqEqual
<1> QED  BY <1>8 DEF a, b, u, r

LEMMA FirstsOfFrom ==
    ASSUME NEW S, NEW bytes \in Seq(S), NEW a \in Nat, NEW b \in Nat, a + b <= Len(bytes)
    PROVE  SubSeq(bytes, 1, a) \o SubSeq(From(bytes, a + 1), 1, b) = SubSeq(bytes, 1, a + b)
<1> DEFINE u == SubSeq(bytes, 1, a)
           r == From(bytes, a + 1)
           v == SubSeq(r, 1, b)
           w == SubSeq(bytes, 1, a + b)
<1>1. Len(bytes) \in Nat /\ a + b \in 0..Len(bytes) /\ a \in 0..Len(bytes) /\ a + 1 \in 1..(Len(bytes) + 1)
  OBVIOUS
<1>2. u \in Seq(S) /\ Len(u) = a /\ \A i \in 1..a : u[i] = bytes[i]
  BY <1>1, FirstsAre
<1>3. w \in Seq(S) /\ Len(w) = a + b /\ \A i \in 1..(a + b) : w[i] = bytes[i]
  BY <1>1, FirstsAre
<1>4. r \in Seq(S) /\ Len(r) = Len(bytes) - a /\ \A i \in 1..(Len(bytes) - a) : r[i] = bytes[a + i]
  <2>1. r \in Seq(S) /\ Len(r) = Len(bytes) + 1 - (a + 1)
        /\ \A i \in 1..(Len(bytes) + 1 - (a + 1)) : r[i] = bytes[a + 1 + i - 1]
    BY <1>1, FromIs
  <2>2. Len(bytes) + 1 - (a + 1) = Len(bytes) - a
    BY <1>1
  <2>3. ASSUME NEW i \in 1..(Len(bytes) - a) PROVE r[i] = bytes[a + i]
    <3>1. i \in 1..(Len(bytes) + 1 - (a + 1)) /\ a + 1 + i - 1 = a + i
      BY <1>1
    <3> QED  BY <2>1, <3>1
  <2> QED  BY <2>1, <2>2, <2>3
<1> HIDE DEF u, r, w
<1>5. v \in Seq(S) /\ Len(v) = b /\ \A i \in 1..b : v[i] = r[i]
  <2>1. r \in Seq(S) /\ b \in 0..Len(r)
    BY <1>1, <1>4
  <2> QED  BY <2>1, FirstsAre
<1> HIDE DEF v
<1>6. u \o v \in Seq(S) /\ Len(u \o v) = a + b
      /\ \A i \in 1..(a + b) : (u \o v)[i] = IF i <= a THEN u[i] ELSE v[i - a]
  <2>1. u \in Seq(S) /\ v \in Seq(S)
    BY <1>2, <1>5
  <2>2. u \o v \in Seq(S) /\ Len(u \o v) = Len(u) + Len(v)
        /\ \A i \in 1..(Len(u) + Len(v)) : (u \o v)[i] = IF i <= Len(u) THEN u[i] ELSE v[i - Len(u)]
    BY <2>1, ConcatProperties
  <2> QED  BY <2>2, <1>2, <1>5
<1>7. ASSUME NEW i \in 1..(a + b) PROVE (u \o v)[i] = w[i]
  <2>1. CASE i <= a
    <3>1. i \in 1..a
      BY <2>1
    <3> QED  BY <1>2, <1>3, <1>6, <2>1, <3>1
  <2>2. CASE ~(i <= a)
    <3>1. i - a \in 1..b /\ i - a \in 1..(Len(bytes) - a) /\ a + (i - a) = i
      BY <1>1, <2>2
    <3>2. v[i - a] = bytes[i]
      BY <1>4, <1>5, <3>1
    <3> QED  BY <1>3, <1>6, <2>2, <3>2
  <2> QED  BY <2>1, <2>2
<1>8. Len(u \o v) = Len(w)
  BY <1>3, <1>6
<1>9. u \o v = w
  BY <1>3, <1>6, <1>7, <1>8, SeqEqual
<1> QED  BY <1>9 DEF u, v, r, w

-----------------------------------------------------------------------------
(* One pass of the decoder.                                                *)

Decoders == [pending : Bytes, ready : BOOLEAN, finished : BOOLEAN, out : Bytes, events : Seq(Events)]

LEMMA FlushIs ==
    ASSUME NEW d \in Decoders, NEW n \in 0..Len(d.pending)
    PROVE  /\ Flush(d, n) \in Decoders
           /\ Flush(d, n) = [d EXCEPT !.out = d.out \o SubSeq(d.pending, 1, n), !.pending = From(d.pending, n + 1)]
           /\ Flush(d, n).pending = From(d.pending, n + 1)
           /\ Flush(d, n).out = d.out \o SubSeq(d.pending, 1, n)
           /\ Flush(d, n).ready = d.ready /\ Flush(d, n).finished = d.finished
           /\ Flush(d, n).events = d.events
<1>1. d.pending \in Seq(Byte) /\ d.out \in Seq(Byte)
  BY DEF Decoders, Bytes
<1>2. SubSeq(d.pending, 1, n) \in Seq(Byte)
  BY <1>1, FirstsAre
<1>3. n + 1 \in 1..(Len(d.pending) + 1)
  BY <1>1
<1>4. From(d.pending, n + 1) \in Seq(Byte)
  BY <1>1, <1>3, FromIs
<1>5. d.out \o SubSeq(d.pending, 1, n) \in Seq(Byte)
  BY <1>1, <1>2
<1>6. Flush(d, n) = [d EXCEPT !.out = d.out \o SubSeq(d.pending, 1, n), !.pending = From(d.pending, n + 1)]
  BY DEF Flush, From
<1> HIDE DEF From
<1> QED  BY <1>4, <1>5, <1>6 DEF Decoders, Bytes

LEMMA FlushTwice ==
    ASSUME NEW d \in Decoders, NEW a \in Nat, NEW b \in Nat, a + b <= Len(d.pending)
    PROVE  Flush(Flush(d, a), b) = Flush(d, a + b)
<1> DEFINE P == d.pending
           e == Flush(d, a)
<1>1. P \in Seq(Byte) /\ d.out \in Seq(Byte) /\ Len(P) \in Nat
  BY DEF Decoders, Bytes
<1>2. a \in 0..Len(P) /\ a + b \in 0..Len(P) /\ a + 1 \in 1..(Len(P) + 1)
  BY <1>1
<1>3. /\ e \in Decoders /\ e.pending = From(P, a + 1) /\ e.out = d.out \o SubSeq(P, 1, a)
      /\ e = [d EXCEPT !.out = d.out \o SubSeq(P, 1, a), !.pending = From(P, a + 1)]
  BY <1>2, FlushIs
<1>4. From(P, a + 1) \in Seq(Byte) /\ Len(From(P, a + 1)) = Len(P) + 1 - (a + 1)
  BY <1>1, <1>2, FromIs
<1>5. b \in 0..Len(e.pending)
  BY <1>1, <1>3, <1>4
<1>6. Flush(e, b) = [e EXCEPT !.out = e.out \o SubSeq(e.pending, 1, b), !.pending = From(e.pending, b + 1)]
  BY <1>3, <1>5, FlushIs
<1>7. Flush(d, a + b) = [d EXCEPT !.out = d.out \o SubSeq(P, 1, a + b), !.pending = From(P, a + b + 1)]
  BY <1>2, FlushIs
<1>8. From(From(P, a + 1), b + 1) = From(P, a + b + 1)
  <2>1. b + 1 \in 1..(Len(P) + 2 - (a + 1)) /\ a + 1 + (b + 1) - 1 = a + b + 1
    BY <1>1
  <2>2. From(From(P, a + 1), b + 1) = From(P, a + 1 + (b + 1) - 1)
    BY <1>1, <1>2, <2>1, FromFrom
  <2> QED  BY <2>1, <2>2
<1>9. (d.out \o SubSeq(P, 1, a)) \o SubSeq(From(P, a + 1), 1, b) = d.out \o SubSeq(P, 1, a + b)
  <2>1. SubSeq(P, 1, a) \in Seq(Byte)
    BY <1>1, <1>2, FirstsAre
  <2>2. SubSeq(From(P, a + 1), 1, b) \in Seq(Byte)
    BY <1>3, <1>4, <1>5, FirstsAre
  <2>3. \A x, y, z \in Seq(Byte) : (x \o y) \o z = x \o (y \o z)
    BY ConcatAssociative
  <2>5. (d.out \o SubSeq(P, 1, a)) \o SubSeq(From(P, a + 1), 1, b)
        = d.out \o (SubSeq(P, 1, a) \o SubSeq(From(P, a + 1), 1, b))
    BY <1>1, <2>1, <2>2, <2>3, ZenonT(30)
  <2>4. SubSeq(P, 1, a) \o SubSeq(From(P, a + 1), 1, b) = SubSeq(P, 1, a + b)
    BY <1>1, FirstsOfFrom
  <2> QED  BY <2>4, <2>5
<1> HIDE DEF P, e
<1> DEFINE x == d.out \o SubSeq(P, 1, a + b)
           y == From(P, a + b + 1)
<1>10. Flush(e, b) = [e EXCEPT !.out = x, !.pending = y]
  BY <1>3, <1>6, <1>8, <1>9
<1>11. Flush(d, a + b) = [d EXCEPT !.out = x, !.pending = y]
  BY <1>7
<1> HIDE DEF x, y
<1>12. [e EXCEPT !.out = x, !.pending = y] = [d EXCEPT !.out = x, !.pending = y]
  BY <1>3 DEF Decoders
<1> QED  BY <1>10, <1>11, <1>12 DEF e

LEMMA StartsAtIs ==
    ASSUME NEW P \in Bytes, NEW i \in DOMAIN P
    PROVE  StartsAt(P, i) <=> i + 1 <= Len(P) /\ P[i] = "rs" /\ P[i + 1] = "v1"
<1>1. P \in Seq(Byte) /\ Len(P) \in Nat /\ i \in 1..Len(P)
  BY DEF Bytes
<1>2. Len(Prefix) = 2 /\ i + Len(Prefix) - 1 = i + 1
  BY <1>1 DEF Prefix
<1>3. CASE i + 1 <= Len(P)
  <2> DEFINE s == SubSeq(P, i, i + 1)
  <2>1. i \in Int /\ i + 1 \in Int /\ \A j \in i..(i + 1) : P[j] \in Byte
    BY <1>1, <1>3
  <2>2. s \in Seq(Byte) /\ Len(s) = 2 /\ \A j \in 1..2 : s[j] = P[i + j - 1]
    <3>1. /\ s \in Seq(Byte) /\ Len(s) = IF i <= i + 1 THEN i + 1 - i + 1 ELSE 0
          /\ \A j \in 1..(i + 1 - i + 1) : s[j] = P[i + j - 1]
      BY <2>1, SubSeqProperties
    <3>2. i <= i + 1 /\ i + 1 - i + 1 = 2
      BY <1>1
    <3> QED  BY <3>1, <3>2
  <2> HIDE DEF s
  <2>3. s[1] = P[i] /\ s[2] = P[i + 1]
    <3>1. i + 1 - 1 = i /\ i + 2 - 1 = i + 1 /\ 1 \in 1..2 /\ 2 \in 1..2
      BY <1>1
    <3> QED  BY <2>2, <3>1
  <2>4. s = <<"rs", "v1">> <=> s[1] = "rs" /\ s[2] = "v1"
    <3>1. ASSUME s[1] = "rs", s[2] = "v1" PROVE s = <<"rs", "v1">>
      <4>1. <<"rs", "v1">> \in Seq(Byte) /\ Len(<<"rs", "v1">>) = 2
            /\ <<"rs", "v1">>[1] = "rs" /\ <<"rs", "v1">>[2] = "v1"
        BY BytesOfMarkers
      <4>2. \A j \in 1..2 : j = 1 \/ j = 2
        OBVIOUS
      <4>3. \A j \in 1..Len(s) : s[j] = <<"rs", "v1">>[j]
        BY <2>2, <3>1, <4>1, <4>2
      <4> HIDE DEF s
      <4> QED  BY <2>2, <4>1, <4>3, SeqEqual
    <3> QED  BY <3>1
  <2>5. StartsAt(P, i) <=> s = <<"rs", "v1">>
    BY <1>2, <1>3 DEF StartsAt, s, Prefix
  <2> QED  BY <1>3, <2>3, <2>4, <2>5
<1>4. CASE ~(i + 1 <= Len(P))
  BY <1>2, <1>4 DEF StartsAt
<1> QED  BY <1>3, <1>4

\* A marker stands in the stream at m.
MarkerAt(S, m, token, event) ==
    /\ m \in Nat \ {0} /\ m + 4 <= Len(S)
    /\ S[m] = "rs" /\ S[m + 1] = "v1" /\ S[m + 2] = token /\ S[m + 3] = event /\ S[m + 4] = "us"

LEMMA MarkerIs ==
    ASSUME NEW token \in Byte, NEW event \in Byte
    PROVE  /\ AttachmentMarker(token, event) = <<"rs", "v1", token, event, "us">>
           /\ AttachmentMarker(token, event) \in Bytes
           /\ Len(AttachmentMarker(token, event)) = 5
<1>1. <<"rs", "v1">> \in Seq(Byte) /\ <<token, event, "us">> \in Seq(Byte)
      /\ Len(<<"rs", "v1">>) = 2 /\ Len(<<token, event, "us">>) = 3
  BY BytesOfMarkers
<1> DEFINE t == <<"rs", "v1", token, event, "us">>
           s == AttachmentMarker(token, event)
<1>2. t \in Seq(Byte) /\ Len(t) = 5
      /\ t[1] = "rs" /\ t[2] = "v1" /\ t[3] = token /\ t[4] = event /\ t[5] = "us"
  BY BytesOfMarkers
<1>3. s = <<"rs", "v1">> \o <<token, event, "us">>
  BY DEF AttachmentMarker, Prefix, Delimiter
<1> HIDE DEF s
<1>4. s \in Seq(Byte) /\ Len(s) = 5
      /\ \A i \in 1..5 : s[i] = IF i <= 2 THEN <<"rs", "v1">>[i] ELSE <<token, event, "us">>[i - 2]
  <2>1. s \in Seq(Byte) /\ Len(s) = Len(<<"rs", "v1">>) + Len(<<token, event, "us">>)
      /\ \A i \in 1..(Len(<<"rs", "v1">>) + Len(<<token, event, "us">>)) :
            s[i] = IF i <= Len(<<"rs", "v1">>) THEN <<"rs", "v1">>[i] ELSE <<token, event, "us">>[i - Len(<<"rs", "v1">>)]
    BY <1>1, <1>3, ConcatProperties
  <2> QED  BY <1>1, <2>1
<1>5. s[1] = "rs" /\ s[2] = "v1" /\ s[3] = token /\ s[4] = event /\ s[5] = "us"
  BY <1>4
<1>6. \A i \in 1..5 : i = 1 \/ i = 2 \/ i = 3 \/ i = 4 \/ i = 5
  OBVIOUS
<1> HIDE DEF t
<1>7. \A i \in 1..Len(s) : s[i] = t[i]
  BY <1>2, <1>4, <1>5, <1>6
<1>8. s = t
  BY <1>2, <1>4, <1>7, SeqEqual
<1> QED  BY <1>4, <1>8 DEF s, t, Bytes

LEMMA IsMarkerIs ==
    ASSUME NEW Q \in Bytes, NEW n \in 0..Len(Q)
    PROVE  IsMarker(SubSeq(Q, 1, n)) <=>
           n = 5 /\ \E token \in Tokens, event \in Events : MarkerAt(Q, 1, token, event)
<1> DEFINE s == SubSeq(Q, 1, n)
<1>1. Q \in Seq(Byte) /\ Len(Q) \in Nat
  BY DEF Bytes
<1>2. s \in Seq(Byte) /\ Len(s) = n /\ \A i \in 1..n : s[i] = Q[i]
  BY <1>1, FirstsAre
<1> HIDE DEF s
<1>3. ASSUME NEW token \in Tokens, NEW event \in Events
      PROVE  s = AttachmentMarker(token, event) <=> n = 5 /\ MarkerAt(Q, 1, token, event)
  <2>1. token \in Byte /\ event \in Byte
    BY BytesOfMarkers
  <2> DEFINE t == AttachmentMarker(token, event)
  <2>2. t \in Seq(Byte) /\ Len(t) = 5
        /\ t[1] = "rs" /\ t[2] = "v1" /\ t[3] = token /\ t[4] = event /\ t[5] = "us"
    <3>1. t = <<"rs", "v1", token, event, "us">> /\ t \in Seq(Byte) /\ Len(t) = 5
      BY <2>1, MarkerIs DEF Bytes
    <3> HIDE DEF t
    <3> QED  BY <3>1
  <2> HIDE DEF t
  <2>3. ASSUME s = t PROVE n = 5 /\ MarkerAt(Q, 1, token, event)
    <3>1. n = 5
      BY <1>2, <2>2, <2>3
    <3>2. Q[1] = t[1] /\ Q[2] = t[2] /\ Q[3] = t[3] /\ Q[4] = t[4] /\ Q[5] = t[5]
      BY <1>2, <2>3, <3>1
    <3>3. 1 + 1 = 2 /\ 1 + 2 = 3 /\ 1 + 3 = 4 /\ 1 + 4 = 5 /\ 5 <= Len(Q)
      BY <1>1, <3>1
    <3> QED  BY <2>2, <3>1, <3>2, <3>3 DEF MarkerAt
  <2>4. ASSUME n = 5, MarkerAt(Q, 1, token, event) PROVE s = t
    <3>1. \A i \in 1..5 : i = 1 \/ i = 2 \/ i = 3 \/ i = 4 \/ i = 5
      OBVIOUS
    <3>2. \A i \in 1..Len(s) : s[i] = t[i]
      BY <1>2, <2>2, <2>4, <3>1 DEF MarkerAt
    <3> QED  BY <1>2, <2>2, <2>4, <3>2, SeqEqual, SMTT(30)
  <2> QED  BY <2>3, <2>4 DEF t
<1> QED  BY <1>3 DEF IsMarker, s

LEMMA MinimumIs ==
    ASSUME NEW I, NEW m \in I, I \subseteq Nat, \A i \in I : m <= i
    PROVE  Min(I) = m
<1>1. Min(I) \in I /\ \A i \in I : Min(I) <= i
  BY DEF Min
<1>2. m \in Nat /\ Min(I) \in Nat
  BY <1>1
<1> QED  BY <1>1, <1>2

LEMMA SubSeqOfOne ==
    ASSUME NEW S, NEW s \in Seq(S), NEW i \in 1..Len(s)
    PROVE  SubSeq(s, i, i) = <<s[i]>>
<1>1. i \in Int /\ s[i] \in S
  OBVIOUS
<1>2. ASSUME NEW k \in Int, k = i
      PROVE  /\ SubSeq(s, i, k) \in Seq(S)
             /\ Len(SubSeq(s, i, k)) = IF i <= k THEN k - i + 1 ELSE 0
             /\ \A j \in 1..(k - i + 1) : SubSeq(s, i, k)[j] = s[i + j - 1]
  <2>1. \A j \in i..k : s[j] \in S
    BY <1>1, <1>2
  <2> QED  BY <1>1, <2>1, SubSeqProperties
<1> DEFINE t == SubSeq(s, i, i)
<1>3. t \in Seq(S) /\ Len(t) = (IF i <= i THEN i - i + 1 ELSE 0) /\ \A j \in 1..(i - i + 1) : t[j] = s[i + j - 1]
  BY <1>1, <1>2
<1> HIDE DEF t
<1>4. Len(t) = 1 /\ t[1] = s[i]
  <2>1. i <= i /\ i - i + 1 = 1 /\ i + 1 - 1 = i /\ 1 \in 1..(i - i + 1)
    BY <1>1
  <2> QED  BY <1>3, <2>1
<1>5. t = <<s[i]>>
  BY <1>1, <1>3, <1>4
<1> QED  BY <1>5 DEF t

LEMMA KeepIs ==
    ASSUME NEW P \in Bytes, P # <<>>
    PROVE  Keep(P) = IF P[Len(P)] = "rs" THEN 1 ELSE 0
<1> DEFINE l == Len(P)
           I == {0} \cup {n \in 1..(Len(Prefix) - 1) : n <= l /\ SubSeq(P, l - n + 1, l) = SubSeq(Prefix, 1, n)}
<1>1. l \in Nat \ {0} /\ P \in Seq(Byte)
  BY DEF Bytes
<1>2. Len(Prefix) - 1 = 1 /\ l - 1 + 1 = l
  BY <1>1 DEF Prefix
<1>3. SubSeq(P, l, l) = <<P[l]>>
  BY <1>1, SubSeqOfOne
<1>4. SubSeq(Prefix, 1, 1) = <<"rs">>
  <2>1. Prefix \in Seq(Byte) /\ 1 \in 1..Len(Prefix) /\ Prefix[1] = "rs"
    BY BytesOfMarkers DEF Prefix
  <2> QED  BY <2>1, SubSeqOfOne
<1>5. 1..(Len(Prefix) - 1) = {1}
  <2>1. 1..1 = {1}
    OBVIOUS
  <2> QED  BY <1>2, <2>1
<1>6. I \subseteq 0..1 /\ 0 \in I /\ (1 \in I <=> P[l] = "rs")
  <2>1. \A n : n \in I <=> n = 0 \/ (n = 1 /\ P[l] = "rs")
    <3> TAKE n
    <3>1. n \in 1..(Len(Prefix) - 1) <=> n = 1
      BY <1>5
    <3>2. 1 <= l /\ (SubSeq(P, l - 1 + 1, l) = SubSeq(Prefix, 1, 1) <=> P[l] = "rs")
      <4>1. <<P[l]>> = <<"rs">> <=> P[l] = "rs"
        OBVIOUS
      <4>2. SubSeq(P, l - 1 + 1, l) = <<P[l]>>
        BY <1>2, <1>3
      <4>3. SubSeq(P, l - 1 + 1, l) = SubSeq(Prefix, 1, 1) <=> P[l] = "rs"
        BY <1>4, <4>1, <4>2, Zenon
      <4>4. 1 <= l
        BY <1>1
      <4> QED  BY <4>3, <4>4, Zenon
    <3>3. ASSUME n \in I, n # 0 PROVE n = 1 /\ P[l] = "rs"
      <4>1. n \in 1..(Len(Prefix) - 1) /\ SubSeq(P, l - n + 1, l) = SubSeq(Prefix, 1, n)
        BY <3>3, Zenon
      <4>2. n = 1
        BY <3>1, <4>1
      <4> HIDE DEF l, I
      <4>3. SubSeq(P, l - 1 + 1, l) = SubSeq(Prefix, 1, 1)
        BY <4>1, <4>2
      <4> QED  BY <3>2, <4>2, <4>3
    <3>4. ASSUME P[l] = "rs" PROVE 1 \in I
      <4>1. 1 \in 1..(Len(Prefix) - 1)
        BY <1>2
      <4>2. 1 <= l /\ SubSeq(P, l - 1 + 1, l) = SubSeq(Prefix, 1, 1)
        BY <3>2, <3>4
      <4> QED  BY <4>1, <4>2, Zenon
    <3> QED  BY <3>3, <3>4
  <2> QED  BY <2>1
<1>7. Keep(P) = Max(I)
  BY Zenon DEF Keep
<1> HIDE DEF I, l
<1>10. 0 \in Nat /\ 1 \in Nat /\ \A i \in 0..1 : i = 0 \/ i = 1
  OBVIOUS
<1>8. CASE P[l] = "rs"
  <2>1. 1 \in I /\ I \subseteq Nat /\ \A i \in I : i <= 1
    BY <1>6, <1>8, <1>10
  <2>2. Max(I) = 1
    BY <2>1, MaximumIs
  <2> QED  BY <1>7, <1>8, <2>2 DEF l
<1>9. CASE P[l] # "rs"
  <2>1. 0 \in I /\ I \subseteq Nat /\ \A i \in I : i <= 0
    <3>1. \A i \in I : i = 0
      BY <1>6, <1>9, <1>10
    <3> QED  BY <1>6, <3>1
  <2>2. Max(I) = 0
    BY <2>1, MaximumIs
  <2> QED  BY <1>7, <1>9, <2>2 DEF l
<1> QED  BY <1>8, <1>9

\* What a pass finds.
NoStart(P) == \A i \in DOMAIN P : ~StartsAt(P, i)

FirstStart(P, s) == s \in DOMAIN P /\ StartsAt(P, s) /\ \A i \in DOMAIN P : StartsAt(P, i) => s <= i

NoDelimiter(P, s) == \A i \in DOMAIN P : i >= s => P[i] # Delimiter

FirstDelimiter(P, s, t) ==
    /\ t \in DOMAIN P /\ s <= t /\ P[t] = Delimiter
    /\ \A i \in DOMAIN P : i >= s /\ P[i] = Delimiter => t <= i

Kept(P, eof) == IF eof THEN 0 ELSE Keep(P)

LEMMA KeptIs ==
    ASSUME NEW P \in Bytes, P # <<>>, NEW eof \in BOOLEAN
    PROVE  /\ Kept(P, eof) \in 0..1 /\ Len(P) - Kept(P, eof) \in 0..Len(P)
           /\ Kept(P, eof) = 1 <=> ~eof /\ P[Len(P)] = "rs"
<1>1. Len(P) \in Nat \ {0}
  BY DEF Bytes
<1> QED  BY <1>1, KeepIs DEF Kept

LEMMA PassOfNothing ==
    ASSUME NEW d \in Decoders, d.pending = <<>>, NEW eof \in BOOLEAN
    PROVE  Pass(d, eof) = d
BY DEF Pass

LEMMA PassOfText ==
    ASSUME NEW d \in Decoders, NEW eof \in BOOLEAN, d.pending # <<>>, NoStart(d.pending)
    PROVE  Pass(d, eof) = Flush(d, Len(d.pending) - Kept(d.pending, eof))
<1>1. {i \in DOMAIN d.pending : StartsAt(d.pending, i)} = {}
  BY DEF NoStart
<1>2. Pass(d, eof) = Flush(d, Len(d.pending) - IF eof THEN 0 ELSE Keep(d.pending))
  BY <1>1 DEF Pass
<1> QED  BY <1>2 DEF Kept

\* From the first prefix on.
PassOn(e, ends, end, eof) ==
    IF ends = {} /\ Len(e.pending) < MaxMarker /\ ~eof THEN e
    ELSE IF end > MaxMarker THEN Flush(e, 1)
    ELSE IF ~IsMarker(SubSeq(e.pending, 1, end)) THEN Flush(e, end)
    ELSE Learn([e EXCEPT !.pending = SubSeq(@, end + 1, Len(@))], e.pending[3], e.pending[4])

Ends(Q) == {i \in DOMAIN Q : Q[i] = Delimiter}

LEMMA PassFromStart ==
    ASSUME NEW d \in Decoders, NEW eof \in BOOLEAN, NEW s, FirstStart(d.pending, s)
    PROVE  Pass(d, eof) = LET e == Flush(d, s - 1)
                          IN PassOn(e, Ends(e.pending),
                                    IF Ends(e.pending) = {} THEN MaxMarker + 1 ELSE Min(Ends(e.pending)), eof)
<1> DEFINE starts == {i \in DOMAIN d.pending : StartsAt(d.pending, i)}
<1>1. d.pending \in Seq(Byte)
  BY DEF Decoders, Bytes
<1>2. s \in starts /\ starts \subseteq Nat /\ \A i \in starts : s <= i
  BY <1>1 DEF FirstStart
<1>3. Min(starts) = s
  <2> HIDE DEF starts
  <2> QED  BY <1>2, MinimumIs
<1>4. d.pending # <<>> /\ starts # {}
  BY <1>1, <1>2
<1>5. Len(Prefix) + 1 = 3 /\ Len(Prefix) + 2 = 4
  BY DEF Prefix
<1> DEFINE e == Flush(d, s - 1)
           ends == Ends(e.pending)
           end == IF ends = {} THEN MaxMarker + 1 ELSE Min(ends)
<1>6. Pass(d, eof) =
         IF ends = {} /\ Len(e.pending) < MaxMarker /\ ~eof THEN e
         ELSE IF end > MaxMarker THEN Flush(e, 1)
         ELSE IF ~IsMarker(SubSeq(e.pending, 1, end)) THEN Flush(e, end)
         ELSE Learn([e EXCEPT !.pending = SubSeq(@, end + 1, Len(@))],
                    e.pending[Len(Prefix) + 1], e.pending[Len(Prefix) + 2])
  BY <1>3, <1>4, Zenon DEF Pass, Ends
<1> HIDE DEF e, ends, end
<1>7. Pass(d, eof) = PassOn(e, ends, end, eof)
  BY <1>5, <1>6 DEF PassOn
<1> QED  BY <1>7 DEF e, ends, end

LEMMA AtStart ==
    ASSUME NEW d \in Decoders, NEW s, FirstStart(d.pending, s)
    PROVE  LET P == d.pending
               Q == From(P, s)
           IN /\ P \in Bytes /\ Len(P) \in Nat /\ s \in 1..Len(P) /\ s - 1 \in 0..Len(P) /\ s - 1 + 1 = s
              /\ Flush(d, s - 1) \in Decoders /\ Flush(d, s - 1).pending = Q
              /\ Q \in Bytes /\ Len(Q) = Len(P) - s + 1
              /\ \A i \in 1..(Len(P) - s + 1) : Q[i] = P[s + i - 1]
              /\ s + 1 <= Len(P) /\ P[s] = "rs" /\ P[s + 1] = "v1"
<1> DEFINE P == d.pending
           Q == From(P, s)
<1>1. P \in Bytes /\ P \in Seq(Byte) /\ Len(P) \in Nat /\ s \in DOMAIN P /\ s \in 1..Len(P) /\ StartsAt(P, s)
  BY DEF Decoders, Bytes, FirstStart
<1>2. s \in 1..(Len(P) + 1) /\ s - 1 \in 0..Len(P) /\ s - 1 + 1 = s
  BY <1>1
<1>3. Q \in Seq(Byte) /\ Len(Q) = Len(P) + 1 - s /\ \A i \in 1..(Len(P) + 1 - s) : Q[i] = P[s + i - 1]
  BY <1>1, <1>2, FromIs
<1>4. Len(P) + 1 - s = Len(P) - s + 1
  BY <1>1
<1>5. Flush(d, s - 1) \in Decoders /\ Flush(d, s - 1).pending = From(P, s - 1 + 1)
  BY <1>2, FlushIs
<1>6. s + 1 <= Len(P) /\ P[s] = "rs" /\ P[s + 1] = "v1"
  BY <1>1, StartsAtIs
<1> HIDE DEF Q
<1>7. Len(Q) = Len(P) - s + 1 /\ \A i \in 1..(Len(P) - s + 1) : Q[i] = P[s + i - 1]
  BY <1>3, <1>4
<1> QED  BY <1>1, <1>2, <1>3, <1>5, <1>6, <1>7 DEF Bytes, Q

LEMMA EndsAre ==
    ASSUME NEW d \in Decoders, NEW s, FirstStart(d.pending, s)
    PROVE  LET Q == Flush(d, s - 1).pending
           IN /\ NoDelimiter(d.pending, s) => Ends(Q) = {}
              /\ \A t : FirstDelimiter(d.pending, s, t) => Ends(Q) # {} /\ Min(Ends(Q)) = t - s + 1
<1> DEFINE P == d.pending
           Q == From(P, s)
<1>1. /\ P \in Seq(Byte) /\ Len(P) \in Nat /\ s \in 1..Len(P)
      /\ Flush(d, s - 1).pending = Q
      /\ Q \in Seq(Byte) /\ Len(Q) = Len(P) - s + 1
      /\ \A i \in 1..(Len(P) - s + 1) : Q[i] = P[s + i - 1]
  BY AtStart DEF Bytes
<1> HIDE DEF P, Q
<1>5. DOMAIN P = 1..Len(P) /\ DOMAIN Q = 1..(Len(P) - s + 1)
  BY <1>1
<1>2. \A i : i \in Ends(Q) => i \in 1..(Len(P) - s + 1) /\ s + i - 1 \in DOMAIN P /\ s + i - 1 >= s
                              /\ P[s + i - 1] = Delimiter
  <2> SUFFICES ASSUME NEW i, i \in Ends(Q)
               PROVE  i \in 1..(Len(P) - s + 1) /\ s + i - 1 \in DOMAIN P /\ s + i - 1 >= s
                      /\ P[s + i - 1] = Delimiter
    OBVIOUS
  <2>1. i \in DOMAIN Q /\ Q[i] = Delimiter
    BY DEF Ends
  <2>2. i \in 1..(Len(P) - s + 1)
    BY <1>1, <2>1
  <2>3. s + i - 1 \in 1..Len(P) /\ s + i - 1 >= s
    BY <1>1, <2>2
  <2>4. Q[i] = P[s + i - 1]
    BY <1>1, <2>2
  <2> QED  BY <1>5, <2>1, <2>2, <2>3, <2>4
<1>3. ASSUME NoDelimiter(P, s) PROVE Ends(Q) = {}
  BY <1>2, <1>3 DEF NoDelimiter
<1>4. ASSUME NEW t, FirstDelimiter(P, s, t) PROVE Ends(Q) # {} /\ Min(Ends(Q)) = t - s + 1
  <2>1. t \in 1..Len(P) /\ s <= t /\ P[t] = Delimiter
        /\ \A i \in DOMAIN P : i >= s /\ P[i] = Delimiter => t <= i
    BY <1>1, <1>4 DEF FirstDelimiter
  <2>2. t - s + 1 \in 1..(Len(P) - s + 1) /\ s + (t - s + 1) - 1 = t
    BY <1>1, <2>1
  <2>3. t - s + 1 \in Ends(Q)
    <3>1. Q[t - s + 1] = P[t]
      BY <1>1, <2>2
    <3> QED  BY <1>5, <2>1, <2>2, <3>1 DEF Ends
  <2>4. ASSUME NEW i \in Ends(Q) PROVE i \in Nat /\ t - s + 1 <= i
    <3>1. i \in 1..(Len(P) - s + 1) /\ t <= s + i - 1
      BY <1>2, <2>1
    <3> QED  BY <1>1, <2>1, <3>1
  <2> DEFINE I == Ends(Q)
             m == t - s + 1
  <2>5. m \in I /\ I \subseteq Nat /\ \A i \in I : m <= i
    BY <2>3, <2>4
  <2> HIDE DEF I, m
  <2>6. Min(I) = m
    BY <2>5, MinimumIs
  <2> QED  BY <2>3, <2>6 DEF I, m
<1> QED  BY <1>1, <1>3, <1>4 DEF P

LEMMA PassWaits ==
    ASSUME NEW d \in Decoders, NEW s, FirstStart(d.pending, s),
           NoDelimiter(d.pending, s), Len(d.pending) - s + 1 < MaxMarker
    PROVE  Pass(d, FALSE) = Flush(d, s - 1)
<1> DEFINE e == Flush(d, s - 1)
           end == IF Ends(e.pending) = {} THEN MaxMarker + 1 ELSE Min(Ends(e.pending))
<1>1. Pass(d, FALSE) = PassOn(e, Ends(e.pending), end, FALSE)
  BY PassFromStart
<1>2. Ends(e.pending) = {}
  BY EndsAre
<1>3. Len(e.pending) < MaxMarker
  BY AtStart
<1> HIDE DEF e, end
<1>4. PassOn(e, Ends(e.pending), end, FALSE) = e
  BY <1>2, <1>3 DEF PassOn
<1> QED  BY <1>1, <1>4 DEF e

\* Too much data, or no more of it.
LEMMA PassRefuses ==
    ASSUME NEW d \in Decoders, NEW eof \in BOOLEAN, NEW s, FirstStart(d.pending, s),
           \/ NoDelimiter(d.pending, s) /\ (eof \/ Len(d.pending) - s + 1 >= MaxMarker)
           \/ \E t : FirstDelimiter(d.pending, s, t) /\ t - s + 1 > MaxMarker
    PROVE  Pass(d, eof) = Flush(d, s)
<1> DEFINE P == d.pending
           e == Flush(d, s - 1)
           ends == Ends(e.pending)
           end == IF ends = {} THEN MaxMarker + 1 ELSE Min(ends)
<1>1. Pass(d, eof) = PassOn(e, ends, end, eof)
  BY PassFromStart
<1>2. Len(P) \in Nat /\ s \in 1..Len(P) /\ s - 1 \in Nat /\ s - 1 + 1 = s /\ e \in Decoders
      /\ Len(e.pending) = Len(P) - s + 1
  BY AtStart
<1>3. MaxMarker \in Nat
  BY MarkersFit
<1>4. end > MaxMarker /\ ~(ends = {} /\ Len(e.pending) < MaxMarker /\ ~eof)
  <2>1. CASE NoDelimiter(P, s) /\ (eof \/ Len(P) - s + 1 >= MaxMarker)
    <3>1. ends = {}
      BY <2>1, EndsAre
    <3> HIDE DEF e, ends, P
    <3> QED  BY <1>2, <1>3, <2>1, <3>1
  <2>2. CASE \E t : FirstDelimiter(P, s, t) /\ t - s + 1 > MaxMarker
    <3>1. PICK t : FirstDelimiter(P, s, t) /\ t - s + 1 > MaxMarker
      BY <2>2
    <3>2. ends # {} /\ Min(ends) = t - s + 1
      BY <3>1, EndsAre
    <3> HIDE DEF e, ends, P
    <3> QED  BY <3>1, <3>2
  <2> QED  BY <2>1, <2>2
<1> HIDE DEF ends, end
<1>5. PassOn(e, ends, end, eof) = Flush(e, 1)
  <2> HIDE DEF e
  <2> QED  BY <1>4 DEF PassOn
<1>6. Flush(e, 1) = Flush(d, s)
  <2>1. s - 1 + 1 <= Len(d.pending)
    BY <1>2
  <2>2. Flush(Flush(d, s - 1), 1) = Flush(d, s - 1 + 1)
    BY <1>2, <2>1, FlushTwice
  <2> QED  BY <1>2, <2>2
<1> QED  BY <1>1, <1>5, <1>6

\* A delimiter, but no marker.
LEMMA PassSkips ==
    ASSUME NEW d \in Decoders, NEW eof \in BOOLEAN, NEW s, FirstStart(d.pending, s),
           NEW t, FirstDelimiter(d.pending, s, t), t - s + 1 <= MaxMarker,
           \A token \in Tokens, event \in Events : ~MarkerAt(d.pending, s, token, event)
    PROVE  Pass(d, eof) = Flush(d, t)
<1> DEFINE P == d.pending
           e == Flush(d, s - 1)
           ends == Ends(e.pending)
           end == IF ends = {} THEN MaxMarker + 1 ELSE Min(ends)
           Q == From(P, s)
<1>1. Pass(d, eof) = PassOn(e, ends, end, eof)
  BY PassFromStart
<1>2. Len(P) \in Nat /\ s \in 1..Len(P) /\ s - 1 \in Nat /\ s - 1 + 1 = s /\ e \in Decoders /\ e.pending = Q
      /\ Q \in Bytes /\ Len(Q) = Len(P) - s + 1 /\ \A i \in 1..(Len(P) - s + 1) : Q[i] = P[s + i - 1]
  BY AtStart
<1>3. t \in 1..Len(P) /\ s <= t
  <2>1. P \in Seq(Byte)
    BY DEF Decoders, Bytes
  <2> QED  BY <2>1 DEF FirstDelimiter
<1>4. ends # {} /\ end = t - s + 1
  BY EndsAre
<1>5. end \in 0..Len(Q) /\ end <= MaxMarker /\ s - 1 + end = t /\ end \in Nat
  BY <1>2, <1>3, <1>4
<1>6. ~IsMarker(SubSeq(Q, 1, end))
  <2> HIDE DEF Q, e, P, end, ends
  <2>1. SUFFICES ASSUME NEW token \in Tokens, NEW event \in Events, end = 5, MarkerAt(Q, 1, token, event)
                 PROVE  FALSE
    BY <1>2, <1>5, IsMarkerIs
  <2>2. Q[1] = "rs" /\ Q[2] = "v1" /\ Q[3] = token /\ Q[4] = event /\ Q[5] = "us"
    <3>1. 1 + 1 = 2 /\ 1 + 2 = 3 /\ 1 + 3 = 4 /\ 1 + 4 = 5
      OBVIOUS
    <3> QED  BY <2>1, <3>1 DEF MarkerAt
  <2>3. 5 <= Len(P) - s + 1
    BY <1>2, <1>5, <2>1
  <2>4. Q[1] = P[s] /\ Q[2] = P[s + 1] /\ Q[3] = P[s + 2] /\ Q[4] = P[s + 3] /\ Q[5] = P[s + 4]
    <3>1. s + 1 - 1 = s /\ s + 2 - 1 = s + 1 /\ s + 3 - 1 = s + 2 /\ s + 4 - 1 = s + 3 /\ s + 5 - 1 = s + 4
      BY <1>2
    <3>2. {1, 2, 3, 4, 5} \subseteq 1..(Len(P) - s + 1)
      BY <1>2, <2>3
    <3> QED  BY <1>2, <3>1, <3>2
  <2>5. s \in Nat \ {0} /\ s + 4 <= Len(P)
    BY <1>2, <2>3
  <2>6. MarkerAt(P, s, token, event)
    BY <2>2, <2>4, <2>5 DEF MarkerAt
  <2> QED  BY <2>6 DEF P
<1> HIDE DEF ends, end
<1>7. PassOn(e, ends, end, eof) = Flush(e, end)
  <2>1. ~(end > MaxMarker)
    BY <1>5, MarkersFit
  <2> HIDE DEF e, Q
  <2> QED  BY <1>2, <1>4, <1>6, <2>1 DEF PassOn
<1>8. Flush(e, end) = Flush(d, t)
  <2>1. s - 1 + end <= Len(d.pending)
    BY <1>3, <1>5
  <2>2. Flush(Flush(d, s - 1), end) = Flush(d, s - 1 + end)
    BY <1>2, <1>5, <2>1, FlushTwice
  <2> QED  BY <1>5, <2>2
<1> QED  BY <1>1, <1>7, <1>8

LEMMA MarkerIsDelimited ==
    ASSUME NEW P \in Bytes, NEW s, NEW token \in Tokens, NEW event \in Events, MarkerAt(P, s, token, event)
    PROVE  s \in DOMAIN P /\ StartsAt(P, s) /\ FirstDelimiter(P, s, s + 4)
<1>1. P \in Seq(Byte) /\ Len(P) \in Nat /\ DOMAIN P = 1..Len(P)
  BY DEF Bytes
<1>2. s \in Nat \ {0} /\ s + 4 <= Len(P)
      /\ P[s] = "rs" /\ P[s + 1] = "v1" /\ P[s + 2] = token /\ P[s + 3] = event /\ P[s + 4] = "us"
  BY DEF MarkerAt
<1>3. token # "us" /\ event # "us"
  BY DEF Tokens, Events
<1>4. s \in DOMAIN P /\ s + 4 \in DOMAIN P /\ s + 1 <= Len(P) /\ s <= s + 4
  BY <1>1, <1>2
<1>5. StartsAt(P, s)
  BY <1>2, <1>4, StartsAtIs
<1>6. ASSUME NEW i \in DOMAIN P, i >= s, P[i] = "us", ~(s + 4 <= i) PROVE FALSE
  <2>1. i = s \/ i = s + 1 \/ i = s + 2 \/ i = s + 3
    BY <1>1, <1>2, <1>6
  <2> QED  BY <1>2, <1>3, <1>6, <2>1
<1>7. FirstDelimiter(P, s, s + 4)
  BY <1>2, <1>4, <1>6 DEF FirstDelimiter, Delimiter
<1> QED  BY <1>4, <1>5, <1>7

\* The decoder without the marker that it has found at s.
Taken(d, s) == [d EXCEPT !.out = d.out \o SubSeq(d.pending, 1, s - 1), !.pending = From(d.pending, s + 5)]

LEMMA TakenIs ==
    ASSUME NEW d \in Decoders, NEW s \in Nat \ {0}, s + 4 <= Len(d.pending)
    PROVE  /\ Taken(d, s) \in Decoders
           /\ Taken(d, s).pending = From(d.pending, s + 5)
           /\ Taken(d, s).out = d.out \o SubSeq(d.pending, 1, s - 1)
           /\ Taken(d, s).ready = d.ready /\ Taken(d, s).finished = d.finished
           /\ Taken(d, s).events = d.events
<1>1. d.pending \in Seq(Byte) /\ d.out \in Seq(Byte) /\ Len(d.pending) \in Nat
  BY DEF Decoders, Bytes
<1>2. s - 1 \in 0..Len(d.pending) /\ s + 5 \in 1..(Len(d.pending) + 1)
  BY <1>1
<1>3. SubSeq(d.pending, 1, s - 1) \in Seq(Byte)
  BY <1>1, <1>2, FirstsAre
<1>4. From(d.pending, s + 5) \in Seq(Byte)
  BY <1>1, <1>2, FromIs
<1>5. d.out \o SubSeq(d.pending, 1, s - 1) \in Seq(Byte)
  BY <1>1, <1>3
<1> HIDE DEF From
<1> QED  BY <1>4, <1>5 DEF Taken, Decoders, Bytes

LEMMA PassLearns ==
    ASSUME NEW d \in Decoders, NEW eof \in BOOLEAN, NEW s, FirstStart(d.pending, s),
           NEW token \in Tokens, NEW event \in Events, MarkerAt(d.pending, s, token, event)
    PROVE  Pass(d, eof) = Learn(Taken(d, s), token, event)
<1> DEFINE P == d.pending
           e == Flush(d, s - 1)
           ends == Ends(e.pending)
           end == IF ends = {} THEN MaxMarker + 1 ELSE Min(ends)
           Q == From(P, s)
<1>1. Pass(d, eof) = PassOn(e, ends, end, eof)
  BY PassFromStart
<1>2. Len(P) \in Nat /\ s \in 1..Len(P) /\ s - 1 \in 0..Len(P) /\ s - 1 + 1 = s /\ e \in Decoders /\ e.pending = Q
      /\ Q \in Bytes /\ Len(Q) = Len(P) - s + 1 /\ \A i \in 1..(Len(P) - s + 1) : Q[i] = P[s + i - 1]
  BY AtStart
<1>3. /\ s \in Nat \ {0} /\ s + 4 <= Len(P)
      /\ P[s] = "rs" /\ P[s + 1] = "v1" /\ P[s + 2] = token /\ P[s + 3] = event /\ P[s + 4] = "us"
  BY DEF MarkerAt
<1>4. ends # {} /\ end = 5
  <2>1. FirstDelimiter(P, s, s + 4) /\ s + 4 - s + 1 = 5
    <3>1. P \in Bytes
      BY DEF Decoders
    <3>2. s + 4 - s + 1 = 5
      BY <1>3
    <3> QED  BY <3>1, <3>2, MarkerIsDelimited
  <2> DEFINE t == s + 4
  <2>2. FirstDelimiter(d.pending, s, t) /\ t - s + 1 = 5
    BY <1>3, <2>1
  <2> HIDE DEF t
  <2>3. ends # {} /\ Min(ends) = t - s + 1
    BY <2>2, EndsAre
  <2> QED  BY <2>2, <2>3
<1>5. 5 <= MaxMarker /\ MaxMarker \in Nat
  <2>1. token \in Byte /\ event \in Byte
    BY BytesOfMarkers
  <2> QED  BY <2>1, MarkersFit, MarkerIs
<1>6. Q[1] = "rs" /\ Q[2] = "v1" /\ Q[3] = token /\ Q[4] = event /\ Q[5] = "us" /\ 5 <= Len(Q)
  <2> HIDE DEF Q, P
  <2>1. s + 1 - 1 = s /\ s + 2 - 1 = s + 1 /\ s + 3 - 1 = s + 2 /\ s + 4 - 1 = s + 3 /\ s + 5 - 1 = s + 4
    BY <1>3
  <2>2. {1, 2, 3, 4, 5} \subseteq 1..(Len(P) - s + 1) /\ 5 <= Len(Q)
    BY <1>2, <1>3
  <2>3. Q[1] = P[s] /\ Q[2] = P[s + 1] /\ Q[3] = P[s + 2] /\ Q[4] = P[s + 3] /\ Q[5] = P[s + 4]
    BY <1>2, <2>1, <2>2
  <2> QED  BY <1>3, <2>2, <2>3
<1>7. IsMarker(SubSeq(Q, 1, 5))
  <2> HIDE DEF Q, P
  <2>1. 1 + 1 = 2 /\ 1 + 2 = 3 /\ 1 + 3 = 4 /\ 1 + 4 = 5 /\ 1 \in Nat \ {0}
    OBVIOUS
  <2>2. MarkerAt(Q, 1, token, event)
    BY <1>6, <2>1 DEF MarkerAt
  <2>3. 5 \in 0..Len(Q)
    BY <1>2, <1>6
  <2> QED  BY <1>2, <2>2, <2>3, IsMarkerIs
<1> HIDE DEF ends, end
<1>8. PassOn(e, ends, end, eof) = Learn([e EXCEPT !.pending = SubSeq(Q, 6, Len(Q))], token, event)
  <2>1. end + 1 = 6 /\ ~(end > MaxMarker) /\ SubSeq(e.pending, 1, end) = SubSeq(Q, 1, 5)
    BY <1>2, <1>4, <1>5
  <2> HIDE DEF e, Q
  <2>2. [e EXCEPT !.pending = SubSeq(@, end + 1, Len(@))] = [e EXCEPT !.pending = SubSeq(Q, 6, Len(Q))]
    BY <1>2, <2>1
  <2>3. PassOn(e, ends, end, eof) = Learn([e EXCEPT !.pending = SubSeq(@, end + 1, Len(@))], e.pending[3], e.pending[4])
    BY <1>4, <1>7, <2>1 DEF PassOn
  <2> QED  BY <1>2, <1>6, <2>2, <2>3
<1>9. [e EXCEPT !.pending = SubSeq(Q, 6, Len(Q))] = Taken(d, s)
  <2>1. From(From(P, s), 6) = From(P, s + 5)
    <3>1. s \in 1..(Len(P) + 1) /\ 6 \in 1..(Len(P) + 2 - s) /\ s + 6 - 1 = s + 5 /\ P \in Seq(Byte)
      BY <1>2, <1>3 DEF Decoders, Bytes
    <3>2. From(From(P, s), 6) = From(P, s + 6 - 1)
      BY <3>1, FromFrom
    <3> QED  BY <3>1, <3>2
  <2>2. e = [d EXCEPT !.out = d.out \o SubSeq(P, 1, s - 1), !.pending = From(P, s - 1 + 1)]
    BY <1>2, FlushIs
  <2>3. SubSeq(Q, 6, Len(Q)) = From(P, s + 5)
    BY <2>1 DEF From
  <2> DEFINE x == d.out \o SubSeq(P, 1, s - 1)
             y == From(P, s - 1 + 1)
             z == From(P, s + 5)
  <2>4. e = [d EXCEPT !.out = x, !.pending = y] /\ Taken(d, s) = [d EXCEPT !.out = x, !.pending = z]
    BY <2>2 DEF Taken
  <2>5. SubSeq(Q, 6, Len(Q)) = z
    BY <2>3
  <2> HIDE DEF e, Q, P, x, y, z
  <2> QED  BY <2>4, <2>5 DEF Decoders
<1> QED  BY <1>1, <1>8, <1>9

LEMMA DelimiterOrNot ==
    ASSUME NEW P \in Bytes, NEW s
    PROVE  NoDelimiter(P, s) \/ \E t : FirstDelimiter(P, s, t)
<1> DEFINE I == {i \in DOMAIN P : i >= s /\ P[i] = Delimiter}
<1>1. SUFFICES ASSUME ~NoDelimiter(P, s) PROVE \E t : FirstDelimiter(P, s, t)
  OBVIOUS
<1>2. PICK k \in DOMAIN P : k >= s /\ P[k] = Delimiter
  BY <1>1 DEF NoDelimiter
<1>3. k \in I /\ I \in SUBSET Nat
  BY <1>2 DEF Bytes
<1>4. Min(I) \in I /\ \A j \in I : Min(I) <= j
  <2> HIDE DEF I
  <2> QED  BY <1>3, HasMinimum
<1>5. FirstDelimiter(P, s, Min(I))
  <2> DEFINE t == Min(I)
  <2>1. t \in I /\ \A j \in I : t <= j
    BY <1>4
  <2> HIDE DEF t
  <2>2. t \in DOMAIN P /\ t >= s /\ P[t] = Delimiter /\ \A j \in DOMAIN P : j >= s /\ P[j] = Delimiter => t <= j
    BY <2>1
  <2> QED  BY <2>2 DEF FirstDelimiter, t
<1> QED  BY <1>5

LEMMA StartOrNot ==
    ASSUME NEW P \in Bytes
    PROVE  NoStart(P) \/ \E s : FirstStart(P, s)
<1> DEFINE I == {i \in DOMAIN P : StartsAt(P, i)}
<1>1. SUFFICES ASSUME ~NoStart(P) PROVE \E s : FirstStart(P, s)
  OBVIOUS
<1>2. PICK k \in DOMAIN P : StartsAt(P, k)
  BY <1>1 DEF NoStart
<1>3. k \in I /\ I \in SUBSET Nat
  BY <1>2 DEF Bytes
<1>4. Min(I) \in I /\ \A j \in I : Min(I) <= j
  <2> HIDE DEF I
  <2> QED  BY <1>3, HasMinimum
<1>5. FirstStart(P, Min(I))
  BY <1>4 DEF FirstStart
<1> QED  BY <1>5

\* The cases of a pass.
Refused(P, eof, s) ==
    \/ NoDelimiter(P, s) /\ (eof \/ Len(P) - s + 1 >= MaxMarker)
    \/ \E t : FirstDelimiter(P, s, t) /\ t - s + 1 > MaxMarker

Skipped(P, s, t) ==
    /\ FirstDelimiter(P, s, t) /\ t - s + 1 <= MaxMarker
    /\ \A token \in Tokens, event \in Events : ~MarkerAt(P, s, token, event)

LEMMA PassCases ==
    ASSUME NEW d \in Decoders, NEW eof \in BOOLEAN, d.pending # <<>>
    PROVE  \/ NoStart(d.pending) /\ Pass(d, eof) = Flush(d, Len(d.pending) - Kept(d.pending, eof))
           \/ \E s : /\ FirstStart(d.pending, s)
                     /\ \/ /\ ~eof /\ NoDelimiter(d.pending, s) /\ Len(d.pending) - s + 1 < MaxMarker
                           /\ Pass(d, eof) = Flush(d, s - 1)
                        \/ Refused(d.pending, eof, s) /\ Pass(d, eof) = Flush(d, s)
                        \/ \E t : Skipped(d.pending, s, t) /\ Pass(d, eof) = Flush(d, t)
                        \/ \E token \in Tokens, event \in Events :
                              /\ MarkerAt(d.pending, s, token, event)
                              /\ Pass(d, eof) = Learn(Taken(d, s), token, event)
<1> DEFINE P == d.pending
<1>1. P \in Bytes /\ Len(P) \in Nat
  BY DEF Decoders, Bytes
<1>2. CASE NoStart(P)
  BY <1>2, PassOfText
<1>3. ASSUME NEW s, FirstStart(P, s)
      PROVE  \/ /\ ~eof /\ NoDelimiter(P, s) /\ Len(P) - s + 1 < MaxMarker
                /\ Pass(d, eof) = Flush(d, s - 1)
             \/ Refused(P, eof, s) /\ Pass(d, eof) = Flush(d, s)
             \/ \E t : Skipped(P, s, t) /\ Pass(d, eof) = Flush(d, t)
             \/ \E token \in Tokens, event \in Events :
                   MarkerAt(P, s, token, event) /\ Pass(d, eof) = Learn(Taken(d, s), token, event)
  <2>1. CASE Refused(P, eof, s)
    BY <1>3, <2>1, PassRefuses DEF Refused
  <2>2. CASE ~Refused(P, eof, s) /\ NoDelimiter(P, s)
    <3>1. ~eof /\ ~(Len(P) - s + 1 >= MaxMarker)
      BY <2>2 DEF Refused
    <3>2. Len(P) - s + 1 < MaxMarker
      <4>1. s \in 1..Len(P) /\ MaxMarker \in Nat
        BY <1>3, AtStart, MarkersFit
      <4> QED  BY <1>1, <3>1, <4>1
    <3>3. eof = FALSE
      BY <3>1
    <3>4. Pass(d, eof) = Flush(d, s - 1)
      BY <1>3, <2>2, <3>2, <3>3, PassWaits
    <3> QED  BY <2>2, <3>1, <3>2, <3>4
  <2>3. CASE ~Refused(P, eof, s) /\ \E t : FirstDelimiter(P, s, t)
    <3>1. PICK t : FirstDelimiter(P, s, t)
      BY <2>3
    <3>2. t - s + 1 <= MaxMarker
      <4>1. s \in 1..Len(P) /\ MaxMarker \in Nat
        BY <1>3, AtStart, MarkersFit
      <4>2. ~(t - s + 1 > MaxMarker) /\ t \in DOMAIN P
        BY <2>3, <3>1 DEF Refused, FirstDelimiter
      <4>3. t \in Nat
        BY <1>1, <4>2 DEF Bytes
      <4> QED  BY <1>1, <4>1, <4>2, <4>3
    <3>3. CASE \A token \in Tokens, event \in Events : ~MarkerAt(P, s, token, event)
      <4>1. Skipped(P, s, t)
        BY <3>1, <3>2, <3>3 DEF Skipped
      <4>2. Pass(d, eof) = Flush(d, t)
        BY <1>3, <3>1, <3>2, <3>3, PassSkips
      <4> QED  BY <4>1, <4>2
    <3>4. CASE \E token \in Tokens, event \in Events : MarkerAt(P, s, token, event)
      <4>1. PICK token \in Tokens, event \in Events : MarkerAt(P, s, token, event)
        BY <3>4
      <4> QED  BY <1>3, <4>1, PassLearns
    <3> QED  BY <3>3, <3>4
  <2> QED  BY <1>1, <2>1, <2>2, <2>3, DelimiterOrNot
<1> QED  BY <1>1, <1>2, <1>3, StartOrNot

LEMMA LearnIs ==
    ASSUME NEW d \in Decoders, NEW token \in Tokens, NEW event \in Events
    PROVE  /\ Learn(d, token, event) \in Decoders
           /\ Learn(d, token, event).pending = d.pending
           /\ Learn(d, token, event).out = d.out
<1>1. d.events \in Seq(Events) /\ "failed" \in Events
  BY DEF Decoders, Events
<1>2. Append(d.events, event) \in Seq(Events)
  BY <1>1
<1>3. Append(d.events, IF event = "detached" /\ ~d.ready THEN "failed" ELSE event) \in Seq(Events)
  BY <1>1
<1>4. CASE token # "mine" \/ d.finished \/ (event = "ready" /\ d.ready)
  <2>1. Learn(d, token, event) = d
    BY <1>4 DEF Learn
  <2> QED  BY <2>1
<1>5. CASE ~(token # "mine" \/ d.finished) /\ event = "ready" /\ ~d.ready
  <2>1. Learn(d, token, event) = [d EXCEPT !.ready = TRUE, !.events = Append(@, event)]
    BY <1>5 DEF Learn
  <2> QED  BY <1>2, <2>1 DEF Decoders
<1>6. CASE ~(token # "mine" \/ d.finished) /\ event # "ready"
  <2> DEFINE l == Append(d.events, IF event = "detached" /\ ~d.ready THEN "failed" ELSE event)
  <2>1. Learn(d, token, event) = [d EXCEPT !.finished = TRUE, !.events = l]
    BY <1>6 DEF Learn
  <2>2. l \in Seq(Events)
    BY <1>3
  <2> HIDE DEF l
  <2> QED  BY <2>1, <2>2 DEF Decoders
<1> QED  BY <1>4, <1>5, <1>6

LEMMA FromFirst ==
    ASSUME NEW S, NEW bytes \in Seq(S)
    PROVE  From(bytes, 1) = bytes
BY SubSeqFull DEF From

LEMMA FlushOfNothing ==
    ASSUME NEW d \in Decoders
    PROVE  Flush(d, 0) = d
<1>1. d.pending \in Seq(Byte) /\ d.out \in Seq(Byte) /\ 0 \in 0..Len(d.pending)
  BY DEF Decoders, Bytes
<1>2. Flush(d, 0) = [d EXCEPT !.out = d.out \o SubSeq(d.pending, 1, 0), !.pending = From(d.pending, 0 + 1)]
  BY <1>1, FlushIs
<1>3. SubSeq(d.pending, 1, 0) = <<>>
  BY SubSeqEmpty
<1>4. d.out \o <<>> = d.out /\ From(d.pending, 0 + 1) = d.pending
  BY <1>1, FromFirst, ConcatEmptySeq
<1> QED  BY <1>2, <1>3, <1>4 DEF Decoders

\* What a pass takes from the pending data: text, or text and a marker.
LEMMA PassTakes ==
    ASSUME NEW d \in Decoders, NEW eof \in BOOLEAN
    PROVE  /\ Pass(d, eof) \in Decoders
           /\ \E k \in 0..Len(d.pending) :
                 /\ Pass(d, eof).pending = From(d.pending, k + 1)
                 /\ k = 0 => Pass(d, eof) = d
                 /\ \/ Pass(d, eof) = Flush(d, k)
                    \/ \E s : \E token \in Tokens, event \in Events :
                          /\ MarkerAt(d.pending, s, token, event) /\ k = s + 4
                          /\ Pass(d, eof) = Learn(Taken(d, s), token, event)
<1> DEFINE P == d.pending
           Good(k) == /\ Pass(d, eof) \in Decoders
                      /\ k \in 0..Len(P)
                      /\ Pass(d, eof).pending = From(P, k + 1)
                      /\ k = 0 => Pass(d, eof) = d
                      /\ \/ Pass(d, eof) = Flush(d, k)
                         \/ \E s : \E token \in Tokens, event \in Events :
                               /\ MarkerAt(d.pending, s, token, event) /\ k = s + 4
                               /\ Pass(d, eof) = Learn(Taken(d, s), token, event)
<1>1. P \in Bytes /\ P \in Seq(Byte) /\ Len(P) \in Nat /\ DOMAIN P = 1..Len(P)
  BY DEF Decoders, Bytes
<1>2. ASSUME NEW k \in 0..Len(P), Pass(d, eof) = Flush(d, k) PROVE Good(k)
  <2>1. k = 0 => Pass(d, eof) = d
    BY <1>2, FlushOfNothing
  <2> QED  BY <1>2, <2>1, FlushIs
<1>3. SUFFICES \E k : Good(k)
  <2>1. PICK k : Good(k)
    BY <1>3
  <2> QED  BY <2>1
<1>4. CASE P = <<>>
  <2>1. Pass(d, eof) = Flush(d, 0)
    BY <1>4, PassOfNothing, FlushOfNothing
  <2> HIDE DEF Good
  <2> QED  BY <1>1, <1>2, <2>1
<1>5. CASE P # <<>> /\ NoStart(P)
  <2>1. Len(P) - Kept(P, eof) \in 0..Len(P)
    BY <1>1, <1>5, KeptIs
  <2>2. Pass(d, eof) = Flush(d, Len(P) - Kept(P, eof))
    BY <1>5, PassOfText
  <2> HIDE DEF Good
  <2> QED  BY <1>2, <2>1, <2>2
<1>6. ASSUME NEW s, FirstStart(P, s),
             \/ Pass(d, eof) = Flush(d, s - 1)
             \/ Pass(d, eof) = Flush(d, s)
             \/ \E t : Skipped(P, s, t) /\ Pass(d, eof) = Flush(d, t)
             \/ \E token \in Tokens, event \in Events :
                   MarkerAt(P, s, token, event) /\ Pass(d, eof) = Learn(Taken(d, s), token, event)
      PROVE  \E k : Good(k)
  <2>1. s \in 1..Len(P) /\ s \in 0..Len(P) /\ s - 1 \in 0..Len(P)
    <3>1. s \in 1..Len(d.pending)
      BY <1>6, AtStart
    <3> QED  BY <1>1, <3>1
  <2>2. CASE Pass(d, eof) = Flush(d, s - 1)
    <3> HIDE DEF Good
    <3> QED  BY <1>2, <2>1, <2>2
  <2>3. CASE Pass(d, eof) = Flush(d, s)
    <3> HIDE DEF Good
    <3> QED  BY <1>2, <2>1, <2>3
  <2>4. CASE \E t : Skipped(P, s, t) /\ Pass(d, eof) = Flush(d, t)
    <3>1. PICK t : Skipped(P, s, t) /\ Pass(d, eof) = Flush(d, t)
      BY <2>4
    <3>2. t \in 0..Len(P)
      BY <1>1, <3>1 DEF Skipped, FirstDelimiter
    <3> HIDE DEF Good
    <3> QED  BY <1>2, <3>1, <3>2
  <2>5. CASE \E token \in Tokens, event \in Events :
                MarkerAt(P, s, token, event) /\ Pass(d, eof) = Learn(Taken(d, s), token, event)
    <3>1. PICK token \in Tokens, event \in Events :
                MarkerAt(P, s, token, event) /\ Pass(d, eof) = Learn(Taken(d, s), token, event)
      BY <2>5
    <3>2. s \in Nat \ {0} /\ s + 4 <= Len(P)
      BY <3>1 DEF MarkerAt
    <3>3. Taken(d, s) \in Decoders /\ Taken(d, s).pending = From(P, s + 5)
      BY <3>2, TakenIs
    <3>4. Pass(d, eof) \in Decoders /\ Pass(d, eof).pending = From(P, s + 5)
      BY <3>1, <3>3, LearnIs
    <3>5. s + 4 \in 0..Len(P) /\ s + 4 # 0 /\ s + 4 + 1 = s + 5
      BY <1>1, <3>2
    <3>6. Good(s + 4)
      BY <3>1, <3>4, <3>5
    <3> HIDE DEF Good
    <3> QED  BY <3>6
  <2> HIDE DEF Good
  <2> QED  BY <1>6, <2>2, <2>3, <2>4, <2>5
<1> HIDE DEF Good
<1>7. CASE P # <<>> /\ ~NoStart(P)
  <2>1. PICK s : /\ FirstStart(P, s)
                 /\ \/ Pass(d, eof) = Flush(d, s - 1)
                    \/ Pass(d, eof) = Flush(d, s)
                    \/ \E t : Skipped(P, s, t) /\ Pass(d, eof) = Flush(d, t)
                    \/ \E token \in Tokens, event \in Events :
                          MarkerAt(P, s, token, event) /\ Pass(d, eof) = Learn(Taken(d, s), token, event)
    BY <1>7, PassCases
  <2> QED  BY <1>6, <2>1
<1> QED  BY <1>4, <1>5, <1>7

-----------------------------------------------------------------------------
(* The decoder's loop.                                                     *)

IsRun(f, d, eof, m) == f = [n \in 0..m |-> IF n = 0 THEN d ELSE Pass(f[n - 1], eof)]

LEMMA RunExists ==
    ASSUME NEW d, NEW eof, NEW m \in Nat
    PROVE  \E f : IsRun(f, d, eof, m)
<1> DEFINE I == {n \in Nat : \E f : IsRun(f, d, eof, n)}
<1>1. 0 \in I
  <2>1. IsRun([n \in 0..0 |-> d], d, eof, 0)
    <3>1. \A n \in 0..0 : n = 0
      OBVIOUS
    <3> QED  BY <3>1 DEF IsRun
  <2> QED  BY <2>1
<1>2. ASSUME NEW n \in Nat, n \in I PROVE n + 1 \in I
  <2>1. PICK f : IsRun(f, d, eof, n)
    BY <1>2
  <2> DEFINE g == [k \in 0..(n + 1) |-> IF k = n + 1 THEN Pass(f[n], eof) ELSE f[k]]
             e == [k \in 0..(n + 1) |-> IF k = 0 THEN d ELSE Pass(g[k - 1], eof)]
  <2>2. f = [k \in 0..n |-> IF k = 0 THEN d ELSE Pass(f[k - 1], eof)]
    BY <2>1 DEF IsRun
  <2>3. ASSUME NEW k \in 0..(n + 1) PROVE g[k] = e[k]
    <3>1. CASE k = 0
      <4>1. 0 # n + 1 /\ 0 \in 0..n
        OBVIOUS
      <4>2. f[0] = d
        BY <2>2, <4>1
      <4> QED  BY <3>1, <4>1, <4>2
    <3>2. CASE k = n + 1
      <4>1. k # 0 /\ k - 1 = n /\ n \in 0..(n + 1) /\ n # n + 1
        BY <3>2
      <4>2. g[n] = f[n]
        BY <4>1
      <4>3. g[k] = Pass(f[n], eof)
        BY <3>2
      <4>4. e[k] = Pass(g[n], eof)
        BY <4>1
      <4> QED  BY <4>2, <4>3, <4>4
    <3>3. CASE k # 0 /\ k # n + 1
      <4>1. k \in 0..n /\ k - 1 \in 0..(n + 1) /\ k - 1 # n + 1
        BY <3>3
      <4>2. f[k] = Pass(f[k - 1], eof)
        BY <2>2, <3>3, <4>1
      <4>3. g[k] = f[k] /\ g[k - 1] = f[k - 1]
        BY <3>3, <4>1
      <4>4. e[k] = Pass(g[k - 1], eof)
        BY <3>3
      <4> QED  BY <4>2, <4>3, <4>4
    <3> QED  BY <3>1, <3>2, <3>3
  <2>4. g = e
    BY <2>3
  <2>5. IsRun(g, d, eof, n + 1)
    BY <2>4 DEF IsRun
  <2> QED  BY <2>5
<1>3. Nat \subseteq I
  <2> HIDE DEF I
  <2> QED  BY <1>1, <1>2, Induction
<1> QED  BY <1>3

LEMMA DecodeRuns ==
    ASSUME NEW d \in Decoders, NEW eof
    PROVE  \E f : /\ f[0] = d
                  /\ \A n \in Nat : n < Len(d.pending) => f[n + 1] = Pass(f[n], eof)
                  /\ Decode(d, eof) = f[Len(d.pending)]
<1> DEFINE m == Len(d.pending)
           f == CHOOSE f : IsRun(f, d, eof, m)
<1>1. m \in Nat
  BY DEF Decoders, Bytes
<1>2. Decode(d, eof) = f[m]
  BY Zenon DEF Decode, IsRun
<1> HIDE DEF m
<1>3. \E g : IsRun(g, d, eof, m)
  BY <1>1, RunExists
<1>4. IsRun(f, d, eof, m)
  BY <1>3
<1> HIDE DEF f
<1>5. f = [n \in 0..m |-> IF n = 0 THEN d ELSE Pass(f[n - 1], eof)]
  BY <1>4 DEF IsRun
<1>6. f[0] = d
  BY <1>1, <1>5
<1>7. ASSUME NEW n \in Nat, n < m PROVE f[n + 1] = Pass(f[n], eof)
  <2>1. n + 1 \in 0..m /\ n + 1 # 0 /\ n + 1 - 1 = n
    BY <1>1, <1>7
  <2>2. \A k \in 0..m : f[k] = IF k = 0 THEN d ELSE Pass(f[k - 1], eof)
    BY <1>5
  <2>3. f[n + 1] = Pass(f[n + 1 - 1], eof)
    BY <2>1, <2>2
  <2> QED  BY <2>1, <2>3
<1> QED  BY <1>2, <1>6, <1>7 DEF m

\* What every pass keeps, the decoder keeps.
LEMMA DecodeKeeps ==
    ASSUME NEW d \in Decoders, NEW eof, NEW G, d \in G, \A x \in G : Pass(x, eof) \in G
    PROVE  Decode(d, eof) \in G
<1> DEFINE m == Len(d.pending)
<1>1. m \in Nat
  BY DEF Decoders, Bytes
<1>2. PICK f : /\ f[0] = d
               /\ \A n \in Nat : n < m => f[n + 1] = Pass(f[n], eof)
               /\ Decode(d, eof) = f[m]
  BY DecodeRuns
<1> HIDE DEF m
<1> DEFINE I == {n \in Nat : n <= m => f[n] \in G}
<1>3. 0 \in I
  BY <1>2
<1>4. ASSUME NEW n \in Nat, n \in I PROVE n + 1 \in I
  <2>1. SUFFICES ASSUME n + 1 <= m PROVE f[n + 1] \in G
    OBVIOUS
  <2>2. n < m /\ n <= m
    BY <1>1, <2>1
  <2> QED  BY <1>2, <1>4, <2>2
<1>5. Nat \subseteq I
  <2> HIDE DEF I
  <2> QED  BY <1>3, <1>4, Induction
<1>6. m \in I /\ m <= m
  BY <1>1, <1>5
<1> QED  BY <1>2, <1>6

\* The decoder stops only when another pass would change nothing.
LEMMA DecodeSettles ==
    ASSUME NEW d \in Decoders, NEW eof \in BOOLEAN
    PROVE  Decode(d, eof) \in Decoders /\ Pass(Decode(d, eof), eof) = Decode(d, eof)
<1> DEFINE m == Len(d.pending)
<1>1. m \in Nat
  BY DEF Decoders, Bytes
<1>2. PICK f : /\ f[0] = d
               /\ \A n \in Nat : n < m => f[n + 1] = Pass(f[n], eof)
               /\ Decode(d, eof) = f[m]
  BY DecodeRuns
<1> DEFINE I == {n \in Nat : n <= m => /\ f[n] \in Decoders
                                       /\ Len(f[n].pending) <= m - n \/ Pass(f[n], eof) = f[n]}
<1>3. 0 \in I
  BY <1>1, <1>2
<1> HIDE DEF m
<1>4. ASSUME NEW n \in Nat, n \in I PROVE n + 1 \in I
  <2>1. SUFFICES ASSUME n + 1 <= m
                 PROVE  /\ f[n + 1] \in Decoders
                        /\ Len(f[n + 1].pending) <= m - (n + 1) \/ Pass(f[n + 1], eof) = f[n + 1]
    OBVIOUS
  <2> DEFINE x == f[n]
  <2>2. n < m /\ n <= m
    BY <1>1, <2>1
  <2>3. f[n + 1] = Pass(x, eof) /\ x \in Decoders /\ (Len(x.pending) <= m - n \/ Pass(x, eof) = x)
    BY <1>2, <1>4, <2>2
  <2> HIDE DEF x
  <2>4. CASE Pass(x, eof) = x
    BY <2>3, <2>4
  <2>5. CASE Pass(x, eof) # x
    <3>1. PICK k \in 0..Len(x.pending) :
             Pass(x, eof).pending = From(x.pending, k + 1) /\ (k = 0 => Pass(x, eof) = x)
      BY <2>3, PassTakes
    <3>2. x.pending \in Seq(Byte) /\ Len(x.pending) \in Nat
      BY <2>3 DEF Decoders, Bytes
    <3>3. k \in Nat /\ k >= 1 /\ k + 1 \in 1..(Len(x.pending) + 1)
      BY <2>5, <3>1, <3>2
    <3>4. Len(From(x.pending, k + 1)) = Len(x.pending) + 1 - (k + 1)
      BY <3>2, <3>3, FromIs
    <3>5. Len(Pass(x, eof).pending) <= m - (n + 1)
      <4>1. Len(x.pending) <= m - n
        BY <2>3, <2>5
      <4>2. Len(Pass(x, eof).pending) = Len(x.pending) + 1 - (k + 1)
        BY <3>1, <3>4
      <4>3. Len(x.pending) + 1 - (k + 1) <= m - (n + 1)
        <5> DEFINE a == Len(x.pending)
        <5>1. a \in Nat /\ k \in Nat /\ m \in Nat /\ n \in Nat /\ a <= m - n /\ k >= 1
          BY <1>1, <3>2, <3>3, <4>1
        <5> HIDE DEF a
        <5>2. a + 1 - (k + 1) <= m - (n + 1)
          BY <5>1
        <5> QED  BY <5>2 DEF a
      <4> QED  BY <4>2, <4>3
    <3> QED  BY <2>3, <3>5, PassTakes
  <2> QED  BY <2>4, <2>5
<1>5. Nat \subseteq I
  <2> HIDE DEF I
  <2> QED  BY <1>3, <1>4, Induction
<1>6. m \in I /\ m <= m
  BY <1>1, <1>5
<1>7. f[m] \in Decoders /\ (Len(f[m].pending) <= m - m \/ Pass(f[m], eof) = f[m])
  BY <1>6
<1>8. Pass(f[m], eof) = f[m]
  <2>1. CASE Len(f[m].pending) <= m - m
    <3>1. f[m].pending \in Seq(Byte)
      BY <1>7 DEF Decoders, Bytes
    <3>2. f[m].pending = <<>>
      BY <1>1, <2>1, <3>1, EmptySeq
    <3> QED  BY <1>7, <3>2, PassOfNothing
  <2> QED  BY <1>7, <2>1
<1> QED  BY <1>2, <1>7, <1>8

-----------------------------------------------------------------------------
(* The stream: what it says, and how it is put together.                   *)

Stream == local.dec.pending \o wire

\* A marker of this attempt stands in the stream.
Says(S, event) == \E m \in DOMAIN S : MarkerAt(S, m, "mine", event)

\* No marker of this attempt is cut off at the end.
Whole(S) == \A i \in DOMAIN S : S[i] = "mine" => i + 2 <= Len(S)

\* What begins like a marker is delimited.
Paired(S) == \A i \in DOMAIN S : S[i] = "rs" => \E j \in DOMAIN S : j > i /\ S[j] = "us"

\* What begins like a marker is delimited before a marker of this attempt.
Clear(S) ==
    \A m \in DOMAIN S, event \in Events : MarkerAt(S, m, "mine", event) =>
        \A i \in 1..(m - 1) : S[i] = "rs" => \E j \in (i + 1)..(m - 1) : S[j] = "us"

LEMMA DomainOfBytes ==
    ASSUME NEW S \in Bytes
    PROVE  S \in Seq(Byte) /\ Len(S) \in Nat /\ DOMAIN S = 1..Len(S)
BY DEF Bytes

\* A marker in what is left of a stream stood in the stream.
LEMMA MarkerInRest ==
    ASSUME NEW S \in Bytes, NEW k \in 0..Len(S), NEW m \in Nat \ {0}, NEW token, NEW event
    PROVE  MarkerAt(From(S, k + 1), m, token, event) <=> MarkerAt(S, k + m, token, event)
<1> DEFINE R == From(S, k + 1)
<1>1. S \in Seq(Byte) /\ Len(S) \in Nat /\ k \in Nat /\ k + 1 \in 1..(Len(S) + 1)
  BY DomainOfBytes
<1>2. Len(R) = Len(S) + 1 - (k + 1) /\ \A i \in 1..(Len(S) + 1 - (k + 1)) : R[i] = S[k + 1 + i - 1]
  BY <1>1, FromIs, ZenonT(30)
<1> HIDE DEF R
<1>3. Len(R) = Len(S) - k /\ \A i \in Nat \ {0} : i <= Len(S) - k => R[i] = S[k + i]
  <2>1. Len(S) + 1 - (k + 1) = Len(S) - k
    BY <1>1
  <2>2. ASSUME NEW i \in Nat \ {0}, i <= Len(S) - k PROVE R[i] = S[k + i]
    <3>1. i \in 1..(Len(S) + 1 - (k + 1)) /\ k + 1 + i - 1 = k + i
      BY <1>1, <2>2
    <3> QED  BY <1>2, <3>1
  <2> QED  BY <1>2, <2>1, <2>2
<1>4. k + m \in Nat \ {0} /\ (m + 4 <= Len(R) <=> k + m + 4 <= Len(S))
  BY <1>1, <1>3
<1>5. ASSUME m + 4 <= Len(R)
      PROVE  /\ R[m] = S[k + m] /\ R[m + 1] = S[k + m + 1] /\ R[m + 2] = S[k + m + 2]
             /\ R[m + 3] = S[k + m + 3] /\ R[m + 4] = S[k + m + 4]
  <2>1. ASSUME NEW n \in 0..4 PROVE R[m + n] = S[k + m + n]
    <3>1. m + n \in Nat \ {0} /\ m + n <= Len(S) - k /\ k + (m + n) = k + m + n
      BY <1>1, <1>3, <1>5
    <3> QED  BY <1>3, <3>1
  <2>2. m + 0 = m /\ k + m + 0 = k + m /\ {0, 1, 2, 3, 4} \subseteq 0..4
    BY <1>1
  <2> QED  BY <2>1, <2>2
<1>6. MarkerAt(R, m, token, event) <=> MarkerAt(S, k + m, token, event)
  BY <1>4, <1>5 DEF MarkerAt
<1> QED  BY <1>6 DEF R

LEMMA SaysOfRest ==
    ASSUME NEW S \in Bytes, NEW k \in 0..Len(S), NEW event, Says(From(S, k + 1), event)
    PROVE  Says(S, event)
<1>1. PICK m \in DOMAIN From(S, k + 1) : MarkerAt(From(S, k + 1), m, "mine", event)
  BY DEF Says
<1>2. m \in Nat \ {0}
  BY <1>1 DEF MarkerAt
<1>3. MarkerAt(S, k + m, "mine", event)
  BY <1>1, <1>2, MarkerInRest
<1>4. k + m \in DOMAIN S
  <2>1. k + m \in Nat \ {0} /\ k + m + 4 <= Len(S)
    BY <1>3 DEF MarkerAt
  <2> QED  BY <2>1, DomainOfBytes
<1> QED  BY <1>3, <1>4 DEF Says

LEMMA MarkerInFirst ==
    ASSUME NEW s \in Bytes, NEW t \in Bytes, NEW m, NEW token, NEW event, MarkerAt(s, m, token, event)
    PROVE  MarkerAt(s \o t, m, token, event)
<1>1. s \in Seq(Byte) /\ t \in Seq(Byte) /\ Len(s) \in Nat /\ Len(t) \in Nat
  BY DomainOfBytes
<1>2. Len(s \o t) = Len(s) + Len(t) /\ \A i \in 1..Len(s) : (s \o t)[i] = s[i]
  BY <1>1, ConcatProperties
<1>3. /\ m \in Nat \ {0} /\ m + 4 <= Len(s)
      /\ s[m] = "rs" /\ s[m + 1] = "v1" /\ s[m + 2] = token /\ s[m + 3] = event /\ s[m + 4] = "us"
  BY DEF MarkerAt
<1>4. {m, m + 1, m + 2, m + 3, m + 4} \subseteq 1..Len(s) /\ m + 4 <= Len(s) + Len(t)
  BY <1>1, <1>3
<1> QED  BY <1>2, <1>3, <1>4 DEF MarkerAt

LEMMA SaysOfFirst ==
    ASSUME NEW s \in Bytes, NEW t \in Bytes, NEW event, Says(s, event)
    PROVE  Says(s \o t, event)
<1>1. PICK m \in DOMAIN s : MarkerAt(s, m, "mine", event)
  BY DEF Says
<1>2. MarkerAt(s \o t, m, "mine", event)
  BY <1>1, MarkerInFirst
<1>3. s \o t \in Bytes
  BY DEF Bytes
<1>4. m \in DOMAIN (s \o t)
  <2>1. m \in Nat \ {0} /\ m + 4 <= Len(s \o t)
    BY <1>2 DEF MarkerAt
  <2> QED  BY <1>3, <2>1, DomainOfBytes
<1> QED  BY <1>2, <1>4 DEF Says

\* Of a stream, elements of the rest are elements of the whole.
LEMMA RestElements ==
    ASSUME NEW S \in Bytes, NEW k \in 0..Len(S)
    PROVE  /\ From(S, k + 1) \in Bytes
           /\ Len(From(S, k + 1)) = Len(S) - k
           /\ DOMAIN From(S, k + 1) = 1..(Len(S) - k)
           /\ \A i \in 1..(Len(S) - k) : From(S, k + 1)[i] = S[k + i] /\ k + i \in DOMAIN S
<1> DEFINE R == From(S, k + 1)
<1>1. S \in Seq(Byte) /\ Len(S) \in Nat /\ DOMAIN S = 1..Len(S) /\ k \in Nat /\ k + 1 \in 1..(Len(S) + 1)
  BY DomainOfBytes
<1>2. R \in Seq(Byte) /\ Len(R) = Len(S) + 1 - (k + 1)
      /\ \A i \in 1..(Len(S) + 1 - (k + 1)) : R[i] = S[k + 1 + i - 1]
  BY <1>1, FromIs
<1> HIDE DEF R
<1>6. Len(S) \in Nat /\ k \in Nat
  BY <1>1
<1>3. Len(S) + 1 - (k + 1) = Len(S) - k
  BY <1>6
<1>4. ASSUME NEW i \in 1..(Len(S) - k) PROVE R[i] = S[k + i] /\ k + i \in DOMAIN S
  <2>1. i \in 1..(Len(S) + 1 - (k + 1)) /\ k + 1 + i - 1 = k + i /\ k + i \in 1..Len(S)
    BY <1>1
  <2> QED  BY <1>1, <1>2, <2>1
<1>5. R \in Bytes /\ Len(R) = Len(S) - k
  BY <1>2, <1>3 DEF Bytes
<1> QED  BY <1>4, <1>5, DomainOfBytes DEF R

LEMMA WholeRest ==
    ASSUME NEW S \in Bytes, NEW k \in 0..Len(S), Whole(S)
    PROVE  Whole(From(S, k + 1))
<1> DEFINE R == From(S, k + 1)
<1>1. Len(S) \in Nat /\ k \in Nat
  BY DomainOfBytes
<1>2. /\ Len(R) = Len(S) - k /\ DOMAIN R = 1..(Len(S) - k)
      /\ \A i \in 1..(Len(S) - k) : R[i] = S[k + i] /\ k + i \in DOMAIN S
  BY RestElements
<1> HIDE DEF R
<1>3. ASSUME NEW i \in DOMAIN R, R[i] = "mine" PROVE i + 2 <= Len(R)
  <2>1. i \in Nat /\ S[k + i] = "mine" /\ k + i \in DOMAIN S
    BY <1>1, <1>2, <1>3
  <2>2. k + i + 2 <= Len(S)
    BY <2>1 DEF Whole
  <2> QED  BY <1>1, <1>2, <2>1, <2>2
<1> QED  BY <1>3 DEF Whole, R

LEMMA PairedRest ==
    ASSUME NEW S \in Bytes, NEW k \in 0..Len(S), Paired(S)
    PROVE  Paired(From(S, k + 1))
<1> DEFINE R == From(S, k + 1)
<1>1. Len(S) \in Nat /\ k \in Nat /\ DOMAIN S = 1..Len(S)
  BY DomainOfBytes
<1>2. /\ Len(R) = Len(S) - k /\ DOMAIN R = 1..(Len(S) - k)
      /\ \A i \in 1..(Len(S) - k) : R[i] = S[k + i] /\ k + i \in DOMAIN S
  BY RestElements
<1> HIDE DEF R
<1>3. ASSUME NEW i \in DOMAIN R, R[i] = "rs" PROVE \E j \in DOMAIN R : j > i /\ R[j] = "us"
  <2>1. i \in Nat /\ i >= 1 /\ S[k + i] = "rs" /\ k + i \in DOMAIN S
    BY <1>1, <1>2, <1>3
  <2>2. PICK j \in DOMAIN S : j > k + i /\ S[j] = "us"
    BY <2>1 DEF Paired
  <2>3. j - k \in 1..(Len(S) - k) /\ j - k > i /\ k + (j - k) = j
    BY <1>1, <2>1, <2>2
  <2>4. R[j - k] = "us"
    BY <1>2, <2>2, <2>3
  <2> QED  BY <1>2, <2>3, <2>4
<1> QED  BY <1>3 DEF Paired, R

LEMMA ClearRest ==
    ASSUME NEW S \in Bytes, NEW k \in 0..Len(S), Clear(S)
    PROVE  Clear(From(S, k + 1))
<1> DEFINE R == From(S, k + 1)
<1>1. Len(S) \in Nat /\ k \in Nat /\ DOMAIN S = 1..Len(S)
  BY DomainOfBytes
<1>2. /\ Len(R) = Len(S) - k /\ DOMAIN R = 1..(Len(S) - k)
      /\ \A i \in 1..(Len(S) - k) : R[i] = S[k + i] /\ k + i \in DOMAIN S
  BY RestElements
<1>3. ASSUME NEW m \in DOMAIN R, NEW event \in Events, MarkerAt(R, m, "mine", event),
             NEW i \in 1..(m - 1), R[i] = "rs"
      PROVE  \E j \in (i + 1)..(m - 1) : R[j] = "us"
  <2>1. m \in Nat \ {0} /\ m + 4 <= Len(R)
    BY <1>3 DEF MarkerAt
  <2>2. MarkerAt(S, k + m, "mine", event)
    BY <1>3, <2>1, MarkerInRest
  <2> HIDE DEF R
  <2>3. k + m \in DOMAIN S /\ k + i \in 1..(k + m - 1) /\ i \in 1..(Len(S) - k)
    BY <1>1, <1>2, <2>1
  <2>4. S[k + i] = "rs"
    BY <1>2, <1>3, <2>3
  <2> DEFINE a == k + i
             b == k + m
  <2>8. MarkerAt(S, b, "mine", event)
    BY <2>2
  <2>10. b \in DOMAIN S /\ a \in 1..(b - 1)
    <3>1. k + m \in DOMAIN S
      BY <2>3
    <3>2. k + i \in 1..(k + m - 1)
      BY <2>3
    <3> QED  BY <3>1, <3>2
  <2>11. S[a] = "rs"
    BY <2>4
  <2> HIDE DEF a, b
  <2>9. \E j \in (a + 1)..(b - 1) : S[j] = "us"
    BY <1>3, <2>8, <2>10, <2>11 DEF Clear
  <2>5. PICK j \in (k + i + 1)..(k + m - 1) : S[j] = "us"
    BY <2>9 DEF a, b
  <2>6. j - k \in (i + 1)..(m - 1) /\ k + (j - k) = j /\ j - k \in 1..(Len(S) - k)
    BY <1>1, <1>2, <2>1, <2>3, <2>5
  <2>7. R[j - k] = "us"
    BY <1>2, <2>5, <2>6
  <2> QED  BY <2>6, <2>7
<1> HIDE DEF R
<1>4. Clear(R)
  BY <1>3 DEF Clear
<1> QED  BY <1>4 DEF R

-----------------------------------------------------------------------------
(* What is written to the stream.                                          *)

\* Terminal data that does not know the attempt, or a marker of it.
Piece(b) ==
    /\ b \in Bytes /\ Paired(b)
    /\ \/ \A i \in DOMAIN b : b[i] # "mine"
       \/ \E event \in Events : b = AttachmentMarker("mine", event)

LEMMA MarkerElements ==
    ASSUME NEW event \in Events
    PROVE  LET b == AttachmentMarker("mine", event)
           IN /\ b \in Bytes /\ Len(b) = 5 /\ DOMAIN b = 1..5
              /\ b[1] = "rs" /\ b[2] = "v1" /\ b[3] = "mine" /\ b[4] = event /\ b[5] = "us"
<1>1. "mine" \in Byte /\ event \in Byte
  BY BytesOfMarkers DEF Tokens
<1>2. AttachmentMarker("mine", event) = <<"rs", "v1", "mine", event, "us">>
      /\ AttachmentMarker("mine", event) \in Bytes
  BY <1>1, MarkerIs
<1> QED  BY <1>2

LEMMA MarkerIsPiece ==
    ASSUME NEW event \in Events
    PROVE  Piece(AttachmentMarker("mine", event))
<1> DEFINE b == AttachmentMarker("mine", event)
<1>1. /\ b \in Bytes /\ DOMAIN b = 1..5
      /\ b[1] = "rs" /\ b[2] = "v1" /\ b[3] = "mine" /\ b[4] = event /\ b[5] = "us"
  BY MarkerElements
<1> HIDE DEF b
<1>2. event # "rs"
  BY DEF Events
<1>3. Paired(b)
  <2>1. ASSUME NEW i \in DOMAIN b, b[i] = "rs" PROVE 5 \in DOMAIN b /\ 5 > i /\ b[5] = "us"
    <3>1. i # 5
      BY <1>1, <2>1
    <3> QED  BY <1>1, <2>1, <3>1
  <2> QED  BY <2>1 DEF Paired
<1>4. b = AttachmentMarker("mine", event)
  BY DEF b
<1> QED  BY <1>1, <1>3, <1>4 DEF Piece

LEMMA BodyIsPiece ==
    ASSUME NEW b \in Bodies
    PROVE  Piece(b)
<1>1. b \in Bytes
  <2>1. b \in Seq(STRING)
    BY NonceUnknown
  <2>2. \A i \in DOMAIN b : b[i] \in Byte
    BY DEF Byte
  <2>3. Len(b) \in Nat /\ DOMAIN b = 1..Len(b) /\ b = [i \in 1..Len(b) |-> b[i]]
    BY <2>1
  <2> QED  BY <2>2, <2>3 DEF Bytes
<1>2. Paired(b)
  <2>1. Head(Prefix) = "rs" /\ Delimiter = "us"
    BY DEF Prefix, Delimiter
  <2> QED  BY <2>1, PrefixesDelimited DEF Paired
<1>3. \A i \in DOMAIN b : b[i] # "mine"
  BY NonceUnknown
<1> QED  BY <1>1, <1>2, <1>3 DEF Piece

LEMMA NothingIsPiece == Piece(<<>>)
BY DEF Piece, Paired, Bytes

\* Of a stream with a piece behind it.
LEMMA Behind ==
    ASSUME NEW S \in Bytes, NEW b \in Bytes
    PROVE  /\ S \o b \in Bytes /\ Len(S) \in Nat /\ Len(b) \in Nat
           /\ Len(S \o b) = Len(S) + Len(b)
           /\ DOMAIN S = 1..Len(S) /\ DOMAIN b = 1..Len(b) /\ DOMAIN (S \o b) = 1..(Len(S) + Len(b))
           /\ \A i \in 1..Len(S) : (S \o b)[i] = S[i]
           /\ \A i \in 1..Len(b) : (S \o b)[Len(S) + i] = b[i]
<1>1. S \in Seq(Byte) /\ b \in Seq(Byte) /\ Len(S) \in Nat /\ Len(b) \in Nat
  BY DomainOfBytes
<1> DEFINE T == S \o b
<1>2. T \in Seq(Byte) /\ Len(T) = Len(S) + Len(b)
      /\ \A i \in 1..(Len(S) + Len(b)) : T[i] = IF i <= Len(S) THEN S[i] ELSE b[i - Len(S)]
  BY <1>1, ConcatProperties
<1> HIDE DEF T
<1>3. T \in Bytes /\ DOMAIN T = 1..(Len(S) + Len(b))
  BY <1>2, DomainOfBytes DEF Bytes
<1>4. ASSUME NEW i \in 1..Len(S) PROVE T[i] = S[i]
  <2>1. i \in 1..(Len(S) + Len(b)) /\ i <= Len(S)
    BY <1>1
  <2> QED  BY <1>2, <2>1
<1>5. ASSUME NEW i \in 1..Len(b) PROVE T[Len(S) + i] = b[i]
  <2>1. Len(S) + i \in 1..(Len(S) + Len(b)) /\ ~(Len(S) + i <= Len(S)) /\ Len(S) + i - Len(S) = i
    BY <1>1
  <2> QED  BY <1>2, <2>1
<1> QED  BY <1>1, <1>2, <1>3, <1>4, <1>5, DomainOfBytes DEF T

LEMMA ElementsBehind ==
    ASSUME NEW S \in Bytes, NEW b \in Bytes, NEW n \in DOMAIN (S \o b)
    PROVE  \/ n \in DOMAIN S /\ (S \o b)[n] = S[n]
           \/ \E i \in DOMAIN b : n = Len(S) + i /\ (S \o b)[n] = b[i]
<1> DEFINE T == S \o b
<1>1. /\ Len(S) \in Nat /\ Len(b) \in Nat
      /\ DOMAIN S = 1..Len(S) /\ DOMAIN b = 1..Len(b) /\ DOMAIN T = 1..(Len(S) + Len(b))
      /\ \A i \in 1..Len(S) : T[i] = S[i]
      /\ \A i \in 1..Len(b) : T[Len(S) + i] = b[i]
  BY Behind
<1>2. n \in DOMAIN T
  OBVIOUS
<1> HIDE DEF T
<1>3. CASE n \in 1..Len(S)
  <2>1. T[n] = S[n]
    BY <1>1, <1>3
  <2> QED  BY <1>1, <1>3, <2>1 DEF T
<1>4. CASE n \notin 1..Len(S)
  <2>1. n - Len(S) \in 1..Len(b) /\ n = Len(S) + (n - Len(S))
    BY <1>1, <1>2, <1>4
  <2>2. T[n] = b[n - Len(S)]
    BY <1>1, <2>1
  <2> QED  BY <1>1, <2>1, <2>2 DEF T
<1> QED  BY <1>3, <1>4

LEMMA WholeBehind ==
    ASSUME NEW S \in Bytes, Whole(S), NEW b, Piece(b)
    PROVE  Whole(S \o b)
<1>1. b \in Bytes
  BY DEF Piece
<1>2. ASSUME NEW n \in DOMAIN (S \o b), (S \o b)[n] = "mine" PROVE n + 2 <= Len(S \o b)
  <2>1. Len(S \o b) = Len(S) + Len(b) /\ Len(S) \in Nat /\ Len(b) \in Nat
    BY <1>1, Behind
  <2>2. CASE n \in DOMAIN S /\ (S \o b)[n] = S[n]
    <3>1. n + 2 <= Len(S) /\ n \in Nat
      BY <1>2, <2>2, DomainOfBytes DEF Whole
    <3> QED  BY <2>1, <3>1
  <2>3. CASE \E i \in DOMAIN b : n = Len(S) + i /\ (S \o b)[n] = b[i]
    <3>1. PICK i \in DOMAIN b : n = Len(S) + i /\ b[i] = "mine"
      BY <1>2, <2>3
    <3>2. PICK event \in Events : b = AttachmentMarker("mine", event)
      BY <3>1 DEF Piece
    <3>3. /\ DOMAIN b = 1..5 /\ Len(b) = 5
          /\ b[1] = "rs" /\ b[2] = "v1" /\ b[3] = "mine" /\ b[4] = event /\ b[5] = "us"
      BY <3>2, MarkerElements
    <3>4. event # "mine"
      BY DEF Events
    <3>5. i \in 1..5 /\ i # 4 /\ i # 5
      BY <3>1, <3>3, <3>4
    <3>6. i + 2 <= 5 /\ i \in Nat
      BY <3>5
    <3> QED  BY <2>1, <3>1, <3>3, <3>6
  <2> QED  BY <1>1, <2>2, <2>3, ElementsBehind
<1> QED  BY <1>2 DEF Whole

LEMMA PairedBehind ==
    ASSUME NEW S \in Bytes, Paired(S), NEW b, Piece(b)
    PROVE  Paired(S \o b)
<1> DEFINE T == S \o b
<1>1. b \in Bytes /\ Paired(b)
  BY DEF Piece
<1>2. /\ Len(S) \in Nat /\ Len(b) \in Nat
      /\ DOMAIN S = 1..Len(S) /\ DOMAIN b = 1..Len(b) /\ DOMAIN T = 1..(Len(S) + Len(b))
      /\ \A i \in 1..Len(S) : T[i] = S[i]
      /\ \A i \in 1..Len(b) : T[Len(S) + i] = b[i]
  BY <1>1, Behind
<1>3. \A n \in DOMAIN T : \/ n \in DOMAIN S /\ T[n] = S[n]
                          \/ \E i \in DOMAIN b : n = Len(S) + i /\ T[n] = b[i]
  BY <1>1, ElementsBehind
<1> HIDE DEF T
<1>4. ASSUME NEW n \in DOMAIN T, T[n] = "rs" PROVE \E j \in DOMAIN T : j > n /\ T[j] = "us"
  <2>1. CASE n \in DOMAIN S /\ T[n] = S[n]
    <3>1. PICK j \in DOMAIN S : j > n /\ S[j] = "us"
      BY <1>4, <2>1 DEF Paired
    <3>2. j \in DOMAIN T /\ T[j] = "us"
      BY <1>2, <3>1
    <3> QED  BY <3>1, <3>2
  <2>2. CASE \E i \in DOMAIN b : n = Len(S) + i /\ T[n] = b[i]
    <3>1. PICK i \in DOMAIN b : n = Len(S) + i /\ b[i] = "rs"
      BY <1>4, <2>2
    <3>2. PICK j \in DOMAIN b : j > i /\ b[j] = "us"
      BY <1>1, <3>1 DEF Paired
    <3>3. Len(S) + j \in DOMAIN T /\ Len(S) + j > n
      BY <1>2, <3>1, <3>2
    <3>4. T[Len(S) + j] = "us"
      BY <1>2, <3>2
    <3> QED  BY <3>3, <3>4
  <2> QED  BY <1>3, <2>1, <2>2
<1>5. Paired(T)
  BY <1>4 DEF Paired
<1> QED  BY <1>5 DEF T

\* A marker is either there already or the piece.
LEMMA MarkerBehind ==
    ASSUME NEW S \in Bytes, Whole(S), NEW b, Piece(b), NEW event, NEW m,
           MarkerAt(S \o b, m, "mine", event)
    PROVE  \/ m \in DOMAIN S /\ MarkerAt(S, m, "mine", event)
           \/ m = Len(S) + 1 /\ b = AttachmentMarker("mine", event)
<1> DEFINE T == S \o b
           n == m + 2
<1>1. b \in Bytes
  BY DEF Piece
<1>2. /\ Len(S) \in Nat /\ Len(b) \in Nat /\ Len(T) = Len(S) + Len(b)
      /\ DOMAIN S = 1..Len(S) /\ DOMAIN b = 1..Len(b) /\ DOMAIN T = 1..(Len(S) + Len(b))
      /\ \A i \in 1..Len(S) : T[i] = S[i]
      /\ \A i \in 1..Len(b) : T[Len(S) + i] = b[i]
  BY <1>1, Behind
<1>3. \A i \in DOMAIN T : \/ i \in DOMAIN S /\ T[i] = S[i]
                          \/ \E j \in DOMAIN b : i = Len(S) + j /\ T[i] = b[j]
  BY <1>1, ElementsBehind
<1>4. MarkerAt(T, m, "mine", event)
  OBVIOUS
<1> HIDE DEF T, n
<1>5. /\ m \in Nat \ {0} /\ m + 4 <= Len(T)
      /\ T[m] = "rs" /\ T[m + 1] = "v1" /\ T[m + 2] = "mine" /\ T[m + 3] = event /\ T[m + 4] = "us"
  BY <1>4 DEF MarkerAt
<1>6. n \in DOMAIN T /\ T[n] = "mine"
  BY <1>2, <1>5 DEF n
<1>7. CASE n \in DOMAIN S /\ T[n] = S[n]
  <2>1. n + 2 <= Len(S)
    BY <1>6, <1>7 DEF Whole
  <2>2. m + 4 <= Len(S)
    BY <1>2, <1>5, <2>1 DEF n
  <2>3. {m, m + 1, m + 2, m + 3, m + 4} \subseteq 1..Len(S)
    BY <1>2, <1>5, <2>2
  <2>4. /\ S[m] = "rs" /\ S[m + 1] = "v1" /\ S[m + 2] = "mine" /\ S[m + 3] = event /\ S[m + 4] = "us"
    BY <1>2, <1>5, <2>3
  <2>5. MarkerAt(S, m, "mine", event)
    BY <1>5, <2>2, <2>4 DEF MarkerAt
  <2> QED  BY <1>2, <2>3, <2>5
<1>8. CASE \E j \in DOMAIN b : n = Len(S) + j /\ T[n] = b[j]
  <2>1. PICK j \in DOMAIN b : n = Len(S) + j /\ b[j] = "mine"
    BY <1>6, <1>8
  <2>2. PICK e \in Events : b = AttachmentMarker("mine", e)
    BY <2>1 DEF Piece
  <2>3. /\ DOMAIN b = 1..5 /\ Len(b) = 5
        /\ b[1] = "rs" /\ b[2] = "v1" /\ b[3] = "mine" /\ b[4] = e /\ b[5] = "us"
    BY <2>2, MarkerElements
  <2>4. e # "mine"
    BY DEF Events
  <2>5. \A i \in 1..5 : i = 1 \/ i = 2 \/ i = 3 \/ i = 4 \/ i = 5
    OBVIOUS
  <2>6. j = 3
    BY <2>1, <2>3, <2>4, <2>5
  <2>7. m = Len(S) + 1 /\ m + 3 = Len(S) + 4
    BY <1>2, <1>5, <2>1, <2>6 DEF n
  <2>8. T[Len(S) + 4] = b[4]
    BY <1>2, <2>3
  <2>9. e = event
    BY <1>5, <2>3, <2>7, <2>8
  <2> QED  BY <2>2, <2>7, <2>9
<1> QED  BY <1>3, <1>6, <1>7, <1>8

LEMMA SaysBehind ==
    ASSUME NEW S \in Bytes, Whole(S), NEW b, Piece(b), NEW event, Says(S \o b, event)
    PROVE  Says(S, event) \/ b = AttachmentMarker("mine", event)
<1>1. PICK m \in DOMAIN (S \o b) : MarkerAt(S \o b, m, "mine", event)
  BY DEF Says
<1> QED  BY <1>1, MarkerBehind DEF Says

LEMMA MarkerAtBehind ==
    ASSUME NEW S \in Bytes, NEW event \in Events
    PROVE  LET T == S \o AttachmentMarker("mine", event)
           IN Len(S) + 1 \in DOMAIN T /\ MarkerAt(T, Len(S) + 1, "mine", event)
<1> DEFINE b == AttachmentMarker("mine", event)
           T == S \o b
<1>1. /\ b \in Bytes /\ Len(b) = 5 /\ DOMAIN b = 1..5
      /\ b[1] = "rs" /\ b[2] = "v1" /\ b[3] = "mine" /\ b[4] = event /\ b[5] = "us"
  BY MarkerElements
<1> HIDE DEF b
<1>2. /\ Len(S) \in Nat /\ Len(T) = Len(S) + Len(b) /\ DOMAIN T = 1..(Len(S) + Len(b))
      /\ \A i \in 1..Len(b) : T[Len(S) + i] = b[i]
  BY <1>1, Behind
<1> HIDE DEF T
<1>3. \A i \in 1..5 : T[Len(S) + i] = b[i]
  BY <1>1, <1>2
<1>4. /\ T[Len(S) + 1] = "rs" /\ T[Len(S) + 2] = "v1" /\ T[Len(S) + 3] = "mine"
      /\ T[Len(S) + 4] = event /\ T[Len(S) + 5] = "us"
  BY <1>1, <1>3
<1>5. /\ Len(S) + 1 + 1 = Len(S) + 2 /\ Len(S) + 1 + 2 = Len(S) + 3 /\ Len(S) + 1 + 3 = Len(S) + 4
      /\ Len(S) + 1 + 4 = Len(S) + 5
      /\ Len(S) + 1 \in Nat \ {0} /\ Len(S) + 1 + 4 <= Len(T) /\ Len(S) + 1 \in DOMAIN T
  BY <1>1, <1>2
<1>6. MarkerAt(T, Len(S) + 1, "mine", event)
  BY <1>4, <1>5 DEF MarkerAt
<1> QED  BY <1>5, <1>6 DEF T, b

LEMMA SaysTheMarker ==
    ASSUME NEW S \in Bytes, NEW event \in Events
    PROVE  Says(S \o AttachmentMarker("mine", event), event)
BY MarkerAtBehind DEF Says

LEMMA ClearBehind ==
    ASSUME NEW S \in Bytes, Whole(S), Paired(S), Clear(S), NEW b, Piece(b)
    PROVE  Clear(S \o b)
<1> DEFINE T == S \o b
<1>1. b \in Bytes
  BY DEF Piece
<1>2. /\ Len(S) \in Nat /\ DOMAIN S = 1..Len(S)
      /\ \A i \in 1..Len(S) : T[i] = S[i]
  BY <1>1, Behind
<1>3. ASSUME NEW m \in DOMAIN T, NEW event \in Events, MarkerAt(T, m, "mine", event),
             NEW i \in 1..(m - 1), T[i] = "rs"
      PROVE  \E j \in (i + 1)..(m - 1) : T[j] = "us"
  <2>1. \/ m \in DOMAIN S /\ MarkerAt(S, m, "mine", event)
        \/ m = Len(S) + 1
    BY <1>3, MarkerBehind
  <2> HIDE DEF T
  <2>2. CASE m \in DOMAIN S /\ MarkerAt(S, m, "mine", event)
    <3>1. i \in 1..Len(S)
      BY <1>2, <2>2
    <3>2. S[i] = "rs"
      BY <1>2, <1>3, <3>1
    <3>3. PICK j \in (i + 1)..(m - 1) : S[j] = "us"
      BY <1>3, <2>2, <3>2 DEF Clear
    <3>4. j \in 1..Len(S)
      BY <1>2, <2>2, <3>1
    <3> QED  BY <1>2, <3>3, <3>4
  <2>3. CASE m = Len(S) + 1
    <3>1. i \in 1..Len(S)
      BY <1>2, <2>3
    <3>2. S[i] = "rs"
      BY <1>2, <1>3, <3>1
    <3>3. PICK j \in DOMAIN S : j > i /\ S[j] = "us"
      BY <1>2, <3>1, <3>2 DEF Paired
    <3>4. j \in (i + 1)..(m - 1) /\ j \in 1..Len(S)
      BY <1>2, <2>3, <3>1, <3>3
    <3> QED  BY <1>2, <3>3, <3>4
  <2> QED  BY <2>1, <2>2, <2>3
<1> HIDE DEF T
<1>4. Clear(T)
  BY <1>3 DEF Clear
<1> QED  BY <1>4 DEF T

-----------------------------------------------------------------------------
(* What the decoder tells of a stream S.                                   *)

Final == {"detached", "failed"}

\* An end that was good is a failure if readiness did not come before it.
Because(S, event, ready) ==
    IF event = "detached" THEN ready /\ Says(S, "detached")
    ELSE Says(S, "failed") \/ (~ready /\ Says(S, "detached"))

\* x is what became of d, that has told nothing yet.
HeardNothing(d, x) == x.ready = d.ready /\ x.finished = d.finished /\ x.events = <<>>

HeardReady(d, x, S) ==
    /\ ~d.finished /\ ~d.ready /\ x.ready /\ ~x.finished
    /\ x.events = <<"ready">> /\ Says(S, "ready")

HeardEnd(d, x, S, event) ==
    /\ ~d.finished /\ x.finished /\ x.ready = d.ready
    /\ x.events = <<event>> /\ Because(S, event, x.ready)

HeardBoth(d, x, S, event) ==
    /\ ~d.finished /\ ~d.ready /\ x.ready /\ x.finished
    /\ x.events = <<"ready", event>> /\ Says(S, "ready") /\ Because(S, event, x.ready)

Heard(d, x, S) ==
    \/ HeardNothing(d, x)
    \/ HeardReady(d, x, S)
    \/ \E event \in Final : HeardEnd(d, x, S, event) \/ HeardBoth(d, x, S, event)

LEMMA AppendToOne ==
    ASSUME NEW a, NEW b
    PROVE  Append(<<a>>, b) = <<a, b>>
<1> DEFINE T == {a, b}
<1>1. <<a>> \in Seq(T) /\ <<a, b>> \in Seq(T) /\ b \in T /\ Len(<<a>>) = 1 /\ Len(<<a, b>>) = 2
      /\ <<a, b>>[1] = a /\ <<a, b>>[2] = b /\ <<a>>[1] = a
  OBVIOUS
<1> HIDE DEF T
<1>2. /\ Append(<<a>>, b) \in Seq(T) /\ Len(Append(<<a>>, b)) = 2
      /\ Append(<<a>>, b)[1] = a /\ Append(<<a>>, b)[2] = b
  BY <1>1, AppendProperties
<1>3. \A i \in 1..2 : i = 1 \/ i = 2
  OBVIOUS
<1> QED  BY <1>1, <1>2, <1>3, SeqEqual

LEMMA LearnHears ==
    ASSUME NEW d, NEW x \in Decoders, NEW S, Heard(d, x, S),
           NEW token \in Tokens, NEW event \in Events, token = "mine" => Says(S, event)
    PROVE  Heard(d, Learn(x, token, event), S)
<1> DEFINE y == Learn(x, token, event)
           e == IF event = "detached" /\ ~x.ready THEN "failed" ELSE event
<1>1. CASE token # "mine" \/ x.finished \/ (event = "ready" /\ x.ready)
  <2>1. y = x
    BY <1>1 DEF Learn
  <2> QED  BY <2>1
<1>2. CASE token = "mine" /\ ~x.finished /\ event = "ready" /\ ~x.ready
  <2>1. y = [x EXCEPT !.ready = TRUE, !.events = Append(@, event)]
    BY <1>2 DEF Learn
  <2>2. HeardNothing(d, x)
    BY <1>2 DEF Heard, HeardReady, HeardEnd, HeardBoth
  <2>3. Append(x.events, event) = <<"ready">>
    BY <1>2, <2>2 DEF HeardNothing
  <2>4. y.ready /\ y.finished = x.finished /\ y.events = Append(x.events, event)
    BY <2>1 DEF Decoders
  <2> HIDE DEF y
  <2>5. HeardReady(d, y, S)
    BY <1>2, <2>2, <2>3, <2>4 DEF HeardNothing, HeardReady
  <2> QED  BY <2>5 DEF Heard, y
<1>3. CASE token = "mine" /\ ~x.finished /\ event # "ready"
  <2>1. y = [x EXCEPT !.finished = TRUE, !.events = Append(@, e)]
    BY <1>3 DEF Learn
  <2>2. HeardNothing(d, x) \/ HeardReady(d, x, S)
    BY <1>3 DEF Heard, HeardEnd, HeardBoth
  <2>3. e \in Final /\ Because(S, e, x.ready)
    BY <1>3 DEF Final, Events, Because
  <2>4. y.ready = x.ready /\ y.finished /\ y.events = Append(x.events, e)
    BY <2>1 DEF Decoders
  <2> HIDE DEF y, e
  <2>5. CASE HeardNothing(d, x)
    <3>1. Append(x.events, e) = <<e>>
      BY <2>5 DEF HeardNothing
    <3>2. HeardEnd(d, y, S, e)
      BY <1>3, <2>3, <2>4, <2>5, <3>1 DEF HeardNothing, HeardEnd
    <3> QED  BY <2>3, <3>2 DEF Heard, y
  <2>6. CASE HeardReady(d, x, S)
    <3>1. Append(x.events, e) = <<"ready", e>>
      BY <2>6, AppendToOne DEF HeardReady
    <3>2. HeardBoth(d, y, S, e)
      BY <1>3, <2>3, <2>4, <2>6, <3>1 DEF HeardReady, HeardBoth
    <3> QED  BY <2>3, <3>2 DEF Heard, y
  <2> QED  BY <2>2, <2>5, <2>6
<1> QED  BY <1>1, <1>2, <1>3

\* What a feed is given, before the first pass.
Fed(d, data) == [d EXCEPT !.pending = @ \o data, !.out = <<>>, !.events = <<>>]

LEMMA FedIs ==
    ASSUME NEW d \in Decoders, NEW data \in Bytes
    PROVE  /\ Fed(d, data) \in Decoders
           /\ Fed(d, data).pending = d.pending \o data
           /\ Fed(d, data).events = <<>>
           /\ Fed(d, data).ready = d.ready /\ Fed(d, data).finished = d.finished
           /\ \A eof : Feed(d, data, eof) = Decode(Fed(d, data), eof)
<1>1. d.pending \o data \in Bytes /\ <<>> \in Bytes /\ <<>> \in Seq(Events)
  BY DEF Decoders, Bytes
<1>2. \A eof : Feed(d, data, eof) = Decode(Fed(d, data), eof)
  BY DEF Feed, Fed
<1> QED  BY <1>1, <1>2 DEF Decoders, Fed

\* What d may become on S.
Hearers(d, S) == {x \in Decoders : Heard(d, x, S) /\ \E k \in 0..Len(S) : x.pending = From(S, k + 1)}

\* A pass takes some bytes, and tells what stands in them.
LEMMA PassHears ==
    ASSUME NEW d, NEW S \in Bytes, NEW eof \in BOOLEAN, NEW x \in Hearers(d, S)
    PROVE  Pass(x, eof) \in Hearers(d, S)
<1> DEFINE y == Pass(x, eof)
           P == x.pending
<1>7. x \in Decoders /\ Heard(d, x, S)
  BY DEF Hearers
<1>8. PICK k \in 0..Len(S) : x.pending = From(S, k + 1)
  BY DEF Hearers
<1>1. /\ y \in Decoders
      /\ \E n \in 0..Len(P) :
            /\ y.pending = From(P, n + 1)
            /\ \/ y = Flush(x, n)
               \/ \E s : \E token \in Tokens, event \in Events :
                     /\ MarkerAt(P, s, token, event) /\ n = s + 4
                     /\ y = Learn(Taken(x, s), token, event)
  BY <1>7, PassTakes
<1>2. P = From(S, k + 1) /\ P \in Bytes /\ Len(P) = Len(S) - k /\ Len(S) \in Nat /\ S \in Seq(Byte)
  <2>1. From(S, k + 1) \in Bytes /\ Len(From(S, k + 1)) = Len(S) - k
    BY RestElements
  <2> QED  BY <1>8, <2>1, DomainOfBytes
<1> HIDE DEF y, P
<1>3. PICK n \in 0..Len(P) :
            /\ y.pending = From(P, n + 1)
            /\ \/ y = Flush(x, n)
               \/ \E s : \E token \in Tokens, event \in Events :
                     /\ MarkerAt(P, s, token, event) /\ n = s + 4
                     /\ y = Learn(Taken(x, s), token, event)
  BY <1>1
<1>4. k + n \in 0..Len(S) /\ From(P, n + 1) = From(S, k + n + 1)
  <2>1. k + 1 \in 1..(Len(S) + 1) /\ n + 1 \in 1..(Len(S) + 2 - (k + 1)) /\ k + 1 + (n + 1) - 1 = k + n + 1
        /\ k + n \in 0..Len(S)
    BY <1>2
  <2>2. From(From(S, k + 1), n + 1) = From(S, k + 1 + (n + 1) - 1)
    BY <1>2, <2>1, FromFrom
  <2> QED  BY <1>2, <2>1, <2>2
<1>5. CASE y = Flush(x, n)
  <2>1. y.ready = x.ready /\ y.finished = x.finished /\ y.events = x.events
    BY <1>5, <1>7, FlushIs DEF P
  <2>2. Heard(d, y, S)
    BY <1>7, <2>1 DEF Heard, HeardNothing, HeardReady, HeardEnd, HeardBoth
  <2> QED  BY <1>1, <1>3, <1>4, <2>2 DEF y, Hearers
<1>6. CASE \E s : \E token \in Tokens, event \in Events :
                     /\ MarkerAt(P, s, token, event) /\ n = s + 4
                     /\ y = Learn(Taken(x, s), token, event)
  <2>1. PICK s : \E token \in Tokens, event \in Events :
                     /\ MarkerAt(P, s, token, event) /\ n = s + 4
                     /\ y = Learn(Taken(x, s), token, event)
    BY <1>6
  <2>2. PICK token \in Tokens, event \in Events :
                     /\ MarkerAt(P, s, token, event) /\ n = s + 4
                     /\ y = Learn(Taken(x, s), token, event)
    BY <2>1
  <2>3. s \in Nat \ {0} /\ s + 4 <= Len(P)
    BY <2>2 DEF MarkerAt
  <2> DEFINE t == Taken(x, s)
  <2>4. t \in Decoders /\ t.ready = x.ready /\ t.finished = x.finished /\ t.events = x.events
    BY <1>7, <2>3, TakenIs DEF P
  <2>5. Heard(d, t, S)
    <3> HIDE DEF t
    <3> QED  BY <1>7, <2>4 DEF Heard, HeardNothing, HeardReady, HeardEnd, HeardBoth
  <2>6. token = "mine" => Says(S, event)
    <3>1. ASSUME token = "mine" PROVE Says(P, event)
      <4>1. s \in DOMAIN P
        BY <1>2, <2>3, DomainOfBytes
      <4> QED  BY <2>2, <3>1, <4>1 DEF Says
    <3> QED  BY <1>2, <3>1, SaysOfRest
  <2>7. Heard(d, Learn(t, token, event), S)
    <3> HIDE DEF t
    <3> QED  BY <2>4, <2>5, <2>6, LearnHears
  <2>8. Heard(d, y, S)
    BY <2>2, <2>7
  <2> QED  BY <1>1, <1>3, <1>4, <2>8 DEF y, Hearers
<1> QED  BY <1>3, <1>5, <1>6

\* What a feed tells is what stands in the stream it was given, and what it
\* keeps for the next is an end of that stream.
LEMMA FeedHears ==
    ASSUME NEW d \in Decoders, NEW data \in Bytes, NEW eof \in BOOLEAN
    PROVE  LET S == d.pending \o data
               x == Feed(d, data, eof)
           IN /\ S \in Bytes /\ x \in Decoders /\ Heard(d, x, S)
              /\ \E l \in 0..Len(S) : x.pending = From(S, l + 1)
<1> DEFINE S == d.pending \o data
           f == Fed(d, data)
           G == Hearers(d, S)
<1>1. S \in Bytes /\ S \in Seq(Byte) /\ Len(S) \in Nat
  <2>1. S \in Bytes
    BY DEF Decoders, Bytes
  <2> QED  BY <2>1, DomainOfBytes
<1>2. f \in G
  <2>1. f \in Decoders /\ f.pending = S /\ HeardNothing(d, f)
    BY FedIs DEF HeardNothing
  <2>2. From(S, 0 + 1) = S
    <3>1. S \in Seq(Byte)
      BY <1>1
    <3> HIDE DEF S
    <3>2. From(S, 1) = S
      BY <3>1, FromFirst
    <3> QED  BY <3>2
  <2> HIDE DEF f, S
  <2>3. 0 \in 0..Len(S) /\ f.pending = From(S, 0 + 1)
    BY <1>1, <2>1, <2>2
  <2> QED  BY <2>1, <2>3 DEF Heard, Hearers
<1>3. \A x \in G : Pass(x, eof) \in G
  <2> HIDE DEF S
  <2> QED  BY <1>1, PassHears
<1>4. Decode(f, eof) \in G
  <2>1. f \in Decoders
    BY FedIs
  <2> HIDE DEF f, G
  <2> QED  BY <1>2, <1>3, <2>1, DecodeKeeps
<1>5. Feed(d, data, eof) = Decode(f, eof)
  BY FedIs
<1> HIDE DEF f
<1> QED  BY <1>1, <1>4, <1>5 DEF Hearers

-----------------------------------------------------------------------------
(* What the decoder passes over.                                           *)

\* P stands in T, after k bytes.
Over(P, T, k) == k + Len(P) <= Len(T) /\ \A i \in 1..Len(P) : T[k + i] = P[i]

\* No marker of this attempt is passed over.
LEMMA NoMarkerBeforeStart ==
    ASSUME NEW P \in Bytes, NEW T \in Bytes, NEW k \in Nat, Over(P, T, k),
           NEW s, FirstStart(P, s), NEW m, NEW token, NEW event, MarkerAt(T, m, token, event), m > k
    PROVE  m >= k + s
<1>1. Len(P) \in Nat /\ Len(T) \in Nat /\ DOMAIN P = 1..Len(P)
  BY DomainOfBytes
<1>2. s \in 1..Len(P) /\ \A i \in DOMAIN P : StartsAt(P, i) => s <= i
  BY <1>1 DEF FirstStart
<1>3. m \in Nat \ {0} /\ T[m] = "rs" /\ T[m + 1] = "v1"
  BY DEF MarkerAt
<1>4. SUFFICES ASSUME m < k + s PROVE FALSE
  BY <1>2, <1>3
<1> DEFINE i == m - k
<1>5. i \in 1..Len(P) /\ i + 1 \in 1..Len(P) /\ k + i = m /\ k + (i + 1) = m + 1 /\ i < s
  BY <1>1, <1>2, <1>3, <1>4
<1> HIDE DEF i
<1>6. P[i] = "rs" /\ P[i + 1] = "v1"
  BY <1>3, <1>5 DEF Over
<1>7. StartsAt(P, i)
  <2>1. i \in DOMAIN P /\ i + 1 <= Len(P)
    BY <1>1, <1>5
  <2> QED  BY <1>6, <2>1, StartsAtIs
<1>8. s <= i
  BY <1>1, <1>2, <1>5, <1>7
<1> QED  BY <1>2, <1>5, <1>8

LEMMA NoMarkerInText ==
    ASSUME NEW P \in Bytes, NEW T \in Bytes, NEW k \in Nat, Over(P, T, k), P # <<>>, NoStart(P),
           NEW eof \in BOOLEAN, eof => k + Len(P) = Len(T),
           NEW m, NEW token, NEW event, MarkerAt(T, m, token, event), m > k
    PROVE  m > k + (Len(P) - Kept(P, eof))
<1>1. Len(P) \in Nat /\ Len(T) \in Nat /\ DOMAIN P = 1..Len(P)
  BY DomainOfBytes
<1>2. m \in Nat \ {0} /\ m + 4 <= Len(T) /\ T[m] = "rs" /\ T[m + 1] = "v1"
  BY DEF MarkerAt
<1>3. Kept(P, eof) \in 0..1 /\ (Kept(P, eof) = 1 <=> ~eof /\ P[Len(P)] = "rs")
  BY KeptIs
<1> DEFINE c == Kept(P, eof)
           i == m - k
<1>4. SUFFICES ASSUME m <= k + (Len(P) - c) PROVE FALSE
  BY <1>1, <1>2, <1>3
<1> HIDE DEF c
<1>5. c \in 0..1 /\ (c = 1 <=> ~eof /\ P[Len(P)] = "rs")
  BY <1>3 DEF c
<1>6. i \in 1..Len(P) /\ k + i = m /\ k + (i + 1) = m + 1 /\ i <= Len(P) - c
  BY <1>1, <1>2, <1>4, <1>5
<1> HIDE DEF i
<1>7. P[i] = "rs"
  BY <1>2, <1>6 DEF Over
<1>8. CASE i + 1 <= Len(P)
  <2>1. i + 1 \in 1..Len(P)
    BY <1>1, <1>6, <1>8
  <2>2. P[i + 1] = "v1"
    BY <1>2, <1>6, <2>1 DEF Over
  <2>3. StartsAt(P, i) /\ i \in DOMAIN P
    BY <1>1, <1>6, <1>7, <1>8, <2>2, StartsAtIs
  <2> QED  BY <2>3 DEF NoStart
<1>9. CASE ~(i + 1 <= Len(P))
  <2>1. i = Len(P)
    <3>1. i \in Nat /\ i <= Len(P)
      BY <1>1, <1>6
    <3>2. \A a, b \in Nat : a <= b /\ ~(a + 1 <= b) => a = b
      OBVIOUS
    <3> QED  BY <1>1, <1>9, <3>1, <3>2
  <2>2. CASE eof
    <3>1. k + Len(P) = Len(T)
      BY <2>2
    <3> QED  BY <1>1, <1>2, <1>6, <2>1, <3>1
  <2>3. CASE ~eof
    <3>1. c = 1
      BY <1>5, <1>7, <2>1, <2>3
    <3> QED  BY <1>1, <1>6, <2>1, <3>1
  <2> QED  BY <2>2, <2>3
<1> QED  BY <1>8, <1>9

\* Of a marker of which the pending data holds the beginning.
LEMMA MarkerBegun ==
    ASSUME NEW P \in Bytes, NEW T \in Bytes, NEW k \in Nat, Over(P, T, k), NEW s \in 1..Len(P),
           NEW event \in Events, MarkerAt(T, k + s, "mine", event)
    PROVE  /\ s + 4 <= Len(P) => MarkerAt(P, s, "mine", event)
           /\ s + 4 > Len(P) => NoDelimiter(P, s) /\ k + Len(P) < Len(T)
<1>1. Len(P) \in Nat /\ Len(T) \in Nat /\ DOMAIN P = 1..Len(P) /\ s \in Nat \ {0}
  BY DomainOfBytes
<1>2. /\ k + s + 4 <= Len(T) /\ T[k + s] = "rs" /\ T[k + s + 1] = "v1" /\ T[k + s + 2] = "mine"
      /\ T[k + s + 3] = event /\ T[k + s + 4] = "us"
  BY DEF MarkerAt
<1>3. CASE s + 4 <= Len(P)
  <2>1. {s, s + 1, s + 2, s + 3, s + 4} \subseteq 1..Len(P)
        /\ k + (s + 1) = k + s + 1 /\ k + (s + 2) = k + s + 2 /\ k + (s + 3) = k + s + 3 /\ k + (s + 4) = k + s + 4
    BY <1>1, <1>3
  <2>2. P[s] = "rs" /\ P[s + 1] = "v1" /\ P[s + 2] = "mine" /\ P[s + 3] = event /\ P[s + 4] = "us"
    BY <1>2, <2>1 DEF Over
  <2>3. MarkerAt(P, s, "mine", event)
    BY <1>1, <1>3, <2>2 DEF MarkerAt
  <2> QED  BY <1>1, <1>3, <2>3
<1>4. CASE s + 4 > Len(P)
  <2>1. ASSUME NEW i \in DOMAIN P, i >= s PROVE P[i] # Delimiter
    <3>1. i \in 1..Len(P) /\ (i = s \/ i = s + 1 \/ i = s + 2 \/ i = s + 3)
      BY <1>1, <1>4, <2>1
    <3>2. P[i] = T[k + i]
      BY <3>1 DEF Over
    <3>3. event # "us"
      BY DEF Events
    <3>4. k + i = k + s \/ k + i = k + s + 1 \/ k + i = k + s + 2 \/ k + i = k + s + 3
      BY <1>1, <3>1
    <3> QED  BY <1>2, <3>2, <3>3, <3>4 DEF Delimiter
  <2>2. k + Len(P) < Len(T)
    BY <1>1, <1>2, <1>4
  <2> QED  BY <1>1, <1>4, <2>1, <2>2 DEF NoDelimiter
<1> QED  BY <1>1, <1>3, <1>4

LEMMA NoMarkerRefused ==
    ASSUME NEW P \in Bytes, NEW T \in Bytes, NEW k \in Nat, Over(P, T, k),
           NEW eof \in BOOLEAN, eof => k + Len(P) = Len(T),
           NEW s, FirstStart(P, s), Refused(P, eof, s),
           NEW m, NEW event \in Events, MarkerAt(T, m, "mine", event), m > k
    PROVE  m > k + s
<1>1. Len(P) \in Nat /\ Len(T) \in Nat /\ DOMAIN P = 1..Len(P) /\ s \in 1..Len(P) /\ m \in Nat
  BY DomainOfBytes DEF FirstStart, MarkerAt
<1>2. m >= k + s
  BY NoMarkerBeforeStart
<1>3. SUFFICES ASSUME m = k + s PROVE FALSE
  BY <1>1, <1>2
<1>4. MarkerAt(T, k + s, "mine", event)
  BY <1>3
<1>5. MaxMarker \in Nat /\ MaxMarker >= 5
  <2>1. Len(AttachmentMarker("mine", event)) = 5 /\ "mine" \in Tokens
    BY MarkerElements DEF Tokens
  <2> QED  BY <2>1, MarkersFit
<1>6. CASE s + 4 <= Len(P)
  <2>1. MarkerAt(P, s, "mine", event)
    BY <1>1, <1>4, <1>6, MarkerBegun
  <2>2. FirstDelimiter(P, s, s + 4)
    BY <2>1, MarkerIsDelimited DEF Tokens
  <2>3. ~NoDelimiter(P, s)
    BY <1>1, <2>2 DEF NoDelimiter, FirstDelimiter
  <2>4. PICK t : FirstDelimiter(P, s, t) /\ t - s + 1 > MaxMarker
    BY <2>3 DEF Refused
  <2>5. t <= s + 4 /\ t \in Nat
    BY <1>1, <2>2, <2>4 DEF FirstDelimiter
  <2> QED  BY <1>1, <1>5, <2>4, <2>5
<1>7. CASE s + 4 > Len(P)
  <2>1. NoDelimiter(P, s) /\ k + Len(P) < Len(T)
    BY <1>1, <1>4, <1>7, MarkerBegun
  <2>2. ~eof
    BY <1>1, <2>1
  <2>3. \A t : ~FirstDelimiter(P, s, t)
    BY <2>1 DEF NoDelimiter, FirstDelimiter
  <2>4. Len(P) - s + 1 >= MaxMarker
    BY <2>2, <2>3 DEF Refused
  <2> QED  BY <1>1, <1>5, <1>7, <2>4
<1> QED  BY <1>1, <1>6, <1>7

LEMMA NoMarkerSkipped ==
    ASSUME NEW P \in Bytes, NEW T \in Bytes, NEW k \in Nat, Over(P, T, k), Clear(T),
           NEW s, FirstStart(P, s), NEW t, Skipped(P, s, t),
           NEW m, NEW event \in Events, MarkerAt(T, m, "mine", event), m > k
    PROVE  m > k + t
<1>1. /\ Len(P) \in Nat /\ Len(T) \in Nat /\ DOMAIN P = 1..Len(P) /\ DOMAIN T = 1..Len(T)
      /\ s \in 1..Len(P) /\ m \in Nat /\ m + 4 <= Len(T)
  BY DomainOfBytes DEF FirstStart, MarkerAt
<1>2. m >= k + s
  BY NoMarkerBeforeStart
<1>3. /\ t \in 1..Len(P) /\ t >= s /\ P[t] = Delimiter
      /\ \A j \in DOMAIN P : j >= s /\ P[j] = Delimiter => t <= j
      /\ \A token \in Tokens, e \in Events : ~MarkerAt(P, s, token, e)
  BY <1>1 DEF Skipped, FirstDelimiter
<1>4. SUFFICES ASSUME m <= k + t PROVE FALSE
  BY <1>1, <1>3
<1>5. CASE m = k + s
  <2>1. MarkerAt(T, k + s, "mine", event)
    BY <1>5
  <2>2. ~MarkerAt(P, s, "mine", event)
    BY <1>3 DEF Tokens
  <2>3. s + 4 > Len(P)
    BY <1>1, <2>1, <2>2, MarkerBegun
  <2>4. NoDelimiter(P, s)
    BY <1>1, <2>1, <2>3, MarkerBegun
  <2> QED  BY <1>1, <1>3, <2>4 DEF NoDelimiter
<1>6. CASE m > k + s
  <2> DEFINE a == k + s
  <2>1. a \in 1..(m - 1) /\ m \in DOMAIN T
    BY <1>1, <1>6
  <2>2. T[a] = "rs"
    <3>1. P[s] = "rs"
      <4>1. StartsAt(P, s)
        BY DEF FirstStart
      <4> QED  BY <1>1, <4>1, StartsAtIs
    <3> QED  BY <1>1, <3>1 DEF Over
  <2> HIDE DEF a
  <2>3. PICK j \in (a + 1)..(m - 1) : T[j] = "us"
    BY <2>1, <2>2 DEF Clear
  <2>4. j - k \in 1..Len(P) /\ j - k >= s /\ j - k < t /\ k + (j - k) = j
    BY <1>1, <1>3, <1>4, <2>3 DEF a
  <2>5. P[j - k] = Delimiter
    BY <2>3, <2>4 DEF Over, Delimiter
  <2> QED  BY <1>1, <1>3, <2>4, <2>5
<1> QED  BY <1>1, <1>2, <1>5, <1>6

LEMMA NoMarkerInMarker ==
    ASSUME NEW P \in Bytes, NEW T \in Bytes, NEW k \in Nat, Over(P, T, k),
           NEW s, FirstStart(P, s), NEW token \in Tokens, NEW event \in Events, MarkerAt(P, s, token, event),
           NEW m, NEW other, NEW e, MarkerAt(T, m, other, e), m > k
    PROVE  \/ m = k + s /\ other = token /\ e = event
           \/ m > k + (s + 4)
<1>1. /\ Len(P) \in Nat /\ Len(T) \in Nat /\ s \in 1..Len(P) /\ s + 4 <= Len(P) /\ m \in Nat
      /\ P[s] = "rs" /\ P[s + 1] = "v1" /\ P[s + 2] = token /\ P[s + 3] = event /\ P[s + 4] = "us"
  BY DomainOfBytes DEF FirstStart, MarkerAt
<1>2. m >= k + s
  BY NoMarkerBeforeStart
<1>3. {s, s + 1, s + 2, s + 3, s + 4} \subseteq 1..Len(P)
  BY <1>1
<1>4. T[k + s] = "rs" /\ T[k + (s + 1)] = "v1" /\ T[k + (s + 2)] = token
      /\ T[k + (s + 3)] = event /\ T[k + (s + 4)] = "us"
  BY <1>1, <1>3 DEF Over
<1>5. T[m] = "rs" /\ T[m + 2] = other /\ T[m + 3] = e
  BY DEF MarkerAt
<1>6. token # "rs" /\ event # "rs"
  BY DEF Tokens, Events
<1>7. CASE m = k + s
  <2>1. m + 2 = k + (s + 2) /\ m + 3 = k + (s + 3)
    BY <1>1, <1>7
  <2> QED  BY <1>4, <1>5, <1>7, <2>1
<1>8. CASE m # k + s
  <2>1. m # k + (s + 1) /\ m # k + (s + 2) /\ m # k + (s + 3) /\ m # k + (s + 4)
    BY <1>4, <1>5, <1>6
  <2> QED  BY <1>1, <1>2, <1>8, <2>1
<1> QED  BY <1>7, <1>8

-----------------------------------------------------------------------------
(* Everything the stream says is noticed, and nothing else.                *)

Noticed(x, event) == x.finished \/ (event = "ready" /\ x.ready)

\* A good end that may still be told has readiness before it.
ReadyFirst(T, d) ==
    \A m \in DOMAIN T : MarkerAt(T, m, "mine", "detached") =>
        d.ready \/ d.finished \/ \E l \in 1..(m - 1) : MarkerAt(T, l, "mine", "ready")

\* Markers up to the k-th byte have been noticed.
NoticedBefore(x, T, k) ==
    \A m \in DOMAIN T, event \in Events :
        MarkerAt(T, m, "mine", event) => m > k \/ Noticed(x, event)

Honest(x, T) == \A i \in DOMAIN x.events : Says(T, x.events[i])

\* What d may become on S when R follows.
Noticers(d, S, R) ==
    {x \in Decoders :
        /\ d.ready => x.ready
        /\ d.finished => x.finished
        /\ Honest(x, S \o R)
        /\ \E k \in 0..Len(S) : x.pending = From(S, k + 1) /\ NoticedBefore(x, S \o R, k)}

LEMMA RestIsOver ==
    ASSUME NEW S \in Bytes, NEW R \in Bytes, NEW k \in 0..Len(S)
    PROVE  /\ From(S, k + 1) \in Bytes /\ S \o R \in Bytes /\ k \in Nat
           /\ Len(From(S, k + 1)) = Len(S) - k
           /\ Over(From(S, k + 1), S \o R, k)
           /\ R = <<>> => k + Len(From(S, k + 1)) = Len(S \o R)
<1> DEFINE P == From(S, k + 1)
           T == S \o R
<1>1. P \in Bytes /\ Len(P) = Len(S) - k /\ \A i \in 1..(Len(S) - k) : P[i] = S[k + i] /\ k + i \in DOMAIN S
  BY RestElements
<1>2. /\ T \in Bytes /\ Len(S) \in Nat /\ Len(R) \in Nat /\ Len(T) = Len(S) + Len(R)
      /\ DOMAIN S = 1..Len(S) /\ \A i \in 1..Len(S) : T[i] = S[i]
  BY Behind
<1>3. R = <<>> => Len(R) = 0
  OBVIOUS
<1> HIDE DEF P, T
<1>4. k \in Nat /\ k + Len(P) = Len(S)
  BY <1>1, <1>2
<1>5. Over(P, T, k)
  <2>1. k + Len(P) <= Len(T)
    BY <1>2, <1>4
  <2>2. ASSUME NEW i \in 1..Len(P) PROVE T[k + i] = P[i]
    <3>1. i \in 1..(Len(S) - k)
      BY <1>1
    <3>2. P[i] = S[k + i] /\ k + i \in 1..Len(S)
      BY <1>1, <1>2, <3>1
    <3> QED  BY <1>2, <3>2
  <2> QED  BY <2>1, <2>2 DEF Over
<1>6. ASSUME R = <<>> PROVE k + Len(P) = Len(T)
  <2>1. Len(T) = Len(S) + 0
    BY <1>2, <1>3, <1>6
  <2> QED  BY <1>2, <1>4, <2>1
<1> QED  BY <1>1, <1>2, <1>4, <1>5, <1>6 DEF P, T

\* A pass that tells nothing.
LEMMA FlushNotices ==
    ASSUME NEW d, NEW S \in Bytes, NEW R \in Bytes, NEW x \in Noticers(d, S, R),
           NEW k \in 0..Len(S), x.pending = From(S, k + 1), NoticedBefore(x, S \o R, k),
           NEW n \in 0..Len(x.pending),
           \A m \in DOMAIN (S \o R), event \in Events :
               MarkerAt(S \o R, m, "mine", event) /\ m > k => m > k + n
    PROVE  Flush(x, n) \in Noticers(d, S, R)
<1> DEFINE T == S \o R
           y == Flush(x, n)
<1>1. /\ x \in Decoders
      /\ d.ready => x.ready
      /\ d.finished => x.finished
      /\ Honest(x, T)
  BY DEF Noticers
<1>2. /\ y \in Decoders /\ y.pending = From(x.pending, n + 1)
      /\ y.ready = x.ready /\ y.finished = x.finished /\ y.events = x.events
  BY <1>1, FlushIs
<1>3. k + n \in 0..Len(S) /\ From(x.pending, n + 1) = From(S, k + n + 1)
  <2>1. S \in Seq(Byte) /\ Len(S) \in Nat /\ Len(x.pending) = Len(S) - k
    BY DomainOfBytes, RestIsOver
  <2>2. k + 1 \in 1..(Len(S) + 1) /\ n + 1 \in 1..(Len(S) + 2 - (k + 1)) /\ k + 1 + (n + 1) - 1 = k + n + 1
        /\ k + n \in 0..Len(S)
    BY <2>1
  <2>3. From(From(S, k + 1), n + 1) = From(S, k + 1 + (n + 1) - 1)
    BY <2>1, <2>2, FromFrom
  <2> QED  BY <2>2, <2>3
<1>4. \A m \in DOMAIN T, event \in Events : MarkerAt(T, m, "mine", event) /\ m > k => m > k + n
  OBVIOUS
<1>5. NoticedBefore(x, T, k)
  OBVIOUS
<1> HIDE DEF T, y
<1>6. NoticedBefore(y, T, k + n)
  BY <1>2, <1>4, <1>5 DEF NoticedBefore, Noticed
<1>7. Honest(y, T)
  BY <1>1, <1>2 DEF Honest
<1>8. y \in Noticers(d, S, R)
  BY <1>1, <1>2, <1>3, <1>6, <1>7 DEF Noticers, T
<1> QED  BY <1>8 DEF y

LEMMA LearnTells ==
    ASSUME NEW t \in Decoders, NEW token \in Tokens, NEW event \in Events
    PROVE  LET y == Learn(t, token, event)
           IN /\ t.ready => y.ready
              /\ t.finished => y.finished
              /\ token = "mine" => Noticed(y, event)
              /\ \/ y.events = t.events
                 \/ /\ token = "mine" /\ ~t.finished
                    /\ y.events = Append(t.events, IF event = "detached" /\ ~t.ready THEN "failed" ELSE event)
<1> DEFINE y == Learn(t, token, event)
           e == IF event = "detached" /\ ~t.ready THEN "failed" ELSE event
<1>1. CASE token # "mine" \/ t.finished \/ (event = "ready" /\ t.ready)
  <2>1. y = t
    BY <1>1 DEF Learn
  <2> QED  BY <1>1, <2>1 DEF Noticed
<1>2. CASE token = "mine" /\ ~t.finished /\ event = "ready" /\ ~t.ready
  <2>1. y = [t EXCEPT !.ready = TRUE, !.events = Append(@, event)]
    BY <1>2 DEF Learn
  <2>2. y.ready /\ y.events = Append(t.events, event)
    BY <2>1 DEF Decoders
  <2>3. e = event
    BY <1>2
  <2> HIDE DEF y, e
  <2> QED  BY <1>2, <2>2, <2>3 DEF Noticed, y, e
<1>3. CASE token = "mine" /\ ~t.finished /\ event # "ready"
  <2>1. y = [t EXCEPT !.finished = TRUE, !.events = Append(@, e)]
    BY <1>3 DEF Learn
  <2>2. y.ready = t.ready /\ y.finished /\ y.events = Append(t.events, e)
    BY <2>1 DEF Decoders
  <2> HIDE DEF y, e
  <2> QED  BY <1>3, <2>2 DEF Noticed, y, e
<1> QED  BY <1>1, <1>2, <1>3

LEMMA HonestAppend ==
    ASSUME NEW T, NEW events \in Seq(Events), \A i \in DOMAIN events : Says(T, events[i]),
           NEW e \in Events, Says(T, e)
    PROVE  \A i \in DOMAIN Append(events, e) : Says(T, Append(events, e)[i])
<1>1. Len(events) \in Nat /\ DOMAIN events = 1..Len(events)
  OBVIOUS
<1>2. /\ Len(Append(events, e)) = Len(events) + 1 /\ Append(events, e)[Len(events) + 1] = e
      /\ \A i \in 1..Len(events) : Append(events, e)[i] = events[i]
      /\ DOMAIN Append(events, e) = 1..(Len(events) + 1)
  BY <1>1, AppendProperties
<1> HIDE DEF Says
<1>3. ASSUME NEW i \in 1..(Len(events) + 1) PROVE Says(T, Append(events, e)[i])
  <2>1. CASE i \in 1..Len(events)
    BY <1>1, <1>2, <2>1
  <2>2. CASE i = Len(events) + 1
    BY <1>2, <2>2
  <2> QED  BY <1>1, <2>1, <2>2
<1> QED  BY <1>2, <1>3

\* A pass that takes a marker.
LEMMA LearnNotices ==
    ASSUME NEW d, NEW S \in Bytes, NEW R \in Bytes, ReadyFirst(S \o R, d), NEW x \in Noticers(d, S, R),
           NEW k \in 0..Len(S), x.pending = From(S, k + 1), NoticedBefore(x, S \o R, k),
           NEW s, FirstStart(x.pending, s),
           NEW token \in Tokens, NEW event \in Events, MarkerAt(x.pending, s, token, event)
    PROVE  Learn(Taken(x, s), token, event) \in Noticers(d, S, R)
<1> DEFINE P == x.pending
           T == S \o R
           t == Taken(x, s)
           y == Learn(t, token, event)
           e == IF event = "detached" /\ ~t.ready THEN "failed" ELSE event
<1>1. /\ x \in Decoders
      /\ d.ready => x.ready
      /\ d.finished => x.finished
      /\ Honest(x, T)
  BY DEF Noticers
<1>2. /\ P \in Bytes /\ T \in Bytes /\ k \in Nat /\ Len(P) = Len(S) - k /\ Over(P, T, k)
      /\ S \in Seq(Byte) /\ Len(S) \in Nat
  BY RestIsOver, DomainOfBytes
<1>3. s \in Nat \ {0} /\ s + 4 <= Len(P) /\ s \in 1..Len(P)
  <2>1. s \in Nat \ {0} /\ s + 4 <= Len(P)
    BY DEF MarkerAt
  <2> QED  BY <1>2, <2>1
<1>4. /\ t \in Decoders /\ t.pending = From(P, s + 5)
      /\ t.ready = x.ready /\ t.finished = x.finished /\ t.events = x.events
  BY <1>1, <1>3, TakenIs
<1>13. FirstStart(P, s) /\ MarkerAt(P, s, token, event) /\ NoticedBefore(x, T, k) /\ ReadyFirst(T, d)
       /\ P = From(S, k + 1)
  OBVIOUS
<1> HIDE DEF t
<1>5. y \in Decoders /\ y.pending = t.pending
  BY <1>4, LearnIs
<1>6. /\ t.ready => y.ready
      /\ t.finished => y.finished
      /\ token = "mine" => Noticed(y, event)
      /\ y.events = t.events \/ (token = "mine" /\ ~t.finished /\ y.events = Append(t.events, e))
  BY <1>4, LearnTells, SMTT(30)
<1> HIDE DEF P, T, y, e
<1>7. k + (s + 4) \in 0..Len(S) /\ y.pending = From(S, k + (s + 4) + 1)
  <2>1. k + 1 \in 1..(Len(S) + 1) /\ s + 5 \in 1..(Len(S) + 2 - (k + 1))
        /\ k + 1 + (s + 5) - 1 = k + (s + 4) + 1 /\ k + (s + 4) \in 0..Len(S)
    BY <1>2, <1>3
  <2>2. From(From(S, k + 1), s + 5) = From(S, k + 1 + (s + 5) - 1)
    BY <1>2, <2>1, FromFrom
  <2> QED  BY <1>4, <1>5, <1>13, <2>1, <2>2
<1>8. NoticedBefore(y, T, k + (s + 4))
  <2>1. ASSUME NEW m \in DOMAIN T, NEW f \in Events, MarkerAt(T, m, "mine", f)
        PROVE  m > k + (s + 4) \/ Noticed(y, f)
    <3>1. CASE m > k
      <4>1. \/ m = k + s /\ "mine" = token /\ f = event
            \/ m > k + (s + 4)
        BY <1>2, <1>13, <2>1, <3>1, NoMarkerInMarker
      <4> QED  BY <1>6, <4>1
    <3>2. CASE ~(m > k)
      BY <1>4, <1>6, <1>13, <2>1, <3>2 DEF NoticedBefore, Noticed
    <3> QED  BY <3>1, <3>2
  <2> QED  BY <2>1 DEF NoticedBefore
<1>9. ASSUME token = "mine", ~t.finished PROVE Says(T, e) /\ e \in Events
  <2>1. MarkerAt(T, k + s, "mine", event) /\ k + s \in DOMAIN T
    <3>1. /\ P[s] = "rs" /\ P[s + 1] = "v1" /\ P[s + 2] = token /\ P[s + 3] = event /\ P[s + 4] = "us"
      BY <1>13 DEF MarkerAt
    <3>2. {s, s + 1, s + 2, s + 3, s + 4} \subseteq 1..Len(P) /\ k + s + 4 <= Len(T) /\ k + s \in 1..Len(T)
          /\ k + (s + 1) = k + s + 1 /\ k + (s + 2) = k + s + 2 /\ k + (s + 3) = k + s + 3 /\ k + (s + 4) = k + s + 4
      <4>1. Len(T) \in Nat /\ Len(P) \in Nat /\ k + Len(P) <= Len(T)
        BY <1>2, DomainOfBytes DEF Over
      <4> QED  BY <1>2, <1>3, <4>1
    <3>3. T[k + s] = "rs" /\ T[k + (s + 1)] = "v1" /\ T[k + (s + 2)] = token
          /\ T[k + (s + 3)] = event /\ T[k + (s + 4)] = "us"
      BY <1>2, <3>1, <3>2 DEF Over
    <3>4. k + s \in DOMAIN T
      BY <1>2, <3>2, DomainOfBytes
    <3>5. MarkerAt(T, k + s, "mine", event)
      BY <1>2, <1>3, <1>9, <3>2, <3>3 DEF MarkerAt
    <3> QED  BY <3>4, <3>5
  <2>2. event = "detached" => t.ready
    <3>1. SUFFICES ASSUME event = "detached", ~t.ready PROVE FALSE
      OBVIOUS
    <3>2. PICK l \in 1..(k + s - 1) : MarkerAt(T, l, "mine", "ready")
      <4> DEFINE a == k + s
      <4>1. a \in DOMAIN T /\ MarkerAt(T, a, "mine", "detached")
        BY <2>1, <3>1
      <4>2. ~d.ready /\ ~d.finished
        BY <1>1, <1>4, <1>9, <3>1
      <4> HIDE DEF a
      <4>3. \E l \in 1..(a - 1) : MarkerAt(T, l, "mine", "ready")
        BY <1>13, <4>1, <4>2 DEF ReadyFirst
      <4>4. PICK l \in 1..(a - 1) : MarkerAt(T, l, "mine", "ready")
        BY <4>3
      <4>5. l \in 1..(k + s - 1)
        BY <1>2, <1>3, <4>4 DEF a
      <4> QED  BY <4>4, <4>5
    <3>3. l \in DOMAIN T /\ l < k + s
      <4>1. Len(T) \in Nat /\ l + 4 <= Len(T) /\ l \in Nat
        BY <1>2, <3>2, DomainOfBytes DEF MarkerAt
      <4>2. l \in 1..Len(T)
        BY <3>2, <4>1
      <4> QED  BY <1>2, <1>3, <3>2, <4>2, DomainOfBytes
    <3>4. l > k
      <4>1. "ready" \in Events
        BY DEF Events
      <4> QED  BY <1>4, <1>9, <1>13, <3>1, <3>2, <3>3, <4>1 DEF NoticedBefore, Noticed
    <3>5. l >= k + s
      BY <1>2, <1>13, <3>2, <3>4, NoMarkerBeforeStart
    <3> QED  BY <1>2, <1>3, <3>2, <3>3, <3>5
  <2>3. e = event
    BY <2>2 DEF e
  <2>4. Says(T, event)
    BY <2>1 DEF Says
  <2> QED  BY <2>3, <2>4
<1>10. Honest(y, T)
  <2>1. CASE y.events = t.events
    BY <1>1, <1>4, <2>1 DEF Honest
  <2>2. CASE token = "mine" /\ ~t.finished /\ y.events = Append(t.events, e)
    <3>1. Says(T, e) /\ e \in Events /\ x.events \in Seq(Events)
      BY <1>1, <1>9, <2>2 DEF Decoders
    <3>2. \A i \in DOMAIN x.events : Says(T, x.events[i])
      BY <1>1 DEF Honest
    <3>3. \A i \in DOMAIN Append(x.events, e) : Says(T, Append(x.events, e)[i])
      BY <3>1, <3>2, HonestAppend
    <3>4. y.events = Append(x.events, e)
      BY <1>4, <2>2
    <3> QED  BY <3>3, <3>4 DEF Honest
  <2> QED  BY <1>6, <2>1, <2>2
<1>11. y \in Noticers(d, S, R)
  BY <1>1, <1>4, <1>5, <1>6, <1>7, <1>8, <1>10 DEF Noticers, T
<1> QED  BY <1>11 DEF y, t

LEMMA PassNotices ==
    ASSUME NEW d, NEW S \in Bytes, NEW R \in Bytes, Clear(S \o R), ReadyFirst(S \o R, d),
           NEW eof \in BOOLEAN, eof => R = <<>>, NEW x \in Noticers(d, S, R)
    PROVE  Pass(x, eof) \in Noticers(d, S, R)
<1> DEFINE P == x.pending
           T == S \o R
<1>1. x \in Decoders
  BY DEF Noticers
<1>2. PICK k \in 0..Len(S) : P = From(S, k + 1) /\ NoticedBefore(x, T, k)
  BY DEF Noticers
<1>3. /\ P \in Bytes /\ T \in Bytes /\ k \in Nat /\ Over(P, T, k) /\ Clear(T)
      /\ eof => k + Len(P) = Len(T)
  <2>1. R = <<>> => k + Len(P) = Len(T)
    BY <1>2, RestIsOver
  <2> QED  BY <1>2, <2>1, RestIsOver
<1>4. ASSUME NEW n \in 0..Len(P), Pass(x, eof) = Flush(x, n),
             \A m \in DOMAIN T, event \in Events : MarkerAt(T, m, "mine", event) /\ m > k => m > k + n
      PROVE  Pass(x, eof) \in Noticers(d, S, R)
  BY <1>2, <1>4, FlushNotices
<1>5. \A m \in DOMAIN T : m \in Nat
  BY <1>3, DomainOfBytes
<1>6. ASSUME NEW s, FirstStart(P, s) PROVE s \in 1..Len(P) /\ Len(P) \in Nat
  BY <1>3, <1>6, DomainOfBytes DEF FirstStart
<1> HIDE DEF P, T
<1>7. CASE P = <<>>
  BY <1>1, <1>7, PassOfNothing DEF P
<1>8. CASE P # <<>> /\ NoStart(P) /\ Pass(x, eof) = Flush(x, Len(P) - Kept(P, eof))
  <2>1. Len(P) - Kept(P, eof) \in 0..Len(P)
    BY <1>3, <1>8, KeptIs
  <2>2. ASSUME NEW m \in DOMAIN T, NEW event \in Events, MarkerAt(T, m, "mine", event), m > k
        PROVE  m > k + (Len(P) - Kept(P, eof))
    BY <1>3, <1>8, <2>2, NoMarkerInText
  <2> QED  BY <1>4, <1>8, <2>1, <2>2
<1>9. ASSUME NEW s, FirstStart(P, s), Pass(x, eof) = Flush(x, s - 1)
      PROVE  Pass(x, eof) \in Noticers(d, S, R)
  <2>1. s - 1 \in 0..Len(P) /\ s \in Nat
    BY <1>6, <1>9
  <2>2. ASSUME NEW m \in DOMAIN T, NEW event \in Events, MarkerAt(T, m, "mine", event), m > k
        PROVE  m > k + (s - 1)
    <3>1. m >= k + s
      BY <1>3, <1>9, <2>2, NoMarkerBeforeStart
    <3> QED  BY <1>3, <1>5, <2>1, <3>1
  <2> QED  BY <1>4, <1>9, <2>1, <2>2
<1>10. ASSUME NEW s, FirstStart(P, s), Refused(P, eof, s), Pass(x, eof) = Flush(x, s)
       PROVE  Pass(x, eof) \in Noticers(d, S, R)
  <2>1. s \in 0..Len(P)
    BY <1>6, <1>10
  <2>2. ASSUME NEW m \in DOMAIN T, NEW event \in Events, MarkerAt(T, m, "mine", event), m > k
        PROVE  m > k + s
    BY <1>3, <1>10, <2>2, NoMarkerRefused
  <2> QED  BY <1>4, <1>10, <2>1, <2>2
<1>11. ASSUME NEW s, FirstStart(P, s), NEW t, Skipped(P, s, t), Pass(x, eof) = Flush(x, t)
       PROVE  Pass(x, eof) \in Noticers(d, S, R)
  <2>1. t \in 0..Len(P)
    BY <1>3, <1>11, DomainOfBytes DEF Skipped, FirstDelimiter
  <2>2. ASSUME NEW m \in DOMAIN T, NEW event \in Events, MarkerAt(T, m, "mine", event), m > k
        PROVE  m > k + t
    BY <1>3, <1>11, <2>2, NoMarkerSkipped
  <2> QED  BY <1>4, <1>11, <2>1, <2>2
<1>12. ASSUME NEW s, FirstStart(P, s), NEW token \in Tokens, NEW event \in Events,
              MarkerAt(P, s, token, event), Pass(x, eof) = Learn(Taken(x, s), token, event)
       PROVE  Pass(x, eof) \in Noticers(d, S, R)
  BY <1>2, <1>12, LearnNotices DEF P, T
<1>13. CASE P # <<>>
  <2>1. \/ NoStart(P) /\ Pass(x, eof) = Flush(x, Len(P) - Kept(P, eof))
        \/ \E s : /\ FirstStart(P, s)
                  /\ \/ Pass(x, eof) = Flush(x, s - 1)
                     \/ Refused(P, eof, s) /\ Pass(x, eof) = Flush(x, s)
                     \/ \E t : Skipped(P, s, t) /\ Pass(x, eof) = Flush(x, t)
                     \/ \E token \in Tokens, event \in Events :
                           /\ MarkerAt(P, s, token, event)
                           /\ Pass(x, eof) = Learn(Taken(x, s), token, event)
    BY <1>1, <1>13, PassCases DEF P
  <2> QED  BY <1>8, <1>9, <1>10, <1>11, <1>12, <1>13, <2>1
<1> QED  BY <1>7, <1>13

\* At the end of the data nothing is kept.
LEMMA SettledAtEnd ==
    ASSUME NEW x \in Decoders, Pass(x, TRUE) = x
    PROVE  x.pending = <<>>
<1> DEFINE P == x.pending
<1>1. P \in Bytes /\ Len(P) \in Nat /\ P \in Seq(Byte)
  BY DomainOfBytes DEF Decoders
<1>2. ASSUME NEW n \in 1..Len(P), x.pending = From(P, n + 1) PROVE FALSE
  <2>1. n \in 0..Len(P)
    BY <1>1
  <2>2. Len(From(P, n + 1)) = Len(P) - n
    BY <1>1, <2>1, RestElements
  <2> QED  BY <1>1, <1>2, <2>2
<1>3. ASSUME NEW n \in 1..Len(P), Pass(x, TRUE) = Flush(x, n) PROVE FALSE
  <2>1. n \in 0..Len(P)
    BY <1>1
  <2>2. Flush(x, n).pending = From(P, n + 1)
    BY <2>1, FlushIs
  <2> QED  BY <1>2, <1>3, <2>2
<1>4. SUFFICES ASSUME P # <<>> PROVE FALSE
  OBVIOUS
<1>5. Len(P) # 0 /\ Len(P) - Kept(P, TRUE) = Len(P)
  BY <1>1, <1>4 DEF Kept
<1> HIDE DEF P
<1>6. PICK s : /\ FirstStart(P, s)
               /\ \/ Refused(P, TRUE, s) /\ Pass(x, TRUE) = Flush(x, s)
                  \/ \E t : Skipped(P, s, t) /\ Pass(x, TRUE) = Flush(x, t)
                  \/ \E token \in Tokens, event \in Events :
                        /\ MarkerAt(P, s, token, event)
                        /\ Pass(x, TRUE) = Learn(Taken(x, s), token, event)
  <2>1. TRUE \in BOOLEAN
    OBVIOUS
  <2>2. Pass(x, TRUE) # Flush(x, Len(P) - Kept(P, TRUE))
    <3>1. Len(P) \in 1..Len(P)
      BY <1>1, <1>5
    <3>2. Pass(x, TRUE) # Flush(x, Len(P))
      BY <1>3, <3>1
    <3> QED  BY <1>5, <3>2
  <2> QED  BY <1>4, <2>1, <2>2, PassCases DEF P
<1>7. s \in 1..Len(P)
  BY <1>1, <1>6, DomainOfBytes DEF FirstStart
<1>8. Pass(x, TRUE) # Flush(x, s)
  BY <1>3, <1>7
<1>9. ASSUME NEW t, Skipped(P, s, t) PROVE Pass(x, TRUE) # Flush(x, t)
  <2>1. t \in 1..Len(P)
    BY <1>1, <1>9, DomainOfBytes DEF Skipped, FirstDelimiter
  <2> QED  BY <1>3, <2>1
<1>10. ASSUME NEW token \in Tokens, NEW event \in Events, MarkerAt(P, s, token, event)
       PROVE  Pass(x, TRUE) # Learn(Taken(x, s), token, event)
  <2>1. s \in Nat \ {0} /\ s + 4 <= Len(P) /\ s + 4 \in 1..Len(P) /\ s + 4 + 1 = s + 5
    <3>1. s \in Nat \ {0} /\ s + 4 <= Len(P)
      BY <1>10 DEF MarkerAt
    <3> QED  BY <1>1, <3>1
  <2>2. Taken(x, s) \in Decoders /\ Taken(x, s).pending = From(P, s + 4 + 1)
    BY <2>1, TakenIs DEF P
  <2>3. Learn(Taken(x, s), token, event).pending = From(P, s + 4 + 1)
    BY <2>2, LearnIs
  <2> QED  BY <1>2, <2>1, <2>3
<1> QED  BY <1>6, <1>8, <1>9, <1>10

\* What a feed leaves of the stream, and what it has noticed of the rest.
LEMMA FeedNotices ==
    ASSUME NEW d \in Decoders, NEW data \in Bytes, NEW R \in Bytes, NEW eof \in BOOLEAN, eof => R = <<>>,
           Clear((d.pending \o data) \o R), ReadyFirst((d.pending \o data) \o R, d)
    PROVE  LET S == d.pending \o data
               x == Feed(d, data, eof)
           IN x \in Noticers(d, S, R) /\ (eof => x.pending = <<>>)
<1> DEFINE S == d.pending \o data
           f == Fed(d, data)
           x == Feed(d, data, eof)
<1>1. S \in Bytes /\ S \in Seq(Byte) /\ Len(S) \in Nat
  <2>1. S \in Bytes
    BY DEF Decoders, Bytes
  <2> QED  BY <2>1, DomainOfBytes
<1>2. f \in Noticers(d, S, R)
  <2>1. f \in Decoders /\ f.pending = S /\ f.events = <<>> /\ f.ready = d.ready /\ f.finished = d.finished
    BY FedIs
  <2>2. From(S, 0 + 1) = S
    <3>1. S \in Seq(Byte)
      BY <1>1
    <3> HIDE DEF S
    <3>2. From(S, 1) = S
      BY <3>1, FromFirst
    <3> QED  BY <3>2
  <2> HIDE DEF f, S
  <2>3. 0 \in 0..Len(S) /\ f.pending = From(S, 0 + 1)
    BY <1>1, <2>1, <2>2
  <2>4. NoticedBefore(f, S \o R, 0)
    <3>1. \A m : \A event : MarkerAt(S \o R, m, "mine", event) => m > 0
      BY DEF MarkerAt
    <3> QED  BY <3>1 DEF NoticedBefore
  <2>5. Honest(f, S \o R)
    BY <2>1 DEF Honest
  <2> QED  BY <2>1, <2>3, <2>4, <2>5 DEF Noticers
<1>3. \A z \in Noticers(d, S, R) : Pass(z, eof) \in Noticers(d, S, R)
  <2>1. Clear(S \o R) /\ ReadyFirst(S \o R, d)
    OBVIOUS
  <2> HIDE DEF S
  <2> QED  BY <1>1, <2>1, PassNotices
<1>4. f \in Decoders
  BY FedIs
<1>5. x = Decode(f, eof)
  BY FedIs
<1> HIDE DEF f, S, x
<1>6. Decode(f, eof) \in Noticers(d, S, R)
  <2> DEFINE G == Noticers(d, S, R)
  <2>1. f \in G /\ \A z \in G : Pass(z, eof) \in G
    BY <1>2, <1>3
  <2> HIDE DEF G
  <2>2. Decode(f, eof) \in G
    BY <1>4, <2>1, DecodeKeeps
  <2> QED  BY <2>2 DEF G
<1>7. ASSUME eof PROVE x.pending = <<>>
  <2>1. eof = TRUE
    BY <1>7
  <2>2. x \in Decoders /\ Pass(x, eof) = x
    BY <1>4, <1>5, DecodeSettles
  <2> QED  BY <2>1, <2>2, SettledAtEnd
<1> QED  BY <1>5, <1>6, <1>7 DEF S, x

-----------------------------------------------------------------------------
(* The inductive invariant.                                                *)

AttachFrames == Renders \cup {Exits, ExitsBadly}

Helpers ==
    [pc : {"check", "link", "verify", "start", "run", "reap", "mark", "gone"},
     pinned : {None, "mine", "other"}, hup : BOOLEAN, deadline : BOOLEAN,
     status : {None, "detached", "failed"}]

Relays ==
    [attached : BOOLEAN, ready : BOOLEAN, detached : BOOLEAN, failed : BOOLEAN, signalled : BOOLEAN,
     conn : {"none", "dial", "open", "severed", "closed"}, frame : {None} \cup AttachFrames]

Clients == [state : {"none", "runs", "done", "died"}, inbox : Seq(AttachFrames \cup {Ready})]

Transports ==
    [ssh : BOOLEAN, dec : Decoders, outcome : {None, "detached", "failed"},
     reader : {"read", "offer", "last", "ended"}, hand : {None} \cup Seq(Events),
     chan : Seq(Seq(Events)), waiter : {"wait", "drain", "forced", "done"},
     lossy : BOOLEAN, stopped : BOOLEAN]

TypeOK ==
    /\ named \in {None, "mine", "other"} /\ server \in BOOLEAN /\ up \in BOOLEAN
    /\ helper \in Helpers /\ relay \in Relays /\ client \in Clients
    /\ wire \in Bytes /\ local \in Transports
    /\ spent \in [frames : Nat, mishaps : Nat]
    /\ shown \in [rendered : {None, "mine", "other"}, directed : BOOLEAN]

\* Only the socket of the right incarnation is used.
PinnedInv ==
    /\ helper.pc \in {"start", "run", "reap"} => helper.pinned = "mine"
    /\ client.state # "none" \/ relay.attached =>
          helper.pinned = "mine" /\ helper.pc \in {"run", "reap", "mark", "gone"}
    /\ relay.conn \notin {"none", "closed"} \/ relay.ready => relay.attached
    /\ relay.conn = "dial" => ~relay.ready

\* Readiness, wherever it has got to, is due to a render.
ReadyInv ==
    /\ relay.frame \in Renders => shown.rendered = "mine"
    /\ relay.ready => shown.rendered = "mine"
    /\ \A i \in DOMAIN client.inbox : client.inbox[i] = Ready => relay.ready
    /\ local.dec.ready \/ Says(Stream, "ready") => relay.ready

\* The outcome, wherever it has got to, is the helper's, and a good one is
\* due to an exit that the server ordered.
OutcomeInv ==
    /\ relay.frame = Exits /\ relay.ready => shown.directed
    /\ relay.detached => relay.ready /\ shown.directed
    /\ helper.status = "detached" => relay.detached /\ client.state = "done"
    /\ \A event \in {"detached", "failed"} :
          Says(Stream, event) => helper.pc = "gone" /\ helper.status = event
    /\ local.outcome # None => helper.pc = "gone" /\ helper.status # None
    /\ local.outcome = "detached" => helper.status = "detached"

\* Nothing is written after the outcome.
ReapedInv ==
    /\ helper.pc = "mark" => helper.status # None
    /\ helper.pc = "reap" => helper.status # None
    /\ helper.pc = "mark" \/ (helper.pc = "gone" /\ helper.status # None) => client.state # "runs"
    /\ client.state = "done" => client.inbox = <<>>
    /\ \A i \in DOMAIN client.inbox : client.inbox[i] \in {Exits, ExitsBadly} =>
          i = Len(client.inbox) /\ relay.conn = "closed" /\ relay.attached

StreamInv == up => Whole(Stream) /\ Paired(Stream)

\* The transport.
LocalInv ==
    /\ local.dec.finished <=> local.outcome # None
    /\ local.reader \in {"offer", "last"} => local.hand # None
    /\ local.reader = "read" => local.hand = None
    /\ Len(local.chan) <= MaxQueue
    /\ local.waiter = "done" => local.reader = "ended"

\* Readiness is on its way, unless the client died.
ReadyComes ==
    relay.ready /\ (relay.conn \in {"open", "severed"} \/ relay.detached)
    /\ client.state \in {"runs", "done"} /\ helper.pc # "gone" =>
       \/ local.dec.ready \/ Says(Stream, "ready")
       \/ \E i \in DOMAIN client.inbox : client.inbox[i] = Ready

\* So is the outcome, and readiness before it.
OutcomeComes ==
    /\ helper.pc = "gone" /\ helper.status # None /\ local.outcome = None => Says(Stream, helper.status)
    /\ ReadyFirst(Stream, local.dec)

\* While nothing was lost.
Lossless == ~local.lossy /\ ~local.stopped

Arriving ==
    /\ local.waiter # "forced"
    /\ up <=> local.ssh
    /\ ~local.ssh => helper.pc = "gone"
    /\ local.reader \in {"last", "ended"} => Stream = <<>> /\ ~local.ssh
    /\ Clear(Stream)
    /\ local.outcome # None => local.outcome = helper.status
    /\ ReadyComes
    /\ OutcomeComes

LosslessInv == Lossless => Arriving

IInv ==
    /\ TypeOK /\ PinnedInv /\ ReadyInv /\ OutcomeInv /\ ReapedInv
    /\ StreamInv /\ LocalInv /\ LosslessInv

-----------------------------------------------------------------------------
(* Frames.                                                                 *)

LEMMA FrameKinds ==
    /\ \A f \in Renders : f.kind = "render" /\ f.body \in Bodies
    /\ Exits.kind = "exit" /\ ExitsBadly.kind = "broken" /\ Ready.kind = "ready"
    /\ Exits.body = <<>> /\ ExitsBadly.body = <<>> /\ Ready.body = AttachmentMarker("mine", "ready")
BY DEF Renders, Exits, ExitsBadly, Ready

LEMMA FrameIs ==
    ASSUME NEW f \in AttachFrames \cup {Ready}
    PROVE  /\ f.kind = "render" <=> f \in Renders
           /\ f.kind = "exit" <=> f = Exits
           /\ f.kind = "broken" <=> f = ExitsBadly
           /\ f.kind = "ready" <=> f = Ready
           /\ f \in Renders \/ f = Exits \/ f = ExitsBadly \/ f = Ready
BY FrameKinds DEF AttachFrames

LEMMA FramePieces ==
    ASSUME NEW f \in AttachFrames \cup {Ready}
    PROVE  /\ Piece(f.body)
           /\ \A event \in Events : f.body = AttachmentMarker("mine", event) => f = Ready /\ event = "ready"
<1>1. "ready" \in Events
  BY DEF Events
<1>2. CASE f = Ready
  <2>1. f.body = AttachmentMarker("mine", "ready")
    BY <1>2, FrameKinds
  <2>2. ASSUME NEW event \in Events, f.body = AttachmentMarker("mine", event) PROVE event = "ready"
    <3>1. AttachmentMarker("mine", event)[4] = event /\ AttachmentMarker("mine", "ready")[4] = "ready"
      BY <1>1, MarkerElements
    <3> QED  BY <2>1, <2>2, <3>1
  <2> QED  BY <1>1, <1>2, <2>1, <2>2, MarkerIsPiece
<1>3. CASE f = Exits \/ f = ExitsBadly
  <2>1. f.body = <<>>
    BY <1>3, FrameKinds
  <2>2. ASSUME NEW event \in Events PROVE f.body # AttachmentMarker("mine", event)
    <3> DEFINE b == f.body
               a == AttachmentMarker("mine", event)
    <3>1. Len(a) = 5
      BY MarkerElements
    <3>2. Len(b) = 0
      BY <2>1
    <3> HIDE DEF a, b
    <3>3. b # a
      BY <3>1, <3>2
    <3> QED  BY <3>3 DEF a, b
  <2> QED  BY <2>1, <2>2, NothingIsPiece
<1>4. CASE f \in Renders
  <2>1. f.body \in Bodies
    BY <1>4, FrameKinds
  <2>2. ASSUME NEW event \in Events, f.body = AttachmentMarker("mine", event) PROVE FALSE
    <3> DEFINE b == f.body
    <3>1. \A i \in DOMAIN b : b[i] # "mine"
      BY <2>1, NonceUnknown
    <3>2. DOMAIN b = 1..5 /\ b[3] = "mine"
      BY <2>2, MarkerElements
    <3> QED  BY <3>1, <3>2
  <2> QED  BY <2>1, <2>2, BodyIsPiece
<1> QED  BY <1>2, <1>3, <1>4, FrameIs

LEMMA NoneIsNoFrame == None \notin AttachFrames /\ None # Exits /\ None \notin Renders
BY NoneIsNothing DEF AttachFrames

-----------------------------------------------------------------------------
(* Initially.                                                              *)

LEMMA NothingIsSaid ==
    /\ <<>> \in Bytes /\ Whole(<<>>) /\ Paired(<<>>) /\ Clear(<<>>)
    /\ \A event : ~Says(<<>>, event)
    /\ \A d : ReadyFirst(<<>>, d)
BY DEF Bytes, Whole, Paired, Clear, Says, ReadyFirst

LEMMA InitHolds == Init => IInv
<1> SUFFICES ASSUME Init PROVE IInv
  OBVIOUS
<1>1. Stream = <<>>
  <2>1. local.dec.pending = <<>> /\ wire = <<>>
    BY DEF Init, NewDecoder
  <2> QED  BY <2>1 DEF Stream
<1>2. TypeOK
  <2>1. NewDecoder \in Decoders
    BY DEF NewDecoder, Decoders, Bytes
  <2>2. <<>> \in Seq(AttachFrames \cup {Ready}) /\ <<>> \in Seq(Seq(Events)) /\ <<>> \in Bytes
    BY DEF Bytes
  <2> QED  BY <2>1, <2>2 DEF Init, TypeOK, Helpers, Relays, Clients, Transports
<1>3. PinnedInv
  BY DEF Init, PinnedInv
<1>4. ReadyInv
  BY <1>1, NothingIsSaid, NoneIsNoFrame DEF Init, ReadyInv, NewDecoder
<1>5. OutcomeInv
  BY <1>1, NothingIsSaid, NoneIsNoFrame, NoneIsNothing DEF Init, OutcomeInv
<1>6. ReapedInv
  BY DEF Init, ReapedInv
<1>7. StreamInv
  BY <1>1, NothingIsSaid DEF StreamInv
<1>8. LocalInv
  <2>1. Len(<<>>) = 0 /\ MaxQueue \in Nat
    BY AttachmentConstants
  <2> QED  BY <2>1 DEF Init, LocalInv, NewDecoder
<1>9. LosslessInv
  BY <1>1, NothingIsSaid DEF Init, LosslessInv, Arriving, ReadyComes, OutcomeComes
<1> QED  BY <1>2, <1>3, <1>4, <1>5, <1>6, <1>7, <1>8, <1>9 DEF IInv

-----------------------------------------------------------------------------
(* The steps of the helper.                                                *)

HelperIsQuiet ==
    \/ Checks \/ Links \/ Verifies \/ GivesUp \/ StartsClient \/ HangsUp
    \/ SeesExit \/ SeesReady \/ Aborts \/ Reaps \/ HelperDies

Advances ==
    /\ \/ helper.pc = "check" /\ helper' = [helper EXCEPT !.pc = "link"]
       \/ helper.pc = "link" /\ helper' = [helper EXCEPT !.pc = "verify", !.pinned = named]
       \/ helper.pc = "verify" /\ helper.pinned = "mine" /\ helper' = [helper EXCEPT !.pc = "start"]
    /\ UNCHANGED <<relay, client>>

GaveUp ==
    /\ helper.pc \in {"check", "link", "verify", "start"}
    /\ helper' = [helper EXCEPT !.pc = "mark", !.status = "failed"]
    /\ UNCHANGED <<relay, client>>

Notes ==
    /\ helper.pc # "gone"
    /\ \/ helper' = [helper EXCEPT !.hup = TRUE]
       \/ helper' = [helper EXCEPT !.deadline = FALSE]
    /\ UNCHANGED <<relay, client>>

\* What the quiet steps do.
LEMMA HelperQuiet ==
    ASSUME TypeOK, HelperIsQuiet
    PROVE  /\ UNCHANGED <<named, server, wire, up, local, shown>> /\ helper.pc # "gone"
           /\ spent' \in [frames : Nat, mishaps : Nat]
           /\ Stream' = Stream
           /\ Advances \/ GaveUp \/ Notes \/ StartsClient \/ SeesExit \/ Aborts \/ Reaps \/ HelperDies
<1> USE DEF Fails, Mishap, Outside, Elsewhere, At
<1>1. CASE Checks
  <2>1. UNCHANGED <<named, server, wire, up, local, shown>> /\ helper.pc # "gone"
    BY <1>1 DEF Checks
  <2>2. spent' \in [frames : Nat, mishaps : Nat]
    BY <1>1 DEF Checks, TypeOK
  <2>3. Advances \/ GaveUp
    BY <1>1 DEF Checks, Advances, GaveUp
  <2> QED  BY <2>1, <2>2, <2>3 DEF Stream
<1>2. CASE Links
  <2>1. UNCHANGED <<named, server, wire, up, local, shown>> /\ helper.pc # "gone"
    BY <1>2 DEF Links
  <2>2. spent' \in [frames : Nat, mishaps : Nat]
    BY <1>2 DEF Links, TypeOK
  <2>3. Advances \/ GaveUp
    BY <1>2 DEF Links, Advances, GaveUp
  <2> QED  BY <2>1, <2>2, <2>3 DEF Stream
<1>3. CASE Verifies
  <2>1. UNCHANGED <<named, server, wire, up, local, shown>> /\ helper.pc # "gone"
    BY <1>3 DEF Verifies
  <2>2. spent' \in [frames : Nat, mishaps : Nat]
    BY <1>3 DEF Verifies, TypeOK
  <2>3. Advances \/ GaveUp
    BY <1>3 DEF Verifies, Advances, GaveUp
  <2> QED  BY <2>1, <2>2, <2>3 DEF Stream
<1>4. CASE GivesUp
  <2>1. UNCHANGED <<named, server, wire, up, local, shown>> /\ helper.pc # "gone"
    BY <1>4 DEF GivesUp
  <2>2. spent' \in [frames : Nat, mishaps : Nat]
    BY <1>4 DEF GivesUp, TypeOK
  <2>3. GaveUp
    BY <1>4 DEF GivesUp, GaveUp
  <2> QED  BY <2>1, <2>2, <2>3 DEF Stream
<1>5. CASE StartsClient
  <2>1. UNCHANGED <<named, server, wire, up, local, shown>> /\ helper.pc # "gone"
    BY <1>5 DEF StartsClient
  <2>2. spent' \in [frames : Nat, mishaps : Nat]
    BY <1>5 DEF StartsClient, TypeOK
  <2> QED  BY <1>5, <2>1, <2>2 DEF Stream
<1>6. CASE HangsUp
  <2>1. UNCHANGED <<named, server, wire, up, local, shown>> /\ helper.pc # "gone"
    BY <1>6 DEF HangsUp
  <2>2. spent' \in [frames : Nat, mishaps : Nat]
    BY <1>6 DEF HangsUp, TypeOK
  <2>3. Notes
    BY <1>6 DEF HangsUp, Notes
  <2> QED  BY <2>1, <2>2, <2>3 DEF Stream
<1>7. CASE SeesExit
  <2>1. UNCHANGED <<named, server, wire, up, local, shown>> /\ helper.pc # "gone"
    BY <1>7 DEF SeesExit
  <2>2. spent' \in [frames : Nat, mishaps : Nat]
    BY <1>7 DEF SeesExit, TypeOK
  <2> QED  BY <1>7, <2>1, <2>2 DEF Stream
<1>8. CASE SeesReady
  <2>1. UNCHANGED <<named, server, wire, up, local, shown>> /\ helper.pc # "gone"
    BY <1>8 DEF SeesReady
  <2>2. spent' \in [frames : Nat, mishaps : Nat]
    BY <1>8 DEF SeesReady, TypeOK
  <2>3. Notes
    BY <1>8 DEF SeesReady, Notes
  <2> QED  BY <2>1, <2>2, <2>3 DEF Stream
<1>9. CASE Aborts
  <2>1. UNCHANGED <<named, server, wire, up, local, shown>> /\ helper.pc # "gone"
    BY <1>9 DEF Aborts
  <2>2. spent' \in [frames : Nat, mishaps : Nat]
    BY <1>9 DEF Aborts, TypeOK
  <2> QED  BY <1>9, <2>1, <2>2 DEF Stream
<1>10. CASE Reaps
  <2>1. UNCHANGED <<named, server, wire, up, local, shown>> /\ helper.pc # "gone"
    BY <1>10 DEF Reaps
  <2>2. spent' \in [frames : Nat, mishaps : Nat]
    BY <1>10 DEF Reaps, TypeOK
  <2> QED  BY <1>10, <2>1, <2>2 DEF Stream
<1>11. CASE HelperDies
  <2>1. UNCHANGED <<named, server, wire, up, local, shown>> /\ helper.pc # "gone"
    BY <1>11 DEF HelperDies
  <2>2. spent' \in [frames : Nat, mishaps : Nat]
    BY <1>11 DEF HelperDies, TypeOK
  <2> QED  BY <1>11, <2>1, <2>2 DEF Stream
<1> QED  BY <1>1, <1>2, <1>3, <1>4, <1>5, <1>6, <1>7, <1>8, <1>9, <1>10, <1>11 DEF HelperIsQuiet

\* All but one write nothing.
LEMMA HelperQuietly ==
    ASSUME IInv, up, HelperIsQuiet
    PROVE  IInv'
<1> USE DEF Fails, At, Elsewhere, Outside
<1>1. /\ UNCHANGED <<named, server, wire, up, local, shown>> /\ helper.pc # "gone"
      /\ spent' \in [frames : Nat, mishaps : Nat]
      /\ Stream' = Stream
      /\ Advances \/ GaveUp \/ Notes \/ StartsClient \/ SeesExit \/ Aborts \/ Reaps \/ HelperDies
  BY HelperQuiet DEF IInv
<1>2. TypeOK /\ PinnedInv /\ ReadyInv /\ OutcomeInv /\ ReapedInv /\ StreamInv /\ LocalInv /\ LosslessInv
  BY DEF IInv
<1>3. helper' \in Helpers /\ relay' \in Relays /\ client' \in Clients
  <2>1. CASE Advances
    <3>1. relay' \in Relays /\ client' \in Clients /\ helper \in Helpers /\ named \in {None, "mine", "other"}
      BY <1>2, <2>1 DEF Advances, TypeOK
    <3>2. CASE helper' = [helper EXCEPT !.pc = "link"]
      BY <3>1, <3>2 DEF Helpers
    <3>3. CASE helper' = [helper EXCEPT !.pc = "verify", !.pinned = named]
      BY <3>1, <3>3 DEF Helpers
    <3>4. CASE helper' = [helper EXCEPT !.pc = "start"]
      BY <3>1, <3>4 DEF Helpers
    <3> QED  BY <2>1, <3>1, <3>2, <3>3, <3>4 DEF Advances
  <2>2. CASE GaveUp
    BY <1>1, <1>2, <2>2, ZenonT(30) DEF GaveUp, TypeOK, Helpers, Relays, Clients
  <2>3. CASE Notes
    <3>1. relay' \in Relays /\ client' \in Clients /\ helper \in Helpers /\ named \in {None, "mine", "other"}
      BY <1>2, <2>3 DEF Notes, TypeOK
    <3>2. CASE helper' = [helper EXCEPT !.hup = TRUE]
      BY <3>1, <3>2 DEF Helpers
    <3>3. CASE helper' = [helper EXCEPT !.deadline = FALSE]
      BY <3>1, <3>3 DEF Helpers
    <3> QED  BY <2>3, <3>1, <3>2, <3>3 DEF Notes
  <2>4. CASE StartsClient
    BY <1>1, <1>2, <2>4 DEF StartsClient, TypeOK, Helpers, Relays, Clients
  <2>5. CASE SeesExit
    BY <1>1, <1>2, <2>5, ZenonT(30) DEF SeesExit, TypeOK, Helpers, Relays, Clients
  <2>6. CASE Aborts
    BY <1>1, <1>2, <2>6, ZenonT(30) DEF Aborts, TypeOK, Helpers, Relays, Clients
  <2>7. CASE Reaps
    BY <1>1, <1>2, <2>7 DEF Reaps, TypeOK, Helpers, Relays, Clients
  <2>8. CASE HelperDies
    BY <1>1, <1>2, <2>8 DEF HelperDies, TypeOK, Helpers, Relays, Clients
  <2> QED  BY <1>1, <2>1, <2>2, <2>3, <2>4, <2>5, <2>6, <2>7, <2>8
<1>4. TypeOK'
  BY <1>1, <1>2, <1>3 DEF TypeOK
<1>5. PinnedInv'
  <2>1. CASE Advances
    BY <1>1, <1>2, <2>1, ZenonT(30) DEF Advances, TypeOK, Helpers, Relays, Clients, PinnedInv
  <2>2. CASE GaveUp
    BY <1>1, <1>2, <2>2 DEF GaveUp, TypeOK, Helpers, Relays, Clients, PinnedInv
  <2>3. CASE Notes
    BY <1>1, <1>2, <2>3 DEF Notes, TypeOK, Helpers, Relays, Clients, PinnedInv
  <2>4. CASE StartsClient
    BY <1>1, <1>2, <2>4 DEF StartsClient, TypeOK, Helpers, Relays, Clients, PinnedInv
  <2>5. CASE SeesExit
    BY <1>1, <1>2, <2>5 DEF SeesExit, TypeOK, Helpers, Relays, Clients, PinnedInv
  <2>6. CASE Aborts
    BY <1>1, <1>2, <2>6 DEF Aborts, TypeOK, Helpers, Relays, Clients, PinnedInv
  <2>7. CASE Reaps
    BY <1>1, <1>2, <2>7 DEF Reaps, TypeOK, Helpers, Relays, Clients, PinnedInv
  <2>8. CASE HelperDies
    BY <1>1, <1>2, <2>8 DEF HelperDies, TypeOK, Helpers, Relays, Clients, PinnedInv
  <2> QED  BY <1>1, <2>1, <2>2, <2>3, <2>4, <2>5, <2>6, <2>7, <2>8
<1>6. ReadyInv'
  <2>1. CASE Advances
    BY <1>1, <1>2, <2>1 DEF Advances, TypeOK, Helpers, Relays, Clients, ReadyInv
  <2>2. CASE GaveUp
    BY <1>1, <1>2, <2>2 DEF GaveUp, TypeOK, Helpers, Relays, Clients, ReadyInv
  <2>3. CASE Notes
    BY <1>1, <1>2, <2>3 DEF Notes, TypeOK, Helpers, Relays, Clients, ReadyInv
  <2>4. CASE StartsClient
    BY <1>1, <1>2, <2>4 DEF StartsClient, TypeOK, Helpers, Relays, Clients, ReadyInv
  <2>5. CASE SeesExit
    BY <1>1, <1>2, <2>5 DEF SeesExit, TypeOK, Helpers, Relays, Clients, ReadyInv
  <2>6. CASE Aborts
    BY <1>1, <1>2, <2>6 DEF Aborts, TypeOK, Helpers, Relays, Clients, ReadyInv
  <2>7. CASE Reaps
    BY <1>1, <1>2, <2>7 DEF Reaps, TypeOK, Helpers, Relays, Clients, ReadyInv
  <2>8. CASE HelperDies
    BY <1>1, <1>2, <2>8 DEF HelperDies, TypeOK, Helpers, Relays, Clients, ReadyInv
  <2> QED  BY <1>1, <2>1, <2>2, <2>3, <2>4, <2>5, <2>6, <2>7, <2>8
<1>7. OutcomeInv'
  <2>1. CASE Advances
    <3>1. helper.pc # "gone" /\ helper'.pc # "gone" /\ helper'.status = helper.status
      BY <1>2, <2>1 DEF Advances, TypeOK, Helpers
    <3>2. UNCHANGED <<relay, client, local, shown, named>> /\ Stream' = Stream
      BY <1>1, <2>1 DEF Advances
    <3> QED  BY <1>2, <3>1, <3>2 DEF OutcomeInv
  <2>2. CASE GaveUp
    BY <1>1, <1>2, <2>2, NoneIsNothing DEF GaveUp, TypeOK, Helpers, Relays, Clients, OutcomeInv, PinnedInv
  <2>3. CASE Notes
    BY <1>1, <1>2, <2>3, NoneIsNothing DEF Notes, TypeOK, Helpers, Relays, Clients, OutcomeInv, PinnedInv
  <2>4. CASE StartsClient
    BY <1>1, <1>2, <2>4, NoneIsNothing DEF StartsClient, TypeOK, Helpers, Relays, Clients, OutcomeInv, PinnedInv
  <2>5. CASE SeesExit
    BY <1>1, <1>2, <2>5, NoneIsNothing DEF SeesExit, TypeOK, Helpers, Relays, Clients, OutcomeInv, PinnedInv
  <2>6. CASE Aborts
    BY <1>1, <1>2, <2>6, NoneIsNothing DEF Aborts, TypeOK, Helpers, Relays, Clients, OutcomeInv, PinnedInv
  <2>7. CASE Reaps
    BY <1>1, <1>2, <2>7, NoneIsNothing DEF Reaps, TypeOK, Helpers, Relays, Clients, OutcomeInv, PinnedInv
  <2>8. CASE HelperDies
    BY <1>1, <1>2, <2>8, NoneIsNothing DEF HelperDies, TypeOK, Helpers, Relays, Clients, OutcomeInv, PinnedInv
  <2> QED  BY <1>1, <2>1, <2>2, <2>3, <2>4, <2>5, <2>6, <2>7, <2>8
<1>8. ReapedInv'
  <2>1. CASE Advances
    <3>1. helper'.pc \notin {"reap", "mark", "gone"} /\ UNCHANGED <<relay, client>>
      BY <1>2, <2>1 DEF Advances, TypeOK, Helpers
    <3> QED  BY <1>2, <3>1 DEF ReapedInv
  <2>2. CASE GaveUp
    BY <1>1, <1>2, <2>2, NoneIsNothing DEF GaveUp, TypeOK, Helpers, Relays, Clients, ReapedInv, PinnedInv
  <2>3. CASE Notes
    BY <1>1, <1>2, <2>3, NoneIsNothing DEF Notes, TypeOK, Helpers, Relays, Clients, ReapedInv, PinnedInv
  <2>4. CASE StartsClient
    BY <1>1, <1>2, <2>4, NoneIsNothing DEF StartsClient, TypeOK, Helpers, Relays, Clients, ReapedInv, PinnedInv
  <2>5. CASE SeesExit
    BY <1>1, <1>2, <2>5, NoneIsNothing DEF SeesExit, TypeOK, Helpers, Relays, Clients, ReapedInv, PinnedInv
  <2>6. CASE Aborts
    BY <1>1, <1>2, <2>6, NoneIsNothing DEF Aborts, TypeOK, Helpers, Relays, Clients, ReapedInv, PinnedInv
  <2>7. CASE Reaps
    BY <1>1, <1>2, <2>7, NoneIsNothing DEF Reaps, TypeOK, Helpers, Relays, Clients, ReapedInv, PinnedInv
  <2>8. CASE HelperDies
    BY <1>1, <1>2, <2>8, NoneIsNothing DEF HelperDies, TypeOK, Helpers, Relays, Clients, ReapedInv, PinnedInv
  <2> QED  BY <1>1, <2>1, <2>2, <2>3, <2>4, <2>5, <2>6, <2>7, <2>8
<1>9. StreamInv' /\ LocalInv'
  BY <1>1, <1>2 DEF StreamInv, LocalInv
<1>10. LosslessInv'
  <2>1. CASE Advances
    <3>1. helper.pc # "gone" /\ helper'.pc # "gone" /\ helper'.status = helper.status
      BY <1>2, <2>1 DEF Advances, TypeOK, Helpers
    <3>2. UNCHANGED <<relay, client, wire, up, local>> /\ Stream' = Stream
      BY <1>1, <2>1 DEF Advances
    <3>3. client.state = "none"
      BY <1>2, <2>1 DEF Advances, PinnedInv
    <3> QED  BY <1>2, <3>1, <3>2, <3>3 DEF LosslessInv, Lossless, Arriving, ReadyComes, OutcomeComes
  <2>2. CASE GaveUp
    BY <1>1, <1>2, <2>2, NoneIsNothing DEF GaveUp, TypeOK, Helpers, Relays, Clients, PinnedInv, OutcomeInv, LosslessInv, Lossless, Arriving, ReadyComes, OutcomeComes
  <2>3. CASE Notes
    BY <1>1, <1>2, <2>3, NoneIsNothing DEF Notes, TypeOK, Helpers, Relays, Clients, PinnedInv, OutcomeInv, LosslessInv, Lossless, Arriving, ReadyComes, OutcomeComes
  <2>4. CASE StartsClient
    BY <1>1, <1>2, <2>4, NoneIsNothing DEF StartsClient, TypeOK, Helpers, Relays, Clients, PinnedInv, OutcomeInv, LosslessInv, Lossless, Arriving, ReadyComes, OutcomeComes
  <2>5. CASE SeesExit
    BY <1>1, <1>2, <2>5, NoneIsNothing DEF SeesExit, TypeOK, Helpers, Relays, Clients, PinnedInv, OutcomeInv, LosslessInv, Lossless, Arriving, ReadyComes, OutcomeComes
  <2>6. CASE Aborts
    BY <1>1, <1>2, <2>6, NoneIsNothing DEF Aborts, TypeOK, Helpers, Relays, Clients, PinnedInv, OutcomeInv, LosslessInv, Lossless, Arriving, ReadyComes, OutcomeComes
  <2>7. CASE Reaps
    BY <1>1, <1>2, <2>7, NoneIsNothing DEF Reaps, TypeOK, Helpers, Relays, Clients, PinnedInv, OutcomeInv, LosslessInv, Lossless, Arriving, ReadyComes, OutcomeComes
  <2>8. CASE HelperDies
    BY <1>1, <1>2, <2>8, NoneIsNothing DEF HelperDies, TypeOK, Helpers, Relays, Clients, PinnedInv, OutcomeInv, LosslessInv, Lossless, Arriving, ReadyComes, OutcomeComes
  <2> QED  BY <1>1, <2>1, <2>2, <2>3, <2>4, <2>5, <2>6, <2>7, <2>8
<1> QED  BY <1>4, <1>5, <1>6, <1>7, <1>8, <1>9, <1>10 DEF IInv

LEMMA StreamIsBytes ==
    ASSUME TypeOK
    PROVE  Stream \in Bytes /\ local.dec.pending \in Bytes /\ wire \in Bytes
BY DEF TypeOK, Transports, Decoders, Stream, Bytes

\* Something is written while SSH carries it.
LEMMA WritesAppends ==
    ASSUME TypeOK, NEW b \in Bytes, Writes(b), UNCHANGED local, local.reader # "ended"
    PROVE  Stream' = Stream \o b /\ wire' \in Bytes
<1>1. /\ wire \in Seq(Byte) /\ local.dec.pending \in Seq(Byte) /\ b \in Seq(Byte)
  BY StreamIsBytes DEF Bytes
<1>2. wire' = wire \o b
  BY DEF Writes
<1>3. local.dec.pending \o (wire \o b) = (local.dec.pending \o wire) \o b
  <2>1. \A x, y, z \in Seq(Byte) : (x \o y) \o z = x \o (y \o z)
    BY ConcatAssociative
  <2> QED  BY <1>1, <2>1
<1>4. wire' \in Bytes
  BY <1>1, <1>2 DEF Bytes
<1> QED  BY <1>2, <1>3, <1>4 DEF Stream

LEMMA WritesNothing ==
    ASSUME TypeOK, NEW b, Writes(b), UNCHANGED local, local.reader = "ended"
    PROVE  Stream' = Stream /\ wire' = wire
BY DEF Writes, Stream

\* The outcome is written last.
LEMMA MarksTheOutcome ==
    ASSUME IInv, up, MarksOutcome
    PROVE  IInv'
<1> DEFINE b == AttachmentMarker("mine", helper.status)
<1>1. TypeOK /\ PinnedInv /\ ReadyInv /\ OutcomeInv /\ ReapedInv /\ StreamInv /\ LocalInv /\ LosslessInv
  BY DEF IInv
<1>2. /\ helper.pc = "mark" /\ Writes(b) /\ helper' = [helper EXCEPT !.pc = "gone"]
      /\ UNCHANGED <<named, server, relay, client, up, local, spent, shown>>
  BY DEF MarksOutcome, At
<1>3. helper.status \in Final /\ helper.status \in Events /\ helper.status # "ready"
  BY <1>1, <1>2 DEF ReapedInv, TypeOK, Helpers, Final, Events
<1>4. Piece(b) /\ b \in Bytes /\ \A event \in Events : b = AttachmentMarker("mine", event) => event = helper.status
  <2>1. Piece(b) /\ b \in Bytes
    BY <1>3, MarkerIsPiece DEF Piece
  <2>2. ASSUME NEW event \in Events, b = AttachmentMarker("mine", event) PROVE event = helper.status
    <3>1. b[4] = helper.status /\ AttachmentMarker("mine", event)[4] = event
      BY <1>3, MarkerElements
    <3> QED  BY <2>2, <3>1
  <2> QED  BY <2>1, <2>2
<1>5. Stream \in Bytes /\ Whole(Stream) /\ Paired(Stream)
  BY <1>1, StreamIsBytes DEF StreamInv
<1>6. \/ local.reader # "ended" /\ Stream' = Stream \o b /\ wire' \in Bytes
      \/ local.reader = "ended" /\ Stream' = Stream /\ wire' \in Bytes
  BY <1>1, <1>2, <1>4, WritesAppends, WritesNothing, StreamIsBytes
<1>7. /\ helper'.pc = "gone" /\ helper'.status = helper.status /\ helper'.pinned = helper.pinned
      /\ helper' \in Helpers
  BY <1>1, <1>2 DEF TypeOK, Helpers
<1> HIDE DEF b
<1>8. \A event \in Events : Says(Stream', event) => Says(Stream, event) \/ event = helper.status
  BY <1>4, <1>5, <1>6, SaysBehind
<1>9. TypeOK'
  BY <1>1, <1>2, <1>6, <1>7 DEF TypeOK
<1>10. PinnedInv'
  BY <1>1, <1>2, <1>7 DEF PinnedInv
<1>11. ReadyInv'
  <2>1. Says(Stream', "ready") => Says(Stream, "ready")
    BY <1>3, <1>8 DEF Events
  <2> QED  BY <1>1, <1>2, <2>1 DEF ReadyInv
<1>12. OutcomeInv'
  <2>1. \A event \in {"detached", "failed"} : Says(Stream', event) => event = helper.status
    BY <1>1, <1>2, <1>8 DEF OutcomeInv, Events
  <2> QED  BY <1>1, <1>2, <1>7, <2>1 DEF OutcomeInv
<1>13. ReapedInv'
  BY <1>1, <1>2, <1>7 DEF ReapedInv
<1>14. StreamInv'
  BY <1>2, <1>4, <1>5, <1>6, WholeBehind, PairedBehind DEF StreamInv
<1>15. LocalInv'
  BY <1>1, <1>2 DEF LocalInv
<1>16. ASSUME Lossless PROVE Arriving'
  <2>1. Arriving /\ local.ssh /\ up
    BY <1>1, <1>2, <1>16 DEF LosslessInv, Arriving
  <2>2. local.reader \notin {"last", "ended"} /\ Stream' = Stream \o b
    BY <1>6, <2>1 DEF Arriving
  <2>3. Clear(Stream')
    BY <1>4, <1>5, <2>1, <2>2, ClearBehind DEF Arriving
  <2>4. Says(Stream', helper.status)
    <3>1. Says(Stream \o b, helper.status)
      BY <1>3, <1>5, SaysTheMarker DEF b
    <3> QED  BY <2>2, <3>1
  <2>5. ReadyFirst(Stream', local.dec)
    <3>1. ASSUME NEW m \in DOMAIN Stream', MarkerAt(Stream', m, "mine", "detached"),
                 ~local.dec.ready, ~local.dec.finished
          PROVE  \E l \in 1..(m - 1) : MarkerAt(Stream', l, "mine", "ready")
      <4>1. \/ m \in DOMAIN Stream /\ MarkerAt(Stream, m, "mine", "detached")
            \/ m = Len(Stream) + 1 /\ b = AttachmentMarker("mine", "detached")
        BY <1>4, <1>5, <2>2, <3>1, MarkerBehind
      <4>2. CASE m \in DOMAIN Stream /\ MarkerAt(Stream, m, "mine", "detached")
        <5>1. PICK l \in 1..(m - 1) : MarkerAt(Stream, l, "mine", "ready")
          BY <2>1, <3>1, <4>2 DEF Arriving, OutcomeComes, ReadyFirst
        <5>2. MarkerAt(Stream', l, "mine", "ready")
          BY <1>4, <1>5, <2>2, <5>1, MarkerInFirst
        <5> QED  BY <5>2
      <4>3. CASE m = Len(Stream) + 1 /\ b = AttachmentMarker("mine", "detached")
        <5>1. helper.status = "detached"
          BY <1>4, <4>3 DEF Events
        <5>2. client.state = "done" /\ client.inbox = <<>> /\ relay.ready /\ relay.detached
          BY <1>1, <5>1 DEF OutcomeInv, ReapedInv
        <5>3. local.dec.ready \/ Says(Stream, "ready")
          BY <1>2, <2>1, <5>2 DEF Arriving, ReadyComes
        <5>4. PICK l \in DOMAIN Stream : MarkerAt(Stream, l, "mine", "ready")
          BY <3>1, <5>3 DEF Says
        <5>5. l \in 1..(m - 1)
          BY <1>5, <4>3, <5>4, DomainOfBytes
        <5>6. MarkerAt(Stream', l, "mine", "ready")
          BY <1>4, <1>5, <2>2, <5>4, MarkerInFirst
        <5> QED  BY <5>5, <5>6
      <4> QED  BY <4>1, <4>2, <4>3
    <3> QED  BY <3>1 DEF ReadyFirst
  <2>6. OutcomeComes'
    BY <1>2, <1>7, <2>4, <2>5 DEF OutcomeComes
  <2>7. ReadyComes'
    BY <1>7 DEF ReadyComes
  <2>8. local.outcome = None
    BY <1>1, <1>2 DEF OutcomeInv
  <2> QED  BY <1>2, <2>1, <2>2, <2>3, <2>6, <2>7, <2>8 DEF Arriving
<1>17. LosslessInv'
  BY <1>2, <1>16 DEF LosslessInv, Lossless
<1> QED  BY <1>9, <1>10, <1>11, <1>12, <1>13, <1>14, <1>15, <1>17 DEF IInv

LEMMA HelperSteps ==
    ASSUME IInv, up, HelperStep
    PROVE  IInv'
BY HelperQuietly, MarksTheOutcome DEF HelperStep, HelperIsQuiet

-----------------------------------------------------------------------------
(* The steps of the relay.                                                 *)

LEMMA InboxAppend ==
    ASSUME NEW S, NEW s \in Seq(S), NEW f \in S
    PROVE  /\ Append(s, f) \in Seq(S) /\ Len(s) \in Nat /\ Len(Append(s, f)) = Len(s) + 1
           /\ DOMAIN s = 1..Len(s) /\ DOMAIN Append(s, f) = 1..(Len(s) + 1)
           /\ \A i \in 1..Len(s) : Append(s, f)[i] = s[i]
           /\ Append(s, f)[Len(s) + 1] = f
BY AppendProperties

LEMMA InboxTail ==
    ASSUME NEW S, NEW s \in Seq(S), s # <<>>
    PROVE  /\ Head(s) \in S /\ Head(s) = s[1] /\ 1 \in DOMAIN s /\ Tail(s) \in Seq(S)
           /\ Len(s) \in Nat \ {0} /\ Len(Tail(s)) = Len(s) - 1
           /\ DOMAIN s = 1..Len(s) /\ DOMAIN Tail(s) = 1..(Len(s) - 1)
           /\ \A i \in 1..(Len(s) - 1) : Tail(s)[i] = s[i + 1]
BY HeadTailProperties

Accepted ==
    /\ helper.pc = "run" /\ ~relay.attached
    /\ relay' = [relay EXCEPT !.attached = TRUE, !.conn = "dial"]
    /\ UNCHANGED <<client, shown>>

Objects == relay' = [relay EXCEPT !.failed = TRUE] /\ UNCHANGED <<client, shown>>

DialsWell ==
    relay.conn = "dial" /\ relay' = [relay EXCEPT !.conn = "open"] /\ UNCHANGED <<client, shown>>

DialsInVain ==
    /\ relay' = [relay EXCEPT !.conn = "closed", !.failed = TRUE]
    /\ UNCHANGED <<client, shown>>

Severs ==
    /\ relay.conn = "open"
    /\ \E failed \in BOOLEAN : relay' = [relay EXCEPT !.conn = "severed", !.failed = failed]
    /\ UNCHANGED <<client, shown>>

Reads ==
    /\ relay.conn = "open"
    /\ \E f \in AttachFrames :
          /\ relay' = [relay EXCEPT !.frame = f]
          /\ shown' = [rendered |-> IF f \in Renders THEN helper.pinned ELSE shown.rendered,
                       directed |-> shown.directed \/ (f = Exits /\ shown.rendered = "mine")]
    /\ UNCHANGED client

Open == relay.conn \in {"open", "severed"} /\ relay.frame \in AttachFrames

Proves ==
    /\ Open /\ relay.frame \in Renders /\ ~relay.ready /\ client.state = "runs"
    /\ relay' = [relay EXCEPT !.ready = TRUE, !.signalled = TRUE]
    /\ client' = [client EXCEPT !.inbox = Append(@, Ready)]
    /\ UNCHANGED shown

LosesProof ==
    /\ Open /\ relay.frame \in Renders /\ ~relay.ready
    /\ relay' = [relay EXCEPT !.ready = TRUE, !.frame = None, !.conn = "closed"]
    /\ UNCHANGED <<client, shown>>

ForwardsRender ==
    /\ Open /\ relay.frame \in Renders /\ relay.ready /\ client.state = "runs"
    /\ relay' = [relay EXCEPT !.frame = None]
    /\ client' = [client EXCEPT !.inbox = Append(@, relay.frame)]
    /\ UNCHANGED shown

Ended == [relay EXCEPT !.frame = None, !.conn = "closed",
                       !.detached = IF relay.frame = Exits THEN relay.ready ELSE @]

ForwardsEnd ==
    /\ Open /\ relay.frame \in {Exits, ExitsBadly} /\ client.state = "runs"
    /\ relay' = Ended
    /\ client' = [client EXCEPT !.inbox = Append(@, relay.frame)]
    /\ UNCHANGED shown

LosesFrame == Open /\ relay' = Ended /\ UNCHANGED <<client, shown>>

Shuts ==
    relay' = [relay EXCEPT !.conn = "closed", !.frame = None] /\ UNCHANGED <<client, shown>>

\* What the relay's steps do.
LEMMA RelayShapes ==
    ASSUME TypeOK, RelayStep
    PROVE  /\ UNCHANGED <<named, server, helper, wire, up, local>>
           /\ spent' \in [frames : Nat, mishaps : Nat]
           /\ Stream' = Stream
           /\ \/ Accepted \/ Objects \/ DialsWell \/ DialsInVain \/ Severs \/ Reads \/ Proves
              \/ LosesProof \/ ForwardsRender \/ ForwardsEnd \/ LosesFrame \/ Shuts
<1> USE DEF Mishap, Around, At
<1>1. UNCHANGED <<named, server, helper, wire, up, local>>
  BY DEF RelayStep, Accepts, Dials, ClosesServer, RelayReads, RelayMarks, RelayForwards, RelayCloses
<1>2. spent' \in [frames : Nat, mishaps : Nat]
  <2>1. spent \in [frames : Nat, mishaps : Nat] /\ spent.frames + 1 \in Nat /\ spent.mishaps + 1 \in Nat
    BY DEF TypeOK
  <2>2. \/ UNCHANGED spent \/ spent' = [spent EXCEPT !.mishaps = @ + 1]
        \/ spent' = [spent EXCEPT !.frames = @ + 1]
    BY DEF RelayStep, Accepts, Dials, ClosesServer, RelayReads, RelayMarks, RelayForwards, RelayCloses
  <2> QED  BY <2>1, <2>2
<1>3. CASE Accepts
  <2>1. Accepted \/ Objects
    BY <1>3 DEF Accepts, Accepted, Objects
  <2> QED  BY <1>1, <1>2, <2>1 DEF Stream
<1>4. CASE Dials
  <2>1. DialsWell \/ DialsInVain
    BY <1>4 DEF Dials, DialsWell, DialsInVain
  <2> QED  BY <1>1, <1>2, <2>1 DEF Stream
<1>5. CASE ClosesServer
  <2>1. PICK failed \in BOOLEAN : relay' = [relay EXCEPT !.conn = "severed", !.failed = @ \/ failed]
    BY <1>5 DEF ClosesServer
  <2>2. relay' = [relay EXCEPT !.conn = "severed", !.failed = relay.failed \/ failed]
    BY <2>1
  <2>3. (relay.failed \/ failed) \in BOOLEAN
    OBVIOUS
  <2>4. relay.conn = "open" /\ UNCHANGED <<client, shown>>
    BY <1>5 DEF ClosesServer
  <2>5. Severs
    BY <2>2, <2>3, <2>4 DEF Severs
  <2> QED  BY <1>1, <1>2, <2>5 DEF Stream
<1>6. CASE RelayReads
  <2>1. PICK f \in AttachFrames :
          /\ relay' = [relay EXCEPT !.frame = f]
          /\ shown' = [shown EXCEPT !.rendered = IF f.kind = "render" THEN helper.pinned ELSE @,
                                    !.directed = @ \/ (f.kind = "exit" /\ shown.rendered = "mine")]
    BY <1>6 DEF RelayReads, AttachFrames
  <2>2. f.kind = "render" <=> f \in Renders
    BY FrameIs
  <2>3. f.kind = "exit" <=> f = Exits
    BY FrameIs
  <2>4. shown = [rendered |-> shown.rendered, directed |-> shown.directed]
    BY DEF TypeOK
  <2> DEFINE a == IF f.kind = "render" THEN helper.pinned ELSE shown.rendered
             b == shown.directed \/ (f.kind = "exit" /\ shown.rendered = "mine")
  <2>5. shown' = [shown EXCEPT !.rendered = a, !.directed = b]
    BY <2>1
  <2>6. a = IF f \in Renders THEN helper.pinned ELSE shown.rendered
    BY <2>2
  <2>7. b = (shown.directed \/ (f = Exits /\ shown.rendered = "mine"))
    BY <2>3
  <2> HIDE DEF a, b
  <2>8. shown' = [rendered |-> a, directed |-> b]
    BY <2>4, <2>5
  <2>9. relay.conn = "open" /\ UNCHANGED client
    BY <1>6 DEF RelayReads
  <2>10. Reads
    BY <2>1, <2>6, <2>7, <2>8, <2>9 DEF Reads
  <2> QED  BY <1>1, <1>2, <2>10 DEF Stream
<1>7. relay.frame # None => relay.frame \in AttachFrames
  BY DEF TypeOK, Relays
<1>8. relay.frame \in AttachFrames =>
          /\ relay.frame.kind = "render" <=> relay.frame \in Renders
          /\ relay.frame.kind = "exit" <=> relay.frame = Exits
          /\ relay.frame \notin Renders => relay.frame \in {Exits, ExitsBadly}
  <2>1. ASSUME NEW f \in AttachFrames
        PROVE  /\ f.kind = "render" <=> f \in Renders
               /\ f.kind = "exit" <=> f = Exits
               /\ f \notin Renders => f \in {Exits, ExitsBadly}
    BY FrameIs DEF AttachFrames
  <2> QED  BY <2>1
<1>9. CASE RelayMarks
  <2>1. Open /\ relay.frame \in Renders /\ ~relay.ready
    BY <1>7, <1>8, <1>9 DEF RelayMarks, Open
  <2>2. Proves \/ LosesProof
    BY <1>9, <2>1 DEF RelayMarks, Delivered, Proves, LosesProof
  <2> QED  BY <1>1, <1>2, <2>2 DEF Stream
<1>10. CASE RelayForwards
  <2> DEFINE on == [relay EXCEPT !.frame = None,
                                 !.detached = IF relay.frame.kind = "exit" THEN relay.ready ELSE @]
             off == [on EXCEPT !.conn = "closed"]
  <2>1. Open /\ (relay.frame \in Renders => relay.ready)
    BY <1>7, <1>8, <1>10 DEF RelayForwards, Open
  <2>2. \/ relay' = (IF relay.frame.kind = "render" THEN on ELSE off) /\ Delivered(relay.frame)
        \/ relay' = off /\ UNCHANGED client
    BY <1>10 DEF RelayForwards
  <2>3. UNCHANGED shown
    BY <1>10 DEF RelayForwards
  <2>4. off = Ended
    BY <1>8, <2>1 DEF Ended, Open
  <2>5. ASSUME relay.frame \in Renders PROVE on = [relay EXCEPT !.frame = None]
    <3>1. relay.frame.kind # "exit"
      BY <2>5, FrameKinds
    <3>2. on = [relay EXCEPT !.frame = None, !.detached = relay.detached]
      BY <3>1
    <3> HIDE DEF on
    <3> QED  BY <3>2 DEF TypeOK, Relays
  <2> HIDE DEF on, off
  <2>6. CASE relay' = off /\ UNCHANGED client
    <3>1. LosesFrame
      BY <2>1, <2>3, <2>4, <2>6 DEF LosesFrame
    <3> QED  BY <1>1, <1>2, <3>1 DEF Stream
  <2>7. CASE relay' = (IF relay.frame.kind = "render" THEN on ELSE off) /\ Delivered(relay.frame)
    <3>1. client.state = "runs" /\ client' = [client EXCEPT !.inbox = Append(@, relay.frame)]
      BY <2>7 DEF Delivered
    <3>2. CASE relay.frame \in Renders
      <4>1. relay' = on
        BY <1>8, <2>1, <2>7, <3>2 DEF Open
      <4>2. ForwardsRender
        BY <2>1, <2>3, <2>5, <3>1, <3>2, <4>1 DEF ForwardsRender
      <4> QED  BY <1>1, <1>2, <4>2 DEF Stream
    <3>3. CASE relay.frame \notin Renders
      <4>1. relay' = off /\ relay.frame \in {Exits, ExitsBadly}
        BY <1>8, <2>1, <2>7, <3>3 DEF Open
      <4>2. ForwardsEnd
        BY <2>1, <2>3, <2>4, <3>1, <4>1 DEF ForwardsEnd
      <4> QED  BY <1>1, <1>2, <4>2 DEF Stream
    <3> QED  BY <3>2, <3>3
  <2> QED  BY <2>2, <2>6, <2>7
<1>11. CASE RelayCloses
  <2>1. Shuts
    BY <1>11 DEF RelayCloses, Shuts
  <2> QED  BY <1>1, <1>2, <2>1 DEF Stream
<1> QED  BY <1>3, <1>4, <1>5, <1>6, <1>9, <1>10, <1>11 DEF RelayStep

LEMMA FramesDiffer ==
    /\ Exits \notin Renders /\ ExitsBadly \notin Renders /\ Ready \notin Renders
    /\ Exits # ExitsBadly /\ Ready # Exits /\ Ready # ExitsBadly
    /\ Renders \subseteq AttachFrames /\ Exits \in AttachFrames /\ ExitsBadly \in AttachFrames
    /\ None \notin AttachFrames
BY FrameKinds, NoneIsNoFrame DEF AttachFrames

\* The relay says nothing of its own, and forwards only what the server of
\* the right incarnation sent.
LEMMA RelaySteps ==
    ASSUME IInv, up, RelayStep
    PROVE  IInv'
<1>1. /\ UNCHANGED <<named, server, helper, wire, up, local>>
      /\ spent' \in [frames : Nat, mishaps : Nat]
      /\ Stream' = Stream
      /\ \/ Accepted \/ Objects \/ DialsWell \/ DialsInVain \/ Severs \/ Reads \/ Proves
         \/ LosesProof \/ ForwardsRender \/ ForwardsEnd \/ LosesFrame \/ Shuts
  BY RelayShapes DEF IInv
<1>2. TypeOK /\ PinnedInv /\ ReadyInv /\ OutcomeInv /\ ReapedInv /\ StreamInv /\ LocalInv /\ LosslessInv
  BY DEF IInv
<1>3. StreamInv' /\ LocalInv'
  BY <1>1, <1>2 DEF StreamInv, LocalInv
<1>4. helper \in Helpers /\ relay \in Relays /\ client \in Clients
      /\ shown \in [rendered : {None, "mine", "other"}, directed : BOOLEAN]
  BY <1>2 DEF TypeOK
<1>5. \A f \in AttachFrames \cup {Ready} :
          /\ Append(client.inbox, f) \in Seq(AttachFrames \cup {Ready})
          /\ Len(client.inbox) \in Nat /\ Len(Append(client.inbox, f)) = Len(client.inbox) + 1
          /\ DOMAIN client.inbox = 1..Len(client.inbox)
          /\ DOMAIN Append(client.inbox, f) = 1..(Len(client.inbox) + 1)
          /\ \A i \in 1..Len(client.inbox) : Append(client.inbox, f)[i] = client.inbox[i]
          /\ Append(client.inbox, f)[Len(client.inbox) + 1] = f
  <2>1. client.inbox \in Seq(AttachFrames \cup {Ready})
    BY <1>4 DEF Clients
  <2> QED  BY <2>1, InboxAppend
<1>6. CASE Accepted
  <2>1. /\ relay' \in Relays
        /\ relay'.conn = "dial" /\ relay'.attached /\ ~relay.attached /\ helper.pc = "run"
        /\ relay'.ready = relay.ready /\ relay'.detached = relay.detached /\ relay'.frame = relay.frame
    BY <1>4, <1>6, FramesDiffer DEF Accepted, Relays
  <2>2. client' = client /\ shown' = shown
    BY <1>6 DEF Accepted
  <2>3. TypeOK'
    BY <1>1, <1>2, <2>1, <2>2 DEF TypeOK
  <2>4. PinnedInv'
    BY <1>1, <1>2, <1>4, <2>1, <2>2 DEF PinnedInv, Relays
  <2>5. ReadyInv'
    BY <1>1, <1>2, <2>1, <2>2, FramesDiffer DEF ReadyInv, PinnedInv
  <2>6. OutcomeInv'
    BY <1>1, <1>2, <2>1, <2>2, FramesDiffer DEF OutcomeInv, ReadyInv, PinnedInv
  <2>7. ReapedInv'
    BY <1>1, <1>2, <2>1, <2>2, FramesDiffer DEF ReapedInv, PinnedInv
  <2>8. Lossless => ReadyComes'
    <3>1. Lossless => ReadyComes
      BY <1>2 DEF LosslessInv, Arriving
    <3> QED  BY <1>1, <1>2, <3>1, <2>1, <2>2, FramesDiffer DEF ReadyComes, PinnedInv, ReadyInv, OutcomeInv
  <2>9. LosslessInv'
    BY <1>1, <1>2, <2>8 DEF LosslessInv, Lossless, Arriving, OutcomeComes
  <2> QED  BY <1>3, <2>3, <2>4, <2>5, <2>6, <2>7, <2>9 DEF IInv
<1>7. CASE Objects
  <2>1. /\ relay' \in Relays
        /\ relay'.conn = relay.conn
        /\ relay'.attached = relay.attached /\ relay'.ready = relay.ready /\ relay'.detached = relay.detached /\ relay'.frame = relay.frame
    BY <1>4, <1>7, FramesDiffer DEF Objects, Relays
  <2>2. client' = client /\ shown' = shown
    BY <1>7 DEF Objects
  <2>3. TypeOK'
    BY <1>1, <1>2, <2>1, <2>2 DEF TypeOK
  <2>4. PinnedInv'
    BY <1>1, <1>2, <1>4, <2>1, <2>2 DEF PinnedInv, Relays
  <2>5. ReadyInv'
    BY <1>1, <1>2, <2>1, <2>2, FramesDiffer DEF ReadyInv, PinnedInv
  <2>6. OutcomeInv'
    BY <1>1, <1>2, <2>1, <2>2, FramesDiffer DEF OutcomeInv, ReadyInv, PinnedInv
  <2>7. ReapedInv'
    BY <1>1, <1>2, <2>1, <2>2, FramesDiffer DEF ReapedInv, PinnedInv
  <2>8. Lossless => ReadyComes'
    <3>1. Lossless => ReadyComes
      BY <1>2 DEF LosslessInv, Arriving
    <3> QED  BY <1>1, <1>2, <3>1, <2>1, <2>2, FramesDiffer DEF ReadyComes, PinnedInv, ReadyInv, OutcomeInv
  <2>9. LosslessInv'
    BY <1>1, <1>2, <2>8 DEF LosslessInv, Lossless, Arriving, OutcomeComes
  <2> QED  BY <1>3, <2>3, <2>4, <2>5, <2>6, <2>7, <2>9 DEF IInv
<1>8. CASE DialsWell
  <2>1. /\ relay' \in Relays
        /\ relay'.conn = "open" /\ relay.conn = "dial"
        /\ relay'.attached = relay.attached /\ relay'.ready = relay.ready /\ relay'.detached = relay.detached /\ relay'.frame = relay.frame
    BY <1>4, <1>8, FramesDiffer DEF DialsWell, Relays
  <2>2. client' = client /\ shown' = shown
    BY <1>8 DEF DialsWell
  <2>3. TypeOK'
    BY <1>1, <1>2, <2>1, <2>2 DEF TypeOK
  <2>4. PinnedInv'
    BY <1>1, <1>2, <1>4, <2>1, <2>2 DEF PinnedInv, Relays
  <2>5. ReadyInv'
    BY <1>1, <1>2, <2>1, <2>2, FramesDiffer DEF ReadyInv, PinnedInv
  <2>6. OutcomeInv'
    BY <1>1, <1>2, <2>1, <2>2, FramesDiffer DEF OutcomeInv, ReadyInv, PinnedInv
  <2>7. ReapedInv'
    BY <1>1, <1>2, <2>1, <2>2, FramesDiffer DEF ReapedInv, PinnedInv
  <2>8. Lossless => ReadyComes'
    <3>1. Lossless => ReadyComes
      BY <1>2 DEF LosslessInv, Arriving
    <3> QED  BY <1>1, <1>2, <3>1, <2>1, <2>2, FramesDiffer DEF ReadyComes, PinnedInv, ReadyInv, OutcomeInv
  <2>9. LosslessInv'
    BY <1>1, <1>2, <2>8 DEF LosslessInv, Lossless, Arriving, OutcomeComes
  <2> QED  BY <1>3, <2>3, <2>4, <2>5, <2>6, <2>7, <2>9 DEF IInv
<1>9. CASE DialsInVain
  <2>1. /\ relay' \in Relays
        /\ relay'.conn = "closed"
        /\ relay'.attached = relay.attached /\ relay'.ready = relay.ready /\ relay'.detached = relay.detached /\ relay'.frame = relay.frame
    BY <1>4, <1>9, FramesDiffer DEF DialsInVain, Relays
  <2>2. client' = client /\ shown' = shown
    BY <1>9 DEF DialsInVain
  <2>3. TypeOK'
    BY <1>1, <1>2, <2>1, <2>2 DEF TypeOK
  <2>4. PinnedInv'
    BY <1>1, <1>2, <1>4, <2>1, <2>2 DEF PinnedInv, Relays
  <2>5. ReadyInv'
    BY <1>1, <1>2, <2>1, <2>2, FramesDiffer DEF ReadyInv, PinnedInv
  <2>6. OutcomeInv'
    BY <1>1, <1>2, <2>1, <2>2, FramesDiffer DEF OutcomeInv, ReadyInv, PinnedInv
  <2>7. ReapedInv'
    BY <1>1, <1>2, <2>1, <2>2, FramesDiffer DEF ReapedInv, PinnedInv
  <2>8. Lossless => ReadyComes'
    <3>1. Lossless => ReadyComes
      BY <1>2 DEF LosslessInv, Arriving
    <3> QED  BY <1>1, <1>2, <3>1, <2>1, <2>2, FramesDiffer DEF ReadyComes, PinnedInv, ReadyInv, OutcomeInv
  <2>9. LosslessInv'
    BY <1>1, <1>2, <2>8 DEF LosslessInv, Lossless, Arriving, OutcomeComes
  <2> QED  BY <1>3, <2>3, <2>4, <2>5, <2>6, <2>7, <2>9 DEF IInv
<1>10. CASE Severs
  <2>1. PICK failed \in BOOLEAN : relay' = [relay EXCEPT !.conn = "severed", !.failed = failed]
    BY <1>10 DEF Severs
  <2>2. relay' \in Relays /\ relay'.conn = "severed" /\ relay.conn = "open" /\ client' = client /\ shown' = shown
        /\ relay'.attached = relay.attached /\ relay'.ready = relay.ready /\ relay'.detached = relay.detached
        /\ relay'.frame = relay.frame
    BY <1>4, <1>10, <2>1 DEF Severs, Relays
  <2>3. TypeOK'
    BY <1>1, <1>2, <2>1, <2>2 DEF TypeOK
  <2>4. PinnedInv'
    BY <1>1, <1>2, <1>4, <2>1, <2>2 DEF PinnedInv, Relays
  <2>5. ReadyInv'
    BY <1>1, <1>2, <2>1, <2>2, FramesDiffer DEF ReadyInv, PinnedInv
  <2>6. OutcomeInv'
    BY <1>1, <1>2, <2>1, <2>2, FramesDiffer DEF OutcomeInv, ReadyInv, PinnedInv
  <2>7. ReapedInv'
    BY <1>1, <1>2, <2>1, <2>2, FramesDiffer DEF ReapedInv, PinnedInv
  <2>8. Lossless => ReadyComes'
    <3>1. Lossless => ReadyComes
      BY <1>2 DEF LosslessInv, Arriving
    <3> QED  BY <1>1, <1>2, <3>1, <2>1, <2>2, FramesDiffer DEF ReadyComes, PinnedInv, ReadyInv, OutcomeInv
  <2>9. LosslessInv'
    BY <1>1, <1>2, <2>8 DEF LosslessInv, Lossless, Arriving, OutcomeComes
  <2> QED  BY <1>3, <2>3, <2>4, <2>5, <2>6, <2>7, <2>9 DEF IInv
<1>11. CASE Reads
  <2>1. PICK f \in AttachFrames :
          /\ relay' = [relay EXCEPT !.frame = f]
          /\ shown' = [rendered |-> IF f \in Renders THEN helper.pinned ELSE shown.rendered,
                       directed |-> shown.directed \/ (f = Exits /\ shown.rendered = "mine")]
    BY <1>11 DEF Reads
  <2>2. /\ relay' \in Relays /\ relay'.conn = "open" /\ relay.conn = "open" /\ client' = client
        /\ relay'.attached = relay.attached /\ relay'.ready = relay.ready /\ relay'.detached = relay.detached
        /\ relay'.frame = f
        /\ shown' \in [rendered : {None, "mine", "other"}, directed : BOOLEAN]
        /\ helper.pinned = "mine"
        /\ f \in Renders => shown'.rendered = "mine"
        /\ f \notin Renders => shown'.rendered = shown.rendered
        /\ shown.directed => shown'.directed
        /\ f = Exits /\ shown.rendered = "mine" => shown'.directed
    <3>1. helper.pinned = "mine" /\ relay.conn = "open" /\ client' = client
      BY <1>2, <1>11 DEF Reads, PinnedInv
    <3> QED  BY <1>4, <2>1, <3>1 DEF Relays
  <2>3. TypeOK'
    BY <1>1, <1>2, <2>1, <2>2 DEF TypeOK
  <2>4. PinnedInv'
    BY <1>1, <1>2, <1>4, <2>1, <2>2 DEF PinnedInv, Relays
  <2>5. ReadyInv'
    BY <1>1, <1>2, <2>1, <2>2, FramesDiffer DEF ReadyInv, PinnedInv
  <2>6. OutcomeInv'
    BY <1>1, <1>2, <2>1, <2>2, FramesDiffer DEF OutcomeInv, ReadyInv, PinnedInv
  <2>7. ReapedInv'
    BY <1>1, <1>2, <2>1, <2>2, FramesDiffer DEF ReapedInv, PinnedInv
  <2>8. Lossless => ReadyComes'
    <3>1. Lossless => ReadyComes
      BY <1>2 DEF LosslessInv, Arriving
    <3> QED  BY <1>1, <1>2, <3>1, <2>1, <2>2, FramesDiffer DEF ReadyComes, PinnedInv, ReadyInv, OutcomeInv
  <2>9. LosslessInv'
    BY <1>1, <1>2, <2>8 DEF LosslessInv, Lossless, Arriving, OutcomeComes
  <2> QED  BY <1>3, <2>3, <2>4, <2>5, <2>6, <2>7, <2>9 DEF IInv
<1>12. CASE Proves
  <2>1. /\ relay' \in Relays
        /\ relay'.ready /\ relay'.conn = relay.conn /\ relay.conn \in {"open", "severed"} /\ relay.frame \in Renders /\ ~relay.ready
        /\ relay'.attached = relay.attached /\ relay'.detached = relay.detached /\ relay'.frame = relay.frame
    BY <1>4, <1>12, FramesDiffer DEF Proves, Open, Relays
  <2>2. /\ client' \in Clients /\ shown' = shown /\ client.state = "runs" /\ client'.state = "runs"
        /\ Len(client.inbox) \in Nat /\ Len(client'.inbox) = Len(client.inbox) + 1
        /\ DOMAIN client.inbox = 1..Len(client.inbox)
        /\ DOMAIN client'.inbox = 1..(Len(client.inbox) + 1)
        /\ \A i \in 1..Len(client.inbox) : client'.inbox[i] = client.inbox[i]
        /\ client'.inbox[Len(client.inbox) + 1] = Ready
    <3>1. Ready \in AttachFrames \cup {Ready}
      BY <2>1, FramesDiffer
    <3>2. client' = [client EXCEPT !.inbox = Append(@, Ready)] /\ client.state = "runs" /\ shown' = shown
      BY <1>12 DEF Proves
    <3>3. client' \in Clients /\ client'.inbox = Append(client.inbox, Ready) /\ client'.state = client.state
      BY <1>4, <1>5, <3>1, <3>2 DEF Clients
    <3> QED  BY <1>5, <3>1, <3>2, <3>3
  <2>3. TypeOK'
    BY <1>1, <1>2, <2>1, <2>2 DEF TypeOK
  <2>4. PinnedInv'
    BY <1>1, <1>2, <1>4, <2>1, <2>2 DEF PinnedInv, Relays
  <2>5. ReadyInv'
    BY <1>1, <1>2, <2>1, <2>2, FramesDiffer DEF ReadyInv, PinnedInv
  <2>6. OutcomeInv'
    BY <1>1, <1>2, <2>1, <2>2, FramesDiffer DEF OutcomeInv, ReadyInv, PinnedInv
  <2>7. ReapedInv'
    BY <1>1, <1>2, <2>1, <2>2, FramesDiffer DEF ReapedInv, PinnedInv
  <2>8. Lossless => ReadyComes'
    <3>1. Lossless => ReadyComes
      BY <1>2 DEF LosslessInv, Arriving
    <3> QED  BY <1>1, <1>2, <3>1, <2>1, <2>2, FramesDiffer DEF ReadyComes, PinnedInv, ReadyInv, OutcomeInv
  <2>9. LosslessInv'
    BY <1>1, <1>2, <2>8 DEF LosslessInv, Lossless, Arriving, OutcomeComes
  <2> QED  BY <1>3, <2>3, <2>4, <2>5, <2>6, <2>7, <2>9 DEF IInv
<1>13. CASE LosesProof
  <2>1. /\ relay' \in Relays
        /\ relay'.ready /\ relay'.conn = "closed" /\ relay.conn \in {"open", "severed"} /\ relay'.frame = None /\ relay.frame \in Renders /\ ~relay.ready
        /\ relay'.attached = relay.attached /\ relay'.detached = relay.detached
    BY <1>4, <1>13, FramesDiffer DEF LosesProof, Open, Relays
  <2>2. client' = client /\ shown' = shown
    BY <1>13 DEF LosesProof
  <2>3. TypeOK'
    BY <1>1, <1>2, <2>1, <2>2 DEF TypeOK
  <2>4. PinnedInv'
    BY <1>1, <1>2, <1>4, <2>1, <2>2 DEF PinnedInv, Relays
  <2>5. ReadyInv'
    BY <1>1, <1>2, <2>1, <2>2, FramesDiffer DEF ReadyInv, PinnedInv
  <2>6. OutcomeInv'
    BY <1>1, <1>2, <2>1, <2>2, FramesDiffer DEF OutcomeInv, ReadyInv, PinnedInv
  <2>7. ReapedInv'
    BY <1>1, <1>2, <2>1, <2>2, FramesDiffer DEF ReapedInv, PinnedInv
  <2>8. Lossless => ReadyComes'
    <3>1. Lossless => ReadyComes
      BY <1>2 DEF LosslessInv, Arriving
    <3> QED  BY <1>1, <1>2, <3>1, <2>1, <2>2, FramesDiffer DEF ReadyComes, PinnedInv, ReadyInv, OutcomeInv
  <2>9. LosslessInv'
    BY <1>1, <1>2, <2>8 DEF LosslessInv, Lossless, Arriving, OutcomeComes
  <2> QED  BY <1>3, <2>3, <2>4, <2>5, <2>6, <2>7, <2>9 DEF IInv
<1>14. CASE ForwardsRender
  <2>1. /\ relay' \in Relays
        /\ relay'.conn = relay.conn /\ relay.conn \in {"open", "severed"} /\ relay'.frame = None /\ relay.frame \in Renders /\ relay.ready
        /\ relay'.attached = relay.attached /\ relay'.ready = relay.ready /\ relay'.detached = relay.detached
    BY <1>4, <1>14, FramesDiffer DEF ForwardsRender, Open, Relays
  <2>2. /\ client' \in Clients /\ shown' = shown /\ client.state = "runs" /\ client'.state = "runs"
        /\ Len(client.inbox) \in Nat /\ Len(client'.inbox) = Len(client.inbox) + 1
        /\ DOMAIN client.inbox = 1..Len(client.inbox)
        /\ DOMAIN client'.inbox = 1..(Len(client.inbox) + 1)
        /\ \A i \in 1..Len(client.inbox) : client'.inbox[i] = client.inbox[i]
        /\ client'.inbox[Len(client.inbox) + 1] = relay.frame
    <3>1. relay.frame \in AttachFrames \cup {Ready}
      BY <2>1, FramesDiffer
    <3>2. client' = [client EXCEPT !.inbox = Append(@, relay.frame)] /\ client.state = "runs" /\ shown' = shown
      BY <1>14 DEF ForwardsRender
    <3>3. client' \in Clients /\ client'.inbox = Append(client.inbox, relay.frame) /\ client'.state = client.state
      BY <1>4, <1>5, <3>1, <3>2 DEF Clients
    <3> QED  BY <1>5, <3>1, <3>2, <3>3
  <2>3. TypeOK'
    BY <1>1, <1>2, <2>1, <2>2 DEF TypeOK
  <2>4. PinnedInv'
    BY <1>1, <1>2, <1>4, <2>1, <2>2 DEF PinnedInv, Relays
  <2>5. ReadyInv'
    BY <1>1, <1>2, <2>1, <2>2, FramesDiffer DEF ReadyInv, PinnedInv
  <2>6. OutcomeInv'
    BY <1>1, <1>2, <2>1, <2>2, FramesDiffer DEF OutcomeInv, ReadyInv, PinnedInv
  <2>7. ReapedInv'
    BY <1>1, <1>2, <2>1, <2>2, FramesDiffer, SMTT(30) DEF ReapedInv, PinnedInv
  <2>8. Lossless => ReadyComes'
    <3>1. Lossless => ReadyComes
      BY <1>2 DEF LosslessInv, Arriving
    <3> QED  BY <1>1, <1>2, <3>1, <2>1, <2>2, FramesDiffer DEF ReadyComes, PinnedInv, ReadyInv, OutcomeInv
  <2>9. LosslessInv'
    BY <1>1, <1>2, <2>8 DEF LosslessInv, Lossless, Arriving, OutcomeComes
  <2> QED  BY <1>3, <2>3, <2>4, <2>5, <2>6, <2>7, <2>9 DEF IInv
<1>15. CASE ForwardsEnd
  <2>1. /\ relay' \in Relays
        /\ relay'.conn = "closed" /\ relay.conn \in {"open", "severed"} /\ relay'.frame = None /\ relay.frame \in {Exits, ExitsBadly}
        /\ relay'.detached = (IF relay.frame = Exits THEN relay.ready ELSE relay.detached)
        /\ relay'.attached = relay.attached /\ relay'.ready = relay.ready
    BY <1>4, <1>15, FramesDiffer DEF ForwardsEnd, Open, Ended, Relays
  <2>2. /\ client' \in Clients /\ shown' = shown /\ client.state = "runs" /\ client'.state = "runs"
        /\ Len(client.inbox) \in Nat /\ Len(client'.inbox) = Len(client.inbox) + 1
        /\ DOMAIN client.inbox = 1..Len(client.inbox)
        /\ DOMAIN client'.inbox = 1..(Len(client.inbox) + 1)
        /\ \A i \in 1..Len(client.inbox) : client'.inbox[i] = client.inbox[i]
        /\ client'.inbox[Len(client.inbox) + 1] = relay.frame
    <3>1. relay.frame \in AttachFrames \cup {Ready}
      BY <2>1, FramesDiffer
    <3>2. client' = [client EXCEPT !.inbox = Append(@, relay.frame)] /\ client.state = "runs" /\ shown' = shown
      BY <1>15 DEF ForwardsEnd
    <3>3. client' \in Clients /\ client'.inbox = Append(client.inbox, relay.frame) /\ client'.state = client.state
      BY <1>4, <1>5, <3>1, <3>2 DEF Clients
    <3> QED  BY <1>5, <3>1, <3>2, <3>3
  <2>3. TypeOK'
    BY <1>1, <1>2, <2>1, <2>2 DEF TypeOK
  <2>4. PinnedInv'
    BY <1>1, <1>2, <1>4, <2>1, <2>2 DEF PinnedInv, Relays
  <2>5. ReadyInv'
    BY <1>1, <1>2, <2>1, <2>2, FramesDiffer, SMTT(30) DEF ReadyInv, PinnedInv
  <2>6. OutcomeInv'
    BY <1>1, <1>2, <2>1, <2>2, FramesDiffer DEF OutcomeInv, ReadyInv, PinnedInv
  <2>7. ReapedInv'
    BY <1>1, <1>2, <2>1, <2>2, FramesDiffer DEF ReapedInv, PinnedInv
  <2>8. Lossless => ReadyComes'
    <3>1. Lossless => ReadyComes
      BY <1>2 DEF LosslessInv, Arriving
    <3> QED  BY <1>1, <1>2, <3>1, <2>1, <2>2, FramesDiffer DEF ReadyComes, PinnedInv, ReadyInv, OutcomeInv
  <2>9. LosslessInv'
    BY <1>1, <1>2, <2>8 DEF LosslessInv, Lossless, Arriving, OutcomeComes
  <2> QED  BY <1>3, <2>3, <2>4, <2>5, <2>6, <2>7, <2>9 DEF IInv
<1>16. CASE LosesFrame
  <2>1. /\ relay' \in Relays
        /\ relay'.conn = "closed" /\ relay.conn \in {"open", "severed"} /\ relay'.frame = None
        /\ relay'.detached = (IF relay.frame = Exits THEN relay.ready ELSE relay.detached)
        /\ relay'.attached = relay.attached /\ relay'.ready = relay.ready
    BY <1>4, <1>16, FramesDiffer DEF LosesFrame, Open, Ended, Relays
  <2>2. client' = client /\ shown' = shown
    BY <1>16 DEF LosesFrame
  <2>3. TypeOK'
    BY <1>1, <1>2, <2>1, <2>2 DEF TypeOK
  <2>4. PinnedInv'
    BY <1>1, <1>2, <1>4, <2>1, <2>2 DEF PinnedInv, Relays
  <2>5. ReadyInv'
    BY <1>1, <1>2, <2>1, <2>2, FramesDiffer DEF ReadyInv, PinnedInv
  <2>6. OutcomeInv'
    BY <1>1, <1>2, <2>1, <2>2, FramesDiffer DEF OutcomeInv, ReadyInv, PinnedInv
  <2>7. ReapedInv'
    BY <1>1, <1>2, <2>1, <2>2, FramesDiffer DEF ReapedInv, PinnedInv
  <2>8. Lossless => ReadyComes'
    <3>1. Lossless => ReadyComes
      BY <1>2 DEF LosslessInv, Arriving
    <3> QED  BY <1>1, <1>2, <3>1, <2>1, <2>2, FramesDiffer DEF ReadyComes, PinnedInv, ReadyInv, OutcomeInv
  <2>9. LosslessInv'
    BY <1>1, <1>2, <2>8 DEF LosslessInv, Lossless, Arriving, OutcomeComes
  <2> QED  BY <1>3, <2>3, <2>4, <2>5, <2>6, <2>7, <2>9 DEF IInv
<1>17. CASE Shuts
  <2>1. /\ relay' \in Relays
        /\ relay'.conn = "closed" /\ relay'.frame = None
        /\ relay'.attached = relay.attached /\ relay'.ready = relay.ready /\ relay'.detached = relay.detached
    BY <1>4, <1>17, FramesDiffer DEF Shuts, Relays
  <2>2. client' = client /\ shown' = shown
    BY <1>17 DEF Shuts
  <2>3. TypeOK'
    BY <1>1, <1>2, <2>1, <2>2 DEF TypeOK
  <2>4. PinnedInv'
    BY <1>1, <1>2, <1>4, <2>1, <2>2 DEF PinnedInv, Relays
  <2>5. ReadyInv'
    BY <1>1, <1>2, <2>1, <2>2, FramesDiffer DEF ReadyInv, PinnedInv
  <2>6. OutcomeInv'
    BY <1>1, <1>2, <2>1, <2>2, FramesDiffer DEF OutcomeInv, ReadyInv, PinnedInv
  <2>7. ReapedInv'
    BY <1>1, <1>2, <2>1, <2>2, FramesDiffer DEF ReapedInv, PinnedInv
  <2>8. Lossless => ReadyComes'
    <3>1. Lossless => ReadyComes
      BY <1>2 DEF LosslessInv, Arriving
    <3> QED  BY <1>1, <1>2, <3>1, <2>1, <2>2, FramesDiffer DEF ReadyComes, PinnedInv, ReadyInv, OutcomeInv
  <2>9. LosslessInv'
    BY <1>1, <1>2, <2>8 DEF LosslessInv, Lossless, Arriving, OutcomeComes
  <2> QED  BY <1>3, <2>3, <2>4, <2>5, <2>6, <2>7, <2>9 DEF IInv
<1> QED  BY <1>1, <1>6, <1>7, <1>8, <1>9, <1>10, <1>11, <1>12, <1>13, <1>14, <1>15, <1>16, <1>17

-----------------------------------------------------------------------------
(* The steps of Zellij.                                                    *)

LEMMA MishapIs ==
    ASSUME TypeOK, UNCHANGED spent \/ Mishap
    PROVE  spent' \in [frames : Nat, mishaps : Nat]
<1>1. spent \in [frames : Nat, mishaps : Nat] /\ spent.mishaps + 1 \in Nat
  BY DEF TypeOK
<1>2. UNCHANGED spent \/ spent' = [spent EXCEPT !.mishaps = @ + 1]
  BY DEF Mishap
<1> QED  BY <1>1, <1>2

LEMMA ReadyFirstBehind ==
    ASSUME NEW S \in Bytes, Whole(S), NEW d, ReadyFirst(S, d),
           NEW b, Piece(b), b # AttachmentMarker("mine", "detached")
    PROVE  ReadyFirst(S \o b, d)
<1>1. ASSUME NEW m \in DOMAIN (S \o b), MarkerAt(S \o b, m, "mine", "detached"), ~d.ready, ~d.finished
      PROVE  \E l \in 1..(m - 1) : MarkerAt(S \o b, l, "mine", "ready")
  <2>1. m \in DOMAIN S /\ MarkerAt(S, m, "mine", "detached")
    BY <1>1, MarkerBehind
  <2>2. PICK l \in 1..(m - 1) : MarkerAt(S, l, "mine", "ready")
    BY <1>1, <2>1 DEF ReadyFirst
  <2>3. MarkerAt(S \o b, l, "mine", "ready")
    BY <2>2, MarkerInFirst DEF Piece
  <2> QED  BY <2>3
<1> QED  BY <1>1 DEF ReadyFirst

\* The client writes what it was sent, in order.
LEMMA ClientReadsOn ==
    ASSUME IInv, up, ClientReads
    PROVE  IInv'
<1> DEFINE f == Head(client.inbox)
           b == f.body
           q == client.inbox
           n == Len(client.inbox)
<1>1. TypeOK /\ PinnedInv /\ ReadyInv /\ OutcomeInv /\ ReapedInv /\ StreamInv /\ LocalInv /\ LosslessInv
  BY DEF IInv
<1>2. /\ client.state = "runs" /\ client.inbox # <<>> /\ Writes(b)
      /\ client' = [state |-> CASE f.kind = "exit" -> "done" [] f.kind = "broken" -> "died"
                                [] OTHER -> "runs",
                    inbox |-> Tail(client.inbox)]
      /\ UNCHANGED <<named, server, helper, relay, up, local, spent, shown>>
  BY DEF ClientReads, Apart
<1>3. /\ f \in AttachFrames \cup {Ready} /\ f = q[1] /\ 1 \in DOMAIN q
      /\ Tail(q) \in Seq(AttachFrames \cup {Ready})
      /\ n \in Nat \ {0} /\ Len(Tail(q)) = n - 1
      /\ DOMAIN q = 1..n /\ DOMAIN Tail(q) = 1..(n - 1)
      /\ \A i \in 1..(n - 1) : Tail(q)[i] = q[i + 1]
  <2>1. q \in Seq(AttachFrames \cup {Ready}) /\ q # <<>>
    BY <1>1, <1>2 DEF TypeOK, Clients
  <2> QED  BY <2>1, InboxTail
<1>4. /\ Piece(b) /\ b \in Bytes
      /\ \A event \in Events : b = AttachmentMarker("mine", event) => f = Ready /\ event = "ready"
  BY <1>3, FramePieces DEF Piece
<1>5. /\ f.kind = "exit" <=> f = Exits
      /\ f.kind = "broken" <=> f = ExitsBadly
  BY <1>3, FrameIs
<1>6. f = Ready => b = AttachmentMarker("mine", "ready")
  BY FrameKinds
<1> HIDE DEF f, b
<1>7. /\ client'.inbox = Tail(q)
      /\ client'.state \in {"runs", "done", "died"}
      /\ client'.state = "done" <=> f = Exits
      /\ client'.state = "died" <=> f = ExitsBadly
  BY <1>2, <1>5, FramesDiffer
<1>8. client' = [state |-> client'.state, inbox |-> client'.inbox]
  BY <1>2
<1> HIDE DEF q, n
<1>9. Stream \in Bytes /\ Whole(Stream) /\ Paired(Stream)
  BY <1>1, StreamIsBytes DEF StreamInv
<1>10. \/ local.reader # "ended" /\ Stream' = Stream \o b /\ wire' \in Bytes
       \/ local.reader = "ended" /\ Stream' = Stream /\ wire' \in Bytes
  BY <1>1, <1>2, <1>4, WritesAppends, WritesNothing, StreamIsBytes
<1>11. \A event \in Events : Says(Stream', event) => Says(Stream, event) \/ (event = "ready" /\ f = Ready)
  BY <1>4, <1>9, <1>10, SaysBehind, ZenonT(30)
<1>12. TypeOK'
  <2>1. client' \in Clients
    BY <1>3, <1>7, <1>8 DEF Clients
  <2> QED  BY <1>1, <1>2, <1>10, <2>1 DEF TypeOK
<1>13. PinnedInv'
  BY <1>1, <1>2 DEF PinnedInv
<1>14. ReadyInv'
  <2>1. Says(Stream', "ready") => Says(Stream, "ready") \/ f = Ready
    BY <1>11 DEF Events
  <2>2. \A i \in DOMAIN q : q[i] = Ready => relay.ready
    BY <1>1 DEF ReadyInv, q
  <2>3. f = Ready => relay.ready
    BY <1>3, <2>2
  <2>4. \A i \in 1..(n - 1) : i + 1 \in DOMAIN q
    BY <1>3
  <2>5. \A i \in DOMAIN Tail(q) : Tail(q)[i] = Ready => relay.ready
    BY <1>3, <2>2, <2>4
  <2> QED  BY <1>1, <1>2, <1>7, <2>1, <2>3, <2>5 DEF ReadyInv
<1>15. OutcomeInv'
  <2>1. \A event \in {"detached", "failed"} : Says(Stream', event) => Says(Stream, event)
    BY <1>11 DEF Events
  <2> QED  BY <1>1, <1>2, <2>1 DEF OutcomeInv
<1>16. \A i \in DOMAIN q : q[i] \in {Exits, ExitsBadly} =>
           i = n /\ relay.conn = "closed" /\ relay.attached
  BY <1>1 DEF ReapedInv, q, n
<1>17. ReapedInv'
  <2>1. helper.pc # "mark" /\ ~(helper.pc = "gone" /\ helper.status # None)
    BY <1>1, <1>2 DEF ReapedInv
  <2>2. client'.state = "done" => client'.inbox = <<>>
    <3>1. ASSUME f = Exits PROVE Tail(q) = <<>>
      <4>1. n = 1
        BY <1>3, <1>16, <3>1
      <4>2. Len(Tail(q)) = 0
        BY <1>3, <4>1
      <4> QED  BY <1>3, <4>2, EmptySeq
    <3> QED  BY <1>7, <3>1
  <2>3. \A i \in 1..(n - 1) : i + 1 \in DOMAIN q /\ (i + 1 = n => i = n - 1)
    BY <1>3
  <2>4. \A i \in DOMAIN Tail(q) : Tail(q)[i] \in {Exits, ExitsBadly} =>
            i = Len(Tail(q)) /\ relay.conn = "closed" /\ relay.attached
    BY <1>3, <1>16, <2>3
  <2> QED  BY <1>1, <1>2, <1>7, <2>1, <2>2, <2>4 DEF ReapedInv
<1>18. StreamInv'
  BY <1>2, <1>4, <1>9, <1>10, WholeBehind, PairedBehind DEF StreamInv
<1>19. LocalInv'
  BY <1>1, <1>2 DEF LocalInv
<1>20. ASSUME Lossless PROVE Arriving'
  <2>1. Arriving /\ local.ssh /\ up
    BY <1>1, <1>2, <1>20 DEF LosslessInv, Arriving
  <2>2. local.reader \notin {"last", "ended"} /\ Stream' = Stream \o b
    BY <1>10, <2>1 DEF Arriving
  <2>3. Clear(Stream')
    BY <1>4, <1>9, <2>1, <2>2, ClearBehind DEF Arriving
  <2>4. Says(Stream, "ready") => Says(Stream', "ready")
    BY <1>4, <1>9, <2>2, SaysOfFirst
  <2>5. f = Ready => Says(Stream', "ready")
    <3>1. "ready" \in Events
      BY DEF Events
    <3> QED  BY <1>6, <1>9, <2>2, <3>1, SaysTheMarker
  <2>6. ReadyComes'
    <3>1. ASSUME NEW i \in DOMAIN q, q[i] = Ready
          PROVE  f = Ready \/ \E j \in DOMAIN Tail(q) : Tail(q)[j] = Ready
      <4>1. CASE i = 1
        BY <1>3, <3>1, <4>1
      <4>2. CASE i # 1
        <5>1. i - 1 \in 1..(n - 1) /\ (i - 1) + 1 = i
          BY <1>3, <4>2
        <5> QED  BY <1>3, <3>1, <5>1
      <4> QED  BY <4>1, <4>2
    <3>2. ReadyComes
      BY <2>1 DEF Arriving
    <3>3. relay.ready /\ (relay.conn \in {"open", "severed"} \/ relay.detached) /\ helper.pc # "gone" =>
             local.dec.ready \/ Says(Stream, "ready") \/ \E i \in DOMAIN q : q[i] = Ready
      BY <1>2, <3>2 DEF ReadyComes, q
    <3> QED  BY <1>2, <1>7, <2>4, <2>5, <3>1, <3>3 DEF ReadyComes
  <2>7. OutcomeComes'
    <3>1. b # AttachmentMarker("mine", "detached")
      BY <1>4 DEF Events
    <3>2. ReadyFirst(Stream \o b, local.dec)
      BY <1>4, <1>9, <2>1, <3>1, ReadyFirstBehind DEF Arriving, OutcomeComes
    <3>3. ReadyFirst(Stream', local'.dec)
      BY <1>2, <2>2, <3>2
    <3>4. ~(helper.pc = "gone" /\ helper.status # None)
      BY <1>1, <1>2 DEF ReapedInv
    <3> QED  BY <1>2, <3>3, <3>4 DEF OutcomeComes
  <2> QED  BY <1>2, <2>1, <2>2, <2>3, <2>6, <2>7 DEF Arriving
<1>21. LosslessInv'
  BY <1>2, <1>20 DEF LosslessInv, Lossless
<1> QED  BY <1>12, <1>13, <1>14, <1>15, <1>17, <1>18, <1>19, <1>21 DEF IInv

LEMMA ClientEndsOn ==
    ASSUME IInv, up, ClientEnds
    PROVE  IInv'
<1>1. TypeOK /\ PinnedInv /\ ReadyInv /\ OutcomeInv /\ ReapedInv /\ StreamInv /\ LocalInv /\ LosslessInv
  BY DEF IInv
<1>2. /\ client.state = "runs"
      /\ UNCHANGED <<named, server, helper, relay, wire, up, local, shown>>
      /\ UNCHANGED spent \/ Mishap
  BY DEF ClientEnds, Apart
<1>3. PICK state \in {"done", "died"} :
          client' = [state |-> state, inbox |-> <<>>] /\ (state = "done" => client.inbox = <<>>)
  BY DEF ClientEnds
<1>4. /\ client'.state = state /\ client'.inbox = <<>> /\ client' \in Clients
      /\ Stream' = Stream /\ spent' \in [frames : Nat, mishaps : Nat]
  <2>1. <<>> \in Seq(AttachFrames \cup {Ready})
    OBVIOUS
  <2> QED  BY <1>1, <1>2, <1>3, <2>1, MishapIs DEF Clients, Stream
<1>5. TypeOK'
  BY <1>1, <1>2, <1>4 DEF TypeOK
<1>6. PinnedInv'
  BY <1>1, <1>2 DEF PinnedInv
<1>7. ReadyInv'
  BY <1>1, <1>2, <1>4 DEF ReadyInv
<1>8. OutcomeInv'
  BY <1>1, <1>2, <1>4 DEF OutcomeInv
<1>9. ReapedInv'
  BY <1>1, <1>2, <1>4 DEF ReapedInv
<1>10. StreamInv' /\ LocalInv'
  BY <1>1, <1>2, <1>4 DEF StreamInv, LocalInv
<1>11. ReadyComes => ReadyComes'
  BY <1>2, <1>3, <1>4 DEF ReadyComes
<1>12. LosslessInv'
  BY <1>1, <1>2, <1>4, <1>11 DEF LosslessInv, Lossless, Arriving, OutcomeComes
<1> QED  BY <1>5, <1>6, <1>7, <1>8, <1>9, <1>10, <1>12 DEF IInv

LEMMA ZellijSteps ==
    ASSUME IInv, up, ZellijStep
    PROVE  IInv'
<1>1. CASE Renamed \/ ServerEnds
  <2>1. TypeOK /\ PinnedInv /\ ReadyInv /\ OutcomeInv /\ ReapedInv /\ StreamInv /\ LocalInv /\ LosslessInv
    BY DEF IInv
  <2>2. /\ UNCHANGED <<helper, relay, client, wire, up, local, shown>> /\ Mishap
        /\ named' \in {None, "mine", "other"} /\ server' \in BOOLEAN
    BY <1>1, <2>1 DEF Renamed, ServerEnds, TypeOK
  <2>3. spent' \in [frames : Nat, mishaps : Nat] /\ Stream' = Stream
    BY <2>1, <2>2, MishapIs DEF Stream
  <2>4. TypeOK'
    BY <2>1, <2>2, <2>3 DEF TypeOK
  <2>5. PinnedInv' /\ ReadyInv' /\ OutcomeInv' /\ ReapedInv' /\ StreamInv' /\ LocalInv'
    BY <2>1, <2>2, <2>3 DEF PinnedInv, ReadyInv, OutcomeInv, ReapedInv, StreamInv, LocalInv
  <2>6. LosslessInv'
    BY <2>1, <2>2, <2>3 DEF LosslessInv, Lossless, Arriving, ReadyComes, OutcomeComes
  <2> QED  BY <2>4, <2>5, <2>6 DEF IInv
<1> QED  BY <1>1, ClientReadsOn, ClientEndsOn DEF ZellijStep

-----------------------------------------------------------------------------
(* SSH ends, or its output is cut off.                                     *)

LEMMA CutIs ==
    ASSUME TypeOK, wire' \in Cut(wire), local'.dec = local.dec
    PROVE  wire' \in Bytes /\ \A event : Says(Stream', event) => Says(Stream, event)
<1>1. wire \in Bytes /\ local.dec.pending \in Bytes /\ Len(wire) \in Nat
  BY StreamIsBytes, DomainOfBytes
<1>2. PICK k \in 0..Len(wire) : wire' = SubSeq(wire, 1, k)
  BY DEF Cut
<1> DEFINE r == From(wire, k + 1)
           p == local.dec.pending
           s == SubSeq(wire, 1, k)
<1>3. s \in Bytes /\ r \in Bytes /\ s \o r = wire
  <2>1. wire \in Seq(Byte)
    BY <1>1 DEF Bytes
  <2>2. s \in Seq(Byte)
    BY <2>1, FirstsAre
  <2>3. s \o r = wire
    BY <2>1, CutAndJoin
  <2> QED  BY <1>1, <2>2, <2>3, RestElements DEF Bytes
<1> HIDE DEF r, s
<1>4. (p \o s) \o r = p \o wire
  <2>1. \A x, y, z \in Seq(Byte) : (x \o y) \o z = x \o (y \o z)
    BY ConcatAssociative, SMTT(30)
  <2>2. (p \o s) \o r = p \o (s \o r)
    BY <1>1, <1>3, <2>1 DEF Bytes
  <2> QED  BY <1>3, <2>2
<1>5. Stream' = p \o s /\ Stream = p \o wire
  BY <1>2 DEF Stream, s
<1>6. p \o s \in Bytes
  BY <1>1, <1>3 DEF Bytes
<1> HIDE DEF p
<1>7. ASSUME NEW event, Says(Stream', event) PROVE Says(Stream, event)
  BY <1>3, <1>4, <1>5, <1>6, <1>7, SaysOfFirst
<1>8. wire' \in Bytes
  BY <1>2, <1>3 DEF s
<1> QED  BY <1>7, <1>8

LEMMA LinkSteps ==
    ASSUME IInv, SSHEnds \/ LinkCuts
    PROVE  IInv'
<1>1. TypeOK /\ PinnedInv /\ ReadyInv /\ OutcomeInv /\ ReapedInv /\ StreamInv /\ LocalInv /\ LosslessInv
  BY DEF IInv
<1>2. local \in Transports
  BY <1>1 DEF TypeOK
<1>3. CASE \/ wire' \in Cut(wire) /\ local' = [local EXCEPT !.ssh = FALSE, !.lossy = TRUE]
           \/ wire' \in Cut(wire) /\ local' = [local EXCEPT !.lossy = TRUE]
  <2>1. /\ local'.dec = local.dec /\ local'.outcome = local.outcome /\ local'.reader = local.reader
        /\ local'.hand = local.hand /\ local'.chan = local.chan /\ local'.waiter = local.waiter
        /\ local'.lossy /\ local' \in Transports
    BY <1>2, <1>3 DEF Transports
  <2>2. wire' \in Cut(wire) /\ UNCHANGED <<named, server, helper, relay, client, shown>> /\ up' = FALSE
    BY <1>3 DEF SSHEnds, LinkCuts, remote
  <2>3. spent' \in [frames : Nat, mishaps : Nat]
    BY <1>1, MishapIs DEF SSHEnds, LinkCuts
  <2>4. wire' \in Bytes /\ \A event : Says(Stream', event) => Says(Stream, event)
    BY <1>1, <2>1, <2>2, CutIs
  <2>5. TypeOK'
    BY <1>1, <2>1, <2>2, <2>3, <2>4 DEF TypeOK
  <2>6. PinnedInv' /\ ReapedInv' /\ LocalInv'
    BY <1>1, <2>1, <2>2 DEF PinnedInv, ReapedInv, LocalInv
  <2>7. ReadyInv'
    BY <1>1, <2>1, <2>2, <2>4 DEF ReadyInv
  <2>8. OutcomeInv'
    BY <1>1, <2>1, <2>2, <2>4 DEF OutcomeInv
  <2>9. StreamInv' /\ LosslessInv'
    BY <2>1, <2>2 DEF StreamInv, LosslessInv, Lossless
  <2> QED  BY <2>5, <2>6, <2>7, <2>8, <2>9 DEF IInv
<1>4. CASE At("gone") /\ UNCHANGED <<wire, spent>> /\ local' = [local EXCEPT !.ssh = FALSE] /\ SSHEnds
  <2>1. /\ local'.dec = local.dec /\ local'.outcome = local.outcome /\ local'.reader = local.reader
        /\ local'.hand = local.hand /\ local'.chan = local.chan /\ local'.waiter = local.waiter
        /\ local'.lossy = local.lossy /\ local'.stopped = local.stopped /\ local'.ssh = FALSE
        /\ local' \in Transports
    BY <1>2, <1>4 DEF Transports
  <2>2. UNCHANGED <<named, server, helper, relay, client, shown>> /\ up' = FALSE /\ helper.pc = "gone"
    BY <1>4 DEF SSHEnds, remote, At
  <2>3. Stream' = Stream
    BY <1>4, <2>1 DEF Stream
  <2>4. TypeOK'
    BY <1>1, <1>4, <2>1, <2>2 DEF TypeOK
  <2>5. PinnedInv' /\ ReapedInv' /\ LocalInv' /\ ReadyInv' /\ OutcomeInv' /\ StreamInv'
    BY <1>1, <2>1, <2>2, <2>3 DEF PinnedInv, ReapedInv, LocalInv, ReadyInv, OutcomeInv, StreamInv
  <2>6. LosslessInv'
    BY <1>1, <2>1, <2>2, <2>3 DEF LosslessInv, Lossless, Arriving, ReadyComes, OutcomeComes
  <2> QED  BY <2>4, <2>5, <2>6 DEF IInv
<1> QED  BY <1>3, <1>4 DEF SSHEnds, LinkCuts

-----------------------------------------------------------------------------
(* The transport reads.                                                    *)

LEMMA LastOutcomeIs ==
    ASSUME NEW before
    PROVE  /\ LastOutcome(<<>>, before) = before
           /\ LastOutcome(<<"ready">>, before) = before
           /\ \A event \in Final : LastOutcome(<<event>>, before) = event
           /\ \A event \in Final : LastOutcome(<<"ready", event>>, before) = event
<1>1. {i \in DOMAIN <<>> : <<>>[i] # "ready"} = {}
  OBVIOUS
<1>2. {i \in DOMAIN <<"ready">> : <<"ready">>[i] # "ready"} = {}
  OBVIOUS
<1>3. ASSUME NEW event \in Final
      PROVE  LastOutcome(<<event>>, before) = event /\ LastOutcome(<<"ready", event>>, before) = event
  <2>1. event # "ready"
    BY DEF Final
  <2>2. {i \in DOMAIN <<event>> : <<event>>[i] # "ready"} = {1}
    BY <2>1
  <2>3. {i \in DOMAIN <<"ready", event>> : <<"ready", event>>[i] # "ready"} = {2}
    BY <2>1
  <2>4. Max({1}) = 1 /\ Max({2}) = 2
    BY MaximumIs
  <2>5. <<event>>[1] = event /\ <<"ready", event>>[2] = event
    OBVIOUS
  <2>6. LastOutcome(<<event>>, before) = event
    BY <2>2, <2>4, <2>5 DEF LastOutcome
  <2>7. LastOutcome(<<"ready", event>>, before) = event
    BY <2>3, <2>4, <2>5 DEF LastOutcome
  <2> QED  BY <2>6, <2>7
<1> QED  BY <1>1, <1>2, <1>3 DEF LastOutcome

\* What the transport has learnt from a read.
HeardOf(S) ==
    /\ local'.dec.ready => local.dec.ready \/ Says(S, "ready")
    /\ local.dec.ready => local'.dec.ready
    /\ local.dec.finished => local'.dec.finished /\ local'.outcome = local.outcome
    /\ local'.dec.finished =>
          \/ local.dec.finished
          \/ local'.outcome \in Final /\ Because(S, local'.outcome, local'.dec.ready)
    /\ ~local'.dec.finished => local'.outcome = local.outcome

Tells(x) == local'.outcome = local.outcome \/ \E i \in DOMAIN x.events : x.events[i] = local'.outcome

\* The packets and the outcome are those of the decoder.
Reader(x, eof) ==
    /\ local'.dec = [x EXCEPT !.out = <<>>, !.events = <<>>]
    /\ local'.outcome = LastOutcome(x.events, local.outcome)
    /\ local'.hand = (IF Quiet(x) THEN None ELSE x.events)
    /\ local'.reader = (CASE ~Quiet(x) -> IF eof THEN "last" ELSE "offer"
                          [] eof -> "ended" [] OTHER -> "read")

LEMMA DecodedIs ==
    ASSUME TypeOK, NEW data \in Bytes, NEW eof \in BOOLEAN, Decoded(data, eof)
    PROVE  LET S == local.dec.pending \o data
               x == Feed(local.dec, data, eof)
           IN /\ local' \in Transports /\ HeardOf(S) /\ Tells(x) /\ Reader(x, eof)
              /\ x.events \in Seq(Events)
              /\ UNCHANGED <<local.ssh, local.chan, local.waiter, local.lossy, local.stopped>>
              /\ local'.dec.pending = x.pending
              /\ local'.dec.ready = x.ready /\ local'.dec.finished = x.finished
<1> DEFINE S == local.dec.pending \o data
           x == Feed(local.dec, data, eof)
<1>1. local \in Transports /\ local.dec \in Decoders
  BY DEF TypeOK, Transports
<1>2. S \in Bytes /\ x \in Decoders /\ Heard(local.dec, x, S)
  BY <1>1, FeedHears
<1>3. local' = [local EXCEPT !.dec = [x EXCEPT !.out = <<>>, !.events = <<>>],
                             !.outcome = LastOutcome(x.events, @),
                             !.hand = IF Quiet(x) THEN None ELSE x.events,
                             !.reader = CASE ~Quiet(x) -> IF eof THEN "last" ELSE "offer"
                                          [] eof -> "ended" [] OTHER -> "read"]
  BY DEF Decoded
<1> HIDE DEF x, S
<1>4. Reader(x, eof) /\ UNCHANGED <<local.ssh, local.chan, local.waiter, local.lossy, local.stopped>>
  BY <1>1, <1>3 DEF Transports, Reader
<1>5. /\ local'.dec.pending = x.pending /\ local'.dec.ready = x.ready /\ local'.dec.finished = x.finished
      /\ local'.dec \in Decoders
  <2>1. local'.dec = [x EXCEPT !.out = <<>>, !.events = <<>>]
    BY <1>4 DEF Reader
  <2>2. <<>> \in Bytes /\ <<>> \in Seq(Events)
    BY DEF Bytes
  <2> QED  BY <1>2, <2>1, <2>2 DEF Decoders
<1>6. HeardOf(S) /\ Tells(x) /\ local'.outcome \in {None, "detached", "failed"}
  <2>1. local'.outcome = LastOutcome(x.events, local.outcome) /\ local.outcome \in {None, "detached", "failed"}
    BY <1>1, <1>4 DEF Reader, Transports
  <2>2. CASE HeardNothing(local.dec, x)
    <3>1. local'.outcome = local.outcome
      BY <2>1, <2>2, LastOutcomeIs DEF HeardNothing
    <3> QED  BY <1>5, <2>1, <2>2, <3>1 DEF HeardNothing, HeardOf, Tells
  <2>3. CASE HeardReady(local.dec, x, S)
    <3>1. local'.outcome = local.outcome
      BY <2>1, <2>3, LastOutcomeIs DEF HeardReady
    <3> QED  BY <1>5, <2>1, <2>3, <3>1 DEF HeardReady, HeardOf, Tells
  <2>4. ASSUME NEW event \in Final, HeardEnd(local.dec, x, S, event)
        PROVE  HeardOf(S) /\ Tells(x) /\ local'.outcome \in {None, "detached", "failed"}
    <3>1. local'.outcome = event
      <4>1. x.events = <<event>>
        BY <2>4 DEF HeardEnd
      <4>2. LastOutcome(<<event>>, local.outcome) = event
        BY LastOutcomeIs
      <4> QED  BY <2>1, <4>1, <4>2
    <3>2. Tells(x)
      <4>1. 1 \in DOMAIN x.events /\ x.events[1] = event
        BY <2>4 DEF HeardEnd
      <4> QED  BY <3>1, <4>1 DEF Tells
    <3> QED  BY <1>5, <2>4, <3>1, <3>2 DEF HeardEnd, HeardOf, Final
  <2>5. ASSUME NEW event \in Final, HeardBoth(local.dec, x, S, event)
        PROVE  HeardOf(S) /\ Tells(x) /\ local'.outcome \in {None, "detached", "failed"}
    <3>1. local'.outcome = event
      <4>1. x.events = <<"ready", event>>
        BY <2>5 DEF HeardBoth
      <4>2. LastOutcome(<<"ready", event>>, local.outcome) = event
        BY LastOutcomeIs
      <4> QED  BY <2>1, <4>1, <4>2
    <3>2. Tells(x)
      <4>1. 2 \in DOMAIN x.events /\ x.events[2] = event
        BY <2>5 DEF HeardBoth
      <4> QED  BY <3>1, <4>1 DEF Tells
    <3> QED  BY <1>5, <2>5, <3>1, <3>2 DEF HeardBoth, HeardOf, Final
  <2> QED  BY <1>2, <2>2, <2>3, <2>4, <2>5 DEF Heard
<1>7. local' \in Transports
  <2>1. /\ local'.hand \in {None} \cup Seq(Events)
        /\ local'.reader \in {"read", "offer", "last", "ended"}
    BY <1>2, <1>4 DEF Reader, Decoders
  <2> QED  BY <1>1, <1>3, <1>5, <1>6, <2>1 DEF Transports
<1>8. x.events \in Seq(Events)
  BY <1>2 DEF Decoders
<1> QED  BY <1>4, <1>5, <1>6, <1>7, <1>8 DEF x, S

\* What was said and is not noticed is still to come.
LEMMA NoticedOrLeft ==
    ASSUME NEW T \in Bytes, NEW k \in 0..Len(T), NEW x, NoticedBefore(x, T, k),
           NEW event \in Events, Says(T, event)
    PROVE  Noticed(x, event) \/ Says(From(T, k + 1), event)
<1>1. PICK m \in DOMAIN T : MarkerAt(T, m, "mine", event)
  BY DEF Says
<1>2. SUFFICES ASSUME ~Noticed(x, event) PROVE Says(From(T, k + 1), event)
  OBVIOUS
<1>3. m > k /\ m \in Nat /\ k \in Nat /\ Len(T) \in Nat
  BY <1>1, <1>2, DomainOfBytes DEF NoticedBefore
<1>4. m - k \in Nat \ {0} /\ k + (m - k) = m
  BY <1>3
<1>5. MarkerAt(From(T, k + 1), m - k, "mine", event)
  BY <1>1, <1>4, MarkerInRest
<1>6. m - k \in DOMAIN From(T, k + 1)
  <2>1. m - k + 4 <= Len(From(T, k + 1))
    BY <1>5 DEF MarkerAt
  <2>2. m - k \in 1..(Len(T) - k)
    <3>1. Len(From(T, k + 1)) = Len(T) - k
      BY RestElements
    <3>2. m - k + 4 <= Len(T) - k
      BY <2>1, <3>1
    <3> QED  BY <1>3, <1>4, <3>2
  <2> QED  BY <2>2, RestElements
<1> QED  BY <1>5, <1>6 DEF Says

LEMMA ReadyFirstRest ==
    ASSUME NEW T \in Bytes, NEW k \in 0..Len(T), NEW d, NEW x, ReadyFirst(T, d),
           d.ready => x.ready, d.finished => x.finished, NoticedBefore(x, T, k)
    PROVE  ReadyFirst(From(T, k + 1), x)
<1> DEFINE R == From(T, k + 1)
<1>1. ASSUME NEW m \in DOMAIN R, MarkerAt(R, m, "mine", "detached"), ~x.ready, ~x.finished
      PROVE  \E l \in 1..(m - 1) : MarkerAt(R, l, "mine", "ready")
  <2>1. m \in Nat \ {0} /\ k \in Nat /\ Len(T) \in Nat
    BY <1>1, DomainOfBytes DEF MarkerAt
  <2>2. MarkerAt(T, k + m, "mine", "detached")
    BY <1>1, <2>1, MarkerInRest
  <2>3. k + m \in DOMAIN T
    <3>1. k + m + 4 <= Len(T) /\ k + m \in Nat \ {0}
      BY <2>2 DEF MarkerAt
    <3> QED  BY <3>1, DomainOfBytes
  <2> DEFINE n == k + m
  <2>9. n \in DOMAIN T /\ MarkerAt(T, n, "mine", "detached")
    BY <2>2, <2>3
  <2>10. n = k + m /\ n \in Nat
    BY <2>1
  <2> HIDE DEF n
  <2>11. ~d.ready /\ ~d.finished
    <3>1. d.ready => x.ready
      OBVIOUS
    <3>2. d.finished => x.finished
      OBVIOUS
    <3> QED  BY <1>1, <3>1, <3>2, Zenon
  <2>12. (d.ready \/ d.finished) \/ \E l \in 1..(n - 1) : MarkerAt(T, l, "mine", "ready")
    BY <2>9 DEF ReadyFirst
  <2>13. \E l \in 1..(n - 1) : MarkerAt(T, l, "mine", "ready")
    BY <2>11, <2>12, Zenon
  <2>4. PICK l \in 1..(n - 1) : MarkerAt(T, l, "mine", "ready")
    BY <2>13
  <2>5. l \in DOMAIN T /\ "ready" \in Events
    <3>1. l + 4 <= Len(T) /\ l \in Nat \ {0}
      BY <2>4 DEF MarkerAt
    <3> QED  BY <3>1, DomainOfBytes DEF Events
  <2>6. l > k
    BY <1>1, <2>4, <2>5 DEF NoticedBefore, Noticed
  <2>7. l - k \in 1..(m - 1) /\ l - k \in Nat \ {0} /\ k + (l - k) = l
    BY <2>1, <2>4, <2>6, <2>10
  <2>8. MarkerAt(R, l - k, "mine", "ready")
    BY <2>4, <2>7, MarkerInRest
  <2> QED  BY <2>7, <2>8
<1> HIDE DEF R
<1>2. ReadyFirst(R, x)
  BY <1>1 DEF ReadyFirst
<1> QED  BY <1>2 DEF R

\* A read takes what comes first on the wire, or is the last one.
LEMMA ReadIs ==
    ASSUME TypeOK, ReaderReads
    PROVE  \E data \in Bytes : \E eof \in BOOLEAN :
              /\ Decoded(data, eof) /\ wire' \in Bytes
              /\ ~eof => wire = data \o wire' /\ ~Closed
              /\ eof => data = <<>> /\ wire' = <<>> /\ (Closed \/ (~local.ssh /\ wire = <<>>))
<1>1. wire \in Bytes /\ wire \in Seq(Byte) /\ Len(wire) \in Nat
  BY StreamIsBytes, DomainOfBytes
<1>2. ASSUME ~Closed, NEW size \in ReadSizes, Min({size, Len(wire)}) > 0,
             Decoded(SubSeq(wire, 1, Min({size, Len(wire)})), FALSE),
             wire' = SubSeq(wire, Min({size, Len(wire)}) + 1, Len(wire))
      PROVE  \E data \in Bytes : Decoded(data, FALSE) /\ wire' \in Bytes /\ wire = data \o wire'
  <2> DEFINE k == Min({size, Len(wire)})
  <2>1. size \in Nat
    BY AttachmentConstants
  <2>2. k \in {size, Len(wire)} /\ k <= Len(wire)
    <3>1. {size, Len(wire)} \in SUBSET Nat /\ size \in {size, Len(wire)}
      BY <1>1, <2>1
    <3> QED  BY <3>1, HasMinimum
  <2>3. Decoded(SubSeq(wire, 1, k), FALSE) /\ wire' = From(wire, k + 1)
    BY <1>2 DEF From
  <2> HIDE DEF k
  <2>4. k \in 0..Len(wire)
    BY <1>1, <2>1, <2>2
  <2>5. SubSeq(wire, 1, k) \in Bytes
    BY <1>1, <2>4, FirstsAre DEF Bytes
  <2>6. From(wire, k + 1) \in Bytes
    BY <1>1, <2>4, RestElements
  <2>7. SubSeq(wire, 1, k) \o From(wire, k + 1) = wire
    BY <1>1, <2>4, CutAndJoin
  <2> QED  BY <2>3, <2>5, <2>6, <2>7
<1>3. CASE Closed \/ (~local.ssh /\ wire = <<>>)
  <2>1. CASE Decoded(<<>>, TRUE) /\ wire' = <<>>
    <3>1. <<>> \in Bytes
      BY DEF Bytes
    <3> QED  BY <1>3, <2>1, <3>1
  <2>2. CASE ~(Decoded(<<>>, TRUE) /\ wire' = <<>>)
    BY <1>2, <2>2 DEF ReaderReads
  <2> QED  BY <2>1, <2>2
<1>4. CASE ~(Closed \/ (~local.ssh /\ wire = <<>>))
  BY <1>2, <1>4 DEF ReaderReads
<1> QED  BY <1>3, <1>4

\* What a read leaves of the stream.
LEMMA ReadLeaves ==
    ASSUME TypeOK, NEW data \in Bytes, NEW eof \in BOOLEAN, Decoded(data, eof), wire' \in Bytes,
           ~eof => wire = data \o wire', eof => data = <<>> /\ wire' = <<>>
    PROVE  LET S == local.dec.pending \o data
               x == Feed(local.dec, data, eof)
           IN /\ S \in Bytes
              /\ \E r \in Bytes : S \o r = Stream
              /\ eof => Stream' = <<>>
              /\ ~eof \/ wire = <<>> => S \o wire' = Stream
              /\ \A l \in 0..Len(S) : x.pending = From(S, l + 1) /\ S \o wire' = Stream =>
                    l \in 0..Len(Stream) /\ Stream' = From(Stream, l + 1)
<1> DEFINE p == local.dec.pending
           S == p \o data
           x == Feed(local.dec, data, eof)
           w == wire'
<1>1. /\ p \in Bytes /\ wire \in Bytes /\ w \in Bytes /\ local.dec \in Decoders
      /\ p \in Seq(Byte) /\ wire \in Seq(Byte) /\ w \in Seq(Byte) /\ data \in Seq(Byte)
  BY StreamIsBytes, DomainOfBytes DEF TypeOK, Transports
<1>2. S \in Bytes /\ S \in Seq(Byte)
  BY <1>1 DEF Bytes
<1>3. Stream = p \o wire /\ Stream' = local'.dec.pending \o w /\ local'.dec.pending = x.pending
  BY DecodedIs DEF Stream
<1>4. (p \o data) \o w = p \o (data \o w) /\ p \o <<>> = p
  <2>1. \A a, b, c \in Seq(Byte) : (a \o b) \o c = a \o (b \o c)
    BY ConcatAssociative
  <2>2. \A a \in Seq(Byte) : a \o <<>> = a
    BY ConcatEmptySeq
  <2> HIDE DEF p, w
  <2> QED  BY <1>1, <2>1, <2>2
<1> HIDE DEF p, w
<1>5. ASSUME ~eof PROVE S \o w = Stream
  BY <1>3, <1>4, <1>5 DEF w
<1>6. ASSUME eof
      PROVE  Stream' = <<>> /\ S \o wire = Stream /\ (wire = <<>> => S \o w = Stream)
  <2>1. eof = TRUE
    BY <1>6
  <2>2. Fed(local.dec, data) \in Decoders /\ x = Decode(Fed(local.dec, data), eof)
    BY <1>1, FedIs
  <2>3. x \in Decoders /\ Pass(x, TRUE) = x
    BY <2>1, <2>2, DecodeSettles
  <2>4. x.pending = <<>>
    BY <2>3, SettledAtEnd
  <2>5. data = <<>> /\ w = <<>>
    BY <1>6 DEF w
  <2>6. <<>> \o <<>> = <<>>
    BY EmptySeq, ConcatEmptySeq
  <2>7. S \o wire = Stream
    BY <1>3, <1>4, <2>5
  <2> QED  BY <1>3, <2>4, <2>5, <2>6, <2>7
<1> HIDE DEF x, S
<1>7. ASSUME NEW l \in 0..Len(S), x.pending = From(S, l + 1), S \o w = Stream
      PROVE  l \in 0..Len(Stream) /\ Stream' = From(Stream, l + 1)
  <2>1. Len(S) \in Nat /\ Len(w) \in Nat /\ Len(S \o w) = Len(S) + Len(w)
    BY <1>1, <1>2, Behind
  <2>2. l + 1 \in 1..(Len(S) + 1)
    BY <2>1
  <2>3. From(S \o w, l + 1) = From(S, l + 1) \o w
    BY <1>1, <1>2, <2>2, FromConcat
  <2>4. l \in 0..Len(S \o w)
    BY <2>1
  <2> QED  BY <1>3, <1>7, <2>3, <2>4
<1>8. \E r \in Bytes : S \o r = Stream
  BY <1>1, <1>5, <1>6
<1> QED  BY <1>2, <1>5, <1>6, <1>7, <1>8 DEF S, x, p, w

\* A read while nothing was lost.
LEMMA ReadArrives ==
    ASSUME IInv, NEW data \in Bytes, NEW eof \in BOOLEAN, Decoded(data, eof), wire' \in Bytes,
           UNCHANGED <<named, server, helper, relay, client, up, shown>>, OutcomeInv', LocalInv',
           ~eof => wire = data \o wire' /\ ~Closed,
           eof => data = <<>> /\ wire' = <<>> /\ (Closed \/ (~local.ssh /\ wire = <<>>)),
           Lossless
    PROVE  Arriving'
<1> DEFINE d == local.dec
           S == d.pending \o data
           x == Feed(d, data, eof)
           R == wire'
           T == Stream
<1>1. TypeOK /\ ReadyInv /\ OutcomeInv /\ LocalInv /\ Arriving
  BY DEF IInv, LosslessInv
<1>2. ~Closed
  BY <1>1 DEF Lossless, Arriving, Closed
<1>3. /\ HeardOf(S) /\ Tells(x) /\ Reader(x, eof)
      /\ UNCHANGED <<local.ssh, local.chan, local.waiter, local.lossy, local.stopped>>
      /\ local'.dec.pending = x.pending
      /\ local'.dec.ready = x.ready /\ local'.dec.finished = x.finished
      /\ d \in Decoders /\ T \in Bytes /\ S \in Bytes /\ R \in Bytes
  BY <1>1, DecodedIs, ReadLeaves, StreamIsBytes, SMTT(30) DEF TypeOK, Transports
<1>4. eof => ~local.ssh /\ wire = <<>> /\ R = <<>>
  BY <1>2
<1>5. S \o R = T /\ (eof => Stream' = <<>>)
  BY <1>1, <1>4, ReadLeaves
<1>6. Clear(T) /\ ReadyFirst(T, d)
  BY <1>1 DEF Arriving, OutcomeComes
<1>7. x \in Noticers(d, S, R)
  <2>1. Clear(S \o R) /\ ReadyFirst(S \o R, d) /\ (eof => R = <<>>)
    BY <1>4, <1>5, <1>6
  <2>2. d \in Decoders /\ R \in Bytes
    BY <1>3
  <2> HIDE DEF d, R
  <2> QED  BY <2>1, <2>2, FeedNotices
<1>8. PICK k \in 0..Len(S) : x.pending = From(S, k + 1) /\ NoticedBefore(x, T, k)
  BY <1>5, <1>7 DEF Noticers
<1>9. (d.ready => x.ready) /\ (d.finished => x.finished) /\ Honest(x, T)
  BY <1>5, <1>7 DEF Noticers
<1>10. k \in 0..Len(T) /\ Stream' = From(T, k + 1)
  BY <1>1, <1>5, <1>8, ReadLeaves
<1> HIDE DEF S, x, R, T, d
<1>11. Clear(Stream')
  BY <1>3, <1>6, <1>10, ClearRest
<1>12. \A event \in Events : Says(T, event) => Noticed(x, event) \/ Says(Stream', event)
  BY <1>3, <1>8, <1>10, NoticedOrLeft
<1>13. x.finished => local'.outcome # None /\ helper.pc = "gone"
  BY <1>3 DEF LocalInv, OutcomeInv
<1>14. ReadyComes'
  <2>1. "ready" \in Events
    BY DEF Events
  <2>2. ReadyComes
    BY <1>1 DEF Arriving
  <2>3. Says(T, "ready") => x.finished \/ x.ready \/ Says(Stream', "ready")
    BY <1>12, <2>1 DEF Noticed
  <2> QED  BY <1>3, <1>9, <1>13, <2>2, <2>3 DEF ReadyComes, d, T
<1>15. OutcomeComes'
  <2>1. ASSUME helper.pc = "gone", helper.status # None, local'.outcome = None
        PROVE  Says(Stream', helper.status)
    <3>1. helper.status \in Events /\ helper.status # "ready"
      BY <1>1, <2>1 DEF TypeOK, Helpers, Events
    <3>2. local.outcome = None
      BY <1>1, <1>3, <2>1 DEF LocalInv, HeardOf
    <3>3. Says(T, helper.status)
      BY <1>1, <2>1, <3>2 DEF Arriving, OutcomeComes, T
    <3>4. ~Noticed(x, helper.status)
      BY <1>13, <2>1, <3>1 DEF Noticed
    <3> QED  BY <1>12, <3>1, <3>3, <3>4
  <2>2. ReadyFirst(From(T, k + 1), x)
    BY <1>3, <1>6, <1>8, <1>9, <1>10, ReadyFirstRest
  <2>3. ReadyFirst(Stream', local'.dec)
    BY <1>3, <1>10, <2>2 DEF ReadyFirst
  <2> QED  BY <2>1, <2>3 DEF OutcomeComes
<1>16. ASSUME local'.outcome # None PROVE local'.outcome = helper.status
  <2>1. CASE local.outcome # None
    <3>1. local'.outcome = local.outcome
      BY <1>1, <1>3, <2>1 DEF LocalInv, HeardOf
    <3> QED  BY <1>1, <2>1, <3>1 DEF Arriving
  <2>2. CASE local.outcome = None
    <3>1. PICK i \in DOMAIN x.events : x.events[i] = local'.outcome
      BY <1>3, <1>16, <2>2 DEF Tells
    <3>2. Says(T, local'.outcome)
      BY <1>9, <3>1 DEF Honest
    <3>3. local'.outcome \in {"detached", "failed"}
      BY <1>1, <1>3, <1>16, <2>2 DEF LocalInv, HeardOf, Final
    <3> QED  BY <1>1, <3>2, <3>3 DEF OutcomeInv, T
  <2> QED  BY <2>1, <2>2
<1>17. local'.reader \in {"last", "ended"} => eof
  BY <1>3 DEF Reader
<1> QED  BY <1>1, <1>3, <1>4, <1>5, <1>11, <1>14, <1>15, <1>16, <1>17 DEF Arriving

LEMMA ReaderReadsOn ==
    ASSUME IInv, ReaderReads
    PROVE  IInv'
<1>1. TypeOK /\ PinnedInv /\ ReadyInv /\ OutcomeInv /\ ReapedInv /\ StreamInv /\ LocalInv /\ LosslessInv
  BY DEF IInv
<1>2. PICK data \in Bytes : \E eof \in BOOLEAN :
          /\ Decoded(data, eof) /\ wire' \in Bytes
          /\ ~eof => wire = data \o wire' /\ ~Closed
          /\ eof => data = <<>> /\ wire' = <<>> /\ (Closed \/ (~local.ssh /\ wire = <<>>))
  BY <1>1, ReadIs
<1>3. PICK eof \in BOOLEAN :
          /\ Decoded(data, eof) /\ wire' \in Bytes
          /\ ~eof => wire = data \o wire' /\ ~Closed
          /\ eof => data = <<>> /\ wire' = <<>> /\ (Closed \/ (~local.ssh /\ wire = <<>>))
  BY <1>2
<1> DEFINE S == local.dec.pending \o data
           x == Feed(local.dec, data, eof)
<1>4. /\ local.reader = "read"
      /\ UNCHANGED <<named, server, helper, relay, client, up, shown, spent>>
  BY DEF ReaderReads, remote
<1>5. /\ local' \in Transports /\ HeardOf(S) /\ Reader(x, eof) /\ x.events \in Seq(Events)
      /\ UNCHANGED <<local.ssh, local.chan, local.waiter, local.lossy, local.stopped>>
  BY <1>1, <1>3, DecodedIs
<1>6. /\ S \in Bytes /\ (eof => Stream' = <<>>) /\ (~eof => S \o wire' = Stream)
      /\ \E r \in Bytes : S \o r = Stream
  BY <1>1, <1>3, ReadLeaves
<1>7. ~eof => \E l \in 0..Len(Stream) : Stream' = From(Stream, l + 1)
  <2>1. PICK l \in 0..Len(S) : x.pending = From(S, l + 1)
    <3>1. local.dec \in Decoders
      BY <1>1 DEF TypeOK, Transports
    <3> QED  BY <3>1, FeedHears
  <2> QED  BY <1>1, <1>3, <1>6, <2>1, ReadLeaves
<1> HIDE DEF S, x
<1>8. Stream \in Bytes
  BY <1>1, StreamIsBytes
<1>9. \A event : Says(S, event) => Says(Stream, event)
  BY <1>6, SaysOfFirst
<1>10. \A event : Says(Stream', event) => Says(Stream, event)
  BY <1>6, <1>7, <1>8, SaysOfRest, NothingIsSaid
<1>11. TypeOK'
  BY <1>1, <1>3, <1>4, <1>5 DEF TypeOK
<1>12. PinnedInv' /\ ReapedInv'
  BY <1>1, <1>4 DEF PinnedInv, ReapedInv
<1>13. ReadyInv'
  BY <1>1, <1>4, <1>5, <1>9, <1>10 DEF ReadyInv, HeardOf
<1>14. OutcomeInv'
  <2>1. \A event \in {"detached", "failed"} :
            Says(Stream', event) \/ Says(S, event) => helper.pc = "gone" /\ helper.status = event
    BY <1>1, <1>9, <1>10 DEF OutcomeInv
  <2>2. local'.outcome # local.outcome =>
            local'.outcome \in Final /\ Because(S, local'.outcome, local'.dec.ready)
    BY <1>5 DEF HeardOf
  <2>3. local'.outcome # local.outcome =>
            /\ Says(S, "detached") \/ Says(S, "failed")
            /\ local'.outcome = "detached" => Says(S, "detached")
    BY <2>2 DEF Because
  <2>4. local'.outcome # local.outcome =>
            /\ helper.pc = "gone" /\ helper.status # None
            /\ local'.outcome = "detached" => helper.status = "detached"
    BY <2>1, <2>3, NoneIsNothing
  <2> QED  BY <1>1, <1>4, <2>1, <2>4 DEF OutcomeInv
<1>15. LocalInv'
  <2>1. /\ local'.reader \in {"offer", "last"} => local'.hand # None
        /\ local'.reader = "read" => local'.hand = None
    BY <1>5, NoneIsNothing DEF Reader
  <2>2. local'.dec.finished <=> local'.outcome # None
    BY <1>1, <1>5, NoneIsNothing DEF LocalInv, HeardOf, Final
  <2>3. local.waiter # "done"
    BY <1>1, <1>4 DEF LocalInv
  <2> QED  BY <1>1, <1>5, <2>1, <2>2, <2>3 DEF LocalInv
<1>16. StreamInv'
  <2>1. ASSUME up, ~eof PROVE Whole(Stream') /\ Paired(Stream')
    <3>1. PICK l \in 0..Len(Stream) : Stream' = From(Stream, l + 1)
      BY <1>7, <2>1
    <3> QED  BY <1>1, <1>8, <2>1, <3>1, WholeRest, PairedRest DEF StreamInv
  <2> QED  BY <1>4, <1>6, <2>1, NothingIsSaid DEF StreamInv
<1>17. LosslessInv'
  <2>1. ASSUME Lossless PROVE Arriving'
    BY <1>3, <1>4, <1>14, <1>15, <2>1, ReadArrives
  <2> QED  BY <1>5, <2>1 DEF LosslessInv, Lossless
<1> QED  BY <1>11, <1>12, <1>13, <1>14, <1>15, <1>16, <1>17 DEF IInv

-----------------------------------------------------------------------------
(* The rest of the transport, and the loop.                                *)

HandsOver == ReaderOffers \/ WaiterReaps \/ WaiterTimesOut \/ WaiterEnds \/ LoopTakes \/ LoopStops

LEMMA HandOverIs ==
    ASSUME IInv, HandsOver
    PROVE  /\ UNCHANGED <<named, server, helper, relay, client, wire, up, spent, shown>>
           /\ UNCHANGED <<local.dec, local.outcome, local.ssh>>
           /\ local' \in Transports /\ LocalInv'
           /\ Lossless' => Lossless
           /\ Lossless /\ Lossless' /\ Arriving =>
                /\ local'.waiter # "forced"
                /\ local'.reader \in {"last", "ended"} => local.reader \in {"last", "ended"}
<1>1. /\ local \in Transports /\ LocalInv /\ MaxQueue \in Nat
      /\ local.chan \in Seq(Seq(Events)) /\ Len(local.chan) \in Nat
  BY AttachmentConstants DEF IInv, TypeOK, Transports
<1>2. UNCHANGED <<named, server, helper, relay, client, wire, up, spent, shown>>
  BY DEF HandsOver, ReaderOffers, WaiterReaps, WaiterTimesOut, WaiterEnds, LoopTakes, LoopStops, remote
<1>3. CASE ReaderOffers
  <2>1. local.reader \in {"offer", "last"} /\ local.hand \in Seq(Events) /\ local.waiter # "done"
    BY <1>1, <1>3 DEF ReaderOffers, LocalInv, Transports
  <2>2. ReaderGoesOn \in {"ended", "read"} /\ (ReaderGoesOn = "ended" <=> local.reader = "last")
    BY DEF ReaderGoesOn
  <2>3. CASE /\ Len(local.chan) < MaxQueue
             /\ local' = [local EXCEPT !.chan = Append(@, local.hand), !.hand = None, !.reader = ReaderGoesOn]
    <3>1. Append(local.chan, local.hand) \in Seq(Seq(Events))
          /\ Len(Append(local.chan, local.hand)) = Len(local.chan) + 1
      BY <1>1, <2>1, AppendProperties
    <3>2. /\ local' \in Transports
          /\ local'.chan = Append(local.chan, local.hand) /\ local'.hand = None
          /\ local'.reader = ReaderGoesOn
          /\ UNCHANGED <<local.dec, local.outcome, local.ssh, local.waiter, local.lossy, local.stopped>>
      BY <1>1, <2>2, <2>3, <3>1 DEF Transports
    <3>3. LocalInv'
      BY <1>1, <2>1, <2>2, <2>3, <3>1, <3>2 DEF LocalInv
    <3> QED  BY <1>2, <2>1, <2>2, <3>2, <3>3 DEF Lossless, Arriving
  <2>4. CASE Closed /\ local' = [local EXCEPT !.reader = "ended"]
    <3>1. /\ local' \in Transports /\ local'.reader = "ended"
          /\ UNCHANGED <<local.dec, local.outcome, local.ssh, local.waiter, local.lossy, local.stopped>>
          /\ UNCHANGED <<local.chan, local.hand>>
      BY <1>1, <2>4 DEF Transports
    <3>2. LocalInv'
      BY <1>1, <3>1 DEF LocalInv
    <3>3. ~(Lossless /\ Arriving)
      BY <2>4 DEF Lossless, Arriving, Closed
    <3> QED  BY <1>2, <3>1, <3>2, <3>3 DEF Lossless
  <2> QED  BY <1>3, <2>3, <2>4 DEF ReaderOffers
<1>4. CASE WaiterReaps \/ WaiterTimesOut \/ WaiterEnds
  <2>1. \/ local' = [local EXCEPT !.waiter = "drain"]
        \/ local' = [local EXCEPT !.waiter = "forced", !.lossy = TRUE]
        \/ local' = [local EXCEPT !.waiter = "done"] /\ local.reader = "ended"
    BY <1>4 DEF WaiterReaps, WaiterTimesOut, WaiterEnds
  <2>2. /\ local' \in Transports
        /\ UNCHANGED <<local.dec, local.outcome, local.ssh, local.reader, local.stopped>>
        /\ UNCHANGED <<local.chan, local.hand>>
        /\ local'.waiter = "done" => local.reader = "ended"
        /\ ~local'.lossy => ~local.lossy /\ local'.waiter # "forced"
    <3>1. CASE local' = [local EXCEPT !.waiter = "drain"]
      BY <1>1, <3>1 DEF Transports
    <3>2. CASE local' = [local EXCEPT !.waiter = "forced", !.lossy = TRUE]
      BY <1>1, <3>2 DEF Transports
    <3>3. CASE local' = [local EXCEPT !.waiter = "done"] /\ local.reader = "ended"
      BY <1>1, <3>3 DEF Transports
    <3> QED  BY <2>1, <3>1, <3>2, <3>3
  <2>3. LocalInv'
    BY <1>1, <2>2 DEF LocalInv
  <2> QED  BY <1>2, <2>2, <2>3 DEF Lossless
<1>5. CASE LoopTakes
  <2>1. Tail(local.chan) \in Seq(Seq(Events)) /\ Len(Tail(local.chan)) = Len(local.chan) - 1
    BY <1>1, <1>5, HeadTailProperties DEF LoopTakes
  <2>2. /\ local' \in Transports /\ local'.chan = Tail(local.chan)
        /\ UNCHANGED <<local.dec, local.outcome, local.ssh, local.reader, local.stopped>>
        /\ UNCHANGED <<local.hand, local.waiter, local.lossy>>
    BY <1>1, <1>5, <2>1 DEF LoopTakes, Transports
  <2>3. Len(local'.chan) <= MaxQueue
    BY <1>1, <2>1, <2>2 DEF LocalInv
  <2>4. LocalInv'
    BY <1>1, <2>2, <2>3 DEF LocalInv
  <2> QED  BY <1>2, <2>2, <2>4 DEF Lossless, Arriving
<1>6. CASE LoopStops
  <2>1. /\ local' \in Transports /\ local'.stopped
        /\ UNCHANGED <<local.dec, local.outcome, local.ssh, local.reader, local.chan>>
        /\ UNCHANGED <<local.hand, local.waiter, local.lossy>>
    BY <1>1, <1>6 DEF LoopStops, Transports
  <2>2. LocalInv'
    BY <1>1, <2>1 DEF LocalInv
  <2> QED  BY <1>2, <2>1, <2>2 DEF Lossless
<1> QED  BY <1>3, <1>4, <1>5, <1>6 DEF HandsOver

LEMMA HandOverSteps ==
    ASSUME IInv, HandsOver
    PROVE  IInv'
<1>1. TypeOK /\ PinnedInv /\ ReadyInv /\ OutcomeInv /\ ReapedInv /\ StreamInv /\ LocalInv /\ LosslessInv
  BY DEF IInv
<1>2. /\ UNCHANGED <<named, server, helper, relay, client, wire, up, spent, shown>>
      /\ UNCHANGED <<local.dec, local.outcome, local.ssh>>
      /\ local' \in Transports /\ LocalInv'
      /\ Lossless' => Lossless
      /\ Lossless /\ Lossless' /\ Arriving =>
           /\ local'.waiter # "forced"
           /\ local'.reader \in {"last", "ended"} => local.reader \in {"last", "ended"}
  BY HandOverIs
<1>3. Stream' = Stream
  BY <1>2 DEF Stream
<1>4. TypeOK'
  BY <1>1, <1>2 DEF TypeOK
<1>5. PinnedInv' /\ ReadyInv' /\ OutcomeInv' /\ ReapedInv' /\ StreamInv'
  BY <1>1, <1>2, <1>3 DEF PinnedInv, ReadyInv, OutcomeInv, ReapedInv, StreamInv
<1>6. ASSUME Lossless' PROVE Arriving'
  <2>1. Lossless /\ Arriving
    BY <1>1, <1>2, <1>6 DEF LosslessInv
  <2>2. /\ local'.waiter # "forced"
        /\ local'.reader \in {"last", "ended"} => local.reader \in {"last", "ended"}
    BY <1>2, <1>6, <2>1
  <2>3. ReadyComes' /\ OutcomeComes'
    BY <1>2, <1>3, <2>1 DEF Arriving, ReadyComes, OutcomeComes, ReadyFirst
  <2> QED  BY <1>2, <1>3, <2>1, <2>2, <2>3 DEF Arriving
<1>7. LosslessInv'
  BY <1>6 DEF LosslessInv
<1> QED  BY <1>2, <1>4, <1>5, <1>7 DEF IInv

-----------------------------------------------------------------------------
(* The theorems.                                                           *)

LEMMA StepsPreserve ==
    ASSUME IInv, [Next]_vars
    PROVE  IInv'
<1>1. CASE up /\ (HelperStep \/ RelayStep \/ ZellijStep)
  BY <1>1, HelperSteps, RelaySteps, ZellijSteps
<1>2. CASE SSHEnds \/ LinkCuts
  BY <1>2, LinkSteps
<1>3. CASE TransportStep \/ LoopStep
  BY <1>3, ReaderReadsOn, HandOverSteps DEF TransportStep, LoopStep, HandsOver
<1>4. CASE UNCHANGED vars
  <2>1. /\ UNCHANGED <<named, server, helper, relay, client, wire, up, local, spent, shown>>
        /\ Stream' = Stream
    BY <1>4 DEF vars, Stream
  <2>2. TypeOK' /\ PinnedInv' /\ ReadyInv' /\ OutcomeInv' /\ ReapedInv' /\ StreamInv' /\ LocalInv'
    BY <2>1 DEF IInv, TypeOK, PinnedInv, ReadyInv, OutcomeInv, ReapedInv, StreamInv, LocalInv
  <2>3. LosslessInv'
    BY <2>1 DEF IInv, LosslessInv, Lossless, Arriving, ReadyComes, OutcomeComes
  <2> QED  BY <2>2, <2>3 DEF IInv
<1> QED  BY <1>1, <1>2, <1>3, <1>4 DEF Next

\* Every state of an attachment keeps the invariant: nobody but the helper
\* and the relay of session-attach tells of the attempt, and unless output is
\* lost, what they tell reaches the transport, readiness first.
THEOREM AttachmentInvariant == Spec => []IInv
<1>1. Init => IInv
  BY InitHolds
<1>2. IInv /\ [Next]_vars => IInv'
  BY StepsPreserve
<1> QED  BY <1>1, <1>2, PTL DEF Spec

\* What the loop is told is true, for every output and however the stream is
\* split: input opens only after the pinned incarnation rendered, and the
\* terminal is given up only after it told its client to end.
THEOREM EvidenceIsTrueHolds == Spec => []EvidenceIsTrue
<1>1. IInv => EvidenceIsTrue
  <2> SUFFICES ASSUME IInv PROVE EvidenceIsTrue
    OBVIOUS
  <2>1. local.dec.ready => shown.rendered = "mine"
    BY DEF IInv, ReadyInv
  <2>2. ASSUME local.outcome = "detached" PROVE shown.directed /\ client.state = "done"
    <3>1. helper.status = "detached"
      BY <2>2 DEF IInv, OutcomeInv
    <3> QED  BY <3>1 DEF IInv, OutcomeInv
  <2> QED  BY <2>1, <2>2 DEF EvidenceIsTrue
<1> QED  BY <1>1, AttachmentInvariant, PTL

\* The waiter of session_transport.go reports the end of an attempt only after
\* its output was drained, so the outcome that session-attach wrote last has
\* been decoded, unless output was lost or the transport stopped.
THEOREM OutcomeArrivesHolds == Spec => []OutcomeArrives
<1>1. IInv => OutcomeArrives
  <2> SUFFICES ASSUME IInv, local.waiter = "done", ~local.lossy, ~local.stopped
               PROVE  local.outcome = helper.status
    BY DEF OutcomeArrives
  <2>1. Arriving /\ local.reader = "ended"
    BY DEF IInv, LosslessInv, Lossless, LocalInv
  <2>2. Stream = <<>> /\ helper.pc = "gone"
    BY <2>1 DEF Arriving
  <2>3. CASE local.outcome # None
    BY <2>1, <2>3 DEF Arriving
  <2>4. CASE local.outcome = None
    <3>1. ~Says(Stream, helper.status)
      BY <2>2, NothingIsSaid
    <3> QED  BY <2>1, <2>2, <2>4, <3>1 DEF Arriving, OutcomeComes
  <2> QED  BY <2>3, <2>4
<1> QED  BY <1>1, AttachmentInvariant, PTL

\* The transport as a child of the loop.
Rests == UNCHANGED View

Delivers(packet) ==
    /\ packet \in Loop!Packets(View) /\ View' = Loop!Decoded(View, packet)
    /\ View.running /\ Len(View.queue) < MaxQueue + 1

LEMMA ViewIs ==
    ASSUME TypeOK, LocalInv
    PROVE  /\ View \in Loop!Children /\ View # None
           /\ local.chan \in Seq(Seq(Events)) /\ View.queue \in Seq(Seq(Events))
<1>1. local \in Transports
  BY DEF TypeOK
<1>2. local.chan \in Seq(Seq(Events)) /\ (local.hand # None => local.hand \in Seq(Events))
  BY <1>1 DEF Transports
<1>3. View.queue = IF local.hand = None THEN local.chan ELSE Append(local.chan, local.hand)
  BY DEF View
<1>4. View.queue \in Seq(Seq(Events))
  BY <1>2, <1>3, AppendProperties
<1>5. 1 \in Loop!Nonces
  BY DEF Loop!Nonces
<1>6. View \in Loop!Children
  BY <1>1, <1>4, <1>5 DEF View, Loop!Children, Transports, Decoders, Events
<1> QED  BY <1>2, <1>4, <1>6, ChildIsSomething

LEMMA RestOfNextRests ==
    ASSUME up /\ (HelperStep \/ RelayStep \/ ZellijStep)
    PROVE  UNCHANGED local
<1> USE DEF Elsewhere, Outside, Around, Apart
<1>1. CASE HelperStep
  BY <1>1 DEF HelperStep, Checks, Links, Verifies, GivesUp, StartsClient, HangsUp, SeesExit, SeesReady,
              Aborts, Reaps, MarksOutcome, HelperDies
<1>2. CASE RelayStep
  BY <1>2 DEF RelayStep, Accepts, Dials, ClosesServer, RelayReads, RelayMarks, RelayForwards, RelayCloses
<1>3. CASE ZellijStep
  BY <1>3 DEF ZellijStep, ClientReads, ClientEnds, Renamed, ServerEnds
<1> QED  BY <1>1, <1>2, <1>3

\* What the loop's model of a child remembers of a packet.
KnowsReady(child, packet) == child.ready \/ \E i \in DOMAIN packet : packet[i] = "ready"

KnowsOutcome(child, packet) ==
    IF packet # <<>> /\ packet[Len(packet)] # "ready" THEN packet[Len(packet)] ELSE child.outcome

LEMMA ChildExcept ==
    ASSUME NEW a, NEW b, NEW c, NEW d, NEW e, NEW f, NEW q, NEW r, NEW o, NEW y, NEW z,
           y = [attempt |-> a, running |-> b, killed |-> c, ready |-> d, outcome |-> e, queue |-> f],
           z = [y EXCEPT !.queue = q, !.ready = r, !.outcome = o]
    PROVE  z = [attempt |-> a, running |-> b, killed |-> c, ready |-> r, outcome |-> o, queue |-> q]
OBVIOUS

LEMMA DecodedChild ==
    ASSUME NEW child \in Loop!Children, NEW packet
    PROVE  Loop!Decoded(child, packet) =
               [attempt |-> child.attempt, running |-> child.running, killed |-> child.killed,
                ready |-> KnowsReady(child, packet), outcome |-> KnowsOutcome(child, packet),
                queue |-> Append(child.queue, packet)]
<1> DEFINE r == KnowsReady(child, packet)
           o == KnowsOutcome(child, packet)
           q == Append(child.queue, packet)
           a == child.attempt
           b == child.running
           c == child.killed
           d == child.ready
           e == child.outcome
           f == child.queue
           z == Loop!Decoded(child, packet)
<1>1. z = [child EXCEPT !.queue = q, !.ready = r, !.outcome = o]
  BY DEF Loop!Decoded, KnowsReady, KnowsOutcome
<1>2. child = [attempt |-> a, running |-> b, killed |-> c, ready |-> d, outcome |-> e, queue |-> f]
  BY DEF Loop!Children
<1> HIDE DEF a, b, c, d, e, f, q, r, o, z
<1>3. z = [attempt |-> a, running |-> b, killed |-> c, ready |-> r, outcome |-> o, queue |-> q]
  BY <1>1, <1>2, ChildExcept
<1> QED  BY <1>3 DEF a, b, c, q, r, o, z

LEMMA ViewOfHearing ==
    ASSUME TypeOK, LocalInv, ReaderReads
    PROVE  Rests \/ \E packet \in Seq(Events) : Delivers(packet)
<1>1. PICK data \in Bytes : \E eof \in BOOLEAN : Decoded(data, eof)
  BY ReadIs
<1>2. PICK eof \in BOOLEAN : Decoded(data, eof)
  BY <1>1
<1> DEFINE d == local.dec
           S == d.pending \o data
           x == Feed(d, data, eof)
           p == x.events
<1>3. local \in Transports /\ d \in Decoders
  BY DEF TypeOK, Transports
<1>4. Heard(d, x, S) /\ x \in Decoders
  BY <1>3, FeedHears
<1>5. /\ Reader(x, eof) /\ p \in Seq(Events)
      /\ UNCHANGED <<local.ssh, local.chan, local.waiter, local.lossy, local.stopped>>
      /\ local'.dec.ready = x.ready /\ local'.dec.finished = x.finished
  BY <1>2, DecodedIs
<1>6. local.hand = None /\ local.waiter # "done" /\ (d.finished <=> local.outcome # None)
  BY DEF ReaderReads, LocalInv
<1> HIDE DEF d, S, x
<1>7. /\ View.ready = d.ready /\ View.outcome = local.outcome /\ View.queue = local.chan
      /\ View.running /\ View.killed = local.stopped /\ View.attempt = 1
      /\ View \in Loop!Children
      /\ View = [attempt |-> 1, running |-> TRUE, killed |-> local.stopped, ready |-> d.ready,
                 outcome |-> local.outcome, queue |-> local.chan]
  BY <1>6, ViewIs DEF View, d
<1>8. Len(View.queue) < MaxQueue + 1
  BY <1>3, <1>7, AttachmentConstants DEF LocalInv, Transports
<1>9. View' = [attempt |-> 1, running |-> TRUE, killed |-> local.stopped, ready |-> x.ready,
               outcome |-> LastOutcome(p, local.outcome),
               queue |-> IF Quiet(x) THEN local.chan ELSE Append(local.chan, p)]
  BY <1>5, <1>6, NoneIsNothing DEF View, Reader
<1>10. /\ <<>> \in Loop!Packets(View)
       /\ View.outcome = None /\ View.ready => <<"detached">> \in Loop!Packets(View)
       /\ View.outcome = None => <<"failed">> \in Loop!Packets(View)
       /\ View.outcome = None /\ ~View.ready =>
             {<<"ready">>, <<"ready", "detached">>, <<"ready", "failed">>} \subseteq Loop!Packets(View)
  BY DEF Loop!Packets
<1>11. Loop!Decoded(View, p) =
           [attempt |-> 1, running |-> TRUE, killed |-> local.stopped, ready |-> KnowsReady(View, p),
            outcome |-> KnowsOutcome(View, p), queue |-> Append(local.chan, p)]
  <2>1. View.running = TRUE
    BY <1>7
  <2>2. Loop!Decoded(View, p) =
            [attempt |-> View.attempt, running |-> View.running, killed |-> View.killed,
             ready |-> KnowsReady(View, p), outcome |-> KnowsOutcome(View, p),
             queue |-> Append(View.queue, p)]
    BY <1>7, DecodedChild
  <2> QED  BY <1>7, <2>1, <2>2
<1>16. d.ready \in BOOLEAN /\ x.ready \in BOOLEAN
  BY <1>3, <1>4 DEF Decoders
<1>12. CASE HeardNothing(d, x)
  <2>1. p = <<>> /\ x.ready = d.ready
    BY <1>12 DEF HeardNothing
  <2>2. LastOutcome(p, local.outcome) = local.outcome
    BY <2>1, LastOutcomeIs
  <2>3. CASE Quiet(x)
    BY <1>7, <1>9, <2>1, <2>2, <2>3 DEF Rests
  <2>4. CASE ~Quiet(x)
    <3>1. KnowsReady(View, p) <=> d.ready
      BY <1>7, <2>1 DEF KnowsReady
    <3>3. KnowsReady(View, p) = x.ready
      BY <1>16, <2>1, <3>1 DEF KnowsReady
    <3>4. KnowsOutcome(View, p) = local.outcome
      BY <1>7, <2>1 DEF KnowsOutcome
    <3>2. View' = Loop!Decoded(View, p)
      BY <1>9, <1>11, <2>2, <2>4, <3>3, <3>4
    <3> QED  BY <1>5, <1>7, <1>8, <1>10, <2>1, <3>2 DEF Delivers
  <2> QED  BY <2>3, <2>4
<1>13. CASE HeardReady(d, x, S)
  <2>1. p = <<"ready">> /\ x.ready /\ ~d.ready /\ ~d.finished
    BY <1>13 DEF HeardReady
  <2>2. LastOutcome(p, local.outcome) = local.outcome /\ ~Quiet(x)
    BY <2>1, LastOutcomeIs DEF Quiet
  <2>3. p[1] = "ready" /\ Len(p) = 1 /\ DOMAIN p = {1}
    BY <2>1
  <2>4. KnowsReady(View, p) = x.ready
    <3>1. KnowsReady(View, p) <=> x.ready
      BY <2>1, <2>3 DEF KnowsReady
    <3> QED  BY <1>16, <3>1 DEF KnowsReady
  <2>7. KnowsOutcome(View, p) = local.outcome
    BY <1>7, <2>3 DEF KnowsOutcome
  <2>5. View' = Loop!Decoded(View, p)
    BY <1>9, <1>11, <2>1, <2>2, <2>3, <2>4, <2>7
  <2> QED  BY <1>5, <1>6, <1>7, <1>8, <1>10, <2>1, <2>5 DEF Delivers
<1>14. ASSUME NEW event \in Final, HeardEnd(d, x, S, event) PROVE \E packet \in Seq(Events) : Delivers(packet)
  <2>1. p = <<event>> /\ x.ready = d.ready /\ ~d.finished /\ (event = "detached" => d.ready)
    BY <1>14 DEF HeardEnd, Because
  <2>2. LastOutcome(<<event>>, local.outcome) = event
    BY LastOutcomeIs
  <2>3. p[1] = event /\ Len(p) = 1 /\ DOMAIN p = {1} /\ event # "ready" /\ p # <<>> /\ ~Quiet(x)
    BY <2>1 DEF Final, Quiet
  <2>4. KnowsReady(View, p) = d.ready
    <3>1. KnowsReady(View, p) <=> d.ready
      BY <1>7, <2>3 DEF KnowsReady
    <3> QED  BY <1>16, <3>1 DEF KnowsReady
  <2>7. KnowsOutcome(View, p) = event
    BY <1>7, <2>3 DEF KnowsOutcome
  <2>5. View' = Loop!Decoded(View, p)
    BY <1>9, <1>11, <2>1, <2>2, <2>3, <2>4, <2>7
  <2>6. p \in Loop!Packets(View)
    BY <1>6, <1>7, <1>10, <2>1 DEF Final
  <2> QED  BY <1>5, <1>7, <1>8, <2>5, <2>6 DEF Delivers
<1>15. ASSUME NEW event \in Final, HeardBoth(d, x, S, event) PROVE \E packet \in Seq(Events) : Delivers(packet)
  <2>1. p = <<"ready", event>> /\ x.ready /\ ~d.ready /\ ~d.finished
    BY <1>15 DEF HeardBoth
  <2>2. LastOutcome(<<"ready", event>>, local.outcome) = event
    BY LastOutcomeIs
  <2>3. p[1] = "ready" /\ p[2] = event /\ Len(p) = 2 /\ DOMAIN p = {1, 2} /\ event # "ready" /\ p # <<>>
        /\ ~Quiet(x)
    BY <2>1 DEF Final, Quiet
  <2>4. KnowsReady(View, p) = x.ready
    <3>1. KnowsReady(View, p) <=> x.ready
      BY <2>1, <2>3 DEF KnowsReady
    <3> QED  BY <1>16, <3>1 DEF KnowsReady
  <2>7. KnowsOutcome(View, p) = event
    BY <1>7, <2>3 DEF KnowsOutcome
  <2>5. View' = Loop!Decoded(View, p)
    BY <1>9, <1>11, <2>1, <2>2, <2>3, <2>4, <2>7
  <2>6. p \in Loop!Packets(View)
    BY <1>6, <1>7, <1>10, <2>1 DEF Final
  <2> QED  BY <1>5, <1>7, <1>8, <2>5, <2>6 DEF Delivers
<1> QED  BY <1>4, <1>12, <1>13, <1>14, <1>15 DEF Heard

LEMMA ChildField ==
    ASSUME NEW a, NEW b, NEW c, NEW d, NEW e, NEW f, NEW v, NEW y, NEW z,
           y = [attempt |-> a, running |-> b, killed |-> c, ready |-> d, outcome |-> e, queue |-> f]
    PROVE  /\ z = [y EXCEPT !.running = v] =>
                 z = [attempt |-> a, running |-> v, killed |-> c, ready |-> d, outcome |-> e, queue |-> f]
           /\ z = [y EXCEPT !.killed = v] =>
                 z = [attempt |-> a, running |-> b, killed |-> v, ready |-> d, outcome |-> e, queue |-> f]
           /\ z = [y EXCEPT !.queue = v] =>
                 z = [attempt |-> a, running |-> b, killed |-> c, ready |-> d, outcome |-> e, queue |-> v]
OBVIOUS

LEMMA ChildOfLoop ==
    ASSUME NEW y, NEW v, NEW w, NEW z, w = [y EXCEPT !.running = v],
           z = [[child |-> y] EXCEPT !.child.running = v]
    PROVE  z = [child |-> w]
OBVIOUS

LEMMA ViewExcept ==
    ASSUME NEW v
    PROVE  /\ [View EXCEPT !.running = v] =
                  [attempt |-> 1, running |-> v, killed |-> local.stopped, ready |-> local.dec.ready,
                   outcome |-> local.outcome, queue |-> View.queue]
           /\ [View EXCEPT !.killed = v] =
                  [attempt |-> 1, running |-> local.waiter # "done", killed |-> v,
                   ready |-> local.dec.ready, outcome |-> local.outcome, queue |-> View.queue]
           /\ [View EXCEPT !.queue = v] =
                  [attempt |-> 1, running |-> local.waiter # "done", killed |-> local.stopped,
                   ready |-> local.dec.ready, outcome |-> local.outcome, queue |-> v]
<1> DEFINE b == local.waiter # "done"
           c == local.stopped
           d == local.dec.ready
           e == local.outcome
           f == View.queue
           z1 == [View EXCEPT !.running = v]
           z2 == [View EXCEPT !.killed = v]
           z3 == [View EXCEPT !.queue = v]
<1>1. View = [attempt |-> 1, running |-> b, killed |-> c, ready |-> d, outcome |-> e, queue |-> f]
  BY DEF View
<1>2. z1 = [View EXCEPT !.running = v] /\ z2 = [View EXCEPT !.killed = v] /\ z3 = [View EXCEPT !.queue = v]
  OBVIOUS
<1> HIDE DEF b, c, d, e, f, z1, z2, z3
<1>3. z1 = [attempt |-> 1, running |-> v, killed |-> c, ready |-> d, outcome |-> e, queue |-> f]
  BY <1>1, <1>2, ChildField
<1>4. z2 = [attempt |-> 1, running |-> b, killed |-> v, ready |-> d, outcome |-> e, queue |-> f]
  BY <1>1, <1>2, ChildField
<1>5. z3 = [attempt |-> 1, running |-> b, killed |-> c, ready |-> d, outcome |-> e, queue |-> v]
  BY <1>1, <1>2, ChildField
<1> QED  BY <1>3, <1>4, <1>5 DEF b, c, d, e, f, z1, z2, z3

LEMMA ViewOfHandingOver ==
    ASSUME TypeOK, LocalInv, HandsOver
    PROVE  \/ Rests
           \/ View.running /\ View' = [View EXCEPT !.running = FALSE]
           \/ View.queue # <<>> /\ View' = [View EXCEPT !.queue = Tail(@)]
           \/ View' = [View EXCEPT !.killed = TRUE]
<1> DEFINE q == View.queue
<1>1. local \in Transports /\ local.chan \in Seq(Seq(Events))
  BY DEF TypeOK, Transports
<1>2. /\ View = [attempt |-> 1, running |-> local.waiter # "done", killed |-> local.stopped,
                 ready |-> local.dec.ready, outcome |-> local.outcome, queue |-> q]
      /\ q = IF local.hand = None THEN local.chan ELSE Append(local.chan, local.hand)
      /\ View.running <=> local.waiter # "done"
  BY DEF View
<1>3. View' = [attempt |-> 1, running |-> local'.waiter # "done", killed |-> local'.stopped,
               ready |-> local'.dec.ready, outcome |-> local'.outcome,
               queue |-> IF local'.hand = None THEN local'.chan ELSE Append(local'.chan, local'.hand)]
  BY DEF View
<1> HIDE DEF q
<1>4. CASE ReaderOffers
  <2>1. local.hand # None
    BY <1>4 DEF ReaderOffers, LocalInv
  <2>2. CASE local' = [local EXCEPT !.chan = Append(@, local.hand), !.hand = None, !.reader = ReaderGoesOn]
    <3>1. /\ local'.chan = Append(local.chan, local.hand) /\ local'.hand = None
          /\ UNCHANGED <<local.dec, local.outcome, local.waiter, local.stopped>>
      BY <1>1, <2>2 DEF Transports
    <3> QED  BY <1>2, <1>3, <2>1, <3>1 DEF Rests
  <2>3. CASE local' = [local EXCEPT !.reader = "ended"]
    <3>1. UNCHANGED <<local.dec, local.outcome, local.waiter, local.stopped, local.chan, local.hand>>
      BY <1>1, <2>3 DEF Transports
    <3> QED  BY <1>2, <1>3, <3>1 DEF Rests
  <2> QED  BY <1>4, <2>2, <2>3 DEF ReaderOffers
<1>5. CASE WaiterReaps \/ WaiterTimesOut
  <2>1. local.waiter # "done" /\ local'.waiter # "done"
        /\ UNCHANGED <<local.dec, local.outcome, local.stopped, local.chan, local.hand>>
    BY <1>1, <1>5 DEF WaiterReaps, WaiterTimesOut, Transports
  <2>2. (local.waiter # "done") = (local'.waiter # "done")
    BY <2>1
  <2> QED  BY <1>2, <1>3, <2>1, <2>2 DEF Rests
<1>6. CASE WaiterEnds
  <2>1. local.waiter # "done" /\ local'.waiter = "done"
        /\ UNCHANGED <<local.dec, local.outcome, local.stopped, local.chan, local.hand>>
    BY <1>1, <1>6 DEF WaiterEnds, Transports
  <2>2. (local'.waiter # "done") = FALSE /\ View.running
    BY <1>2, <2>1
  <2>3. [View EXCEPT !.running = FALSE] =
            [attempt |-> 1, running |-> FALSE, killed |-> local.stopped, ready |-> local.dec.ready,
             outcome |-> local.outcome, queue |-> q]
    BY ViewExcept DEF q
  <2>4. View' = [View EXCEPT !.running = FALSE]
    BY <1>2, <1>3, <2>1, <2>2, <2>3, ZenonT(30)
  <2> QED  BY <2>2, <2>4
<1>7. CASE LoopTakes
  <2>1. local.chan # <<>> /\ local'.chan = Tail(local.chan)
        /\ UNCHANGED <<local.dec, local.outcome, local.stopped, local.waiter, local.hand>>
    BY <1>1, <1>7 DEF LoopTakes, Transports
  <2>2. q # <<>> /\ Tail(q) = IF local.hand = None THEN Tail(local.chan)
                             ELSE Append(Tail(local.chan), local.hand)
    <3>1. ASSUME local.hand # None
          PROVE  /\ Append(local.chan, local.hand) # <<>>
                 /\ Tail(Append(local.chan, local.hand)) = Append(Tail(local.chan), local.hand)
      <4>1. local.hand \in Seq(Events)
        BY <1>1, <3>1 DEF Transports
      <4>2. Append(local.chan, local.hand) # <<>>
        BY <1>1, <4>1, AppendProperties
      <4>3. Tail(Append(local.chan, local.hand)) =
                IF local.chan = <<>> THEN <<>> ELSE Append(Tail(local.chan), local.hand)
        BY <1>1, <4>1, HeadTailAppend
      <4> QED  BY <2>1, <4>2, <4>3
    <3> QED  BY <1>2, <2>1, <3>1
  <2>3. View' = [View EXCEPT !.queue = Tail(@)]
    <3>1. View' = [View EXCEPT !.queue = Tail(q)]
      <4>1. [View EXCEPT !.queue = Tail(q)] =
                [attempt |-> 1, running |-> local.waiter # "done", killed |-> local.stopped,
                 ready |-> local.dec.ready, outcome |-> local.outcome, queue |-> Tail(q)]
        BY ViewExcept
      <4> QED  BY <1>2, <1>3, <2>1, <2>2, <4>1
    <3> QED  BY <3>1 DEF q
  <2> QED  BY <2>2, <2>3 DEF q
<1>8. CASE LoopStops
  <2>1. local'.stopped = TRUE
        /\ UNCHANGED <<local.dec, local.outcome, local.waiter, local.chan, local.hand>>
    BY <1>1, <1>8 DEF LoopStops, Transports
  <2>2. [View EXCEPT !.killed = TRUE] =
            [attempt |-> 1, running |-> local.waiter # "done", killed |-> TRUE,
             ready |-> local.dec.ready, outcome |-> local.outcome, queue |-> q]
    BY ViewExcept DEF q
  <2>3. View' = [View EXCEPT !.killed = TRUE]
    BY <1>2, <1>3, <2>1, <2>2
  <2> QED  BY <2>3
<1> QED  BY <1>4, <1>5, <1>6, <1>7, <1>8 DEF HandsOver

\* The packets of the transport of session_transport.go are what the event loop
\* of session_supervisor.go expects of a child: readiness once, one final
\* event, which is good only after readiness, and nothing behind it.
THEOREM ChildBehavesHolds == Spec => ChildBehaves
<1> DEFINE Step ==
        View' # View =>
            \/ [child |-> View'] \in Loop!ChildSteps([child |-> View])
            \/ View.queue # <<>> /\ View' = [View EXCEPT !.queue = Tail(@)]
            \/ View' = [View EXCEPT !.killed = TRUE]
<1>1. IInv /\ [Next]_vars => [Step]_vars
  <2> SUFFICES ASSUME IInv, Next, View' # View
               PROVE  \/ [child |-> View'] \in Loop!ChildSteps([child |-> View])
                      \/ View.queue # <<>> /\ View' = [View EXCEPT !.queue = Tail(@)]
                      \/ View' = [View EXCEPT !.killed = TRUE]
    OBVIOUS
  <2>1. TypeOK /\ LocalInv /\ local \in Transports
    BY DEF IInv, TypeOK
  <2>2. ~Rests
    BY DEF Rests
  <2>3. View # None
    BY <2>1, ViewIs
  <2>4. CASE up /\ (HelperStep \/ RelayStep \/ ZellijStep)
    <3>1. UNCHANGED local
      BY <2>4, RestOfNextRests
    <3>2. UNCHANGED View
      BY <3>1 DEF View
    <3> QED  BY <3>2
  <2>5. CASE SSHEnds \/ LinkCuts
    <3>1. UNCHANGED <<local.dec, local.outcome, local.waiter, local.stopped, local.chan, local.hand>>
      BY <2>1, <2>5 DEF SSHEnds, LinkCuts, Transports
    <3>2. UNCHANGED View
      BY <3>1 DEF View
    <3> QED  BY <3>2
  <2>6. CASE ReaderReads
    <3>1. PICK packet \in Seq(Events) : Delivers(packet)
      BY <2>1, <2>2, <2>6, ViewOfHearing
    <3>2. [child |-> View'] = [[child |-> View] EXCEPT !.child = Loop!Decoded(@, packet)]
      BY <3>1 DEF Delivers
    <3>3. packet \in IF Len(View.queue) < MaxQueue + 1 THEN Loop!Packets(View) ELSE {}
      BY <3>1 DEF Delivers
    <3>4. View.running
      BY <3>1 DEF Delivers
    <3> QED  BY <2>3, <3>2, <3>3, <3>4 DEF Loop!ChildSteps
  <2>7. CASE HandsOver
    <3>1. ASSUME View.running, View' = [View EXCEPT !.running = FALSE]
          PROVE  [child |-> View'] \in Loop!ChildSteps([child |-> View])
      <4>1. [child |-> View'] = [[child |-> View] EXCEPT !.child.running = FALSE]
        BY <3>1, ChildOfLoop
      <4> QED  BY <2>3, <3>1, <4>1 DEF Loop!ChildSteps
    <3> QED  BY <2>1, <2>2, <2>7, <3>1, ViewOfHandingOver
  <2> QED  BY <2>4, <2>5, <2>6, <2>7 DEF Next, TransportStep, LoopStep, HandsOver
<1>2. ChildBehaves <=> [][Step]_vars
  BY DEF ChildBehaves
<1> HIDE DEF Step
<1> QED  BY <1>1, <1>2, AttachmentInvariant, PTL DEF Spec

=============================================================================
