------------------------ MODULE SessionInputGateProofs ------------------------
(***************************************************************************)
(* Proofs about the input gate, for every number of keys and openings and  *)
(* every channel: while an attachment is open, each key typed since then   *)
(* reaches it once and in order, whatever the reads of the kernel cut in   *)
(* two; and, if the reader is not held up for too long, nothing of a paste *)
(* ever becomes typing.                                                    *)
(***************************************************************************)
EXTENDS SessionInputGate, SequenceTheorems, WellFoundedInduction, TLAPS

\* A set of natural numbers has a least element.
LEMMA HasLeast ==
    ASSUME NEW I \in SUBSET Nat, NEW k \in I
    PROVE  \E i \in I : \A j \in I : i <= j
<1> DEFINE R == OpToRel(<, Nat)
<1>1. \E i \in I : \A j \in I : ~(<<j, i>> \in R)
  <2> HIDE DEF R
  <2>1. IsWellFoundedOn(R, Nat)
    BY NatLessThanWellFounded DEF R
  <2> QED  BY <2>1, WFMin
<1>2. \A i, j \in Nat : <<j, i>> \in R <=> j < i
  BY DEF OpToRel
<1> HIDE DEF R
<1>3. PICK i \in I : \A j \in I : ~(<<j, i>> \in R)
  BY <1>1
<1>4. \A j \in I : i <= j
  <2> TAKE j \in I
  <2>1. i \in Nat /\ j \in Nat /\ ~(j < i)
    BY <1>2, <1>3
  <2> QED  BY <2>1
<1> QED  BY <1>4

\* What holds of 0 and is passed on holds of every number.
LEMMA Inductively ==
    ASSUME NEW I, 0 \in I, \A n \in Nat : n \in I => n + 1 \in I
    PROVE  Nat \subseteq I
<1> SUFFICES ASSUME NEW k \in Nat \ I PROVE FALSE
  OBVIOUS
<1> DEFINE J == Nat \ I
<1>1. PICK m \in J : \A j \in J : m <= j
  <2>1. J \in SUBSET Nat /\ k \in J
    OBVIOUS
  <2> HIDE DEF J
  <2> QED  BY <2>1, HasLeast
<1>2. m \in Nat /\ m # 0 /\ m - 1 \in Nat /\ m - 1 + 1 = m
  BY <1>1
<1>3. m - 1 \in I
  <2>1. ~(m <= m - 1)
    BY <1>2
  <2> QED  BY <1>1, <1>2, <2>1
<1> QED  BY <1>1, <1>2, <1>3

-----------------------------------------------------------------------------
(* Types.                                                                  *)

Key == {"e", "0", "1", "t", "x"}

Byte == [key : Key, pasted : BOOLEAN, origin : Int]

Bytes == Seq(Byte)

Inputs == [generation : Nat, data : Bytes, paste : BOOLEAN]

Gates ==
    [generation : Nat, next : Nat, paste : BOOLEAN, pasteGeneration : Nat,
     prefix : Bytes, prefixGeneration : Nat, late : BOOLEAN]

TypeOK ==
    /\ gate \in Gates /\ kernel \in Bytes
    /\ outbox \in Seq(Inputs) /\ channel \in Seq(Inputs)
    /\ keyboard \in [units : Nat, paste : Int]
    /\ typed \in Bytes /\ sent \in Bytes /\ cause \in Bytes

-----------------------------------------------------------------------------
(* Sequences.                                                              *)

\* Concatenation under a name of its own: what follows reasons about it by
\* these lemmas only.
Cat(s, t) == s \o t

LEMMA CatIs ==
    ASSUME NEW S, NEW s \in Seq(S), NEW t \in Seq(S)
    PROVE  /\ Cat(s, t) \in Seq(S) /\ Len(Cat(s, t)) = Len(s) + Len(t)
           /\ \A i \in 1..(Len(s) + Len(t)) :
                 Cat(s, t)[i] = IF i <= Len(s) THEN s[i] ELSE t[i - Len(s)]
BY ConcatProperties DEF Cat

LEMMA CatNone ==
    ASSUME NEW S, NEW s \in Seq(S)
    PROVE  Cat(s, <<>>) = s /\ Cat(<<>>, s) = s
BY ConcatEmptySeq DEF Cat

LEMMA CatNothing == Cat(<<>>, <<>>) = <<>>
<1>1. <<>> \in Seq({})
  OBVIOUS
<1> QED  BY <1>1, CatNone

LEMMA CatAssociates ==
    ASSUME NEW S, NEW s \in Seq(S), NEW t \in Seq(S), NEW u \in Seq(S)
    PROVE  Cat(Cat(s, t), u) = Cat(s, Cat(t, u))
BY ConcatAssociative DEF Cat

LEMMA AppendIsCat ==
    ASSUME NEW S, NEW s \in Seq(S), NEW e \in S
    PROVE  Append(s, e) = Cat(s, <<e>>) /\ Append(s, e) \in Seq(S) /\ <<e>> \in Seq(S)
<1>1. <<e>> \in Seq(S)
  OBVIOUS
<1>2. Append(s, e) = Cat(s, <<e>>)
  BY AppendIsConcat, Zenon DEF Cat
<1>3. Append(s, e) \in Seq(S)
  BY AppendProperties
<1> QED  BY <1>1, <1>2, <1>3

LEMMA HeadAndTail ==
    ASSUME NEW S, NEW s \in Seq(S), s # <<>>
    PROVE  s = Cat(<<Head(s)>>, Tail(s)) /\ Head(s) \in S /\ Tail(s) \in Seq(S)
<1>1. Head(s) \in S /\ Tail(s) \in Seq(S) /\ Len(s) \in Nat /\ Len(s) # 0
  BY HeadTailProperties, EmptySeq
<1>2. s = SubSeq(s, 1, Len(s)) /\ Tail(s) = SubSeq(s, 2, Len(s))
  BY SubSeqFull, TailIsSubSeq
<1>3. SubSeq(s, 1, Len(s)) = <<s[1]>> \o SubSeq(s, 1 + 1, Len(s))
  <2>1. 1 \in 1..Len(s) /\ Len(s) \in 1..Len(s)
    BY <1>1
  <2> QED  BY <2>1, SubSeqRecursiveFirst
<1>4. Head(s) = s[1] /\ 1 + 1 = 2
  BY <1>1
<1> QED  BY <1>1, <1>2, <1>3, <1>4 DEF Cat

-----------------------------------------------------------------------------
(* The data of items.                                                      *)

Part(item, G) == IF item.generation = G THEN item.data ELSE <<>>

Joins(f, items, G, m) ==
    f = [n \in 0..m |-> IF n = 0 THEN <<>> ELSE Cat(f[n - 1], Part(items[n], G))]

\* The recursive function of DataOf is defined, one item at a time.
LEMMA JoinsExist ==
    ASSUME NEW items, NEW G, NEW m \in Nat
    PROVE  \E f : Joins(f, items, G, m)
<1> DEFINE I == {n \in Nat : \E f : Joins(f, items, G, n)}
<1>1. 0 \in I
  <2>1. \A n \in 0..0 : n = 0
    OBVIOUS
  <2>2. Joins([n \in 0..0 |-> <<>>], items, G, 0)
    BY <2>1 DEF Joins
  <2> QED  BY <2>2
<1>2. ASSUME NEW n \in Nat, n \in I PROVE n + 1 \in I
  <2>1. PICK f : Joins(f, items, G, n)
    BY <1>2
  <2> DEFINE Add(q, k) == Cat(q, Part(items[k], G))
             g == [k \in 0..(n + 1) |-> IF k = n + 1 THEN Add(f[n], n + 1) ELSE f[k]]
             e == [k \in 0..(n + 1) |-> IF k = 0 THEN <<>> ELSE Add(g[k - 1], k)]
  <2>2. f = [k \in 0..n |-> IF k = 0 THEN <<>> ELSE Add(f[k - 1], k)]
    BY <2>1 DEF Joins
  <2> HIDE DEF Add
  <2>3. ASSUME NEW k \in 0..(n + 1) PROVE g[k] = e[k]
    <3>1. CASE k = 0
      <4>1. 0 # n + 1 /\ 0 \in 0..n
        OBVIOUS
      <4>2. f[0] = <<>>
        BY <2>2, <4>1
      <4> QED  BY <3>1, <4>1, <4>2
    <3>2. CASE k = n + 1
      <4>1. k # 0 /\ k - 1 = n /\ n \in 0..(n + 1) /\ n # n + 1
        BY <3>2
      <4>2. g[n] = f[n] /\ g[k] = Add(f[n], n + 1)
        BY <3>2, <4>1
      <4>3. e[k] = Add(g[n], k)
        BY <4>1
      <4> QED  BY <3>2, <4>2, <4>3
    <3>3. CASE k # 0 /\ k # n + 1
      <4>1. k \in 0..n /\ k - 1 \in 0..(n + 1) /\ k - 1 # n + 1
        BY <3>3
      <4>2. f[k] = Add(f[k - 1], k)
        BY <2>2, <3>3, <4>1
      <4>3. g[k] = f[k] /\ g[k - 1] = f[k - 1]
        BY <3>3, <4>1
      <4>4. e[k] = Add(g[k - 1], k)
        BY <3>3
      <4> QED  BY <4>2, <4>3, <4>4
    <3> QED  BY <3>1, <3>2, <3>3
  <2>4. g = e
    BY <2>3
  <2>5. Joins(g, items, G, n + 1)
    BY <2>4 DEF Joins, Add
  <2> QED  BY <2>5
<1>3. Nat \subseteq I
  <2> HIDE DEF I
  <2> QED  BY <1>1, <1>2, Inductively
<1> QED  BY <1>3

\* DataOf by one of the functions that join.
LEMMA DataJoins ==
    ASSUME NEW items, NEW m \in Nat, m = Len(items), NEW G
    PROVE  \E f : /\ DataOf(items, G) = f[m] /\ f[0] = <<>>
                  /\ \A n \in 1..m : f[n] = Cat(f[n - 1], Part(items[n], G))
<1> DEFINE f == CHOOSE f : Joins(f, items, G, m)
<1>1. DataOf(items, G) = f[m]
  BY Zenon DEF DataOf, Joins, Part, Cat
<1>2. Joins(f, items, G, m)
  BY JoinsExist
<1> HIDE DEF f
<1>3. f[0] = <<>> /\ \A n \in 1..m : f[n] = Cat(f[n - 1], Part(items[n], G))
  BY <1>2 DEF Joins
<1> QED  BY <1>1, <1>3

LEMMA DataOfNil == ASSUME NEW G PROVE DataOf(<<>>, G) = <<>>
<1>1. Len(<<>>) = 0
  OBVIOUS
<1>2. PICK f : /\ DataOf(<<>>, G) = f[0] /\ f[0] = <<>>
  BY <1>1, DataJoins
<1> QED  BY <1>2

LEMMA PartIs == ASSUME NEW item \in Inputs, NEW G PROVE Part(item, G) \in Bytes
BY DEF Part, Inputs, Bytes

LEMMA BytesCat ==
    ASSUME NEW s \in Bytes, NEW t \in Bytes
    PROVE  Cat(s, t) \in Bytes
BY CatIs DEF Bytes

LEMMA BytesAssociate ==
    ASSUME NEW s \in Bytes, NEW t \in Bytes, NEW u \in Bytes
    PROVE  Cat(Cat(s, t), u) = Cat(s, Cat(t, u))
BY CatAssociates DEF Bytes

LEMMA BytesNone ==
    /\ <<>> \in Bytes
    /\ \A s \in Bytes : Cat(s, <<>>) = s /\ Cat(<<>>, s) = s
BY CatNone DEF Bytes

LEMMA DataIs ==
    ASSUME NEW items \in Seq(Inputs), NEW G
    PROVE  DataOf(items, G) \in Bytes
<1> DEFINE m == Len(items)
<1>1. m \in Nat /\ \A n \in 1..m : items[n] \in Inputs
  OBVIOUS
<1>2. m = Len(items)
  OBVIOUS
<1> HIDE DEF m
<1>3. PICK f : /\ DataOf(items, G) = f[m] /\ f[0] = <<>>
               /\ \A n \in 1..m : f[n] = Cat(f[n - 1], Part(items[n], G))
  BY <1>1, <1>2, DataJoins
<1> DEFINE I == {n \in Nat : n <= m => f[n] \in Bytes}
<1>4. 0 \in I
  BY <1>3, BytesNone
<1>5. ASSUME NEW n \in Nat, n \in I PROVE n + 1 \in I
  <2> SUFFICES ASSUME n + 1 <= m PROVE f[n + 1] \in Bytes
    OBVIOUS
  <2>1. n + 1 \in 1..m /\ n + 1 - 1 = n /\ n <= m
    BY <1>1
  <2>2. f[n] \in Bytes /\ Part(items[n + 1], G) \in Bytes
    BY <1>1, <1>5, <2>1, PartIs
  <2>3. f[n + 1] = Cat(f[n], Part(items[n + 1], G))
    BY <1>3, <2>1
  <2> QED  BY <2>2, <2>3, BytesCat
<1>6. Nat \subseteq I
  <2> HIDE DEF I
  <2> QED  BY <1>4, <1>5, Inductively
<1>7. f[m] \in Bytes
  BY <1>1, <1>6
<1> QED  BY <1>3, <1>7

\* Items of other generations carry nothing of this one.
LEMMA DataOfNone ==
    ASSUME NEW items \in Seq(Inputs), NEW G, \A i \in DOMAIN items : items[i].generation # G
    PROVE  DataOf(items, G) = <<>>
<1> DEFINE m == Len(items)
<1>1. m \in Nat /\ \A n \in 1..m : Part(items[n], G) = <<>>
  BY DEF Part
<1>2. m = Len(items)
  OBVIOUS
<1> HIDE DEF m
<1>3. PICK f : /\ DataOf(items, G) = f[m] /\ f[0] = <<>>
               /\ \A n \in 1..m : f[n] = Cat(f[n - 1], Part(items[n], G))
  BY <1>1, <1>2, DataJoins
<1> DEFINE I == {n \in Nat : n <= m => f[n] = <<>>}
<1>4. 0 \in I
  BY <1>3
<1>5. ASSUME NEW n \in Nat, n \in I PROVE n + 1 \in I
  <2> SUFFICES ASSUME n + 1 <= m PROVE f[n + 1] = <<>>
    OBVIOUS
  <2>1. n + 1 \in 1..m /\ n + 1 - 1 = n /\ n <= m
    BY <1>1
  <2>2. f[n] = <<>>
    BY <1>5, <2>1
  <2>3. f[n + 1] = Cat(f[n], Part(items[n + 1], G))
    BY <1>3, <2>1
  <2> QED  BY <1>1, <2>1, <2>2, <2>3, CatNothing
<1>6. Nat \subseteq I
  <2> HIDE DEF I
  <2> QED  BY <1>4, <1>5, Inductively
<1>7. f[m] = <<>>
  BY <1>1, <1>6
<1> QED  BY <1>3, <1>7

LEMMA DataAppend ==
    ASSUME NEW items \in Seq(Inputs), NEW item \in Inputs, NEW G
    PROVE  DataOf(Append(items, item), G) = Cat(DataOf(items, G), Part(item, G))
<1> DEFINE more == Append(items, item)
           m == Len(items)
<1>1. /\ m \in Nat /\ m = Len(items) /\ m + 1 = Len(more)
      /\ more[m + 1] = item /\ \A n \in 1..m : more[n] = items[n]
  BY AppendProperties
<1> HIDE DEF more, m
<1>2. PICK f : /\ DataOf(items, G) = f[m] /\ f[0] = <<>>
               /\ \A n \in 1..m : f[n] = Cat(f[n - 1], Part(items[n], G))
  <2>1. m \in Nat /\ m = Len(items)
    BY <1>1
  <2> QED  BY <2>1, DataJoins
<1>3. PICK g : /\ DataOf(more, G) = g[m + 1] /\ g[0] = <<>>
               /\ \A n \in 1..(m + 1) : g[n] = Cat(g[n - 1], Part(more[n], G))
  <2>1. m + 1 \in Nat
    BY <1>1
  <2> QED  BY <1>1, <2>1, DataJoins
<1> DEFINE I == {n \in Nat : n <= m => f[n] = g[n]}
<1>4. 0 \in I
  BY <1>2, <1>3
<1>5. ASSUME NEW n \in Nat, n \in I PROVE n + 1 \in I
  <2> SUFFICES ASSUME n + 1 <= m PROVE f[n + 1] = g[n + 1]
    OBVIOUS
  <2>1. n + 1 \in 1..m /\ n + 1 \in 1..(m + 1) /\ n + 1 - 1 = n /\ n <= m
    BY <1>1
  <2>2. f[n] = g[n] /\ more[n + 1] = items[n + 1]
    BY <1>1, <1>5, <2>1
  <2> QED  BY <1>2, <1>3, <2>1, <2>2
<1>6. Nat \subseteq I
  <2> HIDE DEF I
  <2> QED  BY <1>4, <1>5, Inductively
<1>7. f[m] = g[m]
  BY <1>1, <1>6
<1>8. m + 1 \in 1..(m + 1) /\ m + 1 - 1 = m
  BY <1>1
<1>9. g[m + 1] = Cat(g[m], Part(item, G))
  BY <1>1, <1>3, <1>8
<1> QED  BY <1>2, <1>3, <1>7, <1>9 DEF more

\* The data of two runs of items, and of a run less its first item.
LEMMA DataConcat ==
    ASSUME NEW G, NEW s \in Seq(Inputs), NEW t \in Seq(Inputs)
    PROVE  DataOf(Cat(s, t), G) = Cat(DataOf(s, G), DataOf(t, G))
<1> DEFINE Holds(u) == DataOf(Cat(s, u), G) = Cat(DataOf(s, G), DataOf(u, G))
           I == {n \in Nat : \A u \in Seq(Inputs) : Len(u) = n => Holds(u)}
<1>1. 0 \in I
  <2> SUFFICES ASSUME NEW u \in Seq(Inputs), Len(u) = 0 PROVE Holds(u)
    OBVIOUS
  <2>1. u = <<>>
    BY EmptySeq
  <2>2. Cat(s, u) = s
    BY <2>1, CatNone
  <2>3. DataOf(u, G) = <<>>
    BY <2>1, DataOfNil
  <2> QED  BY <2>2, <2>3, DataIs, BytesNone
<1>2. ASSUME NEW n \in Nat, n \in I PROVE n + 1 \in I
  <2> SUFFICES ASSUME NEW u \in Seq(Inputs), Len(u) = n + 1 PROVE Holds(u)
    OBVIOUS
  <2>1. u # <<>>
    BY EmptySeq
  <2>2. PICK v \in Seq(Inputs), e \in Inputs : u = Append(v, e)
    BY <2>1, SequenceEmptyOrAppend
  <2>3. Len(v) = n
    BY <2>2, AppendProperties
  <2>4. Holds(v)
    BY <1>2, <2>3
  <2>5. Cat(s, u) = Append(Cat(s, v), e) /\ Cat(s, v) \in Seq(Inputs)
    <3> DEFINE one == <<e>>
    <3>1. u = Cat(v, one) /\ one \in Seq(Inputs)
      BY <2>2, AppendIsCat
    <3>2. Cat(s, v) \in Seq(Inputs)
      BY CatIs
    <3>3. Append(Cat(s, v), e) = Cat(Cat(s, v), one)
      BY <3>2, AppendIsCat, Zenon
    <3> HIDE DEF one
    <3>4. Cat(Cat(s, v), one) = Cat(s, Cat(v, one))
      BY <3>1, CatAssociates
    <3> QED  BY <3>1, <3>2, <3>3, <3>4
  <2>6. DataOf(Cat(s, u), G) = Cat(DataOf(Cat(s, v), G), Part(e, G))
    BY <2>5, DataAppend
  <2>7. DataOf(u, G) = Cat(DataOf(v, G), Part(e, G))
    BY <2>2, DataAppend
  <2>8. DataOf(s, G) \in Bytes /\ DataOf(v, G) \in Bytes /\ Part(e, G) \in Bytes
    BY DataIs, PartIs
  <2> QED  BY <2>4, <2>6, <2>7, <2>8, BytesAssociate
<1>3. Nat \subseteq I
  <2> HIDE DEF I
  <2> QED  BY <1>1, <1>2, Inductively
<1>4. Len(t) \in Nat /\ Len(t) \in I
  BY <1>3
<1>5. Holds(t)
  <2> HIDE DEF Holds
  <2> QED  BY <1>4
<1> QED  BY <1>5

LEMMA DataOfOne ==
    ASSUME NEW item \in Inputs, NEW G
    PROVE  DataOf(<<item>>, G) = Part(item, G)
<1>1. <<>> \in Seq(Inputs) /\ <<item>> = Append(<<>>, item)
  OBVIOUS
<1>2. DataOf(<<item>>, G) = Cat(<<>>, Part(item, G))
  BY <1>1, DataAppend, DataOfNil
<1> QED  BY <1>2, PartIs, BytesNone

LEMMA DataTail ==
    ASSUME NEW items \in Seq(Inputs), items # <<>>, NEW G
    PROVE  /\ Head(items) \in Inputs /\ Tail(items) \in Seq(Inputs)
           /\ DataOf(items, G) = Cat(Part(Head(items), G), DataOf(Tail(items), G))
<1>1. Head(items) \in Inputs /\ Tail(items) \in Seq(Inputs)
  BY HeadAndTail
<1>2. items = Cat(<<Head(items)>>, Tail(items)) /\ <<Head(items)>> \in Seq(Inputs)
  BY HeadAndTail, AppendIsCat
<1>3. DataOf(items, G) = Cat(DataOf(<<Head(items)>>, G), DataOf(Tail(items), G))
  <2> DEFINE h == <<Head(items)>>
             r == Tail(items)
  <2>1. items = Cat(h, r) /\ h \in Seq(Inputs) /\ r \in Seq(Inputs)
    BY <1>1, <1>2
  <2> HIDE DEF h, r
  <2>2. DataOf(Cat(h, r), G) = Cat(DataOf(h, G), DataOf(r, G))
    BY <2>1, DataConcat
  <2>3. DataOf(items, G) = Cat(DataOf(h, G), DataOf(r, G))
    BY <2>1, <2>2, Zenon
  <2> QED  BY <2>3 DEF h, r
<1> QED  BY <1>1, <1>3, DataOfOne

\* The closed sets of items: joining neighbours does not lead out of them.
Joining(S) ==
    /\ S \subseteq Inputs
    /\ \A e, i \in S : e.generation = i.generation /\ e.paste = i.paste =>
          [e EXCEPT !.data = Cat(@, i.data)] \in S

\* Joining an item to the last of a sequence replaces that one.
LEMMA SetLast ==
    ASSUME NEW S, NEW v \in Seq(S), NEW e \in S, NEW c \in S
    PROVE  /\ [Append(v, e) EXCEPT ![Len(Append(v, e))] = c] = Append(v, c)
           /\ Append(v, e)[Len(Append(v, e))] = e
<1> DEFINE m == Len(v) + 1
           s == Append(v, e)
           t == Append(v, c)
           u == [s EXCEPT ![m] = c]
<1>1. m \in 1..m /\ \A j \in 1..m : j # m => j \in 1..Len(v)
  BY LenProperties
<1>2. s \in Seq(S) /\ Len(s) = m /\ s[m] = e /\ \A j \in 1..Len(v) : s[j] = v[j]
  BY AppendProperties
<1>3. t \in Seq(S) /\ Len(t) = m /\ t[m] = c /\ \A j \in 1..Len(v) : t[j] = v[j]
  BY AppendProperties
<1>4. u \in Seq(S) /\ Len(u) = m /\ \A j \in 1..m : u[j] = IF j = m THEN c ELSE s[j]
  <2> HIDE DEF s, m
  <2> QED  BY <1>1, <1>2, ExceptSeq
<1>5. \A j \in 1..m : u[j] = t[j]
  <2> HIDE DEF s, t, u, m
  <2> QED  BY <1>1, <1>2, <1>3, <1>4
<1>6. u = t
  <2> HIDE DEF s, t, u, m
  <2> QED  BY <1>3, <1>4, <1>5, SeqEqual
<1>7. Len(s) = m /\ s[m] = e
  BY <1>2
<1> QED  BY <1>6, <1>7

\* Joined to its neighbour or not, an emitted item adds its data (emit,
\* lines 94-100).
LEMMA EmitIs ==
    ASSUME NEW S, Joining(S), NEW items \in Seq(S), NEW item \in S, NEW G
    PROVE  /\ Emit(items, item) \in Seq(S)
           /\ DataOf(Emit(items, item), G) = Cat(DataOf(items, G), Part(item, G))
<1>1. S \subseteq Inputs /\ items \in Seq(Inputs) /\ item \in Inputs
  BY SeqMonotonic DEF Joining
<1>2. CASE item.data = <<>>
  <2>1. Emit(items, item) = items
    BY <1>2 DEF Emit
  <2>2. Part(item, G) = <<>>
    BY <1>2 DEF Part
  <2> QED  BY <1>1, <2>1, <2>2, DataIs, BytesNone
<1>3. CASE item.data # <<>> /\ items # <<>> /\ Last(items).generation = item.generation
                            /\ Last(items).paste = item.paste
  <2>1. PICK v \in Seq(S), e \in S : items = Append(v, e)
    BY <1>3, SequenceEmptyOrAppend
  <2> DEFINE c == [e EXCEPT !.data = Cat(@, item.data)]
  <2>2. e = items[Len(items)]
    BY <2>1, SetLast
  <2>3. e.generation = item.generation /\ e.paste = item.paste
    BY <1>3, <2>2 DEF Last
  <2>4. c \in S
    BY <2>3 DEF Joining
  <2>5. Emit(items, item) = [items EXCEPT ![Len(items)].data = Cat(@, item.data)]
    BY <1>3, Zenon DEF Emit, Cat
  <2>6. Emit(items, item) = [items EXCEPT ![Len(items)] = c]
    BY <2>2, <2>5, Zenon
  <2>7. Emit(items, item) = Append(v, c)
    <3> HIDE DEF c
    <3> QED  BY <2>1, <2>4, <2>6, SetLast
  <2>8. Append(v, c) \in Seq(S)
    BY <2>4, AppendProperties
  <2>9. e \in Inputs /\ c \in Inputs /\ v \in Seq(Inputs)
    BY <1>1, <2>4, SeqMonotonic
  <2>10. Part(c, G) = Cat(Part(e, G), Part(item, G))
    <3>1. c.generation = e.generation /\ c.data = Cat(e.data, item.data)
      BY <2>9 DEF Inputs
    <3> QED  BY <2>3, <3>1, CatNothing DEF Part
  <2>11. /\ DataOf(Append(v, c), G) = Cat(DataOf(v, G), Part(c, G))
         /\ DataOf(items, G) = Cat(DataOf(v, G), Part(e, G))
    <3> HIDE DEF c
    <3> QED  BY <2>1, <2>9, DataAppend
  <2>12. DataOf(v, G) \in Bytes /\ Part(e, G) \in Bytes /\ Part(item, G) \in Bytes
    BY <1>1, <2>9, DataIs, PartIs
  <2> HIDE DEF c
  <2> QED  BY <2>7, <2>8, <2>10, <2>11, <2>12, BytesAssociate
<1>4. CASE item.data # <<>> /\ ~(items # <<>> /\ Last(items).generation = item.generation
                                              /\ Last(items).paste = item.paste)
  <2>1. Emit(items, item) = Append(items, item)
    BY <1>4, Zenon DEF Emit
  <2>2. Append(items, item) \in Seq(S)
    BY AppendProperties
  <2> QED  BY <1>1, <2>1, <2>2, DataAppend
<1> QED  BY <1>2, <1>3, <1>4

-----------------------------------------------------------------------------
(* One byte.                                                               *)

Rest(held, k) == SubSeq(held, k + 1, Len(held))

\* Given the first k of them up, the held bytes begin the delimiter.
Begins(held, k, target) ==
    /\ Len(held) - k <= Len(target)
    /\ \A i \in 1..(Len(held) - k) : held[k + i].key = target[i]

Delimiter == {PasteStart, PasteEnd}

LEMMA RestIs ==
    ASSUME NEW held \in Bytes, NEW k \in 0..Len(held)
    PROVE  /\ Len(held) \in Nat /\ Rest(held, k) \in Bytes
           /\ Len(Rest(held, k)) = Len(held) - k
           /\ \A i \in 1..(Len(held) - k) : Rest(held, k)[i] = held[k + i]
           /\ SubSeq(held, 1, k) \in Bytes /\ Cat(SubSeq(held, 1, k), Rest(held, k)) = held
<1> DEFINE m == Len(held)
<1>1. m \in Nat /\ held \in Seq(Byte) /\ \A i \in 1..m : held[i] \in Byte
  BY DEF Bytes
<1>2. /\ Rest(held, k) \in Seq(Byte) /\ Len(Rest(held, k)) = m - k
      /\ \A i \in 1..(m - k) : Rest(held, k)[i] = held[k + i]
  <2>1. k + 1 \in Int /\ m \in Int /\ \A i \in (k + 1)..m : held[i] \in Byte
    BY <1>1
  <2>2. /\ SubSeq(held, k + 1, m) \in Seq(Byte)
        /\ Len(SubSeq(held, k + 1, m)) = IF k + 1 <= m THEN m - (k + 1) + 1 ELSE 0
        /\ \A i \in 1..(m - (k + 1) + 1) : SubSeq(held, k + 1, m)[i] = held[k + 1 + i - 1]
    <3> HIDE DEF m
    <3> QED  BY <2>1, SubSeqProperties
  <2>3. m - (k + 1) + 1 = m - k /\ (~(k + 1 <= m) => m - k = 0)
    BY <1>1
  <2>4. \A i \in 1..(m - k) : k + 1 + i - 1 = k + i
    BY <1>1
  <2> QED  BY <2>2, <2>3, <2>4 DEF Rest
<1>3. SubSeq(held, 1, k) \in Seq(Byte)
  <2>1. 1 \in Int /\ k \in Int /\ \A i \in 1..k : held[i] \in Byte
    BY <1>1
  <2> QED  BY <2>1, SubSeqProperties
<1>4. Cat(SubSeq(held, 1, k), Rest(held, k)) = held
  <2>1. 1 \in 1..(m + 1) /\ k \in (1 - 1)..m /\ m \in k..m
    BY <1>1
  <2>2. SubSeq(held, 1, k) \o SubSeq(held, k + 1, m) = SubSeq(held, 1, m)
    BY <1>1, <2>1, ConcatAdjacentSubSeq
  <2>3. SubSeq(held, 1, m) = held
    BY <1>1, SubSeqFull
  <2> QED  BY <2>2, <2>3 DEF Cat, Rest
<1> QED  BY <1>1, <1>2, <1>3, <1>4 DEF Bytes

LEMMA StartIs ==
    ASSUME NEW bytes \in Bytes, NEW k \in 0..Len(bytes)
    PROVE  /\ Len(SubSeq(bytes, 1, k)) = k /\ DOMAIN SubSeq(bytes, 1, k) = 1..k
           /\ \A i \in 1..k : SubSeq(bytes, 1, k)[i] = bytes[i]
<1> DEFINE s == SubSeq(bytes, 1, k)
<1>1. bytes \in Seq(Byte) /\ Len(bytes) \in Nat /\ 1 \in Int /\ k \in Int /\ k \in Nat
  BY RestIs DEF Bytes
<1>2. ASSUME NEW i \in 1..k PROVE bytes[i] \in Byte
  <2>1. i \in 1..Len(bytes)
    BY <1>1
  <2> QED  BY <1>1, <2>1, ElementOfSeq
<1>3. /\ s \in Seq(Byte) /\ Len(s) = IF 1 <= k THEN k - 1 + 1 ELSE 0
      /\ \A i \in 1..(k - 1 + 1) : s[i] = bytes[1 + i - 1]
  BY <1>1, <1>2, SubSeqProperties
<1>4. k - 1 + 1 = k /\ (~(1 <= k) => k = 0) /\ \A i \in 1..k : 1 + i - 1 = i
  BY <1>1
<1> HIDE DEF s
<1>5. Len(s) = k /\ \A i \in 1..k : s[i] = bytes[i]
  BY <1>3, <1>4
<1>6. DOMAIN s = 1..k
  BY <1>3, <1>5, LenProperties
<1> QED  BY <1>5, <1>6 DEF s

\* A function on 1..n is a sequence of length n.
LEMMA FunctionIsSequence ==
    ASSUME NEW S, NEW n \in Nat, NEW f \in [1..n -> S]
    PROVE  f \in Seq(S) /\ Len(f) = n
<1>1. f \in Seq(S)
  BY SeqDef
<1>2. Len(f) \in Nat /\ DOMAIN f = 1..Len(f) /\ DOMAIN f = 1..n
  BY <1>1, LenProperties
<1>3. Len(f) = n
  <2> DEFINE m == Len(f)
  <2> HIDE DEF m
  <2>1. m \in Nat /\ 1..m = 1..n
    BY <1>2 DEF m
  <2>2. m \in 1..m \/ m = 0
    BY <2>1
  <2>3. n \in 1..n \/ n = 0
    OBVIOUS
  <2>4. m = n
    BY <2>1, <2>2, <2>3
  <2> QED  BY <2>4 DEF m
<1> QED  BY <1>1, <1>3

\* The keys of the rest are a whole delimiter, or its beginning.
LEMMA KeysOfRest ==
    ASSUME NEW held \in Bytes, NEW k \in 0..Len(held), NEW target \in Delimiter
    PROVE  /\ IsPrefix(Keys(Rest(held, k)), target) <=> Begins(held, k, target)
           /\ Keys(Rest(held, k)) = target <=> (Begins(held, k, target) /\ Len(held) - k = 3)
<1> DEFINE n == Len(held) - k
           keys == Keys(Rest(held, k))
<1>1. n \in Nat /\ Len(held) \in Nat
  BY RestIs
<1>2. keys = [i \in 1..n |-> held[k + i].key]
  <2>1. DOMAIN Rest(held, k) = 1..n
    BY RestIs DEF Bytes
  <2>2. \A i \in 1..n : Rest(held, k)[i] = held[k + i]
    BY RestIs
  <2> HIDE DEF n
  <2> QED  BY <2>1, <2>2 DEF Keys
<1>3. \A i \in 1..n : held[k + i].key \in Key
  <2> TAKE i \in 1..n
  <2>1. k + i \in 1..Len(held)
    BY <1>1
  <2>2. held[k + i] \in Byte
    BY <2>1 DEF Bytes
  <2> QED  BY <2>2 DEF Byte
<1>4. keys \in Seq(Key) /\ Len(keys) = n /\ \A i \in 1..n : keys[i] = held[k + i].key
  <2> HIDE DEF n, keys
  <2>1. keys \in [1..n -> Key]
    BY <1>2, <1>3
  <2>2. keys \in Seq(Key) /\ Len(keys) = n
    BY <1>1, <2>1, FunctionIsSequence
  <2> QED  BY <1>2, <2>2
<1>5. target \in Seq(Key) /\ Len(target) = 3
  <2>1. PasteStart \in Seq(Key) /\ Len(PasteStart) = 3
    BY DEF PasteStart, Key
  <2>2. PasteEnd \in Seq(Key) /\ Len(PasteEnd) = 3
    BY DEF PasteEnd, Key
  <2> QED  BY <2>1, <2>2 DEF Delimiter
<1> HIDE DEF keys, n
<1>6. SubSeq(keys, 1, n) = keys
  <2>1. SubSeq(keys, 1, Len(keys)) = keys
    BY <1>4, SubSeqFull
  <2> QED  BY <1>4, <2>1
<1>7. IsPrefix(keys, target) <=> (n <= 3 /\ \A i \in 1..n : keys[i] = target[i])
  <2>1. IsPrefix(keys, target) <=> (n <= 3 /\ keys = SubSeq(target, 1, n))
    BY <1>4, <1>5, <1>6 DEF IsPrefix
  <2>2. ASSUME n <= 3
        PROVE  keys = SubSeq(target, 1, n) <=> \A i \in 1..n : keys[i] = target[i]
    <3> DEFINE t == SubSeq(target, 1, n)
    <3>1. 1 \in Int /\ n \in Int /\ \A i \in 1..n : target[i] \in Key
      <4>1. ASSUME NEW i \in 1..n PROVE target[i] \in Key
        <5>1. i \in 1..Len(target)
          BY <1>1, <1>5, <2>2
        <5> QED  BY <1>5, <5>1, ElementOfSeq
      <4> QED  BY <1>1, <4>1
    <3>2. /\ t \in Seq(Key) /\ Len(t) = IF 1 <= n THEN n - 1 + 1 ELSE 0
          /\ \A i \in 1..(n - 1 + 1) : t[i] = target[1 + i - 1]
      BY <3>1, SubSeqProperties
    <3>3. Len(t) = n /\ \A i \in 1..n : t[i] = target[i]
      <4>1. n - 1 + 1 = n /\ (~(1 <= n) => n = 0) /\ \A i \in 1..n : 1 + i - 1 = i
        BY <1>1
      <4> HIDE DEF t
      <4> QED  BY <3>2, <4>1
    <3> HIDE DEF t
    <3>4. (\A i \in 1..n : keys[i] = target[i]) => keys = t
      BY <1>4, <3>2, <3>3, SeqEqual
    <3>5. keys = t => \A i \in 1..n : keys[i] = target[i]
      BY <3>3
    <3> QED  BY <3>4, <3>5 DEF t
  <2> QED  BY <2>1, <2>2
<1>8. keys = target <=> (n = 3 /\ \A i \in 1..n : keys[i] = target[i])
  <2>1. keys = target => n = 3 /\ \A i \in 1..n : keys[i] = target[i]
    BY <1>4, <1>5
  <2>2. n = 3 /\ (\A i \in 1..n : keys[i] = target[i]) => keys = target
    BY <1>4, <1>5, SeqEqual
  <2> QED  BY <2>1, <2>2
<1>9. Begins(held, k, target) <=> (n <= 3 /\ \A i \in 1..n : keys[i] = target[i])
  BY <1>4, <1>5 DEF Begins, n
<1>10. IsPrefix(keys, target) <=> Begins(held, k, target)
  BY <1>7, <1>9
<1>11. keys = target <=> (Begins(held, k, target) /\ n = 3)
  BY <1>1, <1>8, <1>9
<1> QED  BY <1>10, <1>11 DEF keys, n

\* The bytes given up are the fewest whose removal leaves the beginning of
\* the delimiter (decode, lines 111-130).
LEMMA GivenUpIs ==
    ASSUME NEW held \in Bytes, NEW target \in Delimiter
    PROVE  /\ GivenUp(held, target) \in 0..Len(held)
           /\ Begins(held, GivenUp(held, target), target)
           /\ \A k \in 0..Len(held) :
                 /\ Begins(held, k, target)
                 /\ \A j \in 0..Len(held) : j < k => ~Begins(held, j, target)
                 => GivenUp(held, target) = k
<1> DEFINE m == Len(held)
           First(k) == /\ IsPrefix(Keys(SubSeq(held, k + 1, m)), target)
                       /\ \A j \in 0..(k - 1) : ~IsPrefix(Keys(SubSeq(held, j + 1, m)), target)
           up == CHOOSE k \in 0..m : First(k)
<1>1. m \in Nat
  BY LenProperties DEF Bytes
<1>2. \A k \in 0..m : IsPrefix(Keys(SubSeq(held, k + 1, m)), target) <=> Begins(held, k, target)
  BY KeysOfRest DEF Rest
<1> HIDE DEF m
<1>3. \A k \in 0..m : First(k) <=> Begins(held, k, target) /\ \A j \in 0..m : j < k => ~Begins(held, j, target)
  <2> TAKE k \in 0..m
  <2>1. \A j \in 0..(k - 1) : j \in 0..m /\ j < k
    BY <1>1
  <2>2. \A j \in 0..m : j < k => j \in 0..(k - 1)
    BY <1>1
  <2> QED  BY <1>2, <2>1, <2>2
<1>4. \E k \in 0..m : First(k)
  <2> DEFINE I == {k \in 0..m : Begins(held, k, target)}
  <2>1. I \in SUBSET Nat /\ m \in I
    <3>1. m - m = 0 /\ m \in 0..m
      BY <1>1
    <3>2. Len(target) \in Nat
      <4>1. Len(PasteStart) = 3 /\ Len(PasteEnd) = 3
        BY DEF PasteStart, PasteEnd
      <4> QED  BY <4>1 DEF Delimiter
    <3>3. Begins(held, m, target)
      BY <3>1, <3>2 DEF Begins, m
    <3> QED  BY <1>1, <3>1, <3>3
  <2> HIDE DEF I
  <2>2. PICK k \in I : \A j \in I : k <= j
    BY <2>1, HasLeast
  <2> USE DEF I
  <2>3. k \in 0..m /\ Begins(held, k, target) /\ \A j \in 0..m : j < k => ~Begins(held, j, target)
    BY <1>1, <2>2
  <2> HIDE DEF First, I
  <2> QED  BY <1>3, <2>3
<1>5. GivenUp(held, target) = up
  BY Zenon DEF GivenUp, m
<1>6. up \in 0..m /\ First(up)
  <2> HIDE DEF First
  <2> QED  BY <1>4, Zenon
<1> HIDE DEF First, up
<1>7. Begins(held, up, target) /\ \A j \in 0..m : j < up => ~Begins(held, j, target)
  BY <1>3, <1>6
<1>8. ASSUME NEW k \in 0..m, Begins(held, k, target),
             \A j \in 0..m : j < k => ~Begins(held, j, target)
      PROVE  up = k
  <2>1. ~(k < up) /\ ~(up < k)
    BY <1>6, <1>7, <1>8
  <2> QED  BY <1>1, <1>6, <2>1
<1> QED  BY <1>5, <1>6, <1>7, <1>8 DEF m

Origin(g) == IF g.prefix = <<>> THEN Epoch(g) ELSE g.prefixGeneration

Held(g, b) == Append(g.prefix, b)

Up(g, b) == GivenUp(Held(g, b), Target(g))

Completes(g, b) == Begins(Held(g, b), Up(g, b), Target(g)) /\ Len(Held(g, b)) - Up(g, b) = 3

Gave(g, b) == Item(Origin(g), SubSeq(Held(g, b), 1, Up(g, b)), g.paste)

Stays(g, b) == Rest(Held(g, b), Up(g, b))

\* What is held after one byte more, and how much of it is given up.
LEMMA HeldIs ==
    ASSUME NEW g \in Gates, NEW b \in Byte
    PROVE  /\ Held(g, b) \in Bytes /\ Target(g) \in Delimiter
           /\ Held(g, b) = Cat(g.prefix, <<b>>) /\ <<b>> \in Bytes
           /\ Len(Held(g, b)) = Len(g.prefix) + 1 /\ Len(g.prefix) \in Nat
           /\ Held(g, b)[Len(g.prefix) + 1] = b
           /\ \A i \in 1..Len(g.prefix) : Held(g, b)[i] = g.prefix[i]
           /\ Up(g, b) \in 0..Len(Held(g, b))
           /\ Stays(g, b) \in Bytes /\ Origin(g) \in Nat
           /\ Gave(g, b) \in Inputs
           /\ Cat(Gave(g, b).data, Stays(g, b)) = Held(g, b)
<1>1. g.prefix \in Seq(Byte)
  BY DEF Gates, Bytes
<1>2. Held(g, b) \in Bytes /\ Held(g, b) = Cat(g.prefix, <<b>>) /\ <<b>> \in Bytes
  BY <1>1, AppendIsCat DEF Held, Bytes
<1>3. /\ Len(Held(g, b)) = Len(g.prefix) + 1 /\ Len(g.prefix) \in Nat
      /\ Held(g, b)[Len(g.prefix) + 1] = b
      /\ \A i \in 1..Len(g.prefix) : Held(g, b)[i] = g.prefix[i]
  BY <1>1, AppendProperties, LenProperties DEF Held
<1>4. Target(g) \in Delimiter
  BY DEF Target, Delimiter
<1>5. Up(g, b) \in 0..Len(Held(g, b))
  BY <1>2, <1>4, GivenUpIs DEF Up
<1>6. /\ SubSeq(Held(g, b), 1, Up(g, b)) \in Bytes /\ Stays(g, b) \in Bytes
      /\ Cat(SubSeq(Held(g, b), 1, Up(g, b)), Stays(g, b)) = Held(g, b)
  BY <1>2, <1>5, RestIs DEF Stays
<1>7. Origin(g) \in Nat /\ g.paste \in BOOLEAN
  BY DEF Origin, Epoch, Gates
<1>8. Gave(g, b) \in Inputs /\ Gave(g, b).data = SubSeq(Held(g, b), 1, Up(g, b))
  BY <1>6, <1>7 DEF Gave, Item, Inputs
<1> QED  BY <1>2, <1>3, <1>4, <1>5, <1>6, <1>7, <1>8

\* What decoding a byte makes of a gate and the items so far.
ByteDecoded(e, g, items, b) ==
    /\ e = [gate |-> e.gate, items |-> e.items] /\ e.gate \in Gates
    /\ e.gate.generation = g.generation /\ e.gate.next = g.next
    /\ e.gate.prefixGeneration = Origin(g)
    /\ e.gate.late = (g.late /\ g.prefix # <<>>)
    /\ Completes(g, b) =>
          /\ e.gate.prefix = <<>> /\ e.gate.paste = ~g.paste
          /\ e.gate.pasteGeneration = IF g.paste THEN g.pasteGeneration ELSE Origin(g)
          /\ e.items = Emit(Emit(items, Gave(g, b)), Item(Origin(g), Stays(g, b), TRUE))
    /\ ~Completes(g, b) =>
          /\ e.gate.prefix = Stays(g, b) /\ e.gate.paste = g.paste
          /\ e.gate.pasteGeneration = g.pasteGeneration
          /\ e.items = Emit(items, Gave(g, b))

\* One byte decoded, without the intermediate gates.
LEMMA DecodeByteIs ==
    ASSUME NEW g \in Gates, NEW items, NEW b \in Byte, NEW d, d = [gate |-> g, items |-> items]
    PROVE  ByteDecoded(DecodeByte(d, b), g, items, b)
<1> DEFINE e == DecodeByte(d, b)
           t == [g EXCEPT !.late = @ /\ g.prefix # <<>>]
           whole == [t EXCEPT !.prefix = <<>>, !.prefixGeneration = Origin(g), !.paste = ~@,
                              !.pasteGeneration = IF t.paste THEN @ ELSE Origin(g)]
           part == [t EXCEPT !.prefix = Stays(g, b), !.prefixGeneration = Origin(g)]
<1>1. /\ t \in Gates /\ t.generation = g.generation /\ t.next = g.next /\ t.paste = g.paste
      /\ t.pasteGeneration = g.pasteGeneration /\ t.prefix = g.prefix
      /\ t.prefixGeneration = g.prefixGeneration /\ t.late = (g.late /\ g.prefix # <<>>)
  BY DEF Gates
<1>2. d.gate = g /\ d.items = items
  OBVIOUS
<1>3. Origin(t) = Origin(g) /\ Target(t) = Target(g)
  BY <1>1 DEF Origin, Epoch, Target
<1>4. Stays(g, b) \in Bytes /\ Origin(g) \in Nat
  BY HeldIs
<1>5. Keys(Stays(g, b)) = Target(g) <=> Completes(g, b)
  BY HeldIs, KeysOfRest DEF Completes, Stays
<1> DEFINE h == Append(t.prefix, b)
           k == GivenUp(h, Target(t))
           o == IF t.prefix = <<>> THEN Epoch(t) ELSE t.prefixGeneration
           stays == SubSeq(h, k + 1, Len(h))
           gave == Emit(items, GivenUpItem(t, o, SubSeq(h, 1, k)))
<1>e. e = IF Keys(stays) = Target(t)
          THEN [gate |-> Delimited([t EXCEPT !.prefix = stays], o),
                items |-> Emit(gave, Item(o, stays, TRUE))]
          ELSE [gate |-> [t EXCEPT !.prefix = stays, !.prefixGeneration = o], items |-> gave]
  <2> DEFINE t2 == [d.gate EXCEPT !.late = @ /\ d.gate.prefix # <<>>]
             h2 == Append(t2.prefix, b)
             k2 == GivenUp(h2, Target(t2))
             o2 == IF t2.prefix = <<>> THEN Epoch(t2) ELSE t2.prefixGeneration
             stays2 == SubSeq(h2, k2 + 1, Len(h2))
             gave2 == Emit(d.items, GivenUpItem(t2, o2, SubSeq(h2, 1, k2)))
  <2>1. e = IF Keys(stays2) = Target(t2)
            THEN [gate |-> Delimited([t2 EXCEPT !.prefix = stays2], o2),
                  items |-> Emit(gave2, Item(o2, stays2, TRUE))]
            ELSE [gate |-> [t2 EXCEPT !.prefix = stays2, !.prefixGeneration = o2], items |-> gave2]
    BY Zenon DEF DecodeByte
  <2>2. t2 = t
    BY <1>2
  <2> HIDE DEF t, t2, e
  <2>3. h2 = h /\ k2 = k /\ o2 = o
    BY <2>2, Zenon
  <2> HIDE DEF h, h2, k, k2, o, o2
  <2>4. stays2 = stays /\ gave2 = gave
    BY <1>2, <2>2, <2>3, Zenon
  <2> HIDE DEF stays, stays2, gave, gave2
  <2> QED  BY <2>1, <2>2, <2>3, <2>4, Zenon
<1>h. h = Held(g, b) /\ o = Origin(g) /\ stays = Stays(g, b) /\ gave = Emit(items, Gave(g, b))
  <2>1. h = Held(g, b)
    BY <1>1 DEF Held
  <2>2. k = Up(g, b)
    BY <1>3, <2>1 DEF Up
  <2>3. o = Origin(g)
    BY <1>3 DEF Origin
  <2>4. stays = Stays(g, b)
    BY <2>1, <2>2 DEF Stays, Rest
  <2>5. GivenUpItem(t, o, SubSeq(h, 1, k)) = Gave(g, b)
    BY <1>1, <2>1, <2>2, <2>3 DEF GivenUpItem, Gave
  <2> QED  BY <2>1, <2>3, <2>4, <2>5
<1> HIDE DEF h, k, o, stays, gave, e
<1>i. Keys(stays) = Target(t) <=> Completes(g, b)
  BY <1>3, <1>5, <1>h
<1>6. ASSUME Completes(g, b) PROVE ByteDecoded(e, g, items, b)
  <2>1. e = [gate |-> whole,
             items |-> Emit(Emit(items, Gave(g, b)), Item(Origin(g), Stays(g, b), TRUE))]
    <3> DEFINE s == [t EXCEPT !.prefix = Stays(g, b)]
    <3>1. e = [gate |-> Delimited(s, Origin(g)),
               items |-> Emit(Emit(items, Gave(g, b)), Item(Origin(g), Stays(g, b), TRUE))]
      <4> HIDE DEF t
      <4> QED  BY <1>6, <1>e, <1>h, <1>i, Zenon
    <3>2. Delimited(s, Origin(g)) = whole
      BY <1>1 DEF Delimited, Gates
    <3> QED  BY <3>1, <3>2
  <2>2. /\ whole \in Gates /\ whole.generation = t.generation /\ whole.next = t.next
        /\ whole.prefixGeneration = Origin(g) /\ whole.late = t.late /\ whole.prefix = <<>>
        /\ whole.paste = ~t.paste
        /\ whole.pasteGeneration = IF t.paste THEN t.pasteGeneration ELSE Origin(g)
    BY <1>1, <1>4, BytesNone DEF Gates
  <2> HIDE DEF t, whole
  <2>3. /\ e.gate = whole
        /\ e.items = Emit(Emit(items, Gave(g, b)), Item(Origin(g), Stays(g, b), TRUE))
    BY <2>1
  <2> QED  BY <1>1, <1>6, <2>1, <2>2, <2>3 DEF ByteDecoded
<1>7. ASSUME ~Completes(g, b) PROVE ByteDecoded(e, g, items, b)
  <2>1. e = [gate |-> part, items |-> Emit(items, Gave(g, b))]
    <3> HIDE DEF t
    <3> QED  BY <1>7, <1>e, <1>h, <1>i, Zenon
  <2>2. /\ part \in Gates /\ part.generation = t.generation /\ part.next = t.next
        /\ part.prefixGeneration = Origin(g) /\ part.late = t.late /\ part.prefix = Stays(g, b)
        /\ part.paste = t.paste /\ part.pasteGeneration = t.pasteGeneration
    BY <1>1, <1>4 DEF Gates
  <2> HIDE DEF t, part
  <2>3. e.gate = part /\ e.items = Emit(items, Gave(g, b))
    BY <2>1
  <2> QED  BY <1>1, <1>7, <2>1, <2>2, <2>3 DEF ByteDecoded
<1> QED  BY <1>6, <1>7 DEF e

\* The stamps of a gate: what it holds back, and the paste it is in, are of
\* the attachment that is open.
Steady(g) ==
    g.generation # 0 =>
        /\ g.prefix # <<>> => g.prefixGeneration = g.generation
        /\ g.paste => g.pasteGeneration = g.generation

Stamped(g) ==
    /\ g.generation \in {0, g.next}
    /\ g.prefixGeneration <= g.next /\ g.pasteGeneration <= g.next

\* Items of no generation that is to come.
UpTo(last) == {item \in Inputs : item.generation <= last}

LEMMA UpToJoins == ASSUME NEW last \in Nat PROVE Joining(UpTo(last))
<1> SUFFICES ASSUME NEW e \in UpTo(last), NEW i \in UpTo(last)
             PROVE  [e EXCEPT !.data = Cat(@, i.data)] \in UpTo(last)
  BY DEF Joining, UpTo
<1>1. e.data \in Bytes /\ i.data \in Bytes /\ e \in Inputs /\ e.generation <= last
  BY DEF UpTo, Inputs
<1>2. Cat(e.data, i.data) \in Bytes
  BY <1>1, BytesCat
<1> QED  BY <1>1, <1>2 DEF UpTo, Inputs

\* What decoding keeps: the attachment's bytes are emitted or held back.
Keeps(e, g, sofar) ==
    /\ e = [gate |-> e.gate, items |-> e.items] /\ e.gate \in Gates
    /\ e.gate.generation = g.generation /\ e.gate.next = g.next
    /\ Steady(e.gate) /\ Stamped(e.gate) /\ e.items \in Seq(UpTo(g.next))
    /\ g.generation # 0 => Cat(DataOf(e.items, g.generation), e.gate.prefix) = sofar

\* One byte decoded: nothing of an open attachment is lost, doubled or
\* reordered, and what is held back stays its own.
LEMMA DecodeByteKeeps ==
    ASSUME NEW g \in Gates, Steady(g), Stamped(g), NEW items \in Seq(UpTo(g.next)),
           NEW b \in Byte, NEW d, d = [gate |-> g, items |-> items]
    PROVE  Keeps(DecodeByte(d, b), g,
                 Cat(Cat(DataOf(items, g.generation), g.prefix), <<b>>))
<1> DEFINE e == DecodeByte(d, b)
           G == g.generation
           S == UpTo(g.next)
           gave == Gave(g, b)
           done == Item(Origin(g), Stays(g, b), TRUE)
           some == Emit(items, gave)
<1>0. ByteDecoded(e, g, items, b)
  BY DecodeByteIs
<1> HIDE DEF e
<1>1. /\ e = [gate |-> e.gate, items |-> e.items] /\ e.gate \in Gates
      /\ e.gate.generation = g.generation /\ e.gate.next = g.next
      /\ e.gate.prefixGeneration = Origin(g)
      /\ Completes(g, b) =>
            /\ e.gate.prefix = <<>> /\ e.gate.paste = ~g.paste
            /\ e.gate.pasteGeneration = IF g.paste THEN g.pasteGeneration ELSE Origin(g)
            /\ e.items = Emit(some, done)
      /\ ~Completes(g, b) =>
            /\ e.gate.prefix = Stays(g, b) /\ e.gate.paste = g.paste
            /\ e.gate.pasteGeneration = g.pasteGeneration
            /\ e.items = some
  BY <1>0 DEF ByteDecoded
<1>2. /\ g.generation \in Nat /\ g.next \in Nat /\ g.generation <= g.next
      /\ g.prefix \in Bytes /\ g.paste \in BOOLEAN
  BY DEF Gates, Stamped
<1>3. Origin(g) \in Nat /\ Origin(g) <= g.next /\ (G # 0 => Origin(g) = G)
  <2>1. Epoch(g) <= g.next /\ (G # 0 => Epoch(g) = G)
    BY <1>2 DEF Epoch, Steady, Stamped
  <2>2. Origin(g) \in Nat
    BY HeldIs
  <2> QED  BY <2>1, <2>2 DEF Origin, Steady, Stamped
<1>4. gave \in S /\ done \in S /\ Joining(S)
  <2>1. gave \in Inputs /\ gave.generation = Origin(g)
    BY HeldIs DEF Gave, Item
  <2>2. done \in Inputs /\ done.generation = Origin(g)
    <3>1. Stays(g, b) \in Bytes /\ Origin(g) \in Nat
      BY HeldIs
    <3> QED  BY <3>1 DEF Item, Inputs
  <2> QED  BY <1>2, <1>3, <2>1, <2>2, UpToJoins DEF UpTo
<1>5. Steady(e.gate) /\ Stamped(e.gate)
  <2>1. CASE Completes(g, b)
    BY <1>1, <1>2, <1>3, <2>1 DEF Steady, Stamped
  <2>2. CASE ~Completes(g, b)
    BY <1>1, <1>2, <1>3, <2>2 DEF Steady, Stamped
  <2> QED  BY <2>1, <2>2
<1>6. some \in Seq(S) /\ DataOf(some, G) = Cat(DataOf(items, G), Part(gave, G))
  <2> HIDE DEF gave, S
  <2> QED  BY <1>4, EmitIs DEF S
<1>7. Emit(some, done) \in Seq(S) /\ DataOf(Emit(some, done), G) = Cat(DataOf(some, G), Part(done, G))
  <2> HIDE DEF some, done, S
  <2> QED  BY <1>4, <1>6, EmitIs
<1>8. e.items \in Seq(S)
  BY <1>1, <1>6, <1>7
<1>9. ASSUME G # 0
      PROVE  Cat(DataOf(e.items, G), e.gate.prefix) = Cat(Cat(DataOf(items, G), g.prefix), <<b>>)
  <2>1. Part(gave, G) = gave.data /\ Part(done, G) = Stays(g, b)
    BY <1>3, <1>9 DEF Part, Gave, Item
  <2>2. /\ Cat(gave.data, Stays(g, b)) = Cat(g.prefix, <<b>>)
        /\ gave.data \in Bytes /\ Stays(g, b) \in Bytes /\ <<b>> \in Bytes
    BY HeldIs DEF Inputs
  <2>3. DataOf(items, G) \in Bytes
    <3>1. S \subseteq Inputs
      BY DEF UpTo
    <3>2. items \in Seq(Inputs)
      BY <3>1, SeqMonotonic
    <3> QED  BY <3>2, DataIs
  <2> DEFINE one == <<b>>
  <2> HIDE DEF one, gave, some, done
  <2>4. Cat(Cat(DataOf(items, G), gave.data), Stays(g, b)) = Cat(Cat(DataOf(items, G), g.prefix), one)
    BY <1>2, <2>2, <2>3, BytesAssociate DEF one
  <2>5. CASE Completes(g, b)
    <3>1. DataOf(e.items, G) = Cat(Cat(DataOf(items, G), gave.data), Stays(g, b)) /\ e.gate.prefix = <<>>
      BY <1>1, <1>6, <1>7, <2>1, <2>5
    <3>2. DataOf(e.items, G) \in Bytes
      BY <2>2, <2>3, <3>1, BytesCat
    <3> QED  BY <2>4, <3>1, <3>2, BytesNone DEF one
  <2>6. CASE ~Completes(g, b)
    BY <1>1, <1>6, <2>1, <2>4, <2>6 DEF one
  <2> QED  BY <2>5, <2>6
<1>10. Keeps(e, g, Cat(Cat(DataOf(items, g.generation), g.prefix), <<b>>))
  BY <1>1, <1>5, <1>8, <1>9 DEF Keeps
<1> QED  BY <1>10 DEF e

-----------------------------------------------------------------------------
(* A run of bytes.                                                         *)

Runs(f, g, bytes, m) ==
    f = [n \in 0..m |-> IF n = 0 THEN [gate |-> g, items |-> <<>>]
                                 ELSE DecodeByte(f[n - 1], bytes[n])]

\* The recursive function of Decode is defined, one byte at a time.
LEMMA RunsExist ==
    ASSUME NEW g, NEW bytes, NEW m \in Nat
    PROVE  \E f : Runs(f, g, bytes, m)
<1> DEFINE first == [gate |-> g, items |-> <<>>]
           I == {n \in Nat : \E f : Runs(f, g, bytes, n)}
<1>1. 0 \in I
  <2>1. \A n \in 0..0 : n = 0
    OBVIOUS
  <2>2. Runs([n \in 0..0 |-> first], g, bytes, 0)
    BY <2>1 DEF Runs
  <2> QED  BY <2>2
<1>2. ASSUME NEW n \in Nat, n \in I PROVE n + 1 \in I
  <2>1. PICK f : Runs(f, g, bytes, n)
    BY <1>2
  <2> DEFINE Add(q, k) == DecodeByte(q, bytes[k])
             h == [k \in 0..(n + 1) |-> IF k = n + 1 THEN Add(f[n], n + 1) ELSE f[k]]
             e == [k \in 0..(n + 1) |-> IF k = 0 THEN first ELSE Add(h[k - 1], k)]
  <2>2. f = [k \in 0..n |-> IF k = 0 THEN first ELSE Add(f[k - 1], k)]
    BY <2>1 DEF Runs
  <2> HIDE DEF Add, first
  <2>3. ASSUME NEW k \in 0..(n + 1) PROVE h[k] = e[k]
    <3>1. CASE k = 0
      <4>1. 0 # n + 1 /\ 0 \in 0..n
        OBVIOUS
      <4>2. f[0] = first
        BY <2>2, <4>1
      <4> QED  BY <3>1, <4>1, <4>2
    <3>2. CASE k = n + 1
      <4>1. k # 0 /\ k - 1 = n /\ n \in 0..(n + 1) /\ n # n + 1
        BY <3>2
      <4>2. h[n] = f[n] /\ h[k] = Add(f[n], n + 1)
        BY <3>2, <4>1
      <4>3. e[k] = Add(h[n], k)
        BY <4>1
      <4> QED  BY <3>2, <4>2, <4>3
    <3>3. CASE k # 0 /\ k # n + 1
      <4>1. k \in 0..n /\ k - 1 \in 0..(n + 1) /\ k - 1 # n + 1
        BY <3>3
      <4>2. f[k] = Add(f[k - 1], k)
        BY <2>2, <3>3, <4>1
      <4>3. h[k] = f[k] /\ h[k - 1] = f[k - 1]
        BY <3>3, <4>1
      <4>4. e[k] = Add(h[k - 1], k)
        BY <3>3
      <4> QED  BY <4>2, <4>3, <4>4
    <3> QED  BY <3>1, <3>2, <3>3
  <2>4. h = e
    BY <2>3
  <2>5. Runs(h, g, bytes, n + 1)
    BY <2>4 DEF Runs, Add, first
  <2> QED  BY <2>5
<1>3. Nat \subseteq I
  <2> HIDE DEF I
  <2> QED  BY <1>1, <1>2, Inductively
<1> QED  BY <1>3

LEMMA DecodeRuns ==
    ASSUME NEW g, NEW bytes, NEW m \in Nat, m = Len(bytes)
    PROVE  \E f : /\ Decode(g, bytes) = f[m] /\ f[0] = [gate |-> g, items |-> <<>>]
                  /\ \A n \in 1..m : f[n] = DecodeByte(f[n - 1], bytes[n])
<1> DEFINE f == CHOOSE f : Runs(f, g, bytes, m)
<1>1. Decode(g, bytes) = f[m]
  BY Zenon DEF Decode, Runs
<1>2. Runs(f, g, bytes, m)
  BY RunsExist
<1> HIDE DEF f
<1>3. f[0] = [gate |-> g, items |-> <<>>] /\ \A n \in 1..m : f[n] = DecodeByte(f[n - 1], bytes[n])
  BY <1>2 DEF Runs
<1> QED  BY <1>1, <1>3

FirstOf(bytes, n) == SubSeq(bytes, 1, n)

LEMMA OneMore ==
    ASSUME NEW bytes \in Bytes, NEW n \in Nat, n + 1 <= Len(bytes)
    PROVE  /\ FirstOf(bytes, n) \in Bytes /\ bytes[n + 1] \in Byte /\ <<bytes[n + 1]>> \in Bytes
           /\ FirstOf(bytes, n + 1) = Cat(FirstOf(bytes, n), <<bytes[n + 1]>>)
<1>1. bytes \in Seq(Byte) /\ n + 1 \in 1..Len(bytes)
  BY DEF Bytes
<1>2. bytes[n + 1] \in Byte
  BY <1>1, ElementOfSeq
<1>3. FirstOf(bytes, n) \in Bytes
  <2>1. n \in 0..Len(bytes)
    BY <1>1
  <2> QED  BY <2>1, RestIs DEF FirstOf
<1>4. SubSeq(bytes, 1, n + 1) = SubSeq(bytes, 1, n) \o <<bytes[n + 1]>>
  <2>1. 1 \in 1..Len(bytes) /\ n + 1 \in 1..Len(bytes) /\ n + 1 - 1 = n
    BY <1>1
  <2>2. SubSeq(bytes, 1, n + 1) = SubSeq(bytes, 1, n + 1 - 1) \o <<bytes[n + 1]>>
    BY <1>1, <2>1, SubSeqRecursiveSecond
  <2> QED  BY <2>1, <2>2
<1>5. <<bytes[n + 1]>> \in Bytes
  BY <1>2 DEF Bytes
<1> QED  BY <1>2, <1>3, <1>4, <1>5 DEF FirstOf, Cat

\* The same of any run of bytes, wherever the reads cut it.
LEMMA DecodeKeeps ==
    ASSUME NEW g \in Gates, Steady(g), Stamped(g), NEW bytes \in Bytes
    PROVE  Keeps(Decode(g, bytes), g, Cat(g.prefix, bytes))
<1> DEFINE m == Len(bytes)
<1>1. m \in Nat /\ m = Len(bytes)
  BY LenProperties DEF Bytes
<1> HIDE DEF m
<1>2. PICK f : /\ Decode(g, bytes) = f[m] /\ f[0] = [gate |-> g, items |-> <<>>]
               /\ \A n \in 1..m : f[n] = DecodeByte(f[n - 1], bytes[n])
  BY <1>1, DecodeRuns
<1>3. g.prefix \in Bytes
  BY DEF Gates
<1> DEFINE Good(n) == Keeps(f[n], g, Cat(g.prefix, FirstOf(bytes, n)))
           I == {n \in Nat : n <= m => Good(n)}
<1>4. Good(0)
  <2>1. FirstOf(bytes, 0) = <<>>
    BY SubSeqEmpty DEF FirstOf
  <2>2. <<>> \in Seq(UpTo(g.next)) /\ DataOf(<<>>, g.generation) = <<>>
    BY DataOfNil
  <2>3. Cat(<<>>, g.prefix) = g.prefix /\ Cat(g.prefix, <<>>) = g.prefix
    BY <1>3, BytesNone
  <2> QED  BY <1>2, <2>1, <2>2, <2>3 DEF Keeps
<1>5. ASSUME NEW n \in Nat, n + 1 <= m, Good(n) PROVE Good(n + 1)
  <2> DEFINE d == f[n]
             b == bytes[n + 1]
             e == f[n + 1]
  <2>1. n + 1 \in 1..m /\ n + 1 - 1 = n
    BY <1>1, <1>5
  <2>2. e = DecodeByte(d, b)
    BY <1>2, <2>1
  <2>3. /\ FirstOf(bytes, n) \in Bytes /\ b \in Byte /\ <<b>> \in Bytes
        /\ FirstOf(bytes, n + 1) = Cat(FirstOf(bytes, n), <<b>>)
    BY <1>1, <1>5, OneMore
  <2>4. Keeps(d, g, Cat(g.prefix, FirstOf(bytes, n)))
    BY <1>5
  <2> HIDE DEF d, b, e
  <2>5. /\ d = [gate |-> d.gate, items |-> d.items] /\ d.gate \in Gates
        /\ d.gate.generation = g.generation /\ d.gate.next = g.next
        /\ Steady(d.gate) /\ Stamped(d.gate) /\ d.items \in Seq(UpTo(d.gate.next))
        /\ g.generation # 0 => Cat(DataOf(d.items, g.generation), d.gate.prefix)
                                  = Cat(g.prefix, FirstOf(bytes, n))
    BY <2>4 DEF Keeps
  <2>6. Keeps(e, d.gate, Cat(Cat(DataOf(d.items, g.generation), d.gate.prefix), <<b>>))
    BY <2>2, <2>3, <2>5, DecodeByteKeeps
  <2>7. g.generation # 0 => Cat(Cat(DataOf(d.items, g.generation), d.gate.prefix), <<b>>)
                               = Cat(g.prefix, FirstOf(bytes, n + 1))
    BY <1>3, <2>3, <2>5, BytesAssociate
  <2>8. Keeps(e, g, Cat(g.prefix, FirstOf(bytes, n + 1)))
    BY <2>5, <2>6, <2>7 DEF Keeps
  <2> QED  BY <2>8 DEF e
<1>6. Nat \subseteq I
  <2>1. 0 \in I
    BY <1>4
  <2>2. ASSUME NEW n \in Nat, n \in I PROVE n + 1 \in I
    <3> SUFFICES ASSUME n + 1 <= m PROVE Good(n + 1)
      OBVIOUS
    <3>1. n <= m
      BY <1>1
    <3>2. Good(n)
      BY <2>2, <3>1
    <3> QED  BY <1>5, <3>2
  <2> HIDE DEF I
  <2> QED  BY <2>1, <2>2, Inductively
<1>7. Good(m)
  <2> HIDE DEF Good
  <2> QED  BY <1>1, <1>6
<1>8. FirstOf(bytes, m) = bytes
  BY <1>1, SubSeqFull DEF FirstOf, Bytes
<1> QED  BY <1>2, <1>7, <1>8

-----------------------------------------------------------------------------
(* Every key once.                                                         *)

KeysInv ==
    /\ TypeOK /\ Stamped(gate) /\ Steady(gate)
    /\ outbox \in Seq(UpTo(gate.next)) /\ channel \in Seq(UpTo(gate.next))
    /\ EveryKeyOnce

\* Held bytes whose time is over follow what was emitted (flushPrefix).
LEMMA FlushIs ==
    ASSUME NEW g \in Gates, Steady(g), Stamped(g)
    PROVE  /\ Flush(g).gate \in Gates /\ Flush(g).gate.generation = g.generation
           /\ Flush(g).gate.next = g.next /\ Flush(g).gate.paste = g.paste
           /\ Steady(Flush(g).gate) /\ Stamped(Flush(g).gate)
           /\ Flush(g).items \in Seq(UpTo(g.next))
           /\ g.generation # 0 =>
                 Cat(DataOf(Flush(g).items, g.generation), Flush(g).gate.prefix) = g.prefix
<1>1. g.prefix \in Bytes
  BY DEF Gates
<1>2. CASE ~g.late \/ g.prefix = <<>>
  <2>1. Flush(g) = [gate |-> g, items |-> <<>>]
    BY <1>2 DEF Flush
  <2> QED  BY <1>1, <2>1, DataOfNil, BytesNone
<1>3. CASE g.late /\ g.prefix # <<>>
  <2> DEFINE f == [g EXCEPT !.prefix = <<>>, !.late = FALSE]
             item == Item(g.prefixGeneration, g.prefix, g.paste)
  <2>1. Flush(g) = [gate |-> f, items |-> <<item>>]
    BY <1>3 DEF Flush
  <2>2. /\ f \in Gates /\ f.generation = g.generation /\ f.next = g.next /\ f.prefix = <<>>
        /\ f.paste = g.paste /\ f.prefixGeneration = g.prefixGeneration
        /\ f.pasteGeneration = g.pasteGeneration
    BY BytesNone DEF Gates
  <2>3. item \in Inputs /\ item.generation = g.prefixGeneration /\ item.data = g.prefix
    BY <1>1 DEF Item, Inputs, Gates
  <2> HIDE DEF f, item
  <2>4. item \in UpTo(g.next)
    BY <2>3 DEF UpTo, Stamped
  <2>5. <<item>> \in Seq(UpTo(g.next))
    BY <2>4
  <2>6. Steady(f) /\ Stamped(f)
    BY <2>2 DEF Steady, Stamped
  <2>7. g.generation # 0 => DataOf(<<item>>, g.generation) = g.prefix
    BY <1>3, <2>3, DataOfOne DEF Steady, Part
  <2>8. Flush(g).gate = f /\ Flush(g).items = <<item>>
    BY <2>1
  <2>9. g.generation # 0 => Cat(DataOf(<<item>>, g.generation), f.prefix) = g.prefix
    BY <1>1, <2>2, <2>7, BytesNone
  <2> DEFINE items == <<item>>
  <2> HIDE DEF items
  <2> QED  BY <2>2, <2>5, <2>6, <2>8, <2>9 DEF items
<1> QED  BY <1>2, <1>3

\* Nothing in flight is of the generation that opens next.
LEMMA ItemsUpTo ==
    ASSUME NEW last \in Nat, NEW items \in Seq(UpTo(last))
    PROVE  /\ items \in Seq(Inputs) /\ items \in Seq(UpTo(last + 1))
           /\ DataOf(items, last + 1) = <<>>
<1>1. UpTo(last) \subseteq Inputs /\ UpTo(last) \subseteq UpTo(last + 1)
  BY DEF UpTo, Inputs
<1>2. items \in Seq(Inputs) /\ items \in Seq(UpTo(last + 1))
  BY <1>1, SeqMonotonic
<1>3. ASSUME NEW i \in DOMAIN items PROVE items[i].generation # last + 1
  <2>1. i \in 1..Len(items)
    OBVIOUS
  <2>2. items[i] \in UpTo(last)
    BY <2>1, ElementOfSeq
  <2> QED  BY <2>2 DEF UpTo, Inputs
<1> QED  BY <1>2, <1>3, DataOfNone

\* The unit typed, as bytes.
AsBytes(unit, paste) ==
    [i \in DOMAIN unit |->
       [key |-> unit[i], pasted |-> paste # NoPaste,
        origin |-> IF paste = NoPaste THEN gate.generation ELSE paste]]

LEMMA UnitKeys == ASSUME NEW unit \in Units PROVE unit \in Seq(Key)
<1>1. unit \in {<<"x">>, <<"e">>, PasteStart, PasteEnd}
  BY DEF Units
<1>2. <<"x">> \in Seq(Key) /\ <<"e">> \in Seq(Key)
  BY DEF Key
<1>3. PasteStart \in Seq(Key) /\ PasteEnd \in Seq(Key)
  BY DEF Key, PasteStart, PasteEnd
<1> HIDE DEF Key
<1> QED  BY <1>1, <1>2, <1>3, Zenon

LEMMA TypedBytes ==
    ASSUME NEW unit \in Seq(Key), NEW paste \in Int,
           gate.generation \in Nat, NEW bytes, bytes = AsBytes(unit, paste)
    PROVE  /\ bytes \in Bytes /\ Len(bytes) = Len(unit)
           /\ \A i \in 1..Len(unit) :
                 /\ bytes[i].key = unit[i] /\ bytes[i].pasted = (paste # NoPaste)
                 /\ paste # NoPaste => bytes[i].origin = paste
<1>2. Len(unit) \in Nat /\ DOMAIN unit = 1..Len(unit) /\ \A i \in 1..Len(unit) : unit[i] \in Key
  BY LenProperties, ElementOfSeq
<1> DEFINE n == Len(unit)
<1>3. bytes \in [1..n -> Byte]
  BY <1>2 DEF AsBytes, Byte
<1>4. bytes \in Seq(Byte) /\ Len(bytes) = n
  <2> HIDE DEF n
  <2>1. n \in Nat
    BY <1>2 DEF n
  <2> QED  BY <1>3, <2>1, FunctionIsSequence
<1>5. \A i \in 1..n : bytes[i] = [key |-> unit[i], pasted |-> paste # NoPaste,
                                  origin |-> IF paste = NoPaste THEN gate.generation ELSE paste]
  BY <1>2 DEF AsBytes
<1>6. \A i \in 1..n : /\ bytes[i].key = unit[i] /\ bytes[i].pasted = (paste # NoPaste)
                      /\ paste # NoPaste => bytes[i].origin = paste
  <2> TAKE i \in 1..n
  <2> HIDE DEF n
  <2>1. bytes[i] = [key |-> unit[i], pasted |-> paste # NoPaste,
                    origin |-> IF paste = NoPaste THEN gate.generation ELSE paste]
    BY <1>5
  <2> QED  BY <2>1
<1> QED  BY <1>4, <1>6, Zenon DEF Bytes

\* What is between the keyboard and the attachment, from the far end.
Line(s, c, o, p, k) == Cat(Cat(Cat(Cat(s, c), o), p), k)

\* EveryKeyOnce, now and after a step, in these words.
LEMMA OnceIs ==
    /\ EveryKeyOnce <=>
         (gate.generation # 0 =>
            typed = Line(sent, DataOf(channel, gate.generation),
                         DataOf(outbox, gate.generation), gate.prefix, kernel))
    /\ EveryKeyOnce' <=>
         (gate'.generation # 0 =>
            typed' = Line(sent', DataOf(channel', gate'.generation),
                          DataOf(outbox', gate'.generation), gate'.prefix, kernel'))
BY Zenon DEF EveryKeyOnce, Bound, Line, Cat

LEMMA LineIs ==
    ASSUME NEW s \in Bytes, NEW c \in Bytes, NEW o \in Bytes, NEW p \in Bytes, NEW k \in Bytes
    PROVE  Line(s, c, o, p, k) \in Bytes /\ Line(s, c, o, p, k) = Cat(Cat(Cat(s, c), o), Cat(p, k))
<1>1. Cat(s, c) \in Bytes
  BY BytesCat
<1>2. Cat(Cat(s, c), o) \in Bytes
  BY <1>1, BytesCat
<1>3. Cat(Cat(Cat(s, c), o), p) \in Bytes
  BY <1>2, BytesCat
<1> QED  BY <1>2, <1>3, BytesCat, BytesAssociate DEF Line

\* Sending and writing move bytes from one part of the line to the next: the line
\* itself stays the same.
LEMMA LineRegroups ==
    ASSUME NEW s \in Bytes, NEW c \in Bytes, NEW o \in Bytes, NEW p \in Bytes, NEW k \in Bytes
    PROVE  /\ Line(s, c, o, p, k) = Cat(Cat(s, c), Cat(o, Cat(p, k)))
           /\ Line(s, c, <<>>, p, k) = Cat(Cat(s, c), Cat(p, k))
<1>1. Cat(s, c) \in Bytes /\ Cat(p, k) \in Bytes /\ <<>> \in Bytes
  BY BytesCat, BytesNone
<1>2. Line(s, c, o, p, k) = Cat(Cat(Cat(s, c), o), Cat(p, k))
  BY LineIs
<1>3. Line(s, c, <<>>, p, k) = Cat(Cat(Cat(s, c), <<>>), Cat(p, k))
  BY <1>1, LineIs
<1> QED  BY <1>1, <1>2, <1>3, BytesAssociate, BytesNone

LEMMA LineSent ==
    ASSUME NEW s \in Bytes, NEW c \in Bytes, NEW h \in Bytes, NEW t \in Bytes,
           NEW p, NEW k
    PROVE  Line(s, c, Cat(h, t), p, k) = Line(s, Cat(c, h), t, p, k)
<1>1. Cat(Cat(s, c), Cat(h, t)) = Cat(Cat(Cat(s, c), h), t)
  <2>1. Cat(s, c) \in Bytes
    BY BytesCat
  <2> QED  BY <2>1, BytesAssociate
<1>2. Cat(Cat(s, c), h) = Cat(s, Cat(c, h))
  BY BytesAssociate
<1> QED  BY <1>1, <1>2 DEF Line

LEMMA LineTaken ==
    ASSUME NEW s \in Bytes, NEW h \in Bytes, NEW t \in Bytes, NEW o, NEW p, NEW k
    PROVE  Line(s, Cat(h, t), o, p, k) = Line(Cat(s, h), t, o, p, k)
BY BytesAssociate DEF Line

LEMMA LineOfNothing == Line(<<>>, <<>>, <<>>, <<>>, <<>>) = <<>>
BY CatNothing DEF Line

-----------------------------------------------------------------------------
(* The steps.                                                              *)

LEMMA KeysType ==
    ASSUME KeysInv, NEW unit \in Units, Type(unit)
    PROVE  KeysInv'
<1>1. /\ TypeOK /\ Stamped(gate) /\ Steady(gate) /\ EveryKeyOnce
      /\ outbox \in Seq(UpTo(gate.next)) /\ channel \in Seq(UpTo(gate.next))
  BY DEF KeysInv
<1> DEFINE paste == IF unit = PasteStart THEN gate.generation ELSE keyboard.paste
           bytes == AsBytes(unit, paste)
<1>2. /\ keyboard' = [units |-> keyboard.units + 1,
                      paste |-> IF unit = PasteEnd THEN NoPaste ELSE paste]
      /\ kernel' = kernel \o bytes
      /\ typed' = IF gate.generation = 0 THEN typed ELSE typed \o bytes
      /\ UNCHANGED <<gate, outbox, channel, sent, cause>>
  BY Zenon DEF Type, AsBytes
<1>3. unit \in Seq(Key)
  BY UnitKeys
<1>4. gate.generation \in Nat /\ gate.prefix \in Bytes /\ gate.next \in Nat
  BY <1>1 DEF TypeOK, Gates
<1>5. paste \in Int
  BY <1>1, <1>4 DEF TypeOK
<1> HIDE DEF paste
<1>6. bytes \in Bytes
  BY <1>3, <1>4, <1>5, TypedBytes
<1> HIDE DEF bytes
<1>7. kernel' = Cat(kernel, bytes) /\ typed' = IF gate.generation = 0 THEN typed ELSE Cat(typed, bytes)
  BY <1>2, Zenon DEF Cat
<1>8. TypeOK'
  <2>1. kernel' \in Bytes /\ typed' \in Bytes
    BY <1>1, <1>6, <1>7, BytesCat DEF TypeOK
  <2>2. keyboard' \in [units : Nat, paste : Int]
    BY <1>1, <1>2, <1>5 DEF TypeOK, NoPaste
  <2> QED  BY <1>1, <1>2, <2>1, <2>2 DEF TypeOK
<1>9. EveryKeyOnce'
  <2> SUFFICES ASSUME gate.generation # 0
               PROVE  typed' = Line(sent, DataOf(channel, gate.generation),
                                    DataOf(outbox, gate.generation), gate.prefix, kernel')
    BY <1>2, OnceIs
  <2> DEFINE c == DataOf(channel, gate.generation)
             o == DataOf(outbox, gate.generation)
  <2>1. sent \in Bytes /\ kernel \in Bytes /\ c \in Bytes /\ o \in Bytes
    BY <1>1, DataIs DEF TypeOK
  <2>2. typed = Line(sent, c, o, gate.prefix, kernel)
    BY <1>1, OnceIs
  <2>3. typed' = Cat(typed, bytes) /\ kernel' = Cat(kernel, bytes)
    BY <1>7
  <2> HIDE DEF c, o
  <2>4. Cat(Line(sent, c, o, gate.prefix, kernel), bytes) = Line(sent, c, o, gate.prefix, Cat(kernel, bytes))
    <3>1. /\ sent \in Bytes /\ c \in Bytes /\ o \in Bytes
          /\ gate.prefix \in Bytes /\ kernel \in Bytes /\ bytes \in Bytes
      BY <1>4, <1>6, <2>1, Zenon
    <3> DEFINE far == Cat(Cat(Cat(sent, c), o), gate.prefix)
    <3>2. Cat(Cat(sent, c), o) \in Bytes
      BY <3>1, BytesCat
    <3>3. far \in Bytes
      BY <3>1, <3>2, BytesCat
    <3>4. Line(sent, c, o, gate.prefix, kernel) = Cat(far, kernel)
          /\ Line(sent, c, o, gate.prefix, Cat(kernel, bytes)) = Cat(far, Cat(kernel, bytes))
      BY Zenon DEF Line
    <3> HIDE DEF far
    <3>5. Cat(Cat(far, kernel), bytes) = Cat(far, Cat(kernel, bytes))
      BY <3>1, <3>3, BytesAssociate
    <3> QED  BY <3>4, <3>5, Zenon
  <2>5. typed' = Line(sent, c, o, gate.prefix, kernel')
    BY <2>2, <2>3, <2>4, Zenon
  <2> QED  BY <2>5 DEF c, o
<1> QED  BY <1>1, <1>2, <1>8, <1>9 DEF KeysInv

LEMMA KeysParts ==
    ASSUME KeysInv
    PROVE  /\ TypeOK /\ Stamped(gate) /\ Steady(gate) /\ EveryKeyOnce
           /\ outbox \in Seq(UpTo(gate.next)) /\ channel \in Seq(UpTo(gate.next))
           /\ gate \in Gates /\ gate.generation \in Nat /\ gate.next \in Nat /\ gate.prefix \in Bytes
           /\ sent \in Bytes /\ kernel \in Bytes
           /\ DataOf(channel, gate.generation) \in Bytes /\ DataOf(outbox, gate.generation) \in Bytes
BY DataIs DEF KeysInv, TypeOK, Gates

LEMMA SplitKernel ==
    ASSUME NEW bytes \in Bytes, NEW n \in 0..Len(bytes)
    PROVE  /\ SubSeq(bytes, 1, n) \in Bytes /\ SubSeq(bytes, n + 1, Len(bytes)) \in Bytes
           /\ bytes = Cat(SubSeq(bytes, 1, n), SubSeq(bytes, n + 1, Len(bytes)))
BY RestIs DEF Rest

\* A read moves bytes from the kernel to the outbox and the prefix.
LEMMA KeysRead ==
    ASSUME KeysInv, NEW n \in 0..Len(kernel), Read(n)
    PROVE  KeysInv'
<1> DEFINE G == gate.generation
           flushed == Flush(gate)
           k1 == SubSeq(kernel, 1, n)
           k2 == SubSeq(kernel, n + 1, Len(kernel))
           decoded == Decode(flushed.gate, k1)
<1>1. /\ outbox = <<>> /\ gate' = decoded.gate /\ kernel' = k2
      /\ outbox' = flushed.items \o decoded.items
      /\ UNCHANGED <<channel, keyboard, typed, sent, cause>>
  BY DEF Read, loop
<1>2. /\ flushed.gate \in Gates /\ flushed.gate.generation = gate.generation
      /\ flushed.gate.next = gate.next
      /\ Steady(flushed.gate) /\ Stamped(flushed.gate)
      /\ flushed.items \in Seq(UpTo(gate.next))
      /\ gate.generation # 0 =>
            Cat(DataOf(flushed.items, gate.generation), flushed.gate.prefix) = gate.prefix
  BY KeysParts, FlushIs
<1>3. k1 \in Bytes /\ k2 \in Bytes /\ kernel = Cat(k1, k2)
  BY KeysParts, SplitKernel
<1> HIDE DEF flushed, k1, k2
<1>4. Keeps(decoded, flushed.gate, Cat(flushed.gate.prefix, k1))
  BY <1>2, <1>3, DecodeKeeps
<1> HIDE DEF decoded
<1>5. /\ decoded.gate \in Gates /\ decoded.gate.generation = gate.generation
      /\ decoded.gate.next = gate.next /\ Steady(decoded.gate) /\ Stamped(decoded.gate)
      /\ decoded.items \in Seq(UpTo(gate.next))
      /\ G # 0 => Cat(DataOf(decoded.items, G), decoded.gate.prefix) = Cat(flushed.gate.prefix, k1)
  BY <1>2, <1>4 DEF Keeps
<1>6. outbox' = Cat(flushed.items, decoded.items)
  BY <1>1, Zenon DEF Cat
<1>7. outbox' \in Seq(UpTo(gate.next))
  BY <1>2, <1>5, <1>6, CatIs
<1>8. flushed.items \in Seq(Inputs) /\ decoded.items \in Seq(Inputs) /\ outbox' \in Seq(Inputs)
  <2>1. UpTo(gate.next) \subseteq Inputs
    BY DEF UpTo
  <2> QED  BY <1>2, <1>5, <1>7, <2>1, SeqMonotonic
<1>9. TypeOK'
  BY <1>1, <1>3, <1>5, <1>8, KeysParts DEF TypeOK
<1>10. EveryKeyOnce'
  <2> SUFFICES ASSUME G # 0
               PROVE  typed = Line(sent, DataOf(channel, G), DataOf(outbox', G), decoded.gate.prefix, k2)
    BY <1>1, <1>5, OnceIs
  <2> DEFINE x == DataOf(flushed.items, G)
             y == flushed.gate.prefix
             z == DataOf(decoded.items, G)
             q == decoded.gate.prefix
             c == DataOf(channel, G)
  <2>1. x \in Bytes /\ y \in Bytes /\ z \in Bytes /\ q \in Bytes
    BY <1>2, <1>5, <1>8, DataIs DEF Gates
  <2>2. gate.prefix = Cat(x, y) /\ Cat(z, q) = Cat(y, k1) /\ gate.prefix \in Bytes
        /\ sent \in Bytes /\ c \in Bytes
    BY <1>2, <1>5, KeysParts
  <2>3. DataOf(outbox', G) = Cat(x, z) /\ DataOf(outbox, G) = <<>>
    <3>1. DataOf(Cat(flushed.items, decoded.items), G) = Cat(x, z)
      <4> HIDE DEF G
      <4> QED  BY <1>8, DataConcat
    <3>2. DataOf(outbox, G) = <<>>
      BY <1>1, DataOfNil
    <3> QED  BY <1>6, <3>1, <3>2
  <2>4. typed = Line(sent, c, DataOf(outbox, G), gate.prefix, kernel)
    BY KeysParts, OnceIs
  <2> HIDE DEF x, y, z, q, c, G
  <2> DEFINE w == Cat(x, z)
  <2>5. w \in Bytes /\ Cat(k1, k2) \in Bytes /\ Cat(q, k2) \in Bytes
    BY <1>3, <2>1, BytesCat
  <2>6. Cat(gate.prefix, kernel) = Cat(w, Cat(q, k2))
    <3>1. Cat(Cat(x, y), Cat(k1, k2)) = Cat(x, Cat(y, Cat(k1, k2)))
      BY <2>1, <2>5, BytesAssociate
    <3>2. Cat(Cat(x, z), Cat(q, k2)) = Cat(x, Cat(z, Cat(q, k2)))
      BY <2>1, <2>5, BytesAssociate
    <3>3. Cat(y, Cat(k1, k2)) = Cat(Cat(y, k1), k2)
      BY <1>3, <2>1, BytesAssociate
    <3>4. Cat(z, Cat(q, k2)) = Cat(Cat(z, q), k2)
      BY <1>3, <2>1, BytesAssociate
    <3> QED  BY <1>3, <2>2, <3>1, <3>2, <3>3, <3>4, Zenon
  <2> HIDE DEF w
  <2>7. Line(sent, c, <<>>, gate.prefix, kernel) = Cat(Cat(sent, c), Cat(gate.prefix, kernel))
    BY <2>2, KeysParts, LineRegroups
  <2>8. Line(sent, c, w, q, k2) = Cat(Cat(sent, c), Cat(w, Cat(q, k2)))
    <3>1. Cat(sent, c) \in Bytes
      BY <2>2, BytesCat
    <3>2. Cat(Cat(sent, c), w) \in Bytes
      BY <2>5, <3>1, BytesCat
    <3>3. Line(sent, c, w, q, k2) = Cat(Cat(Cat(sent, c), w), Cat(q, k2))
      BY <1>3, <2>1, <3>2, BytesAssociate DEF Line
    <3> QED  BY <2>5, <3>1, <3>3, BytesAssociate
  <2> QED  BY <2>3, <2>4, <2>6, <2>7, <2>8, Zenon DEF q, c, w
<1> QED  BY <1>1, <1>5, <1>7, <1>9, <1>10, KeysParts DEF KeysInv

LEMMA KeysSend ==
    ASSUME KeysInv, Send
    PROVE  KeysInv'
<1> DEFINE G == gate.generation
           h == Head(outbox)
           rest == Tail(outbox)
<1>1. /\ outbox # <<>> /\ outbox' = rest /\ channel' = Append(channel, h)
      /\ UNCHANGED <<gate, kernel, keyboard, typed, sent, cause>>
  BY DEF Send, loop
<1>2. h \in UpTo(gate.next) /\ rest \in Seq(UpTo(gate.next))
  BY <1>1, KeysParts, HeadTailProperties
<1>3. channel' \in Seq(UpTo(gate.next))
  BY <1>1, <1>2, KeysParts, AppendProperties
<1>4. /\ outbox \in Seq(Inputs) /\ channel \in Seq(Inputs) /\ h \in Inputs
      /\ outbox' \in Seq(Inputs) /\ channel' \in Seq(Inputs)
  <2>1. UpTo(gate.next) \subseteq Inputs
    BY DEF UpTo
  <2> QED  BY <1>1, <1>2, <1>3, <2>1, KeysParts, SeqMonotonic
<1>5. TypeOK'
  BY <1>1, <1>4, KeysParts DEF TypeOK
<1>6. EveryKeyOnce'
  <2> SUFFICES ASSUME G # 0
               PROVE  typed = Line(sent, DataOf(channel', G), DataOf(outbox', G), gate.prefix, kernel)
    BY <1>1, OnceIs
  <2>1. DataOf(outbox, G) = Cat(Part(h, G), DataOf(rest, G))
    BY <1>1, <1>4, DataTail
  <2>2. DataOf(channel', G) = Cat(DataOf(channel, G), Part(h, G))
    BY <1>1, <1>4, DataAppend
  <2>3. typed = Line(sent, DataOf(channel, G), DataOf(outbox, G), gate.prefix, kernel)
    BY KeysParts, OnceIs
  <2>4. /\ sent \in Bytes /\ DataOf(channel, G) \in Bytes
        /\ Part(h, G) \in Bytes /\ DataOf(rest, G) \in Bytes
    BY <1>1, <1>4, KeysParts, PartIs, DataIs
  <2> HIDE DEF h, rest, G
  <2> QED  BY <1>1, <2>1, <2>2, <2>3, <2>4, LineSent
<1> QED  BY <1>1, <1>2, <1>3, <1>5, <1>6, KeysParts DEF KeysInv

LEMMA KeysWait ==
    ASSUME KeysInv, Wait
    PROVE  KeysInv'
<1>1. /\ gate' = [gate EXCEPT !.late = TRUE]
      /\ UNCHANGED <<kernel, outbox, channel, keyboard, typed, sent, cause>>
  BY DEF Wait, loop
<1>2. /\ gate' \in Gates /\ gate'.generation = gate.generation /\ gate'.next = gate.next
      /\ gate'.prefix = gate.prefix /\ gate'.prefixGeneration = gate.prefixGeneration
      /\ gate'.paste = gate.paste /\ gate'.pasteGeneration = gate.pasteGeneration
  BY <1>1, KeysParts DEF Gates
<1>3. Steady(gate)' /\ Stamped(gate)'
  BY <1>2, KeysParts DEF Steady, Stamped
<1>4. TypeOK'
  BY <1>1, <1>2, KeysParts DEF TypeOK
<1>5. EveryKeyOnce'
  BY <1>1, <1>2, KeysParts, OnceIs
<1> QED  BY <1>1, <1>2, <1>3, <1>4, <1>5, KeysParts DEF KeysInv

\* The gate closes.
LEMMA ClosedIs ==
    ASSUME KeysInv
    PROVE  LET g == Closed(gate) IN
           /\ g \in Gates /\ g.generation = 0 /\ g.next = gate.next /\ g.prefix = gate.prefix
           /\ g.paste = gate.paste /\ g.late = gate.late
           /\ Steady(g) /\ Stamped(g)
<1> DEFINE g == Closed(gate)
<1>1. /\ g \in Gates /\ g.generation = 0 /\ g.next = gate.next /\ g.prefix = gate.prefix
      /\ g.paste = gate.paste /\ g.late = gate.late
      /\ g.prefixGeneration = gate.prefixGeneration /\ g.pasteGeneration = gate.pasteGeneration
  BY KeysParts DEF Closed, Gates
<1> HIDE DEF g
<1>2. Steady(g) /\ Stamped(g)
  BY <1>1, KeysParts DEF Steady, Stamped
<1> QED  BY <1>1, <1>2 DEF g

LEMMA KeysLose ==
    ASSUME KeysInv, Lose
    PROVE  KeysInv'
<1>1. gate' = Closed(gate) /\ UNCHANGED <<kernel, outbox, channel, keyboard, typed, sent, cause>>
  BY DEF Lose, loop
<1>2. /\ gate' \in Gates /\ gate'.generation = 0 /\ gate'.next = gate.next
      /\ Steady(gate)' /\ Stamped(gate)'
  BY <1>1, ClosedIs
<1>3. TypeOK'
  BY <1>1, <1>2, KeysParts DEF TypeOK
<1>4. EveryKeyOnce'
  BY <1>2 DEF EveryKeyOnce
<1> QED  BY <1>1, <1>2, <1>3, <1>4, KeysParts DEF KeysInv

LEMMA KeysTakeInput ==
    ASSUME KeysInv, TakeInput
    PROVE  KeysInv'
<1> DEFINE G == gate.generation
           h == Head(channel)
           rest == Tail(channel)
<1>1. /\ channel # <<>> /\ G # 0 /\ h.generation = G /\ channel' = rest
      /\ UNCHANGED <<kernel, outbox, keyboard, typed, cause>>
  BY DEF TakeInput
<1>2. h \in UpTo(gate.next) /\ rest \in Seq(UpTo(gate.next))
  BY <1>1, KeysParts, HeadTailProperties
<1>3. channel \in Seq(Inputs) /\ h \in Inputs /\ rest \in Seq(Inputs) /\ h.data \in Bytes
  <2>1. UpTo(gate.next) \subseteq Inputs
    BY DEF UpTo
  <2> QED  BY <1>2, <2>1, KeysParts, SeqMonotonic DEF Inputs
<1>4. CASE sent' = sent \o h.data /\ UNCHANGED gate
  <2>1. sent' = Cat(sent, h.data)
    BY <1>4, Zenon DEF Cat
  <2>2. TypeOK'
    <3>1. sent' \in Bytes
      BY <1>3, <2>1, KeysParts, BytesCat
    <3> QED  BY <1>1, <1>3, <1>4, <3>1, KeysParts DEF TypeOK
  <2>3. EveryKeyOnce'
    <3>1. DataOf(channel, G) = Cat(h.data, DataOf(rest, G))
      BY <1>1, <1>3, DataTail DEF Part
    <3>2. typed = Line(sent, DataOf(channel, G), DataOf(outbox, G), gate.prefix, kernel)
      BY <1>1, KeysParts, OnceIs
    <3>3. DataOf(rest, G) \in Bytes /\ sent \in Bytes
      BY <1>3, DataIs, KeysParts
    <3>4. typed = Line(Cat(sent, h.data), DataOf(rest, G), DataOf(outbox, G), gate.prefix, kernel)
      <4> HIDE DEF h, rest, G
      <4> QED  BY <1>3, <3>1, <3>2, <3>3, LineTaken
    <3> QED  BY <1>1, <1>4, <2>1, <3>4, OnceIs
  <2> QED  BY <1>1, <1>2, <1>4, <2>2, <2>3, KeysParts DEF KeysInv
<1>5. CASE gate' = Closed(gate) /\ UNCHANGED sent
  <2>1. /\ gate' \in Gates /\ gate'.generation = 0 /\ gate'.next = gate.next
        /\ Steady(gate)' /\ Stamped(gate)'
    BY <1>5, ClosedIs
  <2>2. TypeOK'
    BY <1>1, <1>3, <1>5, <2>1, KeysParts DEF TypeOK
  <2>3. EveryKeyOnce'
    BY <2>1 DEF EveryKeyOnce
  <2> QED  BY <1>1, <1>2, <1>5, <2>1, <2>2, <2>3, KeysParts DEF KeysInv
<1> QED  BY <1>4, <1>5 DEF TakeInput

\* What a call of open that read n bytes leaves: the gate it found, or an
\* open one.
Opened(n, drained, g) ==
    /\ drained = Decode(gate, SubSeq(kernel, 1, n)).gate
    /\ kernel' = SubSeq(kernel, n + 1, Len(kernel))
    /\ g = IF kernel' = <<>> THEN Flush(drained).gate ELSE [drained EXCEPT !.late = FALSE]
    /\ drained \in Gates /\ drained.generation = 0 /\ drained.next = gate.next
    /\ Steady(drained) /\ Stamped(drained)
    /\ g \in Gates /\ g.generation = 0 /\ g.next = gate.next /\ g.paste = drained.paste
    /\ Steady(g) /\ Stamped(g)
    /\ \/ /\ kernel' = <<>> /\ ~g.paste /\ g.prefix = <<>>
          /\ gate' = [g EXCEPT !.next = @ + 1, !.generation = g.next + 1]
          /\ typed' = <<>> /\ sent' = <<>>
       \/ gate' = g /\ UNCHANGED <<typed, sent>>

LEMMA OpeningIs ==
    ASSUME KeysInv, Opening
    PROVE  \E n \in 0..Len(kernel) : \E drained, g : Opened(n, drained, g)
<1>1. PICK n \in 0..Len(kernel) :
        LET drained == Drain(n)
            rest == SubSeq(kernel, n + 1, Len(kernel))
            g == IF rest = <<>> THEN Flush(drained).gate ELSE [drained EXCEPT !.late = FALSE]
        IN /\ kernel' = rest
           /\ IF Boundary(g, rest)
              THEN /\ gate' = [g EXCEPT !.next = @ + 1, !.generation = g.next + 1]
                   /\ typed' = <<>> /\ sent' = <<>>
              ELSE gate' = g /\ UNCHANGED <<typed, sent>>
  BY DEF Opening
<1> DEFINE drained == Decode(gate, SubSeq(kernel, 1, n)).gate
           rest == SubSeq(kernel, n + 1, Len(kernel))
           g == IF rest = <<>> THEN Flush(drained).gate ELSE [drained EXCEPT !.late = FALSE]
<1>2. /\ kernel' = rest
      /\ \/ /\ rest = <<>> /\ ~g.paste /\ g.prefix = <<>>
            /\ gate' = [g EXCEPT !.next = @ + 1, !.generation = g.next + 1]
            /\ typed' = <<>> /\ sent' = <<>>
         \/ gate' = g /\ UNCHANGED <<typed, sent>>
  BY <1>1, Zenon DEF Drain, Boundary
<1>3. SubSeq(kernel, 1, n) \in Bytes /\ gate.generation = 0
  BY KeysParts, SplitKernel DEF Opening
<1>4. Keeps(Decode(gate, SubSeq(kernel, 1, n)), gate, Cat(gate.prefix, SubSeq(kernel, 1, n)))
  BY <1>3, KeysParts, DecodeKeeps
<1>5. /\ drained \in Gates /\ drained.generation = 0 /\ drained.next = gate.next
      /\ Steady(drained) /\ Stamped(drained)
  BY <1>3, <1>4 DEF Keeps
<1> HIDE DEF drained
<1>6. /\ g \in Gates /\ g.generation = 0 /\ g.next = gate.next /\ g.paste = drained.paste
      /\ Steady(g) /\ Stamped(g)
  <2>1. CASE rest = <<>>
    <3>1. g = Flush(drained).gate
      BY <2>1
    <3> HIDE DEF g
    <3> QED  BY <1>5, <3>1, FlushIs
  <2>2. CASE rest # <<>>
    <3>1. g = [drained EXCEPT !.late = FALSE]
      BY <2>2
    <3> HIDE DEF g
    <3>2. /\ g \in Gates /\ g.generation = drained.generation /\ g.next = drained.next
          /\ g.paste = drained.paste /\ g.prefix = drained.prefix
          /\ g.prefixGeneration = drained.prefixGeneration
          /\ g.pasteGeneration = drained.pasteGeneration
      BY <1>5, <3>1 DEF Gates
    <3> QED  BY <1>5, <3>2 DEF Steady, Stamped
  <2> QED  BY <2>1, <2>2
<1>7. g = IF kernel' = <<>> THEN Flush(drained).gate ELSE [drained EXCEPT !.late = FALSE]
  BY <1>2
<1>8. drained = Decode(gate, SubSeq(kernel, 1, n)).gate /\ kernel' = SubSeq(kernel, n + 1, Len(kernel))
  BY <1>2 DEF drained
<1> HIDE DEF g, rest
<1>9. Opened(n, drained, g)
  BY <1>2, <1>5, <1>6, <1>7, <1>8, Zenon DEF Opened
<1> QED  BY <1>9

\* The part of the invariant that a call of open restores.
LEMMA KeysOpening ==
    ASSUME KeysInv, Opening
    PROVE  /\ gate' \in Gates /\ Stamped(gate)' /\ Steady(gate)' /\ kernel' \in Bytes
           /\ gate'.next \in {gate.next, gate.next + 1}
           /\ typed' \in Bytes /\ sent' \in Bytes
           /\ gate'.generation # 0 =>
                 /\ gate'.next = gate.next + 1 /\ gate'.generation = gate.next + 1
                 /\ gate'.prefix = <<>> /\ kernel' = <<>> /\ typed' = <<>> /\ sent' = <<>>
<1>1. PICK n \in 0..Len(kernel) : \E drained, g : Opened(n, drained, g)
  BY OpeningIs
<1>2. PICK drained, g : Opened(n, drained, g)
  BY <1>1
<1>3. /\ kernel' = SubSeq(kernel, n + 1, Len(kernel))
      /\ g \in Gates /\ g.generation = 0 /\ g.next = gate.next
      /\ Steady(g) /\ Stamped(g)
      /\ \/ /\ kernel' = <<>> /\ ~g.paste /\ g.prefix = <<>>
            /\ gate' = [g EXCEPT !.next = @ + 1, !.generation = g.next + 1]
            /\ typed' = <<>> /\ sent' = <<>>
         \/ gate' = g /\ UNCHANGED <<typed, sent>>
  BY <1>2 DEF Opened
<1>4. kernel' \in Bytes /\ typed \in Bytes /\ sent \in Bytes /\ gate.next \in Nat
  BY <1>3, KeysParts, SplitKernel DEF TypeOK
<1>5. CASE /\ kernel' = <<>> /\ ~g.paste /\ g.prefix = <<>>
           /\ gate' = [g EXCEPT !.next = @ + 1, !.generation = g.next + 1]
           /\ typed' = <<>> /\ sent' = <<>>
  <2>1. /\ gate' \in Gates /\ gate'.next = gate.next + 1 /\ gate'.generation = gate.next + 1
        /\ gate'.prefix = <<>> /\ ~gate'.paste
        /\ gate'.prefixGeneration = g.prefixGeneration
        /\ gate'.pasteGeneration = g.pasteGeneration
    <3> DEFINE f == [g EXCEPT !.next = @ + 1]
               h == [f EXCEPT !.generation = g.next + 1]
    <3>1. g \in Gates /\ g.next = gate.next /\ gate.next \in Nat /\ ~g.paste /\ g.prefix = <<>>
      BY <1>3, <1>4, <1>5
    <3>0. /\ f \in Gates /\ f.next = gate.next + 1 /\ f.prefix = <<>> /\ ~f.paste
          /\ f.prefixGeneration = g.prefixGeneration
          /\ f.pasteGeneration = g.pasteGeneration
      BY <3>1 DEF Gates
    <3>3. gate' = h
      BY <1>5
    <3> HIDE DEF f
    <3>2. /\ h \in Gates /\ h.next = gate.next + 1 /\ h.generation = gate.next + 1
          /\ h.prefix = <<>> /\ ~h.paste
          /\ h.prefixGeneration = g.prefixGeneration
          /\ h.pasteGeneration = g.pasteGeneration
      BY <3>0, <3>1 DEF Gates
    <3> HIDE DEF h
    <3> QED  BY <3>2, <3>3
  <2>2. g.prefixGeneration <= gate.next + 1 /\ g.pasteGeneration <= gate.next + 1
    BY <1>3, <1>4 DEF Stamped, Gates
  <2>3. Stamped(gate)' /\ Steady(gate)'
    BY <2>1, <2>2 DEF Stamped, Steady
  <2> QED  BY <1>4, <1>5, <2>1, <2>3, BytesNone
<1>6. CASE gate' = g /\ UNCHANGED <<typed, sent>>
  BY <1>3, <1>4, <1>6
<1> QED  BY <1>3, <1>5, <1>6

\* An item of another generation takes nothing from the line, and an
\* opening starts an empty one.
LEMMA KeysOther ==
    ASSUME KeysInv, Opening \/ NotOpening,
           UNCHANGED <<outbox, keyboard>>,
           channel' = channel \/
              (channel # <<>> /\ channel' = Tail(channel) /\
               (gate.generation = 0 \/ Head(channel).generation # gate.generation)),
           cause' \in Bytes
    PROVE  KeysInv'
<1>1. /\ channel' \in Seq(UpTo(gate.next)) /\ outbox' \in Seq(UpTo(gate.next))
      /\ gate.generation # 0 => DataOf(channel', gate.generation) = DataOf(channel, gate.generation)
  <2>1. CASE channel' = channel
    BY <2>1, KeysParts
  <2>2. CASE /\ channel # <<>> /\ channel' = Tail(channel)
             /\ gate.generation = 0 \/ Head(channel).generation # gate.generation
    <3>1. Tail(channel) \in Seq(UpTo(gate.next))
      BY <2>2, KeysParts, HeadTailProperties
    <3>2. ASSUME gate.generation # 0
          PROVE  DataOf(channel', gate.generation) = DataOf(channel, gate.generation)
      <4>1. channel \in Seq(Inputs)
        BY KeysParts DEF TypeOK
      <4>2. /\ DataOf(channel, gate.generation)
                 = Cat(Part(Head(channel), gate.generation), DataOf(Tail(channel), gate.generation))
            /\ Tail(channel) \in Seq(Inputs)
        BY <2>2, <4>1, DataTail
      <4>3. Part(Head(channel), gate.generation) = <<>>
        BY <2>2, <3>2 DEF Part
      <4>4. DataOf(Tail(channel), gate.generation) \in Bytes
        BY <4>2, DataIs
      <4> QED  BY <2>2, <4>2, <4>3, <4>4, BytesNone
    <3> QED  BY <2>2, <3>1, <3>2, KeysParts
  <2> QED  BY <2>1, <2>2
<1>2. CASE NotOpening
  <2>1. UNCHANGED <<gate, kernel, typed, sent>>
    BY <1>2 DEF NotOpening
  <2>2. channel' \in Seq(Inputs)
    BY <1>1, KeysParts, ItemsUpTo
  <2>3. TypeOK'
    BY <2>1, <2>2, KeysParts DEF TypeOK
  <2>4. EveryKeyOnce'
    BY <1>1, <2>1, KeysParts, OnceIs
  <2> QED  BY <1>1, <2>1, <2>3, <2>4, KeysParts DEF KeysInv
<1>3. CASE Opening
  <2>1. /\ gate' \in Gates /\ Stamped(gate)' /\ Steady(gate)' /\ kernel' \in Bytes
        /\ gate'.next \in {gate.next, gate.next + 1}
        /\ typed' \in Bytes /\ sent' \in Bytes
        /\ gate'.generation # 0 =>
              /\ gate'.next = gate.next + 1 /\ gate'.generation = gate.next + 1
              /\ gate'.prefix = <<>> /\ kernel' = <<>> /\ typed' = <<>> /\ sent' = <<>>
    BY <1>3, KeysOpening
  <2>2. /\ channel' \in Seq(Inputs) /\ outbox' \in Seq(Inputs)
        /\ channel' \in Seq(UpTo(gate.next + 1)) /\ outbox' \in Seq(UpTo(gate.next + 1))
        /\ DataOf(channel', gate.next + 1) = <<>> /\ DataOf(outbox', gate.next + 1) = <<>>
    BY <1>1, KeysParts, ItemsUpTo
  <2>3. channel' \in Seq(UpTo(gate'.next)) /\ outbox' \in Seq(UpTo(gate'.next))
    BY <1>1, <2>1, <2>2
  <2>4. TypeOK'
    BY <2>1, <2>2, KeysParts DEF TypeOK
  <2>5. EveryKeyOnce'
    BY <2>1, <2>2, OnceIs, LineOfNothing
  <2> QED  BY <2>1, <2>3, <2>4, <2>5 DEF KeysInv
<1> QED  BY <1>2, <1>3

LEMMA KeysTakeOther ==
    ASSUME KeysInv, TakeOther
    PROVE  KeysInv'
<1>1. /\ channel # <<>> /\ channel' = Tail(channel) /\ (Opening \/ NotOpening)
      /\ gate.generation = 0 \/ Head(channel).generation # gate.generation
      /\ cause' = Head(channel).data \/ cause' = cause
      /\ UNCHANGED <<outbox, keyboard>>
  BY DEF TakeOther
<1>2. cause' \in Bytes
  <2>1. Head(channel) \in Inputs
    <3>1. channel \in Seq(Inputs)
      BY KeysParts DEF TypeOK
    <3> QED  BY <1>1, <3>1, HeadAndTail
  <2>2. Head(channel).data \in Bytes
    BY <2>1 DEF Inputs
  <2>3. cause \in Bytes
    BY KeysParts DEF TypeOK
  <2> QED  BY <1>1, <2>2, <2>3
<1> QED  BY <1>1, <1>2, KeysOther

LEMMA KeysTick ==
    ASSUME KeysInv, Tick
    PROVE  KeysInv'
<1>1. Opening /\ UNCHANGED <<outbox, channel, keyboard, cause>>
  BY DEF Tick
<1>2. cause' \in Bytes
  BY <1>1, KeysParts DEF TypeOK
<1> QED  BY <1>1, <1>2, KeysOther

LEMMA KeysInit == Init => KeysInv
<1> SUFFICES ASSUME Init PROVE KeysInv
  OBVIOUS
<1>1. /\ gate = NewGate /\ kernel = <<>> /\ outbox = <<>> /\ channel = <<>>
      /\ keyboard = [units |-> 0, paste |-> NoPaste] /\ typed = <<>> /\ sent = <<>> /\ cause = <<>>
  BY DEF Init
<1>2. gate \in Gates /\ gate.generation = 0 /\ gate.next = 0 /\ Stamped(gate) /\ Steady(gate)
  BY <1>1, BytesNone DEF NewGate, Gates, Stamped, Steady
<1>3. outbox \in Seq(UpTo(gate.next)) /\ channel \in Seq(UpTo(gate.next))
  BY <1>1
<1>4. TypeOK
  <2>1. keyboard \in [units : Nat, paste : Int]
    BY <1>1 DEF NoPaste
  <2> QED  BY <1>1, <1>2, <2>1, BytesNone DEF TypeOK
<1> QED  BY <1>2, <1>3, <1>4 DEF KeysInv, EveryKeyOnce

LEMMA KeysNext == KeysInv /\ [Next]_vars => KeysInv'
<1> SUFFICES ASSUME KeysInv, [Next]_vars PROVE KeysInv'
  OBVIOUS
<1>1. ASSUME NEW unit \in Units, Type(unit) PROVE KeysInv'
  BY <1>1, KeysType
<1>2. ASSUME NEW n \in 0..Len(kernel), Read(n) PROVE KeysInv'
  BY <1>2, KeysRead
<1>3. CASE Send
  BY <1>3, KeysSend
<1>4. CASE Wait
  BY <1>4, KeysWait
<1>5. CASE TakeInput
  BY <1>5, KeysTakeInput
<1>6. CASE TakeOther
  BY <1>6, KeysTakeOther
<1>7. CASE Tick
  BY <1>7, KeysTick
<1>8. CASE Lose
  BY <1>8, KeysLose
<1>9. CASE UNCHANGED vars
  BY <1>9 DEF vars, loop, KeysInv, TypeOK, Stamped, Steady, EveryKeyOnce, Bound
<1> QED  BY <1>1, <1>2, <1>3, <1>4, <1>5, <1>6, <1>7, <1>8, <1>9 DEF Next

\* The invariant of the input gate holds in every state.
LEMMA KeysInvariant == Spec => []KeysInv
<1>1. Init => KeysInv
  BY KeysInit
<1>2. KeysInv /\ [Next]_vars => KeysInv'
  BY KeysNext
<1> QED  BY <1>1, <1>2, PTL DEF Spec

\* EveryKeyOnce, for every bound on typing, openings and the channel, and
\* with a reader that may stall: while an attachment is open, what was typed
\* since it opened is what was written to it, then what is in flight, held
\* back or unread, in this order, each byte once (sessionInputGate.decode,
\* open and the reader, session_terminal.go, lines 39-177).
THEOREM EveryKeyOnceHolds == Spec => []EveryKeyOnce
<1>1. KeysInv => EveryKeyOnce
  BY DEF KeysInv
<1> QED  BY <1>1, KeysInvariant, PTL

-----------------------------------------------------------------------------
(* What a terminal emits, byte by byte: outside a paste, in one, or in the *)
(* midst of a delimiter.                                                   *)

\* The modes of the terminal, and the byte that leads from one to the next.
Modes == {"out", "start1", "start2", "in", "end1", "end2"}

Moves(m, b, n) ==
    \/ m = "out" /\ b.key \in {"x", "e"} /\ ~b.pasted /\ n = "out"
    \/ m = "out" /\ b.key = "e" /\ b.pasted /\ n = "start1"
    \/ m = "start1" /\ b.key = "0" /\ b.pasted /\ n = "start2"
    \/ m = "start2" /\ b.key = "t" /\ b.pasted /\ n = "in"
    \/ m = "in" /\ b.key = "x" /\ b.pasted /\ n = "in"
    \/ m = "in" /\ b.key = "e" /\ b.pasted /\ n = "end1"
    \/ m = "end1" /\ b.key = "1" /\ b.pasted /\ n = "end2"
    \/ m = "end2" /\ b.key = "t" /\ b.pasted /\ n = "out"

\* A run of bytes leads from one mode to another along a path.
Path(p, m, bytes, n) ==
    /\ p \in [0..Len(bytes) -> Modes] /\ p[0] = m /\ p[Len(bytes)] = n
    /\ \A i \in 1..Len(bytes) : Moves(p[i - 1], bytes[i], p[i])

Leads(m, bytes, n) == \E p : Path(p, m, bytes, n)

\* The empty run leads nowhere; two runs lead where the second does; and a
\* run may be cut at any byte.
LEMMA LeadsNowhere ==
    ASSUME NEW m \in Modes, NEW n \in Modes
    PROVE  Leads(m, <<>>, n) <=> m = n
<1>1. Len(<<>>) = 0 /\ 0..0 = {0}
  OBVIOUS
<1>2. ASSUME m = n PROVE Leads(m, <<>>, n)
  <2> DEFINE p == [i \in 0..0 |-> m]
  <2>1. p \in [0..0 -> Modes] /\ p[0] = m
    OBVIOUS
  <2>2. \A i \in 1..0 : FALSE
    OBVIOUS
  <2> HIDE DEF p
  <2> QED  BY <1>1, <1>2, <2>1, <2>2 DEF Leads, Path
<1>3. ASSUME Leads(m, <<>>, n) PROVE m = n
  BY <1>1, <1>3 DEF Leads, Path
<1> QED  BY <1>2, <1>3

LEMMA LeadsOn ==
    ASSUME NEW m \in Modes, NEW s \in Bytes, NEW n \in Modes, NEW t \in Bytes, NEW q \in Modes,
           Leads(m, s, n), Leads(n, t, q)
    PROVE  Leads(m, Cat(s, t), q)
<1> DEFINE k == Len(s)
           l == Len(t)
           u == Cat(s, t)
<1>1. /\ k \in Nat /\ l \in Nat /\ k = Len(s) /\ l = Len(t) /\ Len(u) = k + l
      /\ \A i \in 1..(k + l) : u[i] = IF i <= k THEN s[i] ELSE t[i - k]
  BY CatIs, LenProperties DEF Bytes
<1> HIDE DEF k, l, u
<1>2. PICK p : p \in [0..k -> Modes] /\ p[0] = m /\ p[k] = n /\ \A i \in 1..k : Moves(p[i - 1], s[i], p[i])
  BY <1>1 DEF Leads, Path
<1>3. PICK r : r \in [0..l -> Modes] /\ r[0] = n /\ r[l] = q /\ \A i \in 1..l : Moves(r[i - 1], t[i], r[i])
  BY <1>1 DEF Leads, Path
<1> DEFINE f == [i \in 0..(k + l) |-> IF i <= k THEN p[i] ELSE r[i - k]]
<1>4. \A i \in 0..(k + l) : f[i] = IF i <= k THEN p[i] ELSE r[i - k]
  OBVIOUS
<1>5. f \in [0..(k + l) -> Modes]
  <2>1. ASSUME NEW i \in 0..(k + l) PROVE (IF i <= k THEN p[i] ELSE r[i - k]) \in Modes
    <3>1. i <= k => i \in 0..k
      BY <1>1
    <3>2. ~(i <= k) => i - k \in 0..l
      BY <1>1
    <3> QED  BY <1>2, <1>3, <3>1, <3>2
  <2> QED  BY <2>1
<1> HIDE DEF f
<1>6. f[0] = m /\ f[k + l] = q
  <2>1. 0 \in 0..(k + l) /\ 0 <= k /\ k + l \in 0..(k + l) /\ k + l - k = l
    BY <1>1
  <2>2. k + l <= k => l = 0 /\ k + l = k
    BY <1>1
  <2>3. f[0] = m
    BY <1>2, <1>4, <2>1
  <2>4. CASE k + l <= k
    <3>1. l = 0 /\ f[k + l] = p[k + l] /\ k + l = k
      BY <1>4, <2>1, <2>2, <2>4
    <3>2. p[k + l] = p[k] /\ r[l] = r[0]
      BY <3>1, Zenon
    <3> QED  BY <1>2, <1>3, <2>3, <3>1, <3>2, Zenon
  <2>5. CASE ~(k + l <= k)
    <3>1. f[k + l] = r[k + l - k]
      BY <1>1, <1>4, <2>1, <2>5
    <3> QED  BY <1>3, <2>1, <2>3, <3>1
  <2> QED  BY <2>4, <2>5
<1>7. ASSUME NEW i \in 1..(k + l) PROVE Moves(f[i - 1], u[i], f[i])
  <2>1. i - 1 \in 0..(k + l) /\ i \in 0..(k + l)
    BY <1>1
  <2>2. CASE i <= k
    <3>1. i \in 1..k /\ i - 1 <= k
      BY <1>1, <2>2
    <3>2. f[i] = p[i] /\ f[i - 1] = p[i - 1] /\ u[i] = s[i]
      BY <1>1, <1>4, <2>1, <2>2, <3>1
    <3> QED  BY <1>2, <3>1, <3>2
  <2>3. CASE ~(i <= k) /\ i - 1 <= k
    <3>1. i - 1 = k /\ i - k = 1 /\ 1 \in 1..l /\ 1 - 1 = 0
      BY <1>1, <2>3
    <3>2. f[i] = r[1] /\ f[i - 1] = r[0] /\ u[i] = t[1]
      BY <1>1, <1>2, <1>3, <1>4, <2>1, <2>3, <3>1
    <3> QED  BY <1>3, <3>1, <3>2
  <2>4. CASE ~(i - 1 <= k)
    <3>1. i - k \in 1..l /\ i - 1 - k = i - k - 1 /\ ~(i <= k)
      BY <1>1, <2>4
    <3>2. f[i] = r[i - k] /\ f[i - 1] = r[i - k - 1] /\ u[i] = t[i - k]
      BY <1>1, <1>4, <2>1, <2>4, <3>1
    <3> QED  BY <1>3, <3>1, <3>2
  <2> QED  BY <2>2, <2>3, <2>4
<1>8. Path(f, m, u, q)
  BY <1>1, <1>5, <1>6, <1>7 DEF Path
<1> QED  BY <1>8 DEF Leads, u

LEMMA LeadsSplit ==
    ASSUME NEW m \in Modes, NEW bytes \in Bytes, NEW q \in Modes, NEW k \in 0..Len(bytes),
           Leads(m, bytes, q)
    PROVE  \E n \in Modes : Leads(m, SubSeq(bytes, 1, k), n) /\ Leads(n, SubSeq(bytes, k + 1, Len(bytes)), q)
<1> DEFINE l == Len(bytes)
           s == SubSeq(bytes, 1, k)
           t == SubSeq(bytes, k + 1, l)
<1>1. /\ l \in Nat /\ k \in Nat /\ k <= l /\ Len(t) = l - k /\ \A i \in 1..(l - k) : t[i] = bytes[k + i]
  BY RestIs DEF Rest
<1>2. Len(s) = k /\ \A i \in 1..k : s[i] = bytes[i]
  BY StartIs
<1>3. PICK p : p \in [0..l -> Modes] /\ p[0] = m /\ p[l] = q /\ \A i \in 1..l : Moves(p[i - 1], bytes[i], p[i])
  BY DEF Leads, Path
<1> HIDE DEF l, s, t
<1> DEFINE f == [i \in 0..k |-> p[i]]
           g == [i \in 0..(l - k) |-> p[k + i]]
<1>4. /\ f \in [0..k -> Modes] /\ \A i \in 0..k : f[i] = p[i]
      /\ g \in [0..(l - k) -> Modes] /\ \A i \in 0..(l - k) : g[i] = p[k + i]
  <2>1. \A i \in 0..k : i \in 0..l
    BY <1>1
  <2>2. \A i \in 0..(l - k) : k + i \in 0..l
    BY <1>1
  <2> QED  BY <1>3, <2>1, <2>2
<1> HIDE DEF f, g
<1>5. Leads(m, s, p[k])
  <2>1. f[0] = m /\ f[k] = p[k]
    BY <1>1, <1>3, <1>4
  <2>2. ASSUME NEW i \in 1..k PROVE Moves(f[i - 1], s[i], f[i])
    <3>1. i \in 1..l /\ i - 1 \in 0..k /\ i \in 0..k
      BY <1>1
    <3> QED  BY <1>2, <1>3, <1>4, <3>1
  <2>3. Path(f, m, s, p[k])
    BY <1>2, <1>4, <2>1, <2>2 DEF Path
  <2> QED  BY <2>3 DEF Leads
<1>6. Leads(p[k], t, q)
  <2>1. g[0] = p[k] /\ g[l - k] = q
    <3>1. 0 \in 0..(l - k) /\ k + 0 = k /\ l - k \in 0..(l - k) /\ k + (l - k) = l
      BY <1>1
    <3>2. g[0] = p[k + 0] /\ g[l - k] = p[k + (l - k)]
      BY <1>4, <3>1
    <3> QED  BY <1>3, <3>1, <3>2
  <2>2. ASSUME NEW i \in 1..(l - k) PROVE Moves(g[i - 1], t[i], g[i])
    <3>1. k + i \in 1..l /\ i - 1 \in 0..(l - k) /\ i \in 0..(l - k) /\ k + (i - 1) = k + i - 1
      BY <1>1
    <3>2. g[i - 1] = p[k + i - 1] /\ g[i] = p[k + i] /\ t[i] = bytes[k + i]
      BY <1>1, <1>4, <3>1
    <3> QED  BY <1>3, <3>1, <3>2
  <2>3. Path(g, p[k], t, q)
    BY <1>1, <1>4, <2>1, <2>2 DEF Path
  <2> QED  BY <2>3 DEF Leads
<1>7. p[k] \in Modes
  BY <1>1, <1>3
<1> QED  BY <1>5, <1>6, <1>7 DEF s, t, l

\* What is held back in each of these: the beginning of a delimiter.
Fits(g, m) ==
    \/ /\ m = "out" /\ ~g.paste
       /\ \/ g.prefix = <<>>
          \/ Len(g.prefix) = 1 /\ g.prefix[1].key = "e" /\ ~g.prefix[1].pasted
    \/ m = "start1" /\ ~g.paste /\ Len(g.prefix) = 1 /\ g.prefix[1].key = "e"
    \/ m = "start2" /\ ~g.paste /\ Len(g.prefix) = 2 /\ g.prefix[1].key = "e" /\ g.prefix[2].key = "0"
    \/ m = "in" /\ g.paste /\ g.prefix = <<>>
    \/ m = "end1" /\ g.paste /\ Len(g.prefix) = 1 /\ g.prefix[1].key = "e"
    \/ m = "end2" /\ g.paste /\ Len(g.prefix) = 2 /\ g.prefix[1].key = "e" /\ g.prefix[2].key = "1"

\* Items that are not paste carry nothing of one.
Unpasted(bytes) == \A i \in DOMAIN bytes : ~bytes[i].pasted

Typing == {item \in Inputs : ~item.paste => Unpasted(item.data)}

LEMMA BytesParts ==
    ASSUME NEW s \in Bytes, NEW t \in Bytes
    PROVE  LET u == Cat(s, t)
               k == Len(s)
               l == Len(t)
           IN /\ k \in Nat /\ l \in Nat /\ DOMAIN s = 1..k /\ DOMAIN t = 1..l /\ DOMAIN u = 1..(k + l)
              /\ \A i \in 1..(k + l) : u[i] = IF i <= k THEN s[i] ELSE t[i - k]
<1> DEFINE u == Cat(s, t)
           k == Len(s)
           l == Len(t)
<1>1. s \in Seq(Byte) /\ t \in Seq(Byte)
  BY DEF Bytes
<1>2. /\ u \in Seq(Byte) /\ Len(u) = k + l
      /\ \A i \in 1..(k + l) : u[i] = IF i <= k THEN s[i] ELSE t[i - k]
  BY <1>1, CatIs
<1>3. k \in Nat /\ l \in Nat /\ DOMAIN s = 1..k /\ DOMAIN t = 1..l /\ DOMAIN u = 1..Len(u)
  <2> HIDE DEF u
  <2> QED  BY <1>1, <1>2, LenProperties
<1> QED  BY <1>2, <1>3

LEMMA UnpastedCat ==
    ASSUME NEW s \in Bytes, NEW t \in Bytes, Unpasted(s), Unpasted(t)
    PROVE  Unpasted(Cat(s, t))
<1> DEFINE u == Cat(s, t)
           k == Len(s)
           l == Len(t)
<1>1. /\ k \in Nat /\ l \in Nat /\ DOMAIN s = 1..k /\ DOMAIN t = 1..l /\ DOMAIN u = 1..(k + l)
      /\ \A i \in 1..(k + l) : u[i] = IF i <= k THEN s[i] ELSE t[i - k]
  BY BytesParts
<1> HIDE DEF u, k, l
<1>2. ASSUME NEW i \in 1..(k + l) PROVE ~u[i].pasted
  <2>1. CASE i <= k
    <3>1. i \in 1..k /\ u[i] = s[i]
      BY <1>1, <2>1
    <3> QED  BY <1>1, <3>1 DEF Unpasted
  <2>2. CASE ~(i <= k)
    <3>1. i - k \in 1..l /\ u[i] = t[i - k]
      BY <1>1, <2>2
    <3> QED  BY <1>1, <3>1 DEF Unpasted
  <2> QED  BY <2>1, <2>2
<1>3. Unpasted(u)
  BY <1>1, <1>2 DEF Unpasted
<1> QED  BY <1>3 DEF u

LEMMA TypingJoins == Joining(Typing)
<1> SUFFICES ASSUME NEW e \in Typing, NEW i \in Typing, e.paste = i.paste
             PROVE  [e EXCEPT !.data = Cat(@, i.data)] \in Typing
  BY DEF Joining, Typing
<1> DEFINE c == [e EXCEPT !.data = Cat(@, i.data)]
<1>1. /\ e.data \in Bytes /\ i.data \in Bytes /\ e \in Inputs
      /\ ~e.paste => Unpasted(e.data) /\ Unpasted(i.data)
  BY DEF Typing, Inputs
<1>2. Cat(e.data, i.data) \in Bytes
  BY <1>1, BytesCat
<1>3. c \in Inputs /\ c.paste = e.paste /\ c.data = Cat(e.data, i.data)
  BY <1>1, <1>2 DEF Inputs
<1>4. ~e.paste => Unpasted(Cat(e.data, i.data))
  BY <1>1, UnpastedCat
<1> HIDE DEF c
<1>5. c \in Typing
  BY <1>3, <1>4 DEF Typing
<1> QED  BY <1>5 DEF c

LEMMA TargetIs ==
    ASSUME NEW g \in Gates
    PROVE  /\ Len(Target(g)) = 3 /\ Target(g)[1] = "e" /\ Target(g)[3] = "t"
           /\ g.paste => Target(g)[2] = "1"
           /\ ~g.paste => Target(g)[2] = "0"
BY DEF Target, PasteStart, PasteEnd

\* The first k bytes are given up, and no others.
LEMMA UpIs ==
    ASSUME NEW g \in Gates, NEW b \in Byte, NEW k \in 0..Len(Held(g, b)),
           Begins(Held(g, b), k, Target(g)),
           \A j \in 0..Len(Held(g, b)) : j < k => ~Begins(Held(g, b), j, Target(g))
    PROVE  /\ Up(g, b) = k /\ (Completes(g, b) <=> Len(Held(g, b)) - k = 3)
           /\ Len(Stays(g, b)) = Len(Held(g, b)) - k
           /\ \A i \in 1..(Len(Held(g, b)) - k) : Stays(g, b)[i] = Held(g, b)[k + i]
<1>1. Held(g, b) \in Bytes /\ Target(g) \in Delimiter
  BY HeldIs
<1>2. Up(g, b) = k
  BY <1>1, GivenUpIs DEF Up
<1>3. Completes(g, b) <=> Len(Held(g, b)) - k = 3
  BY <1>2 DEF Completes
<1>4. /\ Len(Stays(g, b)) = Len(Held(g, b)) - k
      /\ \A i \in 1..(Len(Held(g, b)) - k) : Stays(g, b)[i] = Held(g, b)[k + i]
  BY <1>1, <1>2, RestIs DEF Stays
<1> QED  BY <1>2, <1>3, <1>4

\* One byte more of the delimiter.
LEMMA GoesOn ==
    ASSUME NEW g \in Gates, NEW b \in Byte, Len(g.prefix) < 3,
           \A i \in 1..Len(g.prefix) : g.prefix[i].key = Target(g)[i],
           b.key = Target(g)[Len(g.prefix) + 1]
    PROVE  /\ Up(g, b) = 0 /\ (Completes(g, b) <=> Len(g.prefix) = 2)
           /\ Len(Stays(g, b)) = Len(g.prefix) + 1 /\ Stays(g, b)[Len(g.prefix) + 1] = b
           /\ \A i \in 1..Len(g.prefix) : Stays(g, b)[i] = g.prefix[i]
<1> DEFINE l == Len(g.prefix)
           h == Held(g, b)
<1>1. /\ l \in Nat /\ l < 3 /\ Len(h) = l + 1 /\ h[l + 1] = b /\ \A i \in 1..l : h[i] = g.prefix[i]
      /\ \A i \in 1..l : g.prefix[i].key = Target(g)[i]
      /\ b.key = Target(g)[l + 1]
  BY HeldIs
<1>2. Len(Target(g)) = 3
  BY TargetIs
<1>3. ASSUME NEW k \in 0..Len(h), Begins(h, k, Target(g)),
             \A j \in 0..Len(h) : j < k => ~Begins(h, j, Target(g))
      PROVE  /\ Up(g, b) = k /\ (Completes(g, b) <=> Len(h) - k = 3)
             /\ Len(Stays(g, b)) = Len(h) - k
             /\ \A i \in 1..(Len(h) - k) : Stays(g, b)[i] = h[k + i]
  BY <1>3, UpIs
<1> HIDE DEF h, l
<1>4. Begins(h, 0, Target(g))
  <2>1. Len(h) - 0 <= Len(Target(g))
    BY <1>1, <1>2
  <2>2. ASSUME NEW i \in 1..(Len(h) - 0) PROVE h[0 + i].key = Target(g)[i]
    <3>1. 0 + i = i /\ (i \in 1..l \/ i = l + 1)
      BY <1>1
    <3> QED  BY <1>1, <3>1
  <2> QED  BY <2>1, <2>2 DEF Begins
<1>5. 0 \in 0..Len(h) /\ \A j \in 0..Len(h) : ~(j < 0)
  BY <1>1
<1>6. /\ Up(g, b) = 0 /\ (Completes(g, b) <=> Len(h) - 0 = 3)
      /\ Len(Stays(g, b)) = Len(h) - 0
      /\ \A i \in 1..(Len(h) - 0) : Stays(g, b)[i] = h[0 + i]
  BY <1>3, <1>4, <1>5
<1>7. Len(h) - 0 = l + 1 /\ \A i \in 1..(l + 1) : 0 + i = i /\ i \in 1..(Len(h) - 0)
  BY <1>1
<1>8. /\ Completes(g, b) <=> l = 2
      /\ Len(Stays(g, b)) = l + 1
      /\ \A i \in 1..(l + 1) : Stays(g, b)[i] = h[i]
  BY <1>1, <1>6, <1>7
<1>9. l + 1 \in 1..(l + 1) /\ \A i \in 1..l : i \in 1..(l + 1)
  BY <1>1
<1>10. /\ Up(g, b) = 0 /\ (Completes(g, b) <=> l = 2)
       /\ Len(Stays(g, b)) = l + 1 /\ Stays(g, b)[l + 1] = b
       /\ \A i \in 1..l : Stays(g, b)[i] = g.prefix[i]
  BY <1>1, <1>6, <1>8, <1>9
<1> QED  BY <1>10 DEF l

\* One byte decoded emits only items that are paste or carry nothing of it.
LEMMA ByteTyping ==
    ASSUME NEW g \in Gates, NEW items \in Seq(Typing), NEW b \in Byte,
           g.paste \/ \A i \in 1..Up(g, b) : ~Held(g, b)[i].pasted,
           NEW d, d = [gate |-> g, items |-> items]
    PROVE  DecodeByte(d, b).items \in Seq(Typing)
<1> DEFINE gave == Gave(g, b)
           done == Item(Origin(g), Stays(g, b), TRUE)
<1>1. Held(g, b) \in Bytes /\ Up(g, b) \in 0..Len(Held(g, b)) /\ gave \in Inputs
  BY HeldIs
<1>2. gave \in Typing
  <2>1. gave.paste = g.paste /\ gave.data = SubSeq(Held(g, b), 1, Up(g, b))
    BY DEF Gave, Item
  <2>2. ~g.paste => Unpasted(SubSeq(Held(g, b), 1, Up(g, b)))
    BY <1>1, StartIs DEF Unpasted
  <2> HIDE DEF gave
  <2> QED  BY <1>1, <2>1, <2>2 DEF Typing
<1>3. done \in Typing
  <2>1. Stays(g, b) \in Bytes /\ Origin(g) \in Nat
    BY HeldIs
  <2>2. done \in Inputs /\ done.paste = TRUE
    BY <2>1 DEF Item, Inputs
  <2> QED  BY <2>2 DEF Typing
<1> HIDE DEF gave, done
<1>4. Emit(items, gave) \in Seq(Typing)
  BY <1>2, TypingJoins, EmitIs
<1>5. Emit(Emit(items, gave), done) \in Seq(Typing)
  BY <1>3, <1>4, TypingJoins, EmitIs
<1>6. ByteDecoded(DecodeByte(d, b), g, items, b)
  BY DecodeByteIs
<1>7. DecodeByte(d, b).items \in {Emit(items, gave), Emit(Emit(items, gave), done)}
  BY <1>6 DEF ByteDecoded, gave, done
<1> QED  BY <1>4, <1>5, <1>7

LEMMA NoBytes == ASSUME NEW s \in Bytes PROVE s = <<>> <=> Len(s) = 0
<1>1. s \in Seq(Byte)
  BY DEF Bytes
<1>2. s # <<>> => Len(s) \in Nat \ {0}
  BY <1>1, EmptySeq, Zenon
<1>3. s = <<>> => Len(s) = 0
  OBVIOUS
<1> QED  BY <1>2, <1>3

\* One byte decoded keeps the gate in step with the terminal: the delimiters
\* are recognized, and only they (decode, lines 101-131).
LEMMA ByteFits ==
    ASSUME NEW g \in Gates, NEW items \in Seq(Typing), NEW b \in Byte,
           NEW m \in Modes, NEW n \in Modes, Fits(g, m), Moves(m, b, n),
           NEW d, d = [gate |-> g, items |-> items]
    PROVE  Fits(DecodeByte(d, b).gate, n) /\ DecodeByte(d, b).items \in Seq(Typing)
<1> DEFINE e == DecodeByte(d, b)
           h == Held(g, b)
           l == Len(g.prefix)
           rest == Stays(g, b)
           t == Target(g)
<1>1. /\ Completes(g, b) => e.gate.prefix = <<>> /\ e.gate.paste = ~g.paste
      /\ ~Completes(g, b) => e.gate.prefix = rest /\ e.gate.paste = g.paste
  <2>1. ByteDecoded(e, g, items, b)
    BY DecodeByteIs
  <2> HIDE DEF e
  <2> QED  BY <2>1 DEF ByteDecoded
<1>2. (g.paste \/ \A i \in 1..Up(g, b) : ~h[i].pasted) => e.items \in Seq(Typing)
  BY ByteTyping
<1>3. /\ l \in Nat /\ Len(h) = l + 1 /\ h[l + 1] = b /\ \A i \in 1..l : h[i] = g.prefix[i]
      /\ g.prefix = <<>> <=> l = 0
      /\ rest = <<>> <=> Len(rest) = 0
  <2>1. g.prefix \in Bytes /\ rest \in Bytes
    BY HeldIs DEF Gates
  <2> QED  BY <2>1, HeldIs, NoBytes
<1>4. /\ Len(t) = 3 /\ t[1] = "e" /\ t[3] = "t"
      /\ g.paste => t[2] = "1"
      /\ ~g.paste => t[2] = "0"
  BY TargetIs
<1>5. ASSUME l < 3, \A i \in 1..l : g.prefix[i].key = t[i], b.key = t[l + 1]
      PROVE  /\ Up(g, b) = 0 /\ (Completes(g, b) <=> l = 2)
             /\ Len(rest) = l + 1 /\ rest[l + 1] = b
             /\ \A i \in 1..l : rest[i] = g.prefix[i]
  BY <1>5, GoesOn
<1>6. ASSUME NEW k \in 0..(l + 1), Begins(h, k, t), \A j \in 0..(l + 1) : j < k => ~Begins(h, j, t)
      PROVE  /\ Up(g, b) = k /\ (Completes(g, b) <=> l + 1 - k = 3)
             /\ Len(rest) = l + 1 - k
             /\ \A i \in 1..(l + 1 - k) : rest[i] = h[k + i]
  <2>1. Len(h) = l + 1
    BY <1>3
  <2>2. k \in 0..Len(h) /\ \A j \in 0..Len(h) : j < k => ~Begins(h, j, t)
    BY <1>6, <2>1
  <2>3. /\ Up(g, b) = k /\ (Completes(g, b) <=> Len(h) - k = 3)
        /\ Len(rest) = Len(h) - k
        /\ \A i \in 1..(Len(h) - k) : rest[i] = h[k + i]
    BY <1>6, <2>2, UpIs
  <2>4. Len(h) - k = l + 1 - k
    BY <2>1
  <2> HIDE DEF h, rest, t, l
  <2> QED  BY <2>3, <2>4, Zenon
<1> HIDE DEF e, h, l, rest, t
<1>7. \A k \in 0..(l + 1) : Begins(h, k, t) <=> /\ l + 1 - k <= 3
                                                /\ \A i \in 1..(l + 1 - k) : h[k + i].key = t[i]
  <2> TAKE k \in 0..(l + 1)
  <2>1. Len(t) = 3 /\ Len(h) - k = l + 1 - k
    BY <1>3, <1>4
  <2>2. Begins(h, k, t) <=> /\ Len(h) - k <= Len(t)
                            /\ \A i \in 1..(Len(h) - k) : h[k + i].key = t[i]
    BY Zenon DEF Begins
  <2> QED  BY <2>1, <2>2
\* A delimiter goes on.
<1>8. ASSUME l < 3, \A i \in 1..l : g.prefix[i].key = t[i], b.key = t[l + 1]
      PROVE  /\ e.items \in Seq(Typing)
             /\ l = 2 => e.gate.prefix = <<>> /\ e.gate.paste = ~g.paste
             /\ l < 2 => /\ e.gate.paste = g.paste /\ Len(e.gate.prefix) = l + 1
                         /\ e.gate.prefix[l + 1] = b
                         /\ \A i \in 1..l : e.gate.prefix[i] = g.prefix[i]
  <2>1. /\ Up(g, b) = 0 /\ (Completes(g, b) <=> l = 2)
        /\ Len(rest) = l + 1 /\ rest[l + 1] = b
        /\ \A i \in 1..l : rest[i] = g.prefix[i]
    BY <1>5, <1>8
  <2>2. \A i \in 1..0 : FALSE
    OBVIOUS
  <2>3. e.items \in Seq(Typing)
    BY <1>2, <2>1, <2>2
  <2>4. l < 2 => ~(l = 2)
    BY <1>3
  <2> QED  BY <1>1, <2>1, <2>3, <2>4
\* It turns out to be something else.
<1>9. CASE m = "out" /\ b.key = "x"
  <2>1. ~g.paste /\ n = "out" /\ ~b.pasted /\ (l = 0 \/ (l = 1 /\ g.prefix[1].key = "e" /\ ~g.prefix[1].pasted))
    BY <1>3, <1>9 DEF Fits, Moves, l
  <2>2. Begins(h, l + 1, t)
    BY <1>3, <1>7
  <2>3. ASSUME NEW j \in 0..(l + 1), j < l + 1 PROVE ~Begins(h, j, t)
    <3> SUFFICES ASSUME Begins(h, j, t) PROVE FALSE
      OBVIOUS
    <3>1. l + 1 - j \in 1..(l + 1 - j) /\ j + (l + 1 - j) = l + 1 /\ l + 1 - j \in {1, 2}
      BY <1>3, <2>1, <2>3
    <3>2. b.key = t[l + 1 - j]
      BY <1>3, <1>7, <3>1
    <3> QED  BY <1>4, <1>9, <2>1, <3>1, <3>2
  <2>4. /\ Up(g, b) = l + 1 /\ (Completes(g, b) <=> l + 1 - (l + 1) = 3)
        /\ Len(rest) = l + 1 - (l + 1)
    BY <1>3, <1>6, <2>2, <2>3
  <2>5. ~Completes(g, b) /\ rest = <<>>
    BY <1>3, <2>4
  <2>6. \A i \in 1..(l + 1) : ~h[i].pasted
    BY <1>3, <2>1
  <2>7. e.items \in Seq(Typing)
    BY <1>2, <2>4, <2>6
  <2> QED  BY <1>1, <2>1, <2>5, <2>7 DEF Fits, e
<1>10. CASE m = "in" /\ b.key = "x"
  <2>1. g.paste /\ n = "in" /\ l = 0
    BY <1>3, <1>10 DEF Fits, Moves, l
  <2>2. Begins(h, 1, t)
    BY <1>3, <1>7, <2>1
  <2>3. ASSUME NEW j \in 0..(l + 1), j < 1 PROVE ~Begins(h, j, t)
    <3>1. j = 0 /\ 1 \in 1..(l + 1 - 0) /\ 0 + 1 = l + 1
      BY <2>1, <2>3
    <3> QED  BY <1>3, <1>4, <1>7, <1>10, <3>1
  <2>4. 1 \in 0..(l + 1)
    BY <2>1
  <2>5. /\ Up(g, b) = 1 /\ (Completes(g, b) <=> l + 1 - 1 = 3)
        /\ Len(rest) = l + 1 - 1
    BY <1>6, <2>2, <2>3, <2>4
  <2>6. ~Completes(g, b) /\ rest = <<>>
    BY <1>3, <2>1, <2>5
  <2>7. e.items \in Seq(Typing)
    BY <1>2, <2>1
  <2> QED  BY <1>1, <2>1, <2>6, <2>7 DEF Fits, e
<1>11. CASE m = "out" /\ b.key = "e" /\ g.prefix # <<>>
  <2>1. ~g.paste /\ l = 1 /\ g.prefix[1].key = "e" /\ ~g.prefix[1].pasted
        /\ n = IF b.pasted THEN "start1" ELSE "out"
    BY <1>3, <1>11 DEF Fits, Moves, l
  <2>2. Begins(h, 1, t)
    <3>1. \A i \in 1..(l + 1 - 1) : i = 1 /\ h[1 + i] = b
      BY <1>3, <2>1
    <3> QED  BY <1>3, <1>4, <1>7, <1>11, <2>1, <3>1
  <2>3. ASSUME NEW j \in 0..(l + 1), j < 1 PROVE ~Begins(h, j, t)
    <3>1. j = 0 /\ 2 \in 1..(l + 1 - 0) /\ 0 + 2 = l + 1
      BY <2>1, <2>3
    <3> QED  BY <1>3, <1>4, <1>7, <1>11, <2>1, <3>1
  <2>4. 1 \in 0..(l + 1)
    BY <2>1
  <2>5. /\ Up(g, b) = 1 /\ (Completes(g, b) <=> l + 1 - 1 = 3)
        /\ Len(rest) = l + 1 - 1 /\ \A i \in 1..(l + 1 - 1) : rest[i] = h[1 + i]
    BY <1>6, <2>2, <2>3, <2>4
  <2>6. ~Completes(g, b) /\ Len(rest) = 1 /\ rest[1] = b
    <3>1. 1 \in 1..(l + 1 - 1) /\ 1 + 1 = l + 1 /\ l + 1 - 1 = 1
      BY <2>1
    <3> QED  BY <1>3, <2>5, <3>1
  <2>7. e.items \in Seq(Typing)
    <3>1. \A i \in 1..1 : ~h[i].pasted
      BY <1>3, <2>1
    <3> QED  BY <1>2, <2>5, <3>1
  <2> QED  BY <1>1, <1>11, <2>1, <2>6, <2>7 DEF Fits, e
<1>12. CASE m \in {"out", "in"} /\ b.key = "e" /\ g.prefix = <<>>
  <2>1. l = 0 /\ (g.paste <=> m = "in")
    BY <1>3, <1>12 DEF Fits
  <2>2. n = IF m = "in" THEN "end1" ELSE IF b.pasted THEN "start1" ELSE "out"
    BY <1>12 DEF Moves
  <2>3. /\ e.items \in Seq(Typing) /\ e.gate.paste = g.paste /\ Len(e.gate.prefix) = 1
        /\ e.gate.prefix[1] = b
    BY <1>4, <1>8, <1>12, <2>1
  <2> QED  BY <1>12, <2>1, <2>2, <2>3 DEF Fits, e
<1>13. CASE m \in {"start1", "end1"}
  <2>1. /\ l = 1 /\ (g.paste <=> m = "end1") /\ g.prefix[1].key = "e"
        /\ b.key = t[2] /\ n = IF m = "end1" THEN "end2" ELSE "start2"
    BY <1>4, <1>13 DEF Fits, Moves, l
  <2>2. \A i \in 1..l : g.prefix[i].key = t[i]
    BY <1>4, <2>1
  <2>3. /\ e.items \in Seq(Typing) /\ e.gate.paste = g.paste /\ Len(e.gate.prefix) = 2
        /\ e.gate.prefix[2] = b /\ e.gate.prefix[1] = g.prefix[1]
    BY <1>8, <2>1, <2>2
  <2> QED  BY <1>4, <1>13, <2>1, <2>3 DEF Fits, e
<1>14. CASE m \in {"start2", "end2"}
  <2>1. /\ l = 2 /\ (g.paste <=> m = "end2") /\ g.prefix[1].key = "e" /\ g.prefix[2].key = t[2]
        /\ b.key = "t" /\ n = IF m = "end2" THEN "out" ELSE "in"
    BY <1>4, <1>14 DEF Fits, Moves, l
  <2>2. \A i \in 1..l : g.prefix[i].key = t[i]
    BY <1>4, <2>1
  <2>3. e.items \in Seq(Typing) /\ e.gate.paste = ~g.paste /\ e.gate.prefix = <<>>
    BY <1>4, <1>8, <2>1, <2>2
  <2> QED  BY <1>14, <2>1, <2>3 DEF Fits, e
<1>15. \/ m \in {"out", "in"} /\ b.key \in {"x", "e"}
       \/ m \in {"start1", "end1", "start2", "end2"}
  BY DEF Moves
<1>16. m = "in" => g.prefix = <<>>
  BY DEF Fits
<1> QED  BY <1>9, <1>10, <1>11, <1>12, <1>13, <1>14, <1>15, <1>16

\* Nothing is held that has been held for too long.
Calm(g) == ~(g.late /\ g.prefix # <<>>)

\* The same of any run of bytes; decoding makes nothing old.
LEMMA DecodeFits ==
    ASSUME NEW g \in Gates, NEW bytes \in Bytes, NEW m \in Modes, NEW n \in Modes,
           Fits(g, m), Leads(m, bytes, n)
    PROVE  /\ Fits(Decode(g, bytes).gate, n) /\ Decode(g, bytes).items \in Seq(Typing)
           /\ Calm(g) => Calm(Decode(g, bytes).gate)
<1> DEFINE l == Len(bytes)
<1>1. l \in Nat /\ l = Len(bytes)
  BY LenProperties DEF Bytes
<1> HIDE DEF l
<1>2. PICK f : /\ Decode(g, bytes) = f[l] /\ f[0] = [gate |-> g, items |-> <<>>]
               /\ \A i \in 1..l : f[i] = DecodeByte(f[i - 1], bytes[i])
  BY <1>1, DecodeRuns
<1>3. PICK p : p \in [0..l -> Modes] /\ p[0] = m /\ p[l] = n /\ \A i \in 1..l : Moves(p[i - 1], bytes[i], p[i])
  BY <1>1 DEF Leads, Path
<1> DEFINE Good(i) ==
             /\ f[i] = [gate |-> f[i].gate, items |-> f[i].items] /\ f[i].gate \in Gates
             /\ Fits(f[i].gate, p[i]) /\ f[i].items \in Seq(Typing)
             /\ Calm(g) => Calm(f[i].gate)
           I == {i \in Nat : i <= l => Good(i)}
<1>4. Good(0)
  BY <1>2, <1>3
<1>5. ASSUME NEW i \in Nat, i + 1 <= l, Good(i) PROVE Good(i + 1)
  <2> DEFINE d == f[i]
             b == bytes[i + 1]
             e == f[i + 1]
             q == p[i]
             r == p[i + 1]
  <2>1. i + 1 \in 1..l /\ i + 1 - 1 = i /\ i \in 0..l /\ i + 1 \in 0..l
    BY <1>1, <1>5
  <2>2. e = DecodeByte(d, b) /\ q \in Modes /\ r \in Modes /\ Moves(q, b, r)
    BY <1>2, <1>3, <2>1
  <2>3. b \in Byte
    BY <1>1, <1>5, OneMore
  <2>4. /\ d = [gate |-> d.gate, items |-> d.items] /\ d.gate \in Gates
        /\ Fits(d.gate, q) /\ d.items \in Seq(Typing)
        /\ Calm(g) => Calm(d.gate)
    BY <1>5
  <2> HIDE DEF d, b, e, q, r
  <2>5. Fits(e.gate, r) /\ e.items \in Seq(Typing)
    BY <2>2, <2>3, <2>4, ByteFits
  <2>6. ByteDecoded(e, d.gate, d.items, b)
    BY <2>2, <2>3, <2>4, DecodeByteIs
  <2>7. /\ e = [gate |-> e.gate, items |-> e.items] /\ e.gate \in Gates
        /\ e.gate.late = (d.gate.late /\ d.gate.prefix # <<>>)
    BY <2>6 DEF ByteDecoded
  <2>8. Calm(g) => Calm(e.gate)
    BY <2>4, <2>7 DEF Calm
  <2> QED  BY <2>5, <2>7, <2>8 DEF e, r
<1>6. Nat \subseteq I
  <2>1. 0 \in I
    BY <1>4
  <2>2. ASSUME NEW i \in Nat, i \in I PROVE i + 1 \in I
    <3> SUFFICES ASSUME i + 1 <= l PROVE Good(i + 1)
      OBVIOUS
    <3>1. i <= l
      BY <1>1
    <3>2. Good(i)
      BY <2>2, <3>1
    <3> QED  BY <1>5, <3>2
  <2> HIDE DEF I
  <2> QED  BY <2>1, <2>2, Inductively
<1>7. Good(l)
  <2> HIDE DEF Good
  <2> QED  BY <1>1, <1>6
<1> QED  BY <1>2, <1>3, <1>7

\* Bytes held for too long are not of a paste.
LEMMA FlushFits ==
    ASSUME NEW g \in Gates, NEW m \in Modes, Fits(g, m), Calm(g) \/ m = "out"
    PROVE  /\ Fits(Flush(g).gate, m) /\ Flush(g).items \in Seq(Typing) /\ Calm(Flush(g).gate)
<1>1. CASE Calm(g)
  <2>1. Flush(g) = [gate |-> g, items |-> <<>>]
    BY <1>1 DEF Flush, Calm
  <2> QED  BY <1>1, <2>1
<1>2. CASE ~Calm(g) /\ m = "out"
  <2> DEFINE f == [g EXCEPT !.prefix = <<>>, !.late = FALSE]
             item == Item(g.prefixGeneration, g.prefix, g.paste)
  <2>1. Flush(g) = [gate |-> f, items |-> <<item>>]
    BY <1>2 DEF Flush, Calm
  <2>2. f.prefix = <<>> /\ f.paste = g.paste /\ f.late = FALSE
    BY DEF Gates
  <2>3. ~g.paste /\ Len(g.prefix) = 1 /\ ~g.prefix[1].pasted
    BY <1>2 DEF Calm, Fits
  <2>4. item \in Inputs /\ item.data = g.prefix
    BY DEF Item, Inputs, Gates
  <2>5. Unpasted(g.prefix)
    <3>1. DOMAIN g.prefix = 1..1
      BY <2>3, LenProperties DEF Gates, Bytes
    <3> QED  BY <2>3, <3>1 DEF Unpasted
  <2> HIDE DEF f, item
  <2>6. item \in Typing
    BY <2>4, <2>5 DEF Typing
  <2>7. Fits(f, m) /\ Calm(f)
    BY <1>2, <2>2, <2>3 DEF Fits, Calm
  <2>8. Flush(g).gate = f /\ Flush(g).items = <<item>>
    BY <2>1
  <2>9. <<item>> \in Seq(Typing)
    BY <2>6
  <2> DEFINE items == <<item>>
  <2> HIDE DEF items
  <2> QED  BY <2>7, <2>8, <2>9 DEF items
<1> QED  BY <1>1, <1>2

-----------------------------------------------------------------------------
(* No byte of a paste becomes typing.                                      *)

\* Where the keyboard is: in a paste or not.
Reaches == IF keyboard.paste = NoPaste THEN "out" ELSE "in"

\* The gate is where the bytes that are waiting start from.
Synced == \E m \in Modes : Fits(gate, m) /\ Leads(m, kernel, Reaches) /\ (Calm(gate) \/ m = "out")

\* A paste typed while an attachment is open began in it.
Home(bytes, last) == \A i \in DOMAIN bytes : bytes[i].pasted => bytes[i].origin = last

PasteInv ==
    /\ KeysInv /\ Synced
    /\ gate.generation # 0 => keyboard.paste \in {NoPaste, gate.generation}
    /\ Home(typed, gate.next) /\ Home(sent, gate.next) /\ Unpasted(cause)
    /\ outbox \in Seq(Typing) /\ channel \in Seq(Typing)

\* What is typed is at home, and leads to where the keyboard then is.
LEMMA LeadsUnit ==
    ASSUME PasteInv, NEW unit \in Units, NEW paste,
           paste = IF unit = PasteStart THEN gate.generation ELSE keyboard.paste
    PROVE  /\ gate.generation # 0 => Home(AsBytes(unit, paste), gate.next)
           /\ AsBytes(unit, paste) \in Bytes
           /\ Leads(Reaches, AsBytes(unit, paste), IF unit = PasteEnd \/ paste = NoPaste THEN "out" ELSE "in")
<1> DEFINE bytes == AsBytes(unit, paste)
           q == IF unit = PasteEnd \/ paste = NoPaste THEN "out" ELSE "in"
<1>1. gate.generation \in Nat /\ gate.generation \in {0, gate.next} /\ keyboard.paste \in Int
  BY KeysParts DEF PasteInv, TypeOK, Stamped
<1>2. paste \in Int /\ (gate.generation # 0 => keyboard.paste \in {NoPaste, gate.generation})
  BY <1>1 DEF PasteInv
<1>3. unit \in Seq(Key)
  BY UnitKeys
<1>4. /\ bytes \in Bytes /\ Len(bytes) = Len(unit)
      /\ \A i \in 1..Len(unit) :
            /\ bytes[i].key = unit[i] /\ (bytes[i].pasted <=> paste # NoPaste)
            /\ paste # NoPaste => bytes[i].origin = paste
  <2>1. gate.generation \in Nat
    BY <1>1
  <2>2. bytes = AsBytes(unit, paste)
    OBVIOUS
  <2> HIDE DEF bytes
  <2>3. /\ bytes \in Bytes /\ Len(bytes) = Len(unit)
        /\ \A i \in 1..Len(unit) :
              /\ bytes[i].key = unit[i] /\ bytes[i].pasted = (paste # NoPaste)
              /\ paste # NoPaste => bytes[i].origin = paste
    BY <1>2, <1>3, <2>1, <2>2, TypedBytes
  <2> QED  BY <2>3
<1> HIDE DEF bytes
<1>5. gate.generation # 0 => Home(bytes, gate.next)
  <2>1. DOMAIN bytes = 1..Len(unit)
    BY <1>4, LenProperties DEF Bytes
  <2>2. ASSUME gate.generation # 0, paste # NoPaste PROVE paste = gate.next
    <3>1. gate.generation = gate.next /\ keyboard.paste \in {NoPaste, gate.generation}
      BY <1>1, <1>2, <2>2
    <3> QED  BY <2>2, <3>1
  <2>3. ASSUME gate.generation # 0, NEW i \in 1..Len(unit), bytes[i].pasted
        PROVE  bytes[i].origin = gate.next
    <3>1. paste # NoPaste
      BY <1>4, <2>3, Zenon
    <3> QED  BY <1>4, <2>2, <2>3, <3>1
  <2> QED  BY <2>1, <2>3 DEF Home
<1>6. ASSUME unit \in {<<"x">>, <<"e">>} PROVE Leads(Reaches, bytes, q)
  <2>1. Len(unit) = 1 /\ unit[1] \in {"x", "e"} /\ unit # PasteStart /\ unit # PasteEnd
    BY <1>6 DEF PasteStart, PasteEnd
  <2>2. unit[1] = "e" => paste = NoPaste
    BY <1>6, <2>1 DEF Units, PasteEnd
  <2>3. Moves(Reaches, bytes[1], q)
    <3>1. 1 \in 1..Len(unit)
      BY <2>1
    <3>2. bytes[1].key = unit[1] /\ (bytes[1].pasted <=> paste # NoPaste) /\ paste = keyboard.paste
      BY <1>4, <2>1, <3>1
    <3>3. CASE paste = NoPaste
      BY <2>1, <2>2, <3>2, <3>3 DEF Moves, Reaches
    <3>4. CASE paste # NoPaste
      BY <2>1, <2>2, <3>2, <3>4 DEF Moves, Reaches
    <3> QED  BY <3>3, <3>4
  <2> DEFINE p == [i \in 0..1 |-> IF i = 0 THEN Reaches ELSE q]
  <2>4. p \in [0..1 -> Modes] /\ p[0] = Reaches /\ p[1] = q
    BY DEF Modes, Reaches
  <2> HIDE DEF p, q
  <2>5. \A i \in 1..1 : i = 1 /\ i - 1 = 0
    OBVIOUS
  <2>6. Path(p, Reaches, bytes, q)
    BY <1>4, <2>1, <2>3, <2>4, <2>5 DEF Path
  <2> QED  BY <2>6 DEF Leads
<1>7. ASSUME unit \in {PasteStart, PasteEnd} PROVE Leads(Reaches, bytes, q)
  <2>1. /\ Len(unit) = 3 /\ unit[1] = "e" /\ unit[3] = "t"
        /\ unit = PasteStart => unit[2] = "0" /\ keyboard.paste = NoPaste /\ paste # NoPaste
        /\ unit = PasteEnd => unit[2] = "1" /\ keyboard.paste # NoPaste /\ paste # NoPaste
    <3>1. PasteStart # PasteEnd
      BY DEF PasteStart, PasteEnd
    <3>2. PasteStart # <<"x">> /\ PasteEnd # <<"x">> /\ PasteEnd # <<"e">>
      BY DEF PasteStart, PasteEnd
    <3>3. unit = PasteStart => keyboard.paste = NoPaste
      BY <3>1, <3>2 DEF Units
    <3>4. unit = PasteEnd => keyboard.paste # NoPaste
      BY <3>1, <3>2 DEF Units
    <3>5. gate.generation # NoPaste
      BY <1>1 DEF NoPaste
    <3> QED  BY <1>7, <3>1, <3>3, <3>4, <3>5 DEF PasteStart, PasteEnd
  <2> DEFINE first == IF unit = PasteStart THEN "start1" ELSE "end1"
             second == IF unit = PasteStart THEN "start2" ELSE "end2"
             p == [i \in 0..3 |-> IF i = 0 THEN Reaches ELSE IF i = 1 THEN first
                                  ELSE IF i = 2 THEN second ELSE q]
  <2>a. /\ bytes[1].key = "e" /\ bytes[2].key = unit[2] /\ bytes[3].key = "t"
        /\ bytes[1].pasted /\ bytes[2].pasted /\ bytes[3].pasted
    <3>1. 1 \in 1..Len(unit) /\ 2 \in 1..Len(unit) /\ 3 \in 1..Len(unit) /\ paste # NoPaste
      BY <1>7, <2>1
    <3> QED  BY <1>4, <2>1, <3>1
  <2>b. PasteStart # PasteEnd
    BY DEF PasteStart, PasteEnd
  <2>2. Moves(Reaches, bytes[1], first)
    BY <1>7, <2>1, <2>a DEF Moves, Reaches
  <2>3. Moves(first, bytes[2], second)
    BY <1>7, <2>1, <2>a DEF Moves
  <2>4. Moves(second, bytes[3], q)
    BY <1>7, <2>1, <2>a, <2>b DEF Moves
  <2>5. /\ p \in [0..3 -> Modes] /\ p[0] = Reaches /\ p[1] = first /\ p[2] = second /\ p[3] = q
    BY DEF Modes, Reaches
  <2> HIDE DEF p, first, second, q
  <2>6. ASSUME NEW i \in 1..3 PROVE Moves(p[i - 1], bytes[i], p[i])
    <3>1. (i = 1 /\ i - 1 = 0) \/ (i = 2 /\ i - 1 = 1) \/ (i = 3 /\ i - 1 = 2)
      BY <2>6
    <3> QED  BY <2>2, <2>3, <2>4, <2>5, <3>1
  <2>7. Path(p, Reaches, bytes, q)
    BY <1>4, <2>1, <2>5, <2>6 DEF Path
  <2> QED  BY <2>7 DEF Leads
<1>8. unit \in {<<"x">>, <<"e">>, PasteStart, PasteEnd}
  BY DEF Units
<1>9. /\ gate.generation # 0 => Home(bytes, gate.next)
      /\ bytes \in Bytes /\ Leads(Reaches, bytes, q)
  BY <1>4, <1>5, <1>6, <1>7, <1>8, Zenon
<1> QED  BY <1>9 DEF bytes

LEMMA PasteParts ==
    ASSUME PasteInv
    PROVE  /\ KeysInv /\ Synced
           /\ gate.generation # 0 => keyboard.paste \in {NoPaste, gate.generation}
           /\ Home(typed, gate.next) /\ Home(sent, gate.next) /\ Unpasted(cause)
           /\ outbox \in Seq(Typing) /\ channel \in Seq(Typing)
           /\ gate \in Gates /\ kernel \in Bytes /\ typed \in Bytes /\ sent \in Bytes
           /\ Reaches \in Modes
BY KeysParts DEF PasteInv, TypeOK, Reaches, Modes

LEMMA HomeCat ==
    ASSUME NEW s \in Bytes, NEW t \in Bytes, Home(s, gate.next), Home(t, gate.next)
    PROVE  Home(Cat(s, t), gate.next)
<1> DEFINE u == Cat(s, t)
           k == Len(s)
           l == Len(t)
<1>1. /\ k \in Nat /\ l \in Nat /\ DOMAIN s = 1..k /\ DOMAIN t = 1..l /\ DOMAIN u = 1..(k + l)
      /\ \A i \in 1..(k + l) : u[i] = IF i <= k THEN s[i] ELSE t[i - k]
  BY BytesParts
<1> HIDE DEF u, k, l
<1>2. ASSUME NEW i \in 1..(k + l), u[i].pasted PROVE u[i].origin = gate.next
  <2>1. CASE i <= k
    <3>1. i \in 1..k /\ u[i] = s[i]
      BY <1>1, <2>1
    <3> QED  BY <1>1, <1>2, <3>1 DEF Home
  <2>2. CASE ~(i <= k)
    <3>1. i - k \in 1..l /\ u[i] = t[i - k]
      BY <1>1, <2>2
    <3> QED  BY <1>1, <1>2, <3>1 DEF Home
  <2> QED  BY <2>1, <2>2
<1>3. Home(u, gate.next)
  BY <1>1, <1>2 DEF Home
<1> QED  BY <1>3 DEF u

\* The beginning of what is at home is.
LEMMA HomeBegins ==
    ASSUME NEW s \in Bytes, NEW c \in Bytes, NEW o \in Bytes, NEW p \in Bytes, NEW k \in Bytes,
           NEW t, t = Line(s, c, o, p, k), NEW last, Home(t, last)
    PROVE  Home(s, last)
<1> DEFINE w == Cat(o, Cat(p, k))
           r == Cat(c, w)
<1>1. r \in Bytes /\ t = Cat(s, r)
  <2>1. Cat(p, k) \in Bytes
    BY BytesCat
  <2>2. w \in Bytes
    BY <2>1, BytesCat
  <2>3. t = Cat(Cat(s, c), w)
    BY LineRegroups
  <2> HIDE DEF w
  <2>4. r \in Bytes
    BY <2>2, BytesCat
  <2>5. Cat(Cat(s, c), w) = Cat(s, Cat(c, w))
    BY <2>2, BytesAssociate
  <2> QED  BY <2>3, <2>4, <2>5
<1> HIDE DEF r
<1> DEFINE m == Len(s)
           l == Len(r)
<1>2. /\ m \in Nat /\ l \in Nat /\ DOMAIN s = 1..m /\ DOMAIN t = 1..(m + l)
      /\ \A i \in 1..(m + l) : t[i] = IF i <= m THEN s[i] ELSE r[i - m]
  <2> DEFINE u == Cat(s, r)
  <2>1. /\ m \in Nat /\ l \in Nat /\ DOMAIN s = 1..m /\ DOMAIN u = 1..(m + l)
        /\ \A i \in 1..(m + l) : u[i] = IF i <= m THEN s[i] ELSE r[i - m]
    BY <1>1, BytesParts
  <2> QED  BY <1>1, <2>1, Zenon
<1> HIDE DEF m, l
<1>3. ASSUME NEW i \in 1..m PROVE i \in 1..(m + l) /\ t[i] = s[i]
  BY <1>2
<1> QED  BY <1>2, <1>3 DEF Home

LEMMA PasteType ==
    ASSUME PasteInv, NEW unit \in Units, Type(unit)
    PROVE  PasteInv'
<1> DEFINE paste == IF unit = PasteStart THEN gate.generation ELSE keyboard.paste
           bytes == AsBytes(unit, paste)
           q == IF unit = PasteEnd \/ paste = NoPaste THEN "out" ELSE "in"
<1>1. /\ keyboard' = [units |-> keyboard.units + 1,
                      paste |-> IF unit = PasteEnd THEN NoPaste ELSE paste]
      /\ kernel' = kernel \o bytes
      /\ typed' = IF gate.generation = 0 THEN typed ELSE typed \o bytes
      /\ UNCHANGED <<gate, outbox, channel, sent, cause>>
  BY Zenon DEF Type, AsBytes
<1>2. /\ gate.generation # 0 => Home(bytes, gate.next)
      /\ bytes \in Bytes /\ Leads(Reaches, bytes, q)
  BY LeadsUnit, Zenon
<1>3. KeysInv'
  BY KeysType, PasteParts
<1>4. /\ Reaches' = q
      /\ gate.generation # 0 => keyboard'.paste \in {NoPaste, gate.generation}
  <2>1. keyboard'.paste = IF unit = PasteEnd THEN NoPaste ELSE paste
    BY <1>1
  <2>2. gate.generation # 0 => paste \in {NoPaste, gate.generation}
    BY PasteParts
  <2> QED  BY <2>1, <2>2 DEF Reaches
<1> HIDE DEF paste, bytes, q
<1>5. kernel' = Cat(kernel, bytes) /\ typed' = IF gate.generation = 0 THEN typed ELSE Cat(typed, bytes)
  BY <1>1, Zenon DEF Cat
<1>6. Synced'
  <2>1. PICK m \in Modes : Fits(gate, m) /\ Leads(m, kernel, Reaches) /\ (Calm(gate) \/ m = "out")
    BY PasteParts DEF Synced
  <2>2. q \in Modes
    BY DEF q, Modes
  <2>3. Leads(m, Cat(kernel, bytes), q)
    BY <1>2, <2>1, <2>2, LeadsOn, PasteParts
  <2>4. m \in Modes /\ Fits(gate, m)' /\ Leads(m, kernel', Reaches') /\ (Calm(gate)' \/ m = "out")
    BY <1>1, <1>4, <1>5, <2>1, <2>3
  <2> QED  BY <2>4 DEF Synced
<1>7. Home(typed, gate.next)' /\ Home(sent, gate.next)'
  <2>1. gate' = gate /\ sent' = sent
    BY <1>1
  <2>2. gate.generation # 0 => Home(Cat(typed, bytes), gate.next)
    BY <1>2, HomeCat, PasteParts
  <2>3. Home(typed', gate.next)
    BY <1>5, <2>2, PasteParts
  <2> QED  BY <2>1, <2>3, PasteParts DEF Home
<1> QED  BY <1>1, <1>3, <1>4, <1>6, <1>7, PasteParts DEF PasteInv

\* A read flushes what is old, which is not of a paste, then decodes.
LEMMA PasteRead ==
    ASSUME PasteInv, NEW n \in 0..Len(kernel), Read(n)
    PROVE  PasteInv'
<1> DEFINE flushed == Flush(gate)
           k1 == SubSeq(kernel, 1, n)
           k2 == SubSeq(kernel, n + 1, Len(kernel))
           decoded == Decode(flushed.gate, k1)
<1>1. /\ gate' = decoded.gate /\ kernel' = k2
      /\ outbox' = flushed.items \o decoded.items
      /\ UNCHANGED <<channel, keyboard, typed, sent, cause>>
  BY DEF Read, loop
<1>2. KeysInv'
  BY KeysRead, PasteParts
<1>3. PICK m \in Modes : Fits(gate, m) /\ Leads(m, kernel, Reaches) /\ (Calm(gate) \/ m = "out")
  BY PasteParts DEF Synced
<1>4. PICK o \in Modes : Leads(m, k1, o) /\ Leads(o, k2, Reaches)
  BY <1>3, LeadsSplit, PasteParts
<1>5. k1 \in Bytes
  BY PasteParts, SplitKernel
<1>6. flushed.gate \in Gates /\ flushed.gate.next = gate.next /\ flushed.gate.generation = gate.generation
  BY KeysParts, FlushIs, PasteParts
<1>7. Fits(flushed.gate, m) /\ flushed.items \in Seq(Typing) /\ Calm(flushed.gate)
  BY <1>3, FlushFits, PasteParts
<1>a. decoded.gate.generation = gate.generation /\ decoded.gate.next = gate.next
  <2>1. Steady(flushed.gate) /\ Stamped(flushed.gate)
    BY KeysParts, FlushIs, PasteParts
  <2>2. Keeps(decoded, flushed.gate, Cat(flushed.gate.prefix, k1))
    BY <1>5, <1>6, <2>1, DecodeKeeps
  <2> QED  BY <1>6, <2>2 DEF Keeps
<1> HIDE DEF flushed, k1, k2
<1>8. Fits(decoded.gate, o) /\ decoded.items \in Seq(Typing) /\ Calm(decoded.gate)
  BY <1>4, <1>5, <1>6, <1>7, DecodeFits
<1> HIDE DEF decoded
<1>9. outbox' \in Seq(Typing)
  <2>1. outbox' = Cat(flushed.items, decoded.items)
    BY <1>1, Zenon DEF Cat
  <2> QED  BY <1>7, <1>8, <2>1, CatIs
<1>10. Synced'
  <2>1. Fits(gate, o)' /\ Calm(gate)' /\ Reaches' = Reaches
    BY <1>1, <1>8 DEF Reaches
  <2>2. Leads(o, kernel', Reaches')
    BY <1>1, <1>4, <2>1
  <2> QED  BY <2>1, <2>2 DEF Synced
<1>11. Home(typed, gate.next)' /\ Home(sent, gate.next)'
  BY <1>1, <1>a, PasteParts DEF Home
<1> QED  BY <1>1, <1>2, <1>9, <1>10, <1>11, <1>a, PasteParts DEF PasteInv

LEMMA PasteSend ==
    ASSUME PasteInv, Send
    PROVE  PasteInv'
<1>1. /\ outbox # <<>> /\ outbox' = Tail(outbox) /\ channel' = Append(channel, Head(outbox))
      /\ UNCHANGED <<gate, kernel, keyboard, typed, sent, cause>>
  BY DEF Send, loop
<1>2. KeysInv'
  BY KeysSend, PasteParts
<1>3. Head(outbox) \in Typing /\ Tail(outbox) \in Seq(Typing)
  BY <1>1, PasteParts, HeadTailProperties
<1>4. channel' \in Seq(Typing)
  BY <1>1, <1>3, PasteParts, AppendProperties
<1>5. Synced' /\ Home(typed, gate.next)' /\ Home(sent, gate.next)'
  BY <1>1, PasteParts DEF Synced, Home, Reaches
<1> QED  BY <1>1, <1>2, <1>3, <1>4, <1>5, PasteParts DEF PasteInv

\* Only a reader that stalls lets a paste's delimiter grow old.
LEMMA PasteWait ==
    ASSUME PasteInv, ~Stalls, Wait
    PROVE  PasteInv'
<1>1. /\ gate' = [gate EXCEPT !.late = TRUE] /\ gate.prefix # <<>> /\ kernel = <<>>
      /\ UNCHANGED <<kernel, outbox, channel, keyboard, typed, sent, cause>>
  BY DEF Wait, loop
<1>2. KeysInv'
  BY KeysWait, PasteParts
<1>3. PICK m \in Modes : Fits(gate, m) /\ Leads(m, kernel, Reaches)
  BY PasteParts DEF Synced
<1>4. m = Reaches
  BY <1>1, <1>3, LeadsNowhere, PasteParts
<1>5. m = "out"
  BY <1>1, <1>3, <1>4 DEF Reaches, Fits
<1>6. /\ gate'.paste = gate.paste /\ gate'.prefix = gate.prefix
      /\ gate'.generation = gate.generation /\ gate'.next = gate.next
  BY <1>1, PasteParts DEF Gates
<1>7. Synced'
  <2>1. Fits(gate', m)
    BY <1>3, <1>6 DEF Fits
  <2>2. Reaches' = Reaches /\ kernel' = kernel
    BY <1>1 DEF Reaches
  <2> QED  BY <1>3, <1>5, <2>1, <2>2 DEF Synced
<1>8. Home(typed, gate.next)' /\ Home(sent, gate.next)'
  BY <1>1, <1>6, PasteParts DEF Home
<1> QED  BY <1>1, <1>2, <1>6, <1>7, <1>8, PasteParts DEF PasteInv

\* The gate closes: nothing that is held back changes.
LEMMA PasteClosed ==
    ASSUME PasteInv, KeysInv', gate' = Closed(gate), UNCHANGED <<kernel, outbox, keyboard, typed, sent, cause>>,
           channel' \in Seq(Typing)
    PROVE  PasteInv'
<1>1. /\ gate'.generation = 0 /\ gate'.next = gate.next /\ gate'.prefix = gate.prefix
      /\ gate'.paste = gate.paste /\ gate'.late = gate.late
  BY ClosedIs, PasteParts
<1>2. Synced'
  <2>1. PICK m \in Modes : Fits(gate, m) /\ Leads(m, kernel, Reaches) /\ (Calm(gate) \/ m = "out")
    BY PasteParts DEF Synced
  <2>2. Fits(gate', m) /\ (Calm(gate') \/ m = "out")
    BY <1>1, <2>1 DEF Fits, Calm
  <2>3. Reaches' = Reaches /\ kernel' = kernel
    BY DEF Reaches
  <2> QED  BY <2>1, <2>2, <2>3 DEF Synced
<1>3. Home(typed, gate.next)' /\ Home(sent, gate.next)'
  BY <1>1, PasteParts DEF Home
<1> QED  BY <1>1, <1>2, <1>3, PasteParts DEF PasteInv

LEMMA PasteTakeInput ==
    ASSUME PasteInv, TakeInput
    PROVE  PasteInv'
<1>1. /\ channel # <<>> /\ gate.generation # 0 /\ channel' = Tail(channel)
      /\ UNCHANGED <<kernel, outbox, keyboard, typed, cause>>
  BY DEF TakeInput
<1>2. KeysInv'
  BY KeysTakeInput, PasteParts
<1>3. channel' \in Seq(Typing)
  BY <1>1, PasteParts, HeadTailProperties
<1>4. CASE gate' = gate
  <2>1. Synced' /\ Home(typed, gate.next)'
    BY <1>1, <1>4, PasteParts DEF Synced, Home, Reaches
  <2>2. /\ sent' \in Bytes /\ DataOf(channel', gate'.generation) \in Bytes
        /\ DataOf(outbox', gate'.generation) \in Bytes /\ gate'.prefix \in Bytes /\ kernel' \in Bytes
    BY <1>2, DataIs DEF KeysInv, TypeOK, Gates
  <2>3. typed' = Line(sent', DataOf(channel', gate'.generation),
                      DataOf(outbox', gate'.generation), gate'.prefix, kernel')
    <3>1. EveryKeyOnce' /\ gate'.generation # 0
      BY <1>1, <1>2, <1>4 DEF KeysInv
    <3> QED  BY <3>1, OnceIs
  <2>4. Home(sent', gate'.next)
    BY <2>1, <2>2, <2>3, HomeBegins
  <2> QED  BY <1>1, <1>2, <1>3, <1>4, <2>1, <2>4, PasteParts DEF PasteInv
<1>5. CASE gate' = Closed(gate) /\ UNCHANGED sent
  BY <1>1, <1>2, <1>3, <1>5, PasteClosed
<1> QED  BY <1>4, <1>5 DEF TakeInput

LEMMA PasteLose ==
    ASSUME PasteInv, Lose
    PROVE  PasteInv'
<1>1. gate' = Closed(gate) /\ UNCHANGED <<kernel, outbox, channel, keyboard, typed, sent, cause>>
  BY DEF Lose, loop
<1>2. KeysInv'
  BY KeysLose, PasteParts
<1> QED  BY <1>1, <1>2, PasteClosed, PasteParts

\* A gate opens outside a paste only.
LEMMA PasteOpening ==
    ASSUME PasteInv, Opening, UNCHANGED keyboard
    PROVE  /\ Synced' /\ (gate'.generation # 0 => keyboard'.paste \in {NoPaste, gate'.generation})
           /\ Home(typed', gate'.next) /\ Home(sent', gate'.next)
<1>1. PICK n \in 0..Len(kernel) : \E drained, g : Opened(n, drained, g)
  BY OpeningIs, PasteParts
<1>2. PICK drained, g : Opened(n, drained, g)
  BY <1>1
<1> DEFINE k1 == SubSeq(kernel, 1, n)
           k2 == SubSeq(kernel, n + 1, Len(kernel))
<1>3. /\ drained = Decode(gate, k1).gate /\ drained \in Gates /\ Steady(drained) /\ Stamped(drained)
      /\ kernel' = k2
      /\ g = IF kernel' = <<>> THEN Flush(drained).gate ELSE [drained EXCEPT !.late = FALSE]
      /\ g \in Gates /\ g.generation = 0 /\ g.next = gate.next
      /\ \/ /\ kernel' = <<>> /\ ~g.paste /\ g.prefix = <<>>
            /\ gate' = [g EXCEPT !.next = @ + 1, !.generation = g.next + 1]
            /\ typed' = <<>> /\ sent' = <<>>
         \/ gate' = g /\ UNCHANGED <<typed, sent>>
  BY <1>2 DEF Opened
<1>4. PICK m \in Modes : Fits(gate, m) /\ Leads(m, kernel, Reaches)
  BY PasteParts DEF Synced
<1>5. PICK o \in Modes : Leads(m, k1, o) /\ Leads(o, k2, Reaches)
  BY <1>4, LeadsSplit, PasteParts
<1>6. k1 \in Bytes
  BY PasteParts, SplitKernel
<1> HIDE DEF k1, k2
<1>7. Fits(drained, o)
  BY <1>3, <1>4, <1>5, <1>6, DecodeFits, PasteParts
<1>8. kernel' = <<>> => o = Reaches
  BY <1>3, <1>5, LeadsNowhere, PasteParts
<1>9. Fits(g, o) /\ Calm(g)
  <2>1. CASE kernel' = <<>>
    <3>1. o = "out" \/ Calm(drained)
      BY <1>7, <1>8, <2>1 DEF Reaches, Fits, Calm
    <3> QED  BY <1>3, <1>7, <2>1, <3>1, FlushFits
  <2>2. CASE kernel' # <<>>
    <3>1. g.prefix = drained.prefix /\ g.paste = drained.paste /\ ~g.late
      BY <1>3, <2>2 DEF Gates
    <3> QED  BY <1>7, <3>1 DEF Fits, Calm
  <2> QED  BY <2>1, <2>2
<1>10. Reaches' = Reaches
  BY DEF Reaches
<1>11. CASE /\ kernel' = <<>> /\ ~g.paste /\ g.prefix = <<>>
            /\ gate' = [g EXCEPT !.next = @ + 1, !.generation = g.next + 1]
            /\ typed' = <<>> /\ sent' = <<>>
  <2>1. gate'.paste = g.paste /\ gate'.prefix = g.prefix
    BY <1>3, <1>11 DEF Gates
  <2>2. Fits(gate', o) /\ Calm(gate')
    BY <1>9, <1>11, <2>1 DEF Fits, Calm
  <2>3. Leads(o, kernel', Reaches')
    BY <1>3, <1>5, <1>10
  <2>4. Synced'
    BY <2>2, <2>3 DEF Synced
  <2>5. keyboard.paste = NoPaste
    BY <1>8, <1>9, <1>11 DEF Fits, Reaches
  <2>6. Home(typed', gate'.next) /\ Home(sent', gate'.next)
    <3>1. Home(<<>>, gate'.next)
      BY DEF Home
    <3> QED  BY <1>11, <3>1
  <2> QED  BY <2>4, <2>5, <2>6
<1>12. CASE gate' = g /\ UNCHANGED <<typed, sent>>
  <2>1. Synced'
    BY <1>3, <1>5, <1>9, <1>10, <1>12 DEF Synced
  <2>2. Home(typed', gate'.next) /\ Home(sent', gate'.next)
    BY <1>3, <1>12, PasteParts
  <2> QED  BY <1>3, <1>12, <2>1, <2>2
<1> QED  BY <1>3, <1>11, <1>12

\* An item that is typing carries nothing of a paste to the status screen.
LEMMA PasteOther ==
    ASSUME PasteInv, KeysInv', Opening \/ NotOpening, UNCHANGED <<outbox, keyboard>>,
           channel' \in Seq(Typing), Unpasted(cause')
    PROVE  PasteInv'
<1>1. /\ Synced' /\ (gate'.generation # 0 => keyboard'.paste \in {NoPaste, gate'.generation})
      /\ Home(typed', gate'.next) /\ Home(sent', gate'.next)
  <2>1. CASE Opening
    BY <2>1, PasteOpening
  <2>2. CASE NotOpening
    <3>1. UNCHANGED <<gate, kernel, typed, sent, keyboard>>
      BY <2>2 DEF NotOpening
    <3>2. Synced'
      BY <3>1, PasteParts DEF Synced, Reaches
    <3> QED  BY <3>1, <3>2, PasteParts
  <2> QED  BY <2>1, <2>2
<1> QED  BY <1>1, PasteParts DEF PasteInv

LEMMA PasteTakeOther ==
    ASSUME PasteInv, TakeOther
    PROVE  PasteInv'
<1> DEFINE item == Head(channel)
<1>1. /\ channel # <<>> /\ channel' = Tail(channel) /\ (Opening \/ NotOpening)
      /\ (~item.paste /\ cause' = item.data) \/ cause' = cause
      /\ UNCHANGED <<outbox, keyboard>>
  BY DEF TakeOther
<1>2. item \in Typing /\ channel' \in Seq(Typing)
  BY <1>1, PasteParts, HeadTailProperties
<1>3. Unpasted(cause')
  BY <1>1, <1>2, PasteParts DEF Typing
<1>4. KeysInv'
  BY KeysTakeOther, PasteParts
<1> QED  BY <1>1, <1>2, <1>3, <1>4, PasteOther

LEMMA PasteTick ==
    ASSUME PasteInv, Tick
    PROVE  PasteInv'
<1>1. Opening /\ UNCHANGED <<outbox, channel, keyboard, cause>>
  BY DEF Tick
<1>2. KeysInv'
  BY KeysTick, PasteParts
<1> QED  BY <1>1, <1>2, PasteOther, PasteParts

LEMMA PasteInit == Init => PasteInv
<1> SUFFICES ASSUME Init PROVE PasteInv
  OBVIOUS
<1>1. /\ gate = NewGate /\ kernel = <<>> /\ outbox = <<>> /\ channel = <<>>
      /\ keyboard = [units |-> 0, paste |-> NoPaste] /\ typed = <<>> /\ sent = <<>> /\ cause = <<>>
  BY DEF Init
<1>2. gate.generation = 0 /\ ~gate.paste /\ gate.prefix = <<>>
  BY <1>1 DEF NewGate
<1>3. Synced
  <2>1. "out" \in Modes /\ Reaches = "out"
    BY <1>1 DEF Modes, Reaches
  <2>2. Leads("out", kernel, Reaches)
    BY <1>1, <2>1, LeadsNowhere
  <2>3. Fits(gate, "out")
    BY <1>2 DEF Fits
  <2> QED  BY <2>1, <2>2, <2>3 DEF Synced
<1>4. Home(typed, gate.next) /\ Home(sent, gate.next) /\ Unpasted(cause)
  BY <1>1 DEF Home, Unpasted
<1> QED  BY <1>1, <1>2, <1>3, <1>4, KeysInit DEF PasteInv

LEMMA PasteNext == ~Stalls /\ PasteInv /\ [Next]_vars => PasteInv'
<1> SUFFICES ASSUME ~Stalls, PasteInv, [Next]_vars PROVE PasteInv'
  OBVIOUS
<1>1. ASSUME NEW unit \in Units, Type(unit) PROVE PasteInv'
  BY <1>1, PasteType
<1>2. ASSUME NEW n \in 0..Len(kernel), Read(n) PROVE PasteInv'
  BY <1>2, PasteRead
<1>3. CASE Send
  BY <1>3, PasteSend
<1>4. CASE Wait
  BY <1>4, PasteWait
<1>5. CASE TakeInput
  BY <1>5, PasteTakeInput
<1>6. CASE TakeOther
  BY <1>6, PasteTakeOther
<1>7. CASE Tick
  BY <1>7, PasteTick
<1>8. CASE Lose
  BY <1>8, PasteLose
<1>9. CASE UNCHANGED vars
  <2>1. KeysInv'
    BY <1>9, KeysNext, PasteParts
  <2>2. UNCHANGED <<gate, kernel, outbox, channel, keyboard, typed, sent, cause>>
    BY <1>9 DEF vars, loop
  <2> QED  BY <2>1, <2>2, PasteParts DEF PasteInv, Synced, Reaches
<1> QED  BY <1>1, <1>2, <1>3, <1>4, <1>5, <1>6, <1>7, <1>8, <1>9 DEF Next

\* PasteNeverTyped, for every bound, as long as no full channel holds the
\* reader up past sessionPrefixTimeout: what is written of a paste goes to
\* the attachment it began in, and no byte of one asks for a retry on the
\* status screen (session_terminal.go, lines 22-24; session_supervisor.go,
\* line 334).  With a reader that stalls it is false: MCInputGateStalls.
THEOREM PasteNeverTypedHolds ==
    ASSUME ~Stalls
    PROVE  Spec => []PasteNeverTyped
<1>1. Init => PasteInv
  BY PasteInit
<1>2. PasteInv /\ [Next]_vars => PasteInv'
  BY PasteNext
<1>3. PasteInv => PasteNeverTyped
  BY DEF PasteInv, Home, Unpasted, PasteNeverTyped, PasteStaysHome
<1> QED  BY <1>1, <1>2, <1>3, PTL DEF Spec

=============================================================================
