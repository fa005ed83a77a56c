------------------------- MODULE StreamStackProofs --------------------------
(***************************************************************************)
(* What the streams do to bytes, for stacks and coroutines of any number,  *)
(* any sizes of buffer and pool, and anything that a peer sends.           *)
(***************************************************************************)
EXTENDS StreamStack, SequenceTheorems, FiniteSetTheorems, TLAPS

----------------------------------------------------------------------------
(* Sequences of cells. *)

Distinct(s) == \A i, j \in DOMAIN s : s[i] = s[j] => i = j

\* The cells of a sequence and of its parts.
LEMMA ElementsOf ==
    ASSUME NEW S, NEW s \in Seq(S)
    PROVE  /\ Elements(s) \subseteq S
           /\ Len(s) \in Nat /\ DOMAIN s = 1 .. Len(s)
           /\ \A i \in 1 .. Len(s) : s[i] \in Elements(s)
           /\ \A c \in Elements(s) : \E i \in 1 .. Len(s) : c = s[i]
           /\ s \in Seq(Elements(s))
           /\ (s = <<>>) <=> (Elements(s) = {})
<1>1. Len(s) \in Nat /\ DOMAIN s = 1 .. Len(s) /\ \A i \in 1 .. Len(s) : s[i] \in S
    OBVIOUS
<1>2. /\ \A i \in 1 .. Len(s) : s[i] \in Elements(s)
      /\ \A c \in Elements(s) : \E i \in 1 .. Len(s) : c = s[i]
    BY <1>1 DEF Elements
<1>3. s \in Seq(Elements(s))
    BY <1>1, <1>2, SeqDef
<1>4. s # <<>> => 1 \in 1 .. Len(s)
    BY <1>1
<1>5. s = <<>> => 1 .. Len(s) = {}
    BY <1>1
<1>6. (s = <<>>) <=> (Elements(s) = {})
    BY <1>2, <1>4, <1>5
<1>7. Elements(s) \subseteq S
    BY <1>1, <1>2
<1> QED
    BY <1>1, <1>2, <1>3, <1>6, <1>7

LEMMA NothingIn == Elements(<<>>) = {} /\ Distinct(<<>>)
    BY DEF Elements, Distinct

LEMMA ElementsConcat ==
    ASSUME NEW S, NEW s \in Seq(S), NEW t \in Seq(S)
    PROVE  /\ s \o t \in Seq(S)
           /\ Len(s \o t) = Len(s) + Len(t)
           /\ Elements(s \o t) = Elements(s) \cup Elements(t)
<1>1. /\ s \o t \in Seq(S) /\ Len(s \o t) = Len(s) + Len(t)
      /\ Len(s) \in Nat /\ Len(t) \in Nat
      /\ \A i \in 1 .. Len(s) + Len(t) :
             (s \o t)[i] = IF i <= Len(s) THEN s[i] ELSE t[i - Len(s)]
    BY ConcatProperties, LenProperties
<1> DEFINE n == Len(s)
           m == Len(t)
<1>2. /\ \A i \in 1 .. n + m : (s \o t)[i] \in Elements(s \o t)
      /\ \A c \in Elements(s \o t) : \E i \in 1 .. n + m : c = (s \o t)[i]
    <2>1. /\ \A i \in 1 .. Len(s \o t) : (s \o t)[i] \in Elements(s \o t)
          /\ \A c \in Elements(s \o t) : \E i \in 1 .. Len(s \o t) : c = (s \o t)[i]
        BY <1>1, ElementsOf
    <2> QED
        BY <1>1, <2>1
<1>3. /\ \A i \in 1 .. n : s[i] \in Elements(s)
      /\ \A i \in 1 .. m : t[i] \in Elements(t)
      /\ \A c \in Elements(s) : \E i \in 1 .. n : c = s[i]
      /\ \A c \in Elements(t) : \E i \in 1 .. m : c = t[i]
    BY ElementsOf
<1>4. n \in Nat /\ m \in Nat
      /\ \A i \in 1 .. n + m : (s \o t)[i] = IF i <= n THEN s[i] ELSE t[i - n]
    BY <1>1
<1> HIDE DEF n, m
<1>6. Elements(s \o t) \subseteq Elements(s) \cup Elements(t)
    <2> SUFFICES ASSUME NEW i \in 1 .. n + m
                 PROVE  (s \o t)[i] \in Elements(s) \cup Elements(t)
        BY <1>2
    <2>1. CASE i <= n
        <3>1. i \in 1 .. n
            BY <1>4, <2>1
        <3> QED
            BY <1>3, <1>4, <2>1, <3>1
    <2>2. CASE ~(i <= n)
        <3>1. i - n \in 1 .. m
            BY <1>4, <2>2
        <3> QED
            BY <1>3, <1>4, <2>2, <3>1
    <2> QED
        BY <2>1, <2>2
<1>7. Elements(s) \subseteq Elements(s \o t)
    <2> SUFFICES ASSUME NEW i \in 1 .. n PROVE s[i] \in Elements(s \o t)
        BY <1>3
    <2>1. i \in 1 .. n + m /\ i <= n
        BY <1>4
    <2> QED
        BY <1>2, <1>4, <2>1
<1>8. Elements(t) \subseteq Elements(s \o t)
    <2> SUFFICES ASSUME NEW i \in 1 .. m PROVE t[i] \in Elements(s \o t)
        BY <1>3
    <2>1. i + n \in 1 .. n + m /\ ~(i + n <= n) /\ (i + n) - n = i
        BY <1>4
    <2> QED
        BY <1>2, <1>4, <2>1
<1> QED
    BY <1>1, <1>6, <1>7, <1>8

\* A concatenation repeats nothing if its parts repeat nothing, nor each other.
LEMMA DistinctConcat ==
    ASSUME NEW S, NEW s \in Seq(S), NEW t \in Seq(S)
    PROVE  Distinct(s \o t) <=>
               Distinct(s) /\ Distinct(t) /\ Elements(s) \cap Elements(t) = {}
<1> DEFINE n == Len(s)
           m == Len(t)
           u == s \o t
<1>1. /\ n \in Nat /\ m \in Nat
      /\ DOMAIN s = 1 .. n /\ DOMAIN t = 1 .. m /\ DOMAIN u = 1 .. n + m
      /\ \A i \in 1 .. n + m : u[i] = IF i <= n THEN s[i] ELSE t[i - n]
      /\ \A i \in 1 .. n : s[i] \in Elements(s)
      /\ \A i \in 1 .. m : t[i] \in Elements(t)
      /\ \A c \in Elements(s) : \E i \in 1 .. n : c = s[i]
      /\ \A c \in Elements(t) : \E i \in 1 .. m : c = t[i]
    <2>1. u \in Seq(S) /\ Len(u) = n + m
          /\ \A i \in 1 .. n + m : u[i] = IF i <= n THEN s[i] ELSE t[i - n]
        BY ConcatProperties
    <2>2. n \in Nat /\ m \in Nat /\ DOMAIN s = 1 .. n /\ DOMAIN t = 1 .. m /\ DOMAIN u = 1 .. n + m
        BY <2>1, LenProperties
    <2> QED
        BY <2>1, <2>2, ElementsOf
<1>2. Distinct(u) <=> \A i, j \in 1 .. n + m : u[i] = u[j] => i = j
    BY <1>1 DEF Distinct
<1>3. Distinct(s) <=> \A i, j \in 1 .. n : s[i] = s[j] => i = j
    BY <1>1 DEF Distinct
<1>4. Distinct(t) <=> \A i, j \in 1 .. m : t[i] = t[j] => i = j
    BY <1>1 DEF Distinct
<1> HIDE DEF n, m, u
<1>5. /\ \A i \in 1 .. n : i \in 1 .. n + m /\ u[i] = s[i]
      /\ \A i \in 1 .. m : n + i \in 1 .. n + m /\ u[n + i] = t[i]
    <2>1. \A i \in 1 .. n : i \in 1 .. n + m /\ i <= n
        BY <1>1
    <2>2. \A i \in 1 .. m : n + i \in 1 .. n + m /\ ~(n + i <= n) /\ (n + i) - n = i
        BY <1>1
    <2> QED
        BY <1>1, <2>1, <2>2
<1>6. ASSUME Distinct(u)
      PROVE  Distinct(s) /\ Distinct(t) /\ Elements(s) \cap Elements(t) = {}
    <2>1. Distinct(s)
        BY <1>2, <1>3, <1>5, <1>6
    <2>2. \A i, j \in 1 .. m : n + i = n + j => i = j
        BY <1>1
    <2>3. Distinct(t)
        BY <1>2, <1>4, <1>5, <1>6, <2>2
    <2>4. \A i \in 1 .. n, j \in 1 .. m : i # n + j
        BY <1>1
    <2>5. \A i \in 1 .. n, j \in 1 .. m : s[i] # t[j]
        BY <1>2, <1>5, <1>6, <2>4
    <2> QED
        BY <1>1, <2>1, <2>3, <2>5
<1>7. ASSUME Distinct(s), Distinct(t), Elements(s) \cap Elements(t) = {}
      PROVE  Distinct(u)
    <2> SUFFICES ASSUME NEW i \in 1 .. n + m, NEW j \in 1 .. n + m, u[i] = u[j]
                 PROVE  i = j
        BY <1>2
    <2>1. (i \in 1 .. n \/ (i - n \in 1 .. m /\ ~(i <= n)))
          /\ (j \in 1 .. n \/ (j - n \in 1 .. m /\ ~(j <= n)))
        BY <1>1
    <2>2. \A a \in 1 .. n, b \in 1 .. m : s[a] # t[b]
        BY <1>1, <1>7
    <2>3. (i \in 1 .. n => i <= n) /\ (j \in 1 .. n => j <= n)
        BY <1>1
    <2>4. CASE i \in 1 .. n /\ j \in 1 .. n
        BY <1>3, <1>5, <1>7, <2>4
    <2>5. CASE i \in 1 .. n /\ j \notin 1 .. n
        BY <1>1, <2>1, <2>2, <2>3, <2>5
    <2>6. CASE i \notin 1 .. n /\ j \in 1 .. n
        BY <1>1, <2>1, <2>2, <2>3, <2>6
    <2>7. CASE i \notin 1 .. n /\ j \notin 1 .. n
        <3>1. t[i - n] = t[j - n]
            BY <1>1, <2>1, <2>7
        <3>2. i - n = j - n
            BY <1>4, <1>7, <2>1, <2>7, <3>1
        <3> QED
            BY <1>1, <3>2
    <2> QED
        BY <2>4, <2>5, <2>6, <2>7
<1> QED
    BY <1>6, <1>7 DEF u

\* The two parts of a sequence.
LEMMA TakeAndDrop ==
    ASSUME NEW S, NEW s \in Seq(S), NEW k \in Nat
    PROVE  /\ Take(s, k) \in Seq(S) /\ Drop(s, k) \in Seq(S)
           /\ Take(s, k) \o Drop(s, k) = s
           /\ Len(Take(s, k)) = IF k < Len(s) THEN k ELSE Len(s)
           /\ Len(Drop(s, k)) = IF k < Len(s) THEN Len(s) - k ELSE 0
<1> DEFINE n == IF k < Len(s) THEN k ELSE Len(s)
<1>1. Len(s) \in Nat /\ n \in 0 .. Len(s) /\ \A i \in 1 .. Len(s) : s[i] \in S
    BY LenProperties
<1>2. Take(s, k) = SubSeq(s, 1, n) /\ Drop(s, k) = SubSeq(s, k + 1, Len(s))
    BY DEF Take, Drop
<1>3. SubSeq(s, 1, n) \in Seq(S) /\ Len(SubSeq(s, 1, n)) = n
    <2>1. \A i \in 1 .. n : s[i] \in S
        BY <1>1
    <2> QED
        BY <1>1, <2>1, SubSeqProperties
<1>4. SubSeq(s, k + 1, Len(s)) \in Seq(S)
      /\ Len(SubSeq(s, k + 1, Len(s))) = IF k < Len(s) THEN Len(s) - k ELSE 0
    <2>1. \A i \in k + 1 .. Len(s) : s[i] \in S
        BY <1>1
    <2> QED
        BY <1>1, <2>1, SubSeqProperties
<1>5. SubSeq(s, 1, n) \o SubSeq(s, k + 1, Len(s)) = s
    <2>1. CASE k < Len(s)
        <3>1. n = k /\ 1 \in 1 .. Len(s) + 1 /\ k \in 1 - 1 .. Len(s) /\ Len(s) \in k .. Len(s)
            BY <1>1, <2>1
        <3>2. SubSeq(s, 1, k) \o SubSeq(s, k + 1, Len(s)) = SubSeq(s, 1, Len(s))
            BY <3>1, ConcatAdjacentSubSeq
        <3> QED
            BY <3>1, <3>2, SubSeqFull
    <2>2. CASE ~(k < Len(s))
        <3>1. SubSeq(s, k + 1, Len(s)) = <<>>
            BY <1>1, <2>2, SubSeqEmpty
        <3>2. SubSeq(s, 1, n) = s
            BY <1>1, <2>2, SubSeqFull
        <3> QED
            BY <3>1, <3>2, ConcatEmptySeq
    <2> QED
        BY <2>1, <2>2
<1> QED
    BY <1>1, <1>2, <1>3, <1>4, <1>5

\* The cells of the two parts.
LEMMA PartsOf ==
    ASSUME NEW S, NEW s \in Seq(S), NEW k \in Nat
    PROVE  /\ Elements(s) = Elements(Take(s, k)) \cup Elements(Drop(s, k))
           /\ Distinct(s) => /\ Distinct(Take(s, k)) /\ Distinct(Drop(s, k))
                             /\ Elements(Take(s, k)) \cap Elements(Drop(s, k)) = {}
           /\ k >= Len(s) => Take(s, k) = s /\ Drop(s, k) = <<>>
           /\ Take(s, 0) = <<>> /\ Drop(s, 0) = s
<1>1. /\ Take(s, k) \in Seq(S) /\ Drop(s, k) \in Seq(S)
      /\ Take(s, k) \o Drop(s, k) = s
    BY TakeAndDrop
<1>2. k >= Len(s) => Take(s, k) = s /\ Drop(s, k) = <<>>
    <2>1. Len(s) \in Nat
        OBVIOUS
    <2>2. k >= Len(s) => Len(Drop(s, k)) = 0
        BY <2>1, TakeAndDrop
    <2> QED
        BY <1>1, <2>2, ConcatEmptySeq
<1>3. Take(s, 0) = <<>> /\ Drop(s, 0) = s
    <2>1. Len(s) \in Nat
        OBVIOUS
    <2>2. Take(s, 0) \in Seq(S) /\ Drop(s, 0) \in Seq(S) /\ Len(Take(s, 0)) = 0
          /\ Take(s, 0) \o Drop(s, 0) = s
        BY <2>1, TakeAndDrop
    <2> QED
        BY <2>2, ConcatEmptySeq
<1>4. Elements(s) = Elements(Take(s, k)) \cup Elements(Drop(s, k))
    <2>1. Elements(Take(s, k) \o Drop(s, k)) = Elements(Take(s, k)) \cup Elements(Drop(s, k))
        BY <1>1, ElementsConcat
    <2> QED
        BY <1>1, <2>1
<1>5. Distinct(s) => /\ Distinct(Take(s, k)) /\ Distinct(Drop(s, k))
                     /\ Elements(Take(s, k)) \cap Elements(Drop(s, k)) = {}
    <2>1. Distinct(Take(s, k) \o Drop(s, k)) =>
              /\ Distinct(Take(s, k)) /\ Distinct(Drop(s, k))
              /\ Elements(Take(s, k)) \cap Elements(Drop(s, k)) = {}
        BY <1>1, DistinctConcat
    <2> QED
        BY <1>1, <2>1
<1> QED
    BY <1>2, <1>3, <1>4, <1>5

\* Adding to a sequence at its end.
LEMMA AppendNew ==
    ASSUME NEW S, NEW s \in Seq(S), NEW e \in S, NEW r, r = Append(s, e)
    PROVE  /\ r \in Seq(S) /\ r = s \o <<e>>
           /\ Elements(r) \subseteq Elements(s) \cup {e}
           /\ Elements(s) \subseteq Elements(r) /\ e \in Elements(r)
           /\ Distinct(s) /\ e \notin Elements(s) => Distinct(r)
<1> DEFINE z == <<e>>
<1>1. z \in Seq(S) /\ Elements(z) = {e} /\ Distinct(z)
    BY DEF Elements, Distinct
<1>2. r = s \o z
    BY AppendIsConcat
<1> HIDE DEF z
<1>3. Elements(s \o z) = Elements(s) \cup Elements(z) /\ s \o z \in Seq(S)
    BY <1>1, ElementsConcat
<1>4. Distinct(s) /\ Elements(s) \cap Elements(z) = {} => Distinct(s \o z)
    BY <1>1, DistinctConcat
<1> QED
    BY <1>1, <1>2, <1>3, <1>4 DEF z

\* A sequence is its first element, and the rest.
LEMMA HeadAndTail ==
    ASSUME NEW S, NEW s \in Seq(S), s # <<>>
    PROVE  /\ Head(s) \in S /\ Tail(s) \in Seq(S) /\ s = <<Head(s)>> \o Tail(s)
           /\ Elements(s) = {Head(s)} \cup Elements(Tail(s))
           /\ Distinct(s) => Distinct(Tail(s)) /\ Head(s) \notin Elements(Tail(s))
<1> DEFINE z == <<Head(s)>>
           u == Tail(s)
<1>1. Head(s) \in S /\ u \in Seq(S) /\ s = z \o u
    OBVIOUS
<1>2. z \in Seq(S) /\ Elements(z) = {Head(s)}
    BY <1>1 DEF Elements
<1> HIDE DEF z, u
<1>3. u \in Seq(S)
    BY <1>1
<1>4. /\ Elements(z \o u) = Elements(z) \cup Elements(u)
      /\ Distinct(z \o u) => Distinct(u) /\ Elements(z) \cap Elements(u) = {}
    BY <1>2, <1>3, ElementsConcat, DistinctConcat
<1>5. /\ Elements(s) = Elements(z) \cup Elements(u)
      /\ Distinct(s) => Distinct(u) /\ Elements(z) \cap Elements(u) = {}
    BY <1>1, <1>4
<1> QED
    BY <1>1, <1>2, <1>5 DEF z, u

\* A sequence of different cells has as many cells as places.
LEMMA AsManyAsPlaces ==
    ASSUME NEW S, NEW s \in Seq(S), Distinct(s)
    PROVE  Cardinality(Elements(s)) = Len(s)
<1> DEFINE n == Len(s)
<1>1. n \in Nat /\ s \in [1 .. n -> S] /\ DOMAIN s = 1 .. n
    BY LenProperties
<1>2. s \in [1 .. n -> Elements(s)]
    BY <1>1, ElementsOf
<1>3. s \in Bijection(1 .. n, Elements(s))
    <2>1. IsInjective(s)
        BY DEF Distinct, IsInjective
    <2>2. \A c \in Elements(s) : \E i \in 1 .. n : s[i] = c
        BY <1>1 DEF Elements
    <2> QED
        BY <1>2, <2>1, <2>2 DEF Bijection, Injection, Surjection
<1>4. ExistsBijection(1 .. n, Elements(s))
    BY <1>3 DEF ExistsBijection
<1>5. IsFiniteSet(1 .. n) /\ Cardinality(1 .. n) = n
    BY <1>1, FS_Interval
<1> QED
    BY <1>4, <1>5, FS_Bijection

----------------------------------------------------------------------------
(* The layers, and what the operations on them do. *)

Layer == [outer : Seq(Cells), inner : Seq(Cells), sink : Seq(Cells), left : Seq(Cells),
          src : Seq(Cells), eof : BOOLEAN, ahead : Seq(Cells), r : BOOLEAN, w : BOOLEAN,
          full : BOOLEAN]

\* What has left the outer buffer, and all that was written.
Sunk(d)   == d.sink \o d.inner
Bottom(d) == Sunk(d) \o d.outer

LEMMA Associative ==
    ASSUME NEW s \in Seq(Cells), NEW t \in Seq(Cells), NEW u \in Seq(Cells)
    PROVE  (s \o t) \o u = s \o (t \o u)
<1> DEFINE a == (s \o t) \o u
           b == s \o (t \o u)
<1>1. Len(s) \in Nat /\ Len(t) \in Nat /\ Len(u) \in Nat
    OBVIOUS
<1>2. /\ s \o t \in Seq(Cells) /\ Len(s \o t) = Len(s) + Len(t)
      /\ t \o u \in Seq(Cells) /\ Len(t \o u) = Len(t) + Len(u)
    BY ConcatProperties
<1>3. /\ a \in Seq(Cells) /\ Len(a) = (Len(s) + Len(t)) + Len(u)
      /\ b \in Seq(Cells) /\ Len(b) = Len(s) + (Len(t) + Len(u))
    BY <1>2, ConcatProperties
<1>4. ASSUME NEW i \in 1 .. Len(a)
      PROVE  a[i] = b[i]
    BY <1>1, <1>2, <1>3, <1>4, ConcatProperties
<1> QED
    BY <1>1, <1>3, <1>4, SeqEqual

\* Only a buffered stream has an outer buffer, only the fallback engine an inner one.
Tidy(d) ==
    /\ ~stack.buffered => d.outer = <<>>
    /\ stack.w # "fallback" => d.inner = <<>>
    /\ Len(d.outer) <= BufferSize

\* The reader is left alone.
SameReader(d, e) == e.left = d.left /\ e.src = d.src /\ e.eof = d.eof /\ e.ahead = d.ahead

\* From d to e cells only go down.
Descends(d, e) ==
    /\ e \in Layer /\ Tidy(e) /\ SameReader(d, e)
    /\ \E s \in Seq(Cells) : Sunk(e) = Sunk(d) \o s
    /\ Elements(d.sink) \subseteq Elements(e.sink)

\* What the buffers of e hold comes from those of d, and from S.
Buffered(d, e, S) ==
    /\ Elements(e.outer) \subseteq Elements(d.outer) \cup S
    /\ Elements(e.inner) \subseteq Elements(d.inner) \cup Elements(d.outer) \cup S

LEMMA LayerFields ==
    ASSUME NEW d \in Layer
    PROVE  /\ d.outer \in Seq(Cells) /\ d.inner \in Seq(Cells) /\ d.sink \in Seq(Cells)
           /\ d.left \in Seq(Cells) /\ d.src \in Seq(Cells) /\ d.ahead \in Seq(Cells)
           /\ d.eof \in BOOLEAN /\ d.r \in BOOLEAN /\ d.w \in BOOLEAN /\ d.full \in BOOLEAN
    BY DEF Layer

LEMMA Descending ==
    ASSUME NEW d \in Layer, Tidy(d)
    PROVE  Descends(d, d) /\ Sunk(d) \in Seq(Cells) /\ Bottom(d) \in Seq(Cells)
           /\ Elements(Bottom(d)) = Elements(d.sink) \cup Elements(d.inner) \cup Elements(d.outer)
<1>1. Sunk(d) \in Seq(Cells) /\ Bottom(d) \in Seq(Cells)
      /\ Elements(Bottom(d)) = Elements(d.sink) \cup Elements(d.inner) \cup Elements(d.outer)
    <2>1. Sunk(d) \in Seq(Cells) /\ Elements(Sunk(d)) = Elements(d.sink) \cup Elements(d.inner)
        BY LayerFields, ElementsConcat DEF Sunk
    <2> QED
        BY <2>1, LayerFields, ElementsConcat DEF Bottom
<1>2. Sunk(d) = Sunk(d) \o <<>> /\ <<>> \in Seq(Cells)
    BY <1>1, ConcatEmptySeq
<1> QED
    BY <1>1, <1>2 DEF Descends, SameReader

\* Descending twice is descending.
LEMMA DescendsOn ==
    ASSUME NEW d \in Layer, NEW e, NEW f, Descends(d, e), Descends(e, f)
    PROVE  Descends(d, f)
<1>1. PICK s \in Seq(Cells) : Sunk(e) = Sunk(d) \o s
    BY DEF Descends
<1>2. PICK u \in Seq(Cells) : Sunk(f) = Sunk(e) \o u
    BY DEF Descends
<1>3. Sunk(d) \in Seq(Cells)
    BY LayerFields, ConcatProperties DEF Sunk
<1>4. Sunk(f) = Sunk(d) \o (s \o u) /\ s \o u \in Seq(Cells)
    BY <1>1, <1>2, <1>3, Associative, ConcatProperties
<1> QED
    BY <1>4 DEF Descends, SameReader

LEMMA MoveDescends ==
    ASSUME NEW d \in Layer, Tidy(d), stack.buffered, NEW k \in Nat
    PROVE  /\ Descends(d, Move(d, k)) /\ Bottom(Move(d, k)) = Bottom(d)
           /\ Move(d, k).outer = Drop(d.outer, k)
           /\ Move(d, k).w = d.w /\ Move(d, k).r = d.r
           /\ Buffered(d, Move(d, k), {})
<1> DEFINE a == Take(d.outer, k)
           b == Drop(d.outer, k)
           e == Move(d, k)
<1>1. /\ d.outer \in Seq(Cells) /\ d.inner \in Seq(Cells) /\ d.sink \in Seq(Cells)
      /\ a \in Seq(Cells) /\ b \in Seq(Cells) /\ a \o b = d.outer
    BY LayerFields, TakeAndDrop
<1>2. Len(b) <= Len(d.outer)
    <2>1. Len(d.outer) \in Nat
        BY <1>1
    <2> QED
        BY <1>1, <2>1, TakeAndDrop
<1>3. d.sink \o a \in Seq(Cells) /\ d.inner \o a \in Seq(Cells) /\ d.sink \o d.inner \in Seq(Cells)
      /\ Elements(d.sink) \subseteq Elements(d.sink \o a)
      /\ Elements(d.inner \o a) = Elements(d.inner) \cup Elements(a)
    BY <1>1, ElementsConcat
<1>4. /\ e.outer = b /\ e.w = d.w /\ e.r = d.r /\ SameReader(d, e) /\ e \in Layer
      /\ IF stack.w = "fallback" THEN e.sink = d.sink /\ e.inner = d.inner \o a
                                 ELSE e.sink = d.sink \o a /\ e.inner = d.inner
    BY <1>1, <1>3 DEF Move, Layer, SameReader
<1> HIDE DEF e, a, b
<1>5. Tidy(e)
    BY <1>1, <1>2, <1>4, SizeAssumption DEF Tidy
<1>6. Sunk(e) = Sunk(d) \o a
    <2>1. CASE stack.w = "fallback"
        <3>1. (d.sink \o d.inner) \o a = d.sink \o (d.inner \o a)
            BY <1>1, Associative
        <3> QED
            BY <1>4, <2>1, <3>1 DEF Sunk
    <2>2. CASE stack.w # "fallback"
        <3>1. d.inner = <<>> /\ e.inner = <<>>
            BY <1>4, <2>2 DEF Tidy
        <3>2. e.sink \o <<>> = d.sink \o a /\ d.sink \o <<>> = d.sink
            BY <1>1, <1>3, <1>4, <2>2, ConcatEmptySeq
        <3> QED
            BY <3>1, <3>2 DEF Sunk
    <2> QED
        BY <2>1, <2>2
<1>7. Bottom(e) = Bottom(d)
    <2>1. Sunk(d) \in Seq(Cells)
        BY <1>3 DEF Sunk
    <2>2. a \in Seq(Cells) /\ b \in Seq(Cells)
        BY <1>1
    <2>3. (Sunk(d) \o a) \o b = Sunk(d) \o (a \o b)
        BY <2>1, <2>2, Associative
    <2> QED
        BY <1>1, <1>4, <1>6, <2>3 DEF Bottom
<1>8. Elements(d.sink) \subseteq Elements(e.sink)
    BY <1>3, <1>4
<1>9. Buffered(d, e, {})
    <2>1. Elements(d.outer) = Elements(a) \cup Elements(b)
        BY <1>1, PartsOf DEF a, b
    <2> QED
        BY <1>3, <1>4, <2>1 DEF Buffered
<1> QED
    BY <1>1, <1>4, <1>5, <1>6, <1>7, <1>8, <1>9 DEF Descends, e, a, b

\* The peer's window is none of this.
LEMMA FullAside ==
    ASSUME NEW d \in Layer, NEW f \in BOOLEAN, NEW e, e = [d EXCEPT !.full = f]
    PROVE  /\ e \in Layer /\ e.outer = d.outer /\ e.inner = d.inner /\ e.sink = d.sink
           /\ e.r = d.r /\ e.w = d.w /\ SameReader(d, e) /\ Bottom(e) = Bottom(d)
           /\ \A c, S : /\ Descends(c, d) => Descends(c, e)
                        /\ Buffered(c, d, S) => Buffered(c, e, S)
<1>1. /\ e \in Layer /\ e.outer = d.outer /\ e.inner = d.inner /\ e.sink = d.sink
      /\ e.r = d.r /\ e.w = d.w /\ SameReader(d, e)
    BY DEF Layer, SameReader
<1>2. Sunk(e) = Sunk(d) /\ Bottom(e) = Bottom(d) /\ (Tidy(d) => Tidy(e))
    BY <1>1 DEF Sunk, Bottom, Tidy
<1>3. ASSUME NEW c, Descends(c, d) PROVE Descends(c, e)
    <2>1. PICK s \in Seq(Cells) : Sunk(d) = Sunk(c) \o s
        BY <1>3 DEF Descends
    <2>2. Sunk(e) = Sunk(c) \o s
        BY <1>2, <2>1
    <2> QED
        BY <1>1, <1>2, <1>3, <2>2 DEF Descends, SameReader
<1>4. ASSUME NEW c, NEW S, Buffered(c, d, S) PROVE Buffered(c, e, S)
    BY <1>1, <1>4 DEF Buffered
<1> QED
    BY <1>1, <1>2, <1>3, <1>4

LEMMA DrainDescends ==
    ASSUME NEW d \in Layer, Tidy(d), stack.buffered, NEW x \in Drain(d)
    PROVE  /\ Descends(d, x.io) /\ Bottom(x.io) = Bottom(d) /\ Buffered(d, x.io, {})
           /\ x.io.w = d.w /\ x.io.r = d.r /\ x.n = 0
           /\ x.error = "none" => d.w /\ x.io.outer = <<>>
           /\ ~d.w => x.io = d
<1>1. Len(d.outer) \in Nat /\ d.outer \in Seq(Cells)
    BY LayerFields
<1>2. CASE ~d.w
    BY <1>2, Descending DEF Drain, Closed, Raise, Buffered
<1>3. CASE d.w
    <2>1. CASE \E f \in Filled(d) : x = Done([Move(d, Len(d.outer)) EXCEPT !.full = f], 0)
        <3> DEFINE m == Move(d, Len(d.outer))
        <3>1. PICK f \in Filled(d) : x = Done([m EXCEPT !.full = f], 0)
            BY <2>1
        <3>2. Drop(d.outer, Len(d.outer)) = <<>>
            BY <1>1, PartsOf
        <3>3. /\ Descends(d, m) /\ Bottom(m) = Bottom(d) /\ Buffered(d, m, {})
              /\ m.outer = <<>> /\ m.w = d.w /\ m.r = d.r
            BY <1>1, <3>2, MoveDescends
        <3>4. m \in Layer
            BY <3>3 DEF Descends
        <3> HIDE DEF m
        <3>5. f \in BOOLEAN
            BY LayerFields DEF Filled
        <3>6. x.io = [m EXCEPT !.full = f] /\ x.n = 0 /\ x.error = "none"
            BY <3>1 DEF Done
        <3>7. /\ Descends(d, x.io) /\ Buffered(d, x.io, {}) /\ Bottom(x.io) = Bottom(m)
              /\ x.io.outer = m.outer /\ x.io.w = m.w /\ x.io.r = m.r
            <4> DEFINE e == x.io
            <4>1. e = [m EXCEPT !.full = f]
                BY <3>6
            <4> HIDE DEF e
            <4>2. /\ Bottom(e) = Bottom(m) /\ e.outer = m.outer /\ e.w = m.w /\ e.r = m.r
                  /\ \A c, S : /\ Descends(c, m) => Descends(c, e)
                               /\ Buffered(c, m, S) => Buffered(c, e, S)
                BY <3>4, <3>5, <4>1, FullAside, Zenon
            <4>3. Descends(d, e) /\ Buffered(d, e, {})
                BY <3>3, <4>2, Zenon
            <4> QED
                BY <4>2, <4>3 DEF e
        <3> QED
            BY <1>3, <3>3, <3>6, <3>7
    <2>2. CASE \E k \in 0 .. Len(d.outer) - 1 : x = Raise(Move(d, k), "OSError")
        <3>1. PICK k \in 0 .. Len(d.outer) - 1 : x = Raise(Move(d, k), "OSError")
            BY <2>2
        <3>2. k \in Nat
            BY <1>1, <3>1
        <3> QED
            BY <1>3, <3>1, <3>2, MoveDescends DEF Raise
    <2> QED
        BY <1>3, <2>1, <2>2 DEF Drain
<1> QED
    BY <1>2, <1>3

\* What is in the inner buffer is written below it.
LEMMA InnerDescends ==
    ASSUME NEW d \in Layer, Tidy(d), NEW e, e = [d EXCEPT !.sink = @ \o d.inner, !.inner = <<>>]
    PROVE  /\ Descends(d, e) /\ Bottom(e) = Bottom(d) /\ Buffered(d, e, {})
           /\ e.w = d.w /\ e.r = d.r /\ e.outer = d.outer /\ e.inner = <<>>
<1>1. d.sink \in Seq(Cells) /\ d.inner \in Seq(Cells) /\ Sunk(d) \in Seq(Cells)
    BY LayerFields, Descending
<1>2. /\ d.sink \o d.inner \in Seq(Cells)
      /\ Elements(d.sink) \subseteq Elements(d.sink \o d.inner)
      /\ (d.sink \o d.inner) \o <<>> = d.sink \o d.inner
    BY <1>1, ElementsConcat, ConcatEmptySeq
<1>3. /\ e \in Layer /\ e.sink = d.sink \o d.inner /\ e.inner = <<>> /\ e.outer = d.outer
      /\ e.w = d.w /\ e.r = d.r /\ SameReader(d, e)
    <2> DEFINE z == d.sink \o d.inner
    <2>1. e = [d EXCEPT !.sink = z, !.inner = <<>>] /\ z \in Seq(Cells) /\ <<>> \in Seq(Cells)
        BY <1>2
    <2> HIDE DEF z
    <2>2. /\ e \in Layer /\ e.sink = z /\ e.inner = <<>> /\ e.outer = d.outer
          /\ e.w = d.w /\ e.r = d.r /\ SameReader(d, e)
        BY <2>1 DEF Layer, SameReader
    <2> QED
        BY <2>2 DEF z
<1>4. Sunk(e) = Sunk(d)
    BY <1>2, <1>3 DEF Sunk
<1>5. Sunk(e) = Sunk(d) \o <<>> /\ <<>> \in Seq(Cells)
    BY <1>1, <1>4, ConcatEmptySeq
<1>6. Bottom(e) = Bottom(d) /\ Tidy(e)
    BY <1>3, <1>4 DEF Bottom, Tidy
<1>7. Buffered(d, e, {})
    BY <1>3, NothingIn DEF Buffered
<1> QED
    BY <1>2, <1>3, <1>5, <1>6, <1>7 DEF Descends

LEMMA FlushDescends ==
    ASSUME NEW d \in Layer, Tidy(d), NEW x \in flush(d)
    PROVE  /\ Descends(d, x.io) /\ Bottom(x.io) = Bottom(d) /\ Buffered(d, x.io, {})
           /\ x.io.w = d.w /\ x.io.r = d.r /\ x.n = 0
           /\ x.error = "none" => /\ d.w /\ x.io.outer = <<>>
                                  /\ x.io.inner = <<>> \/ (stack.w = "fallback" /\ stack.buffered)
           /\ ~d.w => x.io = d
<1>1. CASE stack.buffered
    <2>1. x \in Drain(d)
        BY <1>1 DEF flush
    <2>2. Tidy(x.io)
        BY <1>1, <2>1, DrainDescends DEF Descends
    <2> QED
        BY <1>1, <2>1, <2>2, DrainDescends DEF Tidy
<1>2. CASE ~stack.buffered /\ x.io = d /\ x.n = 0 /\ x.error # "none"
    BY <1>2, Descending DEF Buffered
<1>3. CASE ~stack.buffered /\ d.w /\ x = Done([d EXCEPT !.sink = @ \o d.inner, !.inner = <<>>], 0)
    <2>1. d.outer = <<>>
        BY <1>3 DEF Tidy
    <2>2. x.io = [d EXCEPT !.sink = @ \o d.inner, !.inner = <<>>] /\ x.n = 0 /\ x.error = "none"
        BY <1>3 DEF Done
    <2> QED
        BY <1>3, <2>1, <2>2, InnerDescends
<1> QED
    BY <1>1, <1>2, <1>3 DEF flush, Closed, Raise

\* What a write to the raw stream accepts goes below what the outer buffer holds.
LEMMA RawWriteDescends ==
    ASSUME NEW d \in Layer, Tidy(d), NEW cells \in Seq(Cells), NEW x \in RawWrite(d, cells)
    PROVE  /\ Descends(d, x.io) /\ Sunk(x.io) = Sunk(d) \o Take(cells, x.n)
           /\ Buffered(d, x.io, Elements(Take(cells, x.n)))
           /\ x.io.outer = d.outer /\ x.io.w = d.w /\ x.io.r = d.r
           /\ x.n \in Nat /\ x.n <= Len(cells)
           /\ x.error = "none" /\ stack.w # "socket" => x.n = Len(cells)
           /\ x.error # "none" => x.n = 0 /\ x.io = d
           /\ ~d.w => x.io.inner = d.inner
<1>1. d.sink \in Seq(Cells) /\ d.inner \in Seq(Cells) /\ Len(cells) \in Nat /\ Sunk(d) \in Seq(Cells)
    BY LayerFields, Descending
<1>5. Len(cells) <= Len(cells) /\ Take(cells, Len(cells)) = cells
    BY <1>1, PartsOf
<1>2. CASE x.io = d /\ x.n = 0 /\ x.error # "none"
    <2>1. Take(cells, 0) = <<>> /\ Sunk(d) \o <<>> = Sunk(d)
        BY <1>1, PartsOf, ConcatEmptySeq
    <2> QED
        BY <1>1, <1>2, <2>1, Descending DEF Buffered
<1>3. ASSUME stack.w # "fallback", NEW k \in Nat, k <= Len(cells), stack.w # "socket" => k = Len(cells),
             NEW f \in BOOLEAN, x = Done(Send(d, Take(cells, k), f), k)
      PROVE  /\ Descends(d, x.io) /\ Sunk(x.io) = Sunk(d) \o Take(cells, x.n)
             /\ x.io.outer = d.outer /\ x.io.inner = d.inner /\ x.io.w = d.w /\ x.io.r = d.r
             /\ x.n = k /\ x.error = "none"
    <2> DEFINE a == Take(cells, k)
               e == Send(d, a, f)
    <2>2. a \in Seq(Cells) /\ d.sink \o a \in Seq(Cells) /\ d.inner = <<>>
          /\ Elements(d.sink) \subseteq Elements(d.sink \o a)
        BY <1>1, <1>3, TakeAndDrop, ElementsConcat DEF Tidy
    <2>3. /\ e \in Layer /\ e.sink = d.sink \o a /\ e.inner = d.inner /\ e.outer = d.outer
          /\ e.w = d.w /\ e.r = d.r /\ SameReader(d, e)
        <3> DEFINE z == d.sink \o a
        <3>1. e = [d EXCEPT !.sink = z, !.full = f] /\ z \in Seq(Cells)
            BY <2>2 DEF Send
        <3> HIDE DEF z, e
        <3>2. /\ e \in Layer /\ e.sink = z /\ e.inner = d.inner /\ e.outer = d.outer
              /\ e.w = d.w /\ e.r = d.r /\ SameReader(d, e)
            BY <1>3, <3>1 DEF Layer, SameReader
        <3> QED
            BY <3>2 DEF z
    <2>4. x.io = e /\ x.n = k /\ x.error = "none"
        BY <1>3 DEF Done
    <2> HIDE DEF e, a
    <2>5. (d.sink \o a) \o <<>> = d.sink \o a /\ d.sink \o <<>> = d.sink
        BY <1>1, <2>2, ConcatEmptySeq
    <2>6. Sunk(e) = Sunk(d) \o a
        BY <2>2, <2>3, <2>5 DEF Sunk
    <2>7. Tidy(e)
        BY <2>3 DEF Tidy
    <2> QED
        BY <1>3, <2>2, <2>3, <2>4, <2>6, <2>7 DEF Descends, a
<1>4. CASE d.w /\ stack.w = "fallback"
           /\ x = Done([d EXCEPT !.inner = @ \o cells], Len(cells))
    <2> DEFINE e == [d EXCEPT !.inner = @ \o cells]
    <2>1. d.inner \o cells \in Seq(Cells) /\ Take(cells, Len(cells)) = cells
          /\ Elements(d.inner \o cells) = Elements(d.inner) \cup Elements(cells)
        BY <1>1, ElementsConcat, PartsOf
    <2>2. /\ e \in Layer /\ e.sink = d.sink /\ e.inner = d.inner \o cells /\ e.outer = d.outer
          /\ e.w = d.w /\ e.r = d.r /\ SameReader(d, e)
        BY <2>1 DEF Layer, SameReader
    <2>3. x.io = e /\ x.n = Len(cells) /\ x.error = "none"
        BY <1>4 DEF Done
    <2> HIDE DEF e
    <2>4. (d.sink \o d.inner) \o cells = d.sink \o (d.inner \o cells)
        BY <1>1, Associative
    <2>5. Sunk(e) = Sunk(d) \o cells
        BY <2>2, <2>4 DEF Sunk
    <2>6. Tidy(e)
        BY <1>4, <2>2 DEF Tidy
    <2>7. Descends(d, e)
        BY <2>2, <2>5, <2>6 DEF Descends
    <2>8. Take(cells, x.n) = cells
        BY <2>1, <2>3
    <2>9. Sunk(x.io) = Sunk(d) \o Take(cells, x.n)
        BY <2>3, <2>5, <2>8
    <2>10. x.n \in Nat /\ x.n <= Len(cells)
        BY <1>1, <2>3
    <2>11. Buffered(d, x.io, Elements(Take(cells, x.n)))
        BY <2>1, <2>2, <2>3, <2>8 DEF Buffered
    <2> QED
        BY <1>4, <2>2, <2>3, <2>7, <2>9, <2>10, <2>11
<1>6. ASSUME stack.w # "fallback", NEW k \in Nat, k <= Len(cells), stack.w # "socket" => k = Len(cells),
             NEW f \in BOOLEAN, x = Done(Send(d, Take(cells, k), f), k)
      PROVE  /\ Descends(d, x.io) /\ Sunk(x.io) = Sunk(d) \o Take(cells, x.n)
             /\ Buffered(d, x.io, Elements(Take(cells, x.n)))
             /\ x.io.outer = d.outer /\ x.io.inner = d.inner /\ x.io.w = d.w /\ x.io.r = d.r
             /\ x.n \in Nat /\ x.n <= Len(cells) /\ (stack.w # "socket" => x.n = Len(cells))
             /\ x.error = "none"
    <2>1. /\ Descends(d, x.io) /\ Sunk(x.io) = Sunk(d) \o Take(cells, x.n)
          /\ x.io.outer = d.outer /\ x.io.inner = d.inner /\ x.io.w = d.w /\ x.io.r = d.r
          /\ x.n = k /\ x.error = "none"
        BY <1>3, <1>6
    <2>2. Buffered(d, x.io, Elements(Take(cells, x.n)))
        BY <2>1 DEF Buffered
    <2> QED
        BY <1>6, <2>1, <2>2
<1> DEFINE parts == {Done(Send(d, Take(cells, k), f), k) : k \in 1 .. Len(cells), f \in BOOLEAN}
           inside == Done([d EXCEPT !.inner = @ \o cells], Len(cells))
           whole == Done(Send(d, cells, d.full), Len(cells))
<1>7. \/ x \in {Closed(d), Raise(d, "OSError")}
      \/ stack.w = "socket" /\ x \in parts
      \/ stack.w = "fallback" /\ d.w /\ x = inside
      \/ stack.w \notin {"socket", "fallback"} /\ x = whole
    <2>1. x \in CASE stack.w = "socket" -> IF d.full THEN {} ELSE {Raise(d, "OSError")} \cup parts
                  [] stack.w = "fallback" -> {IF d.w THEN inside ELSE Closed(d)}
                  [] OTHER -> {IF d.w THEN whole ELSE Closed(d)}
                              \cup IF d.w /\ Fallible THEN {Raise(d, "OSError")} ELSE {}
        BY DEF RawWrite
    <2> HIDE DEF parts, inside, whole
    <2> QED
        BY <2>1
<1>8. CASE x \in {Closed(d), Raise(d, "OSError")}
    BY <1>2, <1>8 DEF Closed, Raise
<1>9. CASE stack.w = "socket" /\ x \in parts
    <2>1. PICK k \in 1 .. Len(cells), f \in BOOLEAN : x = Done(Send(d, Take(cells, k), f), k)
        BY <1>9
    <2>2. k \in Nat /\ k <= Len(cells)
        BY <1>1
    <2> QED
        BY <1>6, <1>9, <2>1, <2>2
<1>10. CASE stack.w \notin {"socket", "fallback"} /\ x = whole
    <2>1. d.full \in BOOLEAN
        BY LayerFields
    <2>2. x = Done(Send(d, Take(cells, Len(cells)), d.full), Len(cells))
        BY <1>5, <1>10
    <2> HIDE DEF parts, inside, whole
    <2> QED
        BY <1>1, <1>5, <1>6, <1>10, <2>1, <2>2
<1> QED
    BY <1>4, <1>7, <1>8, <1>9, <1>10

\* What a write accepts goes above or below what the outer buffer holds; above, if it is
\* buffered.
LEMMA WriteDescends ==
    ASSUME NEW d \in Layer, Tidy(d), NEW cells \in Seq(Cells), Len(cells) <= 2,
           NEW x \in write(d, cells)
    PROVE  /\ Descends(d, x.io) /\ Bottom(x.io) = Bottom(d) \o Take(cells, x.n)
           /\ Buffered(d, x.io, Elements(Take(cells, x.n)))
           /\ x.io.w = d.w /\ x.io.r = d.r
           /\ x.n \in Nat /\ x.n <= Len(cells)
           /\ x.error = "none" /\ stack.w # "socket" => x.n = Len(cells)
           /\ x.error # "none" => x.n = 0
           /\ ~d.w => x.io.outer = d.outer /\ x.io.inner = d.inner
<1>1. /\ d.outer \in Seq(Cells) /\ Len(cells) \in Nat /\ Sunk(d) \in Seq(Cells)
      /\ Bottom(d) \in Seq(Cells) /\ Bottom(d) \o <<>> = Bottom(d) /\ Take(cells, 0) = <<>>
    BY LayerFields, Descending, PartsOf, ConcatEmptySeq
<1>8. Len(cells) \in Nat /\ 0 <= Len(cells)
    BY <1>1
<1>7. x.n = Len(cells) => Take(cells, x.n) = cells
    BY <1>1, PartsOf
<1>2. CASE ~stack.buffered
    <2>1. x \in RawWrite(d, cells)
        BY <1>2 DEF write
    <2>2. Take(cells, x.n) \in Seq(Cells)
        BY <2>1, RawWriteDescends, TakeAndDrop
    <2>3. d.outer = <<>> /\ x.io.outer = <<>> /\ Sunk(x.io) = Sunk(d) \o Take(cells, x.n)
        BY <1>2, <2>1, RawWriteDescends DEF Tidy
    <2>4. /\ Sunk(d) \o Take(cells, x.n) \in Seq(Cells)
          /\ (Sunk(d) \o Take(cells, x.n)) \o <<>> = Sunk(d) \o Take(cells, x.n)
          /\ Sunk(d) \o <<>> = Sunk(d)
        BY <1>1, <2>2, ConcatProperties, ConcatEmptySeq
    <2>5. Bottom(x.io) = Bottom(d) \o Take(cells, x.n)
        BY <2>3, <2>4 DEF Bottom
    <2> QED
        BY <2>1, <2>5, RawWriteDescends
<1>3. CASE stack.buffered /\ ~d.w
    BY <1>1, <1>3, Descending DEF write, Closed, Raise, Buffered
<1>4. ASSUME stack.buffered, NEW e, Descends(d, e), Bottom(e) = Bottom(d), e.w = d.w, e.r = d.r, d.w,
             Buffered(d, e, {}),
             x = Done([e EXCEPT !.outer = @ \o cells], Len(cells)),
             Len(e.outer) + Len(cells) <= BufferSize
      PROVE  /\ Descends(d, x.io) /\ Bottom(x.io) = Bottom(d) \o cells
             /\ x.io.w = d.w /\ x.io.r = d.r /\ x.n = Len(cells) /\ x.error = "none"
             /\ Buffered(d, x.io, Elements(cells))
    <2> DEFINE f == [e EXCEPT !.outer = @ \o cells]
    <2>1. e \in Layer /\ Tidy(e)
        BY <1>4 DEF Descends
    <2>2. e.outer \in Seq(Cells) /\ e.outer \o cells \in Seq(Cells)
          /\ Len(e.outer \o cells) = Len(e.outer) + Len(cells) /\ Sunk(e) \in Seq(Cells)
          /\ Elements(e.outer \o cells) = Elements(e.outer) \cup Elements(cells)
        BY <2>1, LayerFields, ElementsConcat, Descending
    <2>3. /\ f \in Layer /\ f.outer = e.outer \o cells /\ f.inner = e.inner /\ f.sink = e.sink
          /\ f.w = e.w /\ f.r = e.r /\ SameReader(e, f)
        BY <2>1, <2>2 DEF Layer, SameReader
    <2>4. x.io = f /\ x.n = Len(cells) /\ x.error = "none"
        BY <1>4 DEF Done
    <2> HIDE DEF f
    <2>5. Tidy(f)
        BY <1>4, <2>1, <2>2, <2>3 DEF Tidy
    <2>6. Sunk(f) = Sunk(e)
        BY <2>3 DEF Sunk
    <2>7. (Sunk(e) \o e.outer) \o cells = Sunk(e) \o (e.outer \o cells)
        BY <2>2, Associative
    <2>8. Bottom(f) = Bottom(e) \o cells
        BY <2>3, <2>6, <2>7 DEF Bottom
    <2>9. Descends(d, f)
        BY <1>4, <2>3, <2>5, <2>6 DEF Descends, SameReader
    <2>10. Buffered(d, f, Elements(cells))
        BY <1>4, <2>2, <2>3 DEF Buffered
    <2> QED
        BY <1>4, <2>3, <2>4, <2>8, <2>9, <2>10
<1>5. CASE stack.buffered /\ d.w /\ Len(d.outer) + Len(cells) <= BufferSize
    <2>1. x = Done([d EXCEPT !.outer = @ \o cells], Len(cells))
        BY <1>5 DEF write
    <2>2. Descends(d, d) /\ Buffered(d, d, {})
        BY Descending DEF Buffered
    <2>3. /\ Descends(d, x.io) /\ Bottom(x.io) = Bottom(d) \o cells /\ Buffered(d, x.io, Elements(cells))
          /\ x.io.w = d.w /\ x.io.r = d.r /\ x.n = Len(cells) /\ x.error = "none"
        BY <1>4, <1>5, <2>1, <2>2
    <2> QED
        BY <1>1, <1>5, <1>7, <2>3
<1>6. CASE stack.buffered /\ d.w /\ ~(Len(d.outer) + Len(cells) <= BufferSize)
    <2>1. PICK y \in Drain(d) : x = IF y.error # "none" THEN y
                                    ELSE Done([y.io EXCEPT !.outer = @ \o cells], Len(cells))
        BY <1>6 DEF write
    <2>2. Descends(d, y.io) /\ Bottom(y.io) = Bottom(d) /\ y.io.w = d.w /\ y.io.r = d.r /\ y.n = 0
          /\ (y.error = "none" => y.io.outer = <<>>) /\ Buffered(d, y.io, {})
        BY <1>6, DrainDescends
    <2>3. CASE y.error # "none"
        <3>1. x = y /\ x.n = 0 /\ Take(cells, x.n) = <<>>
            BY <1>1, <2>1, <2>2, <2>3
        <3>2. Bottom(x.io) = Bottom(d) \o Take(cells, x.n)
            BY <1>1, <2>2, <3>1
        <3> QED
            <4>1. x.n \in Nat /\ x.n <= Len(cells) /\ x.io = y.io /\ x.error # "none"
                BY <1>8, <2>3, <3>1
            <4>2. Buffered(d, x.io, Elements(Take(cells, x.n)))
                BY <2>2, <4>1 DEF Buffered
            <4> QED
                BY <1>6, <2>2, <3>1, <3>2, <4>1, <4>2
    <2>4. CASE y.error = "none"
        <3>1. Len(y.io.outer) = 0
            BY <2>2, <2>4
        <3>2. Len(y.io.outer) + Len(cells) <= BufferSize
            BY <1>1, <3>1, SizeAssumption
        <3>3. /\ Descends(d, x.io) /\ Bottom(x.io) = Bottom(d) \o cells /\ Buffered(d, x.io, Elements(cells))
              /\ x.io.w = d.w /\ x.io.r = d.r /\ x.n = Len(cells) /\ x.error = "none"
            BY <1>4, <1>6, <2>1, <2>2, <2>4, <3>2
        <3> QED
            BY <1>1, <1>6, <1>7, <3>3
    <2> QED
        BY <2>3, <2>4
<1> QED
    BY <1>2, <1>3, <1>5, <1>6

\* The steps of a close.
LEMMA CloseDescends ==
    ASSUME NEW d \in Layer, Tidy(d), NEW x \in CloseOuter(d) \cup CloseInner(d)
    PROVE  /\ Descends(d, x.io) /\ Bottom(x.io) = Bottom(d) /\ Buffered(d, x.io, {})
           /\ x.io.w = d.w /\ x.io.r = d.r
           /\ x \in CloseOuter(d) /\ x.error = "none" => x.io.outer = <<>>
           /\ x \in CloseInner(d) => x.io.outer = d.outer /\ (x.error = "none" => x.io.inner = <<>>)
<1>1. Descends(d, d) /\ Buffered(d, d, {})
    BY Descending DEF Buffered
<1>2. ASSUME x \in CloseOuter(d)
      PROVE  /\ Descends(d, x.io) /\ Bottom(x.io) = Bottom(d) /\ Buffered(d, x.io, {})
             /\ x.io.w = d.w /\ x.io.r = d.r
             /\ x.error = "none" => x.io.outer = <<>>
    <2>1. CASE stack.buffered
        <3>1. x \in Drain(d)
            BY <1>2, <2>1 DEF CloseOuter
        <3> QED
            BY <2>1, <3>1, DrainDescends
    <2>2. CASE ~stack.buffered
        BY <1>1, <1>2, <2>2 DEF CloseOuter, Done, Tidy
    <2> QED
        BY <2>1, <2>2
<1>3. ASSUME x \in CloseInner(d)
      PROVE  /\ Descends(d, x.io) /\ Bottom(x.io) = Bottom(d) /\ Buffered(d, x.io, {})
             /\ x.io.w = d.w /\ x.io.r = d.r
             /\ x.io.outer = d.outer /\ (x.error = "none" => x.io.inner = <<>>)
    <2>1. CASE x = Done([d EXCEPT !.sink = @ \o d.inner, !.inner = <<>>], 0)
        <3>1. x.io = [d EXCEPT !.sink = @ \o d.inner, !.inner = <<>>]
            BY <2>1 DEF Done
        <3> QED
            BY <3>1, InnerDescends
    <2>2. CASE x = Raise(d, "OSError")
        BY <1>1, <2>2 DEF Raise
    <2> QED
        BY <1>3, <2>1, <2>2 DEF CloseInner
<1> QED
    BY <1>2, <1>3

\* Shutting one of the streams moves nothing.
LEMMA ShutDescends ==
    ASSUME NEW d \in Layer, Tidy(d), NEW e \in {Shut(d), CloseReader(d)}
    PROVE  /\ Descends(d, e) /\ Bottom(e) = Bottom(d) /\ Buffered(d, e, {})
           /\ e.outer = d.outer /\ e.inner = d.inner /\ e.sink = d.sink
           /\ e = Shut(d) => ~e.w
           /\ e.w => d.w
           /\ e = CloseReader(d) /\ ~OneSocket => e.w = d.w
<1>1. /\ e \in Layer /\ SameReader(d, e)
      /\ e.outer = d.outer /\ e.inner = d.inner /\ e.sink = d.sink
      /\ e = Shut(d) => ~e.w
      /\ e.w => d.w
      /\ e = CloseReader(d) /\ ~OneSocket => e.w = d.w
    <2>1. CASE e = Shut(d)
        <3>1. /\ e \in Layer /\ SameReader(d, e) /\ ~e.w
              /\ e.outer = d.outer /\ e.inner = d.inner /\ e.sink = d.sink
            BY <2>1 DEF Shut, Layer, SameReader
        <3> HIDE <2>1
        <3>2. e = CloseReader(d) /\ ~OneSocket => e.w = d.w
            BY DEF CloseReader, Layer
        <3> QED
            BY <3>1, <3>2
    <2>2. CASE e # Shut(d)
        <3>1. e = CloseReader(d)
            BY <2>2
        <3>2. /\ e \in Layer /\ SameReader(d, e) /\ (e.w => d.w) /\ (~OneSocket => e.w = d.w)
              /\ e.outer = d.outer /\ e.inner = d.inner /\ e.sink = d.sink
            BY <3>1 DEF CloseReader, Layer, SameReader
        <3> QED
            BY <2>2, <3>2
    <2> QED
        BY <2>1, <2>2
<1> HIDE DEF Shut, CloseReader
<1>2. Sunk(e) = Sunk(d) /\ Bottom(e) = Bottom(d) /\ Tidy(e) /\ Sunk(d) \in Seq(Cells)
    BY <1>1, Descending DEF Sunk, Bottom, Tidy
<1>3. Sunk(e) = Sunk(d) \o <<>> /\ <<>> \in Seq(Cells)
    BY <1>2, ConcatEmptySeq
<1>4. Buffered(d, e, {})
    BY <1>1 DEF Buffered
<1> QED
    BY <1>1, <1>2, <1>3, <1>4 DEF Descends


----------------------------------------------------------------------------
(* The types, and the jobs that are left of a method. *)

Ats    == {"idle", "ready", "queued", "running", "done", "raised"}
Live   == {"ready", "queued", "running"}
Places == {"loop", "pool", "ring"}

JobType ==
    [do : {"take"}, n : {-1, 1, 2}, on : Places]
    \cup [do : {"put"}, cells : Seq(Cells), as : {"bytes", "str"}, on : Places]
    \cup [do : {"write"}, cells : Seq(Cells), on : Places]
    \cup [do : {"flush", "close", "close_other", "read"}, on : Places]
    \cup [do : {"close_inner", "shut"}, on : Places, failed : BOOLEAN]

CoType == [name : Names \cup {"none"}, at : Ats, jobs : Seq(JobType), cells : Seq(Cells), n : Nat]

SeenType == [accepted : Seq(Cells), taken : Seq(Cells), flushed : SUBSET Cells, late : SUBSET Cells,
             around : [r : BOOLEAN, w : BOOLEAN], cut : BOOLEAN]

\* A method's last job, and the one before it.  A close that runs has jobs of its own.
LastJob(c, j) ==
    \/ c.name = "awrite" /\ stack.w # "plain" /\ j = Put(c.cells, "bytes")
    \/ c.name = "awrite_batch" /\ stack.w # "plain" /\ j = Put(Drop(c.cells, 1), "bytes")
    \/ c.name = "write" /\ j = SyncWrite(c.cells, "loop")
    \/ c.name = "aread" /\ j = Recv(1)
    \/ c.name = "aread_all" /\ j = Recv(-1)
    \/ c.name = "asplice" /\ c.n = 0 /\ c.cells = <<>> /\ j = Recv(2)
    \/ c.name = "asplice" /\ c.n = 0 /\ stack.w = "plain" /\ j = SyncWrite(c.cells, "pool")
    \/ c.name = "asplice" /\ c.n = 0 /\ stack.w # "plain" /\ j = Put(c.cells, "bytes")
    \/ c.name = "aflush" /\ j = Sync("flush", OnPool(stack.w))
    \/ c.name = "aclose" /\ j = Sync("close", OnPool(stack.w))
    \/ c.name \in {"flush", "close", "close_other", "read"} /\ j = Sync(c.name, "loop")
    \/ /\ c.name \in {"aclose", "close"} /\ c.at = "running"
       /\ \E do \in {"close_inner", "shut"}, p \in Places, f \in BOOLEAN : j = Rest(do, p, f)
    \/ c.name \in Prints /\ j \in {Sync("flush", p) : p \in Places}

JobBefore(c, j) ==
    \/ c.name = "awrite_batch" /\ stack.w # "plain" /\ j = Put(Take(c.cells, 1), "bytes")
    \/ c.name \in Prints /\ stack.w = "plain" /\ j = SyncWrite(c.cells, "loop")
    \/ c.name \in Prints /\ stack.w # "plain" /\ \E as \in {"bytes", "str"} : j = Put(c.cells, as)

Shape(c) ==
    \/ Len(c.jobs) = 1 /\ LastJob(c, c.jobs[1])
    \/ Len(c.jobs) = 2 /\ JobBefore(c, c.jobs[1]) /\ LastJob(c, c.jobs[2])

Sizes(c) ==
    /\ c.name = "none" => c = NotStarted
    /\ c.name \in Writes => Len(c.cells) = 2
    /\ c.name = "asplice" => Len(c.cells) <= 2

InStep(t) ==
    /\ (co[t].at = "queued") <=> (t \in Elements(queue))
    /\ co[t].at \in Live => Shape(co[t])
    /\ Sizes(co[t])
    /\ co[t].name # "none" => t <= count

TypeInv ==
    /\ stack \in Stacks
    /\ io \in Layer /\ Tidy(io)
    /\ co \in [Coroutines -> CoType]
    /\ queue \in Seq(Coroutines) /\ Distinct(queue)
    /\ count \in 0 .. MaxCalls
    /\ seen \in SeenType
    /\ \A t \in Coroutines : InStep(t)

LEMMA CoFields ==
    ASSUME NEW c \in CoType
    PROVE  /\ c.name \in Names \cup {"none"} /\ c.at \in Ats /\ c.jobs \in Seq(JobType)
           /\ c.cells \in Seq(Cells) /\ c.n \in Nat /\ Len(c.cells) \in Nat /\ Len(c.jobs) \in Nat
    BY DEF CoType

LEMMA SeenFields ==
    ASSUME NEW h \in SeenType
    PROVE  /\ h.accepted \in Seq(Cells) /\ h.taken \in Seq(Cells) /\ h.late \subseteq Cells
           /\ h.flushed \subseteq Cells /\ h.around.r \in BOOLEAN /\ h.around.w \in BOOLEAN
           /\ h.cut \in BOOLEAN
    BY DEF SeenType

\* One coroutine has gone on.
LEMMA OneGoesOn ==
    ASSUME co \in [Coroutines -> CoType], NEW t \in Coroutines, NEW c \in CoType,
           co' = [co EXCEPT ![t] = c]
    PROVE  /\ co' \in [Coroutines -> CoType] /\ co'[t] = c
           /\ \A u \in Coroutines : u # t => co'[u] = co[u]
    OBVIOUS

\* A coroutine in another step of its method.
LEMMA OtherStep ==
    ASSUME NEW c \in CoType, NEW a \in Ats, NEW d, d = [c EXCEPT !.at = a]
    PROVE  /\ d \in CoType /\ d.at = a
           /\ d.name = c.name /\ d.jobs = c.jobs /\ d.cells = c.cells /\ d.n = c.n
    BY DEF CoType

LEMMA SameShape ==
    ASSUME NEW c \in CoType, NEW d \in CoType,
           d.name = c.name, d.jobs = c.jobs, d.cells = c.cells, d.n = c.n,
           c.at = "running" => d.at = "running"
    PROVE  Shape(c) => Shape(d)
<1>1. ASSUME NEW j, LastJob(c, j) PROVE LastJob(d, j)
    BY <1>1 DEF LastJob
<1>2. ASSUME NEW j, JobBefore(c, j) PROVE JobBefore(d, j)
    BY <1>2 DEF JobBefore
<1> QED
    BY <1>1, <1>2 DEF Shape

\* The cells that the next call writes.
LEMMA FreshCells ==
    ASSUME count \in 0 .. MaxCalls, count < MaxCalls
    PROVE  /\ Fresh \in Seq(Cells) /\ Len(Fresh) = 2 /\ Distinct(Fresh)
           /\ count + 1 \in 0 .. MaxCalls
           /\ Elements(Fresh) \subseteq 1 .. 2 * (count + 1)
           /\ Elements(Fresh) \cap 1 .. 2 * count = {}
<1> DEFINE w == count
<1>1. w \in Nat /\ w + 1 \in 0 .. MaxCalls /\ w < MaxCalls
    BY SizeAssumption
<1>2. Fresh = <<2 * w + 1, 2 * w + 2>>
    BY DEF Fresh
<1> HIDE DEF w
<1>3. 2 * w + 1 \in 1 .. 2 * MaxCalls /\ 2 * w + 2 \in 1 .. 2 * MaxCalls
    BY <1>1, SizeAssumption
<1>4. 1 .. 2 * MaxCalls \subseteq Cells
    BY DEF Cells
<1>5. Elements(Fresh) = {2 * w + 1, 2 * w + 2}
    BY <1>2 DEF Elements
<1>6. /\ 2 * w + 1 \in 1 .. 2 * (w + 1) /\ 2 * w + 2 \in 1 .. 2 * (w + 1)
      /\ 2 * w + 1 \notin 1 .. 2 * w /\ 2 * w + 2 \notin 1 .. 2 * w /\ 2 * w + 1 # 2 * w + 2
    BY <1>1
<1>7. Distinct(Fresh)
    BY <1>2, <1>6 DEF Distinct
<1>8. Fresh \in Seq(Cells) /\ Len(Fresh) = 2
    BY <1>2, <1>3, <1>4
<1> QED
    BY <1>1, <1>5, <1>6, <1>7, <1>8 DEF w

LEMMA InStepNext ==
    ASSUME stack' = stack, NEW t \in Coroutines, NEW c, c = co'[t],
           c.at \in Live => Shape(c), Sizes(c), (c.at = "queued") <=> (t \in Elements(queue')),
           c.name # "none" => t <= count'
    PROVE  InStep(t)'
<1>1. Shape(c) => Shape(co[t])'
    BY DEF Shape, LastJob, JobBefore, Put, Recv, Sync, SyncWrite, Rest, OnPool
<1>2. Elements(queue)' = Elements(queue')
    BY DEF Elements
<1>3. Sizes(c) => Sizes(co[t])'
    BY DEF Sizes
<1> QED
    BY <1>1, <1>2, <1>3 DEF InStep

LEMMA AllInStep ==
    ASSUME TypeInv, UNCHANGED <<stack, co, queue, count>>
    PROVE  \A t \in Coroutines : InStep(t)'
<1> SUFFICES ASSUME NEW t \in Coroutines PROVE InStep(t)'
    OBVIOUS
<1>1. co'[t] = co[t] /\ queue' = queue /\ stack' = stack /\ count' = count
    OBVIOUS
<1>2. InStep(t)
    BY DEF TypeInv
<1> QED
    BY <1>1, <1>2, InStepNext DEF InStep

\* A step that leaves the coroutines alone keeps their types.
LEMMA TypesKept ==
    ASSUME TypeInv, UNCHANGED <<stack, co, queue, count>>,
           io' \in Layer, Tidy(io)', seen' \in SeenType
    PROVE  TypeInv'
<1>1. (Distinct(queue) => Distinct(queue)')
    BY DEF Distinct
<1> QED
    BY <1>1, AllInStep DEF TypeInv

LEMMA TidyNext ==
    ASSUME stack' = stack, Tidy(io')
    PROVE  Tidy(io)'
    BY DEF Tidy

\* A step of the coroutine t, which is now c, keeps the types.
LEMMA TypesGoOn ==
    ASSUME TypeInv, stack' = stack, NEW t \in Coroutines, NEW c \in CoType,
           co' = [co EXCEPT ![t] = c],
           c.at \in Live => Shape(c), Sizes(c), (c.at = "queued") <=> (t \in Elements(queue')),
           c.name # "none" => t <= count',
           queue' \in Seq(Coroutines), Distinct(queue'),
           \A u \in Coroutines : u # t => ((u \in Elements(queue')) <=> (u \in Elements(queue))),
           io' \in Layer, Tidy(io'), count' \in 0 .. MaxCalls, count <= count', seen' \in SeenType
    PROVE  TypeInv'
<1>1. /\ co' \in [Coroutines -> CoType] /\ co'[t] = c
      /\ \A u \in Coroutines : u # t => co'[u] = co[u]
    BY OneGoesOn DEF TypeInv
<1>2. InStep(t)'
    BY <1>1, InStepNext
<1>3. ASSUME NEW u \in Coroutines, u # t
      PROVE  InStep(u)'
    <2>1. InStep(u) /\ co'[u] = co[u] /\ count \in Nat /\ count' \in Nat /\ u \in Nat
        BY <1>1, <1>3, SizeAssumption DEF TypeInv, Coroutines
    <2>2. co[u].name # "none" => u <= count'
        BY <2>1 DEF InStep
    <2> QED
        BY <1>3, <2>1, <2>2, InStepNext DEF InStep
<1>4. Tidy(io)' /\ Distinct(queue)'
    BY TidyNext DEF Distinct
<1> QED
    BY <1>1, <1>2, <1>3, <1>4 DEF TypeInv

\* What is accepted is recorded.
LEMMA Accepting ==
    ASSUME NEW h \in SeenType, NEW a \in Seq(Cells)
    PROVE  /\ Accept(h, a) \in SeenType
           /\ Accept(h, a).accepted = h.accepted \o a /\ Accept(h, a).taken = h.taken
           /\ Accept(h, a).flushed = h.flushed
           /\ Accept(h, a).around = h.around /\ Accept(h, a).cut = h.cut
           /\ h.late \subseteq Accept(h, a).late
           /\ HasFlushed => Elements(a) \subseteq Accept(h, a).late
<1> DEFINE b == h.accepted \o a
           l == h.late \cup IF HasFlushed THEN Elements(a) ELSE {}
<1>1. b \in Seq(Cells) /\ l \subseteq Cells
    BY SeenFields, ConcatProperties, ElementsOf
<1>2. Accept(h, a) = [h EXCEPT !.accepted = b, !.late = l]
    BY DEF Accept
<1>3. h.late \subseteq l /\ (HasFlushed => Elements(a) \subseteq l)
    OBVIOUS
<1> HIDE DEF b, l
<1> DEFINE g == [h EXCEPT !.accepted = b, !.late = l]
<1>4. /\ g \in SeenType /\ g.accepted = b /\ g.late = l /\ g.taken = h.taken
      /\ g.flushed = h.flushed /\ g.around = h.around /\ g.cut = h.cut
    BY <1>1 DEF SeenType
<1> QED
    BY <1>2, <1>3, <1>4 DEF b

LEMMA Promising ==
    ASSUME NEW h \in SeenType
    PROVE  /\ Promise(h) \in SeenType
           /\ Promise(h).accepted = h.accepted /\ Promise(h).taken = h.taken
           /\ Promise(h).late = h.late /\ Promise(h).flushed = Elements(h.accepted)
           /\ Promise(h).around = h.around /\ Promise(h).cut = h.cut
<1>1. Elements(h.accepted) \subseteq Cells
    BY SeenFields, ElementsOf
<1> QED
    BY <1>1 DEF Promise, SeenType

LEMMA TypesOfPeers ==
    ASSUME TypeInv, PeerSends \/ PeerCloses \/ PeerReceives
    PROVE  TypeInv'
<1>1. io \in Layer /\ Tidy(io) /\ seen \in SeenType
    BY DEF TypeInv
<1>2. io.src \in Seq(Cells) /\ io.left \in Seq(Cells)
    BY <1>1, LayerFields
<1>3. UNCHANGED <<stack, co, queue, count, seen>>
    BY DEF PeerSends, PeerCloses, PeerReceives
<1>4. io' \in Layer /\ io'.outer = io.outer /\ io'.inner = io.inner
    <2>1. CASE PeerSends
        <3>1. io' = [io EXCEPT !.left = Tail(@), !.src = Append(@, Head(io.left))] /\ io.left # <<>>
            BY <2>1 DEF PeerSends
        <3>2. Tail(io.left) \in Seq(Cells) /\ Append(io.src, Head(io.left)) \in Seq(Cells)
            BY <1>2, <3>1
        <3> QED
            BY <1>1, <3>1, <3>2 DEF Layer
    <2>2. CASE PeerCloses
        BY <1>1, <2>2 DEF PeerCloses, Layer
    <2>3. CASE PeerReceives
        BY <1>1, <2>3 DEF PeerReceives, Layer
    <2> QED
        BY <2>1, <2>2, <2>3
<1>5. Tidy(io')
    BY <1>1, <1>4 DEF Tidy
<1> QED
    BY <1>1, <1>3, <1>4, <1>5, TidyNext, TypesKept

\* A coroutine that goes on without entering or leaving the queue.
LEMMA TypesRunOn ==
    ASSUME TypeInv, UNCHANGED <<stack, queue, count>>, NEW t \in Coroutines, NEW c \in CoType,
           co' = [co EXCEPT ![t] = c], co[t].at # "queued", c.at # "queued", c.name = co[t].name,
           c.at \in Live => Shape(c), Sizes(c), io' \in Layer, Tidy(io'), seen' \in SeenType
    PROVE  TypeInv'
<1>1. t \notin Elements(queue) /\ (c.name # "none" => t <= count')
    BY DEF TypeInv, InStep
<1>2. queue' \in Seq(Coroutines) /\ Distinct(queue') /\ count' \in 0 .. MaxCalls /\ count <= count'
    BY SizeAssumption DEF TypeInv
<1> QED
    BY <1>1, <1>2, TypesGoOn

\* A coroutine that goes on, and may have to wait for a thread of the pool.
LEMMA TypesEnter ==
    ASSUME TypeInv, stack' = stack, NEW t \in Coroutines, NEW c \in CoType,
           co' = [co EXCEPT ![t] = c], co[t].at # "queued", queue' = Queued(t),
           c.at \in Live => Shape(c), Sizes(c), c.name # "none" => t <= count',
           UNCHANGED <<io, seen>>, count' \in 0 .. MaxCalls, count <= count'
    PROVE  TypeInv'
<1>1. /\ io \in Layer /\ Tidy(io') /\ seen \in SeenType /\ co'[t] = c
      /\ queue \in Seq(Coroutines) /\ Distinct(queue) /\ t \notin Elements(queue)
    BY OneGoesOn DEF TypeInv, InStep, Tidy
<1>2. queue' = IF c.at = "queued" THEN Append(queue, t) ELSE queue
    BY <1>1 DEF Queued
<1>3. CASE c.at = "queued"
    <2>1. queue' = Append(queue, t)
        BY <1>2, <1>3
    <2>2. /\ queue' \in Seq(Coroutines) /\ Distinct(queue') /\ t \in Elements(queue')
          /\ Elements(queue') \subseteq Elements(queue) \cup {t}
          /\ Elements(queue) \subseteq Elements(queue')
        BY <1>1, <2>1, AppendNew
    <2> QED
        BY <1>1, <1>3, <2>2, TypesGoOn
<1>4. CASE c.at # "queued"
    BY <1>1, <1>2, <1>4, TypesGoOn
<1> QED
    BY <1>3, <1>4

\* What a job that is at the head of a method's jobs can be.
LEMMA JobAtHead ==
    ASSUME NEW c \in CoType, Shape(c), Sizes(c), NEW j, j = Head(c.jobs)
    PROVE  /\ c.jobs # <<>> /\ j \in JobType /\ j = c.jobs[1] /\ Len(c.jobs) \in {1, 2}
           /\ Len(c.jobs) = 1 => LastJob(c, j)
           /\ Len(c.jobs) = 2 => /\ JobBefore(c, j) /\ LastJob(c, c.jobs[2])
                                 /\ Tail(c.jobs) \in Seq(JobType)
                                 /\ Len(Tail(c.jobs)) = 1 /\ Tail(c.jobs)[1] = c.jobs[2]
<1>1. c.jobs \in Seq(JobType) /\ Len(c.jobs) \in {1, 2}
    BY CoFields DEF Shape
<1>2. c.jobs # <<>> /\ j = c.jobs[1] /\ j \in JobType
    BY <1>1
<1>3. Len(c.jobs) = 2 => /\ Tail(c.jobs) \in Seq(JobType)
                         /\ Len(Tail(c.jobs)) = 1 /\ Tail(c.jobs)[1] = c.jobs[2]
    <2> SUFFICES ASSUME Len(c.jobs) = 2
                 PROVE  /\ Tail(c.jobs) \in Seq(JobType)
                        /\ Len(Tail(c.jobs)) = 1 /\ Tail(c.jobs)[1] = c.jobs[2]
        OBVIOUS
    <2>1. /\ Tail(c.jobs) \in Seq(JobType) /\ Len(Tail(c.jobs)) = Len(c.jobs) - 1
          /\ \A i \in 1 .. Len(Tail(c.jobs)) : Tail(c.jobs)[i] = c.jobs[i + 1]
        BY <1>1, <1>2, HeadTailProperties
    <2>2. Len(Tail(c.jobs)) = 1 /\ 1 \in 1 .. 1 /\ 1 + 1 = 2
        BY <2>1
    <2> QED
        BY <2>1, <2>2
<1> QED
    BY <1>1, <1>2, <1>3 DEF Shape

\* What a job that writes puts where.
LEMMA WritingJob ==
    ASSUME NEW c \in CoType, Shape(c), Sizes(c), NEW j, j = Head(c.jobs), j.do \in {"put", "write"}
    PROVE  /\ j.cells \in Seq(Cells) /\ Len(j.cells) <= 2
           /\ j.do = "put" => stack.w # "plain"
           /\ j.do = "write" => stack.w = "plain" \/ c.name = "write"
           /\ j.do = "put" => j.as \in {"bytes", "str"}
           /\ \/ /\ c.name \in {"awrite", "awrite_batch", "asplice"} /\ Len(c.jobs) = 1
                 /\ j.cells = c.cells \/ (c.name = "awrite_batch" /\ j.cells = Drop(c.cells, 1))
              \/ c.name = "awrite_batch" /\ Len(c.jobs) = 2 /\ j.cells = Take(c.cells, 1)
              \/ c.name = "write" /\ j.do = "write" /\ Len(c.jobs) = 1 /\ j.cells = c.cells
              \/ c.name \in Prints /\ Len(c.jobs) = 2 /\ j.cells = c.cells
           /\ c.name = "asplice" => c.n = 0
<1>1. /\ Len(c.jobs) \in {1, 2}
      /\ Len(c.jobs) = 1 => LastJob(c, j)
      /\ Len(c.jobs) = 2 => JobBefore(c, j)
    BY JobAtHead
<1>2. c.cells \in Seq(Cells) /\ Len(c.cells) \in Nat
    BY CoFields
<1>3. /\ Drop(c.cells, 1) \in Seq(Cells) /\ Take(c.cells, 1) \in Seq(Cells)
      /\ Len(Drop(c.cells, 1)) <= Len(c.cells) /\ Len(Take(c.cells, 1)) <= Len(c.cells)
    BY <1>2, TakeAndDrop
<1>4. Len(Drop(c.cells, 1)) \in Nat /\ Len(Take(c.cells, 1)) \in Nat
    BY <1>3
<1>5. c.name \in Writes \cup {"asplice"} => Len(c.cells) <= 2
    <2>1. (c.name \in Writes => Len(c.cells) = 2) /\ (c.name = "asplice" => Len(c.cells) <= 2)
        BY DEF Sizes
    <2>2. ASSUME c.name \in Writes PROVE Len(c.cells) <= 2
        <3>1. Len(c.cells) = 2
            BY <2>1, <2>2
        <3> QED
            BY <3>1
    <2> QED
        BY <2>1, <2>2
<1>8. /\ \A p, f : \A do \in {"close_inner", "shut"} : j # Rest(do, p, f)
      /\ \A p : \A do \in {"flush", "close", "close_other", "read"} : j # Sync(do, p)
      /\ \A n : j # Recv(n)
    BY DEF Rest, Sync, Recv
<1>6. CASE Len(c.jobs) = 1
    <2>1. \/ c.name = "awrite" /\ stack.w # "plain" /\ j = Put(c.cells, "bytes")
          \/ c.name = "awrite_batch" /\ stack.w # "plain" /\ j = Put(Drop(c.cells, 1), "bytes")
          \/ c.name = "write" /\ j = SyncWrite(c.cells, "loop")
          \/ c.name = "asplice" /\ c.n = 0 /\ stack.w = "plain" /\ j = SyncWrite(c.cells, "pool")
          \/ c.name = "asplice" /\ c.n = 0 /\ stack.w # "plain" /\ j = Put(c.cells, "bytes")
        BY <1>1, <1>6, <1>8 DEF LastJob
    <2> QED
        BY <1>2, <1>3, <1>4, <1>5, <1>6, <2>1 DEF Put, SyncWrite, Writes
<1>7. CASE Len(c.jobs) = 2
    <2>1. JobBefore(c, j)
        BY <1>1, <1>7
    <2> QED
        BY <1>2, <1>3, <1>4, <1>5, <1>7, <2>1 DEF JobBefore, Put, SyncWrite, Writes, Prints
<1> QED
    BY <1>1, <1>6, <1>7

\* What a method does first.
LEMMA JobsOfMethod ==
    ASSUME stack \in Stacks, NEW name \in Names, NEW cells \in Seq(Cells), NEW c,
           name \in {"awrite", "awrite_batch", "aflush", "aclose"} => stack.w # "plain",
           name \in Reads => cells = <<>>,
           c.name = name, c.cells = cells, c.n = 0, c.jobs = Jobs(name, cells)
    PROVE  c.jobs \in Seq(JobType) /\ Shape(c)
<1>1. OnPool(stack.w) \in Places /\ OnPool(stack.r) \in Places
    BY DEF OnPool, Places
<1>2. /\ \A as \in {"bytes", "str"}, a \in Seq(Cells) : Put(a, as) \in JobType
      /\ \A p \in Places, a \in Seq(Cells) : SyncWrite(a, p) \in JobType
      /\ \A p \in Places : Sync("flush", p) \in JobType 
             /\ \A do \in {"close", "close_other", "read"} : Sync(do, p) \in JobType
      /\ \A n \in {-1, 1, 2} : Recv(n) \in JobType
    BY <1>1 DEF Put, SyncWrite, Sync, Recv, JobType, Places
<1>3. Take(cells, 1) \in Seq(Cells) /\ Drop(cells, 1) \in Seq(Cells)
    BY TakeAndDrop
<1>4. "loop" \in Places /\ "pool" \in Places /\ 1 \in {-1, 1, 2} /\ 2 \in {-1, 1, 2}
      /\ -1 \in {-1, 1, 2} /\ "bytes" \in {"bytes", "str"}
    BY DEF Places
<1>5. ASSUME NEW j \in JobType, c.jobs = <<j>>, LastJob(c, j)
      PROVE  c.jobs \in Seq(JobType) /\ Shape(c)
    BY <1>5 DEF Shape
<1>6. ASSUME NEW j \in JobType, NEW k \in JobType, c.jobs = <<j, k>>, JobBefore(c, j), LastJob(c, k)
      PROVE  c.jobs \in Seq(JobType) /\ Shape(c)
    BY <1>6 DEF Shape
<1>7. CASE name = "awrite"
    BY <1>2, <1>4, <1>5, <1>7 DEF Jobs, LastJob
<1>8. CASE name = "awrite_batch"
    BY <1>2, <1>3, <1>4, <1>6, <1>8 DEF Jobs, LastJob, JobBefore
<1>9. CASE name \in {"aread", "aread_all", "asplice"}
    BY <1>2, <1>4, <1>5, <1>9 DEF Jobs, LastJob, Reads
<1>10. CASE name \in {"aflush", "aclose"}
    BY <1>1, <1>2, <1>5, <1>10 DEF Jobs, LastJob
<1>11. CASE name \in Prints
    <2>1. PICK p \in Places : c.jobs = IF stack.w = "plain"
                                       THEN <<SyncWrite(cells, "loop"), Sync("flush", p)>>
                                       ELSE <<Put(cells, "bytes"), Sync("flush", p)>>
        BY <1>1, <1>4, <1>11 DEF Jobs, aprint, Prints
    <2>2. LastJob(c, Sync("flush", p))
        BY <1>11 DEF LastJob
    <2>3. CASE stack.w = "plain"
        BY <1>2, <1>4, <1>6, <1>11, <2>1, <2>2, <2>3 DEF JobBefore
    <2>4. CASE stack.w # "plain"
        BY <1>2, <1>4, <1>6, <1>11, <2>1, <2>2, <2>4 DEF JobBefore
    <2> QED
        BY <2>3, <2>4
<1>12. CASE name = "write"
    BY <1>2, <1>4, <1>5, <1>12 DEF Jobs, LastJob
<1>13. CASE name \in {"flush", "close", "close_other", "read"}
    <2>1. Sync(name, "loop") \in JobType /\ LastJob(c, Sync(name, "loop"))
        BY <1>2, <1>4, <1>13 DEF LastJob
    <2>2. c.jobs = <<Sync(name, "loop")>>
        BY <1>13 DEF Jobs
    <2> QED
        BY <1>5, <2>1, <2>2
<1> QED
    BY <1>7, <1>8, <1>9, <1>10, <1>11, <1>12, <1>13, NameAssumption DEF Prints

\* A coroutine that comes to its next job.
LEMMA Dispatching ==
    ASSUME NEW c \in CoType, Shape(c), Sizes(c), c.name # "none", c.at # "running",
           NEW d \in {Begun(c), Dispatched(c)}
    PROVE  /\ d \in CoType /\ d.at \in {"queued", "running", "raised"} /\ Shape(d) /\ Sizes(d)
           /\ d.name = c.name /\ d.jobs = c.jobs /\ d.cells = c.cells /\ d.n = c.n
           /\ d = Begun(c) => d.at # "queued"
<1>1. PICK a \in {"queued", "running", "raised"} :
          d = [c EXCEPT !.at = a] /\ (d = Begun(c) => a # "queued" \/ d.at # "queued")
    <2>1. ASSUME NEW e, e = Begun(c)
          PROVE  \E a \in {"running", "raised"} : e = [c EXCEPT !.at = a]
        BY <2>1 DEF Begun
    <2>2. CASE d = Begun(c)
        BY <2>1, <2>2
    <2>3. CASE d # Begun(c)
        BY <2>3 DEF Dispatched
    <2> QED
        BY <2>2, <2>3
<1>2. a \in Ats
    BY DEF Ats
<1>3. /\ d \in CoType /\ d.at = a
      /\ d.name = c.name /\ d.jobs = c.jobs /\ d.cells = c.cells /\ d.n = c.n
    BY <1>1, <1>2, OtherStep
<1>4. Shape(d)
    BY <1>3, SameShape
<1>5. Sizes(d)
    BY <1>3 DEF Sizes
<1> QED
    BY <1>1, <1>3, <1>4, <1>5

LEMMA TypesOfStart ==
    ASSUME TypeInv, NEW t \in Coroutines, NEW name \in Names, Start(t, name)
    PROVE  TypeInv'
<1> DEFINE cells == IF name \in Writes THEN Fresh ELSE <<>>
           b == Called(name, cells)
           c == IF name = "asplice" /\ SpliceRefused THEN b ELSE Dispatched(b)
<1>1. io \in Layer /\ Tidy(io) /\ seen \in SeenType /\ stack \in Stacks /\ count \in 0 .. MaxCalls
    BY DEF TypeInv
<1>2. /\ t = count + 1 /\ co' = [co EXCEPT ![t] = c] /\ queue' = Queued(t)
      /\ UNCHANGED <<stack, io, seen>> /\ count' = t
      /\ name \in {"awrite", "awrite_batch", "aflush", "aclose"} => stack.w # "plain"
    BY DEF Start
<1>3. count < MaxCalls /\ ~(t <= count) /\ count' \in 0 .. MaxCalls /\ count <= count' /\ t <= count'
    BY <1>1, <1>2, SizeAssumption DEF Coroutines
<1>4. co[t].at = "idle"
    BY <1>3 DEF TypeInv, InStep, Sizes, NotStarted
<1>5. cells \in Seq(Cells) /\ (name \in Writes => Len(cells) = 2) /\ (name \notin Writes => cells = <<>>)
    BY <1>1, <1>3, FreshCells
<1>6. name # "none" /\ "raised" \in Ats
    BY NameAssumption DEF Ats
<1>7. name \in Reads => name \notin Writes
    BY DEF Reads, Writes, Prints
<1> HIDE DEF cells, c
<1>8. /\ b.name = name /\ b.cells = cells /\ b.n = 0 /\ b.jobs = Jobs(name, cells)
      /\ b.at = "raised"
    BY DEF Called
<1>9. b.jobs \in Seq(JobType) /\ Shape(b)
    BY <1>1, <1>2, <1>5, <1>7, <1>8, JobsOfMethod
<1>10. b \in CoType
    BY <1>5, <1>6, <1>8, <1>9 DEF CoType, Called
<1>11. Sizes(b)
    BY <1>5, <1>6, <1>7, <1>8 DEF Sizes, Reads
<1> HIDE DEF b
<1>12. c \in CoType /\ Sizes(c) /\ Shape(c)
    <2>1. c = b \/ c = Dispatched(b)
        BY DEF c
    <2> QED
        BY <1>6, <1>8, <1>9, <1>10, <1>11, <2>1, Dispatching
<1> QED
    BY <1>2, <1>3, <1>4, <1>12, TypesEnter

LEMMA TypesOfDispatch ==
    ASSUME TypeInv, NEW t \in Coroutines, Dispatch(t) \/ Grab(t) \/ TakeFails(t)
    PROVE  TypeInv'
<1>1. /\ io \in Layer /\ Tidy(io) /\ seen \in SeenType /\ queue \in Seq(Coroutines) /\ Distinct(queue)
      /\ count \in 0 .. MaxCalls /\ count <= count /\ co \in [Coroutines -> CoType]
      /\ co[t] \in CoType /\ InStep(t)
    BY SizeAssumption DEF TypeInv
<1>2. ASSUME co[t].at \in Live
      PROVE  Shape(co[t]) /\ Sizes(co[t]) /\ co[t].name # "none" /\ t <= count
    BY <1>1, <1>2 DEF InStep, Sizes, NotStarted, Live
<1>3. CASE Dispatch(t)
    <2> DEFINE c == Dispatched(co[t])
    <2>1. /\ co[t].at = "ready" /\ co' = [co EXCEPT ![t] = c] /\ queue' = Queued(t)
          /\ UNCHANGED <<stack, io, count, seen>>
        BY <1>3 DEF Dispatch
    <2>2. Shape(co[t]) /\ Sizes(co[t]) /\ co[t].name # "none" /\ t <= count
        BY <1>2, <2>1 DEF Live
    <2>3. c \in CoType /\ Shape(c) /\ Sizes(c)
        BY <1>1, <2>1, <2>2, Dispatching
    <2> HIDE DEF c
    <2>4. co[t].at # "queued" /\ t <= count' /\ count' \in 0 .. MaxCalls /\ count <= count'
        BY <1>1, <2>1, <2>2
    <2> QED
        BY <2>1, <2>3, <2>4, TypesEnter
<1>4. CASE Grab(t)
    <2> DEFINE c == Begun(co[t])
    <2>1. /\ queue # <<>> /\ t = Head(queue) /\ queue' = Tail(queue) /\ co' = [co EXCEPT ![t] = c]
          /\ UNCHANGED <<stack, io, count, seen>>
        BY <1>4 DEF Grab
    <2>2. /\ queue' \in Seq(Coroutines) /\ Elements(queue) = {t} \cup Elements(queue')
          /\ Distinct(queue') /\ t \notin Elements(queue')
        BY <1>1, <2>1, HeadAndTail
    <2>3. co[t].at = "queued"
        BY <1>1, <2>2 DEF InStep
    <2>4. Shape(co[t]) /\ Sizes(co[t]) /\ co[t].name # "none" /\ t <= count
        BY <1>2, <2>3 DEF Live
    <2>5. c \in CoType /\ c.at # "queued" /\ Shape(c) /\ Sizes(c)
        BY <1>1, <2>3, <2>4, Dispatching
    <2> HIDE DEF c
    <2>6. t <= count' /\ count' \in 0 .. MaxCalls /\ count <= count' /\ Tidy(io')
          /\ io' \in Layer /\ seen' \in SeenType /\ stack' = stack
        BY <1>1, <2>1, <2>4
    <2> QED
        BY <2>1, <2>2, <2>5, <2>6, TypesGoOn
<1>5. CASE TakeFails(t)
    <2> DEFINE c == [co[t] EXCEPT !.at = "raised"]
    <2>1. /\ co[t].at = "running" /\ co' = [co EXCEPT ![t] = c]
          /\ UNCHANGED <<stack, io, queue, count, seen>>
        BY <1>5 DEF TakeFails, Running
    <2>2. "raised" \in Ats /\ "raised" \notin Live
        BY DEF Ats, Live
    <2>3. /\ c \in CoType /\ c.at = "raised"
          /\ c.name = co[t].name /\ c.jobs = co[t].jobs /\ c.cells = co[t].cells /\ c.n = co[t].n
        BY <1>1, <2>2, OtherStep
    <2> HIDE DEF c
    <2>4. Sizes(c)
        BY <1>2, <2>1, <2>3 DEF Sizes, Live
    <2> QED
        BY <1>1, <2>1, <2>2, <2>3, <2>4, TypesRunOn
<1> QED
    BY <1>3, <1>4, <1>5

\* A coroutine whose job is done, and which has written m cells in all; one that will try
\* again with text; and what is recorded of a write.
Onward(c, m)         == [NextJob(c) EXCEPT !.n = m]
Retried(c, cells)    == [c EXCEPT !.jobs[1] = Put(cells, "str"), !.at = "ready"]
Recorded(h, cells, v) == [Accept(h, cells) EXCEPT !.around.w = v]

\* The next job of a method, after one that has written m cells.
LEMMA NextOf ==
    ASSUME NEW c \in CoType, Shape(c), Sizes(c), c.name # "none", NEW m \in Nat,
           c.name = "asplice" => Len(c.jobs) = 1 \/ m = c.n,
           NEW d, d = Onward(c, m)
    PROVE  /\ d \in CoType /\ Sizes(d) /\ d.name = c.name /\ d.cells = c.cells /\ d.n = m
           /\ d.at \in {"ready", "done"} /\ (d.at \in Live => Shape(d))
           /\ Len(c.jobs) = 1 => d.at = "done"
           /\ Len(c.jobs) = 2 => d.at = "ready" /\ d.jobs = Tail(c.jobs)
                                 /\ Len(d.jobs) = 1 /\ d.jobs[1] = c.jobs[2]
<1>1. /\ Len(c.jobs) \in {1, 2} /\ c.jobs \in Seq(JobType)
      /\ Len(c.jobs) = 2 => /\ LastJob(c, c.jobs[2]) /\ JobBefore(c, c.jobs[1])
                            /\ Tail(c.jobs) \in Seq(JobType)
                            /\ Len(Tail(c.jobs)) = 1 /\ Tail(c.jobs)[1] = c.jobs[2]
    BY JobAtHead, CoFields
<1>2. "done" \in Ats /\ "ready" \in Ats /\ "done" \notin Live
    BY DEF Ats, Live
<1>3. CASE Len(c.jobs) = 1
    <2>1. d = [[c EXCEPT !.at = "done"] EXCEPT !.n = m]
        BY <1>3 DEF NextJob, Onward
    <2>2. /\ d \in CoType /\ d.name = c.name /\ d.cells = c.cells /\ d.n = m /\ d.at = "done"
        BY <1>2, <2>1 DEF CoType
    <2> QED
        BY <1>2, <1>3, <2>2 DEF Sizes
<1>4. CASE Len(c.jobs) = 2
    <2> DEFINE u == Tail(c.jobs)
    <2>1. d = [[c EXCEPT !.jobs = u, !.at = "ready"] EXCEPT !.n = m]
        BY <1>4 DEF NextJob, Onward
    <2>2. u \in Seq(JobType)
        BY <1>1, <1>4
    <2> HIDE DEF u
    <2>3. /\ d \in CoType /\ d.name = c.name /\ d.cells = c.cells /\ d.n = m /\ d.at = "ready"
          /\ d.jobs = u
        BY <1>2, <2>1, <2>2 DEF CoType
    <2>4. Sizes(d)
        BY <2>3 DEF Sizes
    <2>5. Len(d.jobs) = 1 /\ d.jobs[1] = c.jobs[2]
        BY <1>1, <1>4, <2>3 DEF u
    <2>6. LastJob(c, c.jobs[2]) /\ (c.name = "asplice" => m = c.n)
        BY <1>1, <1>4
    <2>7. LastJob(d, c.jobs[2])
        <3>1. c.name \in {"awrite_batch"} \cup Prints
            BY <1>1, <1>4 DEF JobBefore
        <3> QED
            BY <2>3, <2>6, <3>1 DEF LastJob, Prints
    <2> QED
        BY <1>4, <2>3, <2>4, <2>5, <2>7 DEF Shape, u
<1> QED
    BY <1>1, <1>3, <1>4

\* A printed line that was refused as bytes is next written as text.
LEMMA RetryJobs ==
    ASSUME NEW c \in CoType, Shape(c), Sizes(c), c.name \in Prints, Head(c.jobs).do = "put",
           NEW u, u = [c.jobs EXCEPT ![1] = Put(Head(c.jobs).cells, "str")]
    PROVE  /\ u \in Seq(JobType) /\ Len(u) = 2 /\ Len(c.jobs) = 2 /\ stack.w # "plain"
           /\ u[1] = Put(c.cells, "str") /\ u[2] = c.jobs[2] /\ LastJob(c, c.jobs[2])
<1>1. /\ c.cells = Head(c.jobs).cells /\ c.jobs \in Seq(JobType) /\ Len(c.jobs) = 2 /\ stack.w # "plain"
      /\ c.cells \in Seq(Cells) /\ LastJob(c, c.jobs[2])
    BY WritingJob, JobAtHead, CoFields DEF Prints
<1> DEFINE p == Put(c.cells, "str")
<1>2. p \in JobType
    <2>1. OnPool(stack.w) \in Places /\ "ring" \in Places
        BY DEF OnPool, Places
    <2> QED
        BY <1>1, <2>1 DEF Put, JobType
<1>3. u = [c.jobs EXCEPT ![1] = p]
    BY <1>1
<1> HIDE DEF p
<1>4. u \in Seq(JobType) /\ Len(u) = 2 /\ u[1] = p /\ u[2] = c.jobs[2]
    <2>1. 1 \in 1 .. Len(c.jobs) /\ 2 \in 1 .. Len(c.jobs) /\ 2 # 1
        BY <1>1
    <2> QED
        BY <1>1, <1>2, <1>3, <2>1, ExceptSeq
<1> QED
    BY <1>1, <1>4 DEF p

LEMMA RetryShape ==
    ASSUME NEW c \in CoType, Shape(c), Sizes(c), c.name \in Prints, stack.w # "plain",
           LastJob(c, c.jobs[2]),
           NEW d \in CoType, d.name = c.name, d.cells = c.cells, d.n = c.n, Len(d.jobs) = 2,
           d.jobs[1] = Put(c.cells, "str"), d.jobs[2] = c.jobs[2]
    PROVE  Sizes(d) /\ Shape(d)
<1>1. Sizes(d)
    BY DEF Sizes, Prints
<1>2. JobBefore(d, d.jobs[1])
    BY DEF JobBefore
<1>3. LastJob(d, d.jobs[2])
    BY DEF LastJob, Prints
<1> QED
    BY <1>1, <1>2, <1>3 DEF Shape

\* What a job that writes does to the layers.
LEMMA WrittenDescends ==
    ASSUME TypeInv, NEW t \in Coroutines, Running(t, {"put", "write"}),
           NEW x \in Written(Job(t)), NEW j, j = Job(t)
    PROVE  /\ Descends(io, x.io) /\ x.n \in Nat /\ x.n <= Len(j.cells)
           /\ x.io.w = io.w /\ x.io.r = io.r
           /\ j.do = "write" => Bottom(x.io) = Bottom(io) \o Take(j.cells, x.n)
           /\ j.do = "put" => /\ Sunk(x.io) = Sunk(io) \o Take(j.cells, x.n)
                              /\ x.io.outer = io.outer
           /\ Buffered(io, x.io, Elements(Take(j.cells, x.n)))
           /\ x.error = "none" /\ stack.w # "socket" => x.n = Len(j.cells)
           /\ x.error # "none" => x.n = 0
           /\ ~io.w => x.io.outer = io.outer /\ x.io.inner = io.inner
<1>1. /\ io \in Layer /\ Tidy(io) /\ co[t] \in CoType /\ Shape(co[t]) /\ Sizes(co[t])
      /\ j = Head(co[t].jobs) /\ j.do \in {"put", "write"}
    BY DEF TypeInv, InStep, Running, Live, Job
<1>2. j.cells \in Seq(Cells) /\ Len(j.cells) <= 2
    BY <1>1, WritingJob
<1>3. CASE j.do = "write"
    <2>1. x \in write(io, j.cells)
        BY <1>3 DEF Written
    <2> QED
        BY <1>1, <1>2, <1>3, <2>1, WriteDescends
<1>4. CASE j.do = "put" /\ x \in RawWrite(io, j.cells)
    BY <1>1, <1>2, <1>4, RawWriteDescends
<1>5. CASE j.do = "put" /\ x = Raise(io, "TypeError")
    <2>1. x.io = io /\ x.n = 0 /\ x.error = "TypeError"
        BY <1>5 DEF Raise
    <2>2. Take(j.cells, 0) = <<>> /\ Sunk(io) \o <<>> = Sunk(io) /\ Len(j.cells) \in Nat
        BY <1>1, <1>2, PartsOf, Descending, ConcatEmptySeq
    <2> QED
        BY <1>1, <1>5, <2>1, <2>2, Descending DEF Buffered
<1> QED
    BY <1>1, <1>3, <1>4, <1>5 DEF Written


\* What is recorded of a write that may have gone around the buffer.
LEMMA AcceptingAround ==
    ASSUME NEW h \in SeenType, NEW a \in Seq(Cells), NEW v \in BOOLEAN,
           NEW g, g = Recorded(h, a, v)
    PROVE  /\ g \in SeenType
           /\ g.accepted = h.accepted \o a /\ g.taken = h.taken
           /\ g.flushed = h.flushed /\ g.cut = h.cut
           /\ g.around.r = h.around.r /\ g.around.w = v
           /\ h.late \subseteq g.late /\ (HasFlushed => Elements(a) \subseteq g.late)
<1> DEFINE f == Accept(h, a)
<1>1. /\ f \in SeenType
      /\ f.accepted = h.accepted \o a /\ f.taken = h.taken
      /\ f.flushed = h.flushed /\ f.around = h.around /\ f.cut = h.cut
      /\ h.late \subseteq f.late /\ (HasFlushed => Elements(a) \subseteq f.late)
    BY Accepting
<1> DEFINE e == [f.around EXCEPT !.w = v]
<1>2. g = [f EXCEPT !.around = e]
    BY DEF Recorded
<1> HIDE DEF f
<1>3. e \in [r : BOOLEAN, w : BOOLEAN] /\ e.r = f.around.r /\ e.w = v
    BY <1>1 DEF SeenType
<1> HIDE DEF e
<1>4. /\ g \in SeenType
      /\ g.accepted = f.accepted /\ g.taken = f.taken /\ g.late = f.late
      /\ g.flushed = f.flushed /\ g.cut = f.cut /\ g.around = e
    BY <1>1, <1>2, <1>3 DEF SeenType
<1> QED
    BY <1>1, <1>3, <1>4

LEMMA Retrying ==
    ASSUME NEW c \in CoType, Shape(c), Sizes(c), c.name \in Prints, NEW j, j = Head(c.jobs),
           j.do = "put", NEW d, d = Retried(c, j.cells)
    PROVE  /\ d \in CoType /\ d.name = c.name /\ d.cells = c.cells /\ d.n = c.n /\ d.at = "ready"
           /\ Sizes(d) /\ Shape(d) /\ Len(d.jobs) = 2
           /\ d.jobs[1] = Put(c.cells, "str") /\ d.jobs[2] = c.jobs[2]
<1> DEFINE u == [c.jobs EXCEPT ![1] = Put(j.cells, "str")]
<1>1. d = [c EXCEPT !.jobs = u, !.at = "ready"]
    BY DEF Retried
<1>2. Head(c.jobs).do = "put" /\ u = [c.jobs EXCEPT ![1] = Put(Head(c.jobs).cells, "str")]
    OBVIOUS
<1> HIDE DEF u
<1>3. /\ u \in Seq(JobType) /\ Len(u) = 2 /\ stack.w # "plain"
      /\ u[1] = Put(c.cells, "str") /\ u[2] = c.jobs[2] /\ LastJob(c, c.jobs[2])
    BY <1>2, RetryJobs
<1>4. "ready" \in Ats
    BY DEF Ats
<1>5. /\ d \in CoType /\ d.name = c.name /\ d.cells = c.cells /\ d.n = c.n /\ d.at = "ready"
      /\ d.jobs = u
    BY <1>1, <1>3, <1>4 DEF CoType
<1>6. Sizes(d) /\ Shape(d)
    BY <1>3, <1>5, RetryShape
<1> QED
    BY <1>3, <1>5, <1>6

\* What a coroutine that writes does: c is what becomes of it, and x of its write.
WroteBy(t, j, x, c) ==
    /\ io' = x.io /\ co' = [co EXCEPT ![t] = c]
    /\ seen' \in SeenType
    /\ seen'.accepted = seen.accepted \o Take(j.cells, x.n)
    /\ seen'.taken = seen.taken /\ seen.late \subseteq seen'.late
    /\ HasFlushed => Elements(Take(j.cells, x.n)) \subseteq seen'.late
    /\ seen'.flushed = seen.flushed /\ seen'.cut = seen.cut
    /\ seen'.around.r = seen.around.r
    /\ seen'.around.w <=> seen.around.w \/ (j.do = "put" /\ x.n > 0 /\ io.outer # <<>>)
    /\ c.name = co[t].name /\ c.cells = co[t].cells
    /\ Sizes(c) /\ (c.at \in Live => Shape(c)) /\ c.at # "queued"
    /\ x.error = "none" =>
           /\ c.n = co[t].n + x.n
           /\ Len(co[t].jobs) = 1 => c.at = "done"
           /\ Len(co[t].jobs) = 2 => /\ c.at = "ready" /\ Len(c.jobs) = 1
                                     /\ c.jobs[1] = co[t].jobs[2]
    /\ x.error # "none" =>
           \/ c.at = "raised"
           \/ /\ c.at = "ready" /\ Len(c.jobs) = 2
              /\ c.jobs[1] = Put(co[t].cells, "str") /\ c.jobs[2] = co[t].jobs[2]

LEMMA WritesIn ==
    ASSUME NEW t \in Coroutines, DoWrite(t)
    PROVE  Running(t, {"put", "write"})
BY DEF DoWrite, Running

LEMMA Writing ==
    ASSUME TypeInv, NEW t \in Coroutines, DoWrite(t), NEW j, j = Job(t)
    PROVE  \E x \in Written(j), c \in CoType : WroteBy(t, j, x, c)
<1> DEFINE b == co[t]
<1>1. /\ b \in CoType /\ Shape(b) /\ Sizes(b) /\ b.name # "none" /\ seen \in SeenType
      /\ co \in [Coroutines -> CoType]
      /\ Running(t, {"put", "write"}) /\ j = Head(b.jobs) /\ j.do \in {"put", "write"}
    <2>1. b.at = "running" /\ InStep(t) /\ Running(t, {"put", "write"}) /\ j.do \in {"put", "write"}
        BY WritesIn DEF Running, TypeInv
    <2>2. Shape(b) /\ Sizes(b) /\ b.name # "none"
        BY <2>1 DEF InStep, Sizes, NotStarted, Live
    <2> QED
        BY <2>1, <2>2 DEF TypeInv, Job
<1>2. PICK x \in Written(j) :
          /\ io' = x.io
          /\ seen' = [Accept(seen, Take(j.cells, x.n)) EXCEPT
                  !.around.w = @ \/ (j.do = "put" /\ x.n > 0 /\ io.outer # <<>>)]
          /\ co' = [co EXCEPT ![t] =
                  IF x.error = "none" THEN [NextJob(b) EXCEPT !.n = Result(b, x.n)]
                  ELSE IF j.do = "put" /\ Retries(b, x.error)
                  THEN [b EXCEPT !.jobs[1] = Put(j.cells, "str"), !.at = "ready"]
                  ELSE [b EXCEPT !.at = "raised"]]
    BY <1>1 DEF DoWrite
<1>3. x.n \in Nat /\ j.cells \in Seq(Cells)
    BY <1>1, <1>2, WrittenDescends, WritingJob
<1>4. Take(j.cells, x.n) \in Seq(Cells)
    BY <1>3, TakeAndDrop
<1> DEFINE y == j.do = "put" /\ x.n > 0 /\ io.outer # <<>>
<1>5. /\ seen' \in SeenType
      /\ seen'.accepted = seen.accepted \o Take(j.cells, x.n)
      /\ seen'.taken = seen.taken /\ seen.late \subseteq seen'.late
      /\ HasFlushed => Elements(Take(j.cells, x.n)) \subseteq seen'.late
      /\ seen'.flushed = seen.flushed /\ seen'.cut = seen.cut
      /\ seen'.around.r = seen.around.r
      /\ (seen'.around.w <=> seen.around.w \/ y)
    <2> DEFINE a == Take(j.cells, x.n)
               v == Accept(seen, a).around.w \/ y
    <2>1. seen' = Recorded(seen, a, v)
        BY <1>2 DEF Recorded
    <2>2. a \in Seq(Cells) /\ seen \in SeenType /\ v \in BOOLEAN
        BY <1>1, <1>4
    <2>3. v <=> seen.around.w \/ y
        BY <1>1, <1>4, Accepting
    <2>4. v = TRUE <=> seen.around.w \/ y
        BY <2>3
    <2> HIDE DEF y, a, v
    <2>5. /\ seen' \in SeenType
          /\ seen'.accepted = seen.accepted \o a /\ seen'.taken = seen.taken
          /\ seen.late \subseteq seen'.late /\ (HasFlushed => Elements(a) \subseteq seen'.late)
          /\ seen'.flushed = seen.flushed
          /\ seen'.cut = seen.cut /\ seen'.around.r = seen.around.r /\ seen'.around.w = v
        BY <2>1, <2>2, AcceptingAround
    <2>6. seen'.around.w <=> seen.around.w \/ y
        BY <2>2, <2>4, <2>5
    <2> QED
        BY <2>5, <2>6 DEF a
<1>6. "done" # "queued" /\ "ready" # "queued" /\ "raised" \in Ats /\ "raised" \notin Live /\ "ready" \in Ats
    BY DEF Ats, Live
<1>7. CASE x.error = "none"
    <2> DEFINE m == b.n + x.n
               c == Onward(b, m)
    <2>1. m \in Nat
        BY <1>1, <1>3, CoFields
    <2>2. co' = [co EXCEPT ![t] = c]
        BY <1>2, <1>7 DEF Result, Onward
    <2>3. b.name = "asplice" => Len(b.jobs) = 1
        BY <1>1, WritingJob DEF Prints
    <2> HIDE DEF m, c
    <2>4. /\ c \in CoType /\ Sizes(c) /\ c.name = b.name /\ c.cells = b.cells /\ c.n = m
          /\ c.at \in {"ready", "done"} /\ (c.at \in Live => Shape(c))
          /\ Len(b.jobs) = 1 => c.at = "done"
          /\ Len(b.jobs) = 2 => c.at = "ready" /\ Len(c.jobs) = 1 /\ c.jobs[1] = b.jobs[2]
        <3> HIDE DEF b
        <3>1. c = Onward(b, m)
            BY DEF c
        <3>2. b \in CoType /\ Shape(b) /\ Sizes(b) /\ b.name # "none"
            BY <1>1
        <3>3. b.name = "asplice" => Len(b.jobs) = 1 \/ m = b.n
            BY <2>3
        <3> QED
            BY <2>1, <3>1, <3>2, <3>3, NextOf
    <2>5. c.at # "queued" /\ c.n = b.n + x.n
        BY <2>4 DEF m
    <2> QED
        BY <1>2, <1>5, <1>7, <2>2, <2>4, <2>5 DEF WroteBy
<1>8. CASE x.error # "none" /\ j.do = "put" /\ Retries(b, x.error)
    <2> DEFINE c == Retried(b, j.cells)
    <2>1. co' = [co EXCEPT ![t] = c]
        BY <1>2, <1>8 DEF Retried
    <2>2. b.name \in Prints
        BY <1>8 DEF Retries
    <2> HIDE DEF b, c
    <2>3. c = Retried(b, j.cells)
        BY DEF c
    <2>4. b \in CoType /\ Shape(b) /\ Sizes(b) /\ j = Head(b.jobs) /\ j.do = "put"
        BY <1>1, <1>8
    <2>5. /\ c \in CoType /\ c.name = b.name /\ c.cells = b.cells /\ c.n = b.n /\ c.at = "ready"
          /\ Sizes(c) /\ Shape(c) /\ Len(c.jobs) = 2
          /\ c.jobs[1] = Put(b.cells, "str") /\ c.jobs[2] = b.jobs[2]
        BY <2>2, <2>3, <2>4, Retrying
    <2>6. c.at # "queued"
        BY <2>5
    <2> QED
        BY <1>2, <1>5, <1>8, <2>1, <2>5, <2>6 DEF b, WroteBy
<1>9. CASE x.error # "none" /\ ~(j.do = "put" /\ Retries(b, x.error))
    <2> DEFINE c == [b EXCEPT !.at = "raised"]
    <2>1. co' = [co EXCEPT ![t] = c]
        BY <1>2, <1>9
    <2> HIDE DEF b
    <2>2. /\ c \in CoType /\ c.at = "raised" /\ c.name = b.name /\ c.jobs = b.jobs
          /\ c.cells = b.cells /\ c.n = b.n
        BY <1>1, <1>6, OtherStep
    <2> HIDE DEF c
    <2>3. Sizes(c) /\ c.at \notin Live /\ c.at # "queued"
        BY <1>1, <1>6, <2>2 DEF Sizes
    <2> QED
        BY <1>2, <1>5, <1>9, <2>1, <2>2, <2>3 DEF b, WroteBy
<1> QED
    BY <1>7, <1>8, <1>9

LEMMA TypesOfWriting ==
    ASSUME TypeInv, NEW t \in Coroutines, DoWrite(t)
    PROVE  TypeInv'
<1> DEFINE j == Job(t)
<1>0. PICK x \in Written(j), c \in CoType : WroteBy(t, j, x, c)
    BY Writing
<1>1. /\ io' = x.io /\ co' = [co EXCEPT ![t] = c] /\ seen' \in SeenType
      /\ Sizes(c) /\ (c.at \in Live => Shape(c)) /\ c.at # "queued"
    BY <1>0 DEF WroteBy
<1>2. Running(t, {"put", "write"}) /\ co[t].at # "queued" /\ UNCHANGED <<stack, queue, count>>
    BY WritesIn DEF DoWrite, Running
<1>3. Descends(io, x.io)
    BY <1>1, <1>2, WrittenDescends
<1>4. c.name = co[t].name
    BY <1>0 DEF WroteBy
<1> QED
    BY <1>1, <1>2, <1>3, <1>4, TypesRunOn DEF Descends

\* A coroutine goes on with jobs of its own, or ends.
LEMMA GoingOn ==
    ASSUME TypeInv, NEW t \in Coroutines, co[t].at = "running", NEW c \in CoType,
           c.name = co[t].name, c.n = co[t].n, Sizes(c), c.at \in {"running", "done", "raised"},
           c.at = "running" => Shape(c),
           co' = [co EXCEPT ![t] = c], UNCHANGED <<stack, queue, count>>,
           io' \in Layer, Tidy(io'), seen' \in SeenType
    PROVE  /\ TypeInv' /\ co' \in [Coroutines -> CoType] /\ co'[t] = c
           /\ \A u \in Coroutines : u # t => co'[u] = co[u]
<1>1. co'[t] = c /\ co' \in [Coroutines -> CoType] /\ \A u \in Coroutines : u # t => co'[u] = co[u]
    BY OneGoesOn DEF TypeInv
<1>2. c.at # "queued" /\ co[t].at # "queued" /\ (c.at \in Live => Shape(c))
    BY DEF Live
<1>3. TypeInv'
    BY <1>2, TypesRunOn
<1> QED
    BY <1>1, <1>3

\* A coroutine ends.
LEMMA Ending ==
    ASSUME TypeInv, NEW t \in Coroutines, co[t].at = "running", NEW a \in {"done", "raised"},
           co' = [co EXCEPT ![t].at = a], UNCHANGED <<stack, queue, count>>,
           io' \in Layer, Tidy(io'), seen' \in SeenType
    PROVE  /\ TypeInv' /\ co' \in [Coroutines -> CoType]
           /\ co'[t].at = a /\ co'[t].name = co[t].name /\ co'[t].jobs = co[t].jobs
           /\ co'[t].cells = co[t].cells /\ co'[t].n = co[t].n
           /\ \A u \in Coroutines : u # t => co'[u] = co[u]
<1> DEFINE b == co[t]
           c == [b EXCEPT !.at = a]
<1>1. co \in [Coroutines -> CoType] /\ b \in CoType /\ InStep(t)
    BY DEF TypeInv
<1>2. co' = [co EXCEPT ![t] = c]
    OBVIOUS
<1>3. a \in Ats /\ a \in {"running", "done", "raised"} /\ a # "running"
    BY DEF Ats
<1>4. b.name # "none" /\ Sizes(b)
    BY <1>1 DEF InStep, Sizes, NotStarted
<1> HIDE DEF b
<1>5. /\ c \in CoType /\ c.at = a /\ c.name = b.name /\ c.jobs = b.jobs
      /\ c.cells = b.cells /\ c.n = b.n
    BY <1>1, <1>3 DEF CoType
<1> HIDE DEF c
<1>6. Sizes(c)
    BY <1>4, <1>5 DEF Sizes
<1>7. c.name = co[t].name /\ c.n = co[t].n /\ c.at \in {"running", "done", "raised"} /\ c.at # "running"
    BY <1>3, <1>5 DEF b
<1>8. /\ TypeInv' /\ co' \in [Coroutines -> CoType] /\ co'[t] = c
      /\ \A u \in Coroutines : u # t => co'[u] = co[u]
    BY <1>2, <1>5, <1>6, <1>7, GoingOn
<1> QED
    BY <1>5, <1>8 DEF b


\* Nothing comes after a job that is not a write.
LEMMA LastFlush ==
    ASSUME NEW c \in CoType, Shape(c), Sizes(c), Head(c.jobs).do \notin {"put", "write"}
    PROVE  Len(c.jobs) = 1
<1> DEFINE j == Head(c.jobs)
<1>1. Len(c.jobs) \in {1, 2} /\ (Len(c.jobs) = 2 => JobBefore(c, j))
    BY JobAtHead
<1>2. j.do \notin {"put", "write"}
    OBVIOUS
<1> HIDE DEF j
<1>3. ASSUME JobBefore(c, j) PROVE j.do \in {"put", "write"}
    BY <1>3 DEF JobBefore, Put, SyncWrite
<1> QED
    BY <1>1, <1>2, <1>3

\* What flushes.
LEMMA FlushingName ==
    ASSUME NEW c \in CoType, Shape(c), Sizes(c), Head(c.jobs).do = "flush"
    PROVE  Len(c.jobs) = 1 /\ c.name \in {"flush", "aflush"} \cup Prints
<1> DEFINE j == Head(c.jobs)
<1>1. Len(c.jobs) = 1 /\ LastJob(c, j) /\ j.do = "flush"
    BY LastFlush, JobAtHead
<1> HIDE DEF j
<1>2. /\ \A cells, as : j # Put(cells, as)
      /\ \A cells, p : j # SyncWrite(cells, p)
      /\ \A n : j # Recv(n)
      /\ \A p : \A do \in {"close", "close_other", "read"} : j # Sync(do, p)
      /\ \A p, f : \A do \in {"close_inner", "shut"} : j # Rest(do, p, f)
    BY <1>1 DEF Put, SyncWrite, Recv, Sync, Rest
<1>3. c.name \in {"flush", "aflush"} \cup Prints
    BY <1>1, <1>2 DEF LastJob
<1> QED
    BY <1>1, <1>3

LEMMA Flushing ==
    ASSUME TypeInv, NEW t \in Coroutines, DoFlush(t)
    PROVE  /\ TypeInv' /\ UNCHANGED <<stack, queue, count>>
           /\ \E x \in flush(io) :
                  /\ io' = x.io
                  /\ seen' = IF x.error = "none" THEN Promise(seen) ELSE seen
                  /\ co'[t].at = IF x.error = "none" THEN "done" ELSE "raised"
           /\ co[t].at = "running" /\ Len(co[t].jobs) = 1
           /\ co[t].name \in {"flush", "aflush"} \cup Prints
           /\ co'[t].name = co[t].name /\ co'[t].cells = co[t].cells /\ co'[t].n = co[t].n
           /\ \A u \in Coroutines : u # t => co'[u] = co[u]
<1>1. PICK x \in flush(io) :
          /\ io' = x.io
          /\ seen' = IF x.error = "none" THEN Promise(seen) ELSE seen
          /\ co' = [co EXCEPT ![t] = IF x.error = "none" THEN NextJob(co[t])
                                     ELSE [co[t] EXCEPT !.at = "raised"]]
    BY DEF DoFlush
<1>2. /\ co[t].at = "running" /\ Head(co[t].jobs).do = "flush"
      /\ UNCHANGED <<stack, queue, count>>
    BY DEF DoFlush, Running, Job
<1>3. /\ co[t] \in CoType /\ Shape(co[t]) /\ Sizes(co[t]) /\ io \in Layer /\ Tidy(io) /\ seen \in SeenType
    BY <1>2 DEF TypeInv, InStep, Live
<1>4. Len(co[t].jobs) = 1 /\ co[t].name \in {"flush", "aflush"} \cup Prints
    BY <1>2, <1>3, FlushingName
<1>5. PICK a \in {"done", "raised"} : a = IF x.error = "none" THEN "done" ELSE "raised"
    OBVIOUS
<1>6. co' = [co EXCEPT ![t].at = a]
    <2>1. ~(Len(co[t].jobs) > 1)
        BY <1>4
    <2>2. NextJob(co[t]) = [co[t] EXCEPT !.at = "done"]
        BY <2>1 DEF NextJob
    <2>3. CASE x.error = "none"
        <3>1. co' = [co EXCEPT ![t] = [co[t] EXCEPT !.at = "done"]] /\ a = "done"
            BY <1>1, <1>5, <2>2, <2>3
        <3> QED
            BY <3>1
    <2>4. CASE x.error # "none"
        BY <1>1, <1>5, <2>4
    <2> QED
        BY <2>3, <2>4
<1>7. io' \in Layer /\ Tidy(io') /\ seen' \in SeenType
    BY <1>1, <1>3, FlushDescends, Promising DEF Descends
<1> QED
    BY <1>1, <1>2, <1>4, <1>5, <1>6, <1>7, Ending

\* A job that only one method has.
LEMMA OwnJob ==
    ASSUME NEW c \in CoType, Shape(c), Sizes(c), NEW j, j = Head(c.jobs),
           j.do \in {"close", "close_inner", "shut", "close_other", "read"}
    PROVE  /\ j.do \in {"close", "close_inner", "shut"} => c.name \in {"close", "aclose"} /\ j.on \in Places
           /\ j.do = "close_other" => c.name = "close_other"
           /\ j.do = "read" => c.name = "read"
           /\ j.do \in {"close_inner", "shut"} => j.failed \in BOOLEAN
<1>1. Len(c.jobs) = 1
    BY LastFlush
<1>2. LastJob(c, j)
    BY <1>1, JobAtHead
<1>3. /\ \A cells, as : j # Put(cells, as)
      /\ \A cells, p : j # SyncWrite(cells, p)
      /\ \A n : j # Recv(n)
      /\ \A p : j # Sync("flush", p)
    BY DEF Put, SyncWrite, Recv, Sync
<1>4. \/ c.name = "aclose" /\ j = Sync("close", OnPool(stack.w))
      \/ c.name \in {"close", "close_other", "read"} /\ j = Sync(c.name, "loop")
      \/ /\ c.name \in {"aclose", "close"}
         /\ \E do \in {"close_inner", "shut"}, p \in Places, f \in BOOLEAN : j = Rest(do, p, f)
    BY <1>2, <1>3 DEF LastJob
<1>5. OnPool(stack.w) \in Places /\ "loop" \in Places
    BY DEF OnPool, Places
<1>6. \A do, p, f : /\ Rest(do, p, f).do = do /\ Rest(do, p, f).on = p /\ Rest(do, p, f).failed = f
                   /\ Sync(do, p).do = do /\ Sync(do, p).on = p
    BY DEF Sync, Rest
<1>7. CASE c.name = "aclose" /\ j = Sync("close", OnPool(stack.w))
    BY <1>5, <1>6, <1>7
<1>8. CASE c.name \in {"close", "close_other", "read"} /\ j = Sync(c.name, "loop")
    BY <1>5, <1>6, <1>8
<1>9. CASE /\ c.name \in {"aclose", "close"}
           /\ \E do \in {"close_inner", "shut"}, p \in Places, f \in BOOLEAN : j = Rest(do, p, f)
    <2>1. PICK do \in {"close_inner", "shut"}, p \in Places, f \in BOOLEAN : j = Rest(do, p, f)
        BY <1>9
    <2>2. j.do \in {"close_inner", "shut"} /\ j.on \in Places /\ j.failed \in BOOLEAN
        BY <1>6, <2>1
    <2> QED
        BY <1>9, <2>2
<1> QED
    BY <1>4, <1>7, <1>8, <1>9

\* What becomes of a coroutine that closes.
LEMMA CloseGoesOn ==
    ASSUME NEW b \in CoType, Shape(b), Sizes(b), b.at = "running", b.name \in {"close", "aclose"},
           NEW do \in {"close_inner", "shut"}, NEW p \in Places, NEW f \in BOOLEAN,
           NEW c, c = [b EXCEPT !.jobs = <<Rest(do, p, f)>>]
    PROVE  /\ c \in CoType /\ c.name = b.name /\ c.n = b.n /\ c.cells = b.cells /\ c.at = "running"
           /\ Sizes(c) /\ Shape(c) /\ Head(c.jobs) = Rest(do, p, f)
<1> DEFINE j == Rest(do, p, f)
           u == <<j>>
<1>1. j \in JobType
    BY DEF Rest, JobType
<1>2. \E d \in {"close_inner", "shut"}, q \in Places, g \in BOOLEAN : j = Rest(d, q, g)
    OBVIOUS
<1> HIDE DEF j
<1>3. u \in Seq(JobType) /\ Len(u) = 1 /\ u[1] = j /\ Head(u) = j
    BY <1>1
<1>4. c = [b EXCEPT !.jobs = u]
    BY DEF j
<1> HIDE DEF u
<1>5. /\ c \in CoType /\ c.name = b.name /\ c.n = b.n /\ c.cells = b.cells /\ c.at = "running"
      /\ c.jobs = u
    BY <1>3, <1>4 DEF CoType
<1>6. LastJob(c, j)
    BY <1>2, <1>5 DEF LastJob
<1>7. Shape(c)
    BY <1>3, <1>5, <1>6 DEF Shape
<1>8. Sizes(c)
    BY <1>5 DEF Sizes
<1> QED
    BY <1>3, <1>5, <1>7, <1>8 DEF j

\* The record of what was written and read is as before, but for the writer being cut off.
SameRecord ==
    /\ seen'.accepted = seen.accepted /\ seen'.taken = seen.taken /\ seen'.flushed = seen.flushed
    /\ seen'.late = seen.late /\ seen'.around = seen.around /\ (seen.cut => seen'.cut)

\* A step of a close, or of the close of the reader.
LEMMA Closing ==
    ASSUME TypeInv, NEW t \in Coroutines,
           DoClose(t) \/ DoCloseInner(t) \/ DoShut(t) \/ CloseOther(t)
    PROVE  /\ TypeInv' /\ UNCHANGED <<stack, queue, count>>
           /\ Descends(io, io') /\ Bottom(io)' = Bottom(io) /\ Buffered(io, io', {})
           /\ SameRecord
           /\ co[t].at = "running" /\ Job(t).do \in {"close", "close_inner", "shut", "close_other"}
           /\ co[t].name \in {"close", "aclose", "close_other"}
           /\ co'[t].at \in {"running", "done", "raised"}
           /\ co'[t].name = co[t].name /\ co'[t].cells = co[t].cells /\ co'[t].n = co[t].n
           /\ \A u \in Coroutines : u # t => co'[u] = co[u]
<1> DEFINE b == co[t]
<1>1. /\ co[t].at = "running" /\ Job(t).do \in {"close", "close_inner", "shut", "close_other"}
      /\ UNCHANGED <<stack, queue, count>>
    BY DEF DoClose, DoCloseInner, DoShut, CloseOther, Running
<1>2. /\ io \in Layer /\ Tidy(io) /\ seen \in SeenType /\ co \in [Coroutines -> CoType]
      /\ b \in CoType /\ Shape(b) /\ Sizes(b)
    BY <1>1 DEF TypeInv, InStep, Live
<1>3. /\ Job(t).do \in {"close", "close_inner", "shut"} => b.name \in {"close", "aclose"} /\ Job(t).on \in Places
      /\ Job(t).do = "close_other" => b.name = "close_other"
      /\ Job(t).do \in {"close_inner", "shut"} => Job(t).failed \in BOOLEAN
    BY <1>1, <1>2, OwnJob DEF Job
<1>4. Descends(io, io) /\ Buffered(io, io, {})
    BY <1>2, Descending DEF Buffered
<1>5. /\ Descends(io, io') /\ Bottom(io') = Bottom(io) /\ Buffered(io, io', {})
    <2>1. CASE DoClose(t)
        <3>1. io' = io \/ \E x \in CloseOuter(io) : io' = x.io
            BY <2>1 DEF DoClose
        <3> QED
            BY <1>2, <1>4, <3>1, CloseDescends
    <2>2. CASE DoCloseInner(t)
        <3>1. io' = io \/ \E x \in CloseInner(io) : io' = x.io
            BY <2>2 DEF DoCloseInner, Done
        <3> QED
            BY <1>2, <1>4, <3>1, CloseDescends
    <2>3. CASE DoShut(t) \/ CloseOther(t)
        <3>1. io' \in {Shut(io), CloseReader(io)}
            BY <2>3 DEF DoShut, CloseOther
        <3> QED
            BY <1>2, <3>1, ShutDescends
    <2> QED
        BY <2>1, <2>2, <2>3
<1>6. seen' \in SeenType /\ SameRecord
    <2>1. PICK v \in BOOLEAN : seen' = [seen EXCEPT !.cut = v] /\ (seen.cut => v)
        <3>1. CASE DoClose(t) \/ DoCloseInner(t)
            <4>1. seen' = seen /\ seen = [seen EXCEPT !.cut = seen.cut] /\ seen.cut \in BOOLEAN
                BY <1>2, <3>1 DEF DoClose, DoCloseInner, SeenType
            <4> QED
                BY <4>1
        <3>2. CASE DoShut(t)
            BY <1>2, <3>2, SeenFields DEF DoShut
        <3>3. CASE CloseOther(t)
            BY <1>2, <3>3, SeenFields DEF CloseOther
        <3> QED
            BY <3>1, <3>2, <3>3
    <2> QED
        BY <1>2, <2>1 DEF SeenType, SameRecord
<1>7. io' \in Layer /\ Tidy(io') /\ "loop" \in Places
    BY <1>5 DEF Descends, Places
<1>8. \/ \E a \in {"done", "raised"} : co' = [co EXCEPT ![t].at = a]
      \/ /\ Job(t).do \in {"close", "close_inner"}
         /\ \E do \in {"close_inner", "shut"}, f \in BOOLEAN :
                co' = [co EXCEPT ![t] = [b EXCEPT !.jobs = <<Rest(do, Job(t).on, f)>>]]
    <2>1. CASE DoClose(t)
        <3>1. CASE co' = [co EXCEPT ![t].at = "done"]
            BY <3>1
        <3>2. CASE \E x \in CloseOuter(io) : co' = [co EXCEPT ![t].jobs =
                        <<Rest(IF stack.w = "fallback" THEN "close_inner" ELSE "shut", Job(t).on,
                               x.error # "none")>>]
            <4>1. PICK do \in {"close_inner", "shut"}, f \in BOOLEAN :
                      co' = [co EXCEPT ![t].jobs = <<Rest(do, Job(t).on, f)>>]
                BY <3>2
            <4>2. co' = [co EXCEPT ![t] = [b EXCEPT !.jobs = <<Rest(do, Job(t).on, f)>>]]
                BY <4>1
            <4>3. Job(t).do = "close"
                BY <2>1 DEF DoClose, Running
            <4> QED
                BY <4>2, <4>3
        <3> QED
            BY <2>1, <3>1, <3>2 DEF DoClose
    <2>2. CASE DoCloseInner(t)
        <3>1. PICK x : co' = [co EXCEPT ![t].jobs = <<Rest("shut", Job(t).on, Job(t).failed \/ x.error # "none")>>]
            BY <2>2 DEF DoCloseInner
        <3>2. PICK f \in BOOLEAN : co' = [co EXCEPT ![t].jobs = <<Rest("shut", Job(t).on, f)>>]
            BY <3>1
        <3>3. co' = [co EXCEPT ![t] = [b EXCEPT !.jobs = <<Rest("shut", Job(t).on, f)>>]]
            BY <3>2
        <3>4. Job(t).do = "close_inner"
            BY <2>2 DEF DoCloseInner, Running
        <3> QED
            BY <3>3, <3>4
    <2>3. CASE DoShut(t) \/ CloseOther(t)
        BY <2>3 DEF DoShut, CloseOther
    <2> QED
        BY <2>1, <2>2, <2>3
<1>9. CASE \E a \in {"done", "raised"} : co' = [co EXCEPT ![t].at = a]
    BY <1>1, <1>2, <1>3, <1>5, <1>6, <1>7, <1>9, Ending DEF Sunk, Bottom
<1>10. CASE /\ Job(t).do \in {"close", "close_inner"}
            /\ \E do \in {"close_inner", "shut"}, f \in BOOLEAN :
                   co' = [co EXCEPT ![t] = [b EXCEPT !.jobs = <<Rest(do, Job(t).on, f)>>]]
    <2>1. PICK do \in {"close_inner", "shut"}, f \in BOOLEAN :
              co' = [co EXCEPT ![t] = [b EXCEPT !.jobs = <<Rest(do, Job(t).on, f)>>]]
        BY <1>10
    <2> DEFINE c == [b EXCEPT !.jobs = <<Rest(do, Job(t).on, f)>>]
    <2>2. b.name \in {"close", "aclose"} /\ Job(t).on \in Places
        BY <1>3, <1>10
    <2>3. /\ c \in CoType /\ c.name = b.name /\ c.n = b.n /\ c.cells = b.cells /\ c.at = "running"
          /\ Sizes(c) /\ Shape(c)
        BY <1>1, <1>2, <2>2, CloseGoesOn
    <2>4. co' = [co EXCEPT ![t] = c]
        BY <2>1
    <2> HIDE DEF c
    <2>5. /\ TypeInv' /\ co'[t] = c /\ \A u \in Coroutines : u # t => co'[u] = co[u]
        BY <1>1, <1>6, <1>7, <2>3, <2>4, GoingOn
    <2> QED
        BY <1>1, <1>3, <1>5, <1>6, <1>10, <2>3, <2>5 DEF Sunk, Bottom
<1> QED
    BY <1>8, <1>9, <1>10


\* What a job that receives can be.
LEMMA TakingJob ==
    ASSUME NEW c \in CoType, Shape(c), Sizes(c), NEW j, j = Head(c.jobs), j.do = "take"
    PROVE  /\ Len(c.jobs) = 1 /\ c.jobs = <<j>> /\ j.n \in {-1, 1, 2}
           /\ \/ c.name = "aread" /\ j.n = 1
              \/ c.name = "aread_all" /\ j = Recv(-1) /\ j.n = -1
              \/ c.name = "asplice" /\ j.n = 2 /\ c.cells = <<>> /\ c.n = 0
<1>1. /\ Len(c.jobs) \in {1, 2} /\ c.jobs \in Seq(JobType) /\ j = c.jobs[1]
      /\ (Len(c.jobs) = 1 => LastJob(c, j)) /\ (Len(c.jobs) = 2 => JobBefore(c, j))
    BY JobAtHead, CoFields
<1>2. ASSUME JobBefore(c, j) PROVE j.do \in {"put", "write"}
    BY <1>2 DEF JobBefore, Put, SyncWrite
<1>3. Len(c.jobs) = 1 /\ LastJob(c, j)
    BY <1>1, <1>2
<1>4. \/ c.name = "aread" /\ j = Recv(1)
      \/ c.name = "aread_all" /\ j = Recv(-1)
      \/ c.name = "asplice" /\ c.n = 0 /\ c.cells = <<>> /\ j = Recv(2)
    <2>1. /\ \A cells, as : j # Put(cells, as)
          /\ \A cells, p : j # SyncWrite(cells, p)
          /\ \A p : \A do \in {"flush", "close", "close_other", "read"} : j # Sync(do, p)
          /\ \A p, f : \A do \in {"close_inner", "shut"} : j # Rest(do, p, f)
        BY DEF Put, SyncWrite, Sync, Rest
    <2> QED
        BY <1>3, <2>1 DEF LastJob
<1>5. c.jobs = <<j>>
    BY <1>1, <1>3
<1>6. Recv(1).n = 1 /\ Recv(-1).n = -1 /\ Recv(2).n = 2
    BY DEF Recv
<1> QED
    BY <1>3, <1>4, <1>5, <1>6

\* What one recv, or read, gives.
LEMMA ChunkOf ==
    ASSUME TypeInv, NEW n \in {-1, 1, 2}
    PROVE  \E k \in Nat : /\ k <= Len(io.src) /\ (n # -1 => k <= n)
                          /\ Chunk(n) = Take(io.src, k) /\ Len(Chunk(n)) = k
<1>1. io.src \in Seq(Cells) /\ Len(io.src) \in Nat
    BY LayerFields DEF TypeInv
<1>2. CASE n = -1
    <2>1. Take(io.src, Len(io.src)) = io.src
        BY <1>1, PartsOf
    <2> QED
        BY <1>1, <1>2, <2>1 DEF Chunk
<1>3. CASE n # -1
    <2> DEFINE k == IF n < Len(io.src) THEN n ELSE Len(io.src)
    <2>1. n \in Nat /\ k \in Nat /\ k <= Len(io.src) /\ k <= n
        BY <1>1, <1>3
    <2>2. Chunk(n) = Take(io.src, n)
        BY <1>3 DEF Chunk
    <2>3. Len(Take(io.src, n)) = k
        BY <1>1, <2>1, TakeAndDrop
    <2>4. Take(io.src, n) = Take(io.src, k)
        <3>1. (IF k < Len(io.src) THEN k ELSE Len(io.src)) = k
            BY <1>1, <2>1
        <3> QED
            BY <3>1 DEF Take
    <2> HIDE DEF k
    <2> QED
        BY <1>3, <2>1, <2>2, <2>3, <2>4
<1> QED
    BY <1>2, <1>3

\* A coroutine with a chunk.
Chunked(c, j, chunk) == ReceivedChunk(c, chunk, j.n = -1)

LEMMA WithChunk ==
    ASSUME NEW b \in CoType, Shape(b), Sizes(b), b.name # "none", b.at = "running",
           NEW j, j = Head(b.jobs), j.do = "take",
           NEW a \in Seq(Cells), j.n # -1 => Len(a) <= j.n,
           NEW c, c = Chunked(b, j, a)
    PROVE  /\ c \in CoType /\ c.name = b.name /\ c.cells = b.cells \o a /\ c.n = b.n
           /\ c.at \in {"running", "ready", "done"} /\ Sizes(c) /\ (c.at \in Live => Shape(c))
<1> DEFINE z == b.cells \o a
           d == [b EXCEPT !.cells = z]
<1>1. /\ b.cells \in Seq(Cells) /\ z \in Seq(Cells)
      /\ \/ b.name = "aread" /\ j.n = 1
         \/ b.name = "aread_all" /\ j = Recv(-1) /\ j.n = -1
         \/ b.name = "asplice" /\ j.n = 2 /\ b.cells = <<>> /\ b.n = 0
      /\ b.jobs = <<j>> /\ b.jobs \in Seq(JobType)
    BY CoFields, TakingJob, ConcatProperties
<1>2. b.name = "asplice" => Len(z) <= 2
    <2>1. SUFFICES ASSUME b.name = "asplice" PROVE Len(z) <= 2
        OBVIOUS
    <2>2. b.cells = <<>> /\ Len(a) <= 2
        BY <1>1, <2>1
    <2>3. z = a
        BY <2>2, ConcatEmptySeq
    <2> QED
        BY <2>2, <2>3
<1>3. /\ d \in CoType /\ d.name = b.name /\ d.cells = z /\ d.n = b.n /\ d.at = "running"
      /\ d.jobs = b.jobs
    <2> HIDE DEF z
    <2> QED
        BY <1>1 DEF CoType
<1>4. c = IF j.n = -1 /\ a # <<>> THEN d ELSE Received(d)
    BY DEF ReceivedChunk, Chunked
<1> HIDE DEF d, z
<1>5. b.name \notin Writes
    BY <1>1 DEF Writes, Prints
<1>6. Sizes(d)
    BY <1>2, <1>3, <1>5 DEF Sizes
<1>7. CASE j.n = -1 /\ a # <<>>
    <2>1. LastJob(d, j)
        BY <1>1, <1>3, <1>7 DEF LastJob
    <2>2. Shape(d)
        BY <1>1, <1>3, <2>1 DEF Shape
    <2> QED
        BY <1>3, <1>4, <1>6, <1>7, <2>2 DEF z
<1>8. CASE ~(j.n = -1 /\ a # <<>>) /\ (d.name # "asplice" \/ d.cells = <<>>)
    <2>1. c = [d EXCEPT !.at = "done"]
        BY <1>4, <1>8 DEF Received
    <2>2. "done" \in Ats /\ "done" \notin Live
        BY DEF Ats, Live
    <2>3. /\ c \in CoType /\ c.name = d.name /\ c.cells = d.cells /\ c.n = d.n /\ c.at = "done"
        BY <1>3, <2>1, <2>2 DEF CoType
    <2>4. Sizes(c)
        BY <1>3, <1>6, <2>3 DEF Sizes
    <2> QED
        BY <1>3, <2>2, <2>3, <2>4 DEF z
<1>9. CASE ~(j.n = -1 /\ a # <<>>) /\ d.name = "asplice" /\ d.cells # <<>>
    <2> DEFINE i == IF stack.w = "plain" THEN SyncWrite(d.cells, "pool") ELSE Put(d.cells, "bytes")
               u == <<i>>
    <2>1. c = [d EXCEPT !.at = "ready", !.jobs = u]
        BY <1>4, <1>9 DEF Received
    <2>2. i \in JobType
        <3>1. d.cells \in Seq(Cells) /\ OnPool(stack.w) \in Places /\ "pool" \in Places /\ "ring" \in Places
            BY <1>1, <1>3 DEF OnPool, Places
        <3> QED
            BY <3>1 DEF Put, SyncWrite, JobType
    <2> HIDE DEF i
    <2>3. u \in Seq(JobType) /\ Len(u) = 1 /\ u[1] = i /\ "ready" \in Ats
        BY <2>2 DEF Ats
    <2> HIDE DEF u
    <2>4. /\ c \in CoType /\ c.name = d.name /\ c.cells = d.cells /\ c.n = d.n /\ c.at = "ready"
          /\ c.jobs = u
        BY <1>3, <2>1, <2>3 DEF CoType
    <2>5. c.name = "asplice" /\ c.n = 0
        BY <1>1, <1>3, <1>9, <2>4
    <2>6. LastJob(c, i)
        <3>1. CASE stack.w = "plain"
            BY <2>4, <2>5, <3>1 DEF LastJob, i
        <3>2. CASE stack.w # "plain"
            BY <2>4, <2>5, <3>2 DEF LastJob, i
        <3> QED
            BY <3>1, <3>2
    <2>7. Shape(c)
        BY <2>3, <2>4, <2>6 DEF Shape
    <2>8. Sizes(c)
        BY <1>2, <1>3, <1>5, <2>4, <2>5 DEF Sizes
    <2> QED
        BY <1>3, <2>4, <2>7, <2>8 DEF z
<1> QED
    BY <1>7, <1>8, <1>9

\* What the two ways of reading do to the layers and the record: k cells of the source,
\* or one of what was read ahead.
LEMMA Taking ==
    ASSUME TypeInv, NEW t \in Coroutines, DoTake(t)
    PROVE  /\ TypeInv' /\ UNCHANGED <<stack, queue, count>>
           /\ co[t].at = "running" /\ Job(t).do = "take"
           /\ \E k \in Nat :
                  /\ k <= Len(io.src)
                  /\ io' = [io EXCEPT !.src = Drop(@, k)]
                  /\ seen' = [seen EXCEPT !.taken = @ \o Take(io.src, k),
                                          !.around.r = @ \/ (Take(io.src, k) # <<>> /\ io.ahead # <<>>)]
                  /\ co'[t].cells = co[t].cells \o Take(io.src, k)
           /\ co'[t].name = co[t].name /\ co'[t].n = co[t].n
           /\ co[t].name \in Reads \ {"read"}
           /\ co'[t].at \in {"running", "ready", "done"}
           /\ co[t].name = "aread" => co'[t].at = "done"
           /\ co[t].name = "aread_all" => co'[t].at # "ready"
           /\ \A u \in Coroutines : u # t => co'[u] = co[u]
<1> DEFINE j == Job(t)
           b == co[t]
           a == Chunk(j.n)
           c == Chunked(b, j, a)
<1>1. /\ io' = [io EXCEPT !.src = Drop(@, Len(a))]
      /\ seen' = [seen EXCEPT !.taken = @ \o a, !.around.r = @ \/ (a # <<>> /\ io.ahead # <<>>)]
      /\ co' = [co EXCEPT ![t] = c]
    BY DEF DoTake, Chunked
<1>2. b.at = "running" /\ j.do = "take" /\ UNCHANGED <<stack, queue, count>>
    BY DEF DoTake, Running
<1>3. /\ io \in Layer /\ Tidy(io) /\ seen \in SeenType /\ b \in CoType /\ InStep(t)
      /\ co \in [Coroutines -> CoType]
    BY DEF TypeInv
<1>4. Shape(b) /\ Sizes(b) /\ b.name # "none" /\ j = Head(b.jobs)
    BY <1>2, <1>3 DEF InStep, Sizes, NotStarted, Live, Job
<1> HIDE DEF j, b, c
<1>5. j.n \in {-1, 1, 2} /\ b.name \in Reads \ {"read"} /\ (b.name = "aread" => j.n = 1)
    BY <1>2, <1>3, <1>4, TakingJob DEF Reads
<1>6. PICK k \in Nat : /\ k <= Len(io.src) /\ (j.n # -1 => k <= j.n)
                      /\ a = Take(io.src, k) /\ Len(a) = k
    BY <1>5, ChunkOf
<1>7. io.src \in Seq(Cells)
    BY <1>3, LayerFields
<1>8. a \in Seq(Cells) /\ Drop(io.src, k) \in Seq(Cells)
    BY <1>6, <1>7, TakeAndDrop
<1> HIDE DEF a
<1>10. c = Chunked(b, j, a)
    BY DEF c
<1>11. j.n # -1 => Len(a) <= j.n
    BY <1>6
<1>12. /\ c \in CoType /\ c.name = b.name /\ c.cells = b.cells \o a /\ c.n = b.n
       /\ c.at \in {"running", "ready", "done"} /\ Sizes(c) /\ (c.at \in Live => Shape(c))
    <2>1. /\ b \in CoType /\ Shape(b) /\ Sizes(b) /\ b.name # "none" /\ b.at = "running"
          /\ j = Head(b.jobs) /\ j.do = "take"
        BY <1>2, <1>3, <1>4
    <2>2. a \in Seq(Cells)
        BY <1>8
    <2> QED
        BY <1>10, <1>11, <2>1, <2>2, WithChunk
<1>18. b.name = "aread" => c.at = "done"
    <2> SUFFICES ASSUME b.name = "aread" PROVE c.at = "done"
        OBVIOUS
    <2> DEFINE z == b.cells \o a
               d == [b EXCEPT !.cells = z]
    <2>1. c = Received(d)
        BY <1>5, <1>10 DEF Chunked, ReceivedChunk
    <2>2. d.name = "aread"
        BY <1>3 DEF CoType
    <2> HIDE DEF z
    <2>3. c = [d EXCEPT !.at = "done"]
        BY <2>1, <2>2 DEF Received
    <2> QED
        BY <1>3, <2>3 DEF CoType
<1>19. b.name = "aread_all" => c.at # "ready"
    <2> SUFFICES ASSUME b.name = "aread_all" PROVE c.at # "ready"
        OBVIOUS
    <2> DEFINE z == b.cells \o a
               d == [b EXCEPT !.cells = z]
    <2>1. c = d \/ c = Received(d)
        BY <1>10 DEF Chunked, ReceivedChunk
    <2>2. d.name = "aread_all" /\ d.at = "running"
        BY <1>2, <1>3 DEF CoType
    <2> HIDE DEF z
    <2>3. d \in [name : {d.name}, at : {d.at}, jobs : {d.jobs}, cells : {d.cells}, n : {d.n}]
        BY <1>3 DEF CoType
    <2>4. Received(d) = [d EXCEPT !.at = "done"]
        BY <2>2 DEF Received
    <2> HIDE DEF d
    <2>5. Received(d).at = "done"
        BY <2>3, <2>4
    <2> QED
        BY <2>1, <2>2, <2>5
<1>13. io' \in Layer /\ Tidy(io') /\ io' = [io EXCEPT !.src = Drop(@, k)]
    <2>1. io' \in Layer /\ io'.outer = io.outer /\ io'.inner = io.inner
        BY <1>1, <1>3, <1>6, <1>8 DEF Layer
    <2> QED
        BY <1>1, <1>3, <1>6, <2>1 DEF Tidy
<1>14. seen' \in SeenType
    <2>1. seen.taken \o a \in Seq(Cells)
        BY <1>3, <1>8, SeenFields, ConcatProperties
    <2> DEFINE v == seen.around.r \/ (a # <<>> /\ io.ahead # <<>>)
               e == [seen.around EXCEPT !.r = v]
    <2>2. v \in BOOLEAN
        BY <1>3, SeenFields
    <2>3. seen' = [seen EXCEPT !.taken = seen.taken \o a, !.around = e]
        BY <1>1
    <2> HIDE DEF v
    <2>4. e \in [r : BOOLEAN, w : BOOLEAN]
        BY <1>3, <2>2 DEF SeenType
    <2> HIDE DEF e
    <2> QED
        BY <1>3, <2>1, <2>3, <2>4 DEF SeenType
<1>15. b.at # "queued" /\ c.at # "queued"
    BY <1>2, <1>12
<1>16. TypeInv'
    <2>1. co[t].at # "queued" /\ c.name = co[t].name
        BY <1>12, <1>15 DEF b
    <2> QED
        BY <1>1, <1>2, <1>12, <1>13, <1>14, <1>15, <2>1, TypesRunOn
<1>17. /\ co'[t] = c /\ \A u \in Coroutines : u # t => co'[u] = co[u]
    BY <1>1, <1>3, <1>12, OneGoesOn
<1> QED
    <2>1. co'[t].cells = co[t].cells \o Take(io.src, k)
        BY <1>6, <1>12, <1>17 DEF b
    <2>2. seen' = [seen EXCEPT !.taken = @ \o Take(io.src, k),
                               !.around.r = @ \/ (Take(io.src, k) # <<>> /\ io.ahead # <<>>)]
        BY <1>1, <1>6
    <2> QED
        BY <1>2, <1>5, <1>6, <1>12, <1>13, <1>16, <1>17, <1>18, <1>19, <2>1, <2>2 DEF b, j

LEMMA Reading ==
    ASSUME TypeInv, NEW t \in Coroutines, DoRead(t)
    PROVE  /\ TypeInv' /\ UNCHANGED <<stack, queue, count>>
           /\ co[t].at = "running" /\ Job(t).do = "read" /\ co[t].name = "read"
           /\ LET all   == IF io.ahead # <<>> THEN io.ahead ELSE io.src
                  ahead == io.ahead # <<>> \/ (stack.buffered /\ stack.r # "memory")
              IN  /\ io' = IF ~ahead THEN [io EXCEPT !.src = Drop(@, 1)]
                           ELSE [io EXCEPT !.ahead = Drop(all, 1),
                                           !.src = IF io.ahead # <<>> THEN @ ELSE <<>>]
                  /\ seen' = [seen EXCEPT !.taken = @ \o Take(all, 1)]
                  /\ co'[t].cells = Take(all, 1)
           /\ co'[t].name = co[t].name /\ co'[t].n = co[t].n /\ co'[t].at = "done"
           /\ \A u \in Coroutines : u # t => co'[u] = co[u]
<1> DEFINE b == co[t]
           all   == IF io.ahead # <<>> THEN io.ahead ELSE io.src
           ahead == io.ahead # <<>> \/ (stack.buffered /\ stack.r # "memory")
           a == Take(all, 1)
           c == [b EXCEPT !.at = "done", !.cells = a]
<1>1. /\ io' = IF ~ahead THEN [io EXCEPT !.src = Drop(@, 1)]
               ELSE [io EXCEPT !.ahead = Drop(all, 1),
                               !.src = IF io.ahead # <<>> THEN @ ELSE <<>>]
      /\ seen' = [seen EXCEPT !.taken = @ \o a]
      /\ co' = [co EXCEPT ![t].at = "done", ![t].cells = a]
    BY DEF DoRead
<1>2. b.at = "running" /\ Job(t).do = "read" /\ UNCHANGED <<stack, queue, count>>
    BY DEF DoRead, Running
<1>3. /\ io \in Layer /\ Tidy(io) /\ seen \in SeenType /\ b \in CoType /\ Shape(b) /\ Sizes(b)
      /\ b.name # "none" /\ co \in [Coroutines -> CoType]
    BY <1>2 DEF TypeInv, InStep, Live, Sizes, NotStarted
<1>4. b.name = "read"
    BY <1>2, <1>3, OwnJob DEF Job
<1>5. /\ io.src \in Seq(Cells) /\ io.ahead \in Seq(Cells) /\ seen.taken \in Seq(Cells)
      /\ <<>> \in Seq(Cells) /\ all \in Seq(Cells)
    BY <1>3, LayerFields, SeenFields
<1> HIDE DEF all, ahead
<1>6. /\ Drop(all, 1) \in Seq(Cells) /\ Drop(io.src, 1) \in Seq(Cells) /\ a \in Seq(Cells)
      /\ seen.taken \o a \in Seq(Cells)
    BY <1>5, TakeAndDrop, ConcatProperties
<1>7. io' \in Layer /\ Tidy(io')
    <2>1. io' \in Layer /\ io'.outer = io.outer /\ io'.inner = io.inner
        BY <1>1, <1>3, <1>5, <1>6 DEF Layer
    <2> QED
        BY <1>3, <2>1 DEF Tidy
<1>8. seen' \in SeenType
    <2> DEFINE z == seen.taken \o a
    <2>1. seen' = [seen EXCEPT !.taken = z] /\ z \in Seq(Cells)
        BY <1>1, <1>6
    <2> HIDE DEF z
    <2> QED
        BY <1>3, <2>1 DEF SeenType
<1>9. co' = [co EXCEPT ![t] = c]
    BY <1>1, <1>3
<1> HIDE DEF a, b
<1>10. "done" \in Ats /\ "done" \in {"running", "done", "raised"}
    BY DEF Ats
<1>11. c \in CoType /\ c.at = "done" /\ c.name = b.name /\ c.n = b.n /\ c.cells = a
    BY <1>3, <1>6, <1>10 DEF CoType
<1> HIDE DEF c
<1>12. Sizes(c)
    BY <1>3, <1>4, <1>11 DEF Sizes, Writes, Prints
<1>13. /\ TypeInv' /\ co'[t] = c /\ \A u \in Coroutines : u # t => co'[u] = co[u]
    <2>1. c.name = co[t].name /\ c.n = co[t].n /\ co[t].at = "running"
        BY <1>2, <1>11 DEF b
    <2>2. c.at \in {"running", "done", "raised"} /\ c.at # "running"
        BY <1>11
    <2> QED
        BY <1>2, <1>7, <1>8, <1>9, <1>11, <1>12, <2>1, <2>2, GoingOn
<1> QED
    BY <1>1, <1>2, <1>4, <1>11, <1>13 DEF a, b, all, ahead


----------------------------------------------------------------------------
(* Types. *)

LEMMA SentCells == Sent \in Seq(Cells) /\ Distinct(Sent) /\ Elements(Sent) \subseteq Cells
<1>1. Sent \in Seq(Elements(Sent)) /\ Distinct(Sent)
    BY SentAssumption, ElementsOf DEF Distinct
<1>2. Elements(Sent) \subseteq Cells
    BY DEF Cells
<1> QED
    BY <1>1, <1>2

LEMMA TypesInit == Init => TypeInv
<1> SUFFICES ASSUME Init PROVE TypeInv
    OBVIOUS
<1>1. /\ stack \in Stacks /\ co = [t \in Coroutines |-> NotStarted] /\ queue = <<>>
      /\ count = 0 /\ seen = History
      /\ \/ io = Layers(Sent, <<>>) \/ io = Layers(<<>>, Sent)
    BY DEF Init
<1>2. <<>> \in Seq(Cells) /\ Sent \in Seq(Cells) /\ <<>> \in Seq(Coroutines) /\ <<>> \in Seq(JobType)
    BY SentCells
<1>3. io \in Layer /\ Tidy(io)
    <2>1. \A l, s \in Seq(Cells) : Layers(l, s) \in Layer /\ Tidy(Layers(l, s))
        BY <1>2, SizeAssumption DEF Layers, Layer, Tidy
    <2> QED
        BY <1>1, <1>2, <2>1
<1>4. NotStarted \in CoType /\ NotStarted.at = "idle" /\ NotStarted.name = "none" /\ Sizes(NotStarted)
    BY <1>2 DEF NotStarted, CoType, Sizes, Ats, Writes, Prints
<1>5. Elements(queue) = {} /\ Distinct(queue) /\ queue \in Seq(Coroutines)
    BY <1>1, <1>2, NothingIn
<1>6. ASSUME NEW t \in Coroutines PROVE InStep(t)
    BY <1>1, <1>4, <1>5 DEF InStep, Live
<1>7. count \in 0 .. MaxCalls
    BY <1>1, SizeAssumption
<1>8. seen \in SeenType
    BY <1>1, <1>2 DEF History, SeenType
<1>9. co \in [Coroutines -> CoType]
    BY <1>1, <1>4
<1> QED
    BY <1>1, <1>3, <1>5, <1>6, <1>7, <1>8, <1>9 DEF TypeInv

LEMMA TypesNext == TypeInv /\ [Next]_vars => TypeInv'
<1> SUFFICES ASSUME TypeInv, [Next]_vars PROVE TypeInv'
    OBVIOUS
<1>2. CASE PeerSends \/ PeerCloses \/ PeerReceives
    BY <1>2, TypesOfPeers
<1>3. ASSUME NEW t \in Coroutines, NEW name \in Names, Start(t, name)
      PROVE  TypeInv'
    BY <1>3, TypesOfStart
<1>4. ASSUME NEW t \in Coroutines, Step(t) \/ TakeFails(t)
      PROVE  TypeInv'
    BY <1>4, TypesOfDispatch, TypesOfWriting, Flushing, Closing, Taking, Reading DEF Step
<1>5. CASE UNCHANGED vars
    <2>1. io \in Layer /\ Tidy(io) /\ seen \in SeenType
        BY DEF TypeInv
    <2>2. UNCHANGED <<stack, co, queue, count>> /\ io' = io /\ seen' = seen
        BY <1>5 DEF vars
    <2>3. Tidy(io)'
        BY <2>1, <2>2, TidyNext
    <2> QED
        BY <2>1, <2>2, <2>3, TypesKept
<1> QED
    BY <1>2, <1>3, <1>4, <1>5 DEF Next

\* The layers and the records hold cells, and a coroutine that has not ended has jobs left.
LEMMA TypesHold == TypeInv => TypeOK
<1> SUFFICES ASSUME TypeInv PROVE TypeOK
    OBVIOUS
<1>1. stack \in Stacks /\ queue \in Seq(Coroutines) /\ Len(io.outer) <= BufferSize
    BY DEF TypeInv, Tidy
<1>2. ASSUME NEW l \in {"outer", "inner", "sink", "left", "src", "ahead"}
      PROVE  Elements(io[l]) \subseteq Cells
    <2>1. io[l] \in Seq(Cells)
        BY DEF TypeInv, Layer
    <2> QED
        BY <2>1, ElementsOf
<1>3. ASSUME NEW t \in Coroutines
      PROVE  /\ co[t].at \in {"idle", "ready", "queued", "running", "done", "raised"}
             /\ (co[t].at = "queued") <=> (t \in Elements(queue))
             /\ co[t].at \in {"ready", "queued", "running"} => co[t].jobs # <<>>
    <2>1. InStep(t) /\ co[t] \in CoType
        BY DEF TypeInv
    <2>2. ASSUME co[t].at \in {"ready", "queued", "running"} PROVE co[t].jobs # <<>>
        <3>1. Shape(co[t]) /\ Sizes(co[t])
            BY <2>1, <2>2 DEF InStep, Live
        <3> QED
            BY <2>1, <3>1, JobAtHead
    <2>3. co[t].at \in {"idle", "ready", "queued", "running", "done", "raised"}
        BY <2>1, CoFields DEF Ats
    <2> QED
        BY <2>1, <2>2, <2>3 DEF InStep
<1> QED
    BY <1>1, <1>2, <1>3 DEF TypeOK

\* TypeOK holds: of every stack, of any number of coroutines, threads and cells.
THEOREM TypeCorrect == Spec => []TypeOK
<1>1. Init => TypeInv
    BY TypesInit
<1>2. TypeInv /\ [Next]_vars => TypeInv'
    BY TypesNext
<1>3. TypeInv => TypeOK
    BY TypesHold
<1> QED
    BY <1>1, <1>2, <1>3, PTL DEF Spec

----------------------------------------------------------------------------
(* What is read. *)

InTurn(a, b, c, d) == a \o b \o c \o d

LEMMA FourParts ==
    ASSUME NEW a \in Seq(Cells), NEW b \in Seq(Cells), NEW c \in Seq(Cells), NEW d \in Seq(Cells)
    PROVE  /\ InTurn(a, b, c, d) \in Seq(Cells)
           /\ Elements(InTurn(a, b, c, d)) =
                  Elements(a) \cup Elements(b) \cup Elements(c) \cup Elements(d)
           /\ Distinct(InTurn(a, b, c, d)) <=>
                  /\ Distinct(a) /\ Distinct(b) /\ Distinct(c) /\ Distinct(d)
                  /\ Elements(a) \cap Elements(b) = {} /\ Elements(a) \cap Elements(c) = {}
                  /\ Elements(a) \cap Elements(d) = {} /\ Elements(b) \cap Elements(c) = {}
                  /\ Elements(b) \cap Elements(d) = {} /\ Elements(c) \cap Elements(d) = {}
<1> DEFINE s == InTurn(a, b, c, d)
<1>1. /\ a \o b \in Seq(Cells) /\ Elements(a \o b) = Elements(a) \cup Elements(b)
      /\ Distinct(a \o b) <=> Distinct(a) /\ Distinct(b) /\ Elements(a) \cap Elements(b) = {}
    BY ElementsConcat, DistinctConcat
<1> DEFINE e == a \o b
<1>2. e \in Seq(Cells)
    BY <1>1
<1> HIDE DEF e
<1>3. /\ e \o c \in Seq(Cells) /\ Elements(e \o c) = Elements(e) \cup Elements(c)
      /\ Distinct(e \o c) <=> Distinct(e) /\ Distinct(c) /\ Elements(e) \cap Elements(c) = {}
    BY <1>2, ElementsConcat, DistinctConcat
<1> DEFINE f == e \o c
<1>4. f \in Seq(Cells)
    BY <1>3
<1> HIDE DEF f
<1>5. /\ f \o d \in Seq(Cells) /\ Elements(f \o d) = Elements(f) \cup Elements(d)
      /\ Distinct(f \o d) <=> Distinct(f) /\ Distinct(d) /\ Elements(f) \cap Elements(d) = {}
    BY <1>4, ElementsConcat, DistinctConcat
<1>6. s = f \o d
    BY DEF e, f, InTurn
<1> HIDE DEF s
<1>7. /\ Elements(e) = Elements(a) \cup Elements(b)
      /\ Distinct(e) <=> Distinct(a) /\ Distinct(b) /\ Elements(a) \cap Elements(b) = {}
    BY <1>1 DEF e
<1>8. /\ Elements(f) = Elements(a) \cup Elements(b) \cup Elements(c)
      /\ Distinct(f) <=> Distinct(e) /\ Distinct(c) /\ Elements(e) \cap Elements(c) = {}
    BY <1>3, <1>7 DEF f
<1>9. Distinct(s) <=> Distinct(f) /\ Distinct(d) /\ Elements(f) \cap Elements(d) = {}
    BY <1>5, <1>6
<1>10. s \in Seq(Cells) /\ Elements(s) = Elements(f) \cup Elements(d)
    BY <1>5, <1>6
<1> HIDE DEF e, f
<1>11. Distinct(f) <=> /\ Distinct(a) /\ Distinct(b) /\ Distinct(c)
                       /\ Elements(a) \cap Elements(b) = {} /\ Elements(a) \cap Elements(c) = {}
                       /\ Elements(b) \cap Elements(c) = {}
    BY <1>7, <1>8
<1>12. Elements(f) \cap Elements(d) = {} <=> /\ Elements(a) \cap Elements(d) = {}
                                             /\ Elements(b) \cap Elements(d) = {}
                                             /\ Elements(c) \cap Elements(d) = {}
    BY <1>8
<1> QED
    BY <1>8, <1>9, <1>10, <1>11, <1>12 DEF s

LEMMA PartOfTurn ==
    ASSUME NEW a \in Seq(Cells), NEW b \in Seq(Cells), NEW c \in Seq(Cells), NEW d \in Seq(Cells)
    PROVE  /\ Elements(a) \subseteq Elements(InTurn(a, b, c, d))
           /\ Elements(c) \subseteq Elements(InTurn(a, b, c, d))
    BY FourParts

\* What was sent, as far as it has got; it is all there, once, and in order unless
\* something was read around what had been read ahead.
Stream(h, d) == InTurn(h.taken, d.ahead, d.src, d.left)

Streams(h, d) ==
    /\ Elements(Stream(h, d)) = Elements(Sent)
    /\ Distinct(Stream(h, d))
    /\ ~h.around.r => Stream(h, d) = Sent

\* What a coroutine has read; what was taken is what one of them has.
HeldBy(c) == IF c.name \in Reads THEN Elements(c.cells) ELSE {}

Shares(h, f) ==
    /\ \A t \in Coroutines : HeldBy(f[t]) \subseteq Elements(h.taken)
    /\ \A c \in Elements(h.taken) : \E t \in Coroutines : c \in HeldBy(f[t])
    /\ \A t, u \in Coroutines : t # u => HeldBy(f[t]) \cap HeldBy(f[u]) = {}

\* What a reader has in hand before its last step, and may fail with.
InHand(c) ==
    /\ c.name \in {"aread", "read"} /\ c.at # "done" => c.cells = <<>>
    /\ c.name = "aread_all" /\ c.at \in {"ready", "queued"} => c.cells = <<>>
    /\ c.name = "aread_all" /\ c.at = "raised" => c.cells = <<>> \/ stack.r = "socket"

ReadInv == Streams(seen, io) /\ Shares(seen, co) /\ \A t \in Coroutines : InHand(co[t])

LEMMA InHandNext ==
    ASSUME stack' = stack, \A t \in Coroutines : InHand(co'[t])
    PROVE  \A t \in Coroutines : InHand(co[t])'
    BY DEF InHand

\* A step of t that takes nothing to read.
LEMMA InHandKept ==
    ASSUME ReadInv, stack' = stack, NEW t \in Coroutines,
           co'[t].name = co[t].name, co'[t].cells = co[t].cells,
           co[t].at = "running" => stack.r = "socket" /\ co'[t].at = "raised",
           co[t].at \in Live, co'[t].at \in {"queued", "running", "raised"},
           \A u \in Coroutines : u # t => co'[u] = co[u]
    PROVE  \A u \in Coroutines : InHand(co'[u])
<1>1. \A u \in Coroutines : InHand(co[u])
    BY DEF ReadInv
<1>2. InHand(co'[t])
    BY <1>1 DEF InHand, Live
<1> QED
    BY <1>1, <1>2

LEMMA InOtherHands ==
    ASSUME ReadInv, NEW t \in Coroutines, co'[t].name \notin {"aread", "aread_all", "read"},
           \A u \in Coroutines : u # t => co'[u] = co[u]
    PROVE  \A u \in Coroutines : InHand(co'[u])
<1>1. \A u \in Coroutines : InHand(co[u])
    BY DEF ReadInv
<1>2. InHand(co'[t])
    BY DEF InHand
<1> QED
    BY <1>1, <1>2

\* A step that leaves the reader alone.
LEMMA NothingRead ==
    ASSUME ReadInv, stack' = stack, io'.left = io.left, io'.src = io.src, io'.ahead = io.ahead,
           seen'.taken = seen.taken, seen'.around.r = seen.around.r,
           \A t \in Coroutines : HeldBy(co'[t]) = HeldBy(co[t]),
           \A t \in Coroutines : InHand(co'[t])
    PROVE  ReadInv'
<1>1. Stream(seen', io') = Stream(seen, io)
    BY DEF Stream
<1>2. Streams(seen', io')
    BY <1>1 DEF ReadInv, Streams
<1>3. Shares(seen', co')
    BY DEF ReadInv, Shares
<1> QED
    BY <1>2, <1>3, InHandNext DEF ReadInv

\* What a coroutine takes is nobody else's.
TakesMore(f, e, t, p) ==
    /\ HeldBy(e[t]) = HeldBy(f[t]) \cup Elements(p)
    /\ \A u \in Coroutines : u # t => HeldBy(e[u]) = HeldBy(f[u])

LEMMA CoroutineTakes ==
    ASSUME NEW h, NEW g, NEW f, NEW e, NEW p \in Seq(Cells), h.taken \in Seq(Cells),
           Shares(h, f), Elements(p) \cap Elements(h.taken) = {},
           g.taken = h.taken \o p, NEW t \in Coroutines,
           TakesMore(f, e, t, p)
    PROVE  Shares(g, e)
<1>0. /\ HeldBy(e[t]) = HeldBy(f[t]) \cup Elements(p)
      /\ \A u \in Coroutines : u # t => HeldBy(e[u]) = HeldBy(f[u])
    BY DEF TakesMore
<1>1. Elements(g.taken) = Elements(h.taken) \cup Elements(p)
    BY ElementsConcat
<1>2. \A u \in Coroutines : HeldBy(f[u]) \subseteq Elements(h.taken)
    BY DEF Shares
<1>5. \A u, v \in Coroutines : u # v => HeldBy(e[u]) \cap HeldBy(e[v]) = {}
    <2>1. ASSUME NEW u \in Coroutines, NEW v \in Coroutines, u # v
          PROVE  HeldBy(e[u]) \cap HeldBy(e[v]) = {}
        <3>1. HeldBy(f[u]) \cap HeldBy(f[v]) = {}
            BY <2>1 DEF Shares
        <3>2. CASE u # t /\ v # t
            BY <1>0, <3>1, <3>2
        <3>3. CASE u = t
            <4>1. v # t
                BY <2>1, <3>3
            <4> QED
                BY <1>0, <1>2, <3>1, <3>3, <4>1
        <3>4. CASE v = t
            <4>1. u # t
                BY <2>1, <3>4
            <4> QED
                BY <1>0, <1>2, <3>1, <3>4, <4>1
        <3> QED
            BY <3>2, <3>3, <3>4
    <2> QED
        BY <2>1
<1>6. \A u \in Coroutines : HeldBy(e[u]) \subseteq Elements(g.taken)
    BY <1>0, <1>1, <1>2
<1>8. \A c \in Elements(g.taken) : \E u \in Coroutines : c \in HeldBy(e[u])
    <2> SUFFICES ASSUME NEW c \in Elements(g.taken)
                 PROVE  \E u \in Coroutines : c \in HeldBy(e[u])
        OBVIOUS
    <2>1. CASE c \in Elements(p)
        BY <1>0, <2>1
    <2>2. CASE c \in Elements(h.taken)
        <3>1. PICK u \in Coroutines : c \in HeldBy(f[u])
            BY <2>2 DEF Shares
        <3>2. c \in HeldBy(e[u])
            BY <1>0, <3>1
        <3> QED
            BY <3>2
    <2> QED
        BY <1>1, <2>1, <2>2
<1> QED
    BY <1>5, <1>6, <1>8 DEF Shares

\* What is taken from what was read ahead, or from what can be read when nothing was.
LEMMA Regrouped ==
    ASSUME NEW a \in Seq(Cells), NEW p \in Seq(Cells), NEW q \in Seq(Cells),
           NEW c \in Seq(Cells), NEW l \in Seq(Cells)
    PROVE  /\ InTurn(a \o p, q, c, l) = InTurn(a, p \o q, c, l)
           /\ InTurn(a \o p, q, <<>>, l) = InTurn(a, <<>>, p \o q, l)
           /\ InTurn(a \o p, <<>>, q, l) = InTurn(a, <<>>, p \o q, l)
<1>1. (a \o p) \o q = a \o (p \o q) /\ a \o p \in Seq(Cells)
    BY Associative, ConcatProperties
<1>2. (a \o p) \o q \in Seq(Cells)
    BY <1>1, ConcatProperties
<1>3. ((a \o p) \o q) \o <<>> = (a \o p) \o q
    BY <1>2, ConcatEmptySeq
<1>4. (a \o p) \o <<>> = a \o p /\ a \o <<>> = a
    BY <1>1, ConcatEmptySeq
<1> QED
    BY <1>1, <1>3, <1>4 DEF InTurn

LEMMA TakenInTurn ==
    ASSUME NEW a \in Seq(Cells), NEW b \in Seq(Cells), NEW c \in Seq(Cells), NEW l \in Seq(Cells),
           NEW k \in Nat
    PROVE  /\ InTurn(a \o Take(b, k), Drop(b, k), c, l) = InTurn(a, b, c, l)
           /\ InTurn(a \o Take(c, k), Drop(c, k), <<>>, l) = InTurn(a, <<>>, c, l)
           /\ InTurn(a \o Take(c, k), <<>>, Drop(c, k), l) = InTurn(a, <<>>, c, l)
<1>1. /\ Take(b, k) \in Seq(Cells) /\ Drop(b, k) \in Seq(Cells)
      /\ Take(c, k) \in Seq(Cells) /\ Drop(c, k) \in Seq(Cells)
    BY TakeAndDrop
<1>2. Take(b, k) \o Drop(b, k) = b /\ Take(c, k) \o Drop(c, k) = c
    BY TakeAndDrop
<1>3. InTurn(a \o Take(b, k), Drop(b, k), c, l) = InTurn(a, Take(b, k) \o Drop(b, k), c, l)
    BY <1>1, Regrouped
<1>4. /\ InTurn(a \o Take(c, k), Drop(c, k), <<>>, l) = InTurn(a, <<>>, Take(c, k) \o Drop(c, k), l)
      /\ InTurn(a \o Take(c, k), <<>>, Drop(c, k), l) = InTurn(a, <<>>, Take(c, k) \o Drop(c, k), l)
    BY <1>1, Regrouped
<1> QED
    BY <1>2, <1>3, <1>4

\* What is taken around what was read ahead.
LEMMA TakenAround ==
    ASSUME NEW a \in Seq(Cells), NEW b \in Seq(Cells), NEW c \in Seq(Cells), NEW l \in Seq(Cells),
           NEW k \in Nat, Distinct(InTurn(a, b, c, l))
    PROVE  /\ Distinct(InTurn(a \o Take(c, k), b, Drop(c, k), l))
           /\ Elements(InTurn(a \o Take(c, k), b, Drop(c, k), l)) = Elements(InTurn(a, b, c, l))
<1> DEFINE p == Take(c, k)
           q == Drop(c, k)
           g == a \o p
<1>1. /\ p \in Seq(Cells) /\ q \in Seq(Cells) /\ Elements(c) = Elements(p) \cup Elements(q)
      /\ Distinct(c) => Distinct(p) /\ Distinct(q) /\ Elements(p) \cap Elements(q) = {}
    BY TakeAndDrop, PartsOf
<1> HIDE DEF p, q
<1>2. /\ g \in Seq(Cells) /\ Elements(g) = Elements(a) \cup Elements(p)
      /\ Distinct(g) <=> Distinct(a) /\ Distinct(p) /\ Elements(a) \cap Elements(p) = {}
    BY <1>1, ElementsConcat, DistinctConcat
<1> HIDE DEF g
<1>3. /\ Elements(InTurn(a, b, c, l)) = Elements(a) \cup Elements(b) \cup Elements(c) \cup Elements(l)
      /\ Distinct(a) /\ Distinct(b) /\ Distinct(c) /\ Distinct(l)
      /\ Elements(a) \cap Elements(b) = {} /\ Elements(a) \cap Elements(c) = {}
      /\ Elements(a) \cap Elements(l) = {} /\ Elements(b) \cap Elements(c) = {}
      /\ Elements(b) \cap Elements(l) = {} /\ Elements(c) \cap Elements(l) = {}
    BY FourParts
<1>4. /\ Elements(InTurn(g, b, q, l)) = Elements(g) \cup Elements(b) \cup Elements(q) \cup Elements(l)
      /\ /\ Distinct(g) /\ Distinct(b) /\ Distinct(q) /\ Distinct(l)
         /\ Elements(g) \cap Elements(b) = {} /\ Elements(g) \cap Elements(q) = {}
         /\ Elements(g) \cap Elements(l) = {} /\ Elements(b) \cap Elements(q) = {}
         /\ Elements(b) \cap Elements(l) = {} /\ Elements(q) \cap Elements(l) = {}
         => Distinct(InTurn(g, b, q, l))
    <2>1. g \in Seq(Cells) /\ q \in Seq(Cells)
        BY <1>1, <1>2
    <2> QED
        BY <2>1, FourParts
<1>5. Distinct(p) /\ Distinct(q) /\ Elements(p) \cap Elements(q) = {}
    BY <1>1, <1>3
<1>6. Distinct(g)
    BY <1>1, <1>2, <1>3, <1>5
<1>7. /\ Elements(g) \cap Elements(b) = {} /\ Elements(g) \cap Elements(q) = {}
      /\ Elements(g) \cap Elements(l) = {} /\ Elements(b) \cap Elements(q) = {}
      /\ Elements(q) \cap Elements(l) = {}
    BY <1>1, <1>2, <1>3, <1>5
<1>8. Distinct(InTurn(g, b, q, l))
    BY <1>3, <1>4, <1>5, <1>6, <1>7
<1>9. Elements(InTurn(g, b, q, l)) = Elements(InTurn(a, b, c, l))
    BY <1>1, <1>2, <1>3, <1>4
<1> QED
    BY <1>8, <1>9 DEF g, p, q

\* What the peer sends.
LEMMA SentInTurn ==
    ASSUME NEW a \in Seq(Cells), NEW b \in Seq(Cells), NEW c \in Seq(Cells),
           NEW z \in Seq(Cells), NEW u \in Seq(Cells)
    PROVE  InTurn(a, b, c \o z, u) = InTurn(a, b, c, z \o u)
<1>1. PICK e \in Seq(Cells) : e = a \o b
    BY ConcatProperties
<1>2. (e \o c) \o z = e \o (c \o z) /\ e \o c \in Seq(Cells)
    BY Associative, ConcatProperties
<1>3. ((e \o c) \o z) \o u = (e \o c) \o (z \o u)
    BY <1>2, Associative
<1> QED
    BY <1>1, <1>2, <1>3 DEF InTurn

LEMMA SentOn ==
    ASSUME NEW a \in Seq(Cells), NEW b \in Seq(Cells), NEW c \in Seq(Cells), NEW l \in Seq(Cells),
           l # <<>>
    PROVE  /\ InTurn(a, b, Append(c, Head(l)), Tail(l)) = InTurn(a, b, c, l)
           /\ Append(c, Head(l)) \in Seq(Cells) /\ Tail(l) \in Seq(Cells)
<1> DEFINE z == <<Head(l)>>
           u == Tail(l)
<1>1. Head(l) \in Cells /\ u \in Seq(Cells) /\ l = z \o u
    BY HeadAndTail
<1>2. z \in Seq(Cells) /\ Append(c, Head(l)) = c \o z /\ Append(c, Head(l)) \in Seq(Cells)
    BY <1>1, AppendIsConcat
<1> HIDE DEF z, u
<1>3. z \in Seq(Cells) /\ u \in Seq(Cells)
    BY <1>1, <1>2
<1>4. InTurn(a, b, c \o z, u) = InTurn(a, b, c, z \o u)
    BY <1>3, SentInTurn
<1> QED
    BY <1>1, <1>2, <1>4 DEF u

\* What can still be read has not been taken.
LEMMA NotYetTaken ==
    ASSUME TypeInv, ReadInv, NEW k \in Nat
    PROVE  /\ Elements(Take(io.ahead, k)) \cap Elements(seen.taken) = {}
           /\ Elements(Take(io.src, k)) \cap Elements(seen.taken) = {}
           /\ Distinct(Take(io.src, k))
           /\ Elements(seen.taken) \subseteq Elements(Sent)
           /\ Elements(Take(io.src, k)) \subseteq Elements(Sent)
<1>1. /\ io.ahead \in Seq(Cells) /\ io.src \in Seq(Cells) /\ io.left \in Seq(Cells)
      /\ seen.taken \in Seq(Cells)
    BY LayerFields, SeenFields DEF TypeInv
<1>2. Distinct(InTurn(seen.taken, io.ahead, io.src, io.left))
    BY DEF ReadInv, Streams, Stream
<1>3. /\ Elements(seen.taken) \cap Elements(io.ahead) = {}
      /\ Elements(seen.taken) \cap Elements(io.src) = {} /\ Distinct(io.src)
    BY <1>1, <1>2, FourParts
<1>4. /\ Elements(Take(io.ahead, k)) \subseteq Elements(io.ahead)
      /\ Elements(Take(io.src, k)) \subseteq Elements(io.src)
      /\ Distinct(Take(io.src, k))
    BY <1>1, <1>3, PartsOf
<1>5. Elements(InTurn(seen.taken, io.ahead, io.src, io.left)) = Elements(Sent)
    BY DEF ReadInv, Streams, Stream
<1>6. Elements(seen.taken) \subseteq Elements(Sent) /\ Elements(io.src) \subseteq Elements(Sent)
    <2>1. /\ Elements(seen.taken) \subseteq Elements(InTurn(seen.taken, io.ahead, io.src, io.left))
          /\ Elements(io.src) \subseteq Elements(InTurn(seen.taken, io.ahead, io.src, io.left))
        BY <1>1, PartOfTurn
    <2> QED
        BY <1>5, <2>1
<1> QED
    BY <1>3, <1>4, <1>6

LEMMA ReadAhead ==
    ASSUME TypeInv, ReadInv, NEW t \in Coroutines, DoRead(t)
    PROVE  ReadInv'
<1>1. /\ io.ahead \in Seq(Cells) /\ io.src \in Seq(Cells) /\ io.left \in Seq(Cells)
      /\ seen.taken \in Seq(Cells)
    BY LayerFields, SeenFields DEF TypeInv
<1>2. /\ Streams(seen, io) /\ Shares(seen, co) /\ \A u \in Coroutines : InHand(co[u])
    BY DEF ReadInv
<1> DEFINE all   == IF io.ahead # <<>> THEN io.ahead ELSE io.src
           ahead == io.ahead # <<>> \/ (stack.buffered /\ stack.r # "memory")
           p     == Take(all, 1)
<1>3. /\ io' = IF ~ahead THEN [io EXCEPT !.src = Drop(@, 1)]
               ELSE [io EXCEPT !.ahead = Drop(all, 1),
                               !.src = IF io.ahead # <<>> THEN @ ELSE <<>>]
      /\ seen' = [seen EXCEPT !.taken = @ \o p]
      /\ co'[t].cells = p
    BY Reading
<1>11. /\ co[t].at = "running" /\ co[t].name = "read" /\ co'[t].name = "read" /\ co'[t].at = "done"
       /\ stack' = stack /\ \A u \in Coroutines : u # t => co'[u] = co[u]
    BY Reading
<1>4. /\ io \in Layer /\ seen \in SeenType
    BY DEF TypeInv
<1> HIDE DEF ahead, p
<1>5. /\ seen'.taken = seen.taken \o p
      /\ seen'.around = seen.around
    BY <1>3, <1>4 DEF SeenType
<1>6. /\ io'.left = io.left
      /\ ahead => io'.ahead = Drop(all, 1) /\ io'.src = IF io.ahead # <<>> THEN io.src ELSE <<>>
      /\ ~ahead => io'.ahead = io.ahead /\ io'.src = Drop(io.src, 1)
    BY <1>3, <1>4 DEF Layer
<1>7. p \in Seq(Cells) /\ Elements(p) \cap Elements(seen.taken) = {}
    BY <1>1, NotYetTaken, TakeAndDrop DEF p
<1>8. Shares(seen', co')
    <2>1. HeldBy(co[t]) = {}
        BY <1>2, <1>11, NothingIn DEF HeldBy, InHand
    <2>2. HeldBy(co'[t]) = HeldBy(co[t]) \cup Elements(p)
        BY <1>3, <1>11, <2>1 DEF HeldBy, Reads
    <2>3. TakesMore(co, co', t, p)
        BY <1>11, <2>2 DEF TakesMore
    <2> QED
        BY <1>1, <1>2, <1>5, <1>7, <2>3, CoroutineTakes
<1>9. Stream(seen', io') = Stream(seen, io)
    <2>1. CASE io.ahead # <<>>
        <3>1. ahead /\ all = io.ahead
            BY <2>1 DEF ahead
        <3>2. io'.ahead = Drop(io.ahead, 1) /\ io'.src = io.src /\ seen'.taken = seen.taken \o Take(io.ahead, 1)
            BY <1>5, <1>6, <2>1, <3>1 DEF p
        <3>3. InTurn(seen.taken \o Take(io.ahead, 1), Drop(io.ahead, 1), io.src, io.left)
                  = InTurn(seen.taken, io.ahead, io.src, io.left)
            BY <1>1, TakenInTurn
        <3> QED
            BY <1>6, <3>2, <3>3 DEF Stream
    <2>2. CASE io.ahead = <<>>
        <3>1. all = io.src
            BY <2>2
        <3>2. seen'.taken = seen.taken \o Take(io.src, 1)
            BY <1>5, <3>1 DEF p
        <3>3. /\ InTurn(seen.taken \o Take(io.src, 1), Drop(io.src, 1), <<>>, io.left)
                     = InTurn(seen.taken, <<>>, io.src, io.left)
              /\ InTurn(seen.taken \o Take(io.src, 1), <<>>, Drop(io.src, 1), io.left)
                     = InTurn(seen.taken, <<>>, io.src, io.left)
            BY <1>1, TakenInTurn
        <3>4. CASE ahead
            <4>1. io'.ahead = Drop(io.src, 1) /\ io'.src = <<>>
                BY <1>6, <2>2, <3>1, <3>4
            <4> QED
                BY <1>6, <2>2, <3>2, <3>3, <4>1 DEF Stream
        <3>5. CASE ~ahead
            <4>1. io'.ahead = <<>> /\ io'.src = Drop(io.src, 1)
                BY <1>6, <2>2, <3>5
            <4> QED
                BY <1>6, <2>2, <3>2, <3>3, <4>1 DEF Stream
        <3> QED
            BY <3>4, <3>5
    <2> QED
        BY <2>1, <2>2
<1>10. Streams(seen', io')
    BY <1>2, <1>5, <1>9 DEF Streams
<1>12. \A u \in Coroutines : InHand(co'[u])
    BY <1>2, <1>11 DEF InHand
<1> QED
    BY <1>8, <1>10, <1>11, <1>12, InHandNext DEF ReadInv

LEMMA ReadByCoroutine ==
    ASSUME TypeInv, ReadInv, NEW t \in Coroutines, DoTake(t)
    PROVE  ReadInv'
<1>1. /\ io.ahead \in Seq(Cells) /\ io.src \in Seq(Cells) /\ io.left \in Seq(Cells)
      /\ seen.taken \in Seq(Cells) /\ io \in Layer /\ seen \in SeenType
    BY LayerFields, SeenFields DEF TypeInv
<1>2. /\ Streams(seen, io) /\ Shares(seen, co) /\ \A u \in Coroutines : InHand(co[u])
    BY DEF ReadInv
<1>3. PICK k \in Nat :
          /\ io' = [io EXCEPT !.src = Drop(@, k)]
          /\ seen' = [seen EXCEPT !.taken = @ \o Take(io.src, k),
                                  !.around.r = @ \/ (Take(io.src, k) # <<>> /\ io.ahead # <<>>)]
          /\ co'[t].cells = co[t].cells \o Take(io.src, k)
    BY Taking
<1>4. /\ co'[t].name = co[t].name /\ co[t].name \in Reads \ {"read"} /\ stack' = stack
      /\ co'[t].at \in {"running", "ready", "done"} /\ (co[t].name = "aread" => co'[t].at = "done")
      /\ co[t].name = "aread_all" => co'[t].at # "ready"
      /\ \A u \in Coroutines : u # t => co'[u] = co[u]
    BY Taking
<1> DEFINE p == Take(io.src, k)
           v == seen.around.r \/ (Take(io.src, k) # <<>> /\ io.ahead # <<>>)
<1>5. p \in Seq(Cells) /\ Elements(p) \cap Elements(seen.taken) = {}
    BY <1>1, NotYetTaken, TakeAndDrop
<1>6. seen'.taken = seen.taken \o p /\ (seen'.around.r <=> v)
    <2> DEFINE e == [seen.around EXCEPT !.r = v]
    <2>1. seen' = [seen EXCEPT !.taken = seen.taken \o p, !.around = e]
        BY <1>3
    <2>2. e.r = v
        BY <1>1 DEF SeenType
    <2> HIDE DEF e, v, p
    <2>3. seen'.taken = seen.taken \o p /\ seen'.around = e
        BY <1>1, <2>1 DEF SeenType
    <2> QED
        BY <2>2, <2>3
<1>7. io'.src = Drop(io.src, k) /\ io'.ahead = io.ahead /\ io'.left = io.left
    BY <1>1, <1>3 DEF Layer
<1>8. Shares(seen', co')
    <2>1. co[t].cells \in Seq(Cells)
        BY CoFields DEF TypeInv
    <2> HIDE DEF p
    <2>2. co'[t].cells = co[t].cells \o p
        BY <1>3 DEF p
    <2>3. HeldBy(co'[t]) = HeldBy(co[t]) \cup Elements(p)
        <3>1. Elements(co[t].cells \o p) = Elements(co[t].cells) \cup Elements(p)
            BY <1>5, <2>1, ElementsConcat
        <3> QED
            BY <1>4, <2>2, <3>1 DEF HeldBy
    <2>4. \A u \in Coroutines : u # t => HeldBy(co'[u]) = HeldBy(co[u])
        BY <1>4
    <2>5. seen'.taken = seen.taken \o p
        BY <1>6
    <2>6. p \in Seq(Cells) /\ Elements(p) \cap Elements(seen.taken) = {} /\ seen.taken \in Seq(Cells)
        BY <1>1, <1>5
    <2>7. Shares(seen, co)
        BY <1>2
    <2> QED
        <3>1. TakesMore(co, co', t, p)
            BY <2>3, <2>4 DEF TakesMore
        <3> QED
            BY <2>5, <2>6, <2>7, <3>1, CoroutineTakes
<1>9. Streams(seen', io')
    <2>1. Stream(seen', io') = InTurn(seen.taken \o Take(io.src, k), io.ahead, Drop(io.src, k), io.left)
        BY <1>6, <1>7 DEF Stream
    <2>2. Distinct(Stream(seen', io')) /\ Elements(Stream(seen', io')) = Elements(Sent)
        <3>1. Distinct(InTurn(seen.taken, io.ahead, io.src, io.left))
              /\ Elements(InTurn(seen.taken, io.ahead, io.src, io.left)) = Elements(Sent)
            BY <1>2 DEF Streams, Stream
        <3> QED
            BY <1>1, <2>1, <3>1, TakenAround
    <2>3. ASSUME ~seen'.around.r PROVE Stream(seen', io') = Sent
        <3>1. ~seen.around.r /\ Stream(seen, io) = Sent
            BY <1>2, <1>6, <2>3 DEF Streams
        <3>2. CASE io.ahead = <<>>
            <4>1. InTurn(seen.taken \o Take(io.src, k), <<>>, Drop(io.src, k), io.left)
                      = InTurn(seen.taken, <<>>, io.src, io.left)
                BY <1>1, TakenInTurn
            <4> QED
                BY <2>1, <3>1, <3>2, <4>1 DEF Stream
        <3>3. CASE io.ahead # <<>>
            <4>1. Take(io.src, k) = <<>>
                BY <1>6, <2>3, <3>3
            <4>2. Drop(io.src, k) = io.src
                <5>1. Take(io.src, k) \o Drop(io.src, k) = io.src /\ Drop(io.src, k) \in Seq(Cells)
                    BY <1>1, TakeAndDrop
                <5> QED
                    BY <4>1, <5>1, ConcatEmptySeq
            <4>3. seen.taken \o <<>> = seen.taken
                BY <1>1, ConcatEmptySeq
            <4>4. seen.taken \o Take(io.src, k) = seen.taken /\ Drop(io.src, k) = io.src
                BY <4>1, <4>2, <4>3
            <4> QED
                BY <2>1, <3>1, <4>4 DEF Stream
        <3> QED
            BY <3>2, <3>3
    <2> QED
        BY <2>2, <2>3 DEF Streams
<1>10. \A u \in Coroutines : InHand(co'[u])
    BY <1>2, <1>4 DEF InHand, Reads
<1> QED
    BY <1>4, <1>8, <1>9, <1>10, InHandNext DEF ReadInv

LEMMA ReadFromPeer ==
    ASSUME TypeInv, ReadInv, PeerSends
    PROVE  ReadInv'
<1>1. /\ io.ahead \in Seq(Cells) /\ io.src \in Seq(Cells) /\ io.left \in Seq(Cells)
      /\ seen.taken \in Seq(Cells) /\ io \in Layer
    BY LayerFields, SeenFields DEF TypeInv
<1>2. io.left # <<>> /\ io' = [io EXCEPT !.left = Tail(@), !.src = Append(@, Head(io.left))]
      /\ co' = co /\ seen' = seen /\ stack' = stack
    BY DEF PeerSends
<1>3. io'.left = Tail(io.left) /\ io'.src = Append(io.src, Head(io.left)) /\ io'.ahead = io.ahead
    BY <1>1, <1>2 DEF Layer
<1>4. InTurn(seen.taken, io.ahead, Append(io.src, Head(io.left)), Tail(io.left))
          = InTurn(seen.taken, io.ahead, io.src, io.left)
    BY <1>1, <1>2, SentOn
<1>5. Stream(seen', io') = Stream(seen, io)
    BY <1>2, <1>3, <1>4 DEF Stream
<1> QED
    BY <1>2, <1>5, InHandNext DEF ReadInv, Streams

\* A coroutine starts; or it is dispatched, or fails, which changes nothing else.
LEMMA Starting ==
    ASSUME TypeInv, NEW t \in Coroutines, NEW name \in Names, Start(t, name)
    PROVE  /\ UNCHANGED <<stack, io, seen>> /\ t = count + 1 /\ count' = t /\ count \in 0 .. MaxCalls
           /\ count < MaxCalls
           /\ co[t] = NotStarted
           /\ co'[t].name = name /\ co'[t].n = 0 /\ co'[t].at \in {"queued", "running", "raised"}
           /\ co'[t].cells = IF name \in Writes THEN Fresh ELSE <<>>
           /\ co'[t].jobs = Jobs(name, co'[t].cells)
           /\ \A u \in Coroutines : u # t => co'[u] = co[u]
<1> DEFINE cells == IF name \in Writes THEN Fresh ELSE <<>>
           b == Called(name, cells)
           c == IF name = "asplice" /\ SpliceRefused THEN b ELSE Dispatched(b)
<1>1. /\ t = count + 1 /\ co' = [co EXCEPT ![t] = c]
      /\ UNCHANGED <<stack, io, seen>> /\ count' = t
    BY DEF Start
<1>2. count \in 0 .. MaxCalls /\ co \in [Coroutines -> CoType] /\ InStep(t)
    BY DEF TypeInv
<1>3. count < MaxCalls /\ ~(t <= count)
    BY <1>1, <1>2, SizeAssumption DEF Coroutines
<1>4. co[t] = NotStarted
    BY <1>2, <1>3 DEF InStep, Sizes
<1> HIDE DEF cells
<1>5. PICK a \in {"queued", "running", "raised"} : c = [b EXCEPT !.at = a]
    <2>1. b = [b EXCEPT !.at = "raised"]
        BY DEF Called
    <2>2. \E a \in {"queued", "running", "raised"} : Dispatched(b) = [b EXCEPT !.at = a]
        BY DEF Dispatched, Begun
    <2> QED
        BY <2>1, <2>2
<1> HIDE DEF c
<1>6. /\ c.name = name /\ c.cells = cells /\ c.n = 0 /\ c.jobs = Jobs(name, cells) /\ c.at = a
    BY <1>5 DEF Called
<1>7. co'[t] = c /\ \A u \in Coroutines : u # t => co'[u] = co[u]
    BY <1>1, <1>2
<1> QED
    BY <1>1, <1>2, <1>3, <1>4, <1>6, <1>7 DEF cells

LEMMA Moving ==
    ASSUME TypeInv, NEW t \in Coroutines, Dispatch(t) \/ Grab(t) \/ TakeFails(t)
    PROVE  /\ UNCHANGED <<stack, io, count, seen>>
           /\ co[t].at \in Live /\ co'[t].at \in {"queued", "running", "raised"}
           /\ co[t].at = "running" => stack.r = "socket" /\ co'[t].at = "raised"
           /\ co'[t].name = co[t].name /\ co'[t].cells = co[t].cells /\ co'[t].n = co[t].n
           /\ co'[t].jobs = co[t].jobs
           /\ \A u \in Coroutines : u # t => co'[u] = co[u]
<1>1. UNCHANGED <<stack, io, count, seen>>
    BY DEF Dispatch, Grab, TakeFails
<1>2. co \in [Coroutines -> CoType] /\ co[t] \in CoType /\ InStep(t) /\ queue \in Seq(Coroutines)
    BY DEF TypeInv
<1>3. \E a \in {"queued", "running", "raised"} : Dispatched(co[t]) = [co[t] EXCEPT !.at = a]
    BY DEF Dispatched, Begun
<1>4. \E a \in {"queued", "running", "raised"} : Begun(co[t]) = [co[t] EXCEPT !.at = a]
    BY DEF Begun
<1>5. PICK a \in {"queued", "running", "raised"} :
          co' = [co EXCEPT ![t] = [co[t] EXCEPT !.at = a]] /\ (TakeFails(t) => a = "raised")
    <2>1. CASE Dispatch(t) /\ ~TakeFails(t)
        BY <1>3, <2>1 DEF Dispatch
    <2>2. CASE Grab(t) /\ ~TakeFails(t)
        BY <1>4, <2>2 DEF Grab
    <2>3. CASE TakeFails(t)
        <3>1. co' = [co EXCEPT ![t] = [co[t] EXCEPT !.at = "raised"]]
            BY <2>3 DEF TakeFails
        <3> QED
            BY <3>1
    <2> QED
        BY <2>1, <2>2, <2>3
<1>6. co[t].at \in Live /\ (co[t].at = "running" => TakeFails(t) /\ stack.r = "socket")
    <2>1. CASE Grab(t)
        <3>1. queue # <<>> /\ t = Head(queue)
            BY <2>1 DEF Grab
        <3>2. t \in Elements(queue)
            <4>1. Elements(queue) = {Head(queue)} \cup Elements(Tail(queue))
                BY <1>2, <3>1, HeadAndTail
            <4> QED
                BY <3>1, <4>1
        <3> QED
            BY <1>2, <3>2 DEF InStep, Live
    <2>2. CASE Dispatch(t)
        BY <2>2 DEF Dispatch, Live
    <2>3. CASE TakeFails(t)
        BY <2>3 DEF TakeFails, Running, Live
    <2> QED
        BY <2>1, <2>2, <2>3
<1>7. /\ co'[t].at = a /\ co'[t].name = co[t].name /\ co'[t].cells = co[t].cells
      /\ co'[t].n = co[t].n /\ co'[t].jobs = co[t].jobs
      /\ \A u \in Coroutines : u # t => co'[u] = co[u]
    BY <1>2, <1>5 DEF CoType
<1> QED
    BY <1>1, <1>5, <1>6, <1>7

\* What becomes of one that writes.
LEMMA WritesAs ==
    ASSUME TypeInv, NEW t \in Coroutines, DoWrite(t)
    PROVE  co[t].name \in {"awrite", "awrite_batch", "asplice", "write"} \cup Prints
<1>1. /\ co[t] \in CoType /\ Shape(co[t]) /\ Sizes(co[t]) /\ Job(t) = Head(co[t].jobs)
      /\ Job(t).do \in {"put", "write"}
    BY WritesIn DEF TypeInv, InStep, Running, Live, Job
<1> QED
    BY <1>1, WritingJob

LEMMA ReadNext == TypeInv /\ ReadInv /\ [Next]_vars => ReadInv'
<1> SUFFICES ASSUME TypeInv, ReadInv, [Next]_vars PROVE ReadInv'
    OBVIOUS
<1>0. io \in Layer /\ Tidy(io) /\ seen \in SeenType
    BY DEF TypeInv
<1>1. CASE PeerSends
    BY <1>1, ReadFromPeer
<1>2. CASE PeerCloses \/ PeerReceives
    <2>1. io'.left = io.left /\ io'.src = io.src /\ io'.ahead = io.ahead
          /\ seen' = seen /\ co' = co /\ stack' = stack
        BY <1>0, <1>2 DEF PeerCloses, PeerReceives, Layer
    <2> QED
        BY <2>1, NothingRead DEF ReadInv
<1>3. ASSUME NEW t \in Coroutines, NEW name \in Names, Start(t, name)
      PROVE  ReadInv'
    <2>1. /\ io' = io /\ seen' = seen /\ stack' = stack /\ \A u \in Coroutines : u # t => co'[u] = co[u]
          /\ co[t] = NotStarted
          /\ co'[t].name = name /\ co'[t].cells = IF name \in Writes THEN Fresh ELSE <<>>
        BY <1>3, Starting
    <2>2. HeldBy(co'[t]) = {} /\ HeldBy(co[t]) = {}
        BY <2>1, NothingIn DEF HeldBy, Reads, Writes, Prints, NotStarted
    <2>3. InHand(co'[t])
        BY <2>1 DEF InHand, Writes, Prints
    <2> QED
        BY <2>1, <2>2, <2>3, NothingRead DEF ReadInv
<1>4. ASSUME NEW t \in Coroutines, Descends(io, io'), seen'.taken = seen.taken, stack' = stack,
             seen'.around.r = seen.around.r, co'[t].name = co[t].name, co'[t].cells = co[t].cells,
             \A u \in Coroutines : u # t => co'[u] = co[u],
             \A u \in Coroutines : InHand(co'[u])
      PROVE  ReadInv'
    <2>1. \A u \in Coroutines : HeldBy(co'[u]) = HeldBy(co[u])
        BY <1>4 DEF HeldBy
    <2> QED
        BY <1>4, <2>1, NothingRead DEF Descends, SameReader
<1>5. ASSUME NEW t \in Coroutines, Dispatch(t) \/ Grab(t) \/ TakeFails(t)
      PROVE  ReadInv'
    <2>1. /\ io' = io /\ seen' = seen /\ stack' = stack /\ \A u \in Coroutines : u # t => co'[u] = co[u]
          /\ co'[t].name = co[t].name /\ co'[t].cells = co[t].cells
          /\ \A u \in Coroutines : InHand(co'[u])
        BY <1>5, Moving, InHandKept
    <2> QED
        BY <1>0, <1>4, <2>1, Descending
<1>6. ASSUME NEW t \in Coroutines, DoWrite(t)
      PROVE  ReadInv'
    <2>0. PICK x \in Written(Job(t)), c \in CoType : WroteBy(t, Job(t), x, c)
        BY <1>6, Writing
    <2>1. /\ io' = x.io /\ co' = [co EXCEPT ![t] = c] /\ stack' = stack
          /\ seen'.taken = seen.taken
          /\ seen'.around.r = seen.around.r /\ c.name = co[t].name /\ c.cells = co[t].cells
        BY <1>6, <2>0 DEF WroteBy, DoWrite
    <2>2. Descends(io, io')
        BY <1>6, <2>1, WrittenDescends, WritesIn
    <2>3. co'[t] = c /\ \A u \in Coroutines : u # t => co'[u] = co[u]
        BY <2>1, OneGoesOn DEF TypeInv
    <2>4. co'[t].name \notin {"aread", "aread_all", "read"}
        BY <1>6, <2>1, <2>3, WritesAs DEF Prints
    <2>5. \A u \in Coroutines : InHand(co'[u])
        BY <2>3, <2>4, InOtherHands
    <2> QED
        BY <1>4, <2>1, <2>2, <2>3, <2>5
<1>7. ASSUME NEW t \in Coroutines, DoFlush(t)
      PROVE  ReadInv'
    <2>1. /\ \A u \in Coroutines : u # t => co'[u] = co[u]
          /\ co'[t].name = co[t].name /\ co'[t].cells = co[t].cells /\ stack' = stack
          /\ co[t].name \in {"flush", "aflush"} \cup Prints
        BY <1>7, Flushing
    <2>2. PICK x \in flush(io) : io' = x.io /\ seen' = IF x.error = "none" THEN Promise(seen) ELSE seen
        BY <1>7, Flushing
    <2>3. Descends(io, x.io)
        BY <1>0, <2>2, FlushDescends
    <2>4. seen'.taken = seen.taken /\ seen'.around = seen.around
        BY <1>0, <2>2, Promising
    <2>5. \A u \in Coroutines : InHand(co'[u])
        BY <2>1, InOtherHands DEF Prints
    <2> QED
        BY <1>4, <2>1, <2>2, <2>3, <2>4, <2>5
<1>8. ASSUME NEW t \in Coroutines, DoClose(t) \/ DoCloseInner(t) \/ DoShut(t) \/ CloseOther(t)
      PROVE  ReadInv'
    <2>1. /\ \A u \in Coroutines : u # t => co'[u] = co[u]
          /\ co'[t].name = co[t].name /\ co'[t].cells = co[t].cells /\ stack' = stack
          /\ co[t].name \in {"close", "aclose", "close_other"} /\ Descends(io, io') /\ SameRecord
        BY <1>8, Closing
    <2>2. \A u \in Coroutines : InHand(co'[u])
        BY <2>1, InOtherHands
    <2> QED
        BY <1>4, <2>1, <2>2 DEF SameRecord
<1>9. CASE UNCHANGED vars
    BY <1>9, NothingRead DEF vars, ReadInv
<1> QED
    BY <1>1, <1>2, <1>3, <1>5, <1>6, <1>7, <1>8, <1>9, ReadByCoroutine, ReadAhead DEF Next, Step

LEMMA ReadInit == Init => ReadInv
<1> SUFFICES ASSUME Init PROVE ReadInv
    OBVIOUS
<1>1. /\ co = [t \in Coroutines |-> NotStarted] /\ seen.taken = <<>>
      /\ io.ahead = <<>> /\ io.left \o <<>> = io.left
      /\ \/ io.left = Sent /\ io.src = <<>>
         \/ io.left = <<>> /\ io.src = Sent
    <2>1. <<>> \o <<>> = <<>> /\ Sent \o <<>> = Sent
        BY SentCells, ConcatEmptySeq
    <2> QED
        BY <2>1 DEF Init, History, Layers
<1>2. Streams(seen, io)
    <2>1. <<>> \o <<>> = <<>> /\ Sent \o <<>> = Sent /\ <<>> \o Sent = Sent
        BY SentCells, ConcatEmptySeq
    <2>2. Stream(seen, io) = Sent
        BY <1>1, <2>1 DEF Stream, InTurn
    <2> QED
        BY <2>2, SentCells DEF Streams
<1>3. \A t \in Coroutines : HeldBy(co[t]) = {}
    BY <1>1 DEF HeldBy, NotStarted, Reads
<1>4. Shares(seen, co)
    BY <1>1, <1>3, NothingIn DEF Shares
<1>5. \A t \in Coroutines : InHand(co[t])
    BY <1>1 DEF InHand, NotStarted
<1> QED
    BY <1>2, <1>4, <1>5 DEF ReadInv

LEMMA ReadsHold == TypeInv /\ ReadInv => ReadsOnceInOrder
<1> SUFFICES ASSUME TypeInv, ReadInv PROVE ReadsOnceInOrder
    OBVIOUS
<1>1. \A t \in Coroutines : Took(t) = HeldBy(co[t])
    BY DEF Took, HeldBy
<1>2. Stream(seen, io) = seen.taken \o io.ahead \o io.src \o io.left
    BY DEF Stream, InTurn
<1>3. Elements(Stream(seen, io)) = Elements(Sent) /\ (~seen.around.r => Stream(seen, io) = Sent)
    BY DEF ReadInv, Streams
<1>4. UNION {Took(t) : t \in Coroutines} = Elements(seen.taken)
    <2>1. ASSUME NEW c \in Elements(seen.taken)
          PROVE  \E t \in Coroutines : c \in Took(t)
        BY <1>1 DEF ReadInv, Shares
    <2>2. \A t \in Coroutines : Took(t) \subseteq Elements(seen.taken)
        BY <1>1 DEF ReadInv, Shares
    <2> QED
        BY <2>1, <2>2
<1>5. \A t, u \in Coroutines : t # u => Took(t) \cap Took(u) = {}
    BY <1>1 DEF ReadInv, Shares
<1>6. ASSUME NEW t \in Coroutines, co[t].at = "raised", Took(t) # {}
      PROVE  co[t].name = "asplice" \/ (co[t].name = "aread_all" /\ stack.r = "socket")
    <2>1. co[t].name \in Reads /\ co[t].cells # <<>>
        BY <1>6, NothingIn DEF Took
    <2>2. InHand(co[t])
        BY DEF ReadInv
    <2> QED
        BY <1>6, <2>1, <2>2 DEF InHand, Reads
<1> QED
    BY <1>2, <1>3, <1>4, <1>5, <1>6 DEF ReadsOnceInOrder

\* ReadsOnceInOrder holds: every cell is taken by one read, once, or is still to be read, and
\* in order unless a read goes around what was read ahead; and a read that raises has taken
\* nothing, unless it is a splice, or one to the end of a socket.
THEOREM ReadOnce == Spec => []ReadsOnceInOrder
<1>1. Init => TypeInv /\ ReadInv
    BY TypesInit, ReadInit
<1>2. TypeInv /\ ReadInv /\ [Next]_vars => (TypeInv /\ ReadInv)'
    BY TypesNext, ReadNext
<1>3. TypeInv /\ ReadInv => ReadsOnceInOrder
    BY ReadsHold
<1> QED
    BY <1>1, <1>2, <1>3, PTL DEF Spec

----------------------------------------------------------------------------
(* What is written. *)

\* The cells of s are those of b, and neither repeats one.
SameCells(s, b) ==
    /\ Distinct(s) /\ Distinct(b) /\ Len(s) = Len(b) /\ Elements(s) = Elements(b)

LEMMA AddedToBoth ==
    ASSUME NEW s \in Seq(Cells), NEW b \in Seq(Cells), NEW a \in Seq(Cells), SameCells(s, b),
           Distinct(a), Elements(a) \cap Elements(s) = {}
    PROVE  SameCells(s \o a, b \o a)
<1>1. /\ Len(s \o a) = Len(s) + Len(a) /\ Elements(s \o a) = Elements(s) \cup Elements(a)
      /\ Distinct(s \o a) <=> Distinct(s) /\ Distinct(a) /\ Elements(s) \cap Elements(a) = {}
    BY ElementsConcat, DistinctConcat
<1>2. /\ Len(b \o a) = Len(b) + Len(a) /\ Elements(b \o a) = Elements(b) \cup Elements(a)
      /\ Distinct(b \o a) <=> Distinct(b) /\ Distinct(a) /\ Elements(b) \cap Elements(a) = {}
    BY ElementsConcat, DistinctConcat
<1>3. Distinct(s) /\ Distinct(b) /\ Len(s) = Len(b) /\ Elements(s) = Elements(b)
    BY DEF SameCells
<1>4. Elements(s) \cap Elements(a) = {} /\ Elements(b) \cap Elements(a) = {}
    BY <1>3
<1>5. Distinct(s \o a) /\ Distinct(b \o a)
    BY <1>1, <1>2, <1>3, <1>4
<1>6. Len(s \o a) = Len(b \o a)
    BY <1>1, <1>2, <1>3
<1>7. Elements(s \o a) = Elements(b \o a)
    BY <1>1, <1>2, <1>3
<1> QED
    BY <1>5, <1>6, <1>7 DEF SameCells

LEMMA AddedBetween ==
    ASSUME NEW s \in Seq(Cells), NEW u \in Seq(Cells), NEW o \in Seq(Cells), NEW a \in Seq(Cells),
           SameCells(s, u \o o), Distinct(a), Elements(a) \cap Elements(s) = {}
    PROVE  SameCells(s \o a, (u \o a) \o o)
<1>1. /\ u \o o \in Seq(Cells) /\ u \o a \in Seq(Cells) /\ Elements(u \o a) = Elements(u) \cup Elements(a)
      /\ Distinct(u \o a) <=> Distinct(u) /\ Distinct(a) /\ Elements(u) \cap Elements(a) = {}
      /\ Len(u \o a) = Len(u) + Len(a)
    BY ElementsConcat, DistinctConcat
<1>2. PICK v \in Seq(Cells) : v = u \o a
    BY <1>1
<1>3. /\ Elements(v \o o) = Elements(v) \cup Elements(o) /\ Len(v \o o) = Len(v) + Len(o)
      /\ Distinct(v \o o) <=> Distinct(v) /\ Distinct(o) /\ Elements(v) \cap Elements(o) = {}
    BY ElementsConcat, DistinctConcat
<1>4. PICK b \in Seq(Cells) : b = u \o o
    BY <1>1
<1>5. /\ Elements(b) = Elements(u) \cup Elements(o) /\ Len(b) = Len(u) + Len(o)
      /\ Distinct(b) <=> Distinct(u) /\ Distinct(o) /\ Elements(u) \cap Elements(o) = {}
    <2>1. /\ Elements(u \o o) = Elements(u) \cup Elements(o) /\ Len(u \o o) = Len(u) + Len(o)
          /\ Distinct(u \o o) <=> Distinct(u) /\ Distinct(o) /\ Elements(u) \cap Elements(o) = {}
        BY ElementsConcat, DistinctConcat
    <2> QED
        BY <1>4, <2>1
<1>6. /\ Len(s \o a) = Len(s) + Len(a) /\ Elements(s \o a) = Elements(s) \cup Elements(a)
      /\ Distinct(s \o a) <=> Distinct(s) /\ Distinct(a) /\ Elements(s) \cap Elements(a) = {}
    BY ElementsConcat, DistinctConcat
<1>7. Distinct(s) /\ Distinct(b) /\ Len(s) = Len(b) /\ Elements(s) = Elements(b)
    BY <1>4 DEF SameCells
<1>8. /\ Elements(v) = Elements(u) \cup Elements(a) /\ Len(v) = Len(u) + Len(a)
      /\ Distinct(v) <=> Distinct(u) /\ Distinct(a) /\ Elements(u) \cap Elements(a) = {}
    BY <1>1, <1>2
<1>9. Elements(s) \cap Elements(a) = {} /\ Elements(u) \cap Elements(a) = {}
      /\ Elements(v) \cap Elements(o) = {}
    BY <1>5, <1>7, <1>8
<1>10. Distinct(s \o a) /\ Distinct(v \o o)
    <2>1. Distinct(v) /\ Distinct(o)
        BY <1>5, <1>7, <1>8, <1>9
    <2> QED
        BY <1>3, <1>6, <1>7, <1>9, <2>1
<1>11. Len(s \o a) = Len(v \o o)
    <2>1. Len(s) \in Nat /\ Len(u) \in Nat /\ Len(o) \in Nat /\ Len(a) \in Nat
        OBVIOUS
    <2>2. /\ Len(s \o a) = Len(s) + Len(a) /\ Len(v \o o) = Len(v) + Len(o)
          /\ Len(b) = Len(u) + Len(o) /\ Len(s) = Len(b) /\ Len(v) = Len(u) + Len(a)
        BY <1>3, <1>5, <1>6, <1>7, <1>8
    <2> QED
        BY <2>1, <2>2
<1>12. Elements(s \o a) = Elements(v \o o)
    BY <1>3, <1>5, <1>6, <1>7, <1>8
<1>13. SameCells(s \o a, v \o o)
    BY <1>10, <1>11, <1>12 DEF SameCells
<1> QED
    BY <1>2, <1>13

\* Cells of the writer only go down.
Lowers(d, e) ==
    /\ \E s \in Seq(Cells) : Sunk(e) = Sunk(d) \o s
    /\ Elements(d.sink) \subseteq Elements(e.sink)

SameWriter(d, e) == e.outer = d.outer /\ e.inner = d.inner /\ e.sink = d.sink

LEMMA WriterAlone ==
    ASSUME NEW d \in Layer, Tidy(d), NEW e, SameWriter(d, e)
    PROVE  Lowers(d, e) /\ Sunk(e) = Sunk(d) /\ Bottom(e) = Bottom(d)
<1>1. Sunk(e) = Sunk(d) /\ Bottom(e) = Bottom(d) /\ Elements(e.sink) = Elements(d.sink)
    BY DEF SameWriter, Sunk, Bottom
<1>2. \E s \in Seq(Cells) : Sunk(d) = Sunk(d) \o s
    BY Descending DEF Descends
<1> QED
    BY <1>1, <1>2 DEF Lowers

\* A step that accepts nothing.
Keeps ==
    /\ stack' = stack /\ Lowers(io, io') /\ Bottom(io') = Bottom(io)
    /\ seen'.accepted = seen.accepted
    /\ seen'.around.w <=> seen.around.w

Grows == Elements(seen.taken) \subseteq Elements(seen'.taken) /\ count <= count'

\* A step that leaves the layers of the writer alone.
LEMMA WriterKeeps ==
    ASSUME TypeInv, stack' = stack, SameWriter(io, io'), count <= count',
           seen'.accepted = seen.accepted, seen'.around.w <=> seen.around.w,
           Elements(seen.taken) \subseteq Elements(seen'.taken)
    PROVE  Keeps /\ Grows
<1>1. io \in Layer /\ Tidy(io)
    BY DEF TypeInv
<1>2. Lowers(io, io') /\ Bottom(io') = Bottom(io)
    BY <1>1, WriterAlone
<1> QED
    BY <1>2 DEF Keeps, Grows

LEMMA CoroutineKeeps ==
    ASSUME TypeInv, NEW t \in Coroutines,
           \/ \E name \in Names : Start(t, name)
           \/ Dispatch(t) \/ Grab(t) \/ TakeFails(t)
           \/ DoFlush(t) \/ DoClose(t) \/ DoCloseInner(t) \/ DoShut(t) \/ CloseOther(t)
           \/ DoTake(t) \/ DoRead(t)
    PROVE  Keeps /\ Grows
<1>1. io \in Layer /\ Tidy(io) /\ seen \in SeenType /\ count \in Nat /\ count <= count
    BY DEF TypeInv
<1>2. CASE UNCHANGED <<stack, io, seen>> /\ count <= count'
    BY <1>2, WriterKeeps DEF SameWriter
<1>3. CASE \E name \in Names : Start(t, name)
    <2>1. UNCHANGED <<stack, io, seen>> /\ count' = count + 1
        BY <1>3, Starting
    <2>2. count <= count'
        BY <1>1, <2>1
    <2> QED
        BY <1>2, <2>1, <2>2
<1>4. CASE Dispatch(t) \/ Grab(t) \/ TakeFails(t)
    <2>1. UNCHANGED <<stack, io, count, seen>>
        BY <1>4, Moving
    <2> QED
        BY <1>1, <1>2, <2>1
<1>5. CASE DoFlush(t)
    <2>1. PICK x \in flush(io) : /\ io' = x.io
                                 /\ seen' = IF x.error = "none" THEN Promise(seen) ELSE seen
        BY <1>5, Flushing
    <2>2. Descends(io, x.io) /\ Bottom(x.io) = Bottom(io)
        BY <1>1, FlushDescends
    <2>3. seen'.accepted = seen.accepted /\ seen'.taken = seen.taken /\ seen'.around = seen.around
        BY <1>1, <2>1, Promising
    <2>4. stack' = stack /\ count' = count
        BY <1>5, Flushing
    <2>5. Lowers(io, io') /\ Bottom(io') = Bottom(io)
        BY <2>1, <2>2 DEF Descends, Lowers
    <2> QED
        BY <1>1, <2>3, <2>4, <2>5 DEF Keeps, Grows
<1>6. CASE DoClose(t) \/ DoCloseInner(t) \/ DoShut(t) \/ CloseOther(t)
    <2>1. /\ Descends(io, io') /\ Bottom(io)' = Bottom(io) /\ SameRecord
          /\ stack' = stack /\ count' = count
        BY <1>6, Closing
    <2>2. Bottom(io)' = Bottom(io')
        BY DEF Bottom, Sunk
    <2>3. Lowers(io, io') /\ Bottom(io') = Bottom(io)
        BY <2>1, <2>2 DEF Descends, Lowers
    <2> QED
        BY <1>1, <2>1, <2>3 DEF Keeps, Grows, SameRecord
<1>7. CASE DoTake(t)
    <2>1. PICK k \in Nat :
              /\ io' = [io EXCEPT !.src = Drop(@, k)]
              /\ seen' = [seen EXCEPT !.taken = @ \o Take(io.src, k),
                              !.around.r = @ \/ (Take(io.src, k) # <<>> /\ io.ahead # <<>>)]
        BY <1>7, Taking
    <2>2. SameWriter(io, io')
        BY <1>1, <2>1 DEF Layer, SameWriter
    <2>3. /\ seen'.accepted = seen.accepted /\ seen'.around.w = seen.around.w
          /\ seen'.taken = seen.taken \o Take(io.src, k)
        BY <1>1, <2>1 DEF SeenType
    <2>4. Take(io.src, k) \in Seq(Cells) /\ seen.taken \in Seq(Cells)
        BY <1>1, LayerFields, SeenFields, TakeAndDrop
    <2>5. Elements(seen.taken) \subseteq Elements(seen'.taken)
        BY <2>3, <2>4, ElementsConcat
    <2>6. stack' = stack /\ count' = count
        BY <1>7, Taking
    <2> QED
        BY <1>1, <2>2, <2>3, <2>5, <2>6, WriterKeeps
<1>8. CASE DoRead(t)
    <2>1. stack' = stack /\ count' = count
        BY <1>8, Reading
    <2>2. SameWriter(io, io')
        BY <1>1, <1>8 DEF DoRead, Layer, SameWriter
    <2>3. PICK a \in Seq(Cells) : a = IF io.ahead # <<>> THEN io.ahead ELSE io.src
        BY <1>1, LayerFields
    <2>4. Take(a, 1) \in Seq(Cells) /\ seen.taken \in Seq(Cells)
        BY <1>1, SeenFields, TakeAndDrop
    <2>5. /\ seen'.accepted = seen.accepted /\ seen'.around = seen.around
          /\ seen'.taken = seen.taken \o Take(a, 1)
        BY <1>1, <1>8, <2>3 DEF DoRead, SeenType
    <2>6. Elements(seen.taken) \subseteq Elements(seen'.taken)
        BY <2>4, <2>5, ElementsConcat
    <2> QED
        BY <1>1, <2>1, <2>2, <2>5, <2>6, WriterKeeps
<1> QED
    BY <1>3, <1>4, <1>5, <1>6, <1>7, <1>8

\* Every step but a write.
Quiet ==
    \/ PeerSends \/ PeerCloses \/ PeerReceives \/ UNCHANGED vars
    \/ \E t \in Coroutines :
           \/ \E name \in Names : Start(t, name)
           \/ Dispatch(t) \/ Grab(t) \/ TakeFails(t)
           \/ DoFlush(t) \/ DoClose(t) \/ DoCloseInner(t) \/ DoShut(t) \/ CloseOther(t)
           \/ DoTake(t) \/ DoRead(t)

LEMMA QuietKeeps ==
    ASSUME TypeInv, Quiet
    PROVE  Keeps /\ Grows
<1>1. io \in Layer /\ seen \in SeenType /\ count \in Nat /\ count <= count
    BY DEF TypeInv
<1>2. CASE PeerSends \/ PeerCloses \/ PeerReceives \/ UNCHANGED vars
    <2>1. SameWriter(io, io')
        BY <1>1, <1>2 DEF PeerSends, PeerCloses, PeerReceives, Layer, SameWriter, vars
    <2>2. stack' = stack /\ count' = count /\ seen' = seen
        BY <1>2 DEF PeerSends, PeerCloses, PeerReceives, vars
    <2> QED
        BY <1>1, <2>1, <2>2, WriterKeeps
<1> QED
    BY <1>2, CoroutineKeeps DEF Quiet

LEMMA QuietOrWrites == [Next]_vars => Quiet \/ \E t \in Coroutines : DoWrite(t)
    BY DEF Next, Step, Quiet

\* The cells of the coroutines: those of two are different, and those that are to be written
\* were not written before.
Owns(f, n) == \A t \in Coroutines :
    /\ Distinct(f[t].cells)
    /\ f[t].name \in Writes => Elements(f[t].cells) \subseteq 1 .. 2 * n
    /\ f[t].name \notin Writes \cup Reads => f[t].cells = <<>>
    /\ \A u \in Coroutines :
           t # u /\ f[t].name \in Writes /\ f[u].name \in Writes =>
               Elements(f[t].cells) \cap Elements(f[u].cells) = {}

LEMMA OwnersStay ==
    ASSUME NEW f, NEW e, NEW n \in Nat, NEW m \in Nat, n <= m, Owns(f, n),
           \A t \in Coroutines : e[t].name = f[t].name /\ e[t].cells = f[t].cells
    PROVE  Owns(e, m)
<1>1. 1 .. 2 * n \subseteq 1 .. 2 * m
    OBVIOUS
<1> QED
    BY <1>1 DEF Owns

LEMMA OwnersStart ==
    ASSUME TypeInv, Owns(co, count), NEW t \in Coroutines, NEW name \in Names, Start(t, name)
    PROVE  Owns(co', count')
<1>1. /\ co'[t].name = name /\ co'[t].cells = IF name \in Writes THEN Fresh ELSE <<>>
      /\ \A u \in Coroutines : u # t => co'[u] = co[u]
      /\ count < MaxCalls /\ count' = count + 1
    BY Starting
<1>2. count \in 0 .. MaxCalls /\ count \in Nat
    BY DEF TypeInv
<1>3. 1 .. 2 * count \subseteq 1 .. 2 * (count + 1)
    BY <1>2
<1>4. /\ Distinct(Fresh) /\ Elements(Fresh) \subseteq 1 .. 2 * (count + 1)
      /\ Elements(Fresh) \cap 1 .. 2 * count = {}
    BY <1>1, <1>2, FreshCells
<1>5. ASSUME NEW u \in Coroutines, u # t
      PROVE  /\ Distinct(co'[u].cells)
             /\ co'[u].name \in Writes =>
                    /\ Elements(co'[u].cells) \subseteq 1 .. 2 * count'
                    /\ Elements(co'[u].cells) \cap Elements(Fresh) = {}
             /\ co'[u].name \notin Writes \cup Reads => co'[u].cells = <<>>
    <2>1. co'[u] = co[u]
        BY <1>1, <1>5
    <2>2. /\ Distinct(co[u].cells)
          /\ co[u].name \in Writes => Elements(co[u].cells) \subseteq 1 .. 2 * count
          /\ co[u].name \notin Writes \cup Reads => co[u].cells = <<>>
        BY DEF Owns
    <2>3. co[u].name \in Writes => Elements(co[u].cells) \subseteq 1 .. 2 * (count + 1)
        BY <1>3, <2>2
    <2>4. co[u].name \in Writes => Elements(co[u].cells) \cap Elements(Fresh) = {}
        BY <1>4, <2>2
    <2> QED
        BY <1>1, <2>1, <2>2, <2>3, <2>4
<1>6. ASSUME NEW u \in Coroutines, NEW v \in Coroutines, u # v, u # t, v # t,
             co'[u].name \in Writes, co'[v].name \in Writes
      PROVE  Elements(co'[u].cells) \cap Elements(co'[v].cells) = {}
    BY <1>1, <1>6 DEF Owns
<1>7. /\ Distinct(co'[t].cells)
      /\ co'[t].name \in Writes => co'[t].cells = Fresh /\ Elements(co'[t].cells) \subseteq 1 .. 2 * count'
      /\ co'[t].name \notin Writes => co'[t].cells = <<>>
    <2>1. Distinct(<<>>)
        BY NothingIn
    <2> QED
        BY <1>1, <1>4, <2>1
<1> QED
    BY <1>5, <1>6, <1>7 DEF Owns

LEMMA OwnersTake ==
    ASSUME TypeInv, ReadInv, Owns(co, count), NEW t \in Coroutines, DoTake(t)
    PROVE  Owns(co', count')
<1>1. /\ co'[t].name = co[t].name /\ co[t].name \in Reads /\ count' = count
      /\ \A u \in Coroutines : u # t => co'[u] = co[u]
      /\ \E k \in Nat : co'[t].cells = co[t].cells \o Take(io.src, k)
    BY Taking
<1>2. PICK k \in Nat : co'[t].cells = co[t].cells \o Take(io.src, k)
    BY <1>1
<1>3. /\ Elements(Take(io.src, k)) \cap Elements(seen.taken) = {} /\ Distinct(Take(io.src, k))
    BY NotYetTaken
<1>4. Elements(co[t].cells) \subseteq Elements(seen.taken) /\ Distinct(co[t].cells)
    BY <1>1 DEF ReadInv, Shares, HeldBy, Owns
<1>5. co[t].cells \in Seq(Cells) /\ Take(io.src, k) \in Seq(Cells)
    BY CoFields, LayerFields, TakeAndDrop DEF TypeInv
<1>6. Distinct(co'[t].cells)
    <2>1. Elements(co[t].cells) \cap Elements(Take(io.src, k)) = {}
        BY <1>3, <1>4
    <2>2. Distinct(co[t].cells \o Take(io.src, k))
        BY <1>3, <1>4, <1>5, <2>1, DistinctConcat
    <2> QED
        BY <1>2, <2>2
<1>7. co'[t].name \notin Writes /\ co'[t].name \in Reads
    BY <1>1 DEF Writes, Reads, Prints
<1> QED
    BY <1>1, <1>6, <1>7 DEF Owns

LEMMA OwnersRead ==
    ASSUME TypeInv, Owns(co, count), NEW t \in Coroutines, DoRead(t)
    PROVE  Owns(co', count')
<1>1. PICK a : a = IF io.ahead # <<>> THEN io.ahead ELSE io.src
    OBVIOUS
<1>2. /\ co'[t].name = "read" /\ count' = count /\ co'[t].cells = Take(a, 1)
      /\ \A u \in Coroutines : u # t => co'[u] = co[u]
    BY <1>1, Reading
<1>3. a \in Seq(Cells) /\ Take(a, 1) \in Seq(Cells)
    BY <1>1, LayerFields, TakeAndDrop DEF TypeInv
<1>4. Distinct(Take(a, 1))
    <2>1. DOMAIN Take(a, 1) \subseteq {1}
        BY <1>3 DEF Take
    <2> QED
        BY <2>1 DEF Distinct
<1>5. "read" \notin Writes /\ "read" \in Reads
    BY DEF Writes, Reads, Prints
<1> QED
    BY <1>2, <1>4, <1>5 DEF Owns

LEMMA OwnersNext ==
    ASSUME TypeInv, ReadInv, Owns(co, count), [Next]_vars
    PROVE  Owns(co', count')
<1>1. count \in Nat /\ count' \in Nat
    <2>1. TypeInv'
        BY TypesNext
    <2> QED
        BY <2>1 DEF TypeInv
<1>2. CASE /\ \A t \in Coroutines : co'[t].name = co[t].name /\ co'[t].cells = co[t].cells
           /\ count <= count'
    BY <1>1, <1>2, OwnersStay
<1>3. CASE \E t \in Coroutines : DoWrite(t)
    <2>1. PICK t \in Coroutines : DoWrite(t)
        BY <1>3
    <2>2. PICK x \in Written(Job(t)), c \in CoType : WroteBy(t, Job(t), x, c)
        BY <2>1, Writing
    <2>3. co' = [co EXCEPT ![t] = c] /\ c.name = co[t].name /\ c.cells = co[t].cells
        BY <2>2 DEF WroteBy
    <2>4. \A u \in Coroutines : co'[u].name = co[u].name /\ co'[u].cells = co[u].cells
        BY <2>3 DEF TypeInv
    <2>5. count <= count'
        BY <1>1, <2>1 DEF DoWrite
    <2> QED
        BY <1>2, <2>4, <2>5
<1>4. CASE Quiet
    <2>1. count <= count'
        BY <1>4, QuietKeeps DEF Grows
    <2>2. CASE PeerSends \/ PeerCloses \/ PeerReceives \/ UNCHANGED vars
        <3>1. co' = co
            BY <2>2 DEF PeerSends, PeerCloses, PeerReceives, vars
        <3> QED
            BY <1>2, <2>1, <3>1
    <2>3. ASSUME NEW t \in Coroutines,
                 \/ Dispatch(t) \/ Grab(t) \/ TakeFails(t) \/ DoFlush(t)
                 \/ DoClose(t) \/ DoCloseInner(t) \/ DoShut(t) \/ CloseOther(t)
          PROVE  Owns(co', count')
        <3>1. /\ co'[t].name = co[t].name /\ co'[t].cells = co[t].cells
              /\ \A u \in Coroutines : u # t => co'[u] = co[u]
            BY <2>3, Moving, Flushing, Closing
        <3> QED
            BY <1>2, <2>1, <3>1
    <2>4. ASSUME NEW t \in Coroutines, (\E name \in Names : Start(t, name)) \/ DoTake(t) \/ DoRead(t)
          PROVE  Owns(co', count')
        BY <2>4, OwnersStart, OwnersTake, OwnersRead
    <2> QED
        BY <1>4, <2>2, <2>3, <2>4 DEF Quiet
<1> QED
    BY <1>3, <1>4, QuietOrWrites

\* No two coroutines have a cell in common.
LEMMA CellsApart ==
    ASSUME TypeInv, ReadInv, Owns(co, count), NEW t \in Coroutines, NEW u \in Coroutines, t # u
    PROVE  Elements(co[t].cells) \cap Elements(co[u].cells) = {}
<1>1. 1 .. 2 * count \cap Elements(Sent) = {}
    <2>1. \A c \in Elements(Sent) : c < 0
        BY SentAssumption DEF Elements
    <2>2. \A c \in 1 .. 2 * count : ~(c < 0)
        BY DEF TypeInv
    <2> QED
        BY <2>1, <2>2
<1>2. Elements(seen.taken) \subseteq Elements(Sent)
    BY NotYetTaken
<1>3. ASSUME NEW v \in Coroutines
      PROVE  /\ co[v].name \in Writes => Elements(co[v].cells) \subseteq 1 .. 2 * count
             /\ co[v].name \in Reads => Elements(co[v].cells) \subseteq Elements(Sent)
             /\ co[v].name \notin Writes \cup Reads => Elements(co[v].cells) = {}
    <2>1. co[v].name \in Reads => Elements(co[v].cells) \subseteq Elements(seen.taken)
        BY DEF ReadInv, Shares, HeldBy
    <2>2. Elements(<<>>) = {}
        BY NothingIn
    <2> QED
        BY <1>2, <2>1, <2>2 DEF Owns
<1>4. CASE co[t].name \in Writes /\ co[u].name \in Writes
    BY <1>4 DEF Owns
<1>5. CASE co[t].name \in Reads /\ co[u].name \in Reads
    BY <1>5 DEF ReadInv, Shares, HeldBy
<1>6. CASE co[t].name \in Reads /\ co[u].name \in Writes
    BY <1>1, <1>3, <1>6
<1>7. CASE co[t].name \in Writes /\ co[u].name \in Reads
    BY <1>1, <1>3, <1>7
<1>8. CASE co[t].name \notin Writes \cup Reads \/ co[u].name \notin Writes \cup Reads
    BY <1>3, <1>8
<1> QED
    BY <1>4, <1>5, <1>6, <1>7, <1>8

\* The jobs of a method write its own cells.
LEMMA JobsWithin ==
    ASSUME NEW c \in CoType, Shape(c), NEW i \in DOMAIN c.jobs, c.jobs[i].do \in {"put", "write"}
    PROVE  Elements(c.jobs[i].cells) \subseteq Elements(c.cells)
<1>1. c.cells \in Seq(Cells) /\ c.jobs \in Seq(JobType)
    BY CoFields
<1>2. /\ Elements(Take(c.cells, 1)) \subseteq Elements(c.cells)
      /\ Elements(Drop(c.cells, 1)) \subseteq Elements(c.cells)
    <2>1. Elements(c.cells) = Elements(Take(c.cells, 1)) \cup Elements(Drop(c.cells, 1))
        BY <1>1, PartsOf
    <2> QED
        BY <2>1
<1>3. PICK j : j = c.jobs[i]
    OBVIOUS
<1>4. LastJob(c, j) \/ JobBefore(c, j)
    <2>1. i \in 1 .. Len(c.jobs) /\ Len(c.jobs) \in {1, 2}
        BY <1>1 DEF Shape
    <2>2. i = 1 \/ (Len(c.jobs) = 2 /\ i = 2)
        BY <2>1
    <2> QED
        BY <1>3, <2>2 DEF Shape
<1>5. j.cells \in {c.cells, Take(c.cells, 1), Drop(c.cells, 1)}
    <2>1. j.do \in {"put", "write"}
        BY <1>3
    <2>2. /\ \A p, f : \A do \in {"close_inner", "shut"} : j # Rest(do, p, f)
          /\ \A p : \A do \in {"flush", "close", "close_other", "read"} : j # Sync(do, p)
          /\ \A n : j # Recv(n)
        BY <2>1 DEF Rest, Sync, Recv
    <2> QED
        BY <1>4, <2>2 DEF LastJob, JobBefore, Put, SyncWrite
<1> QED
    BY <1>2, <1>3, <1>5

\* A coroutine's jobs write what was not written before; and a splice has written as much as
\* its result says.
Unwritten(c, A) ==
    /\ c.at \in Live => \A i \in DOMAIN c.jobs : c.jobs[i].do \in {"put", "write"} =>
           Elements(c.jobs[i].cells) \cap A = {}
    /\ c.name = "asplice" /\ c.at = "done" => Elements(c.cells) \cap A = Elements(Take(c.cells, c.n))

LEMMA NothingWritten ==
    ASSUME NEW c \in CoType, c.at \in Live => Shape(c), c.name = "asplice" => c.n = 0,
           NEW A, Elements(c.cells) \cap A = {}
    PROVE  Unwritten(c, A)
<1>1. c.cells \in Seq(Cells)
    BY CoFields
<1>2. Take(c.cells, 0) = <<>> /\ Elements(<<>>) = {}
    BY <1>1, PartsOf, NothingIn
<1>3. c.at \in Live => \A i \in DOMAIN c.jobs : c.jobs[i].do \in {"put", "write"} =>
           Elements(c.jobs[i].cells) \cap A = {}
    <2> SUFFICES ASSUME c.at \in Live, NEW i \in DOMAIN c.jobs, c.jobs[i].do \in {"put", "write"}
                 PROVE  Elements(c.jobs[i].cells) \cap A = {}
        OBVIOUS
    <2>1. Elements(c.jobs[i].cells) \subseteq Elements(c.cells)
        BY JobsWithin
    <2> QED
        BY <2>1
<1> QED
    BY <1>2, <1>3 DEF Unwritten

\* Others write.
LEMMA OthersWrite ==
    ASSUME NEW c \in CoType, c.at \in Live => Shape(c), NEW A, NEW E, Unwritten(c, A),
           Elements(c.cells) \cap E = {}
    PROVE  Unwritten(c, A \cup E)
<1>1. c.at \in Live => \A i \in DOMAIN c.jobs : c.jobs[i].do \in {"put", "write"} =>
           Elements(c.jobs[i].cells) \cap (A \cup E) = {}
    <2> SUFFICES ASSUME c.at \in Live, NEW i \in DOMAIN c.jobs, c.jobs[i].do \in {"put", "write"}
                 PROVE  Elements(c.jobs[i].cells) \cap (A \cup E) = {}
        OBVIOUS
    <2>1. Elements(c.jobs[i].cells) \subseteq Elements(c.cells)
        BY JobsWithin
    <2>2. Elements(c.jobs[i].cells) \cap A = {}
        BY DEF Unwritten
    <2> QED
        BY <2>1, <2>2
<1>2. Elements(c.cells) \cap (A \cup E) = Elements(c.cells) \cap A
    OBVIOUS
<1> QED
    BY <1>1, <1>2 DEF Unwritten

\* A coroutine writes.
LEMMA WritesOn ==
    ASSUME TypeInv, NEW t \in Coroutines, Running(t, {"put", "write"}), NEW j, j = Job(t),
           NEW x \in Written(j), NEW c \in CoType, WroteBy(t, j, x, c),
           NEW A, Unwritten(co[t], A), Distinct(co[t].cells)
    PROVE  Unwritten(c, A \cup Elements(Take(j.cells, x.n)))
<1> DEFINE b == co[t]
           a == Take(j.cells, x.n)
<1>1. /\ b \in CoType /\ b.at = "running" /\ b.at \in Live /\ Shape(b) /\ Sizes(b)
      /\ j = Head(b.jobs) /\ j.do \in {"put", "write"}
    BY DEF TypeInv, InStep, Live, Running, Job
<1>2. /\ j = b.jobs[1] /\ Len(b.jobs) \in {1, 2} /\ DOMAIN b.jobs = 1 .. Len(b.jobs)
      /\ Len(b.jobs) = 1 => LastJob(b, j)
      /\ Len(b.jobs) = 2 => JobBefore(b, j) /\ LastJob(b, b.jobs[2])
    <2>1. b.jobs \in Seq(JobType)
        BY <1>1, CoFields
    <2>2. DOMAIN b.jobs = 1 .. Len(b.jobs)
        BY <2>1
    <2> QED
        BY <1>1, <2>2, JobAtHead
<1>3. j.cells \in Seq(Cells) /\ x.n \in Nat /\ (x.error # "none" => x.n = 0)
    <2>1. j.cells \in Seq(Cells)
        BY <1>1, WritingJob
    <2> QED
        BY <2>1, WrittenDescends
<1>4. Elements(a) \subseteq Elements(j.cells)
    <2>1. Elements(j.cells) = Elements(a) \cup Elements(Drop(j.cells, x.n))
        BY <1>3, PartsOf
    <2> QED
        BY <2>1
<1>5. Elements(j.cells) \cap A = {}
    <2>1. 1 \in DOMAIN b.jobs
        BY <1>2
    <2> QED
        BY <1>1, <1>2, <2>1 DEF Unwritten
<1>6. c.name = b.name /\ c.cells = b.cells /\ c.cells \in Seq(Cells)
    <2>1. c.cells \in Seq(Cells)
        BY CoFields
    <2> QED
        BY <2>1 DEF WroteBy
<1>7. CASE x.error # "none"
    <2>1. Elements(a) = {}
        BY <1>3, <1>7, PartsOf, NothingIn
    <2>2. \/ c.at = "raised"
          \/ /\ c.at = "ready" /\ Len(c.jobs) = 2
             /\ c.jobs[1] = Put(b.cells, "str") /\ c.jobs[2] = b.jobs[2]
        BY <1>7 DEF WroteBy
    <2>3. CASE c.at = "raised"
        BY <2>3 DEF Unwritten, Live
    <2>4. CASE c.at = "ready"
        <3>1. /\ Len(c.jobs) = 2 /\ c.jobs[1] = Put(b.cells, "str") /\ c.jobs[2] = b.jobs[2]
              /\ Shape(c) /\ c.jobs \in Seq(JobType)
            BY <2>2, <2>4, CoFields DEF WroteBy, Live
        <3>2. JobBefore(c, c.jobs[1]) /\ LastJob(c, c.jobs[2])
            BY <3>1 DEF Shape
        <3>3. c.name \in Prints
            BY <3>1, <3>2 DEF JobBefore, Put, SyncWrite
        <3>4. c.jobs[2].do = "flush"
            <4>1. c.jobs[2] \in {Sync("flush", p) : p \in Places}
                BY <3>2, <3>3 DEF LastJob, Prints
            <4> QED
                BY <4>1 DEF Sync
        <3>5. Elements(b.cells) \cap A = {}
            <4>1. j.cells = b.cells
                BY <1>1, <1>6, <3>3, WritingJob DEF Prints
            <4> QED
                BY <1>5, <4>1
        <3>6. c.jobs[1].cells = b.cells
            BY <3>1 DEF Put
        <3>7. \A i \in DOMAIN c.jobs : i = 1 \/ i = 2
            BY <3>1
        <3>8. \A i \in DOMAIN c.jobs : c.jobs[i].do \in {"put", "write"} =>
                  Elements(c.jobs[i].cells) \cap (A \cup Elements(a)) = {}
            BY <2>1, <3>4, <3>5, <3>6, <3>7
        <3> QED
            BY <2>4, <3>8 DEF Unwritten
    <2> QED
        BY <2>2, <2>3, <2>4
<1>8. CASE x.error = "none" /\ Len(b.jobs) = 1
    <2>1. c.at = "done" /\ c.n = b.n + x.n
        BY <1>8 DEF WroteBy
    <2>2. ASSUME c.name = "asplice"
          PROVE  Elements(c.cells) \cap (A \cup Elements(a)) = Elements(Take(c.cells, c.n))
        <3>1. j.cells = b.cells /\ b.n = 0
            BY <1>1, <1>6, <2>2, WritingJob DEF Prints
        <3>2. c.n = x.n
            BY <1>3, <2>1, <3>1
        <3>3. Take(c.cells, c.n) = a
            BY <1>6, <3>1, <3>2
        <3>4. Elements(c.cells) \cap A = {} /\ Elements(a) \subseteq Elements(c.cells)
            BY <1>4, <1>5, <1>6, <3>1
        <3>5. Elements(c.cells) \cap (A \cup Elements(a)) = Elements(a)
            BY <3>4
        <3> QED
            BY <3>3, <3>5
    <2>3. c.at \notin Live
        BY <2>1 DEF Live
    <2> QED
        BY <2>2, <2>3 DEF Unwritten
<1>9. CASE x.error = "none" /\ Len(b.jobs) = 2
    <2>1. c.at = "ready" /\ Len(c.jobs) = 1 /\ c.jobs[1] = b.jobs[2] /\ c.jobs \in Seq(JobType)
        BY <1>9, CoFields DEF WroteBy
    <2>2. PICK l : l = b.jobs[2]
        OBVIOUS
    <2>3. ASSUME l.do \in {"put", "write"}
          PROVE  Elements(l.cells) \cap (A \cup Elements(a)) = {}
        <3>1. LastJob(b, l) /\ JobBefore(b, j)
            BY <1>2, <1>9, <2>2
        <3>2. b.name = "awrite_batch" \/ b.name \in Prints
            BY <3>1 DEF JobBefore
        <3>3. b.name \notin Prints
            <4>1. b.name \in Prints => l \in {Sync("flush", p) : p \in Places}
                BY <3>1 DEF LastJob, Prints
            <4> QED
                BY <2>3, <4>1 DEF Sync
        <3>4. l.cells = Drop(b.cells, 1) /\ j.cells = Take(b.cells, 1)
            BY <3>1, <3>2, <3>3 DEF LastJob, JobBefore, Put
        <3>5. Elements(Take(b.cells, 1)) \cap Elements(Drop(b.cells, 1)) = {}
            BY <1>6, PartsOf
        <3>6. Elements(l.cells) \cap A = {}
            <4>1. 2 \in DOMAIN b.jobs
                BY <1>2, <1>9
            <4> QED
                BY <1>1, <2>2, <2>3, <4>1 DEF Unwritten
        <3> QED
            BY <1>4, <3>4, <3>5, <3>6
    <2>4. \A i \in DOMAIN c.jobs : c.jobs[i] = l
        BY <2>1, <2>2
    <2> QED
        BY <2>1, <2>3, <2>4 DEF Unwritten
<1> QED
    BY <1>2, <1>7, <1>8, <1>9

\* What was accepted is in the layers, once, and in order unless it was written around some
\* that the buffer held.
Order(h, d, n) ==
    /\ SameCells(h.accepted, Bottom(d))
    /\ ~h.around.w => Bottom(d) = h.accepted
    /\ Elements(h.accepted) \subseteq 1 .. 2 * n \cup Elements(h.taken)

Pending(h, f) == \A t \in Coroutines : Unwritten(f[t], Elements(h.accepted))

WriteInv ==
    /\ Owns(co, count)
    /\ Order(seen, io, count)
    /\ Pending(seen, co)

\* What the program writes next is new.
LEMMA FreshIsNew ==
    ASSUME TypeInv, ReadInv, WriteInv, count < MaxCalls
    PROVE  /\ Fresh \in Seq(Cells) /\ Len(Fresh) = 2 /\ Distinct(Fresh)
           /\ Elements(Fresh) \subseteq 1 .. 2 * (count + 1)
           /\ Elements(Fresh) \cap Elements(seen.accepted) = {}
           /\ \A t \in Coroutines : Elements(co[t].cells) \cap Elements(Fresh) = {}
<1>1. /\ Fresh \in Seq(Cells) /\ Len(Fresh) = 2 /\ Distinct(Fresh)
      /\ Elements(Fresh) \subseteq 1 .. 2 * (count + 1)
      /\ Elements(Fresh) \cap 1 .. 2 * count = {}
    BY FreshCells DEF TypeInv
<1>2. Elements(Fresh) \cap Elements(Sent) = {}
    <2>1. \A c \in Elements(Sent) : c < 0
        BY SentAssumption DEF Elements
    <2>2. \A c \in 1 .. 2 * (count + 1) : ~(c < 0)
        BY DEF TypeInv
    <2> QED
        BY <1>1, <2>1, <2>2
<1>3. Elements(seen.taken) \subseteq Elements(Sent)
    BY NotYetTaken
<1>4. Elements(Fresh) \cap Elements(seen.accepted) = {}
    <2>1. Elements(seen.accepted) \subseteq 1 .. 2 * count \cup Elements(seen.taken)
        BY DEF WriteInv, Order
    <2> QED
        BY <1>1, <1>2, <1>3, <2>1
<1>5. ASSUME NEW t \in Coroutines
      PROVE  Elements(co[t].cells) \cap Elements(Fresh) = {}
    <2>1. co[t].name \in Writes => Elements(co[t].cells) \subseteq 1 .. 2 * count
        BY DEF WriteInv, Owns
    <2>2. co[t].name \in Reads => Elements(co[t].cells) \subseteq Elements(seen.taken)
        BY DEF ReadInv, Shares, HeldBy
    <2>3. co[t].name \notin Writes \cup Reads => Elements(co[t].cells) = {}
        BY NothingIn DEF WriteInv, Owns
    <2> QED
        BY <1>1, <1>2, <1>3, <2>1, <2>2, <2>3
<1> QED
    BY <1>1, <1>4, <1>5

\* What a coroutine writes was not written before.
LEMMA WrittenByJob ==
    ASSUME TypeInv, ReadInv, WriteInv, NEW t \in Coroutines, Running(t, {"put", "write"}),
           NEW j, j = Job(t), NEW k \in Nat
    PROVE  /\ j.cells \in Seq(Cells) /\ Take(j.cells, k) \in Seq(Cells) /\ Distinct(Take(j.cells, k))
           /\ Elements(Take(j.cells, k)) \subseteq Elements(co[t].cells)
           /\ Elements(Take(j.cells, k)) \cap Elements(seen.accepted) = {}
           /\ Elements(co[t].cells) \subseteq 1 .. 2 * count \cup Elements(seen.taken)
<1> DEFINE b == co[t]
<1>1. /\ b \in CoType /\ b.at \in Live /\ Shape(b) /\ Sizes(b)
      /\ j = Head(b.jobs) /\ j.do \in {"put", "write"}
    BY DEF TypeInv, InStep, Live, Running, Job
<1>2. j.cells \in Seq(Cells) /\ b.cells \in Seq(Cells)
    BY <1>1, WritingJob, CoFields
<1>3. j = b.jobs[1] /\ 1 \in DOMAIN b.jobs
    <2>1. b.jobs \in Seq(JobType) /\ Len(b.jobs) \in {1, 2}
        BY <1>1, JobAtHead, CoFields
    <2>2. 1 \in DOMAIN b.jobs
        BY <2>1
    <2> QED
        BY <1>1, <2>2, JobAtHead
<1>4. Elements(j.cells) \subseteq Elements(b.cells)
    BY <1>1, <1>3, JobsWithin
<1>5. Elements(j.cells) \cap Elements(seen.accepted) = {}
    BY <1>1, <1>3 DEF WriteInv, Pending, Unwritten
<1>6. Distinct(j.cells)
    <2>1. Distinct(b.cells)
        BY DEF WriteInv, Owns
    <2>2. Distinct(Take(b.cells, 1)) /\ Distinct(Drop(b.cells, 1))
        BY <1>2, <2>1, PartsOf
    <2>3. j.cells \in {b.cells, Take(b.cells, 1), Drop(b.cells, 1)}
        BY <1>1, WritingJob
    <2> QED
        BY <2>1, <2>2, <2>3
<1>7. /\ Take(j.cells, k) \in Seq(Cells) /\ Distinct(Take(j.cells, k))
      /\ Elements(Take(j.cells, k)) \subseteq Elements(j.cells)
    <2>1. Elements(j.cells) = Elements(Take(j.cells, k)) \cup Elements(Drop(j.cells, k))
        BY <1>2, PartsOf
    <2>2. Distinct(Take(j.cells, k)) /\ Take(j.cells, k) \in Seq(Cells)
        BY <1>2, <1>6, PartsOf, TakeAndDrop
    <2> QED
        BY <2>1, <2>2
<1>8. Elements(b.cells) \subseteq 1 .. 2 * count \cup Elements(seen.taken)
    <2>1. b.name \in Writes => Elements(b.cells) \subseteq 1 .. 2 * count
        BY DEF WriteInv, Owns
    <2>2. b.name \in Reads => Elements(b.cells) \subseteq Elements(seen.taken)
        BY DEF ReadInv, Shares, HeldBy
    <2>3. b.name \notin Writes \cup Reads => Elements(b.cells) = {}
        BY NothingIn DEF WriteInv, Owns
    <2> QED
        BY <2>1, <2>2, <2>3
<1> QED
    BY <1>2, <1>4, <1>5, <1>7, <1>8

LEMMA CoroutineWrites ==
    ASSUME TypeInv, ReadInv, WriteInv, NEW t \in Coroutines, DoWrite(t)
    PROVE  WriteInv'
<1>1. PICK j : j = Job(t)
    OBVIOUS
<1>2. PICK x \in Written(j), c \in CoType : WroteBy(t, j, x, c)
    BY <1>1, Writing
<1>3. Running(t, {"put", "write"}) /\ UNCHANGED <<stack, queue, count>>
    BY WritesIn DEF DoWrite
<1>4. io \in Layer /\ Tidy(io) /\ seen \in SeenType /\ Bottom(io) \in Seq(Cells)
      /\ Sunk(io) \in Seq(Cells) /\ io.outer \in Seq(Cells) /\ seen.accepted \in Seq(Cells)
    BY Descending, LayerFields, SeenFields DEF TypeInv
<1>5. /\ x.n \in Nat
      /\ j.do = "write" => Bottom(x.io) = Bottom(io) \o Take(j.cells, x.n)
      /\ j.do = "put" => Sunk(x.io) = Sunk(io) \o Take(j.cells, x.n) /\ x.io.outer = io.outer
      /\ j.do \in {"put", "write"}
    BY <1>1, <1>2, <1>3, WrittenDescends DEF Running
<1>6. PICK a \in Seq(Cells) : a = Take(j.cells, x.n)
    BY <1>1, <1>3, <1>5, WrittenByJob
<1>7. /\ Distinct(a) /\ Elements(a) \subseteq Elements(co[t].cells)
      /\ Elements(a) \cap Elements(seen.accepted) = {}
      /\ Elements(a) \subseteq 1 .. 2 * count \cup Elements(seen.taken)
    BY <1>1, <1>3, <1>5, <1>6, WrittenByJob
<1>8. /\ io' = x.io /\ co' = [co EXCEPT ![t] = c]
      /\ seen'.accepted = seen.accepted \o a /\ seen'.taken = seen.taken
      /\ seen'.around.w <=> seen.around.w \/ (j.do = "put" /\ x.n > 0 /\ io.outer # <<>>)
    BY <1>2, <1>6 DEF WroteBy
<1>9. Elements(seen'.accepted) = Elements(seen.accepted) \cup Elements(a)
    BY <1>4, <1>8, ElementsConcat
<1>10. /\ SameCells(seen'.accepted, Bottom(io'))
       /\ ~seen'.around.w => Bottom(io') = seen'.accepted
    <2>1. /\ SameCells(seen.accepted, Bottom(io))
          /\ ~seen.around.w => Bottom(io) = seen.accepted
          /\ Elements(a) \cap Elements(seen.accepted) = {}
        BY <1>7 DEF WriteInv, Order
    <2>2. CASE j.do = "write"
        <3>1. SameCells(seen.accepted \o a, Bottom(io) \o a)
            BY <1>4, <1>7, <2>1, AddedToBoth
        <3>2. Bottom(io') = Bottom(io) \o a
            BY <1>5, <1>6, <1>8, <2>2
        <3>3. ~seen'.around.w => Bottom(io) = seen.accepted
            BY <1>8, <2>1
        <3>4. SameCells(seen'.accepted, Bottom(io'))
            BY <1>8, <3>1, <3>2
        <3> QED
            BY <1>8, <3>2, <3>3, <3>4
    <2>3. CASE j.do = "put"
        <3>1. PICK u \in Seq(Cells) : u = Sunk(io)
            BY <1>4
        <3>2. PICK o \in Seq(Cells) : o = io.outer
            BY <1>4
        <3>3. SameCells(seen.accepted, u \o o)
            BY <2>1, <3>1, <3>2 DEF Bottom
        <3>4. /\ SameCells(seen.accepted \o a, (u \o a) \o o)
              /\ a = <<>> \/ o = <<>> => (u \o a) \o o = (u \o o) \o a
            <4>1. PICK z \in Seq(Cells) : z = seen.accepted
                BY <1>4
            <4>2. SameCells(z, u \o o) /\ Elements(a) \cap Elements(z) = {} /\ Distinct(a)
                BY <1>7, <3>3, <4>1
            <4>3. SameCells(z \o a, (u \o a) \o o)
                BY <4>2, AddedBetween, Zenon
            <4>4. a = <<>> \/ o = <<>> => (u \o a) \o o = (u \o o) \o a
                <5>1. u \o o \in Seq(Cells) /\ u \o a \in Seq(Cells)
                    BY ElementsConcat
                <5>2. u \o <<>> = u /\ (u \o o) \o <<>> = u \o o /\ (u \o a) \o <<>> = u \o a
                    BY <5>1, ConcatEmptySeq
                <5> QED
                    BY <5>2
            <4> QED
                BY <4>1, <4>3, <4>4
        <3>5. Bottom(io') = (u \o a) \o o
            BY <1>5, <1>6, <1>8, <2>3, <3>1, <3>2 DEF Bottom
        <3>6. SameCells(seen'.accepted, Bottom(io'))
            BY <1>8, <3>4, <3>5
        <3>7. ASSUME ~seen'.around.w
              PROVE  Bottom(io') = seen'.accepted
            <4>1. ~seen.around.w /\ (x.n = 0 \/ o = <<>>)
                BY <1>5, <1>8, <2>3, <3>2, <3>7
            <4>2. x.n = 0 => a = <<>>
                <5>1. j.cells \in Seq(Cells)
                    BY <1>1, <1>3, <1>5, WrittenByJob
                <5> QED
                    BY <1>6, <5>1, PartsOf
            <4>3. (u \o a) \o o = (u \o o) \o a
                BY <3>4, <4>1, <4>2
            <4>4. u \o o = seen.accepted
                BY <2>1, <3>1, <3>2, <4>1 DEF Bottom
            <4>5. Bottom(io') = seen.accepted \o a
                BY <3>5, <4>3, <4>4
            <4> QED
                BY <1>8, <4>5
        <3> QED
            BY <3>6, <3>7
    <2> QED
        BY <1>5, <2>2, <2>3
<1>11. Order(seen', io', count')
    <2>1. Elements(seen.accepted) \subseteq 1 .. 2 * count \cup Elements(seen.taken)
        BY DEF WriteInv, Order
    <2>2. Elements(seen'.accepted) \subseteq 1 .. 2 * count \cup Elements(seen.taken)
        BY <1>7, <1>9, <2>1
    <2> QED
        BY <1>3, <1>8, <1>10, <2>2 DEF Order
<1>12. Pending(seen', co')
    <2>1. Unwritten(c, Elements(seen.accepted) \cup Elements(a))
        <3>1. Unwritten(co[t], Elements(seen.accepted)) /\ Distinct(co[t].cells)
            BY DEF WriteInv, Pending, Owns
        <3>2. Unwritten(c, Elements(seen.accepted) \cup Elements(Take(j.cells, x.n)))
            BY <1>1, <1>2, <1>3, <3>1, WritesOn
        <3> QED
            BY <1>6, <3>2
    <2>2. ASSUME NEW u \in Coroutines, u # t
          PROVE  Unwritten(co[u], Elements(seen.accepted) \cup Elements(a))
        <3>1. co[u] \in CoType /\ (co[u].at \in Live => Shape(co[u]))
            BY DEF TypeInv, InStep
        <3>2. Elements(co[u].cells) \cap Elements(co[t].cells) = {}
            BY <2>2, CellsApart DEF WriteInv
        <3>3. Unwritten(co[u], Elements(seen.accepted)) /\ Elements(co[u].cells) \cap Elements(a) = {}
            BY <1>7, <3>2 DEF WriteInv, Pending
        <3> QED
            BY <3>1, <3>3, OthersWrite
    <2>3. /\ co'[t] = c
          /\ \A u \in Coroutines : u # t => co'[u] = co[u]
        BY <1>8 DEF TypeInv
    <2> QED
        BY <1>9, <2>1, <2>2, <2>3 DEF Pending
<1>13. Owns(co', count')
    BY OwnersNext DEF WriteInv, Next, Step
<1> QED
    BY <1>11, <1>12, <1>13 DEF WriteInv

\* A step that is not a write leaves what was written alone.
LEMMA OrderKept ==
    ASSUME WriteInv, Keeps, Grows, count \in Nat, count' \in Nat
    PROVE  Order(seen', io', count')
<1>1. /\ Bottom(io') = Bottom(io) /\ seen'.accepted = seen.accepted
      /\ seen'.around.w <=> seen.around.w
      /\ Elements(seen.taken) \subseteq Elements(seen'.taken) /\ count <= count'
    BY DEF Keeps, Grows
<1>2. 1 .. 2 * count \subseteq 1 .. 2 * count'
    BY <1>1
<1>3. Elements(seen.accepted) \subseteq 1 .. 2 * count \cup Elements(seen.taken)
    BY DEF WriteInv, Order
<1>4. Elements(seen'.accepted) \subseteq 1 .. 2 * count' \cup Elements(seen'.taken)
    BY <1>1, <1>2, <1>3
<1> QED
    BY <1>1, <1>4 DEF WriteInv, Order

\* The methods' jobs, after a step.
LEMMA NextShape ==
    ASSUME TypeInv', stack' = stack, NEW t \in Coroutines
    PROVE  co'[t] \in CoType /\ (co'[t].at \in Live => Shape(co'[t]))
<1>1. co'[t] \in CoType /\ (co'[t].at \in Live => Shape(co[t])')
    BY DEF TypeInv, InStep
<1>2. PICK c : c = co'[t]
    OBVIOUS
<1>3. Shape(co[t])' => Shape(c)
    BY <1>2 DEF Shape, LastJob, JobBefore, Put, Recv, SyncWrite, Sync, Rest, OnPool
<1> QED
    BY <1>1, <1>2, <1>3

\* A coroutine that starts, or receives, has written nothing.
LEMMA StartsUnwritten ==
    ASSUME TypeInv, TypeInv', ReadInv, WriteInv, NEW t \in Coroutines, NEW name \in Names, Start(t, name)
    PROVE  Unwritten(co'[t], Elements(seen.accepted))
<1>1. /\ co'[t].n = 0 /\ stack' = stack
      /\ co'[t].cells = IF name \in Writes THEN Fresh ELSE <<>>
      /\ count < MaxCalls
    BY Starting
<1>2. co'[t] \in CoType /\ (co'[t].at \in Live => Shape(co'[t]))
    BY <1>1, NextShape
<1>3. Elements(co'[t].cells) \cap Elements(seen.accepted) = {}
    <2>1. CASE name \in Writes
        BY <1>1, <2>1, FreshIsNew
    <2>2. CASE name \notin Writes
        BY <1>1, <2>2, NothingIn
    <2> QED
        BY <2>1, <2>2
<1>4. PICK c \in CoType : c = co'[t]
    BY <1>2
<1>5. Unwritten(c, Elements(seen.accepted))
    BY <1>1, <1>2, <1>3, <1>4, NothingWritten
<1> QED
    BY <1>4, <1>5

LEMMA TakesUnwritten ==
    ASSUME TypeInv, TypeInv', ReadInv, WriteInv, NEW t \in Coroutines, DoTake(t)
    PROVE  Unwritten(co'[t], Elements(seen.accepted))
<1>1. /\ co'[t].name = co[t].name /\ co'[t].n = co[t].n /\ stack' = stack
      /\ co[t].at = "running" /\ Job(t).do = "take"
      /\ \E k \in Nat : co'[t].cells = co[t].cells \o Take(io.src, k)
    BY Taking
<1>2. PICK k \in Nat : co'[t].cells = co[t].cells \o Take(io.src, k)
    BY <1>1
<1>3. co[t] \in CoType /\ Shape(co[t]) /\ Sizes(co[t])
    BY <1>1 DEF TypeInv, InStep, Live
<1>4. PICK c \in CoType : c = co'[t] /\ (c.at \in Live => Shape(c))
    BY <1>1, NextShape
<1>5. \/ co[t].name \in {"aread", "aread_all"}
      \/ co[t].name = "asplice" /\ co[t].cells = <<>> /\ co[t].n = 0
    BY <1>1, <1>3, TakingJob DEF Job
<1>6. CASE co[t].name \in {"aread", "aread_all"}
    <2>1. c.name \in {"aread", "aread_all"}
        BY <1>1, <1>4, <1>6
    <2>2. ASSUME c.at \in Live, NEW i \in DOMAIN c.jobs
          PROVE  c.jobs[i].do \notin {"put", "write"}
        <3>1. c.jobs \in Seq(JobType) /\ Shape(c)
            BY <1>4, <2>2, CoFields
        <3>2. Len(c.jobs) = 1 /\ LastJob(c, c.jobs[1])
            BY <2>1, <3>1 DEF Shape, JobBefore, Prints
        <3>3. i = 1
            BY <3>1, <3>2
        <3>4. c.jobs[1].do = "take"
            <4>1. \E n : c.jobs[1] = Recv(n)
                BY <2>1, <3>2 DEF LastJob, Prints
            <4> QED
                BY <4>1 DEF Recv
        <3> QED
            BY <3>3, <3>4
    <2> QED
        BY <1>4, <2>1, <2>2 DEF Unwritten
<1>7. CASE co[t].name = "asplice" /\ co[t].cells = <<>> /\ co[t].n = 0
    <2>1. io.src \in Seq(Cells)
        BY LayerFields DEF TypeInv
    <2>2. Take(io.src, k) \in Seq(Cells)
        BY <2>1, TakeAndDrop
    <2>3. <<>> \o Take(io.src, k) = Take(io.src, k)
        BY <2>2, ConcatEmptySeq
    <2>4. c.cells = Take(io.src, k)
        BY <1>2, <1>4, <1>7, <2>3
    <2>5. /\ Elements(Take(io.src, k)) \cap Elements(seen.taken) = {}
          /\ Elements(Take(io.src, k)) \subseteq Elements(Sent)
        BY NotYetTaken
    <2>6. Elements(Sent) \cap 1 .. 2 * count = {}
        <3>1. \A e \in Elements(Sent) : e < 0
            BY SentAssumption DEF Elements
        <3>2. \A e \in 1 .. 2 * count : ~(e < 0)
            BY DEF TypeInv
        <3> QED
            BY <3>1, <3>2
    <2>7. Elements(seen.accepted) \subseteq 1 .. 2 * count \cup Elements(seen.taken)
        BY DEF WriteInv, Order
    <2>8. Elements(c.cells) \cap Elements(seen.accepted) = {}
        BY <2>4, <2>5, <2>6, <2>7
    <2>9. c.n = 0
        BY <1>1, <1>4, <1>7
    <2>10. Unwritten(c, Elements(seen.accepted))
        BY <1>4, <2>8, <2>9, NothingWritten
    <2> QED
        BY <1>4, <2>10
<1> QED
    BY <1>5, <1>6, <1>7

\* One that closes writes nothing.
LEMMA ClosesUnwritten ==
    ASSUME TypeInv, TypeInv', stack' = stack, WriteInv, NEW t \in Coroutines,
           co'[t].name \in {"close", "aclose", "close_other"}
    PROVE  Unwritten(co'[t], Elements(seen.accepted))
<1>1. PICK c \in CoType : c = co'[t] /\ (c.at \in Live => Shape(c))
    BY NextShape
<1>2. ASSUME c.at \in Live, NEW i \in DOMAIN c.jobs
      PROVE  c.jobs[i].do \notin {"put", "write"}
    <2>1. c.jobs \in Seq(JobType) /\ Shape(c) /\ c.name \in {"close", "aclose", "close_other"}
        BY <1>1, <1>2, CoFields
    <2>2. Len(c.jobs) = 1 /\ LastJob(c, c.jobs[1])
        BY <2>1 DEF Shape, JobBefore, Prints
    <2>3. i = 1
        BY <2>1, <2>2
    <2>4. c.jobs[1].do \in {"close", "close_other", "close_inner", "shut"}
        <3>1. \/ \E p : \E do \in {"close", "close_other"} : c.jobs[1] = Sync(do, p)
              \/ \E p, f : \E do \in {"close_inner", "shut"} : c.jobs[1] = Rest(do, p, f)
            BY <2>1, <2>2 DEF LastJob, Prints
        <3>2. ASSUME NEW do, NEW p, NEW f
              PROVE  Sync(do, p).do = do /\ Rest(do, p, f).do = do
            BY DEF Sync, Rest
        <3> QED
            BY <3>1, <3>2
    <2> QED
        BY <2>3, <2>4
<1> QED
    BY <1>1, <1>2 DEF Unwritten

LEMMA QuietlyWrites ==
    ASSUME TypeInv, ReadInv, WriteInv, Quiet
    PROVE  WriteInv'
<1>1. [Next]_vars
    BY DEF Quiet, Next, Step
<1>2. TypeInv' /\ Owns(co', count') /\ Keeps /\ Grows
    BY <1>1, TypesNext, OwnersNext, QuietKeeps DEF WriteInv
<1>3. Order(seen', io', count')
    BY <1>2, OrderKept DEF TypeInv
<1>4. seen'.accepted = seen.accepted
    BY <1>2 DEF Keeps
<1>5. Pending(seen', co')
    <2>1. CASE co' = co
        BY <1>4, <2>1 DEF WriteInv, Pending
    <2>2. ASSUME NEW t \in Coroutines, Unwritten(co'[t], Elements(seen.accepted)),
                 \A u \in Coroutines : u # t => co'[u] = co[u]
          PROVE  Pending(seen', co')
        BY <1>4, <2>2 DEF WriteInv, Pending
    <2>3. ASSUME NEW t \in Coroutines, NEW name \in Names, Start(t, name)
          PROVE  Pending(seen', co')
        <3>1. Unwritten(co'[t], Elements(seen.accepted))
            BY <1>2, <2>3, StartsUnwritten
        <3>2. \A u \in Coroutines : u # t => co'[u] = co[u]
            BY <2>3, Starting
        <3> QED
            BY <2>2, <3>1, <3>2
    <2>4. ASSUME NEW t \in Coroutines, DoTake(t)
          PROVE  Pending(seen', co')
        <3>1. Unwritten(co'[t], Elements(seen.accepted))
            BY <1>2, <2>4, TakesUnwritten
        <3>2. \A u \in Coroutines : u # t => co'[u] = co[u]
            BY <2>4, Taking
        <3> QED
            BY <2>2, <3>1, <3>2
    <2>5. ASSUME NEW t \in Coroutines, Dispatch(t) \/ Grab(t) \/ TakeFails(t)
          PROVE  Pending(seen', co')
        <3>1. /\ co[t].at \in Live /\ co'[t].at \in {"queued", "running", "raised"}
              /\ co'[t].jobs = co[t].jobs
              /\ \A u \in Coroutines : u # t => co'[u] = co[u]
            BY <2>5, Moving
        <3>2. Unwritten(co[t], Elements(seen.accepted))
            BY DEF WriteInv, Pending
        <3>3. Unwritten(co'[t], Elements(seen.accepted))
            BY <3>1, <3>2 DEF Unwritten, Live
        <3> QED
            BY <2>2, <3>1, <3>3
    <2>6. ASSUME NEW t \in Coroutines, DoFlush(t) \/ DoRead(t)
          PROVE  Pending(seen', co')
        <3>1. /\ co'[t].at \in {"done", "raised"} /\ co'[t].name # "asplice"
              /\ \A u \in Coroutines : u # t => co'[u] = co[u]
            BY <2>6, Flushing, Reading DEF Prints
        <3>2. Unwritten(co'[t], Elements(seen.accepted))
            BY <3>1 DEF Unwritten, Live
        <3> QED
            BY <2>2, <3>1, <3>2
    <2>7. ASSUME NEW t \in Coroutines, DoClose(t) \/ DoCloseInner(t) \/ DoShut(t) \/ CloseOther(t)
          PROVE  Pending(seen', co')
        <3>1. /\ co'[t].name \in {"close", "aclose", "close_other"} /\ stack' = stack
              /\ \A u \in Coroutines : u # t => co'[u] = co[u]
            BY <2>7, Closing
        <3> QED
            BY <1>2, <2>2, <3>1, ClosesUnwritten
    <2>8. CASE PeerSends \/ PeerCloses \/ PeerReceives \/ UNCHANGED vars
        <3>1. co' = co
            BY <2>8 DEF PeerSends, PeerCloses, PeerReceives, vars
        <3> QED
            BY <2>1, <3>1
    <2> QED
        BY <2>3, <2>4, <2>5, <2>6, <2>7, <2>8 DEF Quiet
<1> QED
    BY <1>2, <1>3, <1>5 DEF WriteInv

LEMMA WritesNext == TypeInv /\ ReadInv /\ WriteInv /\ [Next]_vars => WriteInv'
    BY QuietOrWrites, QuietlyWrites, CoroutineWrites

LEMMA WritesInit == Init => WriteInv
<1> SUFFICES ASSUME Init
             PROVE  WriteInv
    OBVIOUS
<1>1. /\ seen.accepted = <<>> /\ count = 0
      /\ io.sink = <<>> /\ io.inner = <<>> /\ io.outer = <<>>
      /\ co = [t \in Coroutines |-> NotStarted]
    BY DEF Init, Layers, History
<1>2. Elements(<<>>) = {} /\ Distinct(<<>>) /\ Len(<<>>) = 0
    BY NothingIn
<1>3. Bottom(io) = <<>>
    BY <1>1 DEF Bottom, Sunk
<1>4. Owns(co, count)
    BY <1>1, <1>2 DEF Owns, NotStarted, Writes, Prints, Reads
<1>5. SameCells(<<>>, <<>>)
    BY <1>2 DEF SameCells
<1>6. Order(seen, io, count)
    BY <1>1, <1>2, <1>3, <1>5 DEF Order
<1>7. \A t \in Coroutines : co[t].name = "none" /\ co[t].at = "idle"
    BY <1>1 DEF NotStarted
<1>8. Pending(seen, co)
    BY <1>7 DEF Pending, Unwritten, Live
<1> QED
    BY <1>4, <1>6, <1>8 DEF WriteInv

LEMMA WritesAlways == Spec => [](TypeInv /\ ReadInv /\ WriteInv)
<1>1. Init => TypeInv /\ ReadInv /\ WriteInv
    BY TypesInit, ReadInit, WritesInit
<1>2. TypeInv /\ ReadInv /\ WriteInv /\ [Next]_vars => (TypeInv /\ ReadInv /\ WriteInv)'
    BY TypesNext, ReadNext, WritesNext
<1> QED
    BY <1>1, <1>2, PTL DEF Spec

\* KeptOnce holds: what the calls accepted is in the layers, all of it, and once, whatever
\* was sent in part, raised, printed again or closed.
THEOREM AcceptedIsKept == Spec => []KeptOnce
<1>1. ASSUME TypeInv, WriteInv
      PROVE  KeptOnce
    <2>1. SameCells(seen.accepted, Bottom(io)) /\ Bottom(io) \in Seq(Cells)
        BY <1>1, Descending DEF WriteInv, Order, TypeInv
    <2>2. Below = Bottom(io)
        BY DEF Below, Bottom, Sunk
    <2>3. PICK b \in Seq(Cells) : b = Bottom(io)
        BY <2>1
    <2>4. /\ Len(b) = Len(seen.accepted) /\ Elements(b) = Elements(seen.accepted) /\ Distinct(b)
        BY <2>1, <2>3 DEF SameCells
    <2>5. Cardinality(Elements(b)) = Len(b)
        BY <2>4, AsManyAsPlaces
    <2>6. Below = b
        BY <2>2, <2>3
    <2> QED
        BY <2>4, <2>5, <2>6 DEF KeptOnce
<1> QED
    BY <1>1, WritesAlways, PTL

\* InOrder holds: what was accepted is in the layers in the order of the calls, unless an
\* asynchronous write went around a buffer that held some of it.
THEOREM AcceptedInOrder == Spec => []InOrder
<1>1. ASSUME WriteInv
      PROVE  InOrder
    BY <1>1 DEF WriteInv, Order, InOrder, Below, Bottom, Sunk
<1> QED
    BY <1>1, WritesAlways, PTL

\* SplicesTellLosses holds: of what a splice that ends has read, it has written as much as
\* its result says.
THEOREM SpliceResult == Spec => []SplicesTellLosses
<1>1. ASSUME WriteInv
      PROVE  SplicesTellLosses
    BY <1>1 DEF WriteInv, Pending, Unwritten, SplicesTellLosses
<1> QED
    BY <1>1, WritesAlways, PTL

----------------------------------------------------------------------------
(* What is flushed, and what is closed. *)

\* A flush that returns has promised what was accepted; any other step promises nothing.
Flushes == \E x \in flush(io) :
    /\ io' = x.io
    /\ seen' = IF x.error = "none" THEN Promise(seen) ELSE seen

PromisesNothing == seen'.flushed = seen.flushed /\ Elements(io.sink) \subseteq Elements(io'.sink)

LEMMA KindsOfSteps ==
    ASSUME TypeInv, [Next]_vars
    PROVE  stack' = stack /\ (Flushes \/ PromisesNothing)
<1>1. io \in Layer /\ Tidy(io) /\ seen \in SeenType
    BY DEF TypeInv
<1>2. CASE PeerSends \/ PeerCloses \/ PeerReceives \/ UNCHANGED vars
    <2>1. io'.sink = io.sink
        BY <1>1, <1>2 DEF PeerSends, PeerCloses, PeerReceives, Layer, vars
    <2> QED
        BY <1>2, <2>1 DEF PeerSends, PeerCloses, PeerReceives, vars, PromisesNothing
<1>3. ASSUME NEW t \in Coroutines, DoWrite(t)
      PROVE  stack' = stack /\ PromisesNothing
    <2>1. PICK x \in Written(Job(t)), c \in CoType : WroteBy(t, Job(t), x, c)
        BY <1>3, Writing
    <2>2. Descends(io, x.io)
        BY <1>3, <2>1, WritesIn, WrittenDescends
    <2>3. io' = x.io /\ seen'.flushed = seen.flushed
        BY <2>1 DEF WroteBy
    <2>4. stack' = stack
        BY <1>3 DEF DoWrite
    <2> QED
        BY <2>2, <2>3, <2>4 DEF PromisesNothing, Descends
<1>4. ASSUME NEW t \in Coroutines, DoTake(t) \/ DoRead(t)
      PROVE  stack' = stack /\ PromisesNothing
    <2>1. io'.sink = io.sink
        BY <1>1, <1>4 DEF DoTake, DoRead, Layer
    <2>2. seen'.flushed = seen.flushed
        BY <1>1, <1>4 DEF DoTake, DoRead, SeenType
    <2>3. stack' = stack
        BY <1>4 DEF DoTake, DoRead
    <2> QED
        BY <2>1, <2>2, <2>3 DEF PromisesNothing
<1>5. ASSUME NEW t \in Coroutines, \/ \E name \in Names : Start(t, name)
                                   \/ Dispatch(t) \/ Grab(t) \/ TakeFails(t)
      PROVE  stack' = stack /\ PromisesNothing
    <2>1. UNCHANGED <<stack, io, seen>>
        BY <1>5, Starting, Moving
    <2> QED
        BY <2>1 DEF PromisesNothing
<1>6. ASSUME NEW t \in Coroutines, DoFlush(t)
      PROVE  stack' = stack /\ Flushes
    BY <1>6, Flushing DEF Flushes
<1>7. ASSUME NEW t \in Coroutines, DoClose(t) \/ DoCloseInner(t) \/ DoShut(t) \/ CloseOther(t)
      PROVE  stack' = stack /\ PromisesNothing
    BY <1>7, Closing DEF SameRecord, Descends, PromisesNothing
<1> QED
    BY <1>2, <1>3, <1>4, <1>5, <1>6, <1>7, QuietOrWrites DEF Quiet

\* A flush that returns has put all that was accepted below the buffers.
LEMMA FlushedAll ==
    ASSUME TypeInv, WriteInv, NEW d \in Layer, Tidy(d), Bottom(d) = Bottom(io),
           d.outer = <<>>, d.inner = <<>>
    PROVE  Elements(d.sink) = Elements(seen.accepted)
<1>1. Elements(Bottom(d)) = Elements(d.sink) \cup Elements(d.inner) \cup Elements(d.outer)
    BY Descending
<1>2. Elements(<<>>) = {}
    BY NothingIn
<1>3. Elements(Bottom(io)) = Elements(seen.accepted)
    BY DEF WriteInv, Order, SameCells
<1> QED
    BY <1>1, <1>2, <1>3

LEMMA FlushNext ==
    ASSUME TypeInv, WriteInv, FlushReaches, [Next]_vars
    PROVE  FlushReaches'
<1>1. io \in Layer /\ Tidy(io) /\ seen \in SeenType /\ stack' = stack
    BY KindsOfSteps DEF TypeInv
<1>2. CASE Flushes
    <2>1. PICK x \in flush(io) : /\ io' = x.io
                                 /\ seen' = IF x.error = "none" THEN Promise(seen) ELSE seen
        BY <1>2 DEF Flushes
    <2>2. /\ Descends(io, x.io) /\ Bottom(x.io) = Bottom(io)
          /\ x.error = "none" => /\ x.io.outer = <<>>
                                 /\ x.io.inner = <<>> \/ (stack.w = "fallback" /\ stack.buffered)
        BY <1>1, FlushDescends
    <2>3. x.io \in Layer /\ Tidy(x.io) /\ Elements(io.sink) \subseteq Elements(x.io.sink)
        BY <2>2 DEF Descends
    <2>4. CASE x.error = "none"
        <3>1. seen'.flushed = Elements(seen.accepted)
            BY <1>1, <2>1, <2>4, Promising
        <3>2. CASE x.io.inner = <<>>
            <4>1. Elements(x.io.sink) = Elements(seen.accepted)
                BY <2>2, <2>3, <2>4, <3>2, FlushedAll
            <4> QED
                BY <2>1, <3>1, <4>1 DEF FlushReaches
        <3>3. CASE stack.w = "fallback" /\ stack.buffered
            BY <1>1, <3>3 DEF FlushReaches
        <3> QED
            BY <2>2, <2>4, <3>2, <3>3
    <2>5. CASE x.error # "none"
        BY <1>1, <2>1, <2>3, <2>5 DEF FlushReaches
    <2> QED
        BY <2>4, <2>5
<1>3. CASE PromisesNothing
    BY <1>1, <1>3 DEF PromisesNothing, FlushReaches
<1> QED
    BY <1>2, <1>3, KindsOfSteps

\* FlushReaches holds: once a flush returns, all that was accepted before it is below all
\* buffers, except in a buffered stream of the fallback engine.
THEOREM FlushedIsBelow == Spec => []FlushReaches
<1>1. Init => FlushReaches
    BY DEF Init, History, FlushReaches
<1>2. TypeInv /\ WriteInv /\ FlushReaches /\ [Next]_vars => FlushReaches'
    BY FlushNext
<1> QED
    BY <1>1, <1>2, WritesAlways, PTL DEF Spec

\* A close that has flushed without an error leaves in the buffers what comes late.
IsAt(c, do) == c.at = "running" /\ Head(c.jobs).do = do
ClosesWell(c, d, late) == d.w =>
    /\ IsAt(c, "close_inner") /\ ~Head(c.jobs).failed => Elements(d.outer) \subseteq late
    /\ IsAt(c, "shut") /\ ~Head(c.jobs).failed => Elements(d.outer) \cup Elements(d.inner) \subseteq late

CloseInv == NothingStranded /\ \A t \in Coroutines : ClosesWell(co[t], io, seen.late)

LEMMA ClosesWellOn ==
    ASSUME NEW c, NEW d, NEW e, NEW late, NEW later, NEW S, ClosesWell(c, d, late),
           Buffered(d, e, S), e.w => d.w, late \subseteq later,
           IsAt(c, "shut") => S \subseteq later,
           IsAt(c, "close_inner") => S \subseteq later \/ e.outer = <<>>
    PROVE  ClosesWell(c, e, later)
<1>1. Elements(<<>>) = {}
    BY NothingIn
<1>2. /\ Elements(e.outer) \subseteq Elements(d.outer) \cup S
      /\ Elements(e.inner) \subseteq Elements(d.inner) \cup Elements(d.outer) \cup S
    BY DEF Buffered
<1>3. ASSUME e.w, IsAt(c, "close_inner"), ~Head(c.jobs).failed
      PROVE  Elements(e.outer) \subseteq later
    BY <1>1, <1>2, <1>3 DEF ClosesWell
<1>4. ASSUME e.w, IsAt(c, "shut"), ~Head(c.jobs).failed
      PROVE  Elements(e.outer) \cup Elements(e.inner) \subseteq later
    BY <1>2, <1>4 DEF ClosesWell
<1> QED
    BY <1>3, <1>4 DEF ClosesWell

\* A step that does not shut the writer.
LEMMA ClosesOn ==
    ASSUME TypeInv', CloseInv, stack' = stack, NEW S, Buffered(io, io', S), io'.w = io.w,
           ~io.w => io'.outer = io.outer /\ io'.inner = io.inner,
           seen.late \subseteq seen'.late, seen.cut => seen'.cut, HasFlushed => S \subseteq seen'.late,
           \A u \in Coroutines : co'[u] = co[u] \/ ClosesWell(co'[u], io', seen'.late)
    PROVE  CloseInv'
<1>1. NothingStranded'
    BY DEF CloseInv, NothingStranded
<1>2. ~stack.buffered => io'.outer = <<>>
    BY DEF TypeInv, Tidy
<1>3. ASSUME NEW u \in Coroutines, co'[u] = co[u]
      PROVE  ClosesWell(co'[u], io', seen'.late)
    <2>1. IsAt(co[u], "shut") => HasFlushed
        BY DEF IsAt, HasFlushed, Running, Job
    <2>2. IsAt(co[u], "close_inner") => HasFlushed \/ ~stack.buffered
        BY DEF IsAt, HasFlushed, Running, Job
    <2>3. ClosesWell(co[u], io, seen.late)
        BY DEF CloseInv
    <2>4. ClosesWell(co[u], io', seen'.late)
        BY <1>2, <2>1, <2>2, <2>3, ClosesWellOn
    <2> QED
        BY <1>3, <2>4
<1>4. \A u \in Coroutines : ClosesWell(co'[u], io', seen'.late)
    BY <1>3
<1>5. \A u \in Coroutines : ClosesWell(co[u], io, seen.late)'
    BY <1>4 DEF ClosesWell, IsAt
<1> QED
    BY <1>1, <1>5 DEF CloseInv

\* Only a close that runs has jobs of its own.
LEMMA ClosingJob ==
    ASSUME NEW c \in CoType, Shape(c), Sizes(c),
           c.at # "running" \/ c.name \notin {"close", "aclose"}
    PROVE  Head(c.jobs).do \notin {"close_inner", "shut"}
<1> DEFINE j == Head(c.jobs)
<1> SUFFICES ASSUME j.do \in {"close_inner", "shut"} PROVE FALSE
    OBVIOUS
<1>1. c.name \in {"close", "aclose"} /\ c.at # "running"
    BY OwnJob
<1>2. LastJob(c, j) \/ JobBefore(c, j)
    BY JobAtHead
<1> HIDE DEF j
<1>3. /\ \A cells, as : j # Put(cells, as)
      /\ \A cells, p : j # SyncWrite(cells, p)
      /\ \A n : j # Recv(n)
      /\ \A p : \A do \in {"close", "aclose", "close_other", "read", "flush"} : j # Sync(do, p)
    BY DEF Put, SyncWrite, Recv, Sync
<1>4. ~JobBefore(c, j)
    BY <1>3 DEF JobBefore
<1>5. ~LastJob(c, j)
    BY <1>1, <1>3 DEF LastJob
<1> QED
    BY <1>2, <1>4, <1>5

LEMMA NotClosing ==
    ASSUME TypeInv', stack' = stack, NEW t \in Coroutines,
           co'[t].at # "running" \/ co'[t].name \notin {"close", "aclose"}, NEW d, NEW late
    PROVE  ClosesWell(co'[t], d, late)
<1>1. CASE co'[t].at # "running"
    BY <1>1 DEF ClosesWell, IsAt
<1>2. CASE co'[t].at = "running"
    <2>1. PICK c \in CoType : c = co'[t] /\ (c.at \in Live => Shape(c))
        BY NextShape
    <2>2. Sizes(c)
        <3>1. Sizes(co[t])'
            BY DEF TypeInv, InStep
        <3> QED
            BY <2>1, <3>1 DEF Sizes
    <2>3. Shape(c) /\ c.name \notin {"close", "aclose"}
        BY <1>2, <2>1 DEF Live
    <2>4. Head(c.jobs).do \notin {"close_inner", "shut"}
        BY <2>2, <2>3, ClosingJob
    <2> QED
        BY <2>1, <2>4 DEF ClosesWell, IsAt
<1> QED
    BY <1>1, <1>2

\* A coroutine that starts, or goes on with the job that it has.
LEMMA StartsOpen ==
    ASSUME TypeInv, NEW t \in Coroutines, NEW d, NEW late,
           (\E name \in Names : Start(t, name)) \/ Dispatch(t) \/ Grab(t) \/ TakeFails(t)
    PROVE  ClosesWell(co'[t], d, late)
<1>1. ASSUME NEW name \in Names, Start(t, name)
      PROVE  Head(co'[t].jobs).do \notin {"close_inner", "shut"}
    <2>1. PICK cells : cells = co'[t].cells
        OBVIOUS
    <2>2. co'[t].jobs = Jobs(name, cells)
        BY <1>1, <2>1, Starting
    <2>3. PICK j : j = Head(Jobs(name, cells))
        OBVIOUS
    <2>4. \/ \E a, as : j = Put(a, as)
          \/ \E a, p : j = SyncWrite(a, p)
          \/ \E n : j = Recv(n)
          \/ \E p : \E do \in Names \cup {"flush", "close"} : j = Sync(do, p)
        BY <2>3 DEF Jobs, aprint
    <2>5. /\ \A a, as : Put(a, as).do = "put"
          /\ \A a, p : SyncWrite(a, p).do = "write"
          /\ \A n : Recv(n).do = "take"
          /\ \A do, p : Sync(do, p).do = do
        BY DEF Put, SyncWrite, Recv, Sync
    <2>6. \A do \in Names \cup {"flush", "close"} : do \notin {"close_inner", "shut"}
        BY NameAssumption
    <2> QED
        BY <2>2, <2>3, <2>4, <2>5, <2>6
<1>2. ASSUME Dispatch(t) \/ Grab(t) \/ TakeFails(t)
      PROVE  co'[t].at # "running" \/ Head(co'[t].jobs).do \notin {"close_inner", "shut"}
    <2>1. /\ co[t].at \in Live /\ co'[t].jobs = co[t].jobs
          /\ co[t].at = "running" => co'[t].at = "raised"
        BY <1>2, Moving
    <2>2. co[t] \in CoType /\ Shape(co[t]) /\ Sizes(co[t])
        BY <2>1 DEF TypeInv, InStep
    <2> QED
        BY <2>1, <2>2, ClosingJob
<1> QED
    BY <1>1, <1>2 DEF ClosesWell, IsAt

\* The steps of a close.
LEMMA ClosedNext ==
    ASSUME TypeInv, TypeInv', CloseInv, NEW t \in Coroutines,
           DoClose(t) \/ DoCloseInner(t) \/ DoShut(t) \/ CloseOther(t)
    PROVE  CloseInv'
<1>1. /\ io \in Layer /\ Tidy(io) /\ seen \in SeenType /\ co \in [Coroutines -> CoType] /\ co[t] \in CoType
    BY DEF TypeInv
<1>2. /\ stack' = stack /\ Buffered(io, io', {}) /\ SameRecord
      /\ \A u \in Coroutines : u # t => co'[u] = co[u]
    BY Closing
<1>3. ASSUME NEW j, co' = [co EXCEPT ![t].jobs = <<j>>]
      PROVE  Head(co'[t].jobs) = j
    BY <1>1, <1>3 DEF CoType
<1>4. CASE io'.w = io.w /\ (~io.w => io' = io) /\ ClosesWell(co'[t], io', seen'.late)
    BY <1>2, <1>4, ClosesOn DEF SameRecord
<1>5. CASE DoClose(t)
    <2>1. CASE ~io.w /\ io' = io /\ co' = [co EXCEPT ![t].at = "done"]
        <3>1. ClosesWell(co'[t], io', seen'.late)
            BY <2>1 DEF ClosesWell
        <3> QED
            BY <1>4, <2>1, <3>1
    <2>2. CASE io.w
        <3>1. PICK x \in CloseOuter(io) :
                  /\ io' = x.io
                  /\ co' = [co EXCEPT ![t].jobs =
                         <<Rest(IF stack.w = "fallback" THEN "close_inner" ELSE "shut", Job(t).on,
                                x.error # "none")>>]
            BY <1>5, <2>2 DEF DoClose
        <3>2. x.io.w = io.w /\ (x.error = "none" => x.io.outer = <<>>)
            BY <1>1, <3>1, CloseDescends
        <3>3. /\ Head(co'[t].jobs).do = IF stack.w = "fallback" THEN "close_inner" ELSE "shut"
              /\ ~Head(co'[t].jobs).failed => x.error = "none"
            <4>1. PICK f : f = (x.error # "none")
                OBVIOUS
            <4>2. PICK do : do = IF stack.w = "fallback" THEN "close_inner" ELSE "shut"
                OBVIOUS
            <4>3. ~f => x.error = "none"
                BY <4>1
            <4>4. co' = [co EXCEPT ![t].jobs = <<Rest(do, Job(t).on, f)>>]
                BY <3>1, <4>1, <4>2, Zenon
            <4>5. Head(co'[t].jobs) = Rest(do, Job(t).on, f)
                BY <1>3, <4>4
            <4>6. Head(co'[t].jobs).do = do /\ Head(co'[t].jobs).failed = f
                BY <4>5 DEF Rest
            <4> QED
                BY <4>2, <4>3, <4>6
        <3>4. stack.w # "fallback" => io'.inner = <<>>
            BY <1>2 DEF TypeInv, Tidy
        <3>5. ClosesWell(co'[t], io', seen'.late)
            <4>1. IsAt(co'[t], "close_inner") /\ ~Head(co'[t].jobs).failed => io'.outer = <<>>
                BY <3>1, <3>2, <3>3
            <4>2. IsAt(co'[t], "shut") /\ ~Head(co'[t].jobs).failed => io'.outer = <<>> /\ io'.inner = <<>>
                BY <3>1, <3>2, <3>3, <3>4 DEF IsAt
            <4> QED
                BY <4>1, <4>2, NothingIn DEF ClosesWell
        <3> QED
            BY <1>4, <2>2, <3>1, <3>2, <3>5
    <2> QED
        BY <1>5, <2>1, <2>2 DEF DoClose
<1>6. CASE DoCloseInner(t)
    <2>1. PICK x \in IF io.w THEN CloseInner(io) ELSE {Done(io, 0)} :
              /\ io' = x.io
              /\ co' = [co EXCEPT ![t].jobs = <<Rest("shut", Job(t).on, Job(t).failed \/ x.error # "none")>>]
        BY <1>6 DEF DoCloseInner
    <2>2. /\ Head(co'[t].jobs).do = "shut"
          /\ ~Head(co'[t].jobs).failed => ~Job(t).failed /\ x.error = "none"
        <3>1. PICK f : f = (Job(t).failed \/ x.error # "none")
            OBVIOUS
        <3>2. ~f => ~Job(t).failed /\ x.error = "none"
            BY <3>1
        <3>3. co' = [co EXCEPT ![t].jobs = <<Rest("shut", Job(t).on, f)>>]
            BY <2>1, <3>1, Zenon
        <3>4. Head(co'[t].jobs) = Rest("shut", Job(t).on, f)
            BY <1>3, <3>3
        <3> QED
            BY <3>2, <3>4 DEF Rest
    <2>3. CASE ~io.w
        <3>1. io' = io
            BY <2>1, <2>3 DEF Done
        <3>2. ClosesWell(co'[t], io', seen'.late)
            BY <2>3, <3>1 DEF ClosesWell
        <3> QED
            BY <1>4, <2>3, <3>1, <3>2
    <2>4. CASE io.w
        <3>1. /\ x.io.w = io.w /\ x.io.outer = io.outer /\ (x.error = "none" => x.io.inner = <<>>)
            BY <1>1, <2>1, <2>4, CloseDescends
        <3>2. ~Job(t).failed => Elements(io.outer) \subseteq seen.late
            BY <1>6, <2>4 DEF DoCloseInner, Running, Job, CloseInv, ClosesWell, IsAt
        <3>3. ClosesWell(co'[t], io', seen'.late)
            BY <1>2, <2>1, <2>2, <3>1, <3>2, NothingIn DEF ClosesWell, IsAt, SameRecord
        <3> QED
            BY <1>4, <2>1, <2>4, <3>1, <3>3
    <2> QED
        BY <2>3, <2>4
<1>7. ASSUME io'.outer = io.outer, io'.inner = io.inner, io'.w => io.w, NothingStranded',
             ClosesWell(co'[t], io', seen'.late)
      PROVE  CloseInv'
    <2>1. ASSUME NEW u \in Coroutines
          PROVE  ClosesWell(co'[u], io', seen'.late)
        <3>1. ClosesWell(co[u], io, seen.late)
            BY DEF CloseInv
        <3>2. ClosesWell(co[u], io', seen'.late)
            BY <1>2, <1>7, <3>1 DEF ClosesWell, SameRecord
        <3> QED
            BY <1>2, <1>7, <3>2
    <2>2. \A u \in Coroutines : ClosesWell(co[u], io, seen.late)'
        BY <2>1 DEF ClosesWell, IsAt
    <2> QED
        BY <1>7, <2>2 DEF CloseInv
<1>8. CASE DoShut(t)
    <2>1. /\ io' = Shut(io) /\ Running(t, {"shut"})
          /\ seen' = [seen EXCEPT !.cut = @ \/ (io.w /\ Job(t).failed)]
        BY <1>8 DEF DoShut
    <2>2. io'.outer = io.outer /\ io'.inner = io.inner /\ ~io'.w
        BY <1>1, <2>1, ShutDescends
    <2>3. (seen'.cut <=> seen.cut \/ (io.w /\ Job(t).failed)) /\ seen'.late = seen.late
        BY <1>1, <2>1 DEF SeenType
    <2>4. io.w /\ ~Job(t).failed => Elements(io.outer) \cup Elements(io.inner) \subseteq seen.late
        BY <2>1 DEF Running, Job, CloseInv, ClosesWell, IsAt
    <2>5. NothingStranded'
        BY <2>2, <2>3, <2>4 DEF CloseInv, NothingStranded
    <2> QED
        BY <1>7, <2>2, <2>5 DEF ClosesWell
<1>9. CASE CloseOther(t)
    <2>1. io' = CloseReader(io) /\ seen' = [seen EXCEPT !.cut = @ \/ (OneSocket /\ io.w)]
        BY <1>9 DEF CloseOther
    <2>2. /\ io'.outer = io.outer /\ io'.inner = io.inner /\ (io'.w => io.w)
          /\ ~OneSocket => io'.w = io.w
        BY <1>1, <2>1, ShutDescends
    <2>3. (seen'.cut <=> seen.cut \/ (OneSocket /\ io.w)) /\ seen'.late = seen.late
        BY <1>1, <2>1 DEF SeenType
    <2>4. NothingStranded'
        BY <2>2, <2>3 DEF CloseInv, NothingStranded
    <2>5. co'[t].at = "done"
        BY <1>1, <1>9 DEF CloseOther, CoType
    <2> QED
        BY <1>7, <2>2, <2>4, <2>5 DEF ClosesWell, IsAt
<1> QED
    BY <1>5, <1>6, <1>8, <1>9

LEMMA ClosesNext ==
    ASSUME TypeInv, CloseInv, [Next]_vars
    PROVE  CloseInv'
<1>1. io \in Layer /\ Tidy(io) /\ seen \in SeenType /\ stack' = stack /\ TypeInv'
    BY KindsOfSteps, TypesNext DEF TypeInv
<1>2. ASSUME io'.outer = io.outer, io'.inner = io.inner, io'.w = io.w,
             seen'.late = seen.late, seen'.cut = seen.cut,
             \A u \in Coroutines : co'[u] = co[u] \/ ClosesWell(co'[u], io', seen'.late)
      PROVE  CloseInv'
    <2>1. Buffered(io, io', {})
        BY <1>2 DEF Buffered
    <2> QED
        BY <1>1, <1>2, <2>1, ClosesOn
<1>3. CASE PeerSends \/ PeerCloses \/ PeerReceives \/ UNCHANGED vars
    <2>1. io'.outer = io.outer /\ io'.inner = io.inner /\ io'.w = io.w
        BY <1>1, <1>3 DEF PeerSends, PeerCloses, PeerReceives, Layer, vars
    <2>2. seen' = seen /\ co' = co
        BY <1>3 DEF PeerSends, PeerCloses, PeerReceives, vars
    <2> QED
        BY <1>2, <2>1, <2>2
<1>4. ASSUME NEW t \in Coroutines,
             (\E name \in Names : Start(t, name)) \/ Dispatch(t) \/ Grab(t) \/ TakeFails(t)
      PROVE  CloseInv'
    <2>1. io' = io /\ seen' = seen /\ \A u \in Coroutines : u # t => co'[u] = co[u]
        BY <1>4, Starting, Moving
    <2>2. ClosesWell(co'[t], io', seen'.late)
        BY <1>4, StartsOpen
    <2> QED
        BY <1>2, <2>1, <2>2
<1>5. ASSUME NEW t \in Coroutines, DoWrite(t)
      PROVE  CloseInv'
    <2>1. PICK j : j = Job(t)
        OBVIOUS
    <2>2. PICK x \in Written(j), c \in CoType : WroteBy(t, j, x, c)
        BY <1>5, <2>1, Writing
    <2>3. /\ Buffered(io, x.io, Elements(Take(j.cells, x.n))) /\ x.io.w = io.w
          /\ ~io.w => x.io.outer = io.outer /\ x.io.inner = io.inner
        BY <1>5, <2>1, <2>2, WritesIn, WrittenDescends
    <2>4. /\ io' = x.io /\ seen.late \subseteq seen'.late /\ seen'.cut = seen.cut
          /\ HasFlushed => Elements(Take(j.cells, x.n)) \subseteq seen'.late
          /\ co' = [co EXCEPT ![t] = c] /\ c.name = co[t].name
        BY <2>2 DEF WroteBy
    <2>5. co'[t] = c /\ \A u \in Coroutines : u # t => co'[u] = co[u]
        BY <2>4, OneGoesOn DEF TypeInv
    <2>6. co'[t].name \notin {"close", "aclose"}
        BY <1>5, <2>4, <2>5, WritesAs DEF Prints
    <2>7. ClosesWell(co'[t], io', seen'.late)
        BY <1>1, <2>6, NotClosing
    <2> QED
        BY <1>1, <2>3, <2>4, <2>5, <2>7, ClosesOn
<1>6. ASSUME NEW t \in Coroutines, DoFlush(t)
      PROVE  CloseInv'
    <2>1. PICK x \in flush(io) : io' = x.io /\ seen' = IF x.error = "none" THEN Promise(seen) ELSE seen
        BY <1>6, Flushing
    <2>2. Buffered(io, x.io, {}) /\ x.io.w = io.w /\ (~io.w => x.io = io)
        BY <1>1, FlushDescends
    <2>3. seen'.late = seen.late /\ seen'.cut = seen.cut
        BY <1>1, <2>1 DEF Promise, SeenType
    <2>4. /\ co'[t].name \notin {"close", "aclose"} /\ \A u \in Coroutines : u # t => co'[u] = co[u]
        BY <1>6, Flushing DEF Prints
    <2>5. ClosesWell(co'[t], io', seen'.late)
        BY <1>1, <2>4, NotClosing
    <2> QED
        BY <1>1, <2>1, <2>2, <2>3, <2>4, <2>5, ClosesOn
<1>7. ASSUME NEW t \in Coroutines, DoTake(t) \/ DoRead(t)
      PROVE  CloseInv'
    <2>1. io'.outer = io.outer /\ io'.inner = io.inner /\ io'.w = io.w
        BY <1>1, <1>7 DEF DoTake, DoRead, Layer
    <2>2. seen'.late = seen.late /\ seen'.cut = seen.cut
        BY <1>1, <1>7 DEF DoTake, DoRead, SeenType
    <2>3. co'[t].name \notin {"close", "aclose"} /\ \A u \in Coroutines : u # t => co'[u] = co[u]
        BY <1>7, Taking, Reading DEF Reads
    <2>4. ClosesWell(co'[t], io', seen'.late)
        BY <1>1, <2>3, NotClosing
    <2> QED
        BY <1>2, <2>1, <2>2, <2>3, <2>4
<1> QED
    BY <1>1, <1>3, <1>4, <1>5, <1>6, <1>7, ClosedNext, QuietOrWrites DEF Quiet

LEMMA ClosesInit == Init => CloseInv
<1> SUFFICES ASSUME Init PROVE CloseInv
    OBVIOUS
<1>1. io.w /\ co = [t \in Coroutines |-> NotStarted]
    BY DEF Init, Layers
<1>2. \A t \in Coroutines : co[t].at = "idle"
    BY <1>1 DEF NotStarted
<1> QED
    BY <1>1, <1>2 DEF CloseInv, NothingStranded, ClosesWell, IsAt

\* NothingStranded holds: what a closed writer has in its buffers was accepted after a close
\* had flushed them, unless close has raised an error, or the socket was closed through the
\* reader.
THEOREM ClosingEmpties == Spec => []NothingStranded
<1>1. Init => TypeInv /\ CloseInv
    BY TypesInit, ClosesInit
<1>2. TypeInv /\ CloseInv /\ [Next]_vars => (TypeInv /\ CloseInv)'
    BY TypesNext, ClosesNext
<1>3. CloseInv => NothingStranded
    BY DEF CloseInv
<1> QED
    BY <1>1, <1>2, <1>3, PTL DEF Spec

----------------------------------------------------------------------------
(* What is printed. *)

\* The parts of a concatenation.
LEMMA PartsBack ==
    ASSUME NEW s \in Seq(Cells), NEW t \in Seq(Cells)
    PROVE  Take(s \o t, Len(s)) = s /\ Drop(s \o t, Len(s)) = t
<1>1. /\ s \o t \in Seq(Cells) /\ Len(s \o t) = Len(s) + Len(t)
      /\ Len(s) \in Nat /\ Len(t) \in Nat
    BY ElementsConcat
<1>2. /\ Take(s \o t, Len(s)) \in Seq(Cells) /\ Drop(s \o t, Len(s)) \in Seq(Cells)
      /\ Take(s \o t, Len(s)) \o Drop(s \o t, Len(s)) = s \o t
      /\ Len(Take(s \o t, Len(s))) = IF Len(s) < Len(s \o t) THEN Len(s) ELSE Len(s \o t)
      /\ Len(Drop(s \o t, Len(s))) = IF Len(s) < Len(s \o t) THEN Len(s \o t) - Len(s) ELSE 0
    BY <1>1, TakeAndDrop
<1>3. PICK a \in Seq(Cells) : a = Take(s \o t, Len(s))
    BY <1>2
<1>4. PICK b \in Seq(Cells) : b = Drop(s \o t, Len(s))
    BY <1>2
<1>5. a \o b = s \o t
    BY <1>2, <1>3, <1>4
<1>6. Len(a) = Len(s) /\ Len(b) = Len(t)
    BY <1>1, <1>2, <1>3, <1>4
<1>7. ASSUME NEW i \in 1 .. Len(s)
      PROVE  a[i] = s[i]
    <2>1. (a \o b)[i] = a[i] /\ (s \o t)[i] = s[i]
        BY <1>6, ConcatProperties
    <2> QED
        BY <1>5, <2>1
<1>8. ASSUME NEW i \in 1 .. Len(t)
      PROVE  b[i] = t[i]
    <2>1. (a \o b)[Len(s) + i] = b[i] /\ (s \o t)[Len(s) + i] = t[i]
        BY <1>6, ConcatProperties
    <2> QED
        BY <1>5, <2>1
<1>9. a = s /\ b = t
    BY <1>6, <1>7, <1>8, SeqEqual
<1> QED
    BY <1>3, <1>4, <1>9

\* A line is whole in s.
LineIn(s, c) == \E p, q \in Seq(Cells) : s = p \o (c \o q)

LEMMA LineStays ==
    ASSUME NEW s \in Seq(Cells), NEW c \in Seq(Cells), NEW a \in Seq(Cells), LineIn(s, c)
    PROVE  LineIn(s \o a, c)
<1>1. PICK p \in Seq(Cells), q \in Seq(Cells) : s = p \o (c \o q)
    BY DEF LineIn
<1>2. PICK d \in Seq(Cells) : d = c \o q
    BY ElementsConcat
<1>3. (p \o d) \o a = p \o (d \o a)
    BY Associative
<1>4. (c \o q) \o a = c \o (q \o a)
    BY Associative
<1>5. q \o a \in Seq(Cells)
    BY ElementsConcat
<1>6. s \o a = p \o (c \o (q \o a))
    BY <1>1, <1>2, <1>3, <1>4
<1> QED
    BY <1>5, <1>6 DEF LineIn

LEMMA LineAtEnd ==
    ASSUME NEW s \in Seq(Cells), NEW c \in Seq(Cells)
    PROVE  LineIn(s \o c, c)
<1>1. c \o <<>> = c /\ <<>> \in Seq(Cells)
    BY ConcatEmptySeq
<1>2. s \o c = s \o (c \o <<>>)
    BY <1>1
<1> QED
    BY <1>1, <1>2 DEF LineIn

LEMMA LineCells ==
    ASSUME NEW s \in Seq(Cells), NEW c \in Seq(Cells), LineIn(s, c)
    PROVE  Elements(c) \subseteq Elements(s)
<1>1. PICK p \in Seq(Cells), q \in Seq(Cells) : s = p \o (c \o q)
    BY DEF LineIn
<1>2. PICK d \in Seq(Cells) : d = c \o q
    BY ElementsConcat
<1>3. Elements(c \o q) = Elements(c) \cup Elements(q) /\ Elements(p \o d) = Elements(p) \cup Elements(d)
    BY ElementsConcat
<1>4. Elements(d) = Elements(c) \cup Elements(q)
    BY <1>2, <1>3
<1>5. s = p \o d
    BY <1>1, <1>2
<1>6. Elements(s) = Elements(p) \cup Elements(d)
    BY <1>3, <1>5
<1> QED
    BY <1>4, <1>6

\* Where it is.
LEMMA LinePlace ==
    ASSUME NEW s \in Seq(Cells), NEW c \in Seq(Cells), Len(c) = 2, LineIn(s, c)
    PROVE  \E i \in DOMAIN s : Take(Drop(s, i - 1), 2) = c
<1>1. PICK p \in Seq(Cells), q \in Seq(Cells) : s = p \o (c \o q)
    BY DEF LineIn
<1>2. PICK d \in Seq(Cells) : d = c \o q
    BY ElementsConcat
<1>3. Drop(p \o d, Len(p)) = d /\ Take(c \o q, Len(c)) = c
    BY PartsBack
<1>4. /\ Len(p \o d) = Len(p) + Len(d) /\ Len(c \o q) = Len(c) + Len(q)
      /\ Len(p) \in Nat /\ Len(q) \in Nat
    <2>1. Len(p \o d) = Len(p) + Len(d)
        BY ElementsConcat
    <2>2. Len(c \o q) = Len(c) + Len(q)
        BY ElementsConcat
    <2>3. Len(p) \in Nat /\ Len(q) \in Nat
        OBVIOUS
    <2> QED
        BY <2>1, <2>2, <2>3
<1>5. s = p \o d
    BY <1>1, <1>2
<1>6. Drop(s, Len(p)) = d /\ Take(d, 2) = c
    BY <1>2, <1>3, <1>5
<1>7. Len(s) = Len(p) + 2 + Len(q)
    <2>1. Len(s) = Len(p) + Len(d) /\ Len(d) = 2 + Len(q)
        BY <1>2, <1>4, <1>5
    <2>2. Len(d) \in Nat
        OBVIOUS
    <2> QED
        BY <1>4, <2>1, <2>2
<1>8. PICK n \in Nat : n = Len(p)
    BY <1>4
<1>9. n + 1 \in 1 .. Len(s) /\ (n + 1) - 1 = n
    BY <1>4, <1>7, <1>8
<1>10. DOMAIN s = 1 .. Len(s)
    OBVIOUS
<1>11. Take(Drop(s, (n + 1) - 1), 2) = c
    BY <1>6, <1>8, <1>9
<1> QED
    BY <1>9, <1>10, <1>11

\* What keeps its place: what has left the outer buffer, and what a plain stream holds.
Solid(d) == IF stack.w = "plain" THEN Bottom(d) ELSE Sunk(d)

LEMMA SolidSeq ==
    ASSUME TypeInv, NEW d \in Layer, Tidy(d)
    PROVE  /\ Solid(d) \in Seq(Cells) /\ Elements(Solid(d)) \subseteq Elements(Bottom(d))
<1>1. Sunk(d) \in Seq(Cells) /\ Bottom(d) \in Seq(Cells) /\ d.outer \in Seq(Cells)
    BY Descending, LayerFields
<1>2. PICK u \in Seq(Cells) : u = Sunk(d)
    BY <1>1
<1>3. Elements(u \o d.outer) = Elements(u) \cup Elements(d.outer)
    BY <1>1, ElementsConcat
<1>4. Elements(Sunk(d)) \subseteq Elements(Bottom(d))
    BY <1>2, <1>3 DEF Bottom
<1> QED
    BY <1>1, <1>4 DEF Solid

\* A step adds to that at its end, as a write does.
LEMMA SolidGrows ==
    ASSUME TypeInv, [Next]_vars
    PROVE  /\ \E a \in Seq(Cells) : Solid(io') = Solid(io) \o a
           /\ Elements(io.sink) \subseteq Elements(io'.sink)
<1>1. io \in Layer /\ Tidy(io) /\ Bottom(io) \in Seq(Cells) 
    BY Descending DEF TypeInv
<1>2. Bottom(io) \o <<>> = Bottom(io) /\ <<>> \in Seq(Cells)
    BY <1>1, ConcatEmptySeq
<1>3. ASSUME NEW a \in Seq(Cells), stack.w = "plain" => Bottom(io') = Bottom(io) \o a, Lowers(io, io')
      PROVE  /\ \E s \in Seq(Cells) : Solid(io') = Solid(io) \o s
             /\ Elements(io.sink) \subseteq Elements(io'.sink)
    BY <1>3 DEF Solid, Lowers
<1>4. CASE Quiet
    <2>1. Lowers(io, io') /\ Bottom(io') = Bottom(io)
        BY <1>4, QuietKeeps DEF Keeps
    <2>2. Bottom(io') = Bottom(io) \o <<>>
        BY <1>2, <2>1
    <2> QED
        BY <1>2, <1>3, <2>1, <2>2
<1>6. ASSUME NEW t \in Coroutines, DoWrite(t)
      PROVE  /\ \E s \in Seq(Cells) : Solid(io') = Solid(io) \o s
             /\ Elements(io.sink) \subseteq Elements(io'.sink)
    <2>1. PICK j : j = Job(t)
        OBVIOUS
    <2>2. PICK x \in Written(j), c \in CoType : WroteBy(t, j, x, c)
        BY <1>6, <2>1, Writing
    <2>3. Running(t, {"put", "write"})
        BY <1>6, WritesIn
    <2>4. /\ Descends(io, x.io) /\ x.n \in Nat
          /\ j.do = "write" => Bottom(x.io) = Bottom(io) \o Take(j.cells, x.n)
        BY <2>1, <2>2, <2>3, WrittenDescends
    <2>5. j.cells \in Seq(Cells) /\ (stack.w = "plain" => j.do = "write")
        <3>1. co[t] \in CoType /\ Shape(co[t]) /\ Sizes(co[t]) /\ j = Head(co[t].jobs)
              /\ j.do \in {"put", "write"}
            BY <2>1, <2>3 DEF TypeInv, InStep, Live, Running, Job
        <3> QED
            BY <3>1, WritingJob
    <2>6. PICK a \in Seq(Cells) : a = Take(j.cells, x.n)
        BY <2>4, <2>5, TakeAndDrop
    <2>7. io' = x.io
        BY <2>2 DEF WroteBy
    <2>8. (stack.w = "plain" => Bottom(io') = Bottom(io) \o a) /\ Lowers(io, io')
        BY <2>4, <2>5, <2>6, <2>7 DEF Descends, Lowers
    <2> QED
        BY <1>3, <2>8
<1> QED
    BY <1>4, <1>6, QuietOrWrites

\* A line has been written, but perhaps not flushed.
Printed(c) == c.name \in Prints /\ (c.at = "done" \/ (c.at \in Live /\ Len(c.jobs) = 1))

Deep == stack.w = "fallback" /\ stack.buffered

LineOf(c, d) ==
    /\ Printed(c) => LineIn(Solid(d), c.cells)
    /\ c.name \in Prints /\ c.at = "done" => Deep \/ Elements(c.cells) \subseteq Elements(d.sink)

LinesInv == stack.w # "socket" => \A t \in Coroutines : LineOf(co[t], io)

\* What is printed stays, unless its coroutine goes on.
LEMMA LineOfStays ==
    ASSUME TypeInv, NEW c \in CoType, LineOf(c, io), stack' = stack,
           NEW a \in Seq(Cells), NEW e, Solid(e) = Solid(io) \o a,
           Elements(io.sink) \subseteq Elements(e.sink)
    PROVE  LineOf(c, e)
<1>1. c.cells \in Seq(Cells) /\ Solid(io) \in Seq(Cells)
    BY CoFields, SolidSeq DEF TypeInv
<1>2. PICK s \in Seq(Cells) : s = Solid(io)
    BY <1>1
<1>3. Printed(c) => LineIn(s \o a, c.cells)
    <2> SUFFICES ASSUME Printed(c)
                 PROVE  LineIn(s \o a, c.cells)
        OBVIOUS
    <2>1. LineIn(s, c.cells)
        BY <1>2 DEF LineOf
    <2> QED
        BY <1>1, <2>1, LineStays
<1>4. Printed(c) => LineIn(Solid(e), c.cells)
    BY <1>2, <1>3
<1> QED
    BY <1>4 DEF LineOf

\* A coroutine that prints writes its line.
LEMMA LineWritten ==
    ASSUME TypeInv, LinesInv, stack.w # "socket", NEW t \in Coroutines, DoWrite(t)
    PROVE  co'[t].name \in Prints => co'[t].at # "done" /\ (Printed(co'[t]) => LineIn(Solid(io'), co'[t].cells))
<1> SUFFICES ASSUME co'[t].name \in Prints
             PROVE  co'[t].at # "done" /\ (Printed(co'[t]) => LineIn(Solid(io'), co'[t].cells))
    OBVIOUS
<1>1. PICK j : j = Job(t)
    OBVIOUS
<1>2. PICK x \in Written(j), c \in CoType : WroteBy(t, j, x, c)
    BY <1>1, Writing
<1>3. Running(t, {"put", "write"})
    BY WritesIn
<1>4. co'[t] = c /\ c.name = co[t].name /\ c.cells = co[t].cells /\ io' = x.io
    BY <1>2 DEF WroteBy, TypeInv
<1>5. co[t] \in CoType /\ Shape(co[t]) /\ Sizes(co[t]) /\ j = Head(co[t].jobs)
      /\ j.do \in {"put", "write"}
    BY <1>1, <1>3 DEF TypeInv, InStep, Live, Running, Job
<1>6. co[t].name \in Prints
    BY <1>4
<1>7. /\ Len(co[t].jobs) = 2 /\ j.cells = co[t].cells /\ j.cells \in Seq(Cells)
      /\ j.do = "put" => stack.w # "plain"
      /\ j.do = "write" => stack.w = "plain"
    BY <1>5, <1>6, WritingJob DEF Prints
<1>8. /\ Descends(io, x.io) /\ x.n \in Nat
      /\ j.do = "write" => Bottom(x.io) = Bottom(io) \o Take(j.cells, x.n)
      /\ j.do = "put" => Sunk(x.io) = Sunk(io) \o Take(j.cells, x.n)
      /\ x.error = "none" => x.n = Len(j.cells)
    BY <1>1, <1>2, <1>3, WrittenDescends
<1>9. CASE x.error # "none"
    <2>1. c.at = "raised" \/ (c.at = "ready" /\ Len(c.jobs) = 2)
        BY <1>2, <1>9 DEF WroteBy
    <2> QED
        BY <1>4, <2>1 DEF Printed, Live
<1>10. CASE x.error = "none"
    <2>1. c.at = "ready"
        BY <1>2, <1>7, <1>10 DEF WroteBy
    <2>2. Take(j.cells, x.n) = j.cells
        BY <1>7, <1>8, <1>10, PartsOf
    <2>3. Solid(io') = Solid(io) \o j.cells
        BY <1>4, <1>5, <1>7, <1>8, <2>2 DEF Solid
    <2>4. Solid(io) \in Seq(Cells)
        BY SolidSeq DEF TypeInv
    <2>5. PICK s \in Seq(Cells) : s = Solid(io)
        BY <2>4
    <2>6. LineIn(s \o j.cells, j.cells)
        BY <1>7, LineAtEnd
    <2>7. LineIn(Solid(io'), j.cells)
        BY <2>3, <2>5, <2>6
    <2> QED
        BY <1>4, <1>7, <2>1, <2>7
<1> QED
    BY <1>9, <1>10

\* And flushes it.
LEMMA LineFlushed ==
    ASSUME TypeInv, LinesInv, stack.w # "socket", NEW t \in Coroutines, DoFlush(t),
           co'[t].name \in Prints, co'[t].at = "done"
    PROVE  Deep \/ Elements(co'[t].cells) \subseteq Elements(io'.sink)
<1>1. /\ co[t].at = "running" /\ Len(co[t].jobs) = 1
      /\ co'[t].name = co[t].name /\ co'[t].cells = co[t].cells
      /\ \E x \in flush(io) : io' = x.io /\ co'[t].at = IF x.error = "none" THEN "done" ELSE "raised"
    BY Flushing
<1>2. PICK x \in flush(io) : io' = x.io /\ x.error = "none"
    BY <1>1
<1>3. io \in Layer /\ Tidy(io) /\ Solid(io) \in Seq(Cells) /\ Elements(Solid(io)) \subseteq Elements(Bottom(io))
    BY SolidSeq DEF TypeInv
<1>4. /\ Descends(io, x.io) /\ Bottom(x.io) = Bottom(io)
      /\ x.io.outer = <<>> /\ (x.io.inner = <<>> \/ Deep)
    BY <1>2, <1>3, FlushDescends DEF Deep
<1>5. x.io \in Layer /\ Tidy(x.io)
    BY <1>4 DEF Descends
<1>6. Elements(Bottom(x.io)) = Elements(x.io.sink) \cup Elements(x.io.inner) \cup Elements(x.io.outer)
    BY <1>5, Descending
<1>7. Elements(co[t].cells) \subseteq Elements(Solid(io))
    <2>1. Printed(co[t])
        BY <1>1 DEF Printed, Live
    <2>2. LineIn(Solid(io), co[t].cells)
        BY <2>1 DEF LinesInv, LineOf
    <2>3. co[t].cells \in Seq(Cells)
        BY CoFields DEF TypeInv
    <2>4. PICK s \in Seq(Cells) : s = Solid(io)
        BY <1>3
    <2>5. PICK k \in Seq(Cells) : k = co[t].cells
        BY <2>3
    <2>6. Elements(k) \subseteq Elements(s)
        BY <2>2, <2>4, <2>5, LineCells
    <2> QED
        BY <2>4, <2>5, <2>6
<1>8. Elements(<<>>) = {}
    BY NothingIn
<1>9. Elements(co[t].cells) \subseteq Elements(Bottom(x.io))
    BY <1>3, <1>4, <1>7
<1>10. CASE x.io.inner = <<>>
    <2>1. Elements(Bottom(x.io)) = Elements(x.io.sink)
        BY <1>4, <1>6, <1>8, <1>10
    <2> QED
        BY <1>1, <1>2, <1>9, <2>1
<1> QED
    BY <1>4, <1>10

LEMMA LinesNext == TypeInv /\ LinesInv /\ [Next]_vars => LinesInv'
<1> SUFFICES ASSUME TypeInv, LinesInv, [Next]_vars
             PROVE  LinesInv'
    OBVIOUS
<1>1. TypeInv' /\ stack' = stack
    BY TypesNext, KindsOfSteps
<1>2. PICK a \in Seq(Cells) : Solid(io') = Solid(io) \o a /\ Elements(io.sink) \subseteq Elements(io'.sink)
    BY SolidGrows
<1> SUFFICES ASSUME stack.w # "socket", NEW u \in Coroutines
             PROVE  LineOf(co'[u], io')
    BY <1>1 DEF LinesInv, LineOf, Solid, Deep, Printed, Bottom, Sunk
<1>3. co[u] \in CoType /\ LineOf(co[u], io) /\ LineOf(co[u], io')
    <2>1. co[u] \in CoType /\ LineOf(co[u], io)
        BY DEF TypeInv, LinesInv
    <2>2. PICK e : e = io'
        OBVIOUS
    <2>3. Solid(e) = Solid(io) \o a /\ Elements(io.sink) \subseteq Elements(e.sink)
        BY <1>2, <2>2
    <2>4. LineOf(co[u], e)
        BY <1>1, <2>1, <2>3, LineOfStays
    <2> QED
        BY <2>1, <2>2, <2>4
<1>4. CASE co'[u] = co[u]
    BY <1>3, <1>4
<1>5. ASSUME NEW name \in Names, Start(u, name)
      PROVE  LineOf(co'[u], io')
    <2>1. /\ co'[u].name = name /\ co'[u].at \in {"queued", "running", "raised"}
          /\ co'[u].jobs = Jobs(name, co'[u].cells)
        BY <1>5, Starting
    <2>2. co'[u].name \in Prints => Len(co'[u].jobs) # 1
        BY <2>1 DEF Jobs, Prints, aprint
    <2>3. co'[u].at # "done"
        BY <2>1
    <2>4. ~Printed(co'[u])
        BY <2>2, <2>3 DEF Printed
    <2> QED
        BY <2>3, <2>4 DEF LineOf
<1>6. CASE Dispatch(u) \/ Grab(u) \/ TakeFails(u)
    <2>1. /\ co[u].at \in Live /\ co'[u].at \in {"queued", "running", "raised"}
          /\ co'[u].name = co[u].name /\ co'[u].cells = co[u].cells /\ co'[u].jobs = co[u].jobs
        BY <1>6, Moving
    <2>2. Printed(co'[u]) => Printed(co[u])
        BY <2>1 DEF Printed, Live
    <2> QED
        BY <1>3, <2>1, <2>2 DEF LineOf
<1>7. CASE DoWrite(u)
    <2>1. co'[u].name \in Prints =>
              co'[u].at # "done" /\ (Printed(co'[u]) => LineIn(Solid(io'), co'[u].cells))
        BY <1>7, LineWritten
    <2> QED
        BY <2>1 DEF LineOf, Printed
<1>8. CASE DoFlush(u)
    <2>1. /\ co[u].at = "running" /\ Len(co[u].jobs) = 1
          /\ co'[u].name = co[u].name /\ co'[u].cells = co[u].cells
          /\ co'[u].at \in {"done", "raised"}
        BY <1>8, Flushing
    <2>2. Printed(co'[u]) => Printed(co[u])
        BY <2>1 DEF Printed, Live
    <2>3. co'[u].name \in Prints /\ co'[u].at = "done" =>
              Deep \/ Elements(co'[u].cells) \subseteq Elements(io'.sink)
        BY <1>8, LineFlushed
    <2> QED
        BY <1>3, <2>1, <2>2, <2>3 DEF LineOf
<1>9. CASE DoClose(u) \/ DoCloseInner(u) \/ DoShut(u) \/ CloseOther(u)
    <2>1. co'[u].name \in {"close", "aclose", "close_other"}
        BY <1>9, Closing
    <2>2. co'[u].name \notin Prints
        BY <2>1 DEF Prints
    <2> QED
        BY <2>2 DEF LineOf, Printed
<1>10. CASE DoTake(u) \/ DoRead(u)
    <2>1. co'[u].name \in Reads
        BY <1>10, Taking, Reading DEF Reads
    <2>2. co'[u].name \notin Prints
        BY <2>1 DEF Reads, Prints
    <2> QED
        BY <2>2 DEF LineOf, Printed
<1>11. ASSUME NEW t \in Coroutines, t # u,
              \/ \E name \in Names : Start(t, name)
              \/ Dispatch(t) \/ Grab(t) \/ TakeFails(t) \/ DoWrite(t)
              \/ DoFlush(t) \/ DoTake(t) \/ DoRead(t)
              \/ DoClose(t) \/ DoCloseInner(t) \/ DoShut(t) \/ CloseOther(t)
       PROVE  co'[u] = co[u]
    <2>1. CASE DoWrite(t)
        <3>1. PICK x \in Written(Job(t)), c \in CoType : WroteBy(t, Job(t), x, c)
            BY <2>1, Writing
        <3> QED
            BY <1>11, <3>1 DEF WroteBy, TypeInv
    <2> QED
        BY <1>11, <2>1, Starting, Moving, Flushing, Closing, Taking, Reading
<1>12. CASE PeerSends \/ PeerCloses \/ PeerReceives \/ UNCHANGED vars
    BY <1>4, <1>12 DEF PeerSends, PeerCloses, PeerReceives, vars
<1> QED
    BY <1>4, <1>5, <1>6, <1>7, <1>8, <1>9, <1>10, <1>11, <1>12, QuietOrWrites DEF Quiet

\* LinesPrinted holds: a line that was printed is whole, and below all buffers, except on a
\* socket, or a buffered stream of the fallback engine.
THEOREM PrintedWhole == Spec => []LinesPrinted
<1>1. Init => LinesInv
    BY DEF Init, NotStarted, LinesInv, LineOf, Printed, Prints
<1>2. ASSUME TypeInv, LinesInv
      PROVE  LinesPrinted
    <2> SUFFICES ASSUME NEW t \in Coroutines, co[t].name \in Prints, co[t].at = "done",
                        stack.w # "socket"
                 PROVE  /\ \E i \in DOMAIN Below : Take(Drop(Below, i - 1), 2) = co[t].cells
                        /\ Elements(co[t].cells) \subseteq Elements(io.sink) \/ Deep
        BY DEF LinesPrinted, Deep
    <2>1. co[t] \in CoType /\ Sizes(co[t]) /\ io \in Layer /\ Tidy(io)
        BY <1>2 DEF TypeInv, InStep
    <2>2. LineIn(Solid(io), co[t].cells) /\ (Elements(co[t].cells) \subseteq Elements(io.sink) \/ Deep)
        BY <1>2 DEF LinesInv, LineOf, Printed
    <2>3. PICK k \in Seq(Cells) : k = co[t].cells
        BY <2>1, CoFields
    <2>4. Len(k) = 2
        BY <2>1, <2>3 DEF Sizes, Writes
    <2>5. PICK s \in Seq(Cells) : s = Solid(io)
        BY <1>2, <2>1, SolidSeq
    <2>6. LineIn(s, k)
        BY <2>2, <2>3, <2>5
    <2>7. PICK o \in Seq(Cells) : o = IF stack.w = "plain" THEN <<>> ELSE io.outer
        <3>1. io.outer \in Seq(Cells)
            BY <2>1, LayerFields
        <3>2. <<>> \in Seq(Cells)
            OBVIOUS
        <3> QED
            BY <3>1, <3>2, Zenon
    <2>8. s \o <<>> = s
        BY ConcatEmptySeq
    <2>9. Below = s \o o
        BY <2>5, <2>7, <2>8 DEF Solid, Bottom, Sunk, Below
    <2>10. LineIn(s \o o, k)
        BY <2>6, LineStays
    <2>11. PICK b \in Seq(Cells) : b = s \o o
        BY ElementsConcat
    <2>12. LineIn(b, k)
        BY <2>10, <2>11
    <2>13. \E i \in DOMAIN b : Take(Drop(b, i - 1), 2) = k
        BY <2>4, <2>12, LinePlace
    <2>14. Below = b
        BY <2>9, <2>11
    <2> QED
        BY <2>2, <2>3, <2>13, <2>14
<1> QED
    BY <1>1, <1>2, LinesNext, WritesAlways, PTL DEF Spec

=============================================================================
