-------------------------- MODULE CacheStoreProofs --------------------------
(***************************************************************************)
(* Lemmas about the operators of CacheStore.  They are stated for entries  *)
(* of any set S, so that choosing S says what is preserved: the operators  *)
(* keep a store a sequence of entries of S, whatever S is.  The second half *)
(* is about the byte counter: what each operator does to the sum of sizes. *)
(***************************************************************************)
EXTENDS CacheStore, SequenceFacts

(* The entry of a key that is held is one of the store's. *)
LEMMA GetHeld ==
  ASSUME NEW S, NEW s \in Seq(S), NEW k, Holds(s, k)
  PROVE  /\ Index(s, k) \in 1 .. Len(s)
         /\ Get(s, k) \in S
         /\ Get(s, k).key = k
BY DEF Holds, Index, Get

LEMMA WithoutType ==
  ASSUME NEW S, NEW s \in Seq(S), NEW k
  PROVE  Without(s, k) \in Seq(S)
<1>1. CASE Holds(s, k)
  <2> DEFINE i == Index(s, k)
  <2>1. i \in 1 .. Len(s)
    BY <1>1, GetHeld
  <2>2. SubSeq(s, 1, i - 1) \in Seq(S) /\ SubSeq(s, i + 1, Len(s)) \in Seq(S)
    <3> HIDE DEF i
    <3> QED BY <2>1, SubSeqProperties
  <2> QED
    BY <1>1, <2>2, ConcatProperties DEF Without, RemoveAt
<1>2. CASE ~Holds(s, k)
  BY <1>2 DEF Without
<1> QED BY <1>1, <1>2

LEMMA DropOldestType ==
  ASSUME NEW S, NEW c, c.lru \in Seq(S), NEW n \in Nat
  PROVE  DropOldest(c, n).lru \in Seq(S)
<1>1. SubSeq(c.lru, n + 1, Len(c.lru)) \in Seq(S)
  BY SubSeqProperties
<1> QED BY <1>1 DEF DropOldest

(* A lookup keeps, moves or deletes entries. *)
LEMMA AfterLookupType ==
  ASSUME NEW S, NEW c, DOMAIN c = {"lru", "bytes"}, c.lru \in Seq(S), NEW k, NEW t
  PROVE  /\ AfterLookup(c, k, t).lru \in Seq(S)
         /\ DOMAIN AfterLookup(c, k, t) = {"lru", "bytes"}
<1>1. Without(c.lru, k) \in Seq(S)
  BY WithoutType
<1>2. CASE Classify(c.lru, k, t) = "MISS"
  BY <1>1, <1>2 DEF AfterLookup, Delete
<1>3. CASE Classify(c.lru, k, t) # "MISS"
  <2>1. Holds(c.lru, k)
    BY <1>3 DEF Classify
  <2>2. Append(Without(c.lru, k), Get(c.lru, k)) \in Seq(S)
    BY <1>1, <2>1, GetHeld
  <2> QED BY <1>3, <2>2 DEF AfterLookup, MoveToEnd
<1> QED BY <1>2, <1>3

(* A put adds its entry and drops some of the others. *)
LEMMA AfterPutType ==
  ASSUME NEW S, NEW c, c.lru \in Seq(S), NEW e \in S
  PROVE  /\ AfterPut(c, e).lru \in Seq(S)
         /\ DOMAIN AfterPut(c, e) = {"lru", "bytes"}
<1> DEFINE c1 == Insert(c, e)
           c2 == EvictByCount(c1)
<1>1. c1.lru \in Seq(S) /\ DOMAIN c1 = {"lru", "bytes"}
  BY WithoutType DEF Insert
<1>2. c2.lru \in Seq(S) /\ DOMAIN c2 = {"lru", "bytes"}
  <2> DEFINE n == IF Len(c1.lru) > MaxEntries THEN Len(c1.lru) - MaxEntries ELSE 0
  <2>1. n \in Nat
    BY <1>1, CacheConfig
  <2>2. c2 = DropOldest(c1, n)
    BY DEF EvictByCount
  <2> HIDE DEF n, c1, c2
  <2> QED BY <1>1, <2>1, <2>2, DropOldestType DEF DropOldest
<1>3. /\ EvictByBytes(c2).lru \in Seq(S)
      /\ DOMAIN EvictByBytes(c2) = {"lru", "bytes"}
  <2> HIDE DEF c1, c2
  <2>1. CASE MaxTotal = 0
    BY <1>2, <2>1 DEF EvictByBytes
  <2>2. CASE MaxTotal # 0
    <3> DEFINE T == {n \in 0 .. Len(c2.lru) : Fits(DropOldest(c2, n))}
    <3>1. DropOldest(c2, Len(c2.lru)).lru = <<>>
      BY <1>2, SubSeqEmpty DEF DropOldest
    <3>2. Len(c2.lru) \in T
      BY <1>2, <3>1 DEF Fits
    <3>3. Min(T) \in Nat
      <4>1. T \subseteq Nat /\ T # {}
        BY <1>2, <3>2
      <4> QED BY <4>1, MinNat
    <3>4. EvictByBytes(c2) = DropOldest(c2, Min(T))
      BY <2>2 DEF EvictByBytes
    <3> HIDE DEF T
    <3> QED BY <1>2, <3>3, <3>4, DropOldestType DEF DropOldest
  <2> QED BY <2>1, <2>2
<1> QED BY <1>3 DEF AfterPut

-----------------------------------------------------------------------------
(* The byte counter *)

(* f gives the size of every prefix of s. *)
UpTo(s, f) ==
    /\ f \in [0 .. Len(s) -> Int]
    /\ f[0] = 0
    /\ \A i \in 1 .. Len(s) : f[i] = f[i - 1] + s[i].size

Sized(s) == \A i \in DOMAIN s : s[i].size \in Nat

LEMMA UpToExists ==
  ASSUME NEW S, NEW s \in Seq(S), Sized(s)
  PROVE  \E f : UpTo(s, f) /\ f \in [0 .. Len(s) -> Nat]
<1> DEFINE N == Len(s)
           d == [i \in 1 .. N |-> s[i].size]
<1>1. N \in Nat /\ \A i \in 1 .. N : s[i].size \in Nat
  BY DEF Sized
<1>2. d \in [1 .. N -> Nat] /\ \A i \in 1 .. N : d[i] = s[i].size
  BY <1>1
<1> HIDE DEF d, N
<1>3. PICK f \in [0 .. N -> Nat] : f[0] = 0 /\ \A i \in 1 .. N : f[i] = f[i - 1] + d[i]
  BY <1>1, <1>2, RunningTotal
<1> QED BY <1>2, <1>3 DEF UpTo, N

LEMMA UpToStep ==
  ASSUME NEW S, NEW s \in Seq(S), Sized(s), NEW f, UpTo(s, f), NEW i \in 1 .. Len(s)
  PROVE  /\ f[i] \in Int /\ f[i - 1] \in Int /\ s[i].size \in Nat
         /\ f[i] = f[i - 1] + s[i].size
<1>1. i \in 0 .. Len(s) /\ i - 1 \in 0 .. Len(s) /\ i \in DOMAIN s
  OBVIOUS
<1>2. f[i] \in Int /\ f[i - 1] \in Int
  BY <1>1 DEF UpTo
<1>3. s[i].size \in Nat
  BY <1>1 DEF Sized
<1> QED BY <1>2, <1>3 DEF UpTo

LEMMA BytesIs ==
  ASSUME NEW S, NEW s \in Seq(S), NEW f, UpTo(s, f)
  PROVE  Bytes(s) = f[Len(s)]
<1> DEFINE N == Len(s)
           Eq(g) == g = [i \in 0 .. N |-> IF i = 0 THEN 0 ELSE g[i - 1] + s[i].size]
           g == CHOOSE h : Eq(h)
<1>0. N \in Nat
  OBVIOUS
<1>1. Eq(f)
  <2>1. ASSUME NEW i \in 0 .. N
        PROVE  f[i] = IF i = 0 THEN 0 ELSE f[i - 1] + s[i].size
    <3>1. i # 0 => i \in 1 .. Len(s)
      BY <1>0
    <3> QED BY <3>1 DEF UpTo
  <2>2. f = [i \in 0 .. N |-> f[i]]
    BY DEF UpTo
  <2> QED BY <2>1, <2>2
<1>2. Eq(g)
  BY <1>1
<1>3. Bytes(s) = g[N]
  BY DEF Bytes
<1> HIDE DEF N, g
<1> DEFINE T == {n \in Nat : n =< N => g[n] = f[n]}
<1>4. 0 \in T
  BY <1>0, <1>1, <1>2
<1>5. ASSUME NEW n \in Nat, n \in T PROVE n + 1 \in T
  <2> SUFFICES ASSUME n + 1 =< N PROVE g[n + 1] = f[n + 1]
    OBVIOUS
  <2>1. n + 1 \in 0 .. N /\ n + 1 # 0 /\ (n + 1) - 1 = n /\ g[n] = f[n]
    BY <1>0, <1>5
  <2>2. g[n + 1] = g[n] + s[n + 1].size
    BY <1>2, <2>1
  <2>3. f[n + 1] = f[n] + s[n + 1].size
    BY <1>1, <2>1
  <2> QED BY <2>1, <2>2, <2>3
<1> HIDE DEF T
<1>6. N \in T
  BY <1>0, <1>4, <1>5, NumbersFromZero
<1> QED BY <1>0, <1>3, <1>6 DEF T, N

LEMMA BytesType ==
  ASSUME NEW S, NEW s \in Seq(S), Sized(s)
  PROVE  Bytes(s) \in Nat
<1>1. PICK f : UpTo(s, f) /\ f \in [0 .. Len(s) -> Nat]
  BY UpToExists
<1>2. Bytes(s) = f[Len(s)] /\ Len(s) \in 0 .. Len(s)
  BY <1>1, BytesIs
<1> QED BY <1>1, <1>2

LEMMA BytesEmpty == Bytes(<<>>) = 0
<1> DEFINE f == [i \in 0 .. 0 |-> 0]
<1>1. UpTo(<<>>, f)
  BY DEF UpTo
<1>2. <<>> \in Seq({}) /\ Len(<<>>) = 0 /\ f[0] = 0
  OBVIOUS
<1> HIDE DEF f
<1> QED BY <1>1, <1>2, BytesIs

LEMMA BytesAppend ==
  ASSUME NEW S, NEW s \in Seq(S), Sized(s), NEW e \in S, e.size \in Nat
  PROVE  Bytes(Append(s, e)) = Bytes(s) + e.size /\ Sized(Append(s, e))
<1>1. PICK f : UpTo(s, f) /\ f \in [0 .. Len(s) -> Nat]
  BY UpToExists
<1> DEFINE a == Append(s, e)
           g == [i \in 0 .. Len(s) + 1 |-> IF i = Len(s) + 1 THEN f[Len(s)] + e.size ELSE f[i]]
<1>2. a \in Seq(S) /\ Len(a) = Len(s) + 1 /\ a[Len(s) + 1] = e
      /\ \A i \in 1 .. Len(s) : a[i] = s[i]
  OBVIOUS
<1>3. Sized(a)
  BY <1>2 DEF Sized
<1> HIDE DEF a
<1>4. UpTo(a, g)
  <2>1. g \in [0 .. Len(a) -> Int] /\ g[0] = 0
    BY <1>1, <1>2 DEF UpTo
  <2>2. ASSUME NEW i \in 1 .. Len(a) PROVE g[i] = g[i - 1] + a[i].size
    <3>1. i \in 1 .. Len(s) \/ i = Len(s) + 1
      BY <1>2
    <3>2. CASE i \in 1 .. Len(s)
      <4>1. g[i] = f[i] /\ g[i - 1] = f[i - 1]
        BY <3>2
      <4> QED BY <1>1, <1>2, <3>2, <4>1 DEF UpTo
    <3>3. CASE i = Len(s) + 1
      <4>1. g[i] = f[Len(s)] + e.size /\ g[i - 1] = f[Len(s)]
        BY <3>3
      <4> QED BY <1>2, <3>3, <4>1
    <3> QED BY <3>1, <3>2, <3>3
  <2> QED BY <2>1, <2>2 DEF UpTo
<1>5. g[Len(s) + 1] = f[Len(s)] + e.size
  OBVIOUS
<1> HIDE DEF g
<1>6. Bytes(a) = f[Len(s)] + e.size
  BY <1>2, <1>4, <1>5, BytesIs
<1>7. Bytes(s) = f[Len(s)]
  BY <1>1, BytesIs
<1> QED BY <1>3, <1>6, <1>7 DEF a

LEMMA BytesSplit ==
  ASSUME NEW S, NEW s \in Seq(S), Sized(s), NEW n \in 0 .. Len(s)
  PROVE  /\ Bytes(s) - Bytes(SubSeq(s, 1, n)) = Bytes(SubSeq(s, n + 1, Len(s)))
         /\ Sized(SubSeq(s, n + 1, Len(s)))
<1>1. PICK f : UpTo(s, f) /\ f \in [0 .. Len(s) -> Nat]
  BY UpToExists
<1> DEFINE p == SubSeq(s, 1, n)
           q == SubSeq(s, n + 1, Len(s))
           g == [i \in 0 .. n |-> f[i]]
           h == [i \in 0 .. Len(s) - n |-> f[n + i] - f[n]]
<1>2. /\ p \in Seq(S) /\ Len(p) = n /\ \A j \in 1 .. n : p[j] = s[j]
      /\ q \in Seq(S) /\ Len(q) = Len(s) - n /\ \A j \in 1 .. Len(s) - n : q[j] = s[n + j]
  BY SuffixFacts
<1> HIDE DEF p, q
<1>3. Sized(q)
  <2>1. \A j \in 1 .. Len(s) - n : n + j \in DOMAIN s
    OBVIOUS
  <2> QED BY <1>2, <2>1 DEF Sized
<1>4. UpTo(p, g) /\ g[n] = f[n]
  <2>1. g \in [0 .. n -> Int] /\ g[0] = 0 /\ g[n] = f[n]
    BY <1>1 DEF UpTo
  <2>2. \A i \in 1 .. n : g[i] = f[i] /\ g[i - 1] = f[i - 1]
    OBVIOUS
  <2> HIDE DEF g
  <2>3. \A i \in 1 .. n : g[i] = g[i - 1] + p[i].size
    BY <1>1, <1>2, <2>2 DEF UpTo
  <2> QED BY <1>2, <2>1, <2>3 DEF UpTo
<1>5. UpTo(q, h) /\ h[Len(s) - n] = f[Len(s)] - f[n]
  <2>1. /\ h \in [0 .. Len(s) - n -> Int] /\ h[0] = 0
        /\ h[Len(s) - n] = f[Len(s)] - f[n]
    BY <1>1
  <2>2. ASSUME NEW i \in 1 .. Len(s) - n
        PROVE  /\ h[i] = f[n + i] - f[n] /\ h[i - 1] = f[(n + i) - 1] - f[n]
               /\ f[n + i] = f[(n + i) - 1] + s[n + i].size
               /\ f[(n + i) - 1] \in Nat /\ f[n] \in Nat /\ s[n + i].size \in Nat
    <3>1. n + i \in 1 .. Len(s) /\ n + (i - 1) = (n + i) - 1 /\ i \in 0 .. Len(s) - n
          /\ i - 1 \in 0 .. Len(s) - n /\ (n + i) - 1 \in 0 .. Len(s)
      OBVIOUS
    <3>2. h[i] = f[n + i] - f[n] /\ h[i - 1] = f[n + (i - 1)] - f[n]
      BY <3>1
    <3>3. f[n] \in Nat /\ f[(n + i) - 1] \in Nat
      BY <1>1, <3>1
    <3> HIDE DEF h
    <3>4. f[n + i] = f[(n + i) - 1] + s[n + i].size /\ s[n + i].size \in Nat
      BY <1>1, <3>1, UpToStep
    <3> QED BY <3>1, <3>2, <3>3, <3>4
  <2> HIDE DEF h
  <2>3. ASSUME NEW i \in 1 .. Len(s) - n PROVE h[i] = h[i - 1] + q[i].size
    <3>1. q[i] = s[n + i]
      BY <1>2
    <3>2. /\ h[i] = f[n + i] - f[n] /\ h[i - 1] = f[(n + i) - 1] - f[n]
          /\ f[n + i] = f[(n + i) - 1] + s[n + i].size
          /\ f[(n + i) - 1] \in Nat /\ f[n] \in Nat /\ s[n + i].size \in Nat
      BY <2>2
    <3> QED BY <3>1, <3>2, SMTT(30)
  <2> QED BY <1>2, <2>1, <2>3 DEF UpTo
<1> HIDE DEF g, h
<1>6. Bytes(p) = f[n] /\ Bytes(s) = f[Len(s)]
  BY <1>1, <1>2, <1>4, BytesIs
<1>7. Bytes(q) = f[Len(s)] - f[n]
  BY <1>2, <1>5, BytesIs
<1>8. f[n] \in Nat /\ f[Len(s)] \in Nat
  BY <1>1
<1> QED BY <1>3, <1>6, <1>7, <1>8 DEF p, q

LEMMA BytesRemoved ==
  ASSUME NEW S, NEW s \in Seq(S), Sized(s), NEW k \in DOMAIN s
  PROVE  /\ Bytes(RemoveAt(s, k)) = Bytes(s) - s[k].size
         /\ Sized(RemoveAt(s, k))
<1>1. PICK f : UpTo(s, f) /\ f \in [0 .. Len(s) -> Nat]
  BY UpToExists
<1> DEFINE w == RemoveAt(s, k)
           g == [i \in 0 .. Len(s) - 1 |-> IF i < k THEN f[i] ELSE f[i + 1] - s[k].size]
<1>2. /\ w \in Seq(S) /\ Len(w) = Len(s) - 1
      /\ \A j \in 1 .. Len(s) - 1 : w[j] = s[IF j < k THEN j ELSE j + 1]
  BY RemoveAtFacts
<1> HIDE DEF w
<1>3. Len(s) \in Nat /\ k \in 1 .. Len(s) /\ s[k].size \in Nat
  BY DEF Sized
<1>4. Sized(w)
  <2>1. \A j \in 1 .. Len(s) - 1 : (IF j < k THEN j ELSE j + 1) \in DOMAIN s
    BY <1>3
  <2> QED BY <1>2, <2>1 DEF Sized
<1>5. UpTo(w, g)
  <2>1. g \in [0 .. Len(s) - 1 -> Int] /\ g[0] = 0
    <3>1. \A i \in 0 .. Len(s) - 1 : f[i] \in Int /\ f[i + 1] - s[k].size \in Int
      <4>1. \A i \in 0 .. Len(s) - 1 : i + 1 \in 0 .. Len(s) /\ i \in 0 .. Len(s)
        BY <1>3
      <4>2. \A i \in 0 .. Len(s) : f[i] \in Nat
        BY <1>1
      <4> QED BY <1>3, <4>1, <4>2
    <3>2. g \in [0 .. Len(s) - 1 -> Int]
      BY <3>1
    <3>3. g[0] = f[0]
      BY <1>3
    <3> QED BY <1>1, <3>2, <3>3 DEF UpTo
  <2>2. ASSUME NEW i \in 1 .. Len(s) - 1 PROVE g[i] = g[i - 1] + w[i].size
    <3>1. /\ i \in 0 .. Len(s) - 1 /\ i - 1 \in 0 .. Len(s) - 1
          /\ i \in 1 .. Len(s) /\ i + 1 \in 1 .. Len(s) /\ (i + 1) - 1 = i /\ (i - 1) + 1 = i
      BY <1>3
    <3>2. f[i] = f[i - 1] + s[i].size /\ f[i + 1] = f[i] + s[i + 1].size
          /\ f[i] \in Int /\ f[i - 1] \in Int /\ s[i + 1].size \in Nat /\ s[i].size \in Nat
      <4>1. f[i + 1] = f[(i + 1) - 1] + s[i + 1].size /\ s[i + 1].size \in Nat
        BY <1>1, <3>1, UpToStep
      <4>2. f[i] = f[i - 1] + s[i].size /\ s[i].size \in Nat
            /\ f[i] \in Int /\ f[i - 1] \in Int
        BY <1>1, <3>1, UpToStep
      <4> QED BY <3>1, <4>1, <4>2
    <3>3. /\ g[i] = IF i < k THEN f[i] ELSE f[i + 1] - s[k].size
          /\ g[i - 1] = IF i - 1 < k THEN f[i - 1] ELSE f[(i - 1) + 1] - s[k].size
      BY <3>1
    <3> HIDE DEF g
    <3>4. CASE i < k
      <4>1. g[i] = f[i] /\ g[i - 1] = f[i - 1] /\ w[i] = s[i]
        <5>1. w[i] = s[i]
          BY <1>2, <3>4
        <5>2. i - 1 < k
          BY <1>3, <3>4
        <5> QED BY <3>3, <3>4, <5>1, <5>2
      <4> QED BY <3>2, <4>1
    <3>5. CASE i = k
      <4>1. g[i] = f[i + 1] - s[k].size /\ g[i - 1] = f[i - 1] /\ w[i] = s[i + 1]
        <5>1. w[i] = s[i + 1]
          BY <1>2, <1>3, <3>5
        <5>2. i - 1 < k /\ ~(i < k)
          BY <1>3, <3>5
        <5> QED BY <3>3, <5>1, <5>2
      <4> QED BY <3>2, <3>5, <4>1, SMTT(30)
    <3>6. CASE k < i
      <4>1. g[i] = f[i + 1] - s[k].size /\ g[i - 1] = f[i] - s[k].size /\ w[i] = s[i + 1]
        <5>1. ~(i < k) /\ ~(i - 1 < k) /\ (i - 1) + 1 = i
          BY <1>3, <3>6
        <5>2. w[i] = s[i + 1]
          BY <1>2, <5>1
        <5> QED BY <3>3, <5>1, <5>2
      <4>2. f[i + 1] - s[k].size = (f[i] - s[k].size) + s[i + 1].size
        BY <1>3, <3>2, SMTT(30)
      <4> QED BY <4>1, <4>2
    <3> QED BY <1>3, <3>4, <3>5, <3>6
  <2> HIDE DEF g
  <2> QED BY <1>2, <2>1, <2>2 DEF UpTo
<1>6. g[Len(s) - 1] = f[Len(s)] - s[k].size
  <2>0. f[k] = f[k - 1] + s[k].size /\ f[k] \in Int /\ f[k - 1] \in Int
    BY <1>1, <1>3, UpToStep
  <2>1. Len(s) - 1 \in 0 .. Len(s) - 1 /\ (Len(s) - 1) + 1 = Len(s)
    BY <1>3
  <2>2. CASE k = Len(s)
    <3>1. g[Len(s) - 1] = f[Len(s) - 1]
      BY <1>3, <2>1, <2>2
    <3> HIDE DEF g
    <3> QED BY <1>3, <2>0, <2>2, <3>1
  <2>3. CASE k < Len(s)
    BY <1>3, <2>1, <2>3
  <2> QED BY <1>3, <2>2, <2>3
<1> HIDE DEF g
<1>7. Bytes(w) = f[Len(s)] - s[k].size /\ Bytes(s) = f[Len(s)]
  BY <1>1, <1>2, <1>5, <1>6, BytesIs
<1> QED BY <1>4, <1>7 DEF w

(* The counter is the sum of what is stored. *)
Balanced(c) == c.bytes = Bytes(c.lru)

LEMMA WithoutBytes ==
  ASSUME NEW S, NEW s \in Seq(S), Sized(s), NEW k
  PROVE  /\ Bytes(Without(s, k)) = Bytes(s) - SizeOf(s, k)
         /\ Sized(Without(s, k)) /\ Without(s, k) \in Seq(S)
         /\ SizeOf(s, k) \in Nat
         /\ Len(Without(s, k)) = Len(s) - (IF Holds(s, k) THEN 1 ELSE 0)
<1>1. CASE ~Holds(s, k)
  <2>1. Bytes(s) \in Nat /\ Without(s, k) = s /\ SizeOf(s, k) = 0
    BY <1>1, BytesType DEF Without, SizeOf
  <2> QED BY <1>1, <2>1
<1>2. CASE Holds(s, k)
  <2> DEFINE i == Index(s, k)
  <2>1. i \in DOMAIN s /\ SizeOf(s, k) = s[i].size /\ Without(s, k) = RemoveAt(s, i)
    BY <1>2, GetHeld DEF Get, SizeOf, Without
  <2> HIDE DEF i
  <2>2. s[i].size \in Nat
    BY <2>1 DEF Sized
  <2> QED BY <1>2, <2>1, <2>2, BytesRemoved, RemoveAtFacts
<1> QED BY <1>1, <1>2

(* A lookup moves an entry, or takes it out with its bytes.                  *)
LEMMA LookupBalanced ==
  ASSUME NEW S, NEW c, DOMAIN c = {"lru", "bytes"}, c.lru \in Seq(S), Sized(c.lru),
         Balanced(c), NEW k, NEW t
  PROVE  /\ Balanced(AfterLookup(c, k, t)) /\ Sized(AfterLookup(c, k, t).lru)
         /\ Len(AfterLookup(c, k, t).lru) =< Len(c.lru)
         /\ AfterLookup(c, k, t).bytes =< c.bytes
<1> DEFINE w == Without(c.lru, k)
           g == Get(c.lru, k)
<1>1. /\ Bytes(w) = Bytes(c.lru) - SizeOf(c.lru, k) /\ Sized(w) /\ w \in Seq(S)
      /\ SizeOf(c.lru, k) \in Nat
      /\ Len(w) = Len(c.lru) - (IF Holds(c.lru, k) THEN 1 ELSE 0)
  BY WithoutBytes
<1>2. c.bytes = Bytes(c.lru) /\ Bytes(c.lru) \in Nat /\ Len(c.lru) \in Nat
  BY BytesType DEF Balanced
<1> HIDE DEF w
<1>3. CASE Classify(c.lru, k, t) = "MISS"
  <2>1. AfterLookup(c, k, t) = [lru |-> w, bytes |-> c.bytes - SizeOf(c.lru, k)]
    BY <1>3 DEF AfterLookup, Delete, w
  <2> QED BY <1>1, <1>2, <2>1 DEF Balanced
<1>4. CASE Classify(c.lru, k, t) # "MISS"
  <2>1. Holds(c.lru, k)
    BY <1>4 DEF Classify
  <2>2. g \in S /\ g.size \in Nat /\ SizeOf(c.lru, k) = g.size
    <3>1. Index(c.lru, k) \in DOMAIN c.lru /\ g = c.lru[Index(c.lru, k)] /\ g \in S
      BY <2>1, GetHeld DEF Get
    <3> QED BY <2>1, <3>1 DEF Sized, SizeOf
  <2> HIDE DEF g
  <2>3. Bytes(Append(w, g)) = Bytes(w) + g.size /\ Sized(Append(w, g))
        /\ Len(Append(w, g)) = Len(w) + 1
    BY <1>1, <2>2, BytesAppend
  <2>4. /\ AfterLookup(c, k, t).lru = Append(w, g) /\ AfterLookup(c, k, t).bytes = c.bytes
    BY <1>4 DEF AfterLookup, MoveToEnd, w, g
  <2> QED BY <1>1, <1>2, <2>1, <2>2, <2>3, <2>4 DEF Balanced
<1> QED BY <1>3, <1>4

LEMMA DropBalanced ==
  ASSUME NEW S, NEW c, c.lru \in Seq(S), Sized(c.lru), Balanced(c), NEW n \in 0 .. Len(c.lru)
  PROVE  /\ Balanced(DropOldest(c, n)) /\ Sized(DropOldest(c, n).lru)
         /\ DropOldest(c, n).lru \in Seq(S)
         /\ Len(DropOldest(c, n).lru) = Len(c.lru) - n
         /\ n < Len(c.lru) => DropOldest(c, n).lru[Len(c.lru) - n] = c.lru[Len(c.lru)]
<1> DEFINE s == c.lru
<1>1. /\ Bytes(s) - Bytes(SubSeq(s, 1, n)) = Bytes(SubSeq(s, n + 1, Len(s)))
      /\ Sized(SubSeq(s, n + 1, Len(s)))
  BY BytesSplit
<1>2. /\ SubSeq(s, n + 1, Len(s)) \in Seq(S) /\ Len(SubSeq(s, n + 1, Len(s))) = Len(s) - n
      /\ \A j \in 1 .. Len(s) - n : SubSeq(s, n + 1, Len(s))[j] = s[n + j]
  BY SuffixFacts
<1>3. DropOldest(c, n) = [lru   |-> SubSeq(s, n + 1, Len(s)),
                          bytes |-> Bytes(s) - Bytes(SubSeq(s, 1, n))]
  BY DEF DropOldest, Balanced
<1> HIDE DEF s
<1>4. Balanced(DropOldest(c, n))
  BY <1>1, <1>3 DEF Balanced
<1>5. n < Len(s) => SubSeq(s, n + 1, Len(s))[Len(s) - n] = s[Len(s)]
  <2> SUFFICES ASSUME n < Len(s)
               PROVE  SubSeq(s, n + 1, Len(s))[Len(s) - n] = s[Len(s)]
    OBVIOUS
  <2>1. Len(s) - n \in 1 .. Len(s) - n /\ n + (Len(s) - n) = Len(s)
    BY DEF s
  <2>2. SubSeq(s, n + 1, Len(s))[Len(s) - n] = s[n + (Len(s) - n)]
    BY <1>2, <2>1
  <2> QED BY <2>1, <2>2
<1> QED BY <1>1, <1>2, <1>3, <1>4, <1>5 DEF s

(* A put keeps the counter, ends within both limits and keeps what it put:   *)
(* alone, an entry that may be stored is within either.                      *)
LEMMA PutBalanced ==
  ASSUME NEW S, NEW c, c.lru \in Seq(S), Sized(c.lru), Balanced(c),
         NEW e \in S, e.size \in Nat, Storable(e.size)
  PROVE  /\ Balanced(AfterPut(c, e)) /\ Sized(AfterPut(c, e).lru)
         /\ Len(AfterPut(c, e).lru) =< MaxEntries
         /\ MaxTotal > 0 => AfterPut(c, e).bytes =< MaxTotal
         /\ AfterPut(c, e).lru \in Seq(S) /\ AfterPut(c, e).lru # <<>>
         /\ AfterPut(c, e).lru[Len(AfterPut(c, e).lru)] = e
<1> DEFINE c1 == Insert(c, e)
           n  == IF Len(c1.lru) > MaxEntries THEN Len(c1.lru) - MaxEntries ELSE 0
           c2 == DropOldest(c1, n)
           T  == {m \in 0 .. Len(c2.lru) : Fits(DropOldest(c2, m))}
           c3 == EvictByBytes(c2)
<1>0. MaxEntries \in Nat /\ MaxEntries > 0 /\ MaxTotal \in Nat
      /\ (MaxTotal > 0 => e.size =< MaxTotal)
  BY CacheConfig DEF Storable
<1>1. /\ Balanced(c1) /\ Sized(c1.lru) /\ c1.lru \in Seq(S)
      /\ Len(c1.lru) > 0 /\ c1.lru[Len(c1.lru)] = e
  <2> DEFINE w == Without(c.lru, e.key)
  <2>1. /\ Bytes(w) = Bytes(c.lru) - SizeOf(c.lru, e.key) /\ Sized(w) /\ w \in Seq(S)
        /\ SizeOf(c.lru, e.key) \in Nat
    BY WithoutBytes
  <2>2. c.bytes = Bytes(c.lru) /\ Bytes(c.lru) \in Nat
    BY BytesType DEF Balanced
  <2>3. c1 = [lru |-> Append(w, e), bytes |-> c.bytes - SizeOf(c.lru, e.key) + e.size]
    BY DEF Insert
  <2> HIDE DEF w, c1
  <2>4. Bytes(Append(w, e)) = Bytes(w) + e.size /\ Sized(Append(w, e))
    BY <2>1, BytesAppend
  <2>5. Append(w, e) \in Seq(S) /\ Len(Append(w, e)) = Len(w) + 1 /\ Len(w) \in Nat
        /\ Append(w, e)[Len(w) + 1] = e
    BY <2>1
  <2> QED BY <2>1, <2>2, <2>3, <2>4, <2>5 DEF Balanced
<1> HIDE DEF c1
<1>2. n \in 0 .. Len(c1.lru) /\ n < Len(c1.lru) /\ Len(c1.lru) - n =< MaxEntries
      /\ Len(c1.lru) \in Nat
  BY <1>0, <1>1
<1> HIDE DEF n
<1>3. /\ Balanced(c2) /\ Sized(c2.lru) /\ c2.lru \in Seq(S) /\ Len(c2.lru) = Len(c1.lru) - n
      /\ c2.lru[Len(c1.lru) - n] = c1.lru[Len(c1.lru)]
  BY <1>1, <1>2, DropBalanced
<1> HIDE DEF c2
<1>4. Len(c2.lru) \in Nat /\ 0 < Len(c2.lru) /\ Len(c2.lru) =< MaxEntries
      /\ c2.lru[Len(c2.lru)] = e
  BY <1>0, <1>1, <1>2, <1>3
<1>5. ASSUME MaxTotal # 0
      PROVE  /\ Min(T) \in 0 .. Len(c2.lru) /\ Min(T) < Len(c2.lru)
             /\ DropOldest(c2, Min(T)).bytes =< MaxTotal
  <2> DEFINE m == Len(c2.lru) - 1
             d == DropOldest(c2, m)
  <2>1. m \in 0 .. Len(c2.lru) /\ m < Len(c2.lru) /\ Len(c2.lru) - m = 1
    BY <1>4
  <2> HIDE DEF m
  <2>2. d.lru = <<e>> /\ d.bytes = e.size
    <3>1. /\ Balanced(d) /\ Sized(d.lru) /\ d.lru \in Seq(S) /\ Len(d.lru) = Len(c2.lru) - m
          /\ d.lru[Len(c2.lru) - m] = c2.lru[Len(c2.lru)]
      BY <1>3, <2>1, DropBalanced
    <3> HIDE DEF d
    <3>2. Len(d.lru) = 1 /\ d.lru[1] = e
      BY <1>4, <2>1, <3>1
    <3>3. d.lru = <<e>>
      BY <3>1, <3>2
    <3>4. <<e>> = Append(<<>>, e) /\ <<>> \in Seq(S) /\ Sized(<<>>)
      BY DEF Sized
    <3>5. Bytes(<<e>>) = 0 + e.size
      BY <3>4, BytesAppend, BytesEmpty
    <3> QED BY <3>1, <3>3, <3>5 DEF Balanced
  <2> HIDE DEF d
  <2>3. m \in T
    BY <1>0, <1>5, <2>1, <2>2 DEF Fits, d
  <2>4. T \subseteq Nat
    BY <1>4
  <2> HIDE DEF T
  <2>5. Min(T) \in T /\ Min(T) =< m /\ Min(T) \in Nat
    BY <2>3, <2>4, MinNat
  <2>6. Min(T) \in 0 .. Len(c2.lru) /\ Min(T) < Len(c2.lru) /\ Fits(DropOldest(c2, Min(T)))
    BY <1>4, <2>1, <2>5 DEF T
  <2> DEFINE k == Min(T)
  <2> HIDE DEF k
  <2>7. Len(DropOldest(c2, k).lru) = Len(c2.lru) - k /\ DropOldest(c2, k).lru \in Seq(S)
    BY <1>3, <2>6, DropBalanced DEF k
  <2>8. DropOldest(c2, k).lru # <<>>
    <3>1. Len(DropOldest(c2, k).lru) # 0
      BY <1>4, <2>6, <2>7 DEF k
    <3> QED BY <3>1
  <2> QED BY <2>6, <2>8 DEF Fits, k
<1>6. /\ Balanced(c3) /\ Sized(c3.lru) /\ c3.lru \in Seq(S)
      /\ Len(c3.lru) =< MaxEntries /\ (MaxTotal > 0 => c3.bytes =< MaxTotal)
      /\ c3.lru # <<>> /\ c3.lru[Len(c3.lru)] = e
  <2>1. CASE MaxTotal = 0
    <3>1. c3 = c2
      BY <2>1 DEF EvictByBytes
    <3> QED BY <1>3, <1>4, <2>1, <3>1
  <2>2. CASE MaxTotal # 0
    <3> DEFINE k == Min(T)
    <3>1. c3 = DropOldest(c2, k)
      BY <2>2 DEF EvictByBytes
    <3>2. k \in 0 .. Len(c2.lru) /\ k < Len(c2.lru) /\ DropOldest(c2, k).bytes =< MaxTotal
      BY <1>5, <2>2
    <3> HIDE DEF k, T, c3
    <3>3. /\ Balanced(c3) /\ Sized(c3.lru) /\ c3.lru \in Seq(S) /\ Len(c3.lru) = Len(c2.lru) - k
          /\ c3.lru[Len(c2.lru) - k] = c2.lru[Len(c2.lru)]
      BY <1>3, <3>1, <3>2, DropBalanced
    <3>4. Len(c3.lru) # 0
      BY <1>4, <3>2, <3>3
    <3>5. c3.lru # <<>> /\ c3.lru[Len(c3.lru)] = e
      BY <1>4, <3>3, <3>4
    <3>6. Len(c3.lru) =< MaxEntries
      BY <1>0, <1>4, <3>2, <3>3
    <3> QED BY <3>1, <3>2, <3>3, <3>5, <3>6
  <2> QED BY <2>1, <2>2
<1>7. AfterPut(c, e) = c3
  BY DEF AfterPut, EvictByCount, c1, c2, n
<1> HIDE DEF c3
<1> QED BY <1>6, <1>7
=============================================================================
