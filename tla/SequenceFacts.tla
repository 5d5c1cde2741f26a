--------------------------- MODULE SequenceFacts ---------------------------
(***************************************************************************)
(* Facts about numbers and sequences that the proofs of several components *)
(* cite.  MinNat is also how they argue by induction: the n in Nat that do *)
(* not satisfy a formula, if there are any, have a least one.              *)
(***************************************************************************)
EXTENDS SequencesExt, Integers, SequenceTheorems, WellFoundedInduction, TLAPS

(* A set of natural numbers that is not empty has a least one, which Min is. *)
LEMMA MinNat ==
  ASSUME NEW T, T \subseteq Nat, T # {}
  PROVE  Min(T) \in T /\ \A n \in T : Min(T) =< n
<1> DEFINE Less == {p \in Nat \X Nat : p[1] < p[2]}
<1>1. IsWellFoundedOn(Less, Nat)
  BY NatLessThanWellFounded DEF OpToRel
<1>2. PICK x \in T : \A y \in T : <<y, x>> \notin Less
  <2> HIDE DEF Less
  <2> QED BY <1>1, WFMin
<1>3. ASSUME NEW y \in T PROVE x =< y
  <2>1. x \in Nat /\ y \in Nat
    OBVIOUS
  <2>2. <<y, x>> \notin Less
    BY <1>2
  <2>3. ~(y < x)
    BY <2>1, <2>2
  <2> QED BY <2>1, <2>3
<1> QED BY <1>3 DEF Min

(* Likewise a bounded set has a greatest one. *)
LEMMA MaxNat ==
  ASSUME NEW T, T \subseteq Nat, T # {}, NEW b \in Nat, \A n \in T : n =< b
  PROVE  Max(T) \in T /\ \A n \in T : n =< Max(T)
<1> DEFINE D == {d \in Nat : b - d \in T}
           d == Min(D)
<1>1. PICK t \in T : TRUE
  OBVIOUS
<1>2. b - t \in Nat /\ b - (b - t) = t
  BY <1>1
<1>3. b - t \in D
  BY <1>2
<1>4. d \in D /\ \A e \in D : d =< e
  BY <1>3, MinNat
<1> HIDE DEF d
<1>5. b - d \in T
  BY <1>4
<1>6. ASSUME NEW n \in T PROVE n =< b - d
  <2>1. b - n \in Nat /\ b - (b - n) = n /\ n \in Nat
    OBVIOUS
  <2>2. b - n \in D
    BY <2>1
  <2> QED BY <1>4, <2>1, <2>2
<1>7. \A n \in T : b - d >= n
  BY <1>4, <1>5, <1>6
<1>8. \E x \in T : \A n \in T : x >= n
  BY <1>5, <1>7
<1>9. Max(T) \in T /\ \A n \in T : Max(T) >= n
  BY <1>8 DEF Max
<1> QED BY <1>9

(* The greatest is unique. *)
LEMMA MaxIs ==
  ASSUME NEW T, T \subseteq Nat, NEW x \in T, \A n \in T : n =< x
  PROVE  Max(T) = x
<1>1. x \in Nat /\ T # {}
  OBVIOUS
<1>2. Max(T) \in T /\ \A n \in T : n =< Max(T)
  BY <1>1, MaxNat
<1>3. Max(T) \in Nat /\ Max(T) =< x /\ x =< Max(T)
  BY <1>2
<1> QED BY <1>1, <1>3

(* Induction: a set of numbers that has 0 and with n also n + 1 has them all. *)
LEMMA NumbersFromZero ==
  ASSUME NEW T, 0 \in T, \A n \in Nat : n \in T => n + 1 \in T
  PROVE  Nat \subseteq T
<1> SUFFICES ASSUME Nat \ T # {} PROVE FALSE
  OBVIOUS
<1> DEFINE n == Min(Nat \ T)
<1>1. n \in Nat \ T /\ \A m \in Nat \ T : n =< m
  BY MinNat
<1> HIDE DEF n
<1>2. n # 0 /\ n - 1 \in Nat /\ (n - 1) + 1 = n
  BY <1>1
<1>3. n - 1 \in T
  BY <1>1, <1>2
<1> QED BY <1>1, <1>2, <1>3

(* There is a function that gives the sum of the first i of N numbers: what a *)
(* running total defined by recursion needs, to be what its equations say.   *)
LEMMA RunningTotal ==
  ASSUME NEW N \in Nat, NEW d \in [1 .. N -> Nat]
  PROVE  \E f \in [0 .. N -> Nat] : f[0] = 0 /\ \A i \in 1 .. N : f[i] = f[i - 1] + d[i]
<1> DEFINE Has(n) == \E f \in [0 .. n -> Nat] :
                        f[0] = 0 /\ \A i \in 1 .. n : f[i] = f[i - 1] + d[i]
           T == {n \in Nat : n =< N => Has(n)}
<1>1. Has(0)
  <2> DEFINE f == [i \in 0 .. 0 |-> 0]
  <2>1. f \in [0 .. 0 -> Nat] /\ f[0] = 0 /\ \A i \in 1 .. 0 : f[i] = f[i - 1] + d[i]
    OBVIOUS
  <2> HIDE DEF f
  <2> QED BY <2>1
<1>2. ASSUME NEW n \in Nat, n + 1 =< N, Has(n) PROVE Has(n + 1)
  <2>1. PICK f \in [0 .. n -> Nat] : f[0] = 0 /\ \A i \in 1 .. n : f[i] = f[i - 1] + d[i]
    BY <1>2
  <2> DEFINE g == [i \in 0 .. n + 1 |-> IF i = n + 1 THEN f[n] + d[n + 1] ELSE f[i]]
  <2>2. f[n] + d[n + 1] \in Nat
    <3>1. n \in 0 .. n /\ n + 1 \in 1 .. N
      BY <1>2
    <3> QED BY <2>1, <3>1
  <2>3. g \in [0 .. n + 1 -> Nat] /\ g[0] = 0
    BY <2>1, <2>2
  <2>4. ASSUME NEW i \in 1 .. n + 1 PROVE g[i] = g[i - 1] + d[i]
    <3>1. i - 1 \in 0 .. n /\ i - 1 # n + 1 /\ i \in 0 .. n + 1 /\ i - 1 \in 0 .. n + 1
      OBVIOUS
    <3>2. g[i - 1] = f[i - 1]
      BY <3>1
    <3>3. CASE i = n + 1
      BY <3>1, <3>2, <3>3
    <3>4. CASE i # n + 1
      <4>1. i \in 1 .. n
        BY <3>4
      <4>2. g[i] = f[i]
        BY <3>1, <3>4
      <4> QED BY <2>1, <3>2, <4>1, <4>2
    <3> QED BY <3>3, <3>4
  <2> HIDE DEF g
  <2> QED BY <2>3, <2>4
<1> HIDE DEF Has
<1>3. 0 \in T /\ \A n \in Nat : n \in T => n + 1 \in T
  BY <1>1, <1>2
<1> HIDE DEF T
<1>4. N \in T
  BY <1>3, NumbersFromZero
<1>5. Has(N)
  BY <1>4 DEF T
<1> QED BY <1>5 DEF Has

(* What is left of a sequence without its first n elements. *)
LEMMA SuffixFacts ==
  ASSUME NEW S, NEW s \in Seq(S), NEW n \in 0 .. Len(s)
  PROVE  /\ SubSeq(s, n + 1, Len(s)) \in Seq(S)
         /\ Len(SubSeq(s, n + 1, Len(s))) = Len(s) - n
         /\ \A j \in 1 .. Len(s) - n : SubSeq(s, n + 1, Len(s))[j] = s[n + j]
OBVIOUS

(* To remove an element closes the gap and keeps the order. *)
LEMMA RemoveAtFacts ==
  ASSUME NEW S, NEW s \in Seq(S), NEW i \in DOMAIN s
  PROVE  /\ RemoveAt(s, i) \in Seq(S)
         /\ Len(RemoveAt(s, i)) = Len(s) - 1
         /\ \A j \in 1 .. Len(s) - 1 : RemoveAt(s, i)[j] = s[IF j < i THEN j ELSE j + 1]
<1> DEFINE p == SubSeq(s, 1, i - 1)
           q == SubSeq(s, i + 1, Len(s))
<1>1. /\ p \in Seq(S) /\ Len(p) = i - 1 /\ \A j \in 1 .. i - 1 : p[j] = s[j]
      /\ q \in Seq(S) /\ Len(q) = Len(s) - i /\ \A j \in 1 .. Len(s) - i : q[j] = s[i + j]
  BY SubSeqProperties
<1>2. RemoveAt(s, i) = p \o q
  BY DEF RemoveAt
<1> HIDE DEF p, q
<1>3. /\ p \o q \in Seq(S) /\ Len(p \o q) = Len(p) + Len(q)
      /\ \A j \in 1 .. Len(p) + Len(q) :
            (p \o q)[j] = IF j =< Len(p) THEN p[j] ELSE q[j - Len(p)]
  BY <1>1, ConcatProperties
<1>4. Len(p) + Len(q) = Len(s) - 1
  BY <1>1
<1>5. ASSUME NEW j \in 1 .. Len(s) - 1
      PROVE  (p \o q)[j] = s[IF j < i THEN j ELSE j + 1]
  <2>1. CASE j < i
    BY <1>1, <1>3, <1>4, <2>1
  <2>2. CASE ~(j < i)
    <3>1. j - (i - 1) \in 1 .. Len(s) - i /\ i + (j - (i - 1)) = j + 1 /\ ~(j =< i - 1)
      BY <2>2
    <3>2. q[j - (i - 1)] = s[i + (j - (i - 1))]
      BY <1>1, <3>1
    <3> QED BY <1>1, <1>3, <1>4, <2>2, <3>1, <3>2
  <2> QED BY <2>1, <2>2
<1> QED BY <1>2, <1>3, <1>4, <1>5

-----------------------------------------------------------------------------
(* To put the members of a sequence of sequences together *)

(* f gives what the first i members of d are together. *)
Joined(d, f) == f[0] = <<>> /\ \A i \in 1 .. Len(d) : f[i] = f[i - 1] \o d[i]

(* There is such a function. *)
LEMMA JoinedExists ==
  ASSUME NEW S, NEW d \in Seq(Seq(S))
  PROVE  \E f \in [0 .. Len(d) -> Seq(S)] : Joined(d, f)
<1> DEFINE N == Len(d)
           Has(n) == \E f \in [0 .. n -> Seq(S)] :
                        f[0] = <<>> /\ \A i \in 1 .. n : f[i] = f[i - 1] \o d[i]
           T == {n \in Nat : n =< N => Has(n)}
<1>0. N \in Nat
  OBVIOUS
<1>1. Has(0)
  <2> DEFINE f == [i \in 0 .. 0 |-> <<>>]
  <2>1. f \in [0 .. 0 -> Seq(S)] /\ f[0] = <<>> /\ \A i \in 1 .. 0 : f[i] = f[i - 1] \o d[i]
    OBVIOUS
  <2> HIDE DEF f
  <2> QED BY <2>1
<1>2. ASSUME NEW n \in Nat, n + 1 =< N, Has(n) PROVE Has(n + 1)
  <2>1. PICK f \in [0 .. n -> Seq(S)] :
               f[0] = <<>> /\ \A i \in 1 .. n : f[i] = f[i - 1] \o d[i]
    BY <1>2
  <2> DEFINE v == f[n] \o d[n + 1]
             g == [i \in 0 .. n + 1 |-> IF i = n + 1 THEN v ELSE f[i]]
  <2>2. v \in Seq(S)
    <3>1. n \in 0 .. n /\ n + 1 \in 1 .. Len(d)
      BY <1>0, <1>2
    <3>2. f[n] \in Seq(S) /\ d[n + 1] \in Seq(S)
      BY <2>1, <3>1
    <3> QED BY <3>2
  <2>3. g \in [0 .. n + 1 -> Seq(S)] /\ g[0] = <<>>
    BY <2>1, <2>2
  <2>4. ASSUME NEW i \in 1 .. n + 1 PROVE g[i] = g[i - 1] \o d[i]
    <3>1. i - 1 \in 0 .. n /\ i - 1 # n + 1 /\ i \in 0 .. n + 1 /\ i - 1 \in 0 .. n + 1
      OBVIOUS
    <3>2. g[i - 1] = f[i - 1]
      BY <3>1
    <3>3. CASE i = n + 1
      <4>1. g[i] = v /\ i - 1 = n
        BY <3>1, <3>3
      <4> QED BY <3>2, <3>3, <4>1
    <3>4. CASE i # n + 1
      <4>1. i \in 1 .. n
        BY <3>4
      <4>2. g[i] = f[i]
        BY <3>1, <3>4
      <4> QED BY <2>1, <3>2, <4>1, <4>2
    <3> QED BY <3>3, <3>4
  <2> HIDE DEF g
  <2> QED BY <2>3, <2>4
<1> HIDE DEF Has
<1>3. 0 \in T /\ \A n \in Nat : n \in T => n + 1 \in T
  BY <1>1, <1>2
<1> HIDE DEF T
<1>4. N \in T
  BY <1>0, <1>3, NumbersFromZero
<1>5. Has(N)
  BY <1>0, <1>4 DEF T
<1> QED BY <1>5 DEF Has, Joined

(* A function defined by these equations is the only one. *)
LEMMA JoinedOnce ==
  ASSUME NEW d, Len(d) \in Nat, NEW f, Joined(d, f), NEW g, Joined(d, g)
  PROVE  \A n \in 0 .. Len(d) : g[n] = f[n]
<1> DEFINE T == {n \in Nat : n =< Len(d) => g[n] = f[n]}
<1>1. 0 \in T
  BY DEF Joined
<1>2. ASSUME NEW n \in Nat, n \in T PROVE n + 1 \in T
  <2> SUFFICES ASSUME n + 1 =< Len(d) PROVE g[n + 1] = f[n + 1]
    OBVIOUS
  <2>1. n + 1 \in 1 .. Len(d) /\ (n + 1) - 1 = n /\ g[n] = f[n]
    BY <1>2
  <2> QED BY <2>1 DEF Joined
<1>3. \A n \in Nat : n \in T => n + 1 \in T
  BY <1>2
<1> HIDE DEF T
<1>4. Nat \subseteq T
  BY <1>1, <1>3, NumbersFromZero
<1> QED BY <1>4 DEF T

(* It is what FlattenSeq computes. *)
LEMMA FlattenIs ==
  ASSUME NEW S, NEW d \in Seq(Seq(S)), NEW f, Joined(d, f)
  PROVE  FlattenSeq(d) = f[Len(d)]
<1> DEFINE N == Len(d)
           Eq(g) == g = [i \in 1 .. N |-> IF i = 1 THEN d[i] ELSE g[i - 1] \o d[i]]
           g == CHOOSE h : Eq(h)
<1>0. N \in Nat
  OBVIOUS
<1>1. CASE N = 0
  BY <1>1 DEF FlattenSeq, Joined
<1>2. CASE N # 0
  <2> DEFINE h == [i \in 1 .. N |-> f[i]]
  <2>1. Eq(h)
    <3>1. ASSUME NEW i \in 1 .. N
          PROVE  f[i] = IF i = 1 THEN d[i] ELSE h[i - 1] \o d[i]
      <4>1. d[i] \in Seq(S)
        OBVIOUS
      <4>2. CASE i = 1
        <5>1. f[i] = f[i - 1] \o d[i]
          BY DEF Joined
        <5>2. f[i - 1] = <<>>
          BY <4>2 DEF Joined
        <5> QED BY <4>1, <4>2, <5>1, <5>2
      <4>3. CASE i # 1
        <5>1. i - 1 \in 1 .. N
          BY <4>3
        <5> QED BY <4>3, <5>1 DEF Joined
      <4> QED BY <4>2, <4>3
    <3> QED BY <3>1
  <2> HIDE DEF h
  <2>2. Eq(g)
    BY <2>1
  <2>3. FlattenSeq(d) = g[N]
    BY <1>2 DEF FlattenSeq
  <2> HIDE DEF g
  <2> DEFINE k == [i \in 0 .. N |-> IF i = 0 THEN <<>> ELSE g[i]]
  <2>4. Joined(d, k)
    <3>1. k[0] = <<>>
      BY <1>0
    <3>2. ASSUME NEW i \in 1 .. N PROVE k[i] = k[i - 1] \o d[i]
      <4>1. d[i] \in Seq(S) /\ k[i] = g[i] /\ i - 1 \in 0 .. N
        BY <1>0
      <4>2. CASE i = 1
        <5>1. k[i - 1] = <<>> /\ g[i] = d[i]
          BY <2>2, <4>2, <3>1
        <5>2. <<>> \o d[i] = d[i]
          BY <4>1
        <5> QED BY <4>1, <5>1, <5>2
      <4>3. CASE i # 1
        <5>1. k[i - 1] = g[i - 1]
          BY <4>1, <4>3
        <5>2. g[i] = g[i - 1] \o d[i]
          BY <2>2, <4>3
        <5> QED BY <4>1, <5>1, <5>2
      <4> QED BY <4>2, <4>3
    <3> HIDE DEF k
    <3> QED BY <3>1, <3>2 DEF Joined
  <2>5. k[N] = g[N]
    BY <1>0, <1>2
  <2> HIDE DEF k
  <2>6. N \in 0 .. Len(d)
    BY <1>0
  <2>7. k[N] = f[N]
    BY <1>0, <2>4, <2>6, JoinedOnce
  <2> QED BY <2>3, <2>5, <2>7
<1> QED BY <1>1, <1>2

(* What is put together is a sequence of the members' elements; one member   *)
(* more is appended to it. *)
LEMMA FlattenFacts ==
  ASSUME NEW S, NEW d \in Seq(Seq(S)), NEW x \in Seq(S)
  PROVE  /\ FlattenSeq(d) \in Seq(S)
         /\ FlattenSeq(Append(d, x)) = FlattenSeq(d) \o x
<1> DEFINE e == Append(d, x)
<1>1. e \in Seq(Seq(S)) /\ Len(e) = Len(d) + 1 /\ e[Len(d) + 1] = x
      /\ \A i \in 1 .. Len(d) : e[i] = d[i]
  OBVIOUS
<1> HIDE DEF e
<1>2. PICK f \in [0 .. Len(e) -> Seq(S)] : Joined(e, f)
  BY <1>1, JoinedExists
<1>3. Joined(d, f)
  <2>1. \A i \in 1 .. Len(d) : i \in 1 .. Len(e)
    BY <1>1
  <2> QED BY <1>1, <1>2, <2>1 DEF Joined
<1>4. FlattenSeq(d) = f[Len(d)]
  BY <1>3, FlattenIs
<1>5. FlattenSeq(e) = f[Len(e)]
  BY <1>1, <1>2, FlattenIs
<1>6. Len(d) + 1 \in 1 .. Len(e) /\ (Len(d) + 1) - 1 = Len(d) /\ Len(d) \in 0 .. Len(e)
  BY <1>1
<1>7. f[Len(d) + 1] = f[Len(d)] \o x
  BY <1>1, <1>2, <1>6 DEF Joined
<1>8. f[Len(d)] \in Seq(S)
  BY <1>2, <1>6
<1> QED BY <1>1, <1>4, <1>5, <1>7, <1>8 DEF e

(* Nothing put together is nothing, a single member is itself. *)
LEMMA FlattenFew ==
  ASSUME NEW S, NEW x \in Seq(S)
  PROVE  FlattenSeq(<<>>) = <<>> /\ FlattenSeq(<<x>>) = x
<1>1. FlattenSeq(<<>>) = <<>>
  BY DEF FlattenSeq
<1>2. <<>> \in Seq(Seq(S)) /\ Append(<<>>, x) = <<x>>
  OBVIOUS
<1>3. FlattenSeq(Append(<<>>, x)) = FlattenSeq(<<>>) \o x
  BY <1>2, FlattenFacts
<1> QED BY <1>1, <1>2, <1>3

(* Members of one element each: their elements, one after the other. *)
LEMMA FlattenSingles ==
  ASSUME NEW S, NEW d \in Seq(Seq(S)), \A i \in 1 .. Len(d) : Len(d[i]) = 1
  PROVE  Len(FlattenSeq(d)) = Len(d) /\ \A i \in 1 .. Len(d) : d[i] = <<FlattenSeq(d)[i]>>
<1>0. Len(d) \in Nat
  OBVIOUS
<1>1. PICK f \in [0 .. Len(d) -> Seq(S)] : Joined(d, f)
  BY JoinedExists
<1> DEFINE Good(n) == Len(f[n]) = n /\ \A i \in 1 .. n : d[i] = <<f[n][i]>>
           T == {n \in Nat : n =< Len(d) => Good(n)}
<1>2. Good(0)
  BY <1>1 DEF Joined
<1>3. ASSUME NEW n \in Nat, n + 1 =< Len(d), Good(n) PROVE Good(n + 1)
  <2>1. n + 1 \in 1 .. Len(d) /\ (n + 1) - 1 = n /\ n \in 0 .. Len(d)
    BY <1>3
  <2>2. f[n + 1] = f[n] \o d[n + 1] /\ f[n] \in Seq(S)
    BY <1>1, <2>1 DEF Joined
  <2>3. d[n + 1] \in Seq(S) /\ Len(d[n + 1]) = 1
    BY <2>1
  <2>4. PICK v \in S : d[n + 1] = <<v>>
    <3>1. d[n + 1] = <<d[n + 1][1]>> /\ d[n + 1][1] \in S
      BY <2>3
    <3> QED BY <3>1
  <2> DEFINE a == f[n]
             b == d[n + 1]
  <2> HIDE DEF a, b
  <2>a. a \in Seq(S) /\ Len(a) = n /\ b = <<v>> /\ f[n + 1] = a \o b
    BY <1>3, <2>2, <2>4 DEF a, b
  <2>b. b \in Seq(S) /\ Len(b) = 1 /\ b[1] = v
    BY <2>a
  <2>c. /\ Len(f[n + 1]) = Len(a) + Len(b)
        /\ \A i \in 1 .. Len(a) + Len(b) :
              f[n + 1][i] = IF i =< Len(a) THEN a[i] ELSE b[i - Len(a)]
    BY <2>a, <2>b, ConcatProperties
  <2>5. Len(f[n + 1]) = n + 1 /\ f[n + 1][n + 1] = v
    <3>1. n + 1 \in 1 .. n + 1 /\ ~(n + 1 =< n) /\ (n + 1) - n = 1
      OBVIOUS
    <3> QED BY <2>a, <2>b, <2>c, <3>1
  <2>6. \A i \in 1 .. n : f[n + 1][i] = f[n][i]
    BY <2>a, <2>b, <2>c DEF a
  <2>7. ASSUME NEW i \in 1 .. n + 1 PROVE d[i] = <<f[n + 1][i]>>
    <3>1. CASE i = n + 1
      BY <2>4, <2>5, <3>1
    <3>2. CASE i # n + 1
      <4>1. i \in 1 .. n
        BY <3>2
      <4> QED BY <1>3, <2>6, <4>1
    <3> QED BY <3>1, <3>2
  <2> QED BY <2>5, <2>7
<1> HIDE DEF Good
<1>4. 0 \in T /\ \A n \in Nat : n \in T => n + 1 \in T
  BY <1>2, <1>3
<1> HIDE DEF T
<1>5. Len(d) \in T
  BY <1>0, <1>4, NumbersFromZero
<1>6. Good(Len(d))
  BY <1>5 DEF T
<1> QED BY <1>1, <1>6, FlattenIs DEF Good

(* Whatever is in a member is in what they are together. *)
LEMMA FlattenHas ==
  ASSUME NEW S, NEW d \in Seq(Seq(S)), NEW m \in 1 .. Len(d), NEW j \in 1 .. Len(d[m])
  PROVE  d[m][j] \in ToSet(FlattenSeq(d))
<1>0. Len(d) \in Nat /\ d[m] \in Seq(S) /\ Len(d[m]) \in Nat
  BY LenProperties, ElementOfSeq
<1>1. PICK f \in [0 .. Len(d) -> Seq(S)] : Joined(d, f)
  BY JoinedExists
<1> DEFINE Has(n) == \E i \in 1 .. Len(f[n]) : f[n][i] = d[m][j]
           T == {n \in Nat : m =< n /\ n =< Len(d) => Has(n)}
<1>2. 0 \in T
  OBVIOUS
<1> HIDE DEF Has, T
<1>3. ASSUME NEW n \in Nat, m =< n + 1, n + 1 =< Len(d), m =< n => Has(n) PROVE Has(n + 1)
  <2>1. n + 1 \in 1 .. Len(d) /\ (n + 1) - 1 = n /\ n \in 0 .. Len(d)
    BY <1>0, <1>3, SMTT(30)
  <2>2. f[n + 1] = f[n] \o d[n + 1] /\ f[n] \in Seq(S) /\ d[n + 1] \in Seq(S)
    BY <1>0, <1>1, <2>1, ElementOfSeq DEF Joined
  <2> DEFINE a == f[n]
             b == d[n + 1]
  <2> HIDE DEF a, b
  <2>a. a \in Seq(S) /\ b \in Seq(S) /\ f[n + 1] = a \o b
    BY <2>2 DEF a, b
  <2>b. /\ Len(a) \in Nat /\ Len(b) \in Nat /\ Len(f[n + 1]) = Len(a) + Len(b)
        /\ \A i \in 1 .. Len(a) + Len(b) :
              f[n + 1][i] = IF i =< Len(a) THEN a[i] ELSE b[i - Len(a)]
    BY <2>a, ConcatProperties
  <2>3. CASE m = n + 1
    <3>1. j \in 1 .. Len(b) /\ b[j] = d[m][j]
      BY <2>3 DEF b
    <3>2. Len(a) + j \in 1 .. Len(a) + Len(b) /\ ~(Len(a) + j =< Len(a))
          /\ (Len(a) + j) - Len(a) = j
      BY <2>b, <3>1
    <3> QED BY <2>b, <3>1, <3>2 DEF Has
  <2>4. CASE m # n + 1
    <3>1. PICK i \in 1 .. Len(a) : a[i] = d[m][j]
      BY <1>3, <2>4 DEF a, Has
    <3>2. i \in 1 .. Len(f[n + 1]) /\ f[n + 1][i] = a[i]
      BY <2>b, SMTT(30)
    <3> QED BY <3>1, <3>2 DEF Has
  <2> QED BY <2>3, <2>4
<1>4. ASSUME NEW n \in Nat, n \in T PROVE n + 1 \in T
  <2> SUFFICES ASSUME m =< n + 1, n + 1 =< Len(d) PROVE Has(n + 1)
    BY DEF T
  <2>1. n =< Len(d)
    BY <1>0, <1>4
  <2>2. m =< n => Has(n)
    BY <1>4, <2>1 DEF T
  <2> QED BY <1>3, <1>4, <2>1, <2>2
<1>5. Len(d) \in T
  BY <1>0, <1>2, <1>4, NumbersFromZero
<1>6. Has(Len(d))
  BY <1>0, <1>5 DEF T
<1>7. FlattenSeq(d) = f[Len(d)]
  BY <1>1, FlattenIs
<1>8. f[Len(d)] \in Seq(S)
  <2>1. Len(d) \in 0 .. Len(d)
    BY <1>0
  <2> QED BY <1>1, <2>1
<1> QED BY <1>6, <1>7, <1>8 DEF Has, ToSet

(* Three sequences one after the other. *)
LEMMA ThreeParts ==
  ASSUME NEW S, NEW a, NEW b, NEW c, a \in Seq(S), b \in Seq(S), c \in Seq(S)
  PROVE  (a \o b) \o c = a \o (b \o c)
BY ConcatAssociative, SMT

(* What two sequences have put together, one after the other. *)
LEMMA FlattenConcat ==
  ASSUME NEW S, NEW c \in Seq(Seq(S)), NEW d \in Seq(Seq(S))
  PROVE  FlattenSeq(c \o d) = FlattenSeq(c) \o FlattenSeq(d)
<1> DEFINE e == c \o d
<1>1. /\ e \in Seq(Seq(S)) /\ Len(c) \in Nat /\ Len(d) \in Nat /\ Len(e) = Len(c) + Len(d)
      /\ \A i \in 1 .. Len(c) + Len(d) : e[i] = IF i =< Len(c) THEN c[i] ELSE d[i - Len(c)]
  BY ConcatProperties, LenProperties
<1> HIDE DEF e
<1>2. PICK f \in [0 .. Len(e) -> Seq(S)] : Joined(e, f)
  BY <1>1, JoinedExists
<1>3. PICK h \in [0 .. Len(d) -> Seq(S)] : Joined(d, h)
  BY JoinedExists
<1>4. Joined(c, f)
  <2>1. ASSUME NEW i \in 1 .. Len(c) PROVE f[i] = f[i - 1] \o c[i]
    <3>1. i \in 1 .. Len(e) /\ i \in 1 .. Len(c) + Len(d) /\ i =< Len(c)
      BY <1>1
    <3>2. e[i] = c[i]
      BY <1>1, <3>1
    <3> QED BY <1>2, <3>1, <3>2 DEF Joined
  <2> QED BY <1>2, <2>1 DEF Joined
<1> DEFINE a == f[Len(c)]
           T == {n \in Nat : n =< Len(d) => f[Len(c) + n] = a \o h[n]}
<1>5. a \in Seq(S)
  <2>1. Len(c) \in 0 .. Len(e)
    BY <1>1
  <2> QED BY <1>2, <2>1
<1>6. 0 \in T
  <2>1. h[0] = <<>> /\ Len(c) + 0 = Len(c)
    BY <1>1, <1>3 DEF Joined
  <2>2. a \o <<>> = a
    BY <1>5, ConcatEmptySeq
  <2> QED BY <2>1, <2>2
<1> HIDE DEF a
<1>7. ASSUME NEW n \in Nat, n + 1 =< Len(d), f[Len(c) + n] = a \o h[n]
      PROVE  f[Len(c) + (n + 1)] = a \o h[n + 1]
  <2>1. /\ Len(c) + (n + 1) \in 1 .. Len(e) /\ Len(c) + (n + 1) \in 1 .. Len(c) + Len(d)
        /\ (Len(c) + (n + 1)) - 1 = Len(c) + n /\ ~(Len(c) + (n + 1) =< Len(c))
        /\ (Len(c) + (n + 1)) - Len(c) = n + 1
        /\ n + 1 \in 1 .. Len(d) /\ (n + 1) - 1 = n /\ n \in 0 .. Len(d)
    <3>1. PICK x, y, z : x = Len(c) /\ y = Len(d) /\ z = Len(e)
      OBVIOUS
    <3>2. x \in Nat /\ y \in Nat /\ z = x + y /\ n + 1 =< y
      BY <1>1, <1>7, <3>1, Zenon
    <3>3. /\ x + (n + 1) \in 1 .. z /\ x + (n + 1) \in 1 .. x + y
          /\ (x + (n + 1)) - 1 = x + n /\ ~(x + (n + 1) =< x) /\ (x + (n + 1)) - x = n + 1
          /\ n + 1 \in 1 .. y /\ (n + 1) - 1 = n /\ n \in 0 .. y
      BY <3>2
    <3> QED BY <3>1, <3>3, Zenon
  <2>2. e[Len(c) + (n + 1)] = d[n + 1]
    BY <1>1, <2>1
  <2>3. f[Len(c) + (n + 1)] = (a \o h[n]) \o d[n + 1]
    BY <1>2, <1>7, <2>1, <2>2 DEF Joined
  <2>4. h[n + 1] = h[n] \o d[n + 1]
    BY <1>3, <2>1 DEF Joined
  <2>5. h[n] \in Seq(S) /\ d[n + 1] \in Seq(S)
    BY <1>3, <2>1, ElementOfSeq
  <2>6. (a \o h[n]) \o d[n + 1] = a \o (h[n] \o d[n + 1])
    <3>1. PICK p, q, r : p = h[n] /\ q = d[n + 1] /\ r = a
      OBVIOUS
    <3>2. p \in Seq(S) /\ q \in Seq(S) /\ r \in Seq(S)
      BY <1>5, <2>5, <3>1
    <3>3. (r \o p) \o q = r \o (p \o q)
      BY <3>2, ThreeParts, SMTT(30)
    <3> QED BY <3>1, <3>3
  <2> QED BY <2>3, <2>4, <2>6
<1>8. ASSUME NEW n \in Nat, n \in T PROVE n + 1 \in T
  <2> SUFFICES ASSUME n + 1 =< Len(d) PROVE f[Len(c) + (n + 1)] = a \o h[n + 1]
    OBVIOUS
  <2>1. n =< Len(d)
    BY <1>1
  <2>2. f[Len(c) + n] = a \o h[n]
    BY <1>8, <2>1, Zenon
  <2> QED BY <1>7, <2>2
<1>9a. \A n \in Nat : n \in T => n + 1 \in T
  BY <1>8
<1> HIDE DEF T
<1>9. Len(d) \in T
  BY <1>1, <1>6, <1>9a, NumbersFromZero
<1>10. f[Len(c) + Len(d)] = a \o h[Len(d)]
  BY <1>1, <1>9 DEF T
<1>11. FlattenSeq(e) = f[Len(e)] /\ FlattenSeq(c) = a /\ FlattenSeq(d) = h[Len(d)]
  BY <1>1, <1>2, <1>3, <1>4, FlattenIs DEF a
<1> QED BY <1>1, <1>10, <1>11 DEF e

(* If every member but one is empty, that one is all there is. *)
LEMMA FlattenOnly ==
  ASSUME NEW S, NEW d \in Seq(Seq(S)), NEW m \in 1 .. Len(d),
         \A i \in 1 .. Len(d) : i # m => d[i] = <<>>
  PROVE  FlattenSeq(d) = d[m]
<1>0. Len(d) \in Nat /\ d[m] \in Seq(S) /\ d[m] \o <<>> = d[m] /\ <<>> \o d[m] = d[m]
  BY LenProperties, ElementOfSeq, ConcatEmptySeq
<1>1. PICK f \in [0 .. Len(d) -> Seq(S)] : Joined(d, f)
  BY JoinedExists
<1> DEFINE v(n) == IF n < m THEN <<>> ELSE d[m]
           T == {n \in Nat : n =< Len(d) => f[n] = v(n)}
<1>2. 0 \in T
  BY <1>0, <1>1 DEF Joined
<1>3. ASSUME NEW n \in Nat, n + 1 =< Len(d), f[n] = v(n) PROVE f[n + 1] = v(n + 1)
  <2>1. n + 1 \in 1 .. Len(d) /\ (n + 1) - 1 = n
    BY <1>0, <1>3, SMTT(30)
  <2>2. f[n + 1] = f[n] \o d[n + 1]
    BY <1>1, <2>1 DEF Joined
  <2>3. CASE n + 1 < m
    <3>1. d[n + 1] = <<>> /\ f[n] = <<>>
      BY <1>3, <2>1, <2>3
    <3> QED BY <2>2, <2>3, <3>1
  <2>4. CASE n + 1 = m
    <3>1. f[n] = <<>>
      BY <1>3, <2>4
    <3> QED BY <1>0, <2>2, <2>4, <3>1
  <2>5. CASE n + 1 > m
    <3>1. d[n + 1] = <<>> /\ f[n] = d[m]
      BY <1>3, <2>1, <2>5
    <3> QED BY <1>0, <2>2, <2>5, <3>1
  <2> QED BY <2>3, <2>4, <2>5
<1> HIDE DEF v
<1>4a. ASSUME NEW n \in Nat, n \in T PROVE n + 1 \in T
  <2> SUFFICES ASSUME n + 1 =< Len(d) PROVE f[n + 1] = v(n + 1)
    OBVIOUS
  <2>1. f[n] = v(n)
    BY <1>0, <1>4a
  <2> QED BY <1>3, <2>1
<1>4. \A n \in Nat : n \in T => n + 1 \in T
  BY <1>4a
<1> HIDE DEF T
<1>5. Len(d) \in T
  BY <1>0, <1>2, <1>4, NumbersFromZero
<1>6. f[Len(d)] = v(Len(d))
  BY <1>0, <1>5 DEF T
<1>7. FlattenSeq(d) = f[Len(d)]
  BY <1>1, FlattenIs
<1> QED BY <1>0, <1>6, <1>7 DEF v

-----------------------------------------------------------------------------
(* A prefix, element by element. *)
LEMMA PrefixIs ==
  ASSUME NEW S, NEW s \in Seq(S), NEW t \in Seq(S)
  PROVE  IsPrefix(s, t) <=> Len(s) =< Len(t) /\ \A k \in 1 .. Len(s) : s[k] = t[k]
<1> SUFFICES ASSUME Len(s) =< Len(t)
             PROVE  SubSeq(s, 1, Len(s)) = SubSeq(t, 1, Len(s))
                    <=> \A k \in 1 .. Len(s) : s[k] = t[k]
  BY DEF IsPrefix
<1>1. SubSeq(s, 1, Len(s)) = s
  BY SubSeqFull
<1>2. /\ SubSeq(t, 1, Len(s)) \in Seq(S) /\ Len(SubSeq(t, 1, Len(s))) = Len(s)
      /\ \A k \in 1 .. Len(s) : SubSeq(t, 1, Len(s))[k] = t[k]
  BY SubSeqProperties
<1> HIDE DEF IsPrefix
<1>3. s = SubSeq(t, 1, Len(s)) <=> \A k \in 1 .. Len(s) : s[k] = SubSeq(t, 1, Len(s))[k]
  BY <1>2, SeqEqual
<1> QED BY <1>1, <1>2, <1>3
=============================================================================
