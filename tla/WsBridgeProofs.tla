--------------------------- MODULE WsBridgeProofs ---------------------------
(***************************************************************************)
(* Proofs about WsBridge, for any clients, streams and models: at most one *)
(* session leads the fetch of a key, a request for a listed model is one   *)
(* the upstream accepts, the events sent are those of the stream however   *)
(* it is cut, the cache keeps whole answers and replays them as they were, *)
(* and the messages of a client arrive whole.                              *)
(***************************************************************************)
EXTENDS WsBridge, SequenceFacts, FiniteSetTheorems, TLAPS

-----------------------------------------------------------------------------
(* Data lines *)

(* The text of a stream. *)
Text == Seq(Symbols)

(* A message is at most one sequence of data lines. *)
LEMMA DataLinesType ==
  ASSUME NEW block \in Text
  PROVE  DataLines(block) \in Seq(Data)
<1> DEFINE d == [i \in DOMAIN block |-> IF block[i] \in Data THEN <<block[i]>> ELSE <<>>]
<1>1. DOMAIN block = 1 .. Len(block) /\ Len(block) \in Nat
  BY DEF Text
<1>2. ASSUME NEW i \in 1 .. Len(block)
      PROVE  (IF block[i] \in Data THEN <<block[i]>> ELSE <<>>) \in Seq(Data)
  OBVIOUS
<1>3. d \in Seq(Seq(Data))
  BY <1>1, <1>2, IsASeq
<1> HIDE DEF d
<1>4. FlattenSeq(d) \in Seq(Data)
  BY <1>3, FlattenFew, FlattenFacts
<1> QED BY <1>4 DEF DataLines, d

(* A block has one message or none. *)
LEMMA MessageType ==
  ASSUME NEW block \in Text
  PROVE  /\ Message(block) \in Seq(Seq(Data))
         /\ Message(block) = <<>> \/ Message(block) = <<DataLines(block)>>
BY DataLinesType DEF Message

(* The lines of two pieces of text, and of a piece that has none. *)
LEMMA DataLinesConcat ==
  ASSUME NEW a \in Text, NEW b \in Text
  PROVE  DataLines(a \o b) = DataLines(a) \o DataLines(b)
<1> DEFINE line(x) == IF x \in Data THEN <<x>> ELSE <<>>
           lines(t) == [i \in DOMAIN t |-> line(t[i])]
<1>0. ASSUME NEW x PROVE line(x) \in Seq(Data)
  OBVIOUS
<1>1. ASSUME NEW t \in Text PROVE /\ lines(t) \in Seq(Seq(Data)) /\ Len(lines(t)) = Len(t)
                                  /\ DataLines(t) = FlattenSeq(lines(t))
                                  /\ \A i \in 1 .. Len(t) : lines(t)[i] = line(t[i])
  <2> HIDE DEF line
  <2>1. DOMAIN t = 1 .. Len(t) /\ Len(t) \in Nat
    BY DEF Text
  <2>2. lines(t) \in Seq(Seq(Data))
    BY <1>0, <2>1, IsASeq
  <2>3. DOMAIN lines(t) = 1 .. Len(t)
    BY <2>1
  <2>4. Len(lines(t)) = Len(t)
    BY <2>1, <2>2, <2>3, LenProperties
  <2> QED BY <2>2, <2>1, <2>3, <2>4 DEF DataLines, line
<1> HIDE DEF line
<1>2. /\ a \o b \in Text /\ Len(a \o b) = Len(a) + Len(b) /\ Len(a) \in Nat /\ Len(b) \in Nat
      /\ \A i \in 1 .. Len(a) + Len(b) : (a \o b)[i] = IF i =< Len(a) THEN a[i] ELSE b[i - Len(a)]
  BY ConcatProperties DEF Text
<1>3. PICK u \in Seq(Seq(Data)) : /\ Len(u) = Len(a) /\ \A i \in 1 .. Len(a) : u[i] = line(a[i])
                                  /\ DataLines(a) = FlattenSeq(u)
  BY <1>1
<1>4. PICK v \in Seq(Seq(Data)) : /\ Len(v) = Len(b) /\ \A i \in 1 .. Len(b) : v[i] = line(b[i])
                                  /\ DataLines(b) = FlattenSeq(v)
  BY <1>1
<1>5. PICK w \in Seq(Seq(Data)) : /\ Len(w) = Len(a) + Len(b)
                                  /\ \A i \in 1 .. Len(a) + Len(b) : w[i] = line((a \o b)[i])
                                  /\ DataLines(a \o b) = FlattenSeq(w)
  BY <1>1, <1>2
<1> HIDE DEF lines
<1>6. /\ u \o v \in Seq(Seq(Data)) /\ Len(u \o v) = Len(a) + Len(b)
      /\ \A i \in 1 .. Len(a) + Len(b) : (u \o v)[i] = IF i =< Len(a) THEN u[i] ELSE v[i - Len(a)]
  <2>1. u \o v \in Seq(Seq(Data)) /\ Len(u \o v) = Len(u) + Len(v)
    BY ConcatProperties
  <2>2. \A i \in 1 .. Len(u) + Len(v) : (u \o v)[i] = IF i =< Len(u) THEN u[i] ELSE v[i - Len(u)]
    BY ConcatProperties
  <2> QED BY <1>3, <1>4, <2>1, <2>2
<1>7. ASSUME NEW i \in 1 .. Len(a) + Len(b) PROVE w[i] = (u \o v)[i]
  <2>1. CASE i =< Len(a)
    <3>1. i \in 1 .. Len(a)
      BY <1>2, <2>1
    <3> QED BY <1>2, <1>3, <1>5, <1>6, <2>1, <3>1
  <2>2. CASE ~(i =< Len(a))
    <3>1. i - Len(a) \in 1 .. Len(b)
      BY <1>2, <2>2
    <3> QED BY <1>2, <1>4, <1>5, <1>6, <2>2, <3>1
  <2> QED BY <2>1, <2>2
<1>8. w = u \o v
  BY <1>5, <1>6, <1>7, SeqEqual
<1>9. FlattenSeq(u \o v) = FlattenSeq(u) \o FlattenSeq(v)
  BY FlattenConcat
<1> QED BY <1>3, <1>4, <1>5, <1>8, <1>9

(* A piece without data lines. *)
LEMMA NoDataLines ==
  ASSUME NEW a \in Text, \A i \in 1 .. Len(a) : a[i] \notin Data
  PROVE  DataLines(a) = <<>>
<1> DEFINE d == [i \in DOMAIN a |-> IF a[i] \in Data THEN <<a[i]>> ELSE <<>>]
<1>1. DOMAIN a = 1 .. Len(a) /\ Len(a) \in Nat
  BY DEF Text
<1>2. d \in Seq(Seq(Data)) /\ Len(d) = Len(a) /\ \A i \in 1 .. Len(d) : d[i] = <<>>
  <2>1. d = [i \in 1 .. Len(a) |-> <<>>]
    BY <1>1
  <2>2. <<>> \in Seq(Data)
    OBVIOUS
  <2>3. d \in Seq(Seq(Data)) /\ DOMAIN d = 1 .. Len(a)
    BY <1>1, <2>1, <2>2, IsASeq
  <2>4. Len(d) = Len(a)
    BY <1>1, <2>3, LenProperties
  <2> QED BY <2>1, <2>3, <2>4
<1>3. DataLines(a) = FlattenSeq(d)
  BY DEF DataLines
<1> HIDE DEF d
<1>4. CASE Len(d) = 0
  <2>1. d = <<>>
    BY <1>2, <1>4
  <2>2. <<>> \in Seq(Data)
    OBVIOUS
  <2>3. FlattenSeq(<<>>) = <<>>
    BY <2>2, FlattenFew
  <2> QED BY <1>3, <2>1, <2>3
<1>5. CASE Len(d) # 0
  <2>1. 1 \in 1 .. Len(d)
    BY <1>1, <1>2, <1>5
  <2> QED BY <1>2, <1>3, <2>1, FlattenOnly
<1> QED BY <1>4, <1>5

-----------------------------------------------------------------------------
(* Blank lines *)

LfLf(q, i) == i + 1 =< Len(q) /\ q[i] = "lf" /\ q[i + 1] = "lf"
CrLfCrLf(q, i) ==
    i + 3 =< Len(q) /\ q[i] = "cr" /\ q[i + 1] = "lf" /\ q[i + 2] = "cr" /\ q[i + 3] = "lf"

(* The symbols of a blank line. *)
Width(q, i) == IF q[i] = "lf" THEN 2 ELSE 4

(* A blank line is one of two pieces of text. *)
LEMMA Pieces ==
  ASSUME NEW S, NEW a \in S, NEW b \in S
  PROVE  /\ <<a, b>> \in Seq(S) /\ Len(<<a, b>>) = 2 /\ <<a, b>>[1] = a /\ <<a, b>>[2] = b
         /\ <<a, b, a, b>> \in Seq(S) /\ Len(<<a, b, a, b>>) = 4
         /\ <<a, b, a, b>>[1] = a /\ <<a, b, a, b>>[2] = b
         /\ <<a, b, a, b>>[3] = a /\ <<a, b, a, b>>[4] = b
OBVIOUS

(* They begin a text that has their symbols. *)
LEMMA PrefixPieces ==
  ASSUME NEW S, NEW t \in Seq(S), NEW a \in S, NEW b \in S
  PROVE  /\ IsPrefix(<<a, b>>, t) <=> 2 =< Len(t) /\ t[1] = a /\ t[2] = b
         /\ IsPrefix(<<a, b, a, b>>, t)
               <=> 4 =< Len(t) /\ t[1] = a /\ t[2] = b /\ t[3] = a /\ t[4] = b
<1>1. ASSUME NEW c \in Seq(S), Len(c) = 2, c[1] = a, c[2] = b
      PROVE  IsPrefix(c, t) <=> 2 =< Len(t) /\ t[1] = a /\ t[2] = b
  <2>1. IsPrefix(c, t) <=> Len(c) =< Len(t) /\ \A k \in 1 .. Len(c) : c[k] = t[k]
    BY PrefixIs
  <2>2. 1 .. 2 = {1, 2}
    OBVIOUS
  <2> QED BY <1>1, <2>1, <2>2
<1>2. ASSUME NEW c \in Seq(S), Len(c) = 4, c[1] = a, c[2] = b, c[3] = a, c[4] = b
      PROVE  IsPrefix(c, t) <=> 4 =< Len(t) /\ t[1] = a /\ t[2] = b /\ t[3] = a /\ t[4] = b
  <2>1. IsPrefix(c, t) <=> Len(c) =< Len(t) /\ \A k \in 1 .. Len(c) : c[k] = t[k]
    BY PrefixIs
  <2>2. 1 .. 4 = {1, 2, 3, 4}
    OBVIOUS
  <2> QED BY <1>2, <2>1, <2>2
<1> QED BY <1>1, <1>2, Pieces

(* Where the blank lines are, symbol by symbol. *)
LEMMA BreakIs ==
  ASSUME NEW q \in Text, NEW i \in 1 .. Len(q)
  PROVE  i \in Breaks(q) <=> LfLf(q, i) \/ CrLfCrLf(q, i)
<1> DEFINE t == SubSeq(q, i, Len(q))
<1>0. Len(q) \in Nat /\ \A k \in i .. Len(q) : q[k] \in Symbols
  BY DEF Text
<1>1. /\ t \in Seq(Symbols) /\ Len(t) = Len(q) - i + 1
      /\ \A k \in 1 .. Len(q) - i + 1 : t[k] = q[i + k - 1]
  BY <1>0, SubSeqProperties
<1>2. i \in Breaks(q) <=> IsPrefix(<<"lf", "lf">>, t) \/ IsPrefix(<<"cr", "lf", "cr", "lf">>, t)
  BY DEF Breaks, Blank, Text
<1> HIDE DEF t
<1>3. "lf" \in Symbols /\ "cr" \in Symbols
  BY DEF Symbols
<1>4. IsPrefix(<<"lf", "lf">>, t) <=> LfLf(q, i)
  <2>1. IsPrefix(<<"lf", "lf">>, t) <=> 2 =< Len(t) /\ t[1] = "lf" /\ t[2] = "lf"
    BY <1>1, <1>3, PrefixPieces
  <2>2. 2 =< Len(t) => t[1] = q[i] /\ t[2] = q[i + 1]
    BY <1>0, <1>1
  <2>3. 2 =< Len(t) <=> i + 1 =< Len(q)
    BY <1>0, <1>1
  <2> QED BY <2>1, <2>2, <2>3 DEF LfLf
<1>5. IsPrefix(<<"cr", "lf", "cr", "lf">>, t) <=> CrLfCrLf(q, i)
  <2>1. IsPrefix(<<"cr", "lf", "cr", "lf">>, t)
           <=> 4 =< Len(t) /\ t[1] = "cr" /\ t[2] = "lf" /\ t[3] = "cr" /\ t[4] = "lf"
    BY <1>1, <1>3, PrefixPieces
  <2>2. 4 =< Len(t) => t[1] = q[i] /\ t[2] = q[i + 1] /\ t[3] = q[i + 2] /\ t[4] = q[i + 3]
    BY <1>0, <1>1
  <2>3. 4 =< Len(t) <=> i + 3 =< Len(q)
    BY <1>0, <1>1
  <2> QED BY <2>1, <2>2, <2>3 DEF CrLfCrLf
<1> QED BY <1>2, <1>4, <1>5

(* A blank line has no data, and is all there. *)
LEMMA BreakFacts ==
  ASSUME NEW q \in Text, NEW i \in Breaks(q)
  PROVE  /\ Len(q) \in Nat /\ i \in 1 .. Len(q) /\ Width(q, i) \in {2, 4}
         /\ i + Width(q, i) =< Len(q) + 1
         /\ \A k \in i .. i + Width(q, i) - 1 : q[k] \in {"cr", "lf"}
         /\ LfLf(q, i) \/ CrLfCrLf(q, i)
<1>1. i \in 1 .. Len(q) /\ Len(q) \in Nat
  BY DEF Breaks, Text
<1>2. LfLf(q, i) \/ CrLfCrLf(q, i)
  BY <1>1, BreakIs
<1>3. CASE LfLf(q, i)
  <2>1. i .. i + 2 - 1 = {i, i + 1}
    BY <1>1
  <2> QED BY <1>1, <1>3, <2>1 DEF LfLf, Width
<1>4. CASE CrLfCrLf(q, i)
  <2>1. i .. i + 4 - 1 = {i, i + 1, i + 2, i + 3}
    BY <1>1
  <2> QED BY <1>1, <1>4, <2>1 DEF CrLfCrLf, Width
<1> QED BY <1>2, <1>3, <1>4

(* What is left after a blank line. *)
LEMMA RestFacts ==
  ASSUME NEW q \in Text, NEW i \in Breaks(q)
  PROVE  /\ Rest(q, i) \in Text /\ Len(Rest(q, i)) = Len(q) - (i + Width(q, i) - 1)
         /\ \A k \in 1 .. Len(Rest(q, i)) : Rest(q, i)[k] = q[(i + Width(q, i) - 1) + k]
         /\ Block(q, i) \in Text /\ Len(Block(q, i)) = i - 1
         /\ \A k \in 1 .. i - 1 : Block(q, i)[k] = q[k]
<1> DEFINE n == i + Width(q, i) - 1
<1>1. Len(q) \in Nat /\ i \in 1 .. Len(q) /\ n \in 0 .. Len(q) /\ n + 1 = i + Width(q, i)
  BY BreakFacts
<1>2. Rest(q, i) = SubSeq(q, n + 1, Len(q))
  BY <1>1 DEF Rest, Width
<1> HIDE DEF n
<1>3. /\ SubSeq(q, n + 1, Len(q)) \in Seq(Symbols) /\ Len(SubSeq(q, n + 1, Len(q))) = Len(q) - n
      /\ \A k \in 1 .. Len(q) - n : SubSeq(q, n + 1, Len(q))[k] = q[n + k]
  BY <1>1, SuffixFacts DEF Text
<1>4. \A k \in 1 .. i - 1 : q[k] \in Symbols
  BY <1>1 DEF Text
<1>5. /\ Block(q, i) \in Seq(Symbols) /\ Len(Block(q, i)) = i - 1
      /\ \A k \in 1 .. i - 1 : Block(q, i)[k] = q[k]
  BY <1>1, <1>4, SubSeqProperties DEF Block
<1> QED BY <1>2, <1>3, <1>5 DEF Text, n

(* What comes after the first blank line neither moves it nor the block      *)
(* before it. *)
LEMMA FirstBreak ==
  ASSUME NEW q \in Text, NEW z \in Text, NEW i \in Breaks(q), \A j \in Breaks(q) : i =< j
  PROVE  /\ i \in Breaks(q \o z) /\ \A j \in Breaks(q \o z) : i =< j
         /\ Block(q \o z, i) = Block(q, i) /\ Rest(q \o z, i) = Rest(q, i) \o z
<1> DEFINE y == q \o z
<1>1. /\ y \in Text /\ Len(y) = Len(q) + Len(z) /\ Len(q) \in Nat /\ Len(z) \in Nat
      /\ \A k \in 1 .. Len(q) + Len(z) : y[k] = IF k =< Len(q) THEN q[k] ELSE z[k - Len(q)]
  BY ConcatProperties, LenProperties DEF Text
<1> HIDE DEF y
<1>2. \A k \in 1 .. Len(q) : k \in 1 .. Len(q) + Len(z) /\ y[k] = q[k]
  BY <1>1
<1>3. /\ i \in 1 .. Len(q) /\ Width(q, i) \in {2, 4} /\ i + Width(q, i) =< Len(q) + 1
      /\ LfLf(q, i) \/ CrLfCrLf(q, i)
  BY BreakFacts
<1>4. LfLf(q, i) => LfLf(y, i)
  BY <1>1, <1>2, <1>3 DEF LfLf
<1>5. CrLfCrLf(q, i) => CrLfCrLf(y, i)
  BY <1>1, <1>2, <1>3 DEF CrLfCrLf
<1>6. i \in Breaks(y)
  BY <1>1, <1>3, <1>4, <1>5, BreakIs
<1>7. ASSUME NEW j \in Breaks(y), j < i PROVE FALSE
  <2>1. j \in 1 .. Len(q) /\ (LfLf(y, j) \/ CrLfCrLf(y, j))
    BY <1>1, <1>3, <1>7, BreakFacts
  <2>2. j + 1 \in 1 .. Len(q) /\ i + 1 \in 1 .. Len(q)
    BY <1>1, <1>3, <1>7, <2>1
  <2>3. CASE LfLf(y, j)
    <3>1. LfLf(q, j)
      BY <1>2, <2>1, <2>2, <2>3 DEF LfLf
    <3> QED BY <1>7, <2>1, <3>1, BreakIs
  <2>4. CASE CrLfCrLf(y, j) /\ j + 3 =< Len(q)
    <3>1. j + 2 \in 1 .. Len(q) /\ j + 3 \in 1 .. Len(q)
      BY <1>1, <2>1, <2>4
    <3>2. CrLfCrLf(q, j)
      BY <1>2, <2>1, <2>2, <2>4, <3>1 DEF CrLfCrLf
    <3> QED BY <1>7, <2>1, <3>2, BreakIs
  <2>5. CASE CrLfCrLf(y, j) /\ ~(j + 3 =< Len(q))
    <3>1. i = j + 1 /\ i + 1 = j + 2 /\ ~(i + 3 =< Len(q))
      BY <1>1, <1>3, <1>7, <2>1, <2>2, <2>5
    <3>2. q[i + 1] = "cr"
      BY <1>2, <2>2, <2>5, <3>1 DEF CrLfCrLf
    <3>3. ~LfLf(q, i) /\ ~CrLfCrLf(q, i)
      BY <3>1, <3>2 DEF LfLf, CrLfCrLf
    <3> QED BY <1>3, <3>3
  <2> QED BY <2>1, <2>3, <2>4, <2>5
<1>8. \A j \in Breaks(y) : i =< j
  <2>1. \A j \in Breaks(y) : j \in Nat /\ i \in Nat
    BY <1>1, <1>3, BreakFacts
  <2> QED BY <1>7, <2>1
<1>9. /\ Block(y, i) \in Text /\ Len(Block(y, i)) = i - 1
      /\ \A k \in 1 .. i - 1 : Block(y, i)[k] = y[k]
      /\ Block(q, i) \in Text /\ Len(Block(q, i)) = i - 1
      /\ \A k \in 1 .. i - 1 : Block(q, i)[k] = q[k]
  BY <1>1, <1>6, RestFacts
<1>10. Block(y, i) = Block(q, i)
  <2>1. \A k \in 1 .. i - 1 : k \in 1 .. Len(q)
    BY <1>1, <1>3
  <2>2. \A k \in 1 .. i - 1 : Block(y, i)[k] = Block(q, i)[k]
    BY <1>2, <1>9, <2>1
  <2> QED BY <1>9, <2>2, SeqEqual DEF Text
<1>11. Width(y, i) = Width(q, i)
  BY <1>2, <1>3 DEF Width
<1> DEFINE n == i + Width(q, i) - 1
           a == Rest(q, i)
           b == Rest(y, i)
<1>12. n \in Nat /\ n =< Len(q)
  BY <1>1, <1>3
<1>13. a \in Text /\ Len(a) = Len(q) - n /\ \A k \in 1 .. Len(a) : a[k] = q[n + k]
  BY RestFacts
<1>14. b \in Text /\ Len(b) = Len(y) - n /\ \A k \in 1 .. Len(b) : b[k] = y[n + k]
  <2>1. /\ b \in Text /\ Len(b) = Len(y) - (i + Width(y, i) - 1)
        /\ \A k \in 1 .. Len(b) : b[k] = y[(i + Width(y, i) - 1) + k]
    BY <1>1, <1>6, RestFacts
  <2> QED BY <1>11, <2>1
<1> HIDE DEF n, a, b
<1>15. /\ a \o z \in Text /\ Len(a \o z) = Len(a) + Len(z)
       /\ \A k \in 1 .. Len(a) + Len(z) : (a \o z)[k] = IF k =< Len(a) THEN a[k] ELSE z[k - Len(a)]
  BY <1>13, ConcatProperties DEF Text
<1>16. ASSUME NEW k \in 1 .. Len(b) PROVE b[k] = (a \o z)[k]
  <2>1. k \in 1 .. Len(a) + Len(z) /\ n + k \in 1 .. Len(q) + Len(z)
    BY <1>1, <1>12, <1>13, <1>14
  <2>2. CASE k =< Len(a)
    <3>1. n + k =< Len(q) /\ k \in 1 .. Len(a)
      BY <1>1, <1>12, <1>13, <2>2
    <3> QED BY <1>1, <1>13, <1>14, <1>15, <2>1, <2>2, <3>1
  <2>3. CASE ~(k =< Len(a))
    <3>1. ~(n + k =< Len(q)) /\ (n + k) - Len(q) = k - Len(a)
      BY <1>1, <1>12, <1>13, <2>3
    <3> QED BY <1>1, <1>14, <1>15, <2>1, <2>3, <3>1
  <2> QED BY <2>2, <2>3
<1>17. Len(b) = Len(a \o z)
  BY <1>1, <1>12, <1>13, <1>14, <1>15
<1>18. b = a \o z
  BY <1>14, <1>15, <1>16, <1>17, SeqEqual DEF Text
<1> QED BY <1>6, <1>8, <1>10, <1>18 DEF y, a, b

-----------------------------------------------------------------------------
(* The events of the whole text *)

Since(q, b) == Max({1} \cup {p \in Breaks(q) : p < b})
Ended(q, b) == IF b \in Breaks(q) THEN Message(SubSeq(q, Since(q, b), b - 1)) ELSE <<>>

(* The events of a text, position by position. *)
LEMMA EventsIs ==
  ASSUME NEW q \in Text
  PROVE  Events(q) = FlattenSeq([b \in 1 .. Len(q) |-> Ended(q, b)])
<1>1. DOMAIN q = 1 .. Len(q)
  BY DEF Text
<1> QED BY <1>1 DEF Events, Ended, Since

(* Where the part before a blank line begins. *)
LEMMA SinceFacts ==
  ASSUME NEW q \in Text, NEW b \in 1 .. Len(q)
  PROVE  /\ Since(q, b) \in 1 .. Len(q)
         /\ Since(q, b) = 1 \/ (Since(q, b) \in Breaks(q) /\ Since(q, b) < b)
         /\ \A p \in Breaks(q) : p < b => p =< Since(q, b)
<1> DEFINE T == {1} \cup {p \in Breaks(q) : p < b}
<1>1. Len(q) \in Nat /\ \A p \in Breaks(q) : p \in 1 .. Len(q)
  BY BreakFacts DEF Text
<1>2. T \subseteq Nat /\ T # {} /\ \A n \in T : n =< Len(q)
  BY <1>1
<1>3. Max(T) \in T /\ \A n \in T : n =< Max(T)
  BY <1>1, <1>2, MaxNat
<1> QED BY <1>1, <1>3 DEF Since

(* What a position contributes are messages. *)
LEMMA EndedType ==
  ASSUME NEW q \in Text, NEW b \in 1 .. Len(q)
  PROVE  Ended(q, b) \in Seq(Seq(Data))
<1>1. Len(q) \in Nat /\ Since(q, b) \in 1 .. Len(q)
  BY SinceFacts DEF Text
<1>2. \A k \in Since(q, b) .. b - 1 : q[k] \in Symbols
  BY <1>1 DEF Text
<1>3. SubSeq(q, Since(q, b), b - 1) \in Text
  BY <1>1, <1>2, SubSeqProperties DEF Text
<1>4. <<>> \in Seq(Seq(Data))
  OBVIOUS
<1> QED BY <1>3, <1>4, MessageType DEF Ended

(* So do all of them. *)
LEMMA EndedSeq ==
  ASSUME NEW q \in Text
  PROVE  /\ [b \in 1 .. Len(q) |-> Ended(q, b)] \in Seq(Seq(Seq(Data)))
         /\ Len([b \in 1 .. Len(q) |-> Ended(q, b)]) = Len(q)
<1>1. Len(q) \in Nat
  BY DEF Text
<1> DEFINE e == [b \in 1 .. Len(q) |-> Ended(q, b)]
<1>2. e \in Seq(Seq(Seq(Data)))
  BY <1>1, EndedType, IsASeq
<1>3. DOMAIN e = 1 .. Len(q)
  OBVIOUS
<1> HIDE DEF e
<1>4. Len(e) = Len(q)
  BY <1>1, <1>2, <1>3, LenProperties
<1> QED BY <1>2, <1>4 DEF e

(* The events of a text are messages. *)
LEMMA EventsType ==
  ASSUME NEW q \in Text
  PROVE  Events(q) \in Seq(Seq(Data))
<1>1. PICK e : e = [b \in 1 .. Len(q) |-> Ended(q, b)]
  OBVIOUS
<1>2. e \in Seq(Seq(Seq(Data)))
  BY <1>1, EndedSeq
<1>3. <<>> \in Seq(Seq(Data))
  OBVIOUS
<1>4. FlattenSeq(e) \in Seq(Seq(Data))
  BY <1>2, <1>3, FlattenFacts
<1> QED BY <1>1, <1>4, EventsIs

(* No blank line, no event. *)
LEMMA NoEvents ==
  ASSUME NEW q \in Text, Breaks(q) = {}
  PROVE  Events(q) = <<>>
<1>1. PICK e : e = [b \in 1 .. Len(q) |-> Ended(q, b)]
  OBVIOUS
<1>2. e \in Seq(Seq(Seq(Data))) /\ Len(e) = Len(q) /\ Len(q) \in Nat
  BY <1>1, EndedSeq DEF Text
<1>3. \A b \in 1 .. Len(e) : e[b] = <<>>
  BY <1>1, <1>2 DEF Ended
<1>4. FlattenSeq(e) = <<>>
  <2>1. CASE Len(e) = 0
    <3>1. e = <<>>
      BY <1>2, <2>1
    <3>2. <<>> \in Seq(Data)
      OBVIOUS
    <3> QED BY <3>1, <3>2, FlattenFew
  <2>2. CASE Len(e) # 0
    <3>1. 1 \in 1 .. Len(e)
      BY <1>2, <2>2
    <3> QED BY <1>2, <1>3, <3>1, FlattenOnly
  <2> QED BY <2>1, <2>2
<1> QED BY <1>1, <1>4, EventsIs

(* In the text without its first n symbols everything is n places earlier. *)
Shifted(q, n, r) ==
    /\ n \in Nat /\ Len(q) = n + Len(r)
    /\ \A k \in 1 .. Len(r) : r[k] = q[n + k]

(* The blank lines of a text that another one begins. *)
LEMMA ShiftedBreak ==
  ASSUME NEW q \in Text, NEW n, NEW r \in Text, Shifted(q, n, r), NEW m \in 1 .. Len(r)
  PROVE  n + m \in Breaks(q) <=> m \in Breaks(r)
<1>1. /\ n \in Nat /\ Len(r) \in Nat /\ Len(q) = n + Len(r) /\ n + m \in 1 .. Len(q)
      /\ \A k \in 1 .. Len(r) : r[k] = q[n + k]
  <2>1. n \in Nat /\ Len(q) = n + Len(r) /\ \A k \in 1 .. Len(r) : r[k] = q[n + k]
    BY Zenon DEF Shifted
  <2>2. Len(r) \in Nat
    BY DEF Text
  <2>3. n + m \in 1 .. Len(q)
    BY <2>1, <2>2
  <2> QED BY <2>1, <2>2, <2>3, Zenon
<1>2. r[m] = q[n + m]
  BY <1>1
<1>3. m + 1 =< Len(r) => r[m + 1] = q[n + m + 1]
  <2>1. m + 1 =< Len(r) => m + 1 \in 1 .. Len(r) /\ n + (m + 1) = n + m + 1
    BY <1>1
  <2> QED BY <1>1, <2>1
<1>4. m + 3 =< Len(r) => /\ r[m + 1] = q[n + m + 1] /\ r[m + 2] = q[n + m + 2]
                         /\ r[m + 3] = q[n + m + 3]
  <2>1. m + 3 =< Len(r) => /\ m + 1 \in 1 .. Len(r) /\ n + (m + 1) = n + m + 1
                           /\ m + 2 \in 1 .. Len(r) /\ n + (m + 2) = n + m + 2
                           /\ m + 3 \in 1 .. Len(r) /\ n + (m + 3) = n + m + 3
    BY <1>1
  <2> QED BY <1>1, <2>1
<1>5. LfLf(q, n + m) <=> LfLf(r, m)
  <2>1. m + 1 =< Len(r) <=> n + m + 1 =< Len(q)
    BY <1>1
  <2> QED BY <1>2, <1>3, <2>1 DEF LfLf
<1>6. CrLfCrLf(q, n + m) <=> CrLfCrLf(r, m)
  <2>1. m + 3 =< Len(r) <=> n + m + 3 =< Len(q)
    BY <1>1
  <2> QED BY <1>2, <1>4, <2>1 DEF CrLfCrLf
<1> QED BY <1>1, <1>5, <1>6, BreakIs

(* The parts between its blank lines. *)
LEMMA ShiftedPart ==
  ASSUME NEW q \in Text, NEW n, NEW r \in Text, Shifted(q, n, r),
         NEW x \in 1 .. Len(r), NEW m \in 0 .. Len(r)
  PROVE  SubSeq(q, n + x, n + m) = SubSeq(r, x, m) /\ SubSeq(r, x, m) \in Text
<1>1. /\ n \in Nat /\ Len(r) \in Nat /\ Len(q) = n + Len(r)
      /\ \A k \in 1 .. Len(r) : r[k] = q[n + k] /\ r[k] \in Symbols /\ q[n + k] \in Symbols
  BY DEF Shifted, Text
<1> DEFINE a == SubSeq(q, n + x, n + m)
           b == SubSeq(r, x, m)
           h == IF x =< m THEN m - x + 1 ELSE 0
<1>2. \A k \in n + x .. n + m : q[k] \in Symbols
  BY <1>1 DEF Text
<1>3. /\ b \in Seq(Symbols) /\ Len(b) = h /\ \A k \in 1 .. m - x + 1 : b[k] = r[x + k - 1]
  BY <1>1, SubSeqProperties
<1>4. /\ a \in Seq(Symbols) /\ Len(a) = IF n + x =< n + m THEN (n + m) - (n + x) + 1 ELSE 0
      /\ \A k \in 1 .. (n + m) - (n + x) + 1 : a[k] = q[(n + x) + k - 1]
  BY <1>1, <1>2, SubSeqProperties
<1> HIDE DEF a, b
<1>5. /\ Len(a) = h /\ \A k \in 1 .. m - x + 1 : a[k] = q[n + (x + k - 1)]
  <2>1. \A k \in Int : (n + x) + k - 1 = n + (x + k - 1)
    BY <1>1
  <2>2. (n + m) - (n + x) + 1 = m - x + 1 /\ (n + x =< n + m <=> x =< m)
    BY <1>1
  <2> QED BY <1>4, <2>1, <2>2
<1>6. ASSUME NEW k \in 1 .. Len(a) PROVE a[k] = b[k]
  <2>1. k \in 1 .. m - x + 1 /\ x + k - 1 \in 1 .. Len(r)
    BY <1>1, <1>5
  <2> QED BY <1>1, <1>3, <1>5, <2>1
<1>7. a = b
  BY <1>3, <1>4, <1>5, <1>6, SeqEqual
<1> QED BY <1>3, <1>7 DEF a, b, Text

(* A piece of the text that is within a blank line has no data. *)
LEMMA BlankPart ==
  ASSUME NEW q \in Text, NEW i \in Breaks(q),
         NEW x \in i .. i + Width(q, i) - 1, NEW y \in Int, y =< i + Width(q, i) - 1
  PROVE  SubSeq(q, x, y) \in Text /\ DataLines(SubSeq(q, x, y)) = <<>>
<1>1. /\ Len(q) \in Nat /\ i \in 1 .. Len(q) /\ i + Width(q, i) =< Len(q) + 1
      /\ \A k \in i .. i + Width(q, i) - 1 : q[k] \in {"cr", "lf"}
  BY BreakFacts
<1>2. \A k \in x .. y : k \in i .. i + Width(q, i) - 1 /\ k \in 1 .. Len(q)
  <2>1. Width(q, i) \in Int
    BY BreakFacts
  <2> QED BY <1>1, <2>1
<1>3. \A k \in x .. y : q[k] \in {"cr", "lf"} /\ q[k] \in Symbols
  BY <1>1, <1>2 DEF Symbols
<1>4. x \in Int
  BY <1>1
<1>5. /\ SubSeq(q, x, y) \in Seq({"cr", "lf"})
  BY <1>3, <1>4, SubSeqProperties
<1>6. SubSeq(q, x, y) \in Text
  BY <1>3, <1>4, SubSeqProperties DEF Text
<1>7. \A k \in 1 .. Len(SubSeq(q, x, y)) : SubSeq(q, x, y)[k] \in {"cr", "lf"}
  BY <1>5, ElementOfSeq
<1>8. \A k \in 1 .. Len(SubSeq(q, x, y)) : SubSeq(q, x, y)[k] \notin Data
  BY <1>7 DEF Data
<1> QED BY <1>6, <1>8, NoDataLines

(* An event after the first blank line is an event of the rest. *)
LEMMA LaterEvent ==
  ASSUME NEW q \in Text, NEW i \in Breaks(q), NEW r \in Text,
         Shifted(q, i + Width(q, i) - 1, r), NEW m \in 1 .. Len(r)
  PROVE  Ended(q, i + Width(q, i) - 1 + m) = Ended(r, m)
<1> DEFINE n == i + Width(q, i) - 1
<1>1. /\ Len(q) \in Nat /\ i \in 1 .. Len(q) /\ n \in i .. Len(q) /\ Width(q, i) \in Int
      /\ Len(r) \in Nat /\ Len(q) = n + Len(r) /\ n + m \in 1 .. Len(q) /\ i < n + m
  <2>1. Len(q) \in Nat /\ Len(r) \in Nat
    BY DEF Text
  <2>2. n \in Nat /\ Len(q) = n + Len(r)
    BY Zenon DEF Shifted
  <2>3. /\ i \in 1 .. Len(q) /\ Width(q, i) \in {2, 4} /\ i + Width(q, i) =< Len(q) + 1
    BY BreakFacts
  <2>4. n \in i .. Len(q) /\ Width(q, i) \in Int
    BY <2>1, <2>3, SMTT(30)
  <2> HIDE DEF n
  <2>5. n + m \in 1 .. Len(q) /\ i < n + m
    BY <2>1, <2>2, <2>3, <2>4
  <2> QED BY <2>1, <2>2, <2>3, <2>4, <2>5
<1>2. Shifted(q, n, r)
  OBVIOUS
<1>b. \A y \in i .. n : DataLines(SubSeq(q, y, n)) = <<>> /\ SubSeq(q, y, n) \in Text
  BY <1>1, BlankPart
<1> HIDE DEF n
<1> SUFFICES Ended(q, n + m) = Ended(r, m)
  BY DEF n
<1>4. n + m \in Breaks(q) <=> m \in Breaks(r)
  BY <1>2, ShiftedBreak
<1>5. CASE m \notin Breaks(r)
  BY <1>4, <1>5 DEF Ended
<1>6. CASE m \in Breaks(r)
  <2> DEFINE x == Since(r, m)
             y == Since(q, n + m)
  <2>1. /\ x \in 1 .. Len(r) /\ (x = 1 \/ (x \in Breaks(r) /\ x < m))
        /\ \A p \in Breaks(r) : p < m => p =< x
    BY SinceFacts
  <2>2. /\ y \in 1 .. Len(q) /\ (y = 1 \/ (y \in Breaks(q) /\ y < n + m))
        /\ \A p \in Breaks(q) : p < n + m => p =< y
    BY <1>1, SinceFacts
  <2>3. /\ Ended(r, m) = Message(SubSeq(r, x, m - 1))
        /\ Ended(q, n + m) = Message(SubSeq(q, y, (n + m) - 1))
    BY <1>4, <1>6 DEF Ended
  <2> HIDE DEF x, y
  <2>4. i =< y /\ (n + m) - 1 = n + (m - 1) /\ m - 1 \in 0 .. Len(r) /\ n \in Nat
    BY <1>1, <2>2
  <2>5. n < y => y - n \in Breaks(r) /\ y - n < m /\ y - n =< x
    <3> SUFFICES ASSUME n < y PROVE y - n \in Breaks(r) /\ y - n < m /\ y - n =< x
      OBVIOUS
    <3>1. y \in Breaks(q) /\ y < n + m
      BY <1>1, <2>2
    <3>2. y - n \in 1 .. Len(r) /\ n + (y - n) = y /\ y - n < m
      BY <1>1, <2>2, <3>1
    <3>3. y - n \in Breaks(r)
      BY <1>2, <3>1, <3>2, ShiftedBreak
    <3> QED BY <2>1, <3>2, <3>3
  <2>6. CASE x \in Breaks(r) /\ x < m
    <3>1. n + x \in Breaks(q) /\ n + x < n + m
      BY <1>1, <1>2, <2>1, <2>6, ShiftedBreak
    <3>2. n + x =< y
      BY <2>2, <3>1
    <3>3. y = n + x
      BY <1>1, <2>1, <2>2, <2>5, <3>2
    <3>4. /\ SubSeq(q, n + x, n + (m - 1)) = SubSeq(r, x, m - 1)
          /\ SubSeq(r, x, m - 1) \in Text
      BY <1>2, <2>1, <2>4, ShiftedPart
    <3> QED BY <2>3, <2>4, <3>3, <3>4
  <2>7. CASE ~(x \in Breaks(r) /\ x < m)
    <3>1. x = 1
      BY <2>1, <2>7
    <3>2. ASSUME NEW p \in Breaks(r), p < m PROVE FALSE
      <4>1. p \in 1 .. Len(r) /\ p =< x
        BY <2>1, <3>2, BreakFacts
      <4>2. p = x
        BY <1>1, <3>1, <4>1
      <4> QED BY <2>7, <3>2, <4>2
    <3>3. y \in i .. n
      <4>1. ~(n < y)
        BY <2>5, <3>2
      <4> QED BY <1>1, <2>2, <2>4, <4>1
    <3> DEFINE a == SubSeq(q, y, n)
               b == SubSeq(q, n + 1, n + (m - 1))
    <3>4. a \o b = SubSeq(q, y, n + (m - 1))
      <4>1. y \in 1 .. Len(q) + 1 /\ n \in y - 1 .. Len(q) /\ n + (m - 1) \in n .. Len(q)
        BY <1>1, <2>2, <3>3
      <4> QED BY <4>1, ConcatAdjacentSubSeq DEF Text
    <3>5. b = SubSeq(r, 1, m - 1) /\ SubSeq(r, 1, m - 1) \in Text
      BY <1>2, <2>1, <2>4, <3>1, ShiftedPart
    <3>6. a \in Text /\ DataLines(a) = <<>>
      BY <1>b, <3>3
    <3> HIDE DEF a, b
    <3>7. DataLines(a \o b) = <<>> \o DataLines(b)
      BY <3>5, <3>6, DataLinesConcat
    <3>8. DataLines(b) \in Seq(Data)
      BY <3>5, DataLinesType
    <3>9. <<>> \o DataLines(b) = DataLines(b)
      BY <3>8, ConcatEmptySeq
    <3> QED BY <2>3, <2>4, <3>1, <3>4, <3>5, <3>7, <3>9 DEF Message
  <2> QED BY <2>6, <2>7
<1> QED BY <1>5, <1>6

(* What the first blank line ends is the first event. *)
LEMMA FirstEvent ==
  ASSUME NEW q \in Text, NEW i \in Breaks(q), \A j \in Breaks(q) : i =< j
  PROVE  Events(q) = Message(Block(q, i)) \o Events(Rest(q, i))
<1> DEFINE n == i + Width(q, i) - 1
           r == Rest(q, i)
<1>1. /\ Len(q) \in Nat /\ i \in 1 .. Len(q) /\ n \in i .. Len(q) /\ Width(q, i) \in Int
  BY BreakFacts
<1>2. r \in Text /\ Shifted(q, n, r)
  <2>1. r \in Text /\ Len(r) = Len(q) - n /\ \A k \in 1 .. Len(r) : r[k] = q[n + k]
    BY RestFacts
  <2>2. Len(r) \in Nat
    BY <2>1 DEF Text
  <2> HIDE DEF n, r
  <2> QED BY <1>1, <2>1, <2>2 DEF Shifted
<1> HIDE DEF r
<1>3. ASSUME NEW m \in 1 .. Len(r) PROVE Ended(q, n + m) = Ended(r, m)
  BY <1>2, LaterEvent
<1>4. ASSUME NEW b \in 1 .. n, b # i PROVE Ended(q, b) = <<>>
  <2>1. CASE b \notin Breaks(q)
    BY <2>1 DEF Ended
  <2>2. CASE b \in Breaks(q)
    <3>1. i < b /\ b \in 1 .. Len(q)
      BY <1>1, <1>4, <2>2
    <3> DEFINE y == Since(q, b)
    <3>2. y \in 1 .. Len(q) /\ i =< y /\ y =< b - 1
      <4>1. /\ y \in 1 .. Len(q) /\ (y = 1 \/ (y \in Breaks(q) /\ y < b))
            /\ \A p \in Breaks(q) : p < b => p =< y
        BY <3>1, SinceFacts
      <4> HIDE DEF y
      <4> QED BY <1>1, <3>1, <4>1
    <3> HIDE DEF y
    <3>3. y \in i .. i + Width(q, i) - 1 /\ b - 1 \in Int /\ b - 1 =< i + Width(q, i) - 1
      BY <1>1, <3>1, <3>2
    <3>4. DataLines(SubSeq(q, y, b - 1)) = <<>>
      BY <3>3, BlankPart
    <3> QED BY <2>2, <3>4 DEF Ended, Message, y
  <2> QED BY <2>1, <2>2
<1>5. Ended(q, i) = Message(Block(q, i))
  <2>1. Since(q, i) = 1
    <3>1. Since(q, i) = 1 \/ (Since(q, i) \in Breaks(q) /\ Since(q, i) < i)
      BY <1>1, SinceFacts
    <3>2. Since(q, i) \in 1 .. Len(q)
      BY <1>1, SinceFacts
    <3>3. ~(Since(q, i) \in Breaks(q) /\ Since(q, i) < i)
      BY <1>1, <3>2
    <3> QED BY <3>1, <3>3
  <2> QED BY <2>1 DEF Ended, Block
<1> HIDE DEF n
<1>6. PICK e \in Seq(Seq(Seq(Data))) : /\ Len(e) = Len(q) /\ Events(q) = FlattenSeq(e)
                                       /\ \A b \in 1 .. Len(q) : e[b] = Ended(q, b)
  BY EndedSeq, EventsIs
<1>7. PICK d \in Seq(Seq(Seq(Data))) : /\ Len(d) = Len(r) /\ Events(r) = FlattenSeq(d)
                                       /\ \A b \in 1 .. Len(r) : d[b] = Ended(r, b)
  BY <1>2, EndedSeq, EventsIs
<1>8. Len(r) \in Nat /\ Len(q) = n + Len(r) /\ n \in Nat
  BY <1>1, <1>2 DEF Shifted, Text
<1>9. PICK c \in Seq(Seq(Seq(Data))) : /\ c = SubSeq(e, 1, n) /\ Len(c) = n
                                       /\ \A b \in 1 .. n : c[b] = e[b]
  <2>1. \A b \in 1 .. n : e[b] \in Seq(Seq(Data))
    BY <1>1, <1>6, ElementOfSeq
  <2> DEFINE c == SubSeq(e, 1, n)
  <2>2. /\ c \in Seq(Seq(Seq(Data))) /\ Len(c) = IF 1 =< n THEN n - 1 + 1 ELSE 0
        /\ \A b \in 1 .. n - 1 + 1 : c[b] = e[1 + b - 1]
    BY <1>8, <2>1, SubSeqProperties
  <2> HIDE DEF c
  <2>3. Len(c) = n /\ \A b \in 1 .. n : c[b] = e[b]
    BY <1>8, <2>2
  <2> QED BY <2>2, <2>3 DEF c
<1>10. c \o d = e
  <2>1. c \o d \in Seq(Seq(Seq(Data))) /\ Len(c \o d) = Len(c) + Len(d)
    BY ConcatProperties
  <2>2. \A b \in 1 .. Len(c) + Len(d) : (c \o d)[b] = IF b =< Len(c) THEN c[b] ELSE d[b - Len(c)]
    BY ConcatProperties
  <2>3. ASSUME NEW b \in 1 .. Len(e) PROVE (c \o d)[b] = e[b]
    <3>1. b \in 1 .. Len(c) + Len(d)
      BY <1>6, <1>7, <1>8, <1>9
    <3>2. CASE b =< n
      BY <1>9, <2>2, <3>1, <3>2
    <3>3. CASE ~(b =< n)
      <4>1. b - n \in 1 .. Len(r) /\ n + (b - n) = b /\ b \in 1 .. Len(q)
        BY <1>6, <1>8, <3>3
      <4>2. Ended(q, n + (b - n)) = Ended(r, b - n)
        BY <1>3, <4>1
      <4> QED BY <1>6, <1>7, <1>9, <2>2, <3>1, <3>3, <4>1, <4>2, SMTT(30)
    <3> QED BY <3>2, <3>3
  <2> QED BY <1>6, <1>7, <1>8, <1>9, <2>1, <2>3, SeqEqual
<1>11. FlattenSeq(c) = Message(Block(q, i))
  <2>1. i \in 1 .. Len(c) /\ i \in 1 .. Len(q)
    BY <1>1, <1>9
  <2>2. ASSUME NEW b \in 1 .. Len(c), b # i PROVE c[b] = <<>>
    <3>1. b \in 1 .. n /\ b \in 1 .. Len(q)
      BY <1>8, <1>9
    <3> QED BY <1>4, <1>6, <1>9, <2>2, <3>1
  <2>3. FlattenSeq(c) = c[i]
    BY <2>1, <2>2, FlattenOnly
  <2> QED BY <1>5, <1>6, <1>9, <2>1, <2>3
<1>12. FlattenSeq(c \o d) = FlattenSeq(c) \o FlattenSeq(d)
  BY FlattenConcat
<1> QED BY <1>6, <1>7, <1>10, <1>11, <1>12 DEF r

-----------------------------------------------------------------------------
(* Model names and bodies *)

(* A name is at most one rewriting away from the upstream's. *)
LEMMA TargetOnce ==
  ASSUME NEW m \in Models
  PROVE  Target(m) \in Models /\ \A a \in Aliases(m) : Target(a) = m
<1>1. Target(m) \in Models
  BY DEF Target, Dashed, Models
<1>2. ASSUME NEW a \in Aliases(m) PROVE Target(a) = m
  <2>1. PICK dash \in BOOLEAN :
          /\ m.gpt5 /\ m.dash /\ m.tier = "none"
          /\ a = [m EXCEPT !.dash = dash, !.tier = IF m.codex THEN "high" ELSE "xhigh"]
    BY <1>2 DEF Aliases
  <2>2. a.gpt5 /\ NamesEffort(a)
    BY <2>1 DEF NamesEffort, Models
  <2> QED
    BY <2>1, <2>2 DEF Target, Dashed, Models
<1> QED
  BY <1>1, <1>2

(* Whatever a client takes from the list, in either spelling and with its    *)
(* effort, comes out of the sanitiser as something the upstream takes. *)
LEMMA ListedIsAccepted ==
  ASSUME NEW known \in SUBSET Models, \A m \in known : Target(m) \in known,
         NEW id \in Listed(known)
  PROVE  Accepts(known, BodyFor(id))
<1>1. id \in Models /\ Target(id) \in known
  <2>1. CASE id \in known
    BY <2>1
  <2>2. CASE id \notin known
    <3>1. PICK m \in known : id \in Aliases(m)
      BY <2>2 DEF Listed
    <3>2. id \in Models
      BY <3>1 DEF Aliases, Models
    <3> QED
      BY <3>1, <3>2, TargetOnce
  <2> QED
    BY <2>1, <2>2
<1>2. BodyFor(id).model = Target(id) /\ ~BodyFor(id).generate
  BY DEF BodyFor, Sanitised, Request
<1>3. "image_generation" \notin BodyFor(id).tools \cup {BodyFor(id).choice}
  BY DEF BodyFor, Sanitised, Request, Tools
<1>4. Target(id).codex => BodyFor(id).verbosity # "low"
  BY DEF BodyFor, Sanitised, Request
<1> QED
  BY <1>1, <1>2, <1>3, <1>4 DEF Accepts

-----------------------------------------------------------------------------
(* The invariant *)

Fields == {"n", "body", "ev", "lead", "got", "up", "buf", "sent", "cap", "ok", "entry", "era"}

(* The shape of the state, as far as the proofs need it. *)
Shape ==
    /\ models \in {w.models : w \in Worlds}
    /\ DOMAIN pc = Sessions /\ DOMAIN frame = Sessions
    /\ DOMAIN store = Keys /\ DOMAIN inflight = Keys
    /\ clears \in Nat
    /\ \A s \in Sessions : /\ DOMAIN frame[s] = Fields
                           /\ frame[s].n \in Nat /\ frame[s].lead \in BOOLEAN

Wanted == {BodyFor(id) : id \in Listed(models)}

(* A session that serves a request serves one for a model of the list. *)
Asking == \A s \in Sessions : pc[s] \notin {"recv", "closed"} => frame[s].body \in Wanted

Fetching == {"fetch", "stream", "put", "end"}

(* A leader is on its way from its begin to the removal of its event. *)
Leaders ==
    \A s \in Sessions :
        /\ pc[s] \in {"end", "pop"} => frame[s].lead
        /\ frame[s].lead => /\ pc[s] \in Fetching \cup {"pop"}
                            /\ frame[s].ev = EventOf(s)
                            /\ frame[s].era \in Nat /\ frame[s].era =< clears

(* The event in the table is that of the leader who began since the last     *)
(* clear. *)
TableOwned ==
    \A s \in Sessions :
        frame[s].lead /\ pc[s] \in Fetching /\ frame[s].era = clears
        => inflight[Key(s)] = EventOf(s)

(* The inductive invariant. *)
IInv == Shape /\ Asking /\ Leaders /\ TableOwned /\ OneLeader

(* What is asked for is a key of the cache. *)
LEMMA WantedKeys == Shape => Wanted \subseteq Keys
BY DEF Shape, Wanted, Keys

(* The initial state has it. *)
LEMMA Initially == Init => IInv
<1> SUFFICES ASSUME Init PROVE IInv
  OBVIOUS
<1> USE DEF Init
<1>1. \A s \in Sessions : frame[s] = Idle(0) /\ pc[s] = "recv"
  OBVIOUS
<1>2. DOMAIN Idle(0) = Fields /\ Idle(0).n = 0 /\ Idle(0).lead = FALSE
  BY DEF Idle, Fields
<1>3. models \in {w.models : w \in Worlds}
  OBVIOUS
<1>4. DOMAIN store = Keys /\ DOMAIN inflight = Keys /\ clears \in Nat
  OBVIOUS
<1>5. DOMAIN pc = Sessions /\ DOMAIN frame = Sessions
  OBVIOUS
<1>6. Shape
  BY <1>1, <1>2, <1>3, <1>4, <1>5 DEF Shape
<1> QED
  BY <1>1, <1>2, <1>6 DEF IInv, Asking, Leaders, TableOwned, OneLeader

(* A step of one session that makes no leader and leaves the table alone:    *)
(* what it keeps of its locals is enough. *)
LEMMA OwnStep ==
  ASSUME IInv, NEW s \in Sessions, NEW label, NEW f, Goto(s, label, f),
         UNCHANGED <<models, inflight, clears>>, DOMAIN store' = DOMAIN store,
         DOMAIN f = Fields, f.n \in Nat, f.lead \in BOOLEAN,
         label \notin {"recv", "closed"} => f.body \in Wanted,
         label \in {"end", "pop"} => f.lead,
         f.lead => /\ frame[s].lead /\ pc[s] \in Fetching
                   /\ label \in Fetching \cup {"pop"}
                   /\ f.n = frame[s].n /\ f.ev = frame[s].ev
                   /\ f.body = frame[s].body /\ f.era = frame[s].era
  PROVE  IInv'
<1> USE DEF IInv
<1>1. \A u \in Sessions : /\ frame'[u] = IF u = s THEN f ELSE frame[u]
                          /\ pc'[u] = IF u = s THEN label ELSE pc[u]
  BY DEF Goto, Shape
<1>2. Shape'
  BY <1>1 DEF Goto, Shape
<1>3. Asking'
  BY <1>1 DEF Asking, Wanted
<1>4. Leaders'
  BY <1>1 DEF Leaders, EventOf
<1>5. TableOwned'
  BY <1>1 DEF TableOwned, EventOf, Key
<1>6. OneLeader'
  BY <1>1 DEF OneLeader, Key, Fetching
<1> QED
  BY <1>2, <1>3, <1>4, <1>5, <1>6

(* A step that leaves the sessions and the table alone. *)
LEMMA NobodyMoves ==
  ASSUME IInv, UNCHANGED <<models, pc, frame, inflight, clears>>, DOMAIN store' = DOMAIN store
  PROVE  IInv'
BY DEF IInv, Shape, Asking, Wanted, Leaders, TableOwned, OneLeader, EventOf, Key

(* The locals of a session that serves no request. *)
LEMMA IdleFrame ==
  ASSUME NEW n \in Nat
  PROVE  DOMAIN Idle(n) = Fields /\ Idle(n).n = n /\ Idle(n).lead = FALSE
BY DEF Idle, Fields

-----------------------------------------------------------------------------
(* The steps of a session *)

(* A request is done, without a lead. *)
LEMMA DoneStep ==
  ASSUME IInv, NEW s \in Sessions, Done(s),
         UNCHANGED <<models, inflight, clears>>, DOMAIN store' = DOMAIN store
  PROVE  IInv'
<1>1. frame[s].n \in Nat
  BY DEF IInv, Shape
<1>2. DOMAIN Idle(frame[s].n) = Fields /\ Idle(frame[s].n).n \in Nat
      /\ Idle(frame[s].n).lead = FALSE
  BY <1>1, IdleFrame
<1> QED
  BY <1>2, OwnStep DEF Done

(* Whoever leads goes on to wake its followers, everybody else is done. *)
LEMMA FinishStep ==
  ASSUME IInv, NEW s \in Sessions, pc[s] \in Fetching, NEW f, Finish(s, f),
         UNCHANGED <<models, inflight, clears>>, DOMAIN store' = DOMAIN store,
         DOMAIN f = Fields, f.n = frame[s].n, f.lead = frame[s].lead,
         f.ev = frame[s].ev, f.body = frame[s].body, f.era = frame[s].era
  PROVE  IInv'
<1> DEFINE g == [f EXCEPT !.got = <<>>, !.up = <<>>, !.buf = <<>>, !.sent = <<>>, !.cap = None]
<1>1. DOMAIN g = Fields /\ g.n = f.n /\ g.lead = f.lead /\ g.ev = f.ev
      /\ g.body = f.body /\ g.era = f.era
  BY DEF Fields
<1>2. f.n \in Nat /\ f.lead \in BOOLEAN /\ f.body \in Wanted
  BY DEF IInv, Shape, Asking, Fetching
<1>3. CASE f.lead
  <2>1. Goto(s, "end", g)
    BY <1>3 DEF Finish
  <2> HIDE DEF g
  <2> QED
    BY <1>1, <1>2, <1>3, <2>1, OwnStep DEF Fetching
<1>4. CASE ~f.lead
  BY <1>4, DoneStep DEF Finish
<1> QED
  BY <1>3, <1>4

(* Frames are received; a message may start a request. *)
LEMMA RecvStep ==
  ASSUME IInv, NEW s \in Sessions, Recv(s)
  PROVE  IInv'
<1>1. CASE RecvControl(s) \/ RecvFragment(s)
  BY <1>1, NobodyMoves DEF RecvControl, RecvFragment, given, shared
<1>2. CASE RecvEnd(s)
  <2>1. /\ UNCHANGED <<models, frame, store, inflight, clears>>
        /\ pc[s] = "recv" /\ pc' = [pc EXCEPT ![s] = "closed"]
    BY <1>2 DEF RecvEnd, given, shared
  <2>2. ~frame[s].lead
    BY <2>1 DEF IInv, Leaders, Fetching
  <2>3. \A u \in Sessions : pc'[u] = IF u = s THEN "closed" ELSE pc[u]
    BY <2>1 DEF IInv, Shape
  <2>4. Shape' /\ Asking'
    BY <2>1, <2>3 DEF IInv, Shape, Asking, Wanted
  <2>5. \A u \in Sessions : Key(u)' = Key(u) /\ EventOf(u)' = EventOf(u)
    BY <2>1 DEF Key, EventOf
  <2>6. Leaders'
    BY <2>1, <2>2, <2>3, <2>5 DEF IInv, Leaders
  <2>7. TableOwned'
    BY <2>1, <2>3, <2>5 DEF IInv, TableOwned, Fetching
  <2>8. OneLeader'
    BY <2>1, <2>3, <2>5 DEF IInv, OneLeader
  <2> QED
    BY <2>4, <2>6, <2>7, <2>8 DEF IInv
<1>3. CASE RecvMessage(s)
  <2>1. UNCHANGED <<models, store, inflight, clears>>
    BY <1>3 DEF RecvMessage, given, shared
  <2>2. CASE UNCHANGED <<pc, frame>>
    BY <2>1, <2>2, NobodyMoves
  <2>3. CASE \E id \in Listed(models) :
               Goto(s, IF MayRead(s) THEN "lookup" ELSE "fetch",
                    [Idle(frame[s].n + 1) EXCEPT !.body = BodyFor(id), !.era = clears])
    <3>1. PICK id \in Listed(models) :
               Goto(s, IF MayRead(s) THEN "lookup" ELSE "fetch",
                    [Idle(frame[s].n + 1) EXCEPT !.body = BodyFor(id), !.era = clears])
      BY <2>3
    <3> DEFINE g == [Idle(frame[s].n + 1) EXCEPT !.body = BodyFor(id), !.era = clears]
    <3>2. frame[s].n + 1 \in Nat
      BY DEF IInv, Shape
    <3>3. DOMAIN Idle(frame[s].n + 1) = Fields /\ Idle(frame[s].n + 1).n = frame[s].n + 1
          /\ Idle(frame[s].n + 1).lead = FALSE
      BY <3>2, IdleFrame
    <3>4. DOMAIN g = Fields /\ g.n \in Nat /\ g.lead = FALSE /\ g.body \in Wanted
      BY <3>2, <3>3 DEF Fields, Wanted
    <3>5. \E label \in {"lookup", "fetch"} : Goto(s, label, g)
      BY <3>1
    <3> HIDE DEF g
    <3> QED
      BY <2>1, <3>4, <3>5, OwnStep
  <2> QED
    BY <1>3, <2>2, <2>3 DEF RecvMessage
<1> QED
  BY <1>1, <1>2, <1>3 DEF Recv

(* A session goes on without becoming or ceasing to be a leader. *)
LEMMA OnStep ==
  ASSUME IInv, NEW s \in Sessions, NEW label, NEW f, Goto(s, label, f),
         UNCHANGED <<models, inflight, clears>>, DOMAIN store' = DOMAIN store,
         pc[s] \notin {"recv", "closed", "pop"},
         pc[s] \in Fetching => label \in Fetching \cup {"pop"},
         label \in {"end", "pop"} => f.lead,
         DOMAIN f = Fields, f.n = frame[s].n, f.lead = frame[s].lead,
         f.ev = frame[s].ev \/ pc[s] \notin Fetching,
         f.body = frame[s].body, f.era = frame[s].era
  PROVE  IInv'
<1>1. f.n \in Nat /\ f.lead \in BOOLEAN /\ f.body \in Wanted
  BY DEF IInv, Shape, Asking
<1>2. f.lead => pc[s] \in Fetching
  BY DEF IInv, Leaders
<1> QED
  BY <1>1, <1>2, OwnStep

(* The cache and the wait for a leader. *)
LEMMA CacheStep ==
  ASSUME IInv, NEW s \in Sessions,
         \/ Hit(s, "lookup") \/ Hit(s, "relook") \/ Miss(s)
         \/ Woken(s) \/ WaitTimesOut(s) \/ MissAgain(s)
  PROVE  IInv'
<1>1. DOMAIN frame[s] = Fields
  BY DEF IInv, Shape
<1>2. UNCHANGED <<models, store, inflight, clears>>
  BY DEF Hit, Miss, Woken, WaitTimesOut, MissAgain, given, shared
<1>3. pc[s] \in {"lookup", "wait", "relook"}
  BY DEF Hit, Miss, Woken, WaitTimesOut, MissAgain
<1>4. CASE Hit(s, "lookup") \/ Hit(s, "relook")
  <2> DEFINE g == [frame[s] EXCEPT !.entry = store[Key(s)], !.sent = Replay(store[Key(s)])]
  <2>1. Goto(s, "replayed", g)
    BY <1>4 DEF Hit
  <2>2. DOMAIN g = Fields /\ g.n = frame[s].n /\ g.lead = frame[s].lead
        /\ g.body = frame[s].body /\ g.era = frame[s].era
    BY <1>1 DEF Fields
  <2> HIDE DEF g
  <2> QED
    BY <1>2, <1>3, <2>1, <2>2, OnStep DEF Fetching
<1>5. CASE Woken(s) \/ WaitTimesOut(s)
  <2> DEFINE g == [frame[s] EXCEPT !.ev = NoEvent]
  <2>1. Goto(s, "relook", g)
    BY <1>5 DEF Woken, WaitTimesOut
  <2>2. DOMAIN g = Fields /\ g.n = frame[s].n /\ g.lead = frame[s].lead
        /\ g.body = frame[s].body /\ g.era = frame[s].era
    BY <1>1 DEF Fields
  <2> HIDE DEF g
  <2> QED
    BY <1>2, <1>3, <2>1, <2>2, OnStep DEF Fetching
<1>6. CASE Miss(s) \/ MissAgain(s)
  <2>1. \E label \in {"begin", "fetch"} : Goto(s, label, frame[s])
    BY <1>6 DEF Miss, MissAgain
  <2> QED
    BY <1>1, <1>2, <1>3, <2>1, OnStep DEF Fetching
<1> QED
  BY <1>4, <1>5, <1>6

(* A session begins to lead, or follows. *)
LEMMA BeginStep ==
  ASSUME IInv, NEW s \in Sessions, Begin(s)
  PROVE  IInv'
<1> USE DEF IInv
<1>0. /\ DOMAIN frame[s] = Fields /\ frame[s].n \in Nat
      /\ UNCHANGED <<models, store, clears>> /\ pc[s] = "begin"
      /\ Key(s) \in Keys /\ frame[s].body \in Wanted /\ ~frame[s].lead
  BY WantedKeys DEF Shape, Begin, given, Key, Asking, Leaders, Fetching
<1>1. CASE ~Leads(s)
  <2> DEFINE g == [frame[s] EXCEPT !.ev = inflight[Key(s)]]
  <2>1. Goto(s, "wait", g) /\ UNCHANGED inflight
    BY <1>1 DEF Begin
  <2>2. DOMAIN g = Fields /\ g.n = frame[s].n /\ g.lead = frame[s].lead
        /\ g.body = frame[s].body /\ g.era = frame[s].era
    BY <1>0 DEF Fields
  <2> HIDE DEF g
  <2> QED
    BY <1>0, <2>1, <2>2, OnStep DEF Fetching
<1>2. CASE Leads(s)
  <2> DEFINE g == [frame[s] EXCEPT !.ev = EventOf(s), !.lead = TRUE, !.era = clears]
  <2>1. Goto(s, "fetch", g) /\ inflight' = [inflight EXCEPT ![Key(s)] = EventOf(s)]
    BY <1>2 DEF Begin
  <2>2. /\ DOMAIN g = Fields /\ g.n = frame[s].n /\ g.lead = TRUE
        /\ g.ev = EventOf(s) /\ g.body = frame[s].body /\ g.era = clears
    BY <1>0 DEF Fields
  <2> HIDE DEF g
  <2>3. \A u \in Sessions : /\ frame'[u] = IF u = s THEN g ELSE frame[u]
                            /\ pc'[u] = IF u = s THEN "fetch" ELSE pc[u]
    BY <2>1 DEF Goto, Shape
  <2>4. Shape'
    BY <1>0, <2>1, <2>2, <2>3 DEF Goto, Shape
  <2>5. Asking'
    BY <1>0, <2>2, <2>3 DEF Asking, Wanted
  <2>6. Leaders'
    BY <1>0, <2>2, <2>3 DEF Leaders, EventOf, Fetching, Shape
  <2>7. \A u \in Sessions :
          frame[u].lead /\ pc[u] \in Fetching /\ frame[u].era = clears => Key(u) # Key(s)
    <3>1. ASSUME NEW u \in Sessions, frame[u].lead, pc[u] \in Fetching, frame[u].era = clears,
                 Key(u) = Key(s)
          PROVE  FALSE
      <4>1. inflight[Key(s)] = EventOf(u)
        BY <3>1 DEF TableOwned
      <4>2. EventOf(u) \in Sessions \X Nat
        BY DEF EventOf, Shape
      <4> QED
        BY <1>2, <4>1, <4>2, WsConfig DEF Leads
    <3> QED
      BY <3>1
  <2>8. TableOwned'
    <3>1. \A u \in Sessions : Key(u)' = Key(u) /\ EventOf(u)' = EventOf(u)
      BY <2>2, <2>3 DEF Key, EventOf
    <3>2. \A k \in Keys : inflight'[k] = IF k = Key(s) THEN EventOf(s) ELSE inflight[k]
      BY <1>0, <2>1 DEF Shape
    <3>3. \A u \in Sessions : frame[u].lead => Key(u) \in Keys
      BY WantedKeys DEF Asking, Leaders, Key, Fetching
    <3> QED
      BY <1>0, <2>2, <2>3, <2>7, <3>1, <3>2, <3>3 DEF TableOwned
  <2>9. OneLeader'
    <3>1. \A u \in Sessions : Key(u)' = Key(u)
      BY <2>2, <2>3 DEF Key
    <3> QED
      BY <2>2, <2>3, <2>7, <3>1 DEF OneLeader, Fetching
  <2> QED
    BY <2>4, <2>5, <2>6, <2>8, <2>9
<1> QED
  BY <1>1, <1>2

(* The upstream's answer. *)
LEMMA FetchStep ==
  ASSUME IInv, NEW s \in Sessions,
         FetchFails(s) \/ FetchStreams(s) \/ ReadChunk(s) \/ EmitBlock(s)
  PROVE  IInv'
<1>1. DOMAIN frame[s] = Fields
  BY DEF IInv, Shape
<1>2. UNCHANGED <<models, store, inflight, clears>>
  BY DEF FetchFails, FetchStreams, ReadChunk, EmitBlock, given, shared
<1>3. pc[s] \in {"fetch", "stream"}
  BY DEF FetchFails, FetchStreams, ReadChunk, EmitBlock, Streaming
<1>4. CASE FetchFails(s)
  BY <1>1, <1>2, <1>3, <1>4, FinishStep DEF FetchFails, ErrorEnds, Fetching
<1>5. CASE FetchStreams(s)
  <2>1. PICK q \in Streams :
          Goto(s, "stream", [frame[s] EXCEPT !.up = q, !.cap = IF MayWrite(s) THEN <<>> ELSE None])
    BY <1>5 DEF FetchStreams
  <2> DEFINE g == [frame[s] EXCEPT !.up = q, !.cap = IF MayWrite(s) THEN <<>> ELSE None]
  <2>2. /\ DOMAIN g = Fields /\ g.n = frame[s].n /\ g.lead = frame[s].lead
        /\ g.ev = frame[s].ev /\ g.body = frame[s].body /\ g.era = frame[s].era
    BY <1>1 DEF Fields
  <2>3. Goto(s, "stream", g)
    BY <2>1
  <2> HIDE DEF g
  <2> QED
    BY <1>2, <1>3, <2>2, <2>3, OnStep DEF Fetching
<1>6. CASE ReadChunk(s)
  <2> DEFINE chunk == Head(frame[s].up)
             g == [frame[s] EXCEPT !.up = Tail(@), !.buf = @ \o chunk, !.got = @ \o chunk]
  <2>1. Goto(s, "stream", g)
    BY <1>6 DEF ReadChunk
  <2>2. /\ DOMAIN g = Fields /\ g.n = frame[s].n /\ g.lead = frame[s].lead
        /\ g.ev = frame[s].ev /\ g.body = frame[s].body /\ g.era = frame[s].era
    BY <1>1 DEF Fields
  <2> HIDE DEF g
  <2> QED
    BY <1>2, <1>3, <2>1, <2>2, OnStep DEF Fetching
<1>7. CASE EmitBlock(s)
  <2>1. PICK i \in Breaks(frame[s].buf) :
               Goto(s, "stream", Relayed(s, [frame[s] EXCEPT !.buf = Rest(frame[s].buf, i)],
                                         Message(Block(frame[s].buf, i))))
    BY <1>7 DEF EmitBlock
  <2> DEFINE f == [frame[s] EXCEPT !.buf = Rest(frame[s].buf, i)]
             g == Relayed(s, f, Message(Block(frame[s].buf, i)))
  <2>2. /\ DOMAIN g = Fields /\ g.n = frame[s].n /\ g.lead = frame[s].lead
        /\ g.ev = frame[s].ev /\ g.body = frame[s].body /\ g.era = frame[s].era
    BY <1>1 DEF Fields, Relayed
  <2>3. Goto(s, "stream", g)
    BY <2>1
  <2> HIDE DEF g
  <2> QED
    BY <1>2, <1>3, <2>2, <2>3, OnStep DEF Fetching
<1> QED
  BY <1>4, <1>5, <1>6, <1>7

(* The end of the answer, and what follows it. *)
LEMMA EndStep ==
  ASSUME IInv, NEW s \in Sessions,
         StreamEnds(s) \/ Put(s) \/ EndSet(s) \/ Replayed(s)
  PROVE  IInv'
<1>1. DOMAIN frame[s] = Fields
  BY DEF IInv, Shape
<1>2. UNCHANGED <<models, inflight, clears>> /\ DOMAIN store' = DOMAIN store
  BY DEF StreamEnds, Put, EndSet, Replayed, given, shared
<1>3. CASE StreamEnds(s)
  <2> DEFINE f == IF frame[s].ok
                  THEN Relayed(s, [frame[s] EXCEPT !.buf = <<>>], Message(frame[s].buf))
                  ELSE frame[s]
  <2>1. /\ DOMAIN f = Fields /\ f.n = frame[s].n /\ f.lead = frame[s].lead
        /\ f.ev = frame[s].ev /\ f.body = frame[s].body /\ f.era = frame[s].era
    BY <1>1 DEF Fields, Relayed
  <2>2. pc[s] = "stream" /\ (Goto(s, "put", f) \/ Finish(s, f))
    BY <1>3 DEF StreamEnds
  <2> HIDE DEF f
  <2>3. CASE Goto(s, "put", f)
    BY <1>2, <2>1, <2>2, <2>3, OnStep DEF Fetching
  <2>4. CASE Finish(s, f)
    BY <1>2, <2>1, <2>2, <2>4, FinishStep DEF Fetching
  <2> QED
    BY <2>2, <2>3, <2>4
<1>4. CASE Put(s)
  BY <1>1, <1>2, <1>4, FinishStep DEF Put, Fetching
<1>5. CASE EndSet(s)
  <2>1. Goto(s, "pop", frame[s]) /\ pc[s] = "end" /\ frame[s].lead
    BY <1>5 DEF EndSet, IInv, Leaders
  <2> QED
    BY <1>1, <1>2, <2>1, OnStep DEF Fetching
<1>6. CASE Replayed(s)
  BY <1>2, <1>6, DoneStep DEF Replayed
<1> QED
  BY <1>3, <1>4, <1>5, <1>6

(* A leader removes its event, if the table still has it: no other leader's  *)
(* is lost. *)
LEMMA PopStep ==
  ASSUME IInv, NEW s \in Sessions, EndPop(s)
  PROVE  IInv'
<1> USE DEF IInv
<1> DEFINE g == Idle(frame[s].n)
<1>0. /\ pc[s] = "pop" /\ UNCHANGED <<models, store, clears>> /\ frame[s].n \in Nat
      /\ inflight' = [inflight EXCEPT ![Key(s)] = IF @ = frame[s].ev THEN NoEvent ELSE @]
  BY DEF EndPop, given, Shape
<1>1. Goto(s, "recv", g) /\ DOMAIN g = Fields /\ g.n \in Nat /\ g.lead = FALSE
  BY <1>0, IdleFrame DEF EndPop, Done
<1> HIDE DEF g
<1>2. \A u \in Sessions : /\ frame'[u] = IF u = s THEN g ELSE frame[u]
                          /\ pc'[u] = IF u = s THEN "recv" ELSE pc[u]
  BY <1>1 DEF Goto, Shape
<1>3. Shape'
  BY <1>0, <1>1, <1>2 DEF Goto, Shape
<1>4. Asking' /\ Leaders'
  BY <1>0, <1>1, <1>2 DEF Asking, Wanted, Leaders, EventOf
<1>5. OneLeader'
  BY <1>1, <1>2 DEF OneLeader, Key
<1>6. TableOwned'
  <2>1. \A k \in Keys : inflight'[k] = inflight[k] \/ inflight[k] = frame[s].ev
    BY <1>0 DEF Shape
  <2>2. ASSUME NEW u \in Sessions, u # s, frame[u].lead, pc[u] \in Fetching,
               frame[u].era = clears
        PROVE  inflight'[Key(u)] = EventOf(u)
    <3>1. Key(u) \in Keys /\ inflight[Key(u)] = EventOf(u)
      BY <2>2, WantedKeys DEF Asking, Key, Fetching, TableOwned
    <3>2. frame[s].ev = EventOf(s) /\ EventOf(s) # EventOf(u)
      BY <1>0, <2>2 DEF Leaders, EventOf
    <3> QED
      BY <2>1, <3>1, <3>2
  <2> QED
    BY <1>0, <1>1, <1>2, <2>2 DEF TableOwned, Key, EventOf
<1> QED
  BY <1>3, <1>4, <1>5, <1>6

(* The cache is cleared: whoever leads is of an earlier era from then on. *)
LEMMA ClearStep ==
  ASSUME IInv, Clear
  PROVE  IInv'
<1> USE DEF IInv
<1>1. /\ UNCHANGED <<models, pc, frame>> /\ clears' = clears + 1
      /\ DOMAIN store' = Keys /\ DOMAIN inflight' = Keys
  BY DEF Clear, given, Shape
<1>2. Shape' /\ Asking'
  BY <1>1 DEF Shape, Asking, Wanted
<1>3. Leaders'
  BY <1>1 DEF Leaders, EventOf, Shape
<1>4. TableOwned'
  BY <1>1 DEF TableOwned, Leaders, Shape
<1>5. OneLeader'
  BY <1>1 DEF OneLeader, Key
<1> QED
  BY <1>2, <1>3, <1>4, <1>5

(* Every step keeps the invariant. *)
LEMMA Inductive == IInv /\ [Next]_vars => IInv'
<1> SUFFICES ASSUME IInv, [Next]_vars PROVE IInv'
  OBVIOUS
<1>1. ASSUME NEW s \in Sessions, Serve(s) \/ WaitTimesOut(s) PROVE IInv'
  BY <1>1, CacheStep, BeginStep, FetchStep, EndStep, PopStep DEF Serve
<1>2. ASSUME NEW s \in Sessions, ClientGoes(s) PROVE IInv'
  BY <1>2, NobodyMoves DEF ClientGoes, given, shared
<1>3. ASSUME NEW k \in DOMAIN store, Expire(k) PROVE IInv'
  BY <1>3, NobodyMoves DEF Expire, given
<1>4. CASE UNCHANGED vars
  BY <1>4, NobodyMoves DEF vars, given
<1> QED
  BY <1>1, <1>2, <1>3, <1>4, RecvStep, ClearStep DEF Next

-----------------------------------------------------------------------------
(* The sessions, their leaders and the table keep the inductive invariant. *)
THEOREM Invariance == Spec => []IInv
<1> QED
  BY Initially, Inductive, PTL DEF Spec

(* Among the requests that began since the last clear, one leads the fetch   *)
(* of a key, whatever happens to its stream and its client. *)
THEOREM AtMostOneLeader == Spec => []OneLeader
<1>1. IInv => OneLeader
  BY DEF IInv
<1> QED
  BY <1>1, Invariance, PTL

(* A request for a model of the list reaches the upstream as one it accepts. *)
THEOREM ListedModelsWork == Spec => []UpstreamAccepts
<1>1. IInv => UpstreamAccepts
  <2> SUFFICES ASSUME IInv, NEW s \in Sessions, pc[s] = "fetch"
               PROVE  Accepts(models, frame[s].body)
    BY DEF UpstreamAccepts
  <2>1. PICK id \in Listed(models) : frame[s].body = BodyFor(id)
    BY DEF IInv, Asking, Wanted
  <2>2. models \in SUBSET Models /\ \A m \in models : Target(m) \in models
    BY WsConfig DEF IInv, Shape
  <2> QED
    BY <2>1, <2>2, ListedIsAccepted
<1> QED
  BY <1>1, Invariance, PTL

-----------------------------------------------------------------------------
(* The answers *)

Labels == {"recv", "lookup", "replayed", "begin", "wait", "relook", "fetch",
           "stream", "put", "end", "pop", "closed"}

(* An entry keeps the lines of what the client was sent, complete and not    *)
(* failed. *)
AnswerOK(e) ==
    /\ e.events \in Messages
    /\ e.lines = FlattenSeq(e.events)
    /\ {"part", "completed"} \cap ToSet(e.lines) # {}
    /\ <<"failed">> \notin ToSet(e.events)

(* The locals of a request have their types. *)
Typed(f) ==
    /\ DOMAIN f = Fields
    /\ f.n \in Nat /\ f.era \in Nat
    /\ f.body \in {None} \cup Keys
    /\ f.ev \in {NoEvent} \cup (Sessions \X Nat)
    /\ f.lead \in BOOLEAN /\ f.ok \in BOOLEAN
    /\ f.got \in Text /\ f.buf \in Text /\ f.up \in Seq(Text)
    /\ f.sent \in Messages
    /\ f.cap = None \/ (f.cap \in Seq(Data) /\ Len(f.cap) =< MaxLines)

(* What the client has been sent and what is still in the buffer are the     *)
(* events of the text, whatever comes next. *)
InStep(f) == \A z \in Text : Events(f.got \o z) = f.sent \o Events(f.buf \o z)

(* What the label says of the locals. *)
Placed(label, f) ==
    /\ label \in {"lookup", "begin", "wait", "relook", "fetch"} =>
          f.got = <<>> /\ f.buf = <<>> /\ f.sent = <<>>
    /\ label \in {"stream", "put"} /\ f.cap # None => f.cap = FlattenSeq(f.sent)
    /\ label = "stream" /\ f.ok => InStep(f)
    /\ label = "put" => Worth(f)
    /\ label = "replayed" => AnswerOK(f.entry) /\ f.sent = Replay(f.entry)

Sound(label, f) == label \in Labels /\ Typed(f) /\ Placed(label, f)

Served ==
    /\ \A s \in Sessions : Sound(pc[s], frame[s])
    /\ \A k \in Keys : store[k] # None => AnswerOK(store[k])
    /\ pc \in [Sessions -> Labels] /\ DOMAIN frame = Sessions /\ DOMAIN store = Keys
    /\ inflight \in [Keys -> {NoEvent} \cup (Sessions \X Nat)]
    /\ clears \in Nat /\ gone \subseteq Sessions

(* The locals of no request. *)
LEMMA IdleTyped ==
  ASSUME NEW n \in Nat
  PROVE  /\ Typed(Idle(n)) /\ Idle(n).got = <<>> /\ Idle(n).buf = <<>> /\ Idle(n).sent = <<>>
         /\ \A label \in {"recv", "closed"} : Sound(label, Idle(n))
<1>1. <<>> \in Text /\ <<>> \in Seq(Text) /\ <<>> \in Messages
  BY DEF Text, Messages
<1>2. Typed(Idle(n))
  BY <1>1 DEF Idle, Typed, Fields
<1>3. Idle(n).got = <<>> /\ Idle(n).buf = <<>> /\ Idle(n).sent = <<>>
  BY DEF Idle
<1> QED BY <1>2, <1>3 DEF Sound, Placed, Labels

(* The initial state is sound. *)
LEMMA ServedInit == Init => Served
<1> SUFFICES ASSUME Init PROVE Served
  OBVIOUS
<1> USE DEF Init
<1>0. pc \in [Sessions -> Labels]
  BY DEF Labels
<1>1. \A s \in Sessions : pc[s] = "recv" /\ frame[s] = Idle(0)
  OBVIOUS
<1>2. \A s \in Sessions : Sound(pc[s], frame[s])
  BY <1>1, IdleTyped
<1>3. \A k \in Keys : store[k] = None
  OBVIOUS
<1> QED BY <1>0, <1>2, <1>3 DEF Served

(* A session moves, the others and what they share stay sound. *)
LEMMA MovesWith ==
  ASSUME Served, NEW s \in Sessions, NEW label, NEW f, Goto(s, label, f), Sound(label, f),
         UNCHANGED <<clears, gone>>, DOMAIN store' = Keys,
         inflight' \in [Keys -> {NoEvent} \cup (Sessions \X Nat)],
         \A k \in Keys : store'[k] # None => AnswerOK(store'[k])
  PROVE  Served'
<1>1. \A u \in Sessions : /\ frame'[u] = IF u = s THEN f ELSE frame[u]
                          /\ pc'[u] = IF u = s THEN label ELSE pc[u]
  BY DEF Goto, Served
<1>2. \A u \in Sessions : Sound(pc'[u], frame'[u])
  BY <1>1 DEF Served
<1>3. pc' \in [Sessions -> Labels] /\ DOMAIN frame' = Sessions
  BY DEF Goto, Served, Sound
<1> QED BY <1>2, <1>3 DEF Served

(* The same if the session alone moves. *)
LEMMA Moves ==
  ASSUME Served, NEW s \in Sessions, NEW label, NEW f, Goto(s, label, f), Sound(label, f),
         UNCHANGED <<inflight, clears, gone>>, UNCHANGED store
  PROVE  Served'
<1>1. /\ DOMAIN store' = Keys /\ inflight' \in [Keys -> {NoEvent} \cup (Sessions \X Nat)]
      /\ \A k \in Keys : store'[k] # None => AnswerOK(store'[k])
  BY DEF Served
<1> QED BY <1>1, MovesWith

(* A step of the shared state alone. *)
LEMMA Stays ==
  ASSUME Served, UNCHANGED <<pc, frame>>, DOMAIN store' = Keys, gone' \subseteq Sessions,
         inflight' \in [Keys -> {NoEvent} \cup (Sessions \X Nat)], clears' \in Nat,
         \A k \in Keys : store'[k] # None => store'[k] = store[k]
  PROVE  Served'
<1>1. \A k \in Keys : store'[k] # None => AnswerOK(store'[k])
  BY DEF Served
<1> QED BY <1>1 DEF Served

(* A request is done, without a lead or with one. *)
LEMMA DoneServed ==
  ASSUME Served, NEW s \in Sessions, Done(s), UNCHANGED <<clears, gone>>, DOMAIN store' = Keys,
         inflight' \in [Keys -> {NoEvent} \cup (Sessions \X Nat)],
         \A k \in Keys : store'[k] # None => AnswerOK(store'[k])
  PROVE  Served'
<1>1. frame[s].n \in Nat
  BY DEF Served, Sound, Typed
<1>2. Sound("recv", Idle(frame[s].n))
  BY <1>1, IdleTyped
<1> QED BY <1>2, MovesWith DEF Done

(* A request ends, through the release of the followers if it leads. *)
LEMMA FinishServed ==
  ASSUME Served, NEW s \in Sessions, NEW f, Typed(f), Finish(s, f),
         UNCHANGED <<clears, gone>>, DOMAIN store' = Keys,
         inflight' \in [Keys -> {NoEvent} \cup (Sessions \X Nat)],
         \A k \in Keys : store'[k] # None => AnswerOK(store'[k])
  PROVE  Served'
<1>1. CASE f.lead
  <2> DEFINE g == [f EXCEPT !.got = <<>>, !.up = <<>>, !.buf = <<>>, !.sent = <<>>, !.cap = None]
  <2>1. Goto(s, "end", g)
    BY <1>1 DEF Finish
  <2>2. <<>> \in Text /\ <<>> \in Seq(Text) /\ <<>> \in Messages
    BY DEF Text, Messages
  <2>3. Typed(g)
    BY <2>2 DEF Typed, Fields
  <2> HIDE DEF g
  <2>4. Sound("end", g)
    BY <2>3 DEF Sound, Placed, Labels
  <2> QED BY <2>1, <2>4, MovesWith
<1>2. CASE ~f.lead
  BY <1>2, DoneServed DEF Finish
<1> QED BY <1>1, <1>2

(* What a replay sends. *)
LEMMA ReplayType ==
  ASSUME NEW e, AnswerOK(e)
  PROVE  Replay(e) \in Messages
<1>1. e.lines \in Seq(Data)
  <2>1. <<>> \in Seq(Data)
    OBVIOUS
  <2> QED BY <2>1, FlattenFacts DEF AnswerOK, Messages
<1>2. PICK lines \in Seq(Data) : lines = e.lines
  BY <1>1
<1>3. DOMAIN lines = 1 .. Len(lines) /\ Len(lines) \in Nat
  OBVIOUS
<1>4. \A i \in 1 .. Len(lines) : <<lines[i]>> \in Seq(Data)
  OBVIOUS
<1>5. [i \in 1 .. Len(lines) |-> <<lines[i]>>] \in Seq(Seq(Data))
  BY <1>3, <1>4, IsASeq
<1> QED BY <1>2, <1>3, <1>5 DEF Replay, Messages

(* The cache and the wait for a leader. *)
LEMMA CacheServed ==
  ASSUME IInv, Served, NEW s \in Sessions,
         \/ Hit(s, "lookup") \/ Hit(s, "relook") \/ Miss(s)
         \/ Woken(s) \/ WaitTimesOut(s) \/ MissAgain(s)
  PROVE  Served'
<1>1. UNCHANGED <<store, inflight, clears, gone>>
  BY DEF Hit, Miss, Woken, WaitTimesOut, MissAgain, given, shared
<1>2. pc[s] \in {"lookup", "wait", "relook"} /\ Sound(pc[s], frame[s])
  BY DEF Hit, Miss, Woken, WaitTimesOut, MissAgain, Served
<1>3. Typed(frame[s]) /\ frame[s].got = <<>> /\ frame[s].buf = <<>> /\ frame[s].sent = <<>>
  BY <1>2 DEF Sound, Placed
<1>4. CASE Hit(s, "lookup") \/ Hit(s, "relook")
  <2> DEFINE e == store[Key(s)]
             g == [frame[s] EXCEPT !.entry = e, !.sent = Replay(e)]
  <2>1. Goto(s, "replayed", g) /\ e # None
    BY <1>4 DEF Hit
  <2>2. Key(s) \in Keys
    BY <1>2, WantedKeys DEF IInv, Asking, Key
  <2>3. AnswerOK(e)
    BY <2>1, <2>2 DEF Served
  <2> HIDE DEF e
  <2>4. Replay(e) \in Messages
    BY <2>3, ReplayType
  <2>5. Typed(g) /\ g.entry = e /\ g.sent = Replay(e)
    BY <1>3, <2>4 DEF Typed, Fields
  <2> HIDE DEF g
  <2>6. Sound("replayed", g)
    BY <2>3, <2>5 DEF Sound, Placed, Labels
  <2> QED BY <1>1, <2>1, <2>6, Moves
<1>5. CASE Woken(s) \/ WaitTimesOut(s)
  <2> DEFINE g == [frame[s] EXCEPT !.ev = NoEvent]
  <2>1. Goto(s, "relook", g)
    BY <1>5 DEF Woken, WaitTimesOut
  <2>2. Typed(g) /\ g.got = <<>> /\ g.buf = <<>> /\ g.sent = <<>>
    BY <1>3 DEF Typed, Fields
  <2> HIDE DEF g
  <2>3. Sound("relook", g)
    BY <2>2 DEF Sound, Placed, Labels
  <2> QED BY <1>1, <2>1, <2>3, Moves
<1>6. CASE Miss(s) \/ MissAgain(s)
  <2>1. PICK label \in {"begin", "fetch"} : Goto(s, label, frame[s])
    BY <1>6 DEF Miss, MissAgain
  <2>2. Sound(label, frame[s])
    BY <1>3 DEF Sound, Placed, Labels
  <2> QED BY <1>1, <2>1, <2>2, Moves
<1> QED BY <1>4, <1>5, <1>6

(* A session begins to lead or to wait. *)
LEMMA BeginServed ==
  ASSUME IInv, Served, NEW s \in Sessions, Begin(s)
  PROVE  Served'
<1>1. UNCHANGED <<store, clears, gone>> /\ pc[s] = "begin" /\ Sound(pc[s], frame[s])
  BY DEF Begin, given, Served
<1>2. /\ Typed(frame[s]) /\ frame[s].got = <<>> /\ frame[s].buf = <<>> /\ frame[s].sent = <<>>
      /\ frame[s].body \in Keys /\ clears \in Nat
  BY <1>1, WantedKeys DEF Sound, Placed, IInv, Asking, Served
<1>3. EventOf(s) \in Sessions \X Nat
  BY <1>2 DEF EventOf, Typed
<1>4. CASE Leads(s)
  <2> DEFINE g == [frame[s] EXCEPT !.ev = EventOf(s), !.lead = TRUE, !.era = clears]
  <2>1. Goto(s, "fetch", g) /\ inflight' = [inflight EXCEPT ![Key(s)] = EventOf(s)]
    BY <1>4 DEF Begin
  <2>2. Typed(g) /\ g.got = <<>> /\ g.buf = <<>> /\ g.sent = <<>>
    BY <1>2, <1>3 DEF Typed, Fields
  <2> HIDE DEF g
  <2>3. Sound("fetch", g)
    BY <2>2 DEF Sound, Placed, Labels
  <2>4. inflight' \in [Keys -> {NoEvent} \cup (Sessions \X Nat)]
    BY <1>3, <2>1 DEF Served
  <2>5. DOMAIN store' = Keys /\ \A k \in Keys : store'[k] # None => AnswerOK(store'[k])
    BY <1>1 DEF Served
  <2> QED BY <1>1, <2>1, <2>3, <2>4, <2>5, MovesWith
<1>5. CASE ~Leads(s)
  <2> DEFINE g == [frame[s] EXCEPT !.ev = inflight[Key(s)]]
  <2>1. Goto(s, "wait", g) /\ UNCHANGED inflight
    BY <1>5 DEF Begin
  <2>2. inflight[Key(s)] \in {NoEvent} \cup (Sessions \X Nat)
    BY <1>2 DEF Key, Served
  <2>3. Typed(g) /\ g.got = <<>> /\ g.buf = <<>> /\ g.sent = <<>>
    BY <1>2, <2>2 DEF Typed, Fields
  <2> HIDE DEF g
  <2>4. Sound("wait", g)
    BY <2>3 DEF Sound, Placed, Labels
  <2> QED BY <1>1, <2>1, <2>4, Moves
<1> QED BY <1>4, <1>5

(* Three pieces of text. *)
LEMMA TextConcat ==
  ASSUME NEW a, NEW b, NEW c, a \in Text, b \in Text, c \in Text
  PROVE  (a \o b) \o c = a \o (b \o c) /\ a \o b \in Text
<1>1. a \in Seq(Symbols) /\ b \in Seq(Symbols) /\ c \in Seq(Symbols)
  BY DEF Text
<1>2. (a \o b) \o c = a \o (b \o c)
  BY <1>1, ThreeParts
<1>3. a \o b \in Seq(Symbols)
  BY <1>1
<1> QED BY <1>2, <1>3 DEF Text

(* To relay a message keeps what is captured what is sent. *)
LEMMA RelayFacts ==
  ASSUME NEW s, NEW g, NEW block, NEW r, Typed(g), g.cap # None => g.cap = FlattenSeq(g.sent),
         block \in Text, r = Relayed(s, g, Message(block))
  PROVE  /\ Typed(r) /\ r.got = g.got /\ r.buf = g.buf
         /\ r.cap # None => r.cap = FlattenSeq(r.sent)
         /\ g.ok /\ r.ok => r.sent = g.sent \o Message(block)
<1> DEFINE msgs == Message(block)
           c == Captured(g.cap, msgs)
<1>1. msgs \in Seq(Seq(Data)) /\ g.sent \in Seq(Seq(Data))
  BY MessageType DEF Typed, Messages
<1> HIDE DEF msgs
<1>2. g.sent \o msgs \in Messages /\ FlattenSeq(msgs) \in Seq(Data)
  <2>1. <<>> \in Seq(Data)
    OBVIOUS
  <2>2. FlattenSeq(msgs) \in Seq(Data)
    BY <1>1, <2>1, FlattenFacts
  <2> QED BY <1>1, <2>2 DEF Messages
<1>3. CASE msgs # <<>> /\ s \in gone
  <2>1. r = [g EXCEPT !.ok = FALSE]
    BY <1>3 DEF Relayed, msgs
  <2>2. Typed(r) /\ r.got = g.got /\ r.buf = g.buf /\ r.cap = g.cap /\ r.sent = g.sent /\ ~r.ok
    BY <2>1 DEF Typed, Fields
  <2> QED BY <2>2
<1>4. CASE ~(msgs # <<>> /\ s \in gone)
  <2>1. c # None => /\ g.cap # None /\ c = g.cap \o FlattenSeq(msgs)
                    /\ Len(g.cap) + Len(FlattenSeq(msgs)) =< MaxLines
    <3>1. Len(g.cap) + Len(FlattenSeq(msgs)) \in Nat \/ g.cap = None
      BY <1>2 DEF Typed
    <3> QED BY <3>1, WsConfig DEF Captured
  <2>2. c = None \/ (c \in Seq(Data) /\ Len(c) =< MaxLines)
    <3> SUFFICES ASSUME c # None PROVE c \in Seq(Data) /\ Len(c) =< MaxLines
      OBVIOUS
    <3>1. g.cap \in Seq(Data)
      BY <2>1 DEF Typed
    <3> QED BY <1>2, <2>1, <3>1, ConcatProperties
  <2>3. c # None => c = FlattenSeq(g.sent \o msgs)
    BY <1>1, <2>1, FlattenConcat
  <2> HIDE DEF c
  <2>4. r = [g EXCEPT !.sent = @ \o msgs, !.cap = c]
    BY <1>4 DEF Relayed, c, msgs
  <2>5. /\ Typed(r) /\ r.got = g.got /\ r.buf = g.buf
        /\ r.cap = c /\ r.sent = g.sent \o msgs
    BY <1>2, <2>2, <2>4 DEF Typed, Fields
  <2> QED BY <2>3, <2>5 DEF msgs
<1> QED BY <1>3, <1>4

(* The answer begins. *)
LEMMA StreamsServed ==
  ASSUME Served, NEW s \in Sessions, FetchStreams(s)
  PROVE  Served'
<1>1. UNCHANGED <<store, inflight, clears, gone>> /\ pc[s] = "fetch" /\ Sound(pc[s], frame[s])
  BY DEF FetchStreams, given, shared, Served
<1>2. Typed(frame[s]) /\ frame[s].got = <<>> /\ frame[s].buf = <<>> /\ frame[s].sent = <<>>
  BY <1>1 DEF Sound, Placed
<1>3. PICK q \in Streams :
         Goto(s, "stream", [frame[s] EXCEPT !.up = q, !.cap = IF MayWrite(s) THEN <<>> ELSE None])
  BY DEF FetchStreams
<1> DEFINE g == [frame[s] EXCEPT !.up = q, !.cap = IF MayWrite(s) THEN <<>> ELSE None]
<1>4. q \in Seq(Text) /\ <<>> \in Seq(Data) /\ Len(<<>>) = 0 /\ 0 =< MaxLines
  BY WsConfig DEF Text
<1>5. /\ Typed(g) /\ g.got = <<>> /\ g.buf = <<>> /\ g.sent = <<>>
      /\ g.cap \in {None, <<>>}
  BY <1>2, <1>4 DEF Typed, Fields
<1>6. Goto(s, "stream", g)
  BY <1>3
<1> HIDE DEF g
<1>7. g.cap # None => g.cap = FlattenSeq(g.sent)
  <2>1. FlattenSeq(<<>>) = <<>>
    BY <1>4, FlattenFew
  <2> QED BY <1>5, <2>1
<1>8. InStep(g)
  <2>1. ASSUME NEW z \in Text PROVE Events(<<>> \o z) = <<>> \o Events(<<>> \o z)
    <3>1. <<>> \o z = z /\ <<>> \o Events(z) = Events(z)
      BY EventsType, ConcatEmptySeq DEF Text
    <3> QED BY <3>1
  <2> QED BY <1>5, <2>1 DEF InStep
<1>9. Sound("stream", g)
  BY <1>5, <1>7, <1>8 DEF Sound, Placed, Labels
<1> QED BY <1>1, <1>6, <1>9, Moves

(* A chunk goes to both sides. *)
LEMMA ChunkInStep ==
  ASSUME NEW f, NEW g, NEW chunk, InStep(f), f.got \in Text, f.buf \in Text, chunk \in Text,
         g.got = f.got \o chunk, g.buf = f.buf \o chunk, g.sent = f.sent
  PROVE  InStep(g)
<1> SUFFICES ASSUME NEW z \in Text
             PROVE  Events(g.got \o z) = g.sent \o Events(g.buf \o z)
  BY DEF InStep
<1>1. (f.got \o chunk) \o z = f.got \o (chunk \o z) /\ f.got \o chunk \in Text
  BY TextConcat
<1>2. (f.buf \o chunk) \o z = f.buf \o (chunk \o z) /\ f.buf \o chunk \in Text
  BY TextConcat
<1>3. chunk \o z \in Text
  BY TextConcat
<1>4. Events(f.got \o (chunk \o z)) = f.sent \o Events(f.buf \o (chunk \o z))
  BY <1>3 DEF InStep
<1> QED BY <1>1, <1>2, <1>4

(* So a chunk is read. *)
LEMMA ChunkServed ==
  ASSUME Served, NEW s \in Sessions, ReadChunk(s)
  PROVE  Served'
<1>1. /\ UNCHANGED <<store, inflight, clears, gone>> /\ pc[s] = "stream" /\ frame[s].ok
      /\ Sound(pc[s], frame[s]) /\ frame[s].up # <<>>
  BY DEF ReadChunk, Streaming, given, shared, Served
<1>2. Typed(frame[s]) /\ InStep(frame[s])
      /\ (frame[s].cap # None => frame[s].cap = FlattenSeq(frame[s].sent))
  BY <1>1 DEF Sound, Placed
<1> DEFINE chunk == Head(frame[s].up)
           g == [frame[s] EXCEPT !.up = Tail(@), !.buf = @ \o chunk, !.got = @ \o chunk]
<1>3. Goto(s, "stream", g)
  BY DEF ReadChunk
<1>4. chunk \in Text /\ Tail(frame[s].up) \in Seq(Text)
  BY <1>1, <1>2 DEF Typed
<1> HIDE DEF chunk
<1>5. frame[s].buf \o chunk \in Text /\ frame[s].got \o chunk \in Text
  BY <1>2, <1>4 DEF Typed, Text
<1>6. /\ Typed(g) /\ g.buf = frame[s].buf \o chunk /\ g.got = frame[s].got \o chunk
      /\ g.sent = frame[s].sent /\ g.cap = frame[s].cap /\ g.ok = frame[s].ok
  BY <1>2, <1>4, <1>5 DEF Typed, Fields
<1> HIDE DEF g
<1>7. InStep(g)
  BY <1>2, <1>4, <1>6, ChunkInStep DEF Typed
<1>8. Sound("stream", g)
  BY <1>2, <1>6, <1>7 DEF Sound, Placed, Labels
<1> QED BY <1>1, <1>3, <1>8, Moves

(* An event goes from the buffer to the client. *)
LEMMA EmitServed ==
  ASSUME Served, NEW s \in Sessions, EmitBlock(s)
  PROVE  Served'
<1>1. /\ UNCHANGED <<store, inflight, clears, gone>> /\ pc[s] = "stream" /\ frame[s].ok
      /\ Sound(pc[s], frame[s])
  BY DEF EmitBlock, Streaming, given, shared, Served
<1>2. Typed(frame[s]) /\ InStep(frame[s])
      /\ (frame[s].cap # None => frame[s].cap = FlattenSeq(frame[s].sent))
  BY <1>1 DEF Sound, Placed
<1>3. PICK i \in Breaks(frame[s].buf) :
         /\ \A j \in Breaks(frame[s].buf) : i =< j
         /\ Goto(s, "stream", Relayed(s, [frame[s] EXCEPT !.buf = Rest(frame[s].buf, i)],
                                      Message(Block(frame[s].buf, i))))
  BY DEF EmitBlock
<1>3a. PICK buf \in Text : buf = frame[s].buf
  BY <1>2 DEF Typed
<1>3b. PICK rest, block : rest = Rest(buf, i) /\ block = Block(buf, i)
  OBVIOUS
<1>3c. PICK g : g = [frame[s] EXCEPT !.buf = rest]
  OBVIOUS
<1>3d. PICK r : r = Relayed(s, g, Message(block))
  OBVIOUS
<1>4. Goto(s, "stream", r)
  BY <1>3, <1>3a, <1>3b, <1>3c, <1>3d
<1>5. rest \in Text /\ block \in Text /\ i \in Breaks(buf)
  BY <1>3a, <1>3b, RestFacts
<1>6. /\ Typed(g) /\ g.buf = rest /\ g.got = frame[s].got /\ g.sent = frame[s].sent
      /\ g.cap = frame[s].cap /\ g.ok
  BY <1>1, <1>2, <1>3c, <1>5 DEF Typed, Fields
<1>6a. g.cap # None => g.cap = FlattenSeq(g.sent)
  BY <1>2, <1>6
<1>7. /\ Typed(r) /\ r.got = g.got /\ r.buf = g.buf
      /\ r.cap # None => r.cap = FlattenSeq(r.sent)
      /\ g.ok /\ r.ok => r.sent = g.sent \o Message(block)
  <2>1. Typed(g) /\ block \in Text
    BY <1>5, <1>6
  <2> QED BY <2>1, <1>3d, <1>6a, RelayFacts
<1>8. ASSUME r.ok PROVE InStep(r)
  <2>1. r.got = frame[s].got /\ r.buf = rest /\ r.sent = frame[s].sent \o Message(block)
    BY <1>6, <1>7, <1>8
  <2>2. ASSUME NEW z \in Text
        PROVE  Events(frame[s].got \o z) = (frame[s].sent \o Message(block)) \o Events(rest \o z)
    <3> DEFINE y == buf \o z
    <3>1. y \in Text
      BY <2>2 DEF Text
    <3>2. /\ i \in Breaks(y) /\ \A j \in Breaks(y) : i =< j
          /\ Block(y, i) = block /\ Rest(y, i) = rest \o z
      BY <1>3, <1>3a, <1>3b, FirstBreak, SMTT(30)
    <3>3. Events(frame[s].got \o z) = frame[s].sent \o Events(y)
      BY <1>2, <1>3a DEF InStep
    <3> HIDE DEF y
    <3>4. Events(y) = Message(block) \o Events(rest \o z)
      BY <3>1, <3>2, FirstEvent
    <3>5. rest \o z \in Text
      BY <1>5 DEF Text
    <3>6. /\ Message(block) \in Seq(Seq(Data)) /\ Events(rest \o z) \in Seq(Seq(Data))
          /\ frame[s].sent \in Seq(Seq(Data))
      BY <1>2, <1>5, <3>5, MessageType, EventsType DEF Typed, Messages
    <3>7. PICK a, b, c : a = frame[s].sent /\ b = Message(block) /\ c = Events(rest \o z)
      OBVIOUS
    <3>8. a \in Seq(Seq(Data)) /\ b \in Seq(Seq(Data)) /\ c \in Seq(Seq(Data))
      BY <3>6, <3>7
    <3>9. (a \o b) \o c = a \o (b \o c)
      BY <3>8, ThreeParts, SMTT(30)
    <3> QED BY <3>3, <3>4, <3>7, <3>9
  <2> QED BY <2>1, <2>2 DEF InStep
<1>9. Sound("stream", r)
  BY <1>7, <1>8 DEF Sound, Placed, Labels
<1> QED BY <1>1, <1>4, <1>9, Moves

(* The stream ends: the answer is kept, or the request is over. *)
LEMMA EndServed ==
  ASSUME Served, NEW s \in Sessions, StreamEnds(s)
  PROVE  Served'
<1>1. /\ UNCHANGED <<store, inflight, clears, gone>> /\ pc[s] = "stream"
      /\ Sound(pc[s], frame[s])
  BY DEF StreamEnds, given, shared, Served
<1>2. Typed(frame[s]) /\ (frame[s].cap # None => frame[s].cap = FlattenSeq(frame[s].sent))
  BY <1>1 DEF Sound, Placed
<1>3. PICK g : g = [frame[s] EXCEPT !.buf = <<>>]
  OBVIOUS
<1>4. PICK r : r = Relayed(s, g, Message(frame[s].buf))
  OBVIOUS
<1>5. PICK f : /\ f = IF frame[s].ok THEN r ELSE frame[s]
               /\ IF Worth(f) THEN Goto(s, "put", f) ELSE Finish(s, f)
  BY <1>3, <1>4 DEF StreamEnds
<1>6. Typed(g) /\ (g.cap # None => g.cap = FlattenSeq(g.sent))
  <2>1. <<>> \in Text
    BY DEF Text
  <2> QED BY <1>2, <1>3, <2>1 DEF Typed, Fields
<1>7. PICK block \in Text : block = frame[s].buf
  BY <1>2 DEF Typed
<1>8. /\ Typed(r) /\ r.got = g.got /\ r.buf = g.buf
      /\ r.cap # None => r.cap = FlattenSeq(r.sent)
      /\ g.ok /\ r.ok => r.sent = g.sent \o Message(block)
  <2>1. r = Relayed(s, g, Message(block))
    BY <1>4, <1>7
  <2> QED BY <1>6, <2>1, RelayFacts
<1>9. Typed(f) /\ (f.cap # None => f.cap = FlattenSeq(f.sent))
  BY <1>2, <1>5, <1>8
<1>10. CASE Worth(f)
  <2>1. Sound("put", f)
    BY <1>9, <1>10 DEF Sound, Placed, Labels
  <2> QED BY <1>1, <1>5, <1>10, <2>1, Moves
<1>11. CASE ~Worth(f)
  <2>1. /\ DOMAIN store' = Keys /\ inflight' \in [Keys -> {NoEvent} \cup (Sessions \X Nat)]
        /\ \A k \in Keys : store'[k] # None => AnswerOK(store'[k])
    BY <1>1 DEF Served
  <2> QED BY <1>1, <1>5, <1>9, <1>11, <2>1, FinishServed
<1> QED BY <1>10, <1>11

(* What a worthy answer leaves in the cache. *)
LEMMA WorthIsAnswer ==
  ASSUME NEW f, Typed(f), Worth(f), f.cap = FlattenSeq(f.sent)
  PROVE  AnswerOK([lines |-> f.cap, events |-> f.sent])
<1>1. PICK sent \in Seq(Seq(Data)) : sent = f.sent
  BY DEF Typed, Messages
<1>2. PICK d \in {"part", "completed"} : <<d>> \in ToSet(sent)
  BY <1>1 DEF Worth
<1>3. DOMAIN sent = 1 .. Len(sent)
  OBVIOUS
<1>4. PICK m \in 1 .. Len(sent) : sent[m] = <<d>>
  BY <1>2, <1>3 DEF ToSet
<1>5. 1 \in 1 .. Len(sent[m]) /\ sent[m][1] = d
  BY <1>4
<1>6. sent[m][1] \in ToSet(FlattenSeq(sent))
  BY <1>5, FlattenHas
<1>7. d \in ToSet(f.cap)
  BY <1>1, <1>5, <1>6
<1>8. <<"failed">> \notin ToSet(f.sent)
  BY DEF Worth
<1> QED BY <1>1, <1>2, <1>7, <1>8 DEF AnswerOK, Messages

(* So it is put. *)
LEMMA PutServed ==
  ASSUME IInv, Served, NEW s \in Sessions, Put(s)
  PROVE  Served'
<1>1. /\ UNCHANGED <<inflight, clears, gone>> /\ pc[s] = "put" /\ Sound(pc[s], frame[s])
      /\ Finish(s, frame[s])
      /\ store' = [store EXCEPT ![Key(s)] = [lines |-> frame[s].cap, events |-> frame[s].sent]]
  BY DEF Put, given, Served
<1>2. Typed(frame[s]) /\ Worth(frame[s]) /\ frame[s].cap = FlattenSeq(frame[s].sent)
  BY <1>1 DEF Sound, Placed, Worth
<1>3. AnswerOK([lines |-> frame[s].cap, events |-> frame[s].sent])
  BY <1>2, WorthIsAnswer
<1>4. DOMAIN store' = Keys /\ inflight' \in [Keys -> {NoEvent} \cup (Sessions \X Nat)]
  BY <1>1 DEF Served
<1>5. \A k \in Keys : store'[k] # None => AnswerOK(store'[k])
  BY <1>1, <1>3 DEF Served
<1> QED BY <1>1, <1>2, <1>4, <1>5, FinishServed

(* The other steps of a request. *)
LEMMA OtherServed ==
  ASSUME Served, NEW s \in Sessions, Replayed(s) \/ FetchFails(s) \/ EndSet(s) \/ EndPop(s)
  PROVE  Served'
<1>1. /\ UNCHANGED <<store, clears, gone>> /\ Sound(pc[s], frame[s]) /\ DOMAIN store' = Keys
      /\ \A k \in Keys : store'[k] # None => AnswerOK(store'[k])
  BY DEF Replayed, FetchFails, EndSet, EndPop, given, shared, Served
<1>2. Typed(frame[s]) /\ frame[s].ev \in {NoEvent} \cup (Sessions \X Nat)
  BY <1>1 DEF Sound, Typed
<1>3. inflight \in [Keys -> {NoEvent} \cup (Sessions \X Nat)]
  BY DEF Served
<1>4. CASE Replayed(s)
  BY <1>1, <1>3, <1>4, DoneServed DEF Replayed, shared
<1>5. CASE FetchFails(s)
  BY <1>1, <1>2, <1>3, <1>5, FinishServed DEF FetchFails, ErrorEnds, shared
<1>6. CASE EndSet(s)
  <2>1. Sound("pop", frame[s])
    BY <1>2 DEF Sound, Placed, Labels
  <2> QED BY <1>1, <1>6, <2>1, Moves DEF EndSet
<1>7. CASE EndPop(s)
  <2>1. inflight' \in [Keys -> {NoEvent} \cup (Sessions \X Nat)]
    BY <1>3, <1>7 DEF EndPop
  <2> QED BY <1>1, <1>7, <2>1, DoneServed DEF EndPop
<1> QED BY <1>4, <1>5, <1>6, <1>7

(* A frame is received. *)
LEMMA RecvServed ==
  ASSUME IInv, Served, NEW s \in Sessions, Recv(s)
  PROVE  Served'
<1>1. UNCHANGED <<store, inflight, clears, gone>> /\ pc[s] = "recv" /\ Sound(pc[s], frame[s])
  BY DEF Recv, RecvControl, RecvFragment, RecvMessage, RecvEnd, shared, Served
<1>2. Typed(frame[s]) /\ frame[s].n \in Nat /\ clears \in Nat
  BY <1>1 DEF Sound, Typed, Served
<1>3. CASE UNCHANGED <<pc, frame>>
  <2>1. /\ DOMAIN store' = Keys /\ gone' \subseteq Sessions /\ clears' \in Nat
        /\ inflight' \in [Keys -> {NoEvent} \cup (Sessions \X Nat)]
        /\ \A k \in Keys : store'[k] # None => store'[k] = store[k]
    BY <1>1 DEF Served
  <2> QED BY <1>3, <2>1, Stays
<1>4. CASE RecvEnd(s)
  <2>1. \A u \in Sessions : /\ pc'[u] = IF u = s THEN "closed" ELSE pc[u]
                            /\ frame'[u] = frame[u]
    BY <1>4 DEF RecvEnd, Served
  <2>2. \A u \in Sessions : Sound(pc'[u], frame'[u])
    BY <1>2, <2>1 DEF Served, Sound, Placed, Labels
  <2>3. pc' \in [Sessions -> Labels] /\ DOMAIN frame' = Sessions
    BY <1>4 DEF RecvEnd, Served, Labels
  <2> QED BY <1>1, <2>2, <2>3 DEF Served
<1>5. CASE ~(UNCHANGED <<pc, frame>>) /\ RecvMessage(s)
  <2>1. PICK id \in Listed(models) :
               Goto(s, IF MayRead(s) THEN "lookup" ELSE "fetch",
                    [Idle(frame[s].n + 1) EXCEPT !.body = BodyFor(id), !.era = clears])
    BY <1>5 DEF RecvMessage
  <2> DEFINE g == [Idle(frame[s].n + 1) EXCEPT !.body = BodyFor(id), !.era = clears]
  <2>2. PICK label \in {"lookup", "fetch"} : Goto(s, label, g)
    BY <2>1
  <2>3. frame[s].n + 1 \in Nat
    BY <1>2
  <2>4. /\ Typed(Idle(frame[s].n + 1)) /\ Idle(frame[s].n + 1).got = <<>>
        /\ Idle(frame[s].n + 1).buf = <<>> /\ Idle(frame[s].n + 1).sent = <<>>
    BY <2>3, IdleTyped
  <2>5. BodyFor(id) \in Keys
    BY WantedKeys DEF IInv, Wanted
  <2>6. Typed(g) /\ g.got = <<>> /\ g.buf = <<>> /\ g.sent = <<>>
    BY <1>2, <2>4, <2>5 DEF Typed, Fields
  <2> HIDE DEF g
  <2>7. Sound(label, g)
    BY <2>6 DEF Sound, Placed, Labels
  <2> QED BY <1>1, <2>2, <2>7, Moves
<1> QED BY <1>3, <1>4, <1>5 DEF Recv, RecvControl, RecvFragment

(* What the others do. *)
LEMMA SharedServed ==
  ASSUME Served, \/ \E s \in Sessions : ClientGoes(s)
                 \/ \E k \in DOMAIN store : Expire(k)
                 \/ Clear \/ UNCHANGED vars
  PROVE  Served'
<1>1. /\ DOMAIN store = Keys /\ clears \in Nat /\ gone \subseteq Sessions
      /\ inflight \in [Keys -> {NoEvent} \cup (Sessions \X Nat)]
  BY DEF Served
<1>2. CASE \E s \in Sessions : ClientGoes(s)
  BY <1>1, <1>2, Stays DEF ClientGoes, shared
<1>3. CASE \E k \in DOMAIN store : Expire(k)
  <2>1. PICK k \in Keys : Expire(k)
    BY <1>1, <1>3
  <2>2. DOMAIN store' = Keys /\ \A j \in Keys : store'[j] # None => store'[j] = store[j]
    BY <1>1, <2>1 DEF Expire
  <2> QED BY <1>1, <2>1, <2>2, Stays DEF Expire
<1>4. CASE Clear
  <2>1. DOMAIN store' = Keys /\ \A j \in Keys : store'[j] # None => store'[j] = store[j]
    BY <1>1, <1>4 DEF Clear
  <2>2. clears' \in Nat /\ inflight' \in [Keys -> {NoEvent} \cup (Sessions \X Nat)]
    BY <1>1, <1>4 DEF Clear
  <2> QED BY <1>1, <1>4, <2>1, <2>2, Stays DEF Clear
<1>5. CASE UNCHANGED vars
  BY <1>1, <1>5, Stays DEF vars
<1> QED BY <1>2, <1>3, <1>4, <1>5

(* Every step keeps it. *)
LEMMA ServedStep == IInv /\ Served /\ [Next]_vars => Served'
<1> SUFFICES ASSUME IInv, Served, [Next]_vars PROVE Served'
  OBVIOUS
<1>1. ASSUME NEW s \in Sessions, Recv(s) PROVE Served'
  BY <1>1, RecvServed
<1>2. ASSUME NEW s \in Sessions, Serve(s) \/ WaitTimesOut(s) PROVE Served'
  BY <1>2, CacheServed, BeginServed, StreamsServed, ChunkServed, EmitServed, EndServed,
     PutServed, OtherServed DEF Serve
<1> QED BY <1>1, <1>2, SharedServed DEF Next

(* In every reachable state what is captured, what is sent and what is still *)
(* in the buffer add up to what the upstream has sent.                       *)
THEOREM Serving == Spec => []Served
<1>1. Init => IInv /\ Served
  BY Initially, ServedInit
<1>2. (IInv /\ Served) /\ [Next]_vars => (IInv /\ Served)'
  BY Inductive, ServedStep
<1> QED BY <1>1, <1>2, PTL DEF Spec

(* Every variable has its type, and no capture is over its limit. *)
THEOREM BridgeTypes == Spec => []TypeOK
<1>1. Served => TypeOK
  <2> SUFFICES ASSUME Served PROVE TypeOK
    OBVIOUS
  <2>1. DOMAIN store = Keys /\ pc \in [Sessions -> Labels] /\ gone \subseteq Sessions
    BY DEF Served
  <2>2. ASSUME NEW s \in Sessions PROVE FrameOK(frame[s])
    BY <2>1 DEF Served, Sound, Typed, FrameOK
  <2> QED BY <2>1, <2>2 DEF Served, TypeOK, Labels
<1> QED BY <1>1, Serving, PTL

(* An answer is in the cache only if it, or a part of it, was completed and  *)
(* none of its events says that it has failed, and it is what the client     *)
(* was sent.                                                                 *)
THEOREM OnlyWholeAnswers == Spec => []KeptAsSent
<1>1. Served => KeptAsSent
  BY DEF Served, AnswerOK, KeptAsSent
<1> QED BY <1>1, Serving, PTL

(* An answer whose events are single lines is replayed event by event. *)
THEOREM FaithfulReplay == Spec => []ReplayIsTheStream
<1>1. Served => ReplayIsTheStream
  <2> SUFFICES ASSUME Served, NEW s \in Sessions, pc[s] = "replayed",
                      \A e \in ToSet(frame[s].entry.events) : Len(e) = 1
               PROVE  frame[s].sent = frame[s].entry.events
    BY DEF ReplayIsTheStream
  <2>1. AnswerOK(frame[s].entry) /\ frame[s].sent = Replay(frame[s].entry)
    BY DEF Served, Sound, Placed
  <2>2. PICK events \in Seq(Seq(Data)) : events = frame[s].entry.events
    BY <2>1 DEF AnswerOK, Messages
  <2>3. DOMAIN events = 1 .. Len(events) /\ Len(events) \in Nat
    OBVIOUS
  <2>4. \A i \in 1 .. Len(events) : Len(events[i]) = 1
    BY <2>2, <2>3 DEF ToSet
  <2>5. PICK lines : lines = FlattenSeq(events)
    OBVIOUS
  <2>6. Len(lines) = Len(events) /\ \A i \in 1 .. Len(events) : events[i] = <<lines[i]>>
    BY <2>4, <2>5, FlattenSingles
  <2>7. lines \in Seq(Data)
    <3>1. <<>> \in Seq(Data)
      OBVIOUS
    <3> QED BY <2>5, <3>1, FlattenFacts
  <2>8. DOMAIN lines = 1 .. Len(events)
    BY <2>6, <2>7
  <2>9. Replay(frame[s].entry) = [i \in 1 .. Len(events) |-> <<lines[i]>>]
    BY <2>1, <2>2, <2>5, <2>8 DEF AnswerOK, Replay
  <2>10. events = [i \in 1 .. Len(events) |-> events[i]]
    BY <2>3
  <2>11. [i \in 1 .. Len(events) |-> <<lines[i]>>] = [i \in 1 .. Len(events) |-> events[i]]
    BY <2>6
  <2> QED BY <2>1, <2>2, <2>9, <2>10, <2>11
<1> QED BY <1>1, Serving, PTL

(* Wherever the chunks of the stream are cut, the client has been sent the   *)
(* events of the text so far.                                                *)
THEOREM AnyChunks == Spec => []ChunksMakeNoDifference
<1>1. Served => ChunksMakeNoDifference
  <2> SUFFICES ASSUME Served, NEW s \in Sessions, Streaming(s), Breaks(frame[s].buf) = {}
               PROVE  frame[s].sent = Events(frame[s].got)
    BY DEF ChunksMakeNoDifference
  <2>1. Typed(frame[s]) /\ InStep(frame[s])
    BY DEF Streaming, Served, Sound, Placed
  <2>2. PICK got \in Text, buf \in Text : got = frame[s].got /\ buf = frame[s].buf
    BY <2>1 DEF Typed
  <2>3. <<>> \in Text /\ got \o <<>> = got /\ buf \o <<>> = buf
    BY ConcatEmptySeq DEF Text
  <2>4. Events(got \o <<>>) = frame[s].sent \o Events(buf \o <<>>)
    BY <2>1, <2>2, <2>3 DEF InStep
  <2>5. Events(buf) = <<>>
    BY <2>2, NoEvents
  <2>6. frame[s].sent \in Seq(Seq(Data))
    BY <2>1 DEF Typed, Messages
  <2>7. frame[s].sent \o <<>> = frame[s].sent
    BY <2>6, ConcatEmptySeq
  <2> QED BY <2>2, <2>3, <2>4, <2>5, <2>7
<1> QED BY <1>1, Serving, PTL

-----------------------------------------------------------------------------
(* The messages of the clients *)

(* Without a frame no message is complete and none has begun. *)
LEMMA CountNone ==
  ASSUME NEW frames
  PROVE  Complete(frames, 0) = 0 /\ Begun(frames, 0) = 0
<1>1. 1 .. 0 = {}
  OBVIOUS
<1>2. /\ {j \in 1 .. 0 : IsData(frames[j]) /\ frames[j].fin} = {}
      /\ {j \in 1 .. 0 : /\ IsData(frames[j])
                         /\ \A k \in j .. 0 : IsData(frames[k]) => ~frames[k].fin} = {}
  BY <1>1
<1> QED BY <1>2, FS_EmptySet DEF Complete, Begun

(* With one frame more: what is complete and what has begun. *)
LEMMA CountStep ==
  ASSUME NEW frames, NEW p \in Nat
  PROVE  LET f == frames[p + 1]
             c == Complete(frames, p)
             n == Begun(frames, p)
         IN  /\ c \in Nat /\ n \in Nat
             /\ Complete(frames, p + 1) = IF IsData(f) /\ f.fin THEN c + 1 ELSE c
             /\ Begun(frames, p + 1) = IF ~IsData(f) THEN n ELSE IF f.fin THEN 0 ELSE n + 1
<1> DEFINE f == frames[p + 1]
           C(q) == {j \in 1 .. q : IsData(frames[j]) /\ frames[j].fin}
           B(q) == {j \in 1 .. q : /\ IsData(frames[j])
                                   /\ \A k \in j .. q : IsData(frames[k]) => ~frames[k].fin}
<1>1. ASSUME NEW q \in Nat PROVE IsFiniteSet(C(q)) /\ IsFiniteSet(B(q))
  <2>1. IsFiniteSet(1 .. q)
    BY FS_Interval
  <2>2. C(q) \subseteq 1 .. q /\ B(q) \subseteq 1 .. q
    OBVIOUS
  <2> HIDE DEF C, B
  <2> QED BY <2>1, <2>2, FS_Subset
<1>2. p + 1 \notin C(p) /\ p + 1 \notin B(p)
  OBVIOUS
<1>3. C(p + 1) = IF IsData(f) /\ f.fin THEN C(p) \cup {p + 1} ELSE C(p)
  <2>1. \A j \in 1 .. p + 1 : j \in 1 .. p \/ j = p + 1
    OBVIOUS
  <2>2. p + 1 \in 1 .. p + 1 /\ \A j \in 1 .. p : j \in 1 .. p + 1
    OBVIOUS
  <2> QED BY <2>1, <2>2
<1>4. CASE ~IsData(f) \/ ~f.fin
  <2>1. ASSUME NEW j \in 1 .. p
        PROVE  (\A k \in j .. p + 1 : IsData(frames[k]) => ~frames[k].fin)
               <=> (\A k \in j .. p : IsData(frames[k]) => ~frames[k].fin)
    <3>1. \A k \in j .. p + 1 : k \in j .. p \/ k = p + 1
      OBVIOUS
    <3>2. \A k \in j .. p : k \in j .. p + 1
      OBVIOUS
    <3> QED BY <1>4, <3>1, <3>2
  <2>2. \A k \in p + 1 .. p + 1 : k = p + 1
    OBVIOUS
  <2>3. \A j \in 1 .. p + 1 : j \in 1 .. p \/ j = p + 1
    OBVIOUS
  <2>4. p + 1 \in 1 .. p + 1 /\ \A j \in 1 .. p : j \in 1 .. p + 1
    OBVIOUS
  <2>5. ASSUME NEW j \in 1 .. p PROVE j \in B(p + 1) <=> j \in B(p)
    BY <2>1, <2>4
  <2>6. p + 1 \in B(p + 1) <=> IsData(f)
    BY <1>4, <2>2, <2>4
  <2>7. B(p + 1) \subseteq 1 .. p + 1 /\ B(p) \subseteq 1 .. p
    OBVIOUS
  <2> HIDE DEF B
  <2>8. B(p + 1) = IF IsData(f) THEN B(p) \cup {p + 1} ELSE B(p)
    BY <1>2, <2>3, <2>5, <2>6, <2>7
  <2> HIDE DEF f, C
  <2>9. /\ Cardinality(B(p)) \in Nat /\ Cardinality(C(p)) \in Nat
        /\ Cardinality(B(p) \cup {p + 1}) = Cardinality(B(p)) + 1
    BY <1>1, <1>2, FS_CardinalityType, FS_AddElement
  <2>10. Cardinality(C(p + 1)) = Cardinality(C(p))
    BY <1>3, <1>4
  <2> QED BY <1>4, <2>8, <2>9, <2>10 DEF Complete, Begun, B, C, f
<1>5. CASE IsData(f) /\ f.fin
  <2>1. B(p + 1) = {}
    <3>1. \A j \in 1 .. p + 1 : p + 1 \in j .. p + 1
      OBVIOUS
    <3> QED BY <1>5, <3>1
  <2> HIDE DEF f, C, B
  <2>2. /\ Cardinality(B(p)) \in Nat /\ Cardinality(C(p)) \in Nat
        /\ Cardinality(C(p) \cup {p + 1}) = Cardinality(C(p)) + 1
    BY <1>1, <1>2, FS_CardinalityType, FS_AddElement
  <2>3. Cardinality(B(p + 1)) = 0
    BY <2>1, FS_EmptySet
  <2>4. Cardinality(C(p + 1)) = Cardinality(C(p)) + 1
    BY <1>3, <1>5, <2>2
  <2> QED BY <1>5, <2>2, <2>3, <2>4 DEF Complete, Begun, B, C, f
<1> QED BY <1>4, <1>5

(* The first n fragments of a message, as they are kept. *)
PartOf(m, n) == IF n = 0 THEN NoPart ELSE [op |-> m.op, data |-> SubSeq(m.data, 1, n)]

(* A fragment more. *)
LEMMA AssembledPart ==
  ASSUME NEW m \in ClientMessages, NEW n \in Nat, n + 1 =< Len(m.data), NEW f,
         f = [op   |-> IF n + 1 = 1 THEN m.op ELSE "cont",
              data |-> m.data[n + 1],
              fin  |-> n + 1 = Len(m.data)]
  PROVE  /\ Assembled(PartOf(m, n), f) = PartOf(m, n + 1)
         /\ f.fin => Assembled(PartOf(m, n), f) = m
<1>1. PICK data \in Seq(STRING), op \in {"text", "binary"} : m = [op |-> op, data |-> data]
  BY DEF ClientMessages
<1>2. m.op = op /\ m.data = data /\ n + 1 \in 1 .. Len(data) /\ Len(data) \in Nat
  BY <1>1
<1>3. Assembled(PartOf(m, n), f) = [op |-> op, data |-> SubSeq(data, 1, n + 1)]
  <2>1. CASE n = 0
    <3>1. /\ PartOf(m, n) = NoPart /\ NoPart.data = <<>>
          /\ f.op = op /\ op # "cont" /\ f.data = data[1]
      BY <1>2, <2>1 DEF PartOf, NoPart
    <3>2. Append(<<>>, data[1]) = SubSeq(data, 1, 1)
      BY <1>2, <2>1
    <3> QED BY <2>1, <3>1, <3>2 DEF Assembled
  <2>2. CASE n # 0
    <3>1. /\ PartOf(m, n) = [op |-> op, data |-> SubSeq(data, 1, n)]
          /\ f.op = "cont" /\ f.data = data[n + 1]
      BY <1>2, <2>2 DEF PartOf
    <3>2. Append(SubSeq(data, 1, n), data[n + 1]) = SubSeq(data, 1, n + 1)
      BY <1>2
    <3>3. PICK q : q = PartOf(m, n) /\ q.op = op /\ q.data = SubSeq(data, 1, n)
      BY <3>1
    <3>4. Assembled(q, f) = [op |-> q.op, data |-> Append(q.data, f.data)]
      BY <3>1 DEF Assembled
    <3> QED BY <3>1, <3>2, <3>3, <3>4
  <2> QED BY <2>1, <2>2
<1>4. PartOf(m, n + 1) = [op |-> op, data |-> SubSeq(data, 1, n + 1)]
  BY <1>2 DEF PartOf
<1>5. f.fin => SubSeq(data, 1, n + 1) = data
  BY <1>2, SubSeqFull
<1> QED BY <1>1, <1>3, <1>4, <1>5

(* Of a script p frames were received, in them c messages and n fragments of *)
(* the next one. *)
After(sent, rest, got, open, p, c, n) ==
    /\ rest \in Seq(ClientFrames) /\ p \in Nat
    /\ \A i \in 1 .. Len(rest) : rest[i] = sent.frames[p + i]
    /\ got \in Seq(ClientMessages) /\ Len(got) = c /\ c =< Len(sent.messages)
    /\ \A i \in 1 .. c : got[i] = sent.messages[i]
    /\ n > 0 => c < Len(sent.messages)
    /\ open = PartOf(sent.messages[c + 1], n)

Received(sent, rest, got, open) ==
    LET p == Len(sent.frames) - Len(rest)
    IN  After(sent, rest, got, open, p, Complete(sent.frames, p), Begun(sent.frames, p))

(* The invariant of what the sessions receive. *)
Receiving ==
    /\ script \in {w.script : w \in Worlds}
    /\ DOMAIN inbox = Sessions /\ DOMAIN handled = Sessions /\ DOMAIN part = Sessions
    /\ \A s \in Sessions : Received(script[s], inbox[s], handled[s], part[s])

(* Nothing is received at first. *)
LEMMA ReceivingInit == Init => Receiving
<1> SUFFICES ASSUME Init PROVE Receiving
  OBVIOUS
<1>1. PICK w \in Worlds : script = w.script
  BY DEF Init
<1>2. ASSUME NEW s \in Sessions PROVE Received(script[s], inbox[s], handled[s], part[s])
  <2>1. PICK sent \in Scripts : sent = script[s]
    BY <1>1, WsConfig
  <2>2. inbox[s] = sent.frames /\ handled[s] = <<>> /\ part[s] = NoPart
    BY <2>1 DEF Init
  <2>3. PICK frames \in Seq(ClientFrames) : frames = sent.frames /\ Len(frames) \in Nat
    BY DEF Scripts
  <2>4. Len(frames) - Len(frames) = 0 /\ \A i \in Nat : 0 + i = i
    BY <2>3
  <2>5. Complete(frames, 0) = 0 /\ Begun(frames, 0) = 0
    BY CountNone
  <2>6. Len(sent.messages) \in Nat
    BY DEF Scripts
  <2>7. <<>> \in Seq(ClientMessages) /\ Len(<<>>) = 0
    OBVIOUS
  <2>8. PartOf(sent.messages[0 + 1], 0) = NoPart
    BY DEF PartOf
  <2>9. Received(sent, frames, <<>>, NoPart)
    BY <2>3, <2>4, <2>5, <2>6, <2>7, <2>8 DEF Received, After
  <2> QED BY <2>1, <2>2, <2>3, <2>9
<1>3. script \in {v.script : v \in Worlds}
  BY <1>1
<1>4. DOMAIN inbox = Sessions /\ DOMAIN handled = Sessions /\ DOMAIN part = Sessions
  BY DEF Init
<1> QED BY <1>2, <1>3, <1>4 DEF Receiving

(* One frame is taken from what is still to come. *)
LEMMA FrameReceived ==
  ASSUME NEW sent \in Scripts, Carries(sent.frames, sent.messages),
         NEW rest, NEW got, NEW open, Received(sent, rest, got, open), rest # <<>>
  PROVE  LET f == Head(rest)
             m == Assembled(open, f)
         IN  /\ IsControl(f) => Received(sent, Tail(rest), got, open)
             /\ IsData(f) /\ ~f.fin => Received(sent, Tail(rest), got, m)
             /\ IsData(f) /\ f.fin => Received(sent, Tail(rest), Append(got, m), NoPart)
<1>1. PICK frames \in Seq(ClientFrames), messages \in Seq(ClientMessages) :
         frames = sent.frames /\ messages = sent.messages
  BY DEF Scripts
<1>2. PICK p : p = Len(frames) - Len(rest)
  OBVIOUS
<1>3. PICK c, n : c = Complete(frames, p) /\ n = Begun(frames, p)
  OBVIOUS
<1>4. /\ rest \in Seq(ClientFrames) /\ p \in Nat
      /\ \A i \in 1 .. Len(rest) : rest[i] = frames[p + i]
      /\ got \in Seq(ClientMessages) /\ Len(got) = c /\ c =< Len(messages)
      /\ \A i \in 1 .. c : got[i] = messages[i]
      /\ n > 0 => c < Len(messages)
      /\ open = PartOf(messages[c + 1], n)
  BY <1>1, <1>2, <1>3 DEF Received, After
<1>5. PICK f : f = Head(rest)
  OBVIOUS
<1>6. PICK tail \in Seq(ClientFrames) :
         tail = Tail(rest) /\ Len(tail) = Len(rest) - 1 /\ f = rest[1]
         /\ \A i \in 1 .. Len(tail) : tail[i] = rest[i + 1]
  <2>1. PICK r \in Seq(ClientFrames) : r = rest /\ r # <<>>
    BY <1>4
  <2>2. /\ Head(r) = r[1] /\ Tail(r) \in Seq(ClientFrames) /\ Len(Tail(r)) = Len(r) - 1
        /\ \A i \in 1 .. Len(Tail(r)) : Tail(r)[i] = r[i + 1]
    BY <2>1, HeadTailProperties
  <2> QED BY <1>5, <2>1, <2>2
<1>7. /\ Len(rest) \in Nat /\ Len(rest) >= 1 /\ Len(frames) - Len(tail) = p + 1
      /\ p + 1 \in 1 .. Len(frames) /\ f = frames[p + 1] /\ (p + 1) - 1 = p
  <2>1. Len(rest) \in Nat /\ Len(rest) >= 1 /\ Len(frames) \in Nat
    BY <1>4
  <2>2. p + 1 \in 1 .. Len(frames) /\ Len(frames) - Len(tail) = p + 1 /\ 1 \in 1 .. Len(rest)
    BY <1>2, <1>4, <1>6, <2>1
  <2> QED BY <1>4, <1>6, <2>1, <2>2
<1>8. \A i \in 1 .. Len(tail) : tail[i] = frames[(p + 1) + i]
  <2> SUFFICES ASSUME NEW i \in 1 .. Len(tail) PROVE tail[i] = frames[(p + 1) + i]
    OBVIOUS
  <2>1. i + 1 \in 1 .. Len(rest) /\ p + (i + 1) = (p + 1) + i
    BY <1>4, <1>6, <1>7
  <2> QED BY <1>4, <1>6, <2>1
<1>9. /\ c \in Nat /\ n \in Nat
      /\ Complete(frames, p + 1) = IF IsData(f) /\ f.fin THEN c + 1 ELSE c
      /\ Begun(frames, p + 1) = IF ~IsData(f) THEN n ELSE IF f.fin THEN 0 ELSE n + 1
  BY <1>3, <1>4, <1>7, CountStep
<1>10. ASSUME IsData(f)
       PROVE  /\ c < Len(messages) /\ messages[c + 1] \in ClientMessages
              /\ n + 1 =< Len(messages[c + 1].data)
              /\ f = [op   |-> IF n + 1 = 1 THEN messages[c + 1].op ELSE "cont",
                      data |-> messages[c + 1].data[n + 1],
                      fin  |-> n + 1 = Len(messages[c + 1].data)]
  <2>1. p + 1 \in DOMAIN frames
    BY <1>7
  <2>2. c < Len(messages)
    BY <1>1, <1>3, <1>7, <1>10, <2>1 DEF Carries
  <2>3. messages[c + 1] \in ClientMessages
    BY <1>9, <2>2
  <2>4. n + 1 =< Len(messages[c + 1].data)
    BY <1>1, <1>3, <1>7, <1>10, <2>1 DEF Carries
  <2>5. f = [op   |-> IF n + 1 = 1 THEN messages[c + 1].op ELSE "cont",
             data |-> messages[c + 1].data[n + 1],
             fin  |-> n + 1 = Len(messages[c + 1].data)]
    BY <1>1, <1>3, <1>7, <1>10, <2>1 DEF Carries
  <2> QED BY <2>2, <2>3, <2>4, <2>5
<1>11. CASE IsControl(f)
  <2>1. ~IsData(f)
    BY <1>11 DEF IsData
  <2>2. After(sent, tail, got, open, p + 1, c, n)
    BY <1>1, <1>4, <1>7, <1>8 DEF After
  <2>3. Received(sent, tail, got, open)
    BY <1>1, <1>7, <1>9, <2>1, <2>2 DEF Received
  <2> QED BY <1>5, <1>6, <2>1, <2>3
<1>12. CASE IsData(f) /\ ~f.fin
  <2>1. Assembled(open, f) = PartOf(messages[c + 1], n + 1)
    BY <1>4, <1>9, <1>10, <1>12, AssembledPart
  <2>2. After(sent, tail, got, PartOf(messages[c + 1], n + 1), p + 1, c, n + 1)
    BY <1>1, <1>4, <1>7, <1>8, <1>9, <1>10, <1>12 DEF After
  <2>3. Received(sent, tail, got, Assembled(open, f))
    BY <1>1, <1>7, <1>9, <1>12, <2>1, <2>2 DEF Received
  <2> QED BY <1>5, <1>6, <1>12, <2>3 DEF IsData
<1>13. CASE IsData(f) /\ f.fin
  <2>1. Assembled(open, f) = messages[c + 1]
    BY <1>4, <1>9, <1>10, <1>13, AssembledPart
  <2>2. PICK more : more = Append(got, messages[c + 1])
    OBVIOUS
  <2>3. /\ more \in Seq(ClientMessages) /\ Len(more) = c + 1 /\ c + 1 =< Len(messages)
        /\ \A i \in 1 .. c + 1 : more[i] = messages[i]
    <3>1. PICK g \in Seq(ClientMessages), m \in ClientMessages :
                 g = got /\ m = messages[c + 1] /\ Len(g) = c
      BY <1>4, <1>10, <1>13
    <3>2. /\ Append(g, m) \in Seq(ClientMessages) /\ Len(Append(g, m)) = Len(g) + 1
          /\ \A i \in 1 .. Len(g) : Append(g, m)[i] = g[i]
          /\ Append(g, m)[Len(g) + 1] = m
      BY AppendProperties
    <3>3. c + 1 =< Len(messages) /\ \A i \in 1 .. c + 1 : i \in 1 .. c \/ i = c + 1
      BY <1>9, <1>10, <1>13
    <3> QED BY <1>4, <2>2, <3>1, <3>2, <3>3
  <2>4. NoPart = PartOf(messages[(c + 1) + 1], 0)
    BY DEF PartOf
  <2>5. After(sent, tail, more, NoPart, p + 1, c + 1, 0)
    BY <1>1, <1>4, <1>7, <1>8, <2>3, <2>4 DEF After
  <2>6. Received(sent, tail, more, NoPart)
    BY <1>1, <1>7, <1>9, <1>13, <2>5 DEF Received
  <2> QED BY <1>5, <1>6, <1>13, <2>1, <2>2, <2>6 DEF IsData
<1>14. CASE ~IsControl(f) /\ ~IsData(f)
  BY <1>5, <1>14
<1> QED BY <1>11, <1>12, <1>13, <1>14

(* Every step keeps it. *)
LEMMA ReceivingStep == Receiving /\ [Next]_vars => Receiving'
<1> SUFFICES ASSUME Receiving, [Next]_vars PROVE Receiving'
  OBVIOUS
<1>0. /\ \A s \in Sessions : Serve(s) => UNCHANGED <<script, inbox, handled, part>>
      /\ \A s \in Sessions : WaitTimesOut(s) => UNCHANGED <<script, inbox, handled, part>>
      /\ \A s \in Sessions : ClientGoes(s) => UNCHANGED <<script, inbox, handled, part>>
      /\ \A s \in Sessions : RecvEnd(s) => UNCHANGED <<script, inbox, handled, part>>
      /\ \A s \in Sessions : RecvControl(s) \/ RecvFragment(s) \/ RecvMessage(s)
                              => UNCHANGED script
      /\ \A k \in DOMAIN store : Expire(k) => UNCHANGED <<script, inbox, handled, part>>
      /\ Clear \/ UNCHANGED vars => UNCHANGED <<script, inbox, handled, part>>
  <2>1. ASSUME NEW s \in Sessions, Serve(s) PROVE UNCHANGED <<script, inbox, handled, part>>
    BY <2>1 DEF Serve, Hit, Replayed, Miss, Begin, Woken, MissAgain, FetchFails, FetchStreams,
                ReadChunk, EmitBlock, StreamEnds, Put, EndSet, EndPop, given
  <2>2. ASSUME NEW s \in Sessions, WaitTimesOut(s) \/ ClientGoes(s) \/ RecvEnd(s)
        PROVE  UNCHANGED <<script, inbox, handled, part>>
    BY <2>2 DEF WaitTimesOut, ClientGoes, RecvEnd, given
  <2>3. ASSUME NEW s \in Sessions, RecvControl(s) \/ RecvFragment(s) \/ RecvMessage(s)
        PROVE  UNCHANGED script
    BY <2>3 DEF RecvControl, RecvFragment, RecvMessage, given
  <2>4. ASSUME NEW k \in DOMAIN store, Expire(k)
        PROVE  UNCHANGED <<script, inbox, handled, part>>
    BY <2>4 DEF Expire, given
  <2>5. Clear \/ UNCHANGED vars => UNCHANGED <<script, inbox, handled, part>>
    BY DEF Clear, vars, given
  <2> QED BY <2>1, <2>2, <2>3, <2>4, <2>5
<1>1. UNCHANGED script
  BY <1>0 DEF Next, Recv
<1>2. CASE UNCHANGED <<inbox, handled, part>>
  BY <1>1, <1>2 DEF Receiving
<1>3. CASE \E s \in Sessions : RecvControl(s) \/ RecvFragment(s) \/ RecvMessage(s)
  <2>1. PICK s \in Sessions : RecvControl(s) \/ RecvFragment(s) \/ RecvMessage(s)
    BY <1>3
  <2>2. PICK sent \in Scripts : sent = script[s] /\ Carries(sent.frames, sent.messages)
    BY WsConfig DEF Receiving
  <2>3. PICK rest, got, open : /\ rest = inbox[s] /\ got = handled[s] /\ open = part[s]
                               /\ Received(sent, rest, got, open) /\ rest # <<>>
    BY <2>1, <2>2 DEF Receiving, RecvControl, RecvFragment, RecvMessage
  <2>4. /\ IsControl(Head(rest)) => Received(sent, Tail(rest), got, open)
        /\ IsData(Head(rest)) /\ ~Head(rest).fin
              => Received(sent, Tail(rest), got, Assembled(open, Head(rest)))
        /\ IsData(Head(rest)) /\ Head(rest).fin
              => Received(sent, Tail(rest), Append(got, Assembled(open, Head(rest))), NoPart)
    BY <2>2, <2>3, FrameReceived
  <2>5. /\ DOMAIN inbox = Sessions /\ DOMAIN handled = Sessions /\ DOMAIN part = Sessions
        /\ \A u \in Sessions : Received(script[u], inbox[u], handled[u], part[u])
        /\ script \in {w.script : w \in Worlds}
    BY DEF Receiving
  <2>6. /\ DOMAIN inbox' = Sessions /\ DOMAIN handled' = Sessions /\ DOMAIN part' = Sessions
        /\ \A u \in Sessions \ {s} : /\ inbox'[u] = inbox[u] /\ handled'[u] = handled[u]
                                     /\ part'[u] = part[u]
    BY <2>1, <2>5 DEF RecvControl, RecvFragment, RecvMessage
  <2>7. Received(sent, inbox'[s], handled'[s], part'[s])
    <3>1. CASE RecvControl(s)
      BY <2>3, <2>4, <2>5, <3>1 DEF RecvControl
    <3>2. CASE RecvFragment(s)
      BY <2>3, <2>4, <2>5, <3>2 DEF RecvFragment
    <3>3. CASE RecvMessage(s)
      BY <2>3, <2>4, <2>5, <3>3 DEF RecvMessage
    <3> QED BY <2>1, <3>1, <3>2, <3>3
  <2> QED BY <1>1, <2>2, <2>5, <2>6, <2>7 DEF Receiving
<1>4. (\E s \in Sessions : RecvControl(s) \/ RecvFragment(s) \/ RecvMessage(s))
      \/ UNCHANGED <<inbox, handled, part>>
  BY <1>0 DEF Next, Recv
<1> QED BY <1>2, <1>3, <1>4

(* What was received is a beginning of what the client sent. *)
THEOREM WholeMessages == Spec => []MessagesArriveWhole
<1>1. Receiving => MessagesArriveWhole
  <2> SUFFICES ASSUME Receiving, NEW s \in Sessions PROVE IsPrefix(handled[s], script[s].messages)
    BY DEF MessagesArriveWhole
  <2>1. PICK sent \in Scripts : sent = script[s]
    BY WsConfig DEF Receiving
  <2>2. PICK messages \in Seq(ClientMessages) : messages = sent.messages
    BY DEF Scripts
  <2>3. PICK got \in Seq(ClientMessages) :
           /\ got = handled[s] /\ Len(got) =< Len(messages)
           /\ \A i \in 1 .. Len(got) : got[i] = messages[i]
    BY <2>1, <2>2 DEF Receiving, Received, After
  <2>4. IsPrefix(got, messages)
    BY <2>3, PrefixIs
  <2> QED BY <2>1, <2>2, <2>3, <2>4
<1> QED BY <1>1, ReceivingInit, ReceivingStep, PTL DEF Spec
=============================================================================
