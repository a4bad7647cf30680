-------------------------- MODULE FrameStream_proofs --------------------------
(***************************************************************************)
(* Proofs about FrameStream, for any messages, pieces and cuts: what recv  *)
(* returns is what a reader of the whole stream would find, and what the   *)
(* peer sent.                                                              *)
(***************************************************************************)
EXTENDS FrameStream, FrameCodec_proofs, WellFoundedInduction

\* Induction over the numbers, with a set in the place of the predicate.
LEMMA NatInductionSet ==
    ASSUME NEW S, 0 \in S, \A n \in Nat : n \in S => n + 1 \in S
    PROVE  Nat \subseteq S
<1> DEFINE T == Nat \ S
           R == {pair \in Nat \X Nat : pair[1] < pair[2]}
<1>1. IsWellFoundedOn(R, Nat)
  <2>1. OpToRel(<, Nat) = R
    BY DEF OpToRel
  <2> QED
    BY <2>1, NatLessThanWellFounded, Zenon
<1>2. SUFFICES ASSUME T # {} PROVE FALSE
  OBVIOUS
<1>3. T \subseteq Nat
  OBVIOUS
<1>4. PICK x \in T : \A y \in T : <<y, x>> \notin R
  <2> HIDE DEF R, T
  <2> QED
    BY <1>1, <1>2, <1>3, WFMin
<1>5. x \in Nat /\ x - 1 \in Nat /\ <<x - 1, x>> \in R
  OBVIOUS
<1>6. x - 1 \in S
  BY <1>4, <1>5
<1> QED
  BY <1>5, <1>6

\* The same up to a bound.
LEMMA BoundedInductionSet ==
    ASSUME NEW n \in Nat, NEW S, 0 \in S, \A i \in 0 .. n - 1 : i \in S => i + 1 \in S
    PROVE  0 .. n \subseteq S
<1> DEFINE T == {i \in Nat : i <= n => i \in S}
<1>1. 0 \in T /\ \A i \in Nat : i \in T => i + 1 \in T
  OBVIOUS
<1>2. Nat \subseteq T
  <2> HIDE DEF T
  <2> QED
    BY <1>1, NatInductionSet
<1> QED
  BY <1>2

-----------------------------------------------------------------------------
(***************************************************************************)
(* The stream as a whole.  FlattenSeq is defined by recursion over the     *)
(* pieces; what is needed of it is that it takes them one after the other. *)
(***************************************************************************)

FlattenStep(f, w, i) == IF i = 1 THEN w[i] ELSE f[i-1] \o w[i]

IsFlattening(f, w, n) == f = [i \in 1 .. n |-> FlattenStep(f, w, i)]

Flattening(w) == CHOOSE f : IsFlattening(f, w, Len(w))

\* The recursion is well-founded: there is such a function.
LEMMA FlatteningExists ==
    ASSUME NEW w, Len(w) \in Nat
    PROVE  IsFlattening(Flattening(w), w, Len(w))
<1> DEFINE S == {n \in Nat : \E f : IsFlattening(f, w, n)}
<1>1. 0 \in S
  <2>1. IsFlattening(<<>>, w, 0)
    BY DEF IsFlattening
  <2> QED
    BY <2>1
<1>2. ASSUME NEW n \in Nat, n \in S PROVE n + 1 \in S
  <2>1. PICK f : IsFlattening(f, w, n)
    BY <1>2
  <2> DEFINE g == [i \in 1 .. n + 1 |-> IF i <= n THEN f[i] ELSE FlattenStep(f, w, i)]
  <2>2. ASSUME NEW i \in 1 .. n + 1 PROVE g[i] = FlattenStep(g, w, i)
    <3>1. FlattenStep(f, w, i) = FlattenStep(g, w, i)
      BY DEF FlattenStep
    <3>2. i <= n => f[i] = FlattenStep(f, w, i)
      BY <2>1 DEF IsFlattening
    <3> QED
      BY <3>1, <3>2
  <2>3. IsFlattening(g, w, n + 1)
    <3>1. g = [i \in 1 .. n + 1 |-> g[i]]
      OBVIOUS
    <3> HIDE DEF g
    <3> QED
      BY <2>2, <3>1 DEF IsFlattening
  <2> QED
    BY <2>3
<1>3. Nat \subseteq S
  <2> HIDE DEF S
  <2> QED
    BY <1>1, <1>2, NatInductionSet
<1>4. \E f : IsFlattening(f, w, Len(w))
  BY <1>3
<1> QED
  BY <1>4 DEF Flattening

\* FlattenSeq takes the pieces one after the other.
LEMMA FlattenByPieces ==
    ASSUME NEW w \in Seq(Cells)
    PROVE  /\ w = <<>> => FlattenSeq(w) = <<>>
           /\ w # <<>> => FlattenSeq(w) = Flattening(w)[Len(w)]
           /\ \A i \in 1 .. Len(w) :
                 /\ Flattening(w)[i] \in Cells
                 /\ Flattening(w)[i] = FlattenStep(Flattening(w), w, i)
<1>1. Len(w) \in Nat /\ \A i \in 1 .. Len(w) : w[i] \in Cells
  BY ElementOfSeq
<1>2. IsFlattening(Flattening(w), w, Len(w))
  BY <1>1, FlatteningExists
<1>3. \A i \in 1 .. Len(w) : Flattening(w)[i] = FlattenStep(Flattening(w), w, i)
  BY <1>2 DEF IsFlattening
<1>4. ASSUME w # <<>> PROVE FlattenSeq(w) = Flattening(w)[Len(w)]
  <2>1. Len(w) # 0
    BY <1>4, EmptySeq
  <2> QED
    BY <2>1 DEF FlattenSeq, Flattening, IsFlattening, FlattenStep
<1>5. w = <<>> => FlattenSeq(w) = <<>>
  BY DEF FlattenSeq
<1>6. \A i \in 1 .. Len(w) : Flattening(w)[i] \in Cells
  <2> DEFINE S == {i \in 0 .. Len(w) : i > 0 => Flattening(w)[i] \in Cells}
  <2>1. 0 \in S
    BY <1>1
  <2>2. ASSUME NEW i \in 0 .. Len(w) - 1, i \in S PROVE i + 1 \in S
    <3>1. i + 1 \in 1 .. Len(w) /\ (i + 1) - 1 = i
      BY <1>1
    <3>2. w[i + 1] \in Cells /\ Flattening(w)[i + 1] = FlattenStep(Flattening(w), w, i + 1)
      BY <1>1, <1>3, <3>1
    <3>3. Flattening(w)[i + 1] \in Cells
      <4>1. CASE i = 0
        <5>1. i + 1 = 1
          BY <4>1
        <5>2. FlattenStep(Flattening(w), w, i + 1) = w[i + 1]
          BY <5>1 DEF FlattenStep
        <5> QED
          BY <3>2, <5>2
      <4>2. CASE i > 0
        <5>1. Flattening(w)[i] \in Cells
          BY <2>2, <4>2
        <5>2. i + 1 # 1
          BY <4>2
        <5>3. Flattening(w)[i + 1] = Flattening(w)[i] \o w[i + 1]
          BY <3>1, <3>2, <5>2, Zenon DEF FlattenStep
        <5> QED
          BY <3>2, <5>1, <5>3, ConcatProperties DEF Cells
      <4> QED
        BY <4>1, <4>2
    <3> QED
      BY <3>1, <3>3
  <2>3. 0 .. Len(w) \subseteq S
    <3> HIDE DEF S
    <3> QED
      BY <1>1, <2>1, <2>2, BoundedInductionSet
  <2> QED
    BY <1>1, <2>3
<1> QED
  BY <1>3, <1>4, <1>5, <1>6

\* The pieces written so far are the beginning of the stream.
LEMMA FlattenType ==
    ASSUME NEW w \in Seq(Cells)
    PROVE  FlattenSeq(w) \in Cells
<1>1. Len(w) \in Nat /\ (w # <<>> => Len(w) \in 1 .. Len(w)) /\ <<>> \in Cells
  BY EmptySeq DEF Cells
<1> QED
  BY <1>1, FlattenByPieces

LEMMA FlattenAppend ==
    ASSUME NEW w \in Seq(Cells), NEW q \in Cells
    PROVE  FlattenSeq(Append(w, q)) = FlattenSeq(w) \o q
<1> DEFINE v == Append(w, q)
<1>1. /\ Len(w) \in Nat /\ v \in Seq(Cells) /\ Len(v) = Len(w) + 1 /\ v # <<>>
      /\ \A i \in 1 .. Len(w) : v[i] = w[i]
      /\ v[Len(w) + 1] = q
  BY AppendProperties
<1> HIDE DEF v
<1>2. /\ \A i \in 1 .. Len(v) : Flattening(v)[i] = FlattenStep(Flattening(v), v, i)
      /\ \A i \in 1 .. Len(w) : Flattening(w)[i] = FlattenStep(Flattening(w), w, i)
      /\ FlattenSeq(v) = Flattening(v)[Len(v)]
  BY <1>1, FlattenByPieces
<1>3. \A i \in 1 .. Len(w) : Flattening(v)[i] = Flattening(w)[i]
  <2> DEFINE S == {i \in 0 .. Len(w) : i > 0 => Flattening(v)[i] = Flattening(w)[i]}
  <2>1. 0 \in S
    BY <1>1
  <2>2. ASSUME NEW i \in 0 .. Len(w) - 1, i \in S PROVE i + 1 \in S
    <3>1. i + 1 \in 1 .. Len(w) /\ i + 1 \in 1 .. Len(v) /\ (i + 1) - 1 = i
      BY <1>1
    <3>2. /\ Flattening(v)[i + 1] = FlattenStep(Flattening(v), v, i + 1)
          /\ Flattening(w)[i + 1] = FlattenStep(Flattening(w), w, i + 1)
          /\ v[i + 1] = w[i + 1]
      BY <1>1, <1>2, <3>1
    <3>3. i > 0 => Flattening(v)[i] = Flattening(w)[i]
      BY <2>2
    <3>4. Flattening(v)[i + 1] = Flattening(w)[i + 1]
      BY <3>1, <3>2, <3>3 DEF FlattenStep
    <3> QED
      BY <3>1, <3>4
  <2>3. 0 .. Len(w) \subseteq S
    <3> HIDE DEF S
    <3> QED
      BY <1>1, <2>1, <2>2, BoundedInductionSet
  <2> QED
    BY <1>1, <2>3
<1>4. Flattening(v)[Len(v)] = FlattenStep(Flattening(v), v, Len(v)) /\ v[Len(v)] = q
  BY <1>1, <1>2
<1>5. CASE w = <<>>
  <2>1. Len(v) = 1
    BY <1>1, <1>5, EmptySeq
  <2>2. FlattenSeq(v) = q
    BY <1>2, <1>4, <2>1 DEF FlattenStep
  <2>3. FlattenSeq(w) = <<>> /\ <<>> \o q = q
    BY <1>5, FlattenByPieces, ConcatEmptySeq DEF Cells
  <2> QED
    BY <2>2, <2>3 DEF v
<1>6. CASE w # <<>>
  <2>1. Len(w) \in 1 .. Len(w) /\ Len(v) # 1 /\ Len(v) - 1 = Len(w)
    BY <1>1, <1>6, EmptySeq
  <2>2. Flattening(v)[Len(v)] = Flattening(v)[Len(w)] \o q
    BY <1>4, <2>1 DEF FlattenStep
  <2>3. Flattening(v)[Len(w)] = FlattenSeq(w)
    BY <1>3, <1>6, <2>1, FlattenByPieces
  <2> QED
    BY <1>2, <2>2, <2>3 DEF v
<1> QED
  BY <1>5, <1>6

LEMMA CellsAssociate ==
    ASSUME NEW a \in Cells, NEW b \in Cells, NEW c \in Cells
    PROVE  (a \o b) \o c = a \o (b \o c)
BY DEF Cells

LEMMA MessagesAssociate ==
    ASSUME NEW a \in Seq(Messages), NEW b \in Seq(Messages), NEW c \in Seq(Messages)
    PROVE  (a \o b) \o c = a \o (b \o c)
OBVIOUS

\* What has been written up to and with the i-th piece.
Upto(w, i) == IF i = 0 THEN <<>> ELSE Flattening(w)[i]

LEMMA UptoByPieces ==
    ASSUME NEW w \in Seq(Cells)
    PROVE  /\ FlattenSeq(w) = Upto(w, Len(w))
           /\ Upto(w, 0) = <<>>
           /\ \A i \in 0 .. Len(w) : Upto(w, i) \in Cells
           /\ \A i \in 1 .. Len(w) : Upto(w, i) = Upto(w, i - 1) \o w[i]
<1>1. Len(w) \in Nat /\ (Len(w) = 0 <=> w = <<>>) /\ <<>> \in Cells
  BY EmptySeq DEF Cells
<1>2. FlattenSeq(w) = Upto(w, Len(w))
  BY <1>1, FlattenByPieces DEF Upto
<1>3. \A i \in 0 .. Len(w) : Upto(w, i) \in Cells
  BY <1>1, FlattenByPieces DEF Upto
<1>4. ASSUME NEW i \in 1 .. Len(w) PROVE Upto(w, i) = Upto(w, i - 1) \o w[i]
  <2>1. Flattening(w)[i] = FlattenStep(Flattening(w), w, i)
    BY FlattenByPieces
  <2>2. CASE i = 1
    <3>1. w[i] \in Cells
      BY ElementOfSeq
    <3>2. <<>> \o w[i] = w[i]
      BY <3>1, ConcatEmptySeq DEF Cells
    <3>3. Upto(w, i) = w[i] /\ Upto(w, i - 1) = <<>>
      BY <2>1, <2>2 DEF Upto, FlattenStep
    <3> QED
      BY <3>2, <3>3
  <2>3. CASE i # 1
    <3>1. i # 0 /\ i - 1 # 0
      BY <2>3
    <3> QED
      BY <2>1, <2>3, <3>1, Zenon DEF Upto, FlattenStep
  <2> QED
    BY <2>2, <2>3
<1> QED
  BY <1>2, <1>3, <1>4 DEF Upto

\* What has been written up to a piece is the beginning of the stream.
LEMMA UptoIsBeginning ==
    ASSUME NEW w \in Seq(Cells), NEW i \in 0 .. Len(w)
    PROVE  \E rest \in Cells : FlattenSeq(w) = Upto(w, i) \o rest
<1> DEFINE S == {k \in 0 .. Len(w) - i : \E rest \in Cells : Upto(w, i + k) = Upto(w, i) \o rest}
<1>1. Len(w) \in Nat /\ Len(w) - i \in Nat
  BY LenProperties
<1>2. 0 \in S
  <2>1. <<>> \in Cells /\ Upto(w, i) \o <<>> = Upto(w, i)
    BY UptoByPieces, EmptySeq, ConcatEmptySeq DEF Cells
  <2>2. Upto(w, i + 0) = Upto(w, i) \o <<>>
    <3>1. i + 0 = i
      OBVIOUS
    <3> QED
      BY <2>1, <3>1
  <2>3. \E rest \in Cells : Upto(w, i + 0) = Upto(w, i) \o rest
    BY <2>1, <2>2, Zenon
  <2>4. 0 \in 0 .. Len(w) - i
    BY <1>1
  <2> QED
    BY <2>3, <2>4
<1>3. ASSUME NEW k \in 0 .. (Len(w) - i) - 1, k \in S PROVE k + 1 \in S
  <2>1. PICK rest \in Cells : Upto(w, i + k) = Upto(w, i) \o rest
    BY <1>3
  <2>2. i + k + 1 \in 1 .. Len(w) /\ (i + k + 1) - 1 = i + k /\ i + (k + 1) = i + k + 1
    BY <1>1
  <2>3. w[i + k + 1] \in Cells /\ Upto(w, i) \in Cells
    BY <2>2, ElementOfSeq, UptoByPieces
  <2>4. Upto(w, i + k + 1) = Upto(w, i + k) \o w[i + k + 1]
    BY <2>2, UptoByPieces
  <2>5. Upto(w, i + k + 1) = Upto(w, i) \o (rest \o w[i + k + 1])
    <3>1. (Upto(w, i) \o rest) \o w[i + k + 1] = Upto(w, i) \o (rest \o w[i + k + 1])
      BY <2>3, CellsAssociate, Zenon
    <3> QED
      BY <2>1, <2>4, <3>1
  <2>6. rest \o w[i + k + 1] \in Cells
    BY <2>3, ConcatProperties DEF Cells
  <2>7. Upto(w, i + (k + 1)) = Upto(w, i) \o (rest \o w[i + k + 1])
    BY <2>2, <2>5
  <2>8. k + 1 \in 0 .. Len(w) - i
    BY <1>1
  <2> QED
    BY <2>6, <2>7, <2>8
<1>4. Len(w) - i \in S
  <2> HIDE DEF S
  <2>1. 0 .. Len(w) - i \subseteq S
    BY <1>1, <1>2, <1>3, BoundedInductionSet
  <2> QED
    BY <1>1, <2>1
<1>5. \E rest \in Cells : Upto(w, i + (Len(w) - i)) = Upto(w, i) \o rest
  BY <1>4
<1>6. i + (Len(w) - i) = Len(w)
  BY <1>1
<1> QED
  BY <1>5, <1>6, UptoByPieces

-----------------------------------------------------------------------------
(***************************************************************************)
(* What comes after the first n cells.                                     *)
(***************************************************************************)

After(s, n) == SubSeq(s, n + 1, Len(s))

LEMMA AfterProperties ==
    ASSUME NEW s \in Cells, NEW n \in 0 .. Len(s)
    PROVE  /\ After(s, n) \in Cells
           /\ Len(After(s, n)) = Len(s) - n
           /\ \A i \in 1 .. Len(s) - n : After(s, n)[i] = s[n + i]
<1>1. Len(s) \in Nat /\ \A i \in n + 1 .. Len(s) : s[i] \in Nat
  BY DEF Cells
<1>2. /\ SubSeq(s, n + 1, Len(s)) \in Seq(Nat)
      /\ Len(SubSeq(s, n + 1, Len(s))) = IF n + 1 <= Len(s) THEN Len(s) - (n + 1) + 1 ELSE 0
      /\ \A i \in 1 .. Len(s) - (n + 1) + 1 : SubSeq(s, n + 1, Len(s))[i] = s[(n + 1) + i - 1]
  BY <1>1, SubSeqProperties
<1>3. Len(s) - (n + 1) + 1 = Len(s) - n /\ (~(n + 1 <= Len(s)) => Len(s) - n = 0)
  BY <1>1
<1>4. ASSUME NEW i \in 1 .. Len(s) - n PROVE After(s, n)[i] = s[n + i]
  <2>1. (n + 1) + i - 1 = n + i
    BY <1>1
  <2> QED
    BY <1>2, <1>3, <2>1 DEF After
<1> QED
  BY <1>2, <1>3, <1>4 DEF After, Cells

LEMMA AfterNone ==
    ASSUME NEW s \in Cells
    PROVE  After(s, 0) = s
BY SubSeqFull DEF After, Cells

LEMMA AfterAll ==
    ASSUME NEW s \in Cells
    PROVE  After(s, Len(s)) = <<>>
<1>1. Len(s) \in Nat
  BY DEF Cells
<1> QED
  BY <1>1, SubSeqEmpty DEF After

LEMMA AfterBeginning ==
    ASSUME NEW s \in Cells, NEW t \in Cells
    PROVE  After(s \o t, Len(s)) = t
<1>1. /\ s \o t \in Cells /\ Len(s) \in Nat /\ Len(t) \in Nat
      /\ Len(s \o t) = Len(s) + Len(t) /\ Len(s) \in 0 .. Len(s \o t)
      /\ \A i \in 1 .. Len(s) + Len(t) : (s \o t)[i] = IF i <= Len(s) THEN s[i] ELSE t[i - Len(s)]
  BY ConcatProperties DEF Cells
<1>2. /\ After(s \o t, Len(s)) \in Cells
      /\ Len(After(s \o t, Len(s))) = Len(s \o t) - Len(s)
      /\ \A i \in 1 .. Len(s \o t) - Len(s) : After(s \o t, Len(s))[i] = (s \o t)[Len(s) + i]
  BY <1>1, AfterProperties
<1>3. ASSUME NEW i \in 1 .. Len(t) PROVE After(s \o t, Len(s))[i] = t[i]
  <2>1. /\ Len(s) + i \in 1 .. Len(s) + Len(t) /\ ~(Len(s) + i <= Len(s)) /\ Len(s) + i - Len(s) = i
        /\ i \in 1 .. Len(s \o t) - Len(s)
    BY <1>1
  <2> QED
    BY <1>1, <1>2, <2>1
<1>4. Len(After(s \o t, Len(s))) = Len(t)
  BY <1>1, <1>2
<1> QED
  BY <1>2, <1>3, <1>4, SeqEqual DEF Cells

LEMMA AfterSplits ==
    ASSUME NEW s \in Cells, NEW n \in 0 .. Len(s)
    PROVE  /\ SubSeq(s, 1, n) \in Cells /\ Len(SubSeq(s, 1, n)) = n
           /\ s = SubSeq(s, 1, n) \o After(s, n)
<1>1. Len(s) \in Nat
  BY DEF Cells
<1>2. SubSeq(s, 1, n) \o SubSeq(s, n + 1, Len(s)) = SubSeq(s, 1, Len(s))
  <2>1. 1 \in 1 .. Len(s) + 1 /\ n \in 1 - 1 .. Len(s) /\ Len(s) \in n .. Len(s) /\ s \in Seq(Nat)
    BY <1>1 DEF Cells
  <2> QED
    BY <2>1, ConcatAdjacentSubSeq
<1>3. SubSeq(s, 1, Len(s)) = s
  BY SubSeqFull DEF Cells
<1>4. SubSeq(s, 1, n) \in Cells /\ Len(SubSeq(s, 1, n)) = n
  <2>1. \A i \in 1 .. n : s[i] \in Nat
    BY <1>1 DEF Cells
  <2> QED
    BY <1>1, <2>1, SubSeqProperties DEF Cells
<1> QED
  BY <1>2, <1>3, <1>4 DEF After

\* More at the end comes after what is there.
LEMMA AfterAppended ==
    ASSUME NEW s \in Cells, NEW t \in Cells, NEW n \in 0 .. Len(s)
    PROVE  After(s \o t, n) = After(s, n) \o t
<1> DEFINE a == SubSeq(s, 1, n)
<1>1. a \in Cells /\ Len(a) = n /\ s = a \o After(s, n) /\ After(s, n) \in Cells
  BY AfterSplits, AfterProperties
<1> HIDE DEF a
<1>2. s \o t = a \o (After(s, n) \o t) /\ After(s, n) \o t \in Cells
  <2>1. (a \o After(s, n)) \o t = a \o (After(s, n) \o t)
    BY <1>1, CellsAssociate, Zenon
  <2>2. After(s, n) \o t \in Cells
    BY <1>1, ConcatProperties DEF Cells
  <2> QED
    BY <1>1, <2>1, <2>2
<1> QED
  BY <1>1, <1>2, AfterBeginning

\* One part after the other.
LEMMA AfterAfter ==
    ASSUME NEW s \in Cells, NEW n \in 0 .. Len(s), NEW k \in 0 .. Len(s) - n
    PROVE  After(After(s, n), k) = After(s, n + k)
<1> DEFINE t == After(s, n)
<1>1. Len(s) \in Nat
  BY DEF Cells
<1>2. t \in Cells /\ Len(t) = Len(s) - n /\ \A i \in 1 .. Len(s) - n : t[i] = s[n + i]
  BY AfterProperties
<1> HIDE DEF t
<1>3. /\ After(t, k) \in Cells /\ Len(After(t, k)) = Len(s) - (n + k)
      /\ \A i \in 1 .. Len(t) - k : After(t, k)[i] = t[k + i]
  <2>1. k \in 0 .. Len(t)
    BY <1>2
  <2> QED
    BY <1>1, <1>2, <2>1, AfterProperties
<1>4. /\ n + k \in 0 .. Len(s)
      /\ After(s, n + k) \in Cells /\ Len(After(s, n + k)) = Len(s) - (n + k)
      /\ \A i \in 1 .. Len(s) - (n + k) : After(s, n + k)[i] = s[n + k + i]
  <2>1. n + k \in 0 .. Len(s)
    BY <1>1
  <2> QED
    BY <2>1, AfterProperties
<1>5. ASSUME NEW i \in 1 .. Len(s) - (n + k) PROVE After(t, k)[i] = After(s, n + k)[i]
  <2>1. k + i \in 1 .. Len(s) - n /\ i \in 1 .. Len(t) - k /\ n + (k + i) = n + k + i
    BY <1>1, <1>2
  <2> QED
    BY <1>2, <1>3, <1>4, <2>1
<1>6. After(t, k) = After(s, n + k)
  BY <1>3, <1>4, <1>5, SeqEqual DEF Cells
<1> QED
  BY <1>6 DEF t

-----------------------------------------------------------------------------
(***************************************************************************)
(* The invariant.  The messages returned so far lie in the stream one      *)
(* after the other: they cut it at cut[1], cut[2], ..., and what is in the *)
(* buffer and not read yet is what comes after the last cut.               *)
(***************************************************************************)

IsCut(cut, p, s, got, left) ==
    /\ cut \in [0 .. Len(got) -> 0 .. Len(s)]
    /\ cut[0] = 0
    /\ \A i \in 1 .. Len(got) :
          /\ cut[i-1] < cut[i]
          /\ try_decode(p, After(s, cut[i-1])) = Frame(got[i], cut[i] - cut[i-1])
    /\ After(s, cut[Len(got)]) = left

StreamTypeOK ==
    /\ protocol \in Protocols
    /\ written \in Seq(Cells) /\ open \in BOOLEAN
    /\ stream \in Cells /\ read_buffer \in Cells
    /\ received \in Seq(Messages)
    /\ recv \in {"reading", "malformed", "closed"}

\* Why recv has failed is still to be seen in the buffer.
FailureStands ==
    /\ recv = "malformed" => try_decode(protocol, read_buffer) = Malformed
    /\ recv = "closed" => try_decode(protocol, read_buffer) = Incomplete /\ stream = <<>> /\ ~open

StreamInv ==
    /\ StreamTypeOK
    /\ \E cut : IsCut(cut, protocol, FlattenSeq(written), received, read_buffer \o stream)
    /\ FailureStands

\* The cuts stay where they are when more is written.
LEMMA CutOfMore ==
    ASSUME NEW p \in Protocols, NEW s \in Cells, NEW got \in Seq(Messages), NEW left, NEW cut,
           NEW q \in Cells, IsCut(cut, p, s, got, left)
    PROVE  IsCut(cut, p, s \o q, got, left \o q)
<1>1. /\ Len(s) \in Nat /\ Len(got) \in Nat /\ s \o q \in Cells
      /\ Len(s \o q) \in Nat /\ Len(s) <= Len(s \o q)
  BY ConcatProperties DEF Cells
<1>2. /\ cut \in [0 .. Len(got) -> 0 .. Len(s)] /\ cut[0] = 0
      /\ After(s, cut[Len(got)]) = left
  BY DEF IsCut
<1>3. cut \in [0 .. Len(got) -> 0 .. Len(s \o q)]
  BY <1>1, <1>2
<1>4. \A i \in 0 .. Len(got) : After(s \o q, cut[i]) = After(s, cut[i]) \o q
  BY <1>2, AfterAppended
<1>5. ASSUME NEW i \in 1 .. Len(got)
      PROVE  /\ cut[i-1] < cut[i]
             /\ try_decode(p, After(s \o q, cut[i-1])) = Frame(got[i], cut[i] - cut[i-1])
  <2>1. /\ cut[i-1] < cut[i]
        /\ try_decode(p, After(s, cut[i-1])) = Frame(got[i], cut[i] - cut[i-1])
    BY DEF IsCut
  <2>2. i - 1 \in 0 .. Len(got) /\ cut[i-1] \in 0 .. Len(s)
    BY <1>1, <1>2
  <2>3. After(s, cut[i-1]) \in Cells /\ try_decode(p, After(s, cut[i-1])) # Incomplete
    BY <2>1, <2>2, AfterProperties, Kinds
  <2>4. try_decode(p, After(s, cut[i-1]) \o q) = try_decode(p, After(s, cut[i-1]))
    BY <2>3, CutIndependence
  <2> QED
    BY <1>4, <2>1, <2>2, <2>4
<1>6. Len(got) \in 0 .. Len(got)
  BY <1>1
<1>7. After(s \o q, cut[Len(got)]) = left \o q
  BY <1>2, <1>4, <1>6
<1> QED
  BY <1>2, <1>3, <1>5, <1>7 DEF IsCut

\* The next frame adds a cut.
LEMMA CutOfNext ==
    ASSUME NEW p \in Protocols, NEW s \in Cells, NEW got \in Seq(Messages), NEW left \in Cells, NEW cut,
           IsCut(cut, p, s, got, left),
           NEW m \in Messages, NEW n \in 1 .. Len(left), try_decode(p, left) = Frame(m, n)
    PROVE  \E next : IsCut(next, p, s, Append(got, m), After(left, n))
<1> DEFINE k    == Len(got)
           next == [i \in 0 .. k + 1 |-> IF i <= k THEN cut[i] ELSE cut[k] + n]
<1>1. /\ k \in Nat /\ Len(s) \in Nat
      /\ Append(got, m) \in Seq(Messages) /\ Len(Append(got, m)) = k + 1
      /\ \A i \in 1 .. k : Append(got, m)[i] = got[i]
      /\ Append(got, m)[k + 1] = m
  BY AppendProperties DEF Cells
<1>2. /\ cut \in [0 .. k -> 0 .. Len(s)] /\ cut[0] = 0
      /\ After(s, cut[k]) = left
  BY DEF IsCut
<1>3. cut[k] \in 0 .. Len(s) /\ n \in 0 .. Len(s) - cut[k] /\ cut[k] + n \in 0 .. Len(s)
  <2>1. cut[k] \in 0 .. Len(s)
    BY <1>1, <1>2
  <2>2. Len(left) = Len(s) - cut[k]
    BY <1>2, <2>1, AfterProperties
  <2> QED
    BY <1>1, <2>1, <2>2
<1>4. /\ next \in [0 .. k + 1 -> 0 .. Len(s)] /\ next[0] = 0
      /\ \A i \in 0 .. k : next[i] = cut[i]
      /\ next[k + 1] = cut[k] + n
  <2>1. ASSUME NEW i \in 0 .. k + 1
        PROVE  (IF i <= k THEN cut[i] ELSE cut[k] + n) \in 0 .. Len(s)
    <3>1. CASE i <= k
      <4>1. i \in 0 .. k
        BY <1>1, <3>1
      <4>2. cut[i] \in 0 .. Len(s)
        BY <1>2, <4>1
      <4> QED
        BY <3>1, <4>2
    <3>2. CASE ~(i <= k)
      BY <1>3, <3>2
    <3> QED
      BY <3>1, <3>2
  <2>2. next \in [0 .. k + 1 -> 0 .. Len(s)]
    BY <2>1
  <2> QED
    BY <1>1, <1>2, <2>2
<1> HIDE DEF next
<1>5. ASSUME NEW i \in 1 .. k + 1
      PROVE  /\ next[i-1] < next[i]
             /\ try_decode(p, After(s, next[i-1])) = Frame(Append(got, m)[i], next[i] - next[i-1])
  <2>1. CASE i \in 1 .. k
    <3>1. i - 1 \in 0 .. k /\ i \in 0 .. k
      BY <1>1, <2>1
    <3>2. /\ cut[i-1] < cut[i]
          /\ try_decode(p, After(s, cut[i-1])) = Frame(got[i], cut[i] - cut[i-1])
      BY <2>1 DEF IsCut
    <3> QED
      BY <1>1, <1>4, <2>1, <3>1, <3>2
  <2>2. CASE i = k + 1
    <3>1. i - 1 = k /\ k \in 0 .. k
      BY <1>1, <2>2
    <3>2. next[i-1] = cut[k] /\ next[i] = cut[k] + n
      BY <1>4, <2>2, <3>1
    <3>3. cut[k] < cut[k] + n /\ (cut[k] + n) - cut[k] = n
      BY <1>3
    <3>4. try_decode(p, After(s, next[i-1])) = Frame(Append(got, m)[i], n)
      BY <1>1, <1>2, <2>2, <3>2
    <3> QED
      BY <3>2, <3>3, <3>4
  <2> QED
    BY <1>1, <2>1, <2>2
<1>6. After(s, next[k + 1]) = After(left, n)
  BY <1>2, <1>3, <1>4, AfterAfter
<1>7. IsCut(next, p, s, Append(got, m), After(left, n))
  BY <1>1, <1>4, <1>5, <1>6 DEF IsCut
<1> QED
  BY <1>7

LEMMA StreamInit ==
    Init => StreamInv
<1> SUFFICES ASSUME Init PROVE StreamInv
  OBVIOUS
<1>1. <<>> \in Cells /\ <<>> \in Seq(Cells) /\ <<>> \in Seq(Messages) /\ Len(<<>>) = 0
  BY DEF Cells
<1>2. StreamTypeOK /\ FailureStands
  BY <1>1 DEF Init, StreamTypeOK, FailureStands
<1>3. FlattenSeq(written) = <<>> /\ received = <<>> /\ read_buffer \o stream = <<>>
  <2>1. <<>> \o <<>> = <<>>
    BY <1>1, ConcatEmptySeq DEF Cells
  <2> QED
    BY <1>1, <2>1, FlattenByPieces DEF Init
<1> DEFINE cut == [i \in 0 .. 0 |-> 0]
<1>4. /\ cut \in [0 .. Len(<<>>) -> 0 .. Len(<<>>)]
      /\ cut[0] = 0 /\ cut[Len(<<>>)] = 0
      /\ \A i \in 1 .. Len(<<>>) : FALSE
  BY <1>1
<1>5. After(<<>>, 0) = <<>>
  BY <1>1, AfterNone
<1> HIDE DEF cut
<1>6. IsCut(cut, protocol, <<>>, <<>>, <<>>)
  BY <1>4, <1>5 DEF IsCut
<1> QED
  BY <1>2, <1>3, <1>6 DEF StreamInv

\* What is written comes at the end of the stream, and disturbs no cut.
LEMMA MoreWritten ==
    ASSUME StreamInv, open, NEW q \in Cells,
           written' = Append(written, q), stream' = stream \o q, open' \in BOOLEAN,
           UNCHANGED <<protocol, read_buffer, received, recv>>
    PROVE  StreamInv'
<1>1. StreamTypeOK /\ FailureStands
  BY DEF StreamInv
<1>2. FlattenSeq(written') = FlattenSeq(written) \o q /\ FlattenSeq(written) \in Cells
  BY <1>1, FlattenAppend, FlattenType DEF StreamTypeOK
<1>3. read_buffer \o (stream \o q) = (read_buffer \o stream) \o q
  BY <1>1, CellsAssociate, Zenon DEF StreamTypeOK
<1>4. PICK cut : IsCut(cut, protocol, FlattenSeq(written), received, read_buffer \o stream)
  BY DEF StreamInv
<1>5. IsCut(cut, protocol, FlattenSeq(written) \o q, received, (read_buffer \o stream) \o q)
  BY <1>1, <1>2, <1>4, CutOfMore DEF StreamTypeOK
<1>6. StreamTypeOK'
  <2>1. Append(written, q) \in Seq(Cells) /\ stream \o q \in Cells
    BY <1>1, AppendProperties, ConcatProperties DEF StreamTypeOK, Cells
  <2> QED
    BY <1>1, <2>1 DEF StreamTypeOK
<1>7. FailureStands'
  BY <1>1 DEF FailureStands
<1>8. IsCut(cut, protocol', FlattenSeq(written'), received', read_buffer' \o stream')
  BY <1>2, <1>3, <1>5
<1> QED
  BY <1>6, <1>7, <1>8 DEF StreamInv

LEMMA StreamStep ==
    StreamInv /\ [Next]_vars => StreamInv'
<1> SUFFICES ASSUME StreamInv, [Next]_vars PROVE StreamInv'
  OBVIOUS
<1>1. StreamTypeOK /\ FailureStands
  BY DEF StreamInv
<1>2. PICK cut : IsCut(cut, protocol, FlattenSeq(written), received, read_buffer \o stream)
  BY DEF StreamInv
<1>3. /\ FlattenSeq(written) \in Cells /\ read_buffer \o stream \in Cells
      /\ Len(read_buffer) \in Nat /\ Len(stream) \in Nat
      /\ Len(read_buffer \o stream) = Len(read_buffer) + Len(stream)
  BY <1>1, FlattenType, ConcatProperties DEF StreamTypeOK, Cells
<1>4. ASSUME NEW piece \in Frames \cup Others PROVE piece \in Cells /\ Len(piece) \in Nat
  <2>1. piece \in Cells
    BY PeerAssumption, EncodedCells DEF Frames
  <2> QED
    BY <2>1 DEF Cells
<1>5. CASE UNCHANGED vars
  <2>1. UNCHANGED <<protocol, written, open, stream, read_buffer, received, recv>>
    BY <1>5 DEF vars
  <2> QED
    BY <1>1, <1>2, <2>1 DEF StreamInv, StreamTypeOK, FailureStands
<1>6. ASSUME NEW piece \in Frames \cup Others, Write(piece) PROVE StreamInv'
  <2>1. piece \in Cells
    BY <1>4
  <2> QED
    BY <1>1, <1>6, <2>1, MoreWritten DEF Write, StreamTypeOK
<1>7. ASSUME NEW piece \in Frames \cup Others, EndInPiece(piece) PROVE StreamInv'
  <2>1. PICK k \in 0 .. Len(piece) - 1 :
          /\ written' = Append(written, SubSeq(piece, 1, k))
          /\ stream' = stream \o SubSeq(piece, 1, k)
    BY <1>7 DEF EndInPiece
  <2>2. SubSeq(piece, 1, k) \in Cells
    <3>1. piece \in Cells /\ k \in 0 .. Len(piece)
      BY <1>4
    <3> QED
      BY <3>1, AfterSplits
  <2>3. open /\ open' = FALSE /\ UNCHANGED <<protocol, read_buffer, received, recv>>
    BY <1>7 DEF EndInPiece
  <2> QED
    BY <2>1, <2>2, <2>3, MoreWritten
<1>8. CASE TakeFrame
  <2> DEFINE decoded == try_decode(protocol, read_buffer)
  <2>1. /\ recv = "reading" /\ decoded.kind = "message"
        /\ received' = Append(received, decoded.message)
        /\ read_buffer' = After(read_buffer, decoded.consumed)
        /\ UNCHANGED <<protocol, written, open, stream, recv>>
    BY <1>8 DEF TakeFrame, After
  <2>2. /\ decoded = Frame(decoded.message, decoded.consumed)
        /\ decoded.message \in Messages /\ decoded.consumed \in 1 .. Len(read_buffer)
    <3>1. decoded # Incomplete /\ decoded # Malformed
      BY <2>1, Kinds
    <3> QED
      BY <1>1, <3>1, Decodes DEF StreamTypeOK
  <2>3. try_decode(protocol, read_buffer \o stream) = Frame(decoded.message, decoded.consumed)
    <3>1. decoded # Incomplete
      BY <2>1, Kinds
    <3>2. try_decode(protocol, read_buffer \o stream) = decoded
      BY <1>1, <3>1, CutIndependence DEF StreamTypeOK
    <3> QED
      BY <2>2, <3>2
  <2> HIDE DEF decoded
  <2>4. decoded.consumed \in 1 .. Len(read_buffer \o stream) /\ decoded.consumed \in 0 .. Len(read_buffer)
    BY <1>3, <2>2
  <2>5. \E next : IsCut(next, protocol, FlattenSeq(written), Append(received, decoded.message),
                        After(read_buffer \o stream, decoded.consumed))
    BY <1>1, <1>2, <1>3, <2>2, <2>3, <2>4, CutOfNext DEF StreamTypeOK
  <2>6. After(read_buffer \o stream, decoded.consumed) = After(read_buffer, decoded.consumed) \o stream
    BY <1>1, <2>4, AfterAppended DEF StreamTypeOK
  <2>7. StreamTypeOK'
    <3>1. After(read_buffer, decoded.consumed) \in Cells
      BY <1>1, <2>4, AfterProperties DEF StreamTypeOK
    <3>2. Append(received, decoded.message) \in Seq(Messages)
      BY <1>1, <2>2, AppendProperties DEF StreamTypeOK
    <3> QED
      BY <1>1, <2>1, <3>1, <3>2 DEF StreamTypeOK
  <2>8. FailureStands'
    BY <2>1 DEF FailureStands
  <2>9. \E next : IsCut(next, protocol', FlattenSeq(written'), received', read_buffer' \o stream')
    BY <2>1, <2>5, <2>6
  <2> QED
    BY <2>7, <2>8, <2>9 DEF StreamInv
<1>9. CASE RejectFrame
  <2>1. /\ recv' = "malformed" /\ try_decode(protocol, read_buffer) = Malformed
        /\ UNCHANGED <<protocol, written, open, stream, read_buffer, received>>
    BY <1>9 DEF RejectFrame
  <2>2. StreamTypeOK' /\ FailureStands'
    BY <1>1, <2>1 DEF StreamTypeOK, FailureStands
  <2> QED
    BY <1>2, <2>1, <2>2 DEF StreamInv
<1>10. CASE ReadEnd
  <2>1. /\ recv' = "closed" /\ try_decode(protocol, read_buffer) = Incomplete
        /\ stream = <<>> /\ ~open
        /\ UNCHANGED <<protocol, written, open, stream, read_buffer, received>>
    BY <1>10 DEF ReadEnd
  <2>2. StreamTypeOK' /\ FailureStands'
    BY <1>1, <2>1 DEF StreamTypeOK, FailureStands
  <2> QED
    BY <1>2, <2>1, <2>2 DEF StreamInv
<1>11. ASSUME NEW n \in 1 .. Len(stream), ReadSome(n) PROVE StreamInv'
  <2>1. /\ recv = "reading"
        /\ read_buffer' = read_buffer \o SubSeq(stream, 1, n)
        /\ stream' = After(stream, n)
        /\ UNCHANGED <<protocol, written, open, received, recv>>
    BY <1>11 DEF ReadSome, After
  <2>2. /\ n \in 0 .. Len(stream)
        /\ SubSeq(stream, 1, n) \in Cells /\ After(stream, n) \in Cells
        /\ stream = SubSeq(stream, 1, n) \o After(stream, n)
    <3>1. n \in 0 .. Len(stream)
      BY <1>3
    <3> QED
      BY <1>1, <3>1, AfterSplits, AfterProperties DEF StreamTypeOK
  <2>3. (read_buffer \o SubSeq(stream, 1, n)) \o After(stream, n) = read_buffer \o stream
    <3>1. (read_buffer \o SubSeq(stream, 1, n)) \o After(stream, n)
            = read_buffer \o (SubSeq(stream, 1, n) \o After(stream, n))
      BY <1>1, <2>2, CellsAssociate, Zenon DEF StreamTypeOK
    <3> QED
      BY <2>2, <3>1
  <2>4. StreamTypeOK'
    <3>1. read_buffer \o SubSeq(stream, 1, n) \in Cells
      BY <1>1, <2>2, ConcatProperties DEF StreamTypeOK, Cells
    <3> QED
      BY <1>1, <2>1, <2>2, <3>1 DEF StreamTypeOK
  <2>5. FailureStands'
    BY <2>1 DEF FailureStands
  <2>6. IsCut(cut, protocol', FlattenSeq(written'), received', read_buffer' \o stream')
    BY <1>2, <2>1, <2>3
  <2> QED
    BY <2>4, <2>5, <2>6 DEF StreamInv
<1> QED
  BY <1>5, <1>6, <1>7, <1>8, <1>9, <1>10, <1>11 DEF Next, Receive

\* However the stream comes in pieces, and whatever is written, the messages
\* returned are frames that lie in it one after the other from its beginning,
\* and nothing between two of them is dropped or read twice (recv).
THEOREM FramesCutStream ==
    Spec => []StreamInv
<1> QED
  BY StreamInit, StreamStep, PTL DEF Spec

-----------------------------------------------------------------------------
(***************************************************************************)
(* What was sent.                                                          *)
(***************************************************************************)

\* The cut of a frame that was written as the i-th piece is where it was written.
LEMMA CutOfPiece ==
    ASSUME StreamInv, NEW cut, IsCut(cut, protocol, FlattenSeq(written), received, read_buffer \o stream),
           NEW i \in 1 .. Len(received), i <= Len(written),
           NEW m \in Sent, written[i] = encode(m), cut[i-1] = Len(Upto(written, i - 1))
    PROVE  received[i] = Seen(protocol, m) /\ cut[i] = Len(Upto(written, i))
<1> DEFINE all == FlattenSeq(written)
           before == Upto(written, i - 1)
<1>1. /\ written \in Seq(Cells) /\ received \in Seq(Messages) /\ protocol \in Protocols
      /\ m \in Messages
      /\ Len(written) \in Nat /\ Len(received) \in Nat
      /\ i \in 1 .. Len(written) /\ i \in 0 .. Len(written) /\ i - 1 \in 0 .. Len(written)
      /\ i \in 0 .. Len(received) /\ i - 1 \in 0 .. Len(received)
  BY PeerAssumption DEF StreamInv, StreamTypeOK
<1>2. before \in Cells /\ Len(before) \in Nat /\ encode(m) \in Cells /\ Len(encode(m)) \in Nat
  <2>1. before \in Cells
    BY <1>1, UptoByPieces
  <2>2. encode(m) \in Cells
    BY <1>1, EncodedCells
  <2> QED
    BY <2>1, <2>2 DEF Cells
<1>3. PICK rest \in Cells : all = Upto(written, i) \o rest
  BY <1>1, UptoIsBeginning
<1>4. Upto(written, i) = before \o encode(m)
  BY <1>1, UptoByPieces
<1>5. all = before \o (encode(m) \o rest) /\ encode(m) \o rest \in Cells
  <2>1. (before \o encode(m)) \o rest = before \o (encode(m) \o rest)
    BY <1>2, CellsAssociate, Zenon
  <2>2. encode(m) \o rest \in Cells
    BY <1>2, ConcatProperties DEF Cells
  <2> QED
    BY <1>3, <1>4, <2>1, <2>2
<1> HIDE DEF all, before
<1>6. cut[i-1] = Len(before) /\ After(all, cut[i-1]) = encode(m) \o rest
  <2>1. cut[i-1] = Len(before)
    BY DEF before
  <2>2. After(before \o (encode(m) \o rest), Len(before)) = encode(m) \o rest
    BY <1>2, <1>5, AfterBeginning
  <2> QED
    BY <1>5, <2>1, <2>2
<1>7. try_decode(protocol, After(all, cut[i-1])) = Frame(received[i], cut[i] - cut[i-1])
  BY DEF IsCut, all
<1>8. KnownType(protocol, m.msg_type)
  <2>1. CASE ~KnownType(protocol, m.msg_type)
    <3>1. try_decode(protocol, encode(m) \o rest) = Malformed
      BY <1>1, <2>1, UnknownTypeRefused
    <3>2. Frame(received[i], cut[i] - cut[i-1]) = Malformed
      BY <1>6, <1>7, <3>1
    <3> QED
      BY <3>2, Kinds, Zenon
  <2> QED
    BY <2>1
<1>9. try_decode(protocol, encode(m) \o rest) = Frame(Seen(protocol, m), Len(encode(m)))
  BY <1>1, <1>8, RoundTrip
<1>10. received[i] = Seen(protocol, m) /\ cut[i] - cut[i-1] = Len(encode(m))
  <2>1. Frame(received[i], cut[i] - cut[i-1]) = Frame(Seen(protocol, m), Len(encode(m)))
    BY <1>6, <1>7, <1>9
  <2>2. received[i] = Seen(protocol, m)
    BY <2>1, FrameFields
  <2>3. cut[i] - cut[i-1] = Len(encode(m))
    BY <2>1, FrameFields
  <2> QED
    BY <2>2, <2>3
<1>11. cut[i] \in Nat
  <2>1. cut \in [0 .. Len(received) -> 0 .. Len(FlattenSeq(written))] /\ Len(FlattenSeq(written)) \in Nat
    BY <1>1, FlattenType DEF IsCut, Cells
  <2>2. cut[i] \in 0 .. Len(FlattenSeq(written))
    BY <1>1, <2>1
  <2> QED
    BY <2>1, <2>2
<1>12. Len(Upto(written, i)) = Len(before) + Len(encode(m))
  BY <1>2, <1>4, ConcatProperties DEF Cells
<1>13. cut[i] - Len(before) = Len(encode(m))
  BY <1>6, <1>10
<1>14. cut[i] = Len(Upto(written, i))
  BY <1>2, <1>11, <1>12, <1>13
<1> QED
  BY <1>10, <1>14

LEMMA InvReceivedAsSent ==
    StreamInv => ReceivedAsSent
<1> SUFFICES ASSUME StreamInv,
                    NEW n \in 1 .. Len(received), NEW m \in Sent,
                    OnlyFrames(n), written[n] = encode(m)
             PROVE  received[n] = Seen(protocol, m)
  BY DEF ReceivedAsSent
<1>1. PICK cut : IsCut(cut, protocol, FlattenSeq(written), received, read_buffer \o stream)
  BY DEF StreamInv
<1>2. /\ written \in Seq(Cells) /\ Len(received) \in Nat /\ Len(written) \in Nat /\ n \in Nat
      /\ n - 1 \in Nat /\ n <= Len(written)
  BY DEF StreamInv, StreamTypeOK, OnlyFrames
<1> DEFINE S == {i \in 0 .. n - 1 : cut[i] = Len(Upto(written, i))}
<1>3. 0 \in S
  <2>1. Len(Upto(written, 0)) = 0
    BY DEF Upto
  <2>2. cut[0] = 0
    BY <1>1 DEF IsCut
  <2> QED
    BY <1>2, <2>1, <2>2
<1>4. ASSUME NEW i \in 0 .. (n - 1) - 1, i \in S PROVE i + 1 \in S
  <2>1. /\ i + 1 \in 1 .. n /\ i + 1 \in 0 .. n - 1
        /\ i + 1 \in 1 .. Len(received) /\ i + 1 <= Len(written)
        /\ (i + 1) - 1 = i
    BY <1>2
  <2>2. PICK sent \in Sent : written[i + 1] = encode(sent)
    BY <2>1 DEF OnlyFrames, Frames
  <2>3. cut[(i + 1) - 1] = Len(Upto(written, (i + 1) - 1))
    BY <1>4, <2>1
  <2>4. cut[i + 1] = Len(Upto(written, i + 1))
    BY <1>1, <2>1, <2>2, <2>3, CutOfPiece
  <2> QED
    BY <2>1, <2>4
<1>5. n - 1 \in S
  <2> HIDE DEF S
  <2>1. 0 .. n - 1 \subseteq S
    BY <1>2, <1>3, <1>4, BoundedInductionSet
  <2> QED
    BY <1>2, <2>1
<1>6. cut[n-1] = Len(Upto(written, n - 1))
  BY <1>5
<1> QED
  BY <1>1, <1>2, <1>6, CutOfPiece

\* A message written whole, after others written whole, is received as it was
\* written, but for the types and topics that the receiver does not know, however
\* the stream is cut and whatever comes behind it (message.rs, recv).
THEOREM MessagesArriveAsSent ==
    Spec => []ReceivedAsSent
<1> QED
  BY FramesCutStream, InvReceivedAsSent, PTL

-----------------------------------------------------------------------------
(***************************************************************************)
(* What a reader of the whole stream finds.  Parse is defined by recursion *)
(* from a cell to one behind it; what is needed of it is that it decodes   *)
(* where it is, and goes on after the frame.                               *)
(***************************************************************************)

ReaderStep(f, p, s, i) ==
    LET decoded == try_decode(p, SubSeq(s, i, Len(s)))
    IN  IF decoded.kind = "message"
        THEN [f[i + decoded.consumed] EXCEPT !.messages = <<decoded.message>> \o @]
        ELSE [messages |-> <<>>, end |-> decoded]

IsReader(f, p, s) == f = [i \in 1 .. Len(s) + 1 |-> ReaderStep(f, p, s, i)]

Reader(p, s) == CHOOSE f : IsReader(f, p, s)

Parsed == [messages : Seq(Messages), end : {Incomplete, Malformed}]

LEMMA ParseIsReader ==
    ASSUME NEW s
    PROVE  Parse(s) = Reader(protocol, s)[1]
BY DEF Parse, Reader, IsReader, ReaderStep

\* From the i-th cell on, the reader goes on behind i and not behind the end.
LEMMA ReaderGoesOn ==
    ASSUME NEW p \in Protocols, NEW s \in Cells, NEW i \in 1 .. Len(s) + 1
    PROVE  LET decoded == try_decode(p, SubSeq(s, i, Len(s)))
           IN  \/ /\ decoded.kind = "message" /\ decoded.message \in Messages
                  /\ i + decoded.consumed \in i + 1 .. Len(s) + 1
               \/ decoded.kind # "message" /\ decoded \in {Incomplete, Malformed}
<1> DEFINE b == SubSeq(s, i, Len(s))
           decoded == try_decode(p, b)
<1>1. Len(s) \in Nat /\ i - 1 \in 0 .. Len(s) /\ (i - 1) + 1 = i
  BY DEF Cells
<1>2. b \in Cells /\ Len(b) = Len(s) - (i - 1)
  <2>1. After(s, i - 1) \in Cells /\ Len(After(s, i - 1)) = Len(s) - (i - 1)
    BY <1>1, AfterProperties
  <2>2. After(s, i - 1) = b
    BY <1>1 DEF After
  <2> QED
    BY <2>1, <2>2
<1> HIDE DEF b
<1>3. CASE decoded = Frame(decoded.message, decoded.consumed) /\ decoded.message \in Messages
           /\ decoded.consumed \in 1 .. Len(b)
  <2>1. decoded.kind = "message"
    BY <1>3, Kinds
  <2>2. i + decoded.consumed \in i + 1 .. Len(s) + 1
    BY <1>1, <1>2, <1>3
  <2> QED
    BY <1>3, <2>1, <2>2 DEF b
<1>4. CASE decoded \in {Incomplete, Malformed}
  BY <1>4, Kinds DEF b
<1> QED
  BY <1>2, <1>3, <1>4, Decodes

LEMMA StepType ==
    ASSUME NEW p \in Protocols, NEW s \in Cells, NEW i \in 1 .. Len(s) + 1,
           NEW f, \A j \in i + 1 .. Len(s) + 1 : f[j] \in Parsed
    PROVE  ReaderStep(f, p, s, i) \in Parsed
<1> DEFINE decoded == try_decode(p, SubSeq(s, i, Len(s)))
           rest == f[i + decoded.consumed]
<1>1. CASE /\ decoded.kind = "message" /\ decoded.message \in Messages
           /\ i + decoded.consumed \in i + 1 .. Len(s) + 1
  <2>1. ReaderStep(f, p, s, i) = [rest EXCEPT !.messages = <<decoded.message>> \o @]
    BY <1>1 DEF ReaderStep
  <2>2. rest \in Parsed
    BY <1>1
  <2>3. <<decoded.message>> \in Seq(Messages)
    BY <1>1
  <2> HIDE DEF decoded, rest
  <2>4. <<decoded.message>> \o rest.messages \in Seq(Messages)
    BY <2>2, <2>3, ConcatProperties DEF Parsed
  <2> QED
    BY <2>1, <2>2, <2>4 DEF Parsed
<1>2. CASE decoded.kind # "message" /\ decoded \in {Incomplete, Malformed}
  <2>1. ReaderStep(f, p, s, i) = [messages |-> <<>>, end |-> decoded]
    BY <1>2 DEF ReaderStep
  <2> HIDE DEF decoded
  <2> QED
    BY <1>2, <2>1 DEF Parsed
<1> QED
  BY <1>1, <1>2, ReaderGoesOn

\* The recursion is well-founded: there is such a function.
LEMMA ReaderExists ==
    ASSUME NEW p \in Protocols, NEW s \in Cells
    PROVE  IsReader(Reader(p, s), p, s)
<1> DEFINE L == Len(s) + 1
           Reads(f, i) == f[i] = ReaderStep(f, p, s, i)
           S == {k \in 0 .. L : \E f \in [1 .. L -> Parsed] : \A i \in (L - k) + 1 .. L : Reads(f, i)}
<1>1. Len(s) \in Nat /\ L \in Nat
  BY DEF Cells
<1>2. 0 \in S
  <2>1. [messages |-> <<>>, end |-> Incomplete] \in Parsed
    BY DEF Parsed
  <2>2. [i \in 1 .. L |-> [messages |-> <<>>, end |-> Incomplete]] \in [1 .. L -> Parsed]
    BY <2>1
  <2>3. (L - 0) + 1 .. L = {}
    BY <1>1
  <2> HIDE DEF L, Reads
  <2>4. \E f \in [1 .. L -> Parsed] : \A i \in (L - 0) + 1 .. L : Reads(f, i)
    BY <2>2, <2>3
  <2> QED
    BY <1>1, <2>4
<1>3. ASSUME NEW k \in 0 .. L - 1, k \in S PROVE k + 1 \in S
  <2>1. PICK f \in [1 .. L -> Parsed] : \A i \in (L - k) + 1 .. L : Reads(f, i)
    BY <1>3
  <2> DEFINE j == L - k
             g == [f EXCEPT ![j] = ReaderStep(f, p, s, j)]
  <2>2. j \in 1 .. L /\ (L - (k + 1)) + 1 = j /\ k + 1 \in 0 .. L
    BY <1>1
  <2>3. ReaderStep(f, p, s, j) \in Parsed
    <3>1. \A i \in j + 1 .. Len(s) + 1 : f[i] \in Parsed
      BY <1>1, <2>2
    <3> QED
      BY <2>2, <3>1, StepType
  <2>4. g \in [1 .. L -> Parsed] /\ g[j] = ReaderStep(f, p, s, j) /\ \A i \in j + 1 .. L : g[i] = f[i]
    <3> HIDE DEF j
    <3> QED
      BY <2>2, <2>3
  <2> HIDE DEF g
  <2>5. ASSUME NEW i \in j .. L PROVE ReaderStep(g, p, s, i) = ReaderStep(f, p, s, i)
    <3> DEFINE decoded == try_decode(p, SubSeq(s, i, Len(s)))
    <3>1. i \in 1 .. Len(s) + 1
      BY <1>1, <2>2
    <3>2. CASE /\ decoded.kind = "message"
               /\ i + decoded.consumed \in i + 1 .. Len(s) + 1
      <4>1. i + decoded.consumed \in j + 1 .. L
        BY <1>1, <2>2, <3>2
      <4>2. g[i + decoded.consumed] = f[i + decoded.consumed]
        BY <2>4, <4>1
      <4> QED
        BY <4>2 DEF ReaderStep
    <3>3. CASE decoded.kind # "message"
      BY <3>3 DEF ReaderStep
    <3> QED
      BY <3>1, <3>2, <3>3, ReaderGoesOn
  <2>6. ASSUME NEW i \in j .. L PROVE Reads(g, i)
    <3>1. CASE i = j
      BY <2>4, <2>5, <3>1
    <3>2. CASE i \in j + 1 .. L
      <4>1. f[i] = ReaderStep(f, p, s, i)
        BY <2>1, <3>2
      <4> QED
        BY <2>4, <2>5, <3>2, <4>1
    <3> QED
      BY <1>1, <2>2, <3>1, <3>2
  <2>7. \A i \in (L - (k + 1)) + 1 .. L : Reads(g, i)
    BY <2>2, <2>6
  <2> HIDE DEF L, Reads, j
  <2> QED
    BY <2>2, <2>4, <2>7
<1>4. L \in S
  <2> HIDE DEF S, L
  <2>1. 0 .. L \subseteq S
    BY <1>1, <1>2, <1>3, BoundedInductionSet
  <2> QED
    BY <1>1, <2>1
<1>5. PICK f \in [1 .. L -> Parsed] : \A i \in 1 .. L : Reads(f, i)
  <2>1. (L - L) + 1 = 1
    BY <1>1
  <2> HIDE DEF Reads, L
  <2> QED
    BY <1>4, <2>1
<1>6. IsReader(f, p, s)
  <2>1. f = [i \in 1 .. L |-> f[i]]
    BY <1>5
  <2> QED
    BY <1>5, <2>1 DEF IsReader
<1> QED
  BY <1>6 DEF Reader

LEMMA ReaderType ==
    ASSUME NEW p \in Protocols, NEW s \in Cells
    PROVE  /\ \A i \in 1 .. Len(s) + 1 : Reader(p, s)[i] = ReaderStep(Reader(p, s), p, s, i)
           /\ \A i \in 1 .. Len(s) + 1 : Reader(p, s)[i] \in Parsed
<1> DEFINE L == Len(s) + 1
           r == Reader(p, s)
           S == {k \in 0 .. L : \A i \in (L - k) + 1 .. L : r[i] \in Parsed}
<1>1. Len(s) \in Nat /\ L \in Nat
  BY DEF Cells
<1>2. \A i \in 1 .. L : r[i] = ReaderStep(r, p, s, i)
  BY ReaderExists DEF IsReader
<1> HIDE DEF r
<1>3. 0 \in S
  BY <1>1
<1>4. ASSUME NEW k \in 0 .. L - 1, k \in S PROVE k + 1 \in S
  <2> DEFINE j == L - k
  <2>1. j \in 1 .. L /\ (L - (k + 1)) + 1 = j /\ k + 1 \in 0 .. L
    BY <1>1
  <2>2. \A i \in j + 1 .. L : r[i] \in Parsed
    BY <1>4
  <2>3. r[j] \in Parsed
    BY <1>2, <2>1, <2>2, StepType
  <2>4. ASSUME NEW i \in j .. L PROVE r[i] \in Parsed
    <3>1. i = j \/ i \in j + 1 .. L
      BY <1>1, <2>1
    <3> QED
      BY <2>2, <2>3, <3>1
  <2>5. \A i \in (L - (k + 1)) + 1 .. L : r[i] \in Parsed
    BY <2>1, <2>4
  <2> HIDE DEF j, L
  <2> QED
    BY <2>1, <2>5
<1>5. L \in S
  <2> HIDE DEF S, L
  <2>1. 0 .. L \subseteq S
    BY <1>1, <1>3, <1>4, BoundedInductionSet
  <2> QED
    BY <1>1, <2>1
<1>6. \A i \in 1 .. L : r[i] \in Parsed
  <2>1. (L - L) + 1 = 1
    BY <1>1
  <2> HIDE DEF L
  <2> QED
    BY <1>5, <2>1
<1> QED
  BY <1>2, <1>6 DEF r

\* The messages that the stream has been cut into are those that the reader of
\* the whole finds first, and what it finds after them does not depend on them.
LEMMA ReaderFollowsCuts ==
    ASSUME NEW p \in Protocols, NEW s \in Cells, NEW got \in Seq(Messages), NEW left, NEW cut,
           IsCut(cut, p, s, got, left)
    PROVE  LET rest == Reader(p, s)[cut[Len(got)] + 1]
           IN  /\ Reader(p, s)[1].messages = got \o rest.messages
               /\ Reader(p, s)[1].end = rest.end
               /\ rest = ReaderStep(Reader(p, s), p, s, cut[Len(got)] + 1)
               /\ SubSeq(s, cut[Len(got)] + 1, Len(s)) = left
               /\ rest \in Parsed
<1> DEFINE r == Reader(p, s)
           n == Len(got)
           Agree(i) == /\ r[1].messages = SubSeq(got, 1, i) \o r[cut[i] + 1].messages
                       /\ r[1].end = r[cut[i] + 1].end
           S == {i \in 0 .. n : Agree(i)}
<1>1. Len(s) \in Nat /\ n \in Nat
  BY DEF Cells
<1>2. /\ \A i \in 1 .. Len(s) + 1 : r[i] = ReaderStep(r, p, s, i)
      /\ \A i \in 1 .. Len(s) + 1 : r[i] \in Parsed
  BY ReaderType
<1> HIDE DEF r
<1>3. /\ cut \in [0 .. n -> 0 .. Len(s)] /\ cut[0] = 0
      /\ SubSeq(s, cut[n] + 1, Len(s)) = left
  BY DEF IsCut, After
<1>4. \A i \in 0 .. n : cut[i] \in 0 .. Len(s) /\ cut[i] + 1 \in 1 .. Len(s) + 1
  <2>1. \A i \in 0 .. n : cut[i] \in 0 .. Len(s)
    BY <1>3
  <2> QED
    BY <1>1, <2>1
<1>5. Agree(0)
  <2>1. r[1].messages \in Seq(Messages)
    BY <1>1, <1>2 DEF Parsed
  <2>2. SubSeq(got, 1, 0) = <<>>
    BY SubSeqEmpty
  <2>3. <<>> \o r[1].messages = r[1].messages
    BY <2>1, ConcatEmptySeq
  <2>4. cut[0] + 1 = 1
    BY <1>3
  <2> QED
    BY <2>2, <2>3, <2>4
<1>6. ASSUME NEW i \in 0 .. n - 1, Agree(i) PROVE Agree(i + 1)
  <2> DEFINE at == cut[i] + 1
             next == cut[i + 1] + 1
             m == got[i + 1]
  <2>1. i \in 0 .. n /\ i + 1 \in 1 .. n /\ i + 1 \in 0 .. n /\ (i + 1) - 1 = i
    BY <1>1
  <2>2. try_decode(p, After(s, cut[i])) = Frame(m, cut[i + 1] - cut[i])
    BY <2>1 DEF IsCut
  <2>3. at \in 1 .. Len(s) + 1 /\ next \in 1 .. Len(s) + 1 /\ at + (cut[i + 1] - cut[i]) = next
    <3>1. cut[i] \in 0 .. Len(s) /\ cut[i + 1] \in 0 .. Len(s)
      BY <1>4, <2>1
    <3> QED
      BY <1>1, <3>1
  <2>4. After(s, cut[i]) = SubSeq(s, at, Len(s))
    BY DEF After
  <2>5. r[at] = ReaderStep(r, p, s, at)
    BY <1>2, <2>3
  <2>6. r[at] = [r[next] EXCEPT !.messages = <<m>> \o @]
    <3> DEFINE decoded == try_decode(p, SubSeq(s, at, Len(s)))
    <3>1. decoded.kind = "message" /\ decoded.message = m /\ decoded.consumed = cut[i + 1] - cut[i]
      <4>1. decoded = Frame(m, cut[i + 1] - cut[i])
        BY <2>2, <2>4
      <4> HIDE DEF decoded, m
      <4> QED
        BY <4>1, Kinds
    <3>2. ReaderStep(r, p, s, at)
            = [r[at + decoded.consumed] EXCEPT !.messages = <<decoded.message>> \o @]
      BY <3>1 DEF ReaderStep
    <3> HIDE DEF decoded, at, next, m
    <3> QED
      BY <2>3, <2>5, <3>1, <3>2
  <2>7. r[at] \in Parsed /\ r[next] \in Parsed
    BY <1>2, <2>3
  <2>8. m \in Messages /\ <<m>> \in Seq(Messages)
    BY <2>1, ElementOfSeq
  <2>9. SubSeq(got, 1, i + 1) = SubSeq(got, 1, i) \o <<m>>
    <3>1. 1 \in 1 .. Len(got) /\ i + 1 \in 1 .. Len(got)
      BY <1>1, <2>1
    <3>2. SubSeq(got, 1, i + 1) = SubSeq(got, 1, (i + 1) - 1) \o <<m>>
      BY <3>1, SubSeqRecursiveSecond
    <3> QED
      BY <2>1, <3>2
  <2>10. SubSeq(got, 1, i) \in Seq(Messages)
    <3>1. \A k \in 1 .. i : got[k] \in Messages
      BY <1>1, <2>1, ElementOfSeq
    <3> QED
      BY <2>1, <3>1, SubSeqProperties
  <2> HIDE DEF at, next, m
  <2>11. r[at].messages = <<m>> \o r[next].messages /\ r[at].end = r[next].end
    BY <2>6, <2>7 DEF Parsed
  <2>12. (SubSeq(got, 1, i) \o <<m>>) \o r[next].messages = SubSeq(got, 1, i) \o (<<m>> \o r[next].messages)
    <3>1. r[next].messages \in Seq(Messages)
      BY <2>7 DEF Parsed
    <3> QED
      BY <2>8, <2>10, <3>1, MessagesAssociate, Zenon
  <2>13. /\ r[1].messages = SubSeq(got, 1, i) \o r[at].messages
         /\ r[1].end = r[at].end
    BY <1>6 DEF at
  <2>14. /\ r[1].messages = SubSeq(got, 1, i + 1) \o r[next].messages
         /\ r[1].end = r[next].end
    BY <2>9, <2>11, <2>12, <2>13
  <2> QED
    BY <2>14 DEF next
<1>7. n \in S
  <2>1. 0 \in S
    BY <1>1, <1>5
  <2>2. ASSUME NEW i \in 0 .. n - 1, i \in S PROVE i + 1 \in S
    <3>1. i + 1 \in 0 .. n
      BY <1>1
    <3> HIDE DEF Agree
    <3> QED
      BY <1>6, <2>2, <3>1
  <2> HIDE DEF S
  <2>3. 0 .. n \subseteq S
    BY <1>1, <2>1, <2>2, BoundedInductionSet
  <2> QED
    BY <1>1, <2>3
<1>8. SubSeq(got, 1, n) = got
  BY SubSeqFull
<1>9. cut[n] + 1 \in 1 .. Len(s) + 1
  <2>1. n \in 0 .. n
    BY <1>1
  <2> QED
    BY <1>4, <2>1
<1>10. r[1].messages = got \o r[cut[n] + 1].messages /\ r[1].end = r[cut[n] + 1].end
  BY <1>7, <1>8
<1> QED
  BY <1>2, <1>3, <1>9, <1>10 DEF r

LEMMA PrefixOfConcat ==
    ASSUME NEW s \in Seq(Messages), NEW t \in Seq(Messages)
    PROVE  IsPrefix(s, s \o t)
<1>1. Len(s) \in Nat /\ Len(t) \in Nat /\ Len(s \o t) = Len(s) + Len(t)
  BY ConcatProperties
<1>2. SubSeq(s \o t, 1, Len(s)) = SubSeq(s, 1, Len(s))
  <2>1. CASE Len(s) = 0
    BY <1>1, <2>1, SubSeqEmpty
  <2>2. CASE Len(s) # 0
    <3>1. 1 \in 1 .. Len(s) /\ Len(s) \in 1 .. Len(s)
      BY <1>1, <2>2
    <3> QED
      BY <3>1, SubSeqOfConcat1
  <2> QED
    BY <2>1, <2>2
<1> QED
  BY <1>1, <1>2 DEF IsPrefix

LEMMA AfterIsSuffix ==
    ASSUME NEW s \in Cells, NEW n \in 0 .. Len(s)
    PROVE  IsSuffix(After(s, n), s)
<1> DEFINE t == After(s, n)
           l == Len(s) - n
<1>1. Len(s) \in Nat /\ l \in Nat /\ l <= Len(s)
  BY DEF Cells
<1>2. t \in Cells /\ Len(t) = l /\ \A i \in 1 .. l : t[i] = s[n + i]
  BY AfterProperties
<1> HIDE DEF t
<1>3. /\ Reverse(t) = [i \in 1 .. l |-> t[(l - i) + 1]]
      /\ Reverse(s) = [i \in 1 .. Len(s) |-> s[(Len(s) - i) + 1]]
  BY <1>2 DEF Reverse
<1>4. /\ Reverse(t) \in Seq(Nat) /\ Len(Reverse(t)) = l
      /\ Reverse(s) \in Seq(Nat) /\ Len(Reverse(s)) = Len(s)
  <2>1. \A i \in 1 .. l : t[(l - i) + 1] \in Nat
    BY <1>1, <1>2 DEF Cells
  <2>2. \A i \in 1 .. Len(s) : s[(Len(s) - i) + 1] \in Nat
    BY <1>1 DEF Cells
  <2> QED
    BY <1>1, <1>3, <2>1, <2>2
<1>5. ASSUME NEW i \in 1 .. l PROVE Reverse(t)[i] = Reverse(s)[i]
  <2>1. /\ (l - i) + 1 \in 1 .. l /\ n + ((l - i) + 1) = (Len(s) - i) + 1
        /\ i \in 1 .. Len(s)
    BY <1>1
  <2>2. Reverse(t)[i] = t[(l - i) + 1] /\ Reverse(s)[i] = s[(Len(s) - i) + 1]
    BY <1>3, <2>1
  <2> QED
    BY <1>2, <2>1, <2>2
<1>6. SubSeq(Reverse(t), 1, l) = SubSeq(Reverse(s), 1, l)
  <2>1. (\A i \in 1 .. l : Reverse(t)[i] \in Nat) /\ (\A i \in 1 .. l : Reverse(s)[i] \in Nat)
    BY <1>1, <1>4, <1>5, ElementOfSeq
  <2>2. /\ SubSeq(Reverse(t), 1, l) \in Seq(Nat) /\ Len(SubSeq(Reverse(t), 1, l)) = l
        /\ \A i \in 1 .. l : SubSeq(Reverse(t), 1, l)[i] = Reverse(t)[i]
    BY <1>1, <2>1, SubSeqProperties
  <2>3. /\ SubSeq(Reverse(s), 1, l) \in Seq(Nat) /\ Len(SubSeq(Reverse(s), 1, l)) = l
        /\ \A i \in 1 .. l : SubSeq(Reverse(s), 1, l)[i] = Reverse(s)[i]
    BY <1>1, <2>1, SubSeqProperties
  <2> QED
    BY <1>5, <2>2, <2>3, SeqEqual
<1> HIDE DEF l
<1>7. IsSuffix(t, s)
  BY <1>1, <1>4, <1>6 DEF IsSuffix, IsPrefix
<1> QED
  BY <1>7 DEF t

LEMMA InvReadAsWritten ==
    StreamInv => ReadAsWritten
<1> SUFFICES ASSUME StreamInv PROVE ReadAsWritten
  OBVIOUS
<1> DEFINE all == FlattenSeq(written)
           left == read_buffer \o stream
           r == Reader(protocol, all)
<1>1. StreamTypeOK /\ FailureStands
  BY DEF StreamInv
<1>2. PICK cut : IsCut(cut, protocol, all, received, left)
  BY DEF StreamInv
<1>3. /\ all \in Cells /\ left \in Cells /\ protocol \in Protocols /\ received \in Seq(Messages)
      /\ Parse(all) = r[1]
  BY <1>1, FlattenType, ConcatProperties, ParseIsReader DEF StreamTypeOK, Cells
<1> DEFINE at == cut[Len(received)] + 1
<1>4. /\ r[1].messages = received \o r[at].messages /\ r[1].end = r[at].end
      /\ r[at] = ReaderStep(r, protocol, all, at)
      /\ SubSeq(all, at, Len(all)) = left
      /\ r[at] \in Parsed
  <2> HIDE DEF all, left
  <2> QED
    BY <1>2, <1>3, ReaderFollowsCuts
<1> HIDE DEF all, r
<1>5. IsPrefix(received, r[1].messages)
  <2>1. r[at].messages \in Seq(Messages)
    BY <1>4 DEF Parsed
  <2> QED
    BY <1>3, <1>4, <2>1, PrefixOfConcat
<1>6. IsSuffix(left, all)
  <2>1. cut[Len(received)] \in 0 .. Len(all)
    <3>1. Len(received) \in 0 .. Len(received)
      BY <1>3
    <3>2. cut \in [0 .. Len(received) -> 0 .. Len(all)]
      BY <1>2 DEF IsCut
    <3> QED
      BY <3>1, <3>2
  <2>2. After(all, cut[Len(received)]) = left
    BY <1>4 DEF After
  <2> QED
    BY <1>3, <2>1, <2>2, AfterIsSuffix
<1>7. ASSUME NEW verdict \in {Incomplete, Malformed}, try_decode(protocol, left) = verdict
      PROVE  received = r[1].messages /\ r[1].end = verdict
  <2>1. r[at] = [messages |-> <<>>, end |-> verdict]
    BY <1>4, <1>7, Kinds DEF ReaderStep
  <2>2. received \o <<>> = received
    BY <1>3, ConcatEmptySeq
  <2>3. r[at].messages = <<>> /\ r[at].end = verdict
    BY <2>1
  <2> HIDE DEF at
  <2>4. r[1].messages = received \o <<>>
    BY <1>4, <2>3
  <2> QED
    BY <1>4, <2>2, <2>3, <2>4
<1>8. recv = "malformed" => try_decode(protocol, left) = Malformed
  <2>1. SUFFICES ASSUME recv = "malformed" PROVE try_decode(protocol, left) = Malformed
    OBVIOUS
  <2>2. try_decode(protocol, read_buffer) = Malformed
    BY <1>1, <2>1 DEF FailureStands
  <2>3. try_decode(protocol, read_buffer) # Incomplete
    BY <2>2, Kinds
  <2> QED
    BY <1>1, <2>2, <2>3, CutIndependence DEF StreamTypeOK
<1>9. recv = "closed" => try_decode(protocol, left) = Incomplete
  <2>1. read_buffer \o <<>> = read_buffer
    BY <1>1, ConcatEmptySeq DEF StreamTypeOK, Cells
  <2> QED
    BY <1>1, <2>1 DEF FailureStands
<1>10. recv # "reading" => received = r[1].messages
  BY <1>1, <1>7, <1>8, <1>9 DEF StreamTypeOK
<1>11. /\ recv = "malformed" => r[1].end = Malformed
       /\ recv = "closed" => r[1].end = Incomplete
  BY <1>7, <1>8, <1>9
<1> QED
  BY <1>3, <1>5, <1>6, <1>10, <1>11 DEF ReadAsWritten, all

\* However the stream is cut and joined, and whatever has been written to it,
\* recv returns what a reader of the whole would find, in the order it was
\* written, drops nothing, and fails only where that reader does (transport.rs
\* of both protocols).
THEOREM ReaderFindsTheSame ==
    Spec => []ReadAsWritten
<1> QED
  BY FramesCutStream, InvReadAsWritten, PTL
=============================================================================
