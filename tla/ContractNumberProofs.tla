------------------------ MODULE ContractNumberProofs ------------------------
(***************************************************************************)
(* For texts of any length: normalize_nomer computes the normal form of    *)
(* every segment, changes nothing the second time and keeps every segment  *)
(* that has something to search for; and what _shift_last_segment makes of *)
(* a normalised number is its neighbour, and normalised.  Every function   *)
(* of the model is a loop over the characters, or over the segments, so a  *)
(* proof about one is an induction over its passes.                        *)
(***************************************************************************)
EXTENDS MCContractNumber, SequenceTheorems, LoopInduction

Char  == Alphabet \cup {Space, "-"} \cup ToSet(Digits)
Texts == Seq(Char)
Lists == Seq(Texts)
Filled == Lists \ {<< >>}

LEMMA CharFacts ==
  /\ Space \in Char /\ "-" \in Char /\ "0" \in Char
  /\ \A ch \in ToSet(Digits) : ch \in Char
  /\ Space \in Blank /\ "-" \in Dashes
  /\ \A ch \in Blank : ch \notin Dashes
<1>1. "0" \in ToSet(Digits)
  <2>1. 1 \in DOMAIN Digits /\ Digits[1] = "0"
    BY DEF Digits
  <2> QED
    BY <2>1 DEF ToSet
<1> QED
  BY <1>1, NumberAssumption DEF Char

LEMMA TextFacts ==
  ASSUME NEW s \in Texts
  PROVE  /\ Len(s) \in Nat
         /\ DOMAIN s = 1..Len(s)
         /\ \A i \in 1..Len(s) : s[i] \in Char
         /\ s = << >> <=> Len(s) = 0
  BY DEF Texts

LEMMA AppendFacts ==
  ASSUME NEW s \in Texts, NEW ch \in Char
  PROVE  /\ Append(s, ch) \in Texts
         /\ Len(Append(s, ch)) = Len(s) + 1
         /\ DOMAIN Append(s, ch) = 1..Len(s) + 1
         /\ Append(s, ch) # << >>
         /\ \A i \in 1..Len(s) : Append(s, ch)[i] = s[i]
         /\ Append(s, ch)[Len(s) + 1] = ch
         /\ Last(Append(s, ch)) = ch
  BY DEF Texts, Last

LEMMA PrefixFacts ==
  ASSUME NEW X, NEW s \in Seq(X), NEW n \in 0..Len(s)
  PROVE  /\ SubSeq(s, 1, n) \in Seq(X)
         /\ Len(SubSeq(s, 1, n)) = n
         /\ \A i \in 1..n : SubSeq(s, 1, n)[i] = s[i]
<1>1. /\ SubSeq(s, 1, n) \in Seq(X)
      /\ Len(SubSeq(s, 1, n)) = IF 1 <= n THEN n - 1 + 1 ELSE 0
      /\ \A i \in 1..Len(SubSeq(s, 1, n)) : SubSeq(s, 1, n)[i] = s[1 + i - 1]
  BY SubSeqProperties
<1> QED
  BY <1>1

LEMMA ListFacts ==
  ASSUME NEW parts \in Lists
  PROVE  /\ Len(parts) \in Nat
         /\ DOMAIN parts = 1..Len(parts)
         /\ \A i \in 1..Len(parts) : parts[i] \in Texts
         /\ parts = << >> <=> Len(parts) = 0
  BY DEF Lists

\* What one more character makes of a list of parts.
LEMMA PutSplitFacts ==
  ASSUME NEW parts \in Lists \ {<< >>}, NEW ch \in Char, NEW separators
  PROVE  /\ PutSplit(parts, ch, separators) \in Lists \ {<< >>}
         /\ ch \in separators =>
              /\ Len(PutSplit(parts, ch, separators)) = Len(parts) + 1
              /\ \A j \in 1..Len(parts) : PutSplit(parts, ch, separators)[j] = parts[j]
              /\ PutSplit(parts, ch, separators)[Len(parts) + 1] = << >>
         /\ ch \notin separators =>
              /\ Len(PutSplit(parts, ch, separators)) = Len(parts)
              /\ \A j \in 1..Len(parts) - 1 : PutSplit(parts, ch, separators)[j] = parts[j]
              /\ PutSplit(parts, ch, separators)[Len(parts)] = Append(parts[Len(parts)], ch)
<1>0. /\ Len(parts) \in Nat \ {0}
      /\ parts[Len(parts)] \in Texts
      /\ parts \in Lists
  BY ListFacts
<1>1. CASE ch \in separators
  <2>1. << >> \in Texts
    BY DEF Texts
  <2> QED
    BY <1>0, <1>1, <2>1, AppendProperties DEF PutSplit, Lists
<1>2. CASE ch \notin separators
  <2>1. Append(parts[Len(parts)], ch) \in Texts
    BY <1>0, AppendFacts
  <2>2. /\ Front(parts) \in Lists
        /\ Len(Front(parts)) = Len(parts) - 1
        /\ \A j \in 1..Len(parts) - 1 : Front(parts)[j] = parts[j]
    <3>1. Len(parts) - 1 \in 0..Len(parts) /\ parts \in Seq(Texts)
      BY <1>0 DEF Lists
    <3> QED
      BY <3>1, PrefixFacts DEF Front, Lists
  <2>3. PutSplit(parts, ch, separators) = Append(Front(parts), Append(parts[Len(parts)], ch))
    BY <1>2 DEF PutSplit, Last
  <2> HIDE DEF Front
  <2> QED
    BY <1>0, <1>2, <2>1, <2>2, <2>3, AppendProperties DEF Lists
<1> QED
  BY <1>1, <1>2

-----------------------------------------------------------------------------
(* The loops.                                                              *)

LEMMA CollapseLoop ==
  ASSUME NEW s \in Texts
  PROVE  \E texts \in [0..Len(s) -> Texts] :
           /\ texts[0] = << >>
           /\ \A i \in 1..Len(s) : texts[i] = PutCollapsed(texts[i - 1], s[i])
           /\ Collapse(s) = texts[Len(s)]
<1> DEFINE n == Len(s)
           Pass(i, v) == PutCollapsed(v, s[i])
           step == [i \in 1..n |-> [v \in Texts |-> Pass(i, v)]]
           IsText(f) == f = [i \in 0..n |-> IF i = 0 THEN << >> ELSE Pass(i, f[i - 1])]
           texts == CHOOSE f : IsText(f)
<1>0. n \in Nat /\ << >> \in Texts
  BY TextFacts DEF Texts
<1>1. ASSUME NEW i \in 1..n, NEW v \in Texts
      PROVE  Pass(i, v) \in Texts
  BY TextFacts, AppendFacts, CharFacts DEF PutCollapsed
<1>2. Collapse(s) = texts[n]
  BY DEF Collapse
<1> HIDE DEF n, Pass
<1>3. step \in [1..n -> [Texts -> Texts]]
  BY <1>1
<1>4. PICK values \in [0..n -> Texts] : IsLoop(values, n, << >>, step)
  <2> HIDE DEF step
  <2> QED
    BY <1>0, <1>3, LoopExists
<1>5. ASSUME NEW i \in 1..n
      PROVE  values[i] = Pass(i, values[i - 1])
  <2>1. values[i - 1] \in Texts
    BY <1>0
  <2> QED
    BY <1>4, <2>1 DEF IsLoop
<1>6. IsText(values)
  BY <1>0, <1>4, <1>5 DEF IsLoop
<1>7. IsText(texts)
  <2> HIDE DEF IsText
  <2> QED
    BY <1>6, Zenon
<1> HIDE DEF texts
<1>8. texts[0] = << >> /\ \A i \in 1..n : texts[i] = Pass(i, texts[i - 1])
  BY <1>0, <1>7
<1>9. texts \in [0..n -> Texts]
  <2>1. texts = [i \in 0..n |-> texts[i]]
    BY <1>7
  <2>2. \A i \in 1..n : texts[i - 1] \in Texts => texts[i] \in Texts
    BY <1>1, <1>8
  <2> QED
    BY <1>0, <1>8, <2>1, <2>2, LoopTyped, Zenon
<1> QED
  BY <1>2, <1>8, <1>9 DEF n, Pass

LEMMA TightenLoop ==
  ASSUME NEW s \in Texts
  PROVE  \E texts \in [0..Len(s) -> Texts] :
           /\ texts[0] = << >>
           /\ \A i \in 1..Len(s) : texts[i] = PutTight(texts[i - 1], s, i)
           /\ TightenDashes(s) = texts[Len(s)]
<1> DEFINE n == Len(s)
           Pass(i, v) == PutTight(v, s, i)
           step == [i \in 1..n |-> [v \in Texts |-> Pass(i, v)]]
           IsText(f) == f = [i \in 0..n |-> IF i = 0 THEN << >> ELSE Pass(i, f[i - 1])]
           texts == CHOOSE f : IsText(f)
<1>0. n \in Nat /\ << >> \in Texts
  BY TextFacts DEF Texts
<1>1. ASSUME NEW i \in 1..n, NEW v \in Texts
      PROVE  Pass(i, v) \in Texts
  BY TextFacts, AppendFacts DEF PutTight
<1>2. TightenDashes(s) = texts[n]
  BY DEF TightenDashes
<1> HIDE DEF n, Pass
<1>3. step \in [1..n -> [Texts -> Texts]]
  BY <1>1
<1>4. PICK values \in [0..n -> Texts] : IsLoop(values, n, << >>, step)
  <2> HIDE DEF step
  <2> QED
    BY <1>0, <1>3, LoopExists
<1>5. ASSUME NEW i \in 1..n
      PROVE  values[i] = Pass(i, values[i - 1])
  <2>1. values[i - 1] \in Texts
    BY <1>0
  <2> QED
    BY <1>4, <2>1 DEF IsLoop
<1>6. IsText(values)
  BY <1>0, <1>4, <1>5 DEF IsLoop
<1>7. IsText(texts)
  <2> HIDE DEF IsText
  <2> QED
    BY <1>6, Zenon
<1> HIDE DEF texts
<1>8. texts[0] = << >> /\ \A i \in 1..n : texts[i] = Pass(i, texts[i - 1])
  BY <1>0, <1>7
<1>9. texts \in [0..n -> Texts]
  <2>1. texts = [i \in 0..n |-> texts[i]]
    BY <1>7
  <2>2. \A i \in 1..n : texts[i - 1] \in Texts => texts[i] \in Texts
    BY <1>1, <1>8
  <2> QED
    BY <1>0, <1>8, <2>1, <2>2, LoopTyped, Zenon
<1> QED
  BY <1>2, <1>8, <1>9 DEF n, Pass

LEMMA WithoutZerosLoop ==
  ASSUME NEW s \in Texts
  PROVE  \E texts \in [0..Len(s) -> Texts] :
           /\ texts[0] = << >>
           /\ \A i \in 1..Len(s) : texts[i] = PutUnlessZero(texts[i - 1], s[i])
           /\ WithoutZeros(s) = texts[Len(s)]
<1> DEFINE n == Len(s)
           Pass(i, v) == PutUnlessZero(v, s[i])
           step == [i \in 1..n |-> [v \in Texts |-> Pass(i, v)]]
           IsText(f) == f = [i \in 0..n |-> IF i = 0 THEN << >> ELSE Pass(i, f[i - 1])]
           texts == CHOOSE f : IsText(f)
<1>0. n \in Nat /\ << >> \in Texts
  BY TextFacts DEF Texts
<1>1. ASSUME NEW i \in 1..n, NEW v \in Texts
      PROVE  Pass(i, v) \in Texts
  BY TextFacts, AppendFacts DEF PutUnlessZero
<1>2. WithoutZeros(s) = texts[n]
  BY DEF WithoutZeros
<1> HIDE DEF n, Pass
<1>3. step \in [1..n -> [Texts -> Texts]]
  BY <1>1
<1>4. PICK values \in [0..n -> Texts] : IsLoop(values, n, << >>, step)
  <2> HIDE DEF step
  <2> QED
    BY <1>0, <1>3, LoopExists
<1>5. ASSUME NEW i \in 1..n
      PROVE  values[i] = Pass(i, values[i - 1])
  <2>1. values[i - 1] \in Texts
    BY <1>0
  <2> QED
    BY <1>4, <2>1 DEF IsLoop
<1>6. IsText(values)
  BY <1>0, <1>4, <1>5 DEF IsLoop
<1>7. IsText(texts)
  <2> HIDE DEF IsText
  <2> QED
    BY <1>6, Zenon
<1> HIDE DEF texts
<1>8. texts[0] = << >> /\ \A i \in 1..n : texts[i] = Pass(i, texts[i - 1])
  BY <1>0, <1>7
<1>9. texts \in [0..n -> Texts]
  <2>1. texts = [i \in 0..n |-> texts[i]]
    BY <1>7
  <2>2. \A i \in 1..n : texts[i - 1] \in Texts => texts[i] \in Texts
    BY <1>1, <1>8
  <2> QED
    BY <1>0, <1>8, <2>1, <2>2, LoopTyped, Zenon
<1> QED
  BY <1>2, <1>8, <1>9 DEF n, Pass

LEMMA SplitLoop ==
  ASSUME NEW s \in Texts, NEW separators
  PROVE  \E parts \in [0..Len(s) -> Filled] :
           /\ parts[0] = << << >> >>
           /\ \A i \in 1..Len(s) : parts[i] = PutSplit(parts[i - 1], s[i], separators)
           /\ SplitAt(s, separators) = parts[Len(s)]
<1> DEFINE n == Len(s)
           Pass(i, v) == PutSplit(v, s[i], separators)
           step == [i \in 1..n |-> [v \in Filled |-> Pass(i, v)]]
           IsText(f) == f = [i \in 0..n |-> IF i = 0 THEN << << >> >> ELSE Pass(i, f[i - 1])]
           parts == CHOOSE f : IsText(f)
<1>0. n \in Nat /\ << << >> >> \in Filled
  BY TextFacts DEF Texts, Lists, Filled
<1>1. ASSUME NEW i \in 1..n, NEW v \in Filled
      PROVE  Pass(i, v) \in Filled
  BY TextFacts, PutSplitFacts DEF Filled
<1>2. SplitAt(s, separators) = parts[n]
  BY DEF SplitAt
<1> HIDE DEF n, Pass
<1>3. step \in [1..n -> [Filled -> Filled]]
  BY <1>1
<1>4. PICK values \in [0..n -> Filled] : IsLoop(values, n, << << >> >>, step)
  <2> HIDE DEF step
  <2> QED
    BY <1>0, <1>3, LoopExists
<1>5. ASSUME NEW i \in 1..n
      PROVE  values[i] = Pass(i, values[i - 1])
  <2>1. values[i - 1] \in Filled
    BY <1>0
  <2> QED
    BY <1>4, <2>1 DEF IsLoop
<1>6. IsText(values)
  BY <1>0, <1>4, <1>5 DEF IsLoop
<1>7. IsText(parts)
  <2> HIDE DEF IsText
  <2> QED
    BY <1>6, Zenon
<1> HIDE DEF parts
<1>8. parts[0] = << << >> >> /\ \A i \in 1..n : parts[i] = Pass(i, parts[i - 1])
  BY <1>0, <1>7
<1>9. parts \in [0..n -> Filled]
  <2>1. parts = [i \in 0..n |-> parts[i]]
    BY <1>7
  <2>2. \A i \in 1..n : parts[i - 1] \in Filled => parts[i] \in Filled
    BY <1>1, <1>8
  <2> QED
    BY <1>0, <1>8, <2>1, <2>2, LoopTyped, Zenon
<1> QED
  BY <1>2, <1>8, <1>9 DEF n, Pass

LEMMA PutJoinedType ==
  ASSUME NEW texts \in Texts, NEW part \in Texts, NEW i
  PROVE  PutJoined(texts, part, i) \in Texts
<1>1. Append(texts, "-") \in Texts
  BY CharFacts, AppendFacts
<1>2. Append(texts, "-") \o part \in Texts
  BY <1>1 DEF Texts
<1> QED
  BY <1>2 DEF PutJoined

LEMMA JoinLoop ==
  ASSUME NEW parts \in Lists
  PROVE  \E texts \in [0..Len(parts) -> Texts] :
           /\ texts[0] = << >>
           /\ \A i \in 1..Len(parts) : texts[i] = PutJoined(texts[i - 1], parts[i], i)
           /\ JoinDashes(parts) = texts[Len(parts)]
<1> DEFINE n == Len(parts)
           Pass(i, v) == PutJoined(v, parts[i], i)
           step == [i \in 1..n |-> [v \in Texts |-> Pass(i, v)]]
           IsText(f) == f = [i \in 0..n |-> IF i = 0 THEN << >> ELSE Pass(i, f[i - 1])]
           texts == CHOOSE f : IsText(f)
<1>0. n \in Nat /\ << >> \in Texts
  BY ListFacts DEF Texts
<1>1. ASSUME NEW i \in 1..n, NEW v \in Texts
      PROVE  Pass(i, v) \in Texts
  BY ListFacts, PutJoinedType
<1>2. JoinDashes(parts) = texts[n]
  BY DEF JoinDashes
<1> HIDE DEF n, Pass
<1>3. step \in [1..n -> [Texts -> Texts]]
  BY <1>1
<1>4. PICK values \in [0..n -> Texts] : IsLoop(values, n, << >>, step)
  <2> HIDE DEF step
  <2> QED
    BY <1>0, <1>3, LoopExists
<1>5. ASSUME NEW i \in 1..n
      PROVE  values[i] = Pass(i, values[i - 1])
  <2>1. values[i - 1] \in Texts
    BY <1>0
  <2> QED
    BY <1>4, <2>1 DEF IsLoop
<1>6. IsText(values)
  BY <1>0, <1>4, <1>5 DEF IsLoop
<1>7. IsText(texts)
  <2> HIDE DEF IsText
  <2> QED
    BY <1>6, Zenon
<1> HIDE DEF texts
<1>8. texts[0] = << >> /\ \A i \in 1..n : texts[i] = Pass(i, texts[i - 1])
  BY <1>0, <1>7
<1>9. texts \in [0..n -> Texts]
  <2>1. texts = [i \in 0..n |-> texts[i]]
    BY <1>7
  <2>2. \A i \in 1..n : texts[i - 1] \in Texts => texts[i] \in Texts
    BY <1>1, <1>8
  <2> QED
    BY <1>0, <1>8, <2>1, <2>2, LoopTyped, Zenon
<1> QED
  BY <1>2, <1>8, <1>9 DEF n, Pass

-----------------------------------------------------------------------------
(* What every substitution achieves, one after the other.                  *)

SolidAt(s, i) == i \in DOMAIN s /\ s[i] \notin Blank

Trimmed(s) == s # << >> => SolidAt(s, 1) /\ SolidAt(s, Len(s))

\* Nothing blank but single spaces inside.
Spaced(s) ==
  \A i \in DOMAIN s :
    s[i] \in Blank => s[i] = Space /\ SolidAt(s, i - 1) /\ SolidAt(s, i + 1)

OneDash(s) == \A i \in DOMAIN s : s[i] \in Dashes => s[i] = "-"

\* And no space next to a dash.
Neat(s) ==
  /\ Spaced(s) /\ OneDash(s)
  /\ \A i \in DOMAIN s : s[i] = Space => ~IsDash(s, i - 1) /\ ~IsDash(s, i + 1)

LEMMA GreatestExists ==
  ASSUME NEW n \in Nat, NEW T, T \subseteq 1..n, T # {}
  PROVE  \E m \in T : \A i \in T : i <= m
<1> DEFINE R == {n - i : i \in T}
<1>0. \A i \in T : i \in 1..n /\ n - i \in Nat
  OBVIOUS
<1>1. R \subseteq Nat /\ R # {}
  BY <1>0, Zenon
<1>2. PICK r \in R : \A q \in R : r <= q
  <2> HIDE DEF R
  <2> QED
    BY <1>1, LeastExists
<1>3. PICK m \in T : r = n - m
  BY <1>2
<1>4. ASSUME NEW i \in T
      PROVE  i <= m
  <2>1. n - m <= n - i
    BY <1>2, <1>3
  <2> QED
    BY <1>0, <2>1
<1> QED
  BY <1>4

\* Strip cuts off blanks, up to the first and from the last solid character.
LEMMA StripForm ==
  ASSUME NEW s \in Texts
  PROVE  \/ /\ \A i \in 1..Len(s) : s[i] \in Blank
            /\ Strip(s) = << >>
         \/ \E from \in 1..Len(s), to \in 1..Len(s) :
              /\ from <= to
              /\ s[from] \notin Blank /\ s[to] \notin Blank
              /\ \A i \in 1..Len(s) : i < from \/ i > to => s[i] \in Blank
              /\ Strip(s) = SubSeq(s, from, to)
<1> DEFINE n == Len(s)
           solid == {i \in DOMAIN s : s[i] \notin Blank}
           from == CHOOSE i \in solid : \A j \in solid : i <= j
           to == CHOOSE i \in solid : \A j \in solid : i >= j
<1>0. n \in Nat /\ DOMAIN s = 1..n /\ solid \subseteq 1..n
  BY TextFacts
<1>1. CASE solid = {}
  <2>1. Strip(s) = << >>
    BY <1>1 DEF Strip
  <2> QED
    BY <1>0, <1>1, <2>1
<1>2. CASE solid # {}
  <2>1. Strip(s) = SubSeq(s, from, to)
    BY <1>2 DEF Strip
  <2>2. from \in solid /\ \A j \in solid : from <= j
    <3>1. \E i \in solid : \A j \in solid : i <= j
      <4>1. solid \subseteq Nat
        BY <1>0
      <4> HIDE DEF solid
      <4> QED
        BY <1>2, <4>1, LeastExists
    <3> HIDE DEF solid
    <3> QED
      BY <3>1
  <2>3. to \in solid /\ \A j \in solid : to >= j
    <3>1. \E i \in solid : \A j \in solid : j <= i
      <4> HIDE DEF solid, n
      <4> QED
        BY <1>0, <1>2, GreatestExists
    <3>2. \A i, j \in solid : j <= i <=> i >= j
      BY <1>0
    <3>3. \E i \in solid : \A j \in solid : i >= j
      BY <3>1, <3>2
    <3> HIDE DEF solid
    <3> QED
      BY <3>3
  <2> HIDE DEF from, to
  <2>4. \A i \in 1..n : i < from \/ i > to => s[i] \in Blank
    BY <1>0, <2>2, <2>3
  <2>5. /\ from \in 1..n /\ to \in 1..n /\ from <= to
        /\ s[from] \notin Blank /\ s[to] \notin Blank
    BY <1>0, <2>2, <2>3
  <2> QED
    BY <2>1, <2>4, <2>5
<1> QED
  BY <1>1, <1>2

\* A part of a text, character by character.
LEMMA PartFacts ==
  ASSUME NEW s \in Texts, NEW m \in 1..Len(s) + 1, NEW n \in 0..Len(s), m <= n + 1
  PROVE  /\ SubSeq(s, m, n) \in Texts
         /\ Len(SubSeq(s, m, n)) = n - m + 1
         /\ \A i \in 1..n - m + 1 : SubSeq(s, m, n)[i] = s[m + i - 1]
<1>1. Len(s) \in Nat
  BY TextFacts
<1>2. /\ SubSeq(s, m, n) \in Seq(Char)
      /\ Len(SubSeq(s, m, n)) = IF m <= n THEN n - m + 1 ELSE 0
      /\ \A i \in 1..Len(SubSeq(s, m, n)) : SubSeq(s, m, n)[i] = s[m + i - 1]
  BY SubSeqProperties DEF Texts
<1> QED
  BY <1>1, <1>2 DEF Texts

LEMMA StripTrims ==
  ASSUME NEW s \in Texts
  PROVE  Strip(s) \in Texts /\ Trimmed(Strip(s))
<1>1. CASE Strip(s) = << >>
  BY <1>1 DEF Texts, Trimmed
<1>2. ASSUME NEW from \in 1..Len(s), NEW to \in 1..Len(s),
             from <= to, s[from] \notin Blank, s[to] \notin Blank,
             Strip(s) = SubSeq(s, from, to)
      PROVE  Strip(s) \in Texts /\ Trimmed(Strip(s))
  <2>0. Len(s) \in Nat
    BY TextFacts
  <2>1. /\ Strip(s) \in Texts
        /\ Len(Strip(s)) = to - from + 1
        /\ \A i \in 1..to - from + 1 : Strip(s)[i] = s[from + i - 1]
    BY <1>2, <2>0, PartFacts
  <2>2. Strip(s)[1] = s[from] /\ Strip(s)[to - from + 1] = s[to]
    BY <1>2, <2>0, <2>1
  <2>3. DOMAIN Strip(s) = 1..to - from + 1
    BY <2>1, TextFacts
  <2> QED
    BY <1>2, <2>0, <2>1, <2>2, <2>3 DEF Trimmed, SolidAt
<1> QED
  BY <1>1, <1>2, StripForm

\* Half of Spaced: the half that a text has while it grows.
LeftSpaced(s) ==
  \A i \in DOMAIN s : s[i] \in Blank => s[i] = Space /\ SolidAt(s, i - 1)

LEMMA AppendKeepsSolid ==
  ASSUME NEW t \in Texts, NEW ch \in Char, NEW i, SolidAt(t, i)
  PROVE  SolidAt(Append(t, ch), i)
  BY AppendFacts, TextFacts DEF SolidAt

LEMMA LastFacts ==
  ASSUME NEW t \in Texts, t # << >>
  PROVE  Len(t) \in DOMAIN t /\ Last(t) = t[Len(t)] /\ Last(t) \in Char
  BY TextFacts DEF Last

LEMMA AppendKeepsSpaced ==
  ASSUME NEW t \in Texts, LeftSpaced(t), NEW ch \in Char,
         ch \in Blank => ch = Space /\ t # << >> /\ Last(t) \notin Blank
  PROVE  LeftSpaced(Append(t, ch))
<1> DEFINE u == Append(t, ch)
<1>0. Len(t) \in Nat /\ DOMAIN t = 1..Len(t)
  BY TextFacts
<1>1. /\ DOMAIN u = 1..Len(t) + 1
      /\ \A i \in 1..Len(t) : u[i] = t[i]
      /\ u[Len(t) + 1] = ch
  BY AppendFacts
<1>2. \A i : SolidAt(t, i) => SolidAt(u, i)
  BY AppendKeepsSolid
<1> HIDE DEF u
<1>3. ASSUME NEW j \in 1..Len(t) + 1, u[j] \in Blank
      PROVE  u[j] = Space /\ SolidAt(u, j - 1)
  <2>1. CASE j = Len(t) + 1
    <3>1. SolidAt(t, Len(t)) /\ ch = Space
      BY <1>1, <1>3, <2>1, LastFacts DEF SolidAt
    <3>2. j - 1 = Len(t)
      BY <1>0, <2>1
    <3> QED
      BY <1>1, <1>2, <2>1, <3>1, <3>2
  <2>2. CASE j \in DOMAIN t
    <3>1. u[j] = t[j]
      BY <1>0, <1>1, <2>2
    <3> QED
      BY <1>2, <1>3, <2>2, <3>1 DEF LeftSpaced
  <2> QED
    BY <1>0, <1>1, <2>1, <2>2
<1> QED
  BY <1>1, <1>3 DEF LeftSpaced, u

\* One pass of Collapse.
LEMMA PutCollapsedKeeps ==
  ASSUME NEW t \in Texts, LeftSpaced(t), NEW ch \in Char,
         t = << >> => ch \notin Blank
  PROVE  /\ LeftSpaced(PutCollapsed(t, ch))
         /\ PutCollapsed(t, ch) # << >>
         /\ Last(PutCollapsed(t, ch)) \in Blank <=> ch \in Blank
<1>1. CASE ch \notin Blank
  <2>1. PutCollapsed(t, ch) = Append(t, ch)
    BY <1>1 DEF PutCollapsed
  <2> QED
    BY <1>1, <2>1, AppendKeepsSpaced, AppendFacts
<1>2. CASE ch \in Blank /\ Last(t) = Space
  <2>1. PutCollapsed(t, ch) = t /\ t # << >>
    BY <1>2 DEF PutCollapsed
  <2> QED
    BY <1>2, <2>1, CharFacts
<1>3. CASE ch \in Blank /\ Last(t) # Space
  <2>1. PutCollapsed(t, ch) = Append(t, Space) /\ t # << >>
    BY <1>3 DEF PutCollapsed
  <2>2. Last(t) \notin Blank
    BY <1>3, <2>1, LastFacts DEF LeftSpaced
  <2>3. LeftSpaced(Append(t, Space))
    BY <2>1, <2>2, CharFacts, AppendKeepsSpaced
  <2> QED
    <3>1. /\ Append(t, Space) # << >>
          /\ Last(Append(t, Space)) = Space
      BY CharFacts, AppendFacts
    <3> QED
      BY <1>3, <2>1, <2>3, <3>1, CharFacts
<1> QED
  BY <1>1, <1>2, <1>3

LEMMA SpacedWhole ==
  ASSUME NEW t \in Texts, LeftSpaced(t), t # << >> => Last(t) \notin Blank
  PROVE  Spaced(t)
<1>0. Len(t) \in Nat /\ DOMAIN t = 1..Len(t)
  BY TextFacts
<1>1. ASSUME NEW j \in DOMAIN t, t[j] \in Blank
      PROVE  SolidAt(t, j + 1)
  <2>1. j # Len(t)
    BY <1>0, <1>1, LastFacts
  <2>2. j + 1 \in DOMAIN t /\ (j + 1) - 1 = j
    BY <1>0, <2>1
  <2>3. t[j + 1] \notin Blank
    BY <1>1, <2>2 DEF LeftSpaced, SolidAt
  <2> QED
    BY <2>2, <2>3 DEF SolidAt
<1> QED
  BY <1>1 DEF LeftSpaced, Spaced

LEMMA CollapseSpaces ==
  ASSUME NEW s \in Texts, Trimmed(s)
  PROVE  Collapse(s) \in Texts /\ Spaced(Collapse(s))
<1> DEFINE n == Len(s)
<1>0. n \in Nat /\ DOMAIN s = 1..n /\ \A i \in 1..n : s[i] \in Char
  BY TextFacts
<1>1. PICK texts \in [0..n -> Texts] :
        /\ texts[0] = << >>
        /\ \A i \in 1..n : texts[i] = PutCollapsed(texts[i - 1], s[i])
        /\ Collapse(s) = texts[n]
  BY CollapseLoop
<1> HIDE DEF n
<1> DEFINE Good(i) == /\ LeftSpaced(texts[i])
                      /\ i # 0 => /\ texts[i] # << >>
                                  /\ Last(texts[i]) \in Blank <=> s[i] \in Blank
           Goods == {i \in 0..n : Good(i)}
<1>2. ASSUME NEW i \in 1..n, Good(i - 1)
      PROVE  Good(i)
  <2>1. texts[i - 1] \in Texts /\ s[i] \in Char
    BY <1>0
  <2>2. texts[i - 1] = << >> => s[i] \notin Blank
    <3>1. texts[i - 1] = << >> => i = 1
      BY <1>2
    <3>2. s # << >> /\ 1 \in 1..n
      BY <1>0, TextFacts DEF n
    <3> QED
      BY <3>1, <3>2 DEF Trimmed, SolidAt
  <2> QED
    BY <1>1, <1>2, <2>1, <2>2, PutCollapsedKeeps
<1>3. Good(n)
  <2>1. Good(0)
    BY <1>1 DEF LeftSpaced
  <2> HIDE DEF Good
  <2>2. 0 \in Goods /\ \A i \in 1..n : i - 1 \in Goods => i \in Goods
    BY <1>0, <1>2, <2>1
  <2> HIDE DEF Goods
  <2>3. \A i \in 0..n : i \in Goods
    BY <1>0, <2>2, LoopInvariant, Zenon
  <2> QED
    BY <1>0, <2>3 DEF Goods
<1>4. texts[n] # << >> => Last(texts[n]) \notin Blank
  <2>1. n # 0 => s[n] \notin Blank
    BY <1>0, TextFacts DEF Trimmed, SolidAt, n
  <2> QED
    BY <1>0, <1>1, <1>3, <2>1
<1>5. texts[n] \in Texts
  BY <1>0
<1> QED
  BY <1>1, <1>3, <1>4, <1>5, SpacedWhole

LEMMA UnifyFacts ==
  ASSUME NEW s \in Texts
  PROVE  /\ UnifyDashes(s) \in Texts
         /\ Len(UnifyDashes(s)) = Len(s)
         /\ DOMAIN UnifyDashes(s) = DOMAIN s
         /\ \A i \in DOMAIN s :
              UnifyDashes(s)[i] = IF s[i] \in Dashes THEN "-" ELSE s[i]
<1>1. DOMAIN s = 1..Len(s) /\ Len(s) \in Nat
  BY TextFacts
<1>2. \A i \in 1..Len(s) : (IF s[i] \in Dashes THEN "-" ELSE s[i]) \in Char
  BY TextFacts, CharFacts
<1>3. UnifyDashes(s) \in [1..Len(s) -> Char]
  BY <1>1, <1>2 DEF UnifyDashes
<1>4. UnifyDashes(s) \in Texts /\ Len(UnifyDashes(s)) = Len(s)
  BY <1>1, <1>3 DEF Texts
<1> QED
  BY <1>1, <1>4 DEF UnifyDashes

LEMMA UnifyKeepsSpaced ==
  ASSUME NEW s \in Texts, Spaced(s)
  PROVE  Spaced(UnifyDashes(s)) /\ OneDash(UnifyDashes(s))
<1> DEFINE t == UnifyDashes(s)
<1>1. /\ DOMAIN t = DOMAIN s
      /\ \A i \in DOMAIN s : t[i] = IF s[i] \in Dashes THEN "-" ELSE s[i]
  BY UnifyFacts
<1> HIDE DEF t
<1>2. \A i \in DOMAIN s : t[i] \in Blank <=> s[i] \in Blank
  BY <1>1, CharFacts
<1>3. Spaced(t)
  BY <1>1, <1>2, CharFacts DEF Spaced, SolidAt
<1>4. OneDash(t)
  BY <1>1 DEF OneDash
<1> QED
  BY <1>3, <1>4 DEF t

\* No space next to a dash, read from left to right.
Apart(s) ==
  \A i \in DOMAIN s :
    i - 1 \in DOMAIN s => /\ ~(s[i - 1] = Space /\ s[i] = "-")
                          /\ ~(s[i - 1] = "-" /\ s[i] = Space)

\* What TightenDashes keeps of its result while it grows, and how the end of
\* the result depends on the character that was read last.
Tight(t) == LeftSpaced(t) /\ OneDash(t) /\ Apart(t)

Follows(t, s, i) ==
  /\ t # << >>
  /\ s[i] # Space => Last(t) = s[i]
  /\ Last(t) = Space => s[i] = Space /\ ~IsDash(s, i + 1)

LEMMA SpaceIsNoDash == Space # "-" /\ Space \notin Dashes
  BY NumberAssumption

LEMMA AppendKeepsTight ==
  ASSUME NEW t \in Texts, Tight(t), NEW ch \in Char,
         ch \in Blank => ch = Space /\ t # << >> /\ Last(t) \notin Blank /\ Last(t) # "-",
         ch \in Dashes => ch = "-" /\ (t # << >> => Last(t) # Space)
  PROVE  Tight(Append(t, ch))
<1> DEFINE u == Append(t, ch)
<1>0. Len(t) \in Nat /\ DOMAIN t = 1..Len(t)
  BY TextFacts
<1>1. /\ DOMAIN u = 1..Len(t) + 1
      /\ \A i \in 1..Len(t) : u[i] = t[i]
      /\ u[Len(t) + 1] = ch
  BY AppendFacts
<1>2. LeftSpaced(u)
  BY AppendKeepsSpaced DEF Tight
<1> HIDE DEF u
<1>3. OneDash(u)
  <2>1. ASSUME NEW i \in 1..Len(t) + 1, u[i] \in Dashes
        PROVE  u[i] = "-"
    <3>1. CASE i = Len(t) + 1
      BY <1>1, <2>1, <3>1
    <3>2. CASE i \in 1..Len(t)
      BY <1>0, <1>1, <2>1, <3>2 DEF Tight, OneDash
    <3> QED
      BY <1>0, <3>1, <3>2
  <2> QED
    BY <1>1, <2>1 DEF OneDash
<1>4. Apart(u)
  <2>1. ASSUME NEW i \in 1..Len(t) + 1, i - 1 \in 1..Len(t) + 1
        PROVE  /\ ~(u[i - 1] = Space /\ u[i] = "-")
               /\ ~(u[i - 1] = "-" /\ u[i] = Space)
    <3>1. CASE i = Len(t) + 1
      <4>1. i - 1 = Len(t) /\ Len(t) \in 1..Len(t)
        BY <1>0, <2>1, <3>1
      <4>2. u[i - 1] = Last(t) /\ u[i] = ch /\ t # << >>
        BY <1>0, <1>1, <3>1, <4>1, TextFacts DEF Last
      <4> QED
        BY <4>2, CharFacts
    <3>2. CASE i \in 1..Len(t)
      <4>1. i - 1 \in 1..Len(t)
        BY <1>0, <2>1, <3>2
      <4> QED
        BY <1>0, <1>1, <3>2, <4>1 DEF Tight, Apart
    <3> QED
      BY <1>0, <3>1, <3>2
  <2> QED
    BY <1>1, <2>1 DEF Apart
<1> QED
  BY <1>2, <1>3, <1>4 DEF Tight, u

\* One pass of TightenDashes.
LEMMA PutTightKeeps ==
  ASSUME NEW s \in Texts, Spaced(s), OneDash(s),
         NEW t \in Texts, Tight(t), NEW i \in DOMAIN s,
         IF i = 1 THEN t = << >> ELSE Follows(t, s, i - 1)
  PROVE  Tight(PutTight(t, s, i)) /\ Follows(PutTight(t, s, i), s, i)
<1>0. /\ s[i] \in Char
      /\ s[i] \in Blank => s[i] = Space /\ SolidAt(s, i - 1) /\ SolidAt(s, i + 1)
      /\ s[i] \in Dashes => s[i] = "-"
  BY TextFacts DEF Spaced, OneDash
<1>1. /\ SolidAt(s, i - 1) => i # 1 /\ s[i - 1] \notin Blank
      /\ i - 1 \in DOMAIN s => i # 1
  BY TextFacts DEF SolidAt
<1>2. s[i] \in Blank =>
        t # << >> /\ Last(t) = s[i - 1] /\ Last(t) \notin Blank /\ Last(t) # Space
  BY <1>0, <1>1, CharFacts DEF Follows
<1>3. CASE s[i] # Space
  <2>1. PutTight(t, s, i) = Append(t, s[i])
    BY <1>3 DEF PutTight
  <2>2. s[i] \notin Blank
    BY <1>0, <1>3
  <2>3. s[i] \in Dashes => s[i] = "-" /\ (t # << >> => Last(t) # Space)
    <3>1. CASE i = 1
      BY <1>0, <3>1
    <3>2. CASE i # 1
      <4>1. (i - 1) + 1 = i
        BY TextFacts
      <4>2. Last(t) = Space => ~IsDash(s, i)
        BY <3>2, <4>1 DEF Follows
      <4> QED
        BY <1>0, <4>2 DEF IsDash
    <3> QED
      BY <3>1, <3>2
  <2>4. Tight(Append(t, s[i]))
    BY <1>0, <2>2, <2>3, AppendKeepsTight
  <2>5. Append(t, s[i]) # << >> /\ Last(Append(t, s[i])) = s[i]
    BY <1>0, AppendFacts
  <2> QED
    BY <1>3, <2>1, <2>4, <2>5 DEF Follows
<1>4. CASE s[i] = Space /\ (IsDash(s, i - 1) \/ IsDash(s, i + 1))
  <2>1. PutTight(t, s, i) = t
    BY <1>4 DEF PutTight
  <2> QED
    BY <1>2, <1>4, <2>1, CharFacts DEF Follows
<1>5. CASE s[i] = Space /\ ~(IsDash(s, i - 1) \/ IsDash(s, i + 1))
  <2>1. PutTight(t, s, i) = Append(t, s[i])
    BY <1>5 DEF PutTight
  <2>2. SolidAt(s, i - 1) /\ s[i] \in Blank
    BY <1>0, <1>5, CharFacts
  <2>3. Last(t) # "-"
    BY <1>2, <1>5, <2>2 DEF IsDash, SolidAt
  <2>4. Tight(Append(t, s[i]))
    BY <1>0, <1>2, <1>5, <2>2, <2>3, SpaceIsNoDash, AppendKeepsTight
  <2>5. Append(t, s[i]) # << >> /\ Last(Append(t, s[i])) = s[i]
    BY <1>0, AppendFacts
  <2> QED
    BY <1>5, <2>1, <2>4, <2>5 DEF Follows
<1> QED
  BY <1>3, <1>4, <1>5

LEMMA TightIsNeat ==
  ASSUME NEW t \in Texts, Tight(t), t # << >> => Last(t) # Space
  PROVE  Neat(t)
<1>0. Len(t) \in Nat /\ DOMAIN t = 1..Len(t)
  BY TextFacts
<1>1. Spaced(t)
  <2>1. t # << >> => Last(t) \notin Blank
    BY LastFacts DEF Tight, LeftSpaced
  <2> QED
    BY <2>1, SpacedWhole DEF Tight
<1>2. ASSUME NEW i \in DOMAIN t, t[i] = Space
      PROVE  ~IsDash(t, i - 1) /\ ~IsDash(t, i + 1)
  <2>1. ~IsDash(t, i - 1)
    BY <1>2 DEF Tight, Apart, IsDash
  <2>2. (i + 1) - 1 = i
    BY <1>0
  <2>3. ~IsDash(t, i + 1)
    BY <1>2, <2>2 DEF Tight, Apart, IsDash
  <2> QED
    BY <2>1, <2>3
<1> QED
  BY <1>1, <1>2 DEF Tight, Neat

LEMMA TightenMakesNeat ==
  ASSUME NEW s \in Texts, Spaced(s), OneDash(s)
  PROVE  TightenDashes(s) \in Texts /\ Neat(TightenDashes(s))
<1> DEFINE n == Len(s)
<1>0. n \in Nat /\ DOMAIN s = 1..n
  BY TextFacts
<1>1. PICK texts \in [0..n -> Texts] :
        /\ texts[0] = << >>
        /\ \A i \in 1..n : texts[i] = PutTight(texts[i - 1], s, i)
        /\ TightenDashes(s) = texts[n]
  BY TightenLoop
<1> HIDE DEF n
<1> DEFINE Good(i) == Tight(texts[i]) /\ (i # 0 => Follows(texts[i], s, i))
           Goods == {i \in 0..n : Good(i)}
<1>2. ASSUME NEW i \in 1..n, Good(i - 1)
      PROVE  Good(i)
  <2>1. texts[i - 1] \in Texts /\ i \in DOMAIN s /\ i # 0 /\ (i - 1 = 0 <=> i = 1)
    BY <1>0
  <2>2. IF i = 1 THEN texts[i - 1] = << >> ELSE Follows(texts[i - 1], s, i - 1)
    BY <1>1, <1>2, <2>1
  <2> QED
    BY <1>1, <1>2, <2>1, <2>2, PutTightKeeps
<1>3. Good(n)
  <2>1. Good(0)
    BY <1>1 DEF Tight, LeftSpaced, OneDash, Apart
  <2> HIDE DEF Good
  <2>2. 0 \in Goods /\ \A i \in 1..n : i - 1 \in Goods => i \in Goods
    BY <1>0, <1>2, <2>1
  <2> HIDE DEF Goods
  <2>3. \A i \in 0..n : i \in Goods
    BY <1>0, <2>2, LoopInvariant, Zenon
  <2> QED
    BY <1>0, <2>3 DEF Goods
<1>4. texts[n] # << >> => Last(texts[n]) # Space
  <2>1. n # 0 => s[n] # Space
    <3>1. n # 0 => n \in DOMAIN s /\ n + 1 \notin DOMAIN s
      BY <1>0
    <3> QED
      BY <3>1, CharFacts DEF Spaced, SolidAt
  <2> QED
    BY <1>0, <1>1, <1>3, <2>1 DEF Follows
<1>5. texts[n] \in Texts
  BY <1>0
<1> QED
  BY <1>1, <1>3, <1>4, <1>5, TightIsNeat

\* The text that is split into segments.
Cleaned(s) == TightenDashes(UnifyDashes(Collapse(Strip(s))))

LEMMA CleanedIsNeat ==
  ASSUME NEW s \in Texts
  PROVE  Cleaned(s) \in Texts /\ Neat(Cleaned(s))
<1>1. Strip(s) \in Texts /\ Trimmed(Strip(s))
  BY StripTrims
<1>2. Collapse(Strip(s)) \in Texts /\ Spaced(Collapse(Strip(s)))
  BY <1>1, CollapseSpaces
<1>3. /\ UnifyDashes(Collapse(Strip(s))) \in Texts
      /\ Spaced(UnifyDashes(Collapse(Strip(s))))
      /\ OneDash(UnifyDashes(Collapse(Strip(s))))
  BY <1>2, UnifyFacts, UnifyKeepsSpaced
<1> QED
  BY <1>3, TightenMakesNeat DEF Cleaned

-----------------------------------------------------------------------------
(* A neat text is left alone by every substitution.                        *)

LEMMA PrefixGrows ==
  ASSUME NEW X, NEW s \in Seq(X), NEW i \in 1..Len(s)
  PROVE  /\ SubSeq(s, 1, i - 1) \in Seq(X)
         /\ SubSeq(s, 1, i) = Append(SubSeq(s, 1, i - 1), s[i])
<1>0. Len(s) \in Nat /\ s[i] \in X
  OBVIOUS
<1>1. i - 1 \in 0..Len(s) /\ i \in 0..Len(s) /\ i \in Nat
  BY <1>0
<1> DEFINE p == SubSeq(s, 1, i - 1)
           q == SubSeq(s, 1, i)
<1>2. p \in Seq(X) /\ Len(p) = i - 1 /\ \A j \in 1..i - 1 : p[j] = s[j]
  BY <1>0, <1>1, PrefixFacts
<1>3. q \in Seq(X) /\ Len(q) = i /\ \A j \in 1..i : q[j] = s[j]
  BY <1>0, <1>1, PrefixFacts
<1> HIDE DEF p, q
<1>4. /\ Append(p, s[i]) \in Seq(X) /\ Len(Append(p, s[i])) = i
      /\ \A j \in 1..i - 1 : Append(p, s[i])[j] = s[j]
      /\ Append(p, s[i])[i] = s[i]
  <2>1. (i - 1) + 1 = i
    BY <1>1
  <2> QED
    BY <1>0, <1>2, <2>1, AppendProperties
<1>5. \A j \in 1..i : q[j] = Append(p, s[i])[j]
  <2>1. \A j \in 1..i : j = i \/ j \in 1..i - 1
    BY <1>1
  <2> QED
    BY <1>3, <1>4, <2>1
<1>6. q = Append(p, s[i])
  BY <1>3, <1>4, <1>5, SeqEqual
<1> QED
  BY <1>2, <1>6 DEF p, q

LEMMA PrefixEnds ==
  ASSUME NEW s \in Texts
  PROVE  SubSeq(s, 1, 0) = << >> /\ SubSeq(s, 1, Len(s)) = s
  BY SubSeqEmpty, SubSeqFull DEF Texts

\* A loop that adds a character in every pass rebuilds the text.
LEMMA PassesRebuild ==
  ASSUME NEW s \in Texts, NEW texts \in [0..Len(s) -> Texts],
         texts[0] = << >>,
         \A i \in 1..Len(s) :
           texts[i - 1] = SubSeq(s, 1, i - 1) => texts[i] = Append(texts[i - 1], s[i])
  PROVE  texts[Len(s)] = s
<1> DEFINE Same == {i \in 0..Len(s) : texts[i] = SubSeq(s, 1, i)}
<1>0. Len(s) \in Nat
  BY TextFacts
<1>1. 0 \in Same /\ \A i \in 1..Len(s) : i - 1 \in Same => i \in Same
  <2>1. 0 \in Same
    BY <1>0, PrefixEnds
  <2>2. ASSUME NEW i \in 1..Len(s), texts[i - 1] = SubSeq(s, 1, i - 1)
        PROVE  texts[i] = SubSeq(s, 1, i)
    BY <2>2, PrefixGrows DEF Texts
  <2> QED
    BY <1>0, <2>1, <2>2
<1> HIDE DEF Same
<1>2. \A i \in 0..Len(s) : i \in Same
  BY <1>0, <1>1, LoopInvariant, Zenon
<1>3. Len(s) \in Same
  BY <1>0, <1>2
<1> QED
  BY <1>3, PrefixEnds DEF Same

LEMMA PrefixLast ==
  ASSUME NEW s \in Texts, NEW i \in 1..Len(s), i - 1 \in DOMAIN s
  PROVE  SubSeq(s, 1, i - 1) # << >> /\ Last(SubSeq(s, 1, i - 1)) = s[i - 1]
<1>0. Len(s) \in Nat /\ i - 1 \in 1..Len(s) /\ s \in Seq(Char)
  BY TextFacts DEF Texts
<1>1. /\ SubSeq(s, 1, i - 1) \in Texts
      /\ Len(SubSeq(s, 1, i - 1)) = i - 1
      /\ \A j \in 1..i - 1 : SubSeq(s, 1, i - 1)[j] = s[j]
  <2>1. i - 1 \in 0..Len(s)
    BY <1>0
  <2> QED
    BY <1>0, <2>1, PrefixFacts DEF Texts
<1> QED
  BY <1>0, <1>1, TextFacts DEF Last

LEMMA CollapseNeat ==
  ASSUME NEW s \in Texts, Spaced(s)
  PROVE  Collapse(s) = s
<1>0. Len(s) \in Nat /\ DOMAIN s = 1..Len(s)
  BY TextFacts
<1>1. PICK texts \in [0..Len(s) -> Texts] :
        /\ texts[0] = << >>
        /\ \A i \in 1..Len(s) : texts[i] = PutCollapsed(texts[i - 1], s[i])
        /\ Collapse(s) = texts[Len(s)]
  BY CollapseLoop
<1>2. ASSUME NEW i \in 1..Len(s), texts[i - 1] = SubSeq(s, 1, i - 1)
      PROVE  texts[i] = Append(texts[i - 1], s[i])
  <2>1. CASE s[i] \notin Blank
    BY <1>1, <2>1 DEF PutCollapsed
  <2>2. CASE s[i] \in Blank
    <3>1. s[i] = Space /\ SolidAt(s, i - 1)
      BY <1>0, <2>2 DEF Spaced
    <3>2. Last(texts[i - 1]) # Space
      BY <1>2, <3>1, PrefixLast, CharFacts DEF SolidAt
    <3> QED
      BY <1>1, <2>2, <3>1, <3>2 DEF PutCollapsed
  <2> QED
    BY <2>1, <2>2
<1> QED
  BY <1>1, <1>2, PassesRebuild

LEMMA TightenNeat ==
  ASSUME NEW s \in Texts, Neat(s)
  PROVE  TightenDashes(s) = s
<1>0. Len(s) \in Nat /\ DOMAIN s = 1..Len(s)
  BY TextFacts
<1>1. PICK texts \in [0..Len(s) -> Texts] :
        /\ texts[0] = << >>
        /\ \A i \in 1..Len(s) : texts[i] = PutTight(texts[i - 1], s, i)
        /\ TightenDashes(s) = texts[Len(s)]
  BY TightenLoop
<1>2. ASSUME NEW i \in 1..Len(s)
      PROVE  texts[i] = Append(texts[i - 1], s[i])
  BY <1>0, <1>1 DEF PutTight, Neat
<1> QED
  BY <1>1, <1>2, PassesRebuild

LEMMA UnifyNeat ==
  ASSUME NEW s \in Texts, OneDash(s)
  PROVE  UnifyDashes(s) = s
<1>1. /\ UnifyDashes(s) \in Seq(Char) /\ s \in Seq(Char)
      /\ Len(UnifyDashes(s)) = Len(s)
      /\ \A i \in 1..Len(s) : UnifyDashes(s)[i] = s[i]
  BY UnifyFacts, TextFacts DEF OneDash, Texts
<1> QED
  BY <1>1, SeqEqual

LEMMA StripNeat ==
  ASSUME NEW s \in Texts, Spaced(s)
  PROVE  Strip(s) = s
<1>0. Len(s) \in Nat /\ DOMAIN s = 1..Len(s) /\ (s = << >> <=> Len(s) = 0)
  BY TextFacts
<1>1. \A i \in DOMAIN s : s[i] \in Blank => i - 1 \in DOMAIN s /\ i + 1 \in DOMAIN s
  BY DEF Spaced, SolidAt
<1>2. Len(s) # 0 => s[1] \notin Blank /\ s[Len(s)] \notin Blank
  BY <1>0, <1>1
<1>3. CASE \A i \in 1..Len(s) : s[i] \in Blank
  BY <1>0, <1>2, <1>3, StripForm
<1>4. ASSUME NEW from \in 1..Len(s), NEW to \in 1..Len(s),
             \A i \in 1..Len(s) : i < from \/ i > to => s[i] \in Blank,
             Strip(s) = SubSeq(s, from, to)
      PROVE  Strip(s) = s
  <2>0. 1 \in 1..Len(s) /\ Len(s) \in 1..Len(s)
    BY <1>0
  <2>1. ~(1 < from) /\ ~(Len(s) > to)
    BY <1>0, <1>2, <1>4, <2>0
  <2>2. from = 1 /\ to = Len(s)
    <3>1. Len(s) \in Nat
      BY <1>0
    <3>2. from >= 1 /\ to <= Len(s) /\ from \in Nat /\ to \in Nat
      BY <3>1
    <3> QED
      BY <2>1, <3>1, <3>2
  <2> QED
    BY <1>4, <2>2, PrefixEnds
<1> QED
  BY <1>3, <1>4, StripForm

LEMMA CleanedNeat ==
  ASSUME NEW s \in Texts, Neat(s)
  PROVE  Cleaned(s) = s
<1>1. Spaced(s) /\ OneDash(s)
  BY DEF Neat
<1>2. Strip(s) = s /\ Collapse(s) = s /\ UnifyDashes(s) = s /\ TightenDashes(s) = s
  BY <1>1, StripNeat, CollapseNeat, UnifyNeat, TightenNeat
<1> QED
  BY <1>2 DEF Cleaned

-----------------------------------------------------------------------------
(* Splitting and joining.                                                  *)

Free(s, separators) == \A i \in DOMAIN s : s[i] \notin separators

LEMMA AppendEnds ==
  ASSUME NEW front \in Lists, NEW part \in Texts
  PROVE  /\ Append(front, part) \in Filled
         /\ Front(Append(front, part)) = front
         /\ Last(Append(front, part)) = part
<1> DEFINE u == Append(front, part)
<1>0. Len(front) \in Nat /\ front \in Seq(Texts)
  BY ListFacts DEF Lists
<1>1. /\ u \in Seq(Texts) /\ u # << >> /\ Len(u) = Len(front) + 1
      /\ \A i \in 1..Len(front) : u[i] = front[i]
      /\ u[Len(front) + 1] = part
  BY <1>0, AppendProperties
<1> HIDE DEF u
<1>2. Len(u) - 1 = Len(front) /\ Len(front) \in 0..Len(u)
  BY <1>0, <1>1
<1>3. /\ Front(u) \in Seq(Texts) /\ Len(Front(u)) = Len(front)
      /\ \A i \in 1..Len(front) : Front(u)[i] = u[i]
  BY <1>1, <1>2, PrefixFacts DEF Front
<1>4. Front(u) = front
  BY <1>0, <1>1, <1>3, SeqEqual
<1> QED
  BY <1>1, <1>4 DEF Last, Filled, Lists, u

LEMMA SplitType ==
  ASSUME NEW s \in Texts, NEW separators
  PROVE  SplitAt(s, separators) \in Filled
<1>1. Len(s) \in 0..Len(s)
  BY TextFacts
<1> QED
  BY <1>1, SplitLoop

LEMMA SplitEmpty ==
  ASSUME NEW separators
  PROVE  SplitAt(<< >>, separators) = << << >> >>
<1>1. << >> \in Texts /\ Len(<< >>) = 0
  BY DEF Texts
<1> QED
  BY <1>1, SplitLoop

LEMMA SplitAppend ==
  ASSUME NEW s \in Texts, NEW ch \in Char, NEW separators
  PROVE  SplitAt(Append(s, ch), separators)
           = PutSplit(SplitAt(s, separators), ch, separators)
<1> DEFINE u == Append(s, ch)
           n == Len(s)
<1>0. n \in Nat
  BY TextFacts
<1>1. /\ u \in Texts /\ Len(u) = n + 1
      /\ \A i \in 1..n : u[i] = s[i]
      /\ u[n + 1] = ch
  BY AppendFacts
<1> HIDE DEF u
<1>2. PICK parts \in [0..n -> Filled] :
        /\ parts[0] = << << >> >>
        /\ \A i \in 1..n : parts[i] = PutSplit(parts[i - 1], s[i], separators)
        /\ SplitAt(s, separators) = parts[n]
  BY SplitLoop
<1>3. PICK more \in [0..n + 1 -> Filled] :
        /\ more[0] = << << >> >>
        /\ \A i \in 1..n + 1 : more[i] = PutSplit(more[i - 1], u[i], separators)
        /\ SplitAt(u, separators) = more[n + 1]
  <2>1. \E more \in [0..Len(u) -> Filled] :
          /\ more[0] = << << >> >>
          /\ \A i \in 1..Len(u) : more[i] = PutSplit(more[i - 1], u[i], separators)
          /\ SplitAt(u, separators) = more[Len(u)]
    BY <1>1, SplitLoop, Zenon
  <2> HIDE DEF n
  <2> QED
    BY <1>1, <2>1
<1> HIDE DEF n
<1> DEFINE Same == {i \in 0..n : more[i] = parts[i]}
<1>4. 0 \in Same /\ \A i \in 1..n : i - 1 \in Same => i \in Same
  <2>1. ASSUME NEW i \in 1..n, more[i - 1] = parts[i - 1]
        PROVE  more[i] = parts[i]
    <3>1. i \in 1..n + 1
      BY <1>0
    <3> QED
      BY <1>1, <1>2, <1>3, <2>1, <3>1
  <2> QED
    BY <1>0, <1>2, <1>3, <2>1
<1> HIDE DEF Same
<1>5. more[n] = parts[n]
  <2>1. \A i \in 0..n : i \in Same
    BY <1>0, <1>4, LoopInvariant, Zenon
  <2> QED
    BY <1>0, <2>1 DEF Same
<1>6. more[n + 1] = PutSplit(more[n], ch, separators)
  <2>1. n + 1 \in 1..n + 1 /\ (n + 1) - 1 = n
    BY <1>0
  <2> QED
    BY <1>1, <1>3, <2>1
<1> QED
  BY <1>2, <1>3, <1>5, <1>6 DEF u

LEMMA ConcatAppend ==
  ASSUME NEW s \in Texts, NEW t \in Texts, NEW ch \in Char
  PROVE  s \o t \in Texts /\ s \o Append(t, ch) = Append(s \o t, ch)
<1>1. /\ s \in Seq(Char) /\ t \in Seq(Char) /\ <<ch>> \in Seq(Char)
      /\ s \o t \in Seq(Char)
  BY DEF Texts
<1>2. Append(t, ch) = t \o <<ch>> /\ Append(s \o t, ch) = (s \o t) \o <<ch>>
  BY <1>1, AppendIsConcat
<1>3. (s \o t) \o <<ch>> = s \o (t \o <<ch>>)
  BY <1>1, ConcatAssociative
<1> QED
  BY <1>1, <1>2, <1>3 DEF Texts

\* A list of parts is the parts before the last one, and the last one.
LEMMA PartsEnd ==
  ASSUME NEW parts \in Filled
  PROVE  /\ Front(parts) \in Lists /\ Last(parts) \in Texts
         /\ parts = Append(Front(parts), Last(parts))
<1>1. /\ parts \in Seq(Texts) /\ parts # << >>
      /\ Len(parts) \in Nat \ {0} /\ Len(parts) \in 1..Len(parts)
  BY ListFacts DEF Filled, Lists
<1>2. /\ SubSeq(parts, 1, Len(parts) - 1) \in Seq(Texts)
      /\ SubSeq(parts, 1, Len(parts))
           = Append(SubSeq(parts, 1, Len(parts) - 1), parts[Len(parts)])
  BY <1>1, PrefixGrows
<1>3. SubSeq(parts, 1, Len(parts)) = parts
  BY <1>1, SubSeqFull
<1> QED
  BY <1>1, <1>2, <1>3 DEF Front, Last, Lists

\* Characters that do not separate go to the last part.
LEMMA SplitConcat ==
  ASSUME NEW s \in Texts, NEW p \in Texts, NEW separators, Free(p, separators)
  PROVE  SplitAt(s \o p, separators)
           = Append(Front(SplitAt(s, separators)), Last(SplitAt(s, separators)) \o p)
<1> DEFINE before == SplitAt(s, separators)
           Part(j) == SubSeq(p, 1, j)
           Good(j) == SplitAt(s \o Part(j), separators)
                        = Append(Front(before), Last(before) \o Part(j))
           Goods == {j \in 0..Len(p) : Good(j)}
<1>0. /\ Len(p) \in Nat /\ DOMAIN p = 1..Len(p) /\ p \in Seq(Char)
      /\ \A j \in 1..Len(p) : p[j] \in Char
  BY TextFacts DEF Texts
<1>1. before \in Filled /\ Front(before) \in Lists /\ Last(before) \in Texts
      /\ before = Append(Front(before), Last(before))
  <2>1. before \in Filled
    BY SplitType
  <2> HIDE DEF before
  <2> QED
    BY <2>1, PartsEnd
<1> HIDE DEF before
<1>2. Good(0)
  <2>1. Part(0) = << >>
    BY PrefixEnds
  <2>2. s \o << >> = s /\ Last(before) \o << >> = Last(before)
    BY <1>1, ConcatEmptySeq DEF Texts
  <2> QED
    BY <1>1, <2>1, <2>2 DEF before
<1>3. ASSUME NEW j \in 1..Len(p), Good(j - 1)
      PROVE  Good(j)
  <2> DEFINE q == Part(j - 1)
  <2>1. q \in Texts /\ Part(j) = Append(q, p[j])
    BY <1>0, PrefixGrows DEF Texts
  <2> HIDE DEF q, Part
  <2>2. p[j] \in Char /\ p[j] \notin separators
    BY <1>0 DEF Free
  <2>3. /\ s \o q \in Texts /\ Last(before) \o q \in Texts
        /\ s \o Part(j) = Append(s \o q, p[j])
        /\ Last(before) \o Part(j) = Append(Last(before) \o q, p[j])
    <3>1. s \o q \in Texts /\ s \o Append(q, p[j]) = Append(s \o q, p[j])
      BY <2>1, <2>2, ConcatAppend, Zenon
    <3>2. /\ Last(before) \o q \in Texts
          /\ Last(before) \o Append(q, p[j]) = Append(Last(before) \o q, p[j])
      BY <1>1, <2>1, <2>2, ConcatAppend, Zenon
    <3> QED
      BY <2>1, <3>1, <3>2, Zenon
  <2>4. SplitAt(s \o Part(j), separators) = PutSplit(SplitAt(s \o q, separators), p[j], separators)
    BY <2>2, <2>3, SplitAppend
  <2>5. SplitAt(s \o q, separators) = Append(Front(before), Last(before) \o q)
    BY <1>3 DEF q
  <2>6. PutSplit(Append(Front(before), Last(before) \o q), p[j], separators)
          = Append(Front(before), Append(Last(before) \o q, p[j]))
    BY <1>1, <2>2, <2>3, AppendEnds DEF PutSplit
  <2> QED
    BY <2>3, <2>4, <2>5, <2>6
<1>4. Good(Len(p))
  <2> HIDE DEF Good
  <2>1. 0 \in Goods /\ \A j \in 1..Len(p) : j - 1 \in Goods => j \in Goods
    BY <1>0, <1>2, <1>3
  <2> HIDE DEF Goods
  <2>2. \A j \in 0..Len(p) : j \in Goods
    BY <1>0, <2>1, LoopInvariant, Zenon
  <2> QED
    BY <1>0, <2>2 DEF Goods
<1> QED
  BY <1>4, PrefixEnds DEF before

\* One more segment in the text is one more part.
LEMMA SplitMore ==
  ASSUME NEW s \in Texts, NEW p \in Texts, NEW separators,
         Free(p, separators), "-" \in separators
  PROVE  SplitAt(Append(s, "-") \o p, separators) = Append(SplitAt(s, separators), p)
<1>1. /\ Append(s, "-") \in Texts
      /\ SplitAt(Append(s, "-"), separators) = Append(SplitAt(s, separators), << >>)
  BY CharFacts, AppendFacts, SplitAppend DEF PutSplit
<1>2. SplitAt(s, separators) \in Lists /\ << >> \in Texts
  BY SplitType DEF Filled, Texts
<1>3. /\ Front(Append(SplitAt(s, separators), << >>)) = SplitAt(s, separators)
      /\ Last(Append(SplitAt(s, separators), << >>)) = << >>
  BY <1>2, AppendEnds
<1>4. << >> \o p = p
  BY ConcatEmptySeq DEF Texts
<1> DEFINE before == SplitAt(Append(s, "-"), separators)
<1>5. SplitAt(Append(s, "-") \o p, separators) = Append(Front(before), Last(before) \o p)
  BY <1>1, SplitConcat, Zenon
<1> HIDE DEF before
<1>6. Front(before) = SplitAt(s, separators) /\ Last(before) = << >>
  BY <1>1, <1>3, Zenon DEF before
<1> QED
  BY <1>4, <1>5, <1>6, Zenon

\* split undoes join.
LEMMA SplitJoin ==
  ASSUME NEW parts \in Filled, NEW separators, "-" \in separators,
         \A i \in DOMAIN parts : Free(parts[i], separators)
  PROVE  SplitAt(JoinDashes(parts), separators) = parts
<1> DEFINE n == Len(parts)
<1>0. /\ n \in Nat /\ n # 0 /\ DOMAIN parts = 1..n
      /\ parts \in Lists /\ parts \in Seq(Texts)
      /\ \A i \in 1..n : parts[i] \in Texts
  BY ListFacts DEF Filled, Lists
<1>1. PICK texts \in [0..n -> Texts] :
        /\ texts[0] = << >>
        /\ \A i \in 1..n : texts[i] = PutJoined(texts[i - 1], parts[i], i)
        /\ JoinDashes(parts) = texts[n]
  BY <1>0, JoinLoop
<1> HIDE DEF n
<1> DEFINE Good(i) == i # 0 => SplitAt(texts[i], separators) = SubSeq(parts, 1, i)
           Goods == {i \in 0..n : Good(i)}
<1>2. ASSUME NEW i \in 1..n, Good(i - 1)
      PROVE  Good(i)
  <2>1. SubSeq(parts, 1, i) = Append(SubSeq(parts, 1, i - 1), parts[i])
    BY <1>0, PrefixGrows DEF n
  <2>2. parts[i] \in Texts /\ Free(parts[i], separators) /\ texts[i - 1] \in Texts
    BY <1>0
  <2>3. CASE i = 1
    <3>1. texts[i] = << >> \o parts[i]
      BY <1>1, <2>2, <2>3, ConcatEmptySeq DEF PutJoined, Texts
    <3>2. << >> \in Texts /\ << >> \in Lists /\ << << >> >> = Append(<< >>, << >>)
      BY DEF Texts, Lists
    <3>3. Front(<< << >> >>) = << >> /\ Last(<< << >> >>) = << >>
      BY <3>2, AppendEnds
    <3>4. SplitAt(texts[i], separators) = Append(<< >>, << >> \o parts[i])
      <4>1. SplitAt(<< >> \o parts[i], separators)
              = Append(Front(SplitAt(<< >>, separators)),
                       Last(SplitAt(<< >>, separators)) \o parts[i])
        BY <2>2, <3>2, SplitConcat, Zenon
      <4>2. SplitAt(<< >>, separators) = << << >> >>
        BY SplitEmpty
      <4> QED
        BY <3>1, <3>3, <4>1, <4>2, Zenon
    <3>5. << >> \o parts[i] = parts[i]
      BY <2>2, ConcatEmptySeq DEF Texts
    <3>6. SubSeq(parts, 1, i - 1) = << >>
      BY <2>3, SubSeqEmpty
    <3> QED
      BY <2>1, <3>4, <3>5, <3>6
  <2>4. CASE i # 1
    <3>1. texts[i] = Append(texts[i - 1], "-") \o parts[i]
      BY <1>1, <2>4 DEF PutJoined
    <3>2. SplitAt(texts[i - 1], separators) = SubSeq(parts, 1, i - 1)
      BY <1>0, <1>2, <2>4
    <3> QED
      BY <2>1, <2>2, <3>1, <3>2, SplitMore
  <2> QED
    BY <2>3, <2>4
<1>3. Good(n)
  <2> HIDE DEF Good
  <2>1. 0 \in Goods /\ \A i \in 1..n : i - 1 \in Goods => i \in Goods
    <3>1. Good(0)
      BY DEF Good
    <3> QED
      BY <1>0, <1>2, <3>1
  <2> HIDE DEF Goods
  <2>2. \A i \in 0..n : i \in Goods
    BY <1>0, <2>1, LoopInvariant, Zenon
  <2> QED
    BY <1>0, <2>2 DEF Goods
<1>4. SubSeq(parts, 1, n) = parts
  BY <1>0, SubSeqFull DEF n
<1> QED
  BY <1>0, <1>1, <1>3, <1>4

-----------------------------------------------------------------------------
(* The segments of a neat text.                                            *)

Segment(p) == Spaced(p) /\ Free(p, Dashes)

\* The end of the last part, after i characters of the text.
Ends(p, s, i) ==
  IF i = 0 \/ s[i] = "-" THEN p = << >> ELSE p # << >> /\ Last(p) = s[i]

LEMMA SegmentGrows ==
  ASSUME NEW s \in Texts, Neat(s), NEW i \in DOMAIN s, s[i] # "-",
         NEW p \in Texts, LeftSpaced(p), Free(p, Dashes), Ends(p, s, i - 1)
  PROVE  /\ LeftSpaced(Append(p, s[i])) /\ Free(Append(p, s[i]), Dashes)
         /\ Ends(Append(p, s[i]), s, i)
<1>0. /\ Len(s) \in Nat /\ i \in 1..Len(s) /\ s[i] \in Char
      /\ Len(p) \in Nat /\ DOMAIN p = 1..Len(p)
      /\ DOMAIN s = 1..Len(s)
  BY TextFacts
<1>1. ASSUME s[i] \in Blank
      PROVE  s[i] = Space /\ p # << >> /\ Last(p) \notin Blank
  <2>1. s[i] = Space /\ SolidAt(s, i - 1) /\ ~IsDash(s, i - 1)
    BY <1>1 DEF Neat, Spaced
  <2>2. i - 1 # 0 /\ s[i - 1] # "-" /\ s[i - 1] \notin Blank
    BY <1>0, <2>1 DEF SolidAt, IsDash
  <2> QED
    BY <2>1, <2>2 DEF Ends
<1>2. LeftSpaced(Append(p, s[i]))
  BY <1>0, <1>1, AppendKeepsSpaced
<1>3. s[i] \notin Dashes
  BY DEF Neat, OneDash
<1>4. Free(Append(p, s[i]), Dashes)
  <2>1. /\ DOMAIN Append(p, s[i]) = 1..Len(p) + 1
        /\ \A j \in 1..Len(p) : Append(p, s[i])[j] = p[j]
        /\ Append(p, s[i])[Len(p) + 1] = s[i]
    BY <1>0, AppendFacts
  <2>2. \A j \in 1..Len(p) + 1 : j \in 1..Len(p) \/ j = Len(p) + 1
    BY <1>0
  <2> QED
    BY <1>0, <1>3, <2>1, <2>2 DEF Free
<1>5. Ends(Append(p, s[i]), s, i)
  <2>1. Append(p, s[i]) # << >> /\ Last(Append(p, s[i])) = s[i]
    BY <1>0, AppendFacts
  <2>2. i # 0
    BY <1>0
  <2> QED
    BY <2>1, <2>2 DEF Ends
<1> QED
  BY <1>2, <1>4, <1>5

LEMMA SegmentEnds ==
  ASSUME NEW s \in Texts, Neat(s), NEW i \in 0..Len(s), i # Len(s) => s[i + 1] = "-",
         NEW p \in Texts, LeftSpaced(p), Free(p, Dashes), Ends(p, s, i)
  PROVE  Segment(p)
<1>0. Len(s) \in Nat /\ DOMAIN s = 1..Len(s)
  BY TextFacts
<1>1. ASSUME p # << >>, Last(p) \in Blank
      PROVE  FALSE
  <2>1. i # 0 /\ Last(p) = s[i]
    BY <1>1 DEF Ends
  <2>2. i \in DOMAIN s
    <3>1. Len(s) \in Nat
      BY <1>0
    <3>2. i \in 1..Len(s)
      BY <2>1, <3>1
    <3> QED
      BY <1>0, <3>2
  <2>3. s[i] = Space /\ SolidAt(s, i + 1) /\ ~IsDash(s, i + 1)
    BY <1>1, <2>1, <2>2 DEF Neat, Spaced
  <2>4. i + 1 \in DOMAIN s /\ s[i + 1] # "-"
    BY <2>3 DEF SolidAt, IsDash
  <2>5. i # Len(s)
    <3>1. Len(s) \in Nat /\ i + 1 \in 1..Len(s)
      BY <1>0, <2>4
    <3> QED
      BY <3>1
  <2> QED
    BY <2>4, <2>5
<1> QED
  BY <1>1, SpacedWhole DEF Segment

LEMMA PutSplitOther ==
  ASSUME NEW parts \in Lists \ {<< >>}, NEW ch \in Char, NEW separators, ch \notin separators
  PROVE  /\ Len(PutSplit(parts, ch, separators)) = Len(parts)
         /\ \A j \in 1..Len(parts) - 1 : PutSplit(parts, ch, separators)[j] = parts[j]
         /\ PutSplit(parts, ch, separators)[Len(parts)] = Append(parts[Len(parts)], ch)
  BY PutSplitFacts

LEMMA SplitNeat ==
  ASSUME NEW s \in Texts, Neat(s)
  PROVE  \A j \in DOMAIN SplitAt(s, {"-"}) : Segment(SplitAt(s, {"-"})[j])
<1> DEFINE n == Len(s)
<1>0. n \in Nat /\ DOMAIN s = 1..n /\ \A i \in 1..n : s[i] \in Char
  BY TextFacts
<1>1. PICK parts \in [0..n -> Filled] :
        /\ parts[0] = << << >> >>
        /\ \A i \in 1..n : parts[i] = PutSplit(parts[i - 1], s[i], {"-"})
        /\ SplitAt(s, {"-"}) = parts[n]
  BY SplitLoop
<1> DEFINE Final(i) == parts[i][Len(parts[i])]
           Good(i) == /\ \A j \in 1..Len(parts[i]) - 1 : Segment(parts[i][j])
                      /\ LeftSpaced(Final(i)) /\ Free(Final(i), Dashes)
                      /\ Ends(Final(i), s, i)
           Goods == {i \in 0..n : Good(i)}
<1>2. ASSUME NEW i \in 0..n
      PROVE  /\ parts[i] \in Filled /\ Len(parts[i]) \in Nat \ {0}
             /\ DOMAIN parts[i] = 1..Len(parts[i])
             /\ Final(i) \in Texts
  BY <1>1, ListFacts DEF Filled
<1> HIDE DEF n
<1>3. Good(0)
  <2>1. Len(parts[0]) = 1 /\ parts[0][1] = << >>
    BY <1>1
  <2> QED
    BY <2>1 DEF LeftSpaced, Free, Ends
<1>4. ASSUME NEW i \in 1..n, Good(i - 1)
      PROVE  Good(i)
  <2>0. i - 1 \in 0..n /\ i \in 0..n /\ i # 0 /\ i \in DOMAIN s /\ (i - 1) + 1 = i
    BY <1>0
  <2> DEFINE m == Len(parts[i - 1])
  <2>1. /\ parts[i - 1] \in Filled /\ m \in Nat \ {0}
        /\ Final(i - 1) \in Texts
        /\ s[i] \in Char
        /\ parts[i] = PutSplit(parts[i - 1], s[i], {"-"})
    BY <1>0, <1>1, <1>2, <2>0
  <2>2. /\ \A j \in 1..m - 1 : Segment(parts[i - 1][j])
        /\ LeftSpaced(Final(i - 1)) /\ Free(Final(i - 1), Dashes)
        /\ Ends(Final(i - 1), s, i - 1)
    BY <1>4
  <2>3. CASE s[i] = "-"
    <3>1. /\ Len(parts[i]) = m + 1
          /\ \A j \in 1..m : parts[i][j] = parts[i - 1][j]
          /\ parts[i][m + 1] = << >>
      BY <2>1, <2>3, PutSplitFacts DEF Filled
    <3>2. i - 1 \in 0..Len(s) /\ (i - 1 # Len(s) => s[(i - 1) + 1] = "-")
      BY <2>0, <2>3 DEF n
    <3>3. Segment(Final(i - 1))
      BY <2>1, <2>2, <3>2, SegmentEnds
    <3>4. \A j \in 1..m : j \in 1..m - 1 \/ j = m
      BY <2>1
    <3> HIDE DEF m
    <3>5. \A j \in 1..m : Segment(parts[i][j])
      BY <2>2, <3>1, <3>3, <3>4 DEF m
    <3>6. LeftSpaced(<< >>) /\ Free(<< >>, Dashes) /\ Ends(<< >>, s, i)
      BY <2>3 DEF LeftSpaced, Free, Ends
    <3>7. Len(parts[i]) - 1 = m
      BY <2>1, <3>1
    <3> QED
      BY <3>1, <3>5, <3>6, <3>7
  <2>4. CASE s[i] # "-"
    <3>1. /\ Len(parts[i]) = m
          /\ \A j \in 1..m - 1 : parts[i][j] = parts[i - 1][j]
          /\ parts[i][m] = Append(Final(i - 1), s[i])
      <4> DEFINE dash == {"-"}
                 next == PutSplit(parts[i - 1], s[i], dash)
      <4>1. parts[i - 1] \in Lists \ {<< >>} /\ s[i] \notin dash
        BY <2>1, <2>4 DEF Filled
      <4>2. s[i] \in Char
        BY <2>1
      <4>3. parts[i] = next
        BY <2>1
      <4> HIDE DEF dash
      <4>4. /\ Len(next) = Len(parts[i - 1])
            /\ \A j \in 1..Len(parts[i - 1]) - 1 : next[j] = parts[i - 1][j]
            /\ next[Len(parts[i - 1])] = Append(parts[i - 1][Len(parts[i - 1])], s[i])
        BY <4>1, <4>2, PutSplitOther
      <4> HIDE DEF next
      <4> QED
        BY <4>3, <4>4
    <3>2. /\ LeftSpaced(Append(Final(i - 1), s[i]))
          /\ Free(Append(Final(i - 1), s[i]), Dashes)
          /\ Ends(Append(Final(i - 1), s[i]), s, i)
      BY <2>0, <2>1, <2>2, <2>4, SegmentGrows
    <3> QED
      BY <2>2, <3>1, <3>2
  <2> QED
    BY <2>3, <2>4
<1>5. Good(n)
  <2> HIDE DEF Good
  <2>1. 0 \in Goods /\ \A i \in 1..n : i - 1 \in Goods => i \in Goods
    BY <1>0, <1>3, <1>4
  <2> HIDE DEF Goods
  <2>2. \A i \in 0..n : i \in Goods
    BY <1>0, <2>1, LoopInvariant, Zenon
  <2> QED
    BY <1>0, <2>2 DEF Goods
<1>6. Segment(Final(n))
  BY <1>0, <1>2, <1>5, SegmentEnds DEF n
<1>7. DOMAIN parts[n] = 1..Len(parts[n]) /\ Len(parts[n]) \in Nat
  BY <1>0, <1>2
<1>8. \A j \in DOMAIN parts[n] : j \in 1..Len(parts[n]) - 1 \/ j = Len(parts[n])
  BY <1>7
<1> QED
  BY <1>1, <1>5, <1>6, <1>8

-----------------------------------------------------------------------------
(* The leading zeros of a segment.                                         *)

LEMMA DigitFacts ==
  /\ "0" \in ToSet(Digits)
  /\ \A ch \in ToSet(Digits) : ch \notin Blank /\ ch \notin Dashes
<1>1. 1 \in DOMAIN Digits /\ Digits[1] = "0"
  BY DEF Digits
<1>2. "0" \in ToSet(Digits)
  BY <1>1 DEF ToSet
<1> QED
  BY <1>2, NumberAssumption

\* What is left begins with something else than a zero and is a part of the text.
LEMMA WithoutZerosFacts ==
  ASSUME NEW s \in Texts
  PROVE  /\ WithoutZeros(s) \in Texts
         /\ ToSet(WithoutZeros(s)) \subseteq ToSet(s)
         /\ WithoutZeros(s) # << >> => WithoutZeros(s)[1] # "0"
<1> DEFINE n == Len(s)
<1>0. n \in Nat /\ DOMAIN s = 1..n /\ \A i \in 1..n : s[i] \in Char /\ s[i] \in ToSet(s)
  BY TextFacts DEF ToSet
<1>1. PICK texts \in [0..n -> Texts] :
        /\ texts[0] = << >>
        /\ \A i \in 1..n : texts[i] = PutUnlessZero(texts[i - 1], s[i])
        /\ WithoutZeros(s) = texts[n]
  BY WithoutZerosLoop
<1> HIDE DEF n
<1> DEFINE Good(t) == /\ \A j \in DOMAIN t : t[j] \in ToSet(s)
                      /\ t # << >> => t[1] # "0"
           Goods == {i \in 0..n : Good(texts[i])}
<1>2. ASSUME NEW t \in Texts, NEW ch \in Char, ch \in ToSet(s), Good(t)
      PROVE  Good(PutUnlessZero(t, ch))
  <2>1. CASE t = << >> /\ ch = "0"
    BY <1>2, <2>1 DEF PutUnlessZero
  <2>2. CASE ~(t = << >> /\ ch = "0")
    <3> DEFINE u == Append(t, ch)
    <3>1. /\ Len(t) \in Nat /\ DOMAIN t = 1..Len(t) /\ DOMAIN u = 1..Len(t) + 1
          /\ \A j \in 1..Len(t) : u[j] = t[j]
          /\ u[Len(t) + 1] = ch
          /\ (t = << >> <=> Len(t) = 0)
      BY TextFacts, AppendFacts
    <3> HIDE DEF u
    <3>2. \A j \in 1..Len(t) + 1 : j \in 1..Len(t) \/ j = Len(t) + 1
      BY <3>1
    <3>3. u[1] # "0"
      <4>1. CASE t = << >>
        BY <2>2, <3>1, <4>1
      <4>2. CASE t # << >>
        <5>1. 1 \in 1..Len(t)
          BY <3>1, <4>2
        <5> QED
          BY <1>2, <3>1, <4>2, <5>1
      <4> QED
        BY <4>1, <4>2
    <3>4. \A j \in DOMAIN u : u[j] \in ToSet(s)
      BY <1>2, <3>1, <3>2
    <3>5. PutUnlessZero(t, ch) = u
      BY <2>2 DEF PutUnlessZero, u
    <3> QED
      BY <3>3, <3>4, <3>5
  <2> QED
    BY <2>1, <2>2
<1>3. Good(<< >>)
  OBVIOUS
<1> HIDE DEF Good
<1>4. 0 \in Goods /\ \A i \in 1..n : i - 1 \in Goods => i \in Goods
  BY <1>0, <1>1, <1>2, <1>3
<1> HIDE DEF Goods
<1>5. \A i \in 0..n : i \in Goods
  BY <1>0, <1>4, LoopInvariant, Zenon
<1>6. Good(texts[n])
  BY <1>0, <1>5 DEF Goods
<1> QED
  BY <1>0, <1>1, <1>6 DEF Good, ToSet

LEMMA WithoutZerosSame ==
  ASSUME NEW s \in Texts, s # << >>, s[1] # "0"
  PROVE  WithoutZeros(s) = s
<1>0. Len(s) \in Nat /\ DOMAIN s = 1..Len(s)
  BY TextFacts
<1>1. PICK texts \in [0..Len(s) -> Texts] :
        /\ texts[0] = << >>
        /\ \A i \in 1..Len(s) : texts[i] = PutUnlessZero(texts[i - 1], s[i])
        /\ WithoutZeros(s) = texts[Len(s)]
  BY WithoutZerosLoop
<1>2. ASSUME NEW i \in 1..Len(s), texts[i - 1] = SubSeq(s, 1, i - 1)
      PROVE  texts[i] = Append(texts[i - 1], s[i])
  <2>1. CASE i = 1
    BY <1>1, <2>1 DEF PutUnlessZero
  <2>2. CASE i # 1
    <3>1. i - 1 \in DOMAIN s
      BY <1>0, <2>2
    <3>2. texts[i - 1] # << >>
      BY <1>2, <3>1, PrefixLast
    <3> QED
      BY <1>1, <3>2 DEF PutUnlessZero
  <2> QED
    BY <2>1, <2>2
<1> QED
  BY <1>1, <1>2, PassesRebuild

\* Either the segment stays, or both it and its value are digits only.
LEMMA StripLeadingZerosFacts ==
  ASSUME NEW p \in Texts
  PROVE  /\ StripLeadingZeros(p) \in Texts
         /\ \/ StripLeadingZeros(p) = p
            \/ IsDigits(p) /\ IsDigits(StripLeadingZeros(p))
         /\ StripLeadingZeros(StripLeadingZeros(p)) = StripLeadingZeros(p)
<1> DEFINE q == WithoutZeros(p)
<1>1. CASE ~(IsDigits(p) /\ Len(p) > 1)
  BY <1>1 DEF StripLeadingZeros
<1>2. CASE IsDigits(p) /\ Len(p) > 1 /\ q = << >>
  <2>1. StripLeadingZeros(p) = <<"0">>
    BY <1>2 DEF StripLeadingZeros
  <2>2. <<"0">> \in Texts
    BY CharFacts DEF Texts
  <2>3. IsDigits(<<"0">>)
    <3>1. <<"0">> # << >> /\ \A i \in DOMAIN <<"0">> : <<"0">>[i] = "0"
      OBVIOUS
    <3> QED
      BY <3>1, DigitFacts DEF IsDigits, ToSet
  <2>4. StripLeadingZeros(<<"0">>) = <<"0">>
    <3>1. ~(Len(<<"0">>) > 1)
      OBVIOUS
    <3> QED
      BY <3>1 DEF StripLeadingZeros
  <2> QED
    BY <1>2, <2>1, <2>2, <2>3, <2>4
<1>3. CASE IsDigits(p) /\ Len(p) > 1 /\ q # << >>
  <2>1. StripLeadingZeros(p) = q
    BY <1>3 DEF StripLeadingZeros
  <2>2. q \in Texts /\ ToSet(q) \subseteq ToSet(p) /\ q[1] # "0"
    BY <1>3, WithoutZerosFacts
  <2> HIDE DEF q
  <2>3. IsDigits(q)
    BY <1>3, <2>2 DEF IsDigits
  <2>4. WithoutZeros(q) = q
    BY <1>3, <2>2, WithoutZerosSame
  <2>5. StripLeadingZeros(q) = q
    BY <1>3, <2>4 DEF StripLeadingZeros
  <2> QED
    BY <1>3, <2>1, <2>2, <2>3, <2>5
<1> QED
  BY <1>1, <1>2, <1>3

LEMMA DigitsAreSegment ==
  ASSUME NEW p \in Texts, IsDigits(p)
  PROVE  Segment(p) /\ \A i \in DOMAIN p : p[i] \notin Blank
<1>1. \A i \in DOMAIN p : p[i] \in ToSet(Digits)
  BY DEF IsDigits, ToSet
<1> QED
  BY <1>1, DigitFacts DEF Segment, Spaced, Free

LEMMA StripLeadingZerosSegment ==
  ASSUME NEW p \in Texts, Segment(p)
  PROVE  Segment(StripLeadingZeros(p))
  BY StripLeadingZerosFacts, DigitsAreSegment

-----------------------------------------------------------------------------
(* Segments joined by dashes are a neat text.                              *)

LEMMA NeatIsTight ==
  ASSUME NEW s \in Texts, Neat(s)
  PROVE  Tight(s) /\ (s # << >> => Last(s) \notin Blank)
<1>0. Len(s) \in Nat /\ DOMAIN s = 1..Len(s)
  BY TextFacts
<1>1. LeftSpaced(s) /\ OneDash(s)
  BY DEF Neat, Spaced, LeftSpaced
<1>2. Apart(s)
  <2>1. ASSUME NEW i \in DOMAIN s, i - 1 \in DOMAIN s
        PROVE  ~(s[i - 1] = Space /\ s[i] = "-") /\ ~(s[i - 1] = "-" /\ s[i] = Space)
    <3>1. (i - 1) + 1 = i
      BY <1>0
    <3> QED
      BY <2>1, <3>1 DEF Neat, IsDash
  <2> QED
    BY <2>1 DEF Apart
<1>3. s # << >> => Last(s) \notin Blank
  <2>1. Len(s) + 1 \notin DOMAIN s
    BY <1>0
  <2> QED
    BY <2>1, LastFacts DEF Neat, Spaced, SolidAt
<1> QED
  BY <1>1, <1>2, <1>3 DEF Tight

LEMMA SegmentIsNeat ==
  ASSUME NEW p \in Texts, Segment(p)
  PROVE  Neat(p)
  BY CharFacts DEF Segment, Neat, Free, OneDash, IsDash

LEMMA AppendSegment ==
  ASSUME NEW s \in Texts, Tight(s), s # << >>,
         NEW p \in Texts, Segment(p)
  PROVE  /\ s \o p \in Texts /\ Tight(s \o p) /\ s \o p # << >>
         /\ Last(s \o p) = IF p = << >> THEN Last(s) ELSE Last(p)
<1> DEFINE n == Len(p)
           Joined(j) == s \o SubSeq(p, 1, j)
           Good(j) == /\ Joined(j) \in Texts /\ Tight(Joined(j)) /\ Joined(j) # << >>
                      /\ Last(Joined(j)) = IF j = 0 THEN Last(s) ELSE p[j]
           Goods == {j \in 0..n : Good(j)}
<1>0. /\ n \in Nat /\ DOMAIN p = 1..n /\ p \in Seq(Char)
      /\ \A j \in 1..n : p[j] \in Char
      /\ p = << >> <=> n = 0
  BY TextFacts DEF Texts
<1>1. Good(0)
  <2>1. SubSeq(p, 1, 0) = << >> /\ s \o << >> = s
    BY PrefixEnds, ConcatEmptySeq DEF Texts
  <2> QED
    BY <2>1
<1>2. ASSUME NEW j \in 1..n, Good(j - 1)
      PROVE  Good(j)
  <2> DEFINE t == Joined(j - 1)
  <2>1. Joined(j) = Append(t, p[j])
    <3> DEFINE q == SubSeq(p, 1, j - 1)
    <3>1. q \in Texts /\ SubSeq(p, 1, j) = Append(q, p[j])
      BY <1>0, PrefixGrows DEF Texts, n
    <3> HIDE DEF q
    <3>2. s \o Append(q, p[j]) = Append(s \o q, p[j])
      BY <1>0, <3>1, ConcatAppend
    <3> QED
      BY <3>1, <3>2 DEF q
  <2>2. /\ t \in Texts /\ Tight(t) /\ t # << >>
        /\ Last(t) = IF j - 1 = 0 THEN Last(s) ELSE p[j - 1]
        /\ p[j] \in Char /\ p[j] \notin Dashes
    BY <1>0, <1>2 DEF Segment, Free
  <2> HIDE DEF t, Joined
  <2>3. ASSUME p[j] \in Blank
        PROVE  p[j] = Space /\ Last(t) \notin Blank /\ Last(t) # "-"
    <3>1. p[j] = Space /\ SolidAt(p, j - 1)
      BY <1>0, <2>3 DEF Segment, Spaced
    <3>2. j - 1 # 0 /\ p[j - 1] \notin Blank /\ p[j - 1] \notin Dashes
      BY <1>0, <3>1 DEF SolidAt, Segment, Free
    <3> QED
      BY <2>2, <3>1, <3>2, CharFacts
  <2>4. Tight(Append(t, p[j]))
    BY <2>2, <2>3, AppendKeepsTight
  <2>5. /\ Append(t, p[j]) \in Texts /\ Append(t, p[j]) # << >>
        /\ Last(Append(t, p[j])) = p[j]
    BY <2>2, AppendFacts
  <2>6. j # 0
    OBVIOUS
  <2> QED
    BY <2>1, <2>4, <2>5, <2>6
<1>3. Good(n)
  <2> HIDE DEF Good, n
  <2>1. 0 \in Goods /\ \A j \in 1..n : j - 1 \in Goods => j \in Goods
    BY <1>0, <1>1, <1>2
  <2> HIDE DEF Goods
  <2>2. \A j \in 0..n : j \in Goods
    BY <1>0, <2>1, LoopInvariant, Zenon
  <2> QED
    BY <1>0, <2>2 DEF Goods
<1>4. SubSeq(p, 1, n) = p
  BY PrefixEnds
<1> QED
  BY <1>0, <1>3, <1>4 DEF Last

LEMMA JoinSegment ==
  ASSUME NEW s \in Texts, Neat(s), NEW p \in Texts, Segment(p)
  PROVE  Append(s, "-") \o p \in Texts /\ Neat(Append(s, "-") \o p)
<1> DEFINE u == Append(s, "-")
<1>1. u \in Texts /\ u # << >> /\ Last(u) = "-"
  BY CharFacts, AppendFacts
<1>2. Tight(u)
  BY CharFacts, NeatIsTight, AppendKeepsTight
<1> HIDE DEF u
<1>3. /\ u \o p \in Texts /\ Tight(u \o p)
      /\ Last(u \o p) = IF p = << >> THEN Last(u) ELSE Last(p)
  BY <1>1, <1>2, AppendSegment
<1>4. p # << >> => Last(p) \notin Blank
  BY SegmentIsNeat, NeatIsTight
<1>5. Last(u \o p) # Space
  BY <1>1, <1>3, <1>4, CharFacts
<1> QED
  BY <1>3, <1>5, TightIsNeat DEF u

LEMMA JoinNeat ==
  ASSUME NEW parts \in Filled, \A i \in DOMAIN parts : Segment(parts[i])
  PROVE  JoinDashes(parts) \in Texts /\ Neat(JoinDashes(parts))
<1> DEFINE n == Len(parts)
<1>0. /\ n \in Nat /\ n # 0 /\ DOMAIN parts = 1..n /\ parts \in Lists
      /\ \A i \in 1..n : parts[i] \in Texts
  BY ListFacts DEF Filled
<1>1. PICK texts \in [0..n -> Texts] :
        /\ texts[0] = << >>
        /\ \A i \in 1..n : texts[i] = PutJoined(texts[i - 1], parts[i], i)
        /\ JoinDashes(parts) = texts[n]
  BY <1>0, JoinLoop
<1> HIDE DEF n
<1> DEFINE Neats == {i \in 0..n : Neat(texts[i])}
<1>2. ASSUME NEW i \in 1..n, Neat(texts[i - 1])
      PROVE  Neat(texts[i])
  <2>1. texts[i - 1] \in Texts /\ parts[i] \in Texts /\ Segment(parts[i])
    BY <1>0
  <2>2. CASE i = 1
    BY <1>1, <2>1, <2>2, SegmentIsNeat DEF PutJoined
  <2>3. CASE i # 1
    BY <1>1, <1>2, <2>1, <2>3, JoinSegment DEF PutJoined
  <2> QED
    BY <2>2, <2>3
<1>3. Neat(<< >>)
  BY DEF Neat, Spaced, OneDash
<1>4. 0 \in Neats /\ \A i \in 1..n : i - 1 \in Neats => i \in Neats
  BY <1>0, <1>1, <1>2, <1>3
<1> HIDE DEF Neats
<1>5. \A i \in 0..n : i \in Neats
  BY <1>0, <1>4, LoopInvariant, Zenon
<1>6. Neat(texts[n]) /\ texts[n] \in Texts
  BY <1>0, <1>5 DEF Neats
<1> QED
  BY <1>1, <1>6

-----------------------------------------------------------------------------
(* The whole function.                                                     *)

StripEach(parts) == [i \in DOMAIN parts |-> StripLeadingZeros(parts[i])]

LEMMA StripEachFacts ==
  ASSUME NEW parts \in Filled, \A i \in DOMAIN parts : Segment(parts[i])
  PROVE  /\ StripEach(parts) \in Filled
         /\ DOMAIN StripEach(parts) = DOMAIN parts
         /\ \A i \in DOMAIN parts : Segment(StripEach(parts)[i])
         /\ StripEach(StripEach(parts)) = StripEach(parts)
<1> DEFINE n == Len(parts)
           stripped == StripEach(parts)
<1>0. n \in Nat /\ n # 0 /\ DOMAIN parts = 1..n /\ \A i \in 1..n : parts[i] \in Texts
  BY ListFacts DEF Filled
<1>1. DOMAIN stripped = 1..n /\ \A i \in 1..n : stripped[i] = StripLeadingZeros(parts[i])
  BY <1>0 DEF StripEach
<1>2. \A i \in 1..n : stripped[i] \in Texts /\ Segment(stripped[i])
  BY <1>0, <1>1, StripLeadingZerosFacts, StripLeadingZerosSegment
<1>3. stripped \in Filled
  <2>1. stripped = [i \in 1..n |-> stripped[i]]
    BY <1>0 DEF StripEach
  <2> HIDE DEF stripped, n
  <2>2. stripped \in [1..n -> Texts]
    BY <1>2, <2>1
  <2>3. stripped \in Seq(Texts) /\ Len(stripped) = n
    BY <1>0, <2>2
  <2>4. stripped # << >>
    BY <1>0, <2>3
  <2> QED
    BY <2>3, <2>4 DEF Filled, Lists
<1>4. StripEach(stripped) = stripped
  <2>1. \A i \in 1..n : StripLeadingZeros(stripped[i]) = stripped[i]
    BY <1>0, <1>1, StripLeadingZerosFacts
  <2>2. stripped = [i \in 1..n |-> stripped[i]]
    BY <1>0 DEF StripEach
  <2>3. StripEach(stripped) = [i \in 1..n |-> StripLeadingZeros(stripped[i])]
    BY <1>1 DEF StripEach
  <2> HIDE DEF stripped, n
  <2> QED
    BY <2>1, <2>2, <2>3
<1> QED
  BY <1>0, <1>1, <1>2, <1>3, <1>4

Segments(s) == SplitAt(Cleaned(s), {"-"})

LEMMA NormalizeForm ==
  ASSUME NEW s \in Texts
  PROVE  /\ Segments(s) \in Filled
         /\ \A i \in DOMAIN Segments(s) : Segment(Segments(s)[i])
         /\ NormalizeNomer(s) = JoinDashes(StripEach(Segments(s)))
<1>1. Cleaned(s) \in Texts /\ Neat(Cleaned(s))
  BY CleanedIsNeat
<1>2. Segments(s) \in Filled /\ \A i \in DOMAIN Segments(s) : Segment(Segments(s)[i])
  BY <1>1, SplitType, SplitNeat DEF Segments
<1>3. NormalizeNomer(s) = JoinDashes(StripEach(Segments(s)))
  BY DEF NormalizeNomer, StripEach, Segments, Cleaned
<1> QED
  BY <1>2, <1>3

LEMMA NormalizedIsNeat ==
  ASSUME NEW s \in Texts
  PROVE  /\ NormalizeNomer(s) \in Texts /\ Neat(NormalizeNomer(s))
         /\ SplitAt(NormalizeNomer(s), {"-"}) = StripEach(Segments(s))
         /\ SplitAt(NormalizeNomer(s), Dashes) = StripEach(Segments(s))
<1> DEFINE parts == StripEach(Segments(s))
<1>1. parts \in Filled /\ \A i \in DOMAIN parts : Segment(parts[i])
  BY NormalizeForm, StripEachFacts
<1>2. NormalizeNomer(s) = JoinDashes(parts)
  BY NormalizeForm
<1> HIDE DEF parts
<1>3. \A i \in DOMAIN parts : Free(parts[i], Dashes) /\ Free(parts[i], {"-"})
  BY <1>1, CharFacts DEF Segment, Free
<1>4. JoinDashes(parts) \in Texts /\ Neat(JoinDashes(parts))
  BY <1>1, JoinNeat
<1>5. SplitAt(JoinDashes(parts), Dashes) = parts
  BY <1>1, <1>3, CharFacts, SplitJoin
<1>6. SplitAt(JoinDashes(parts), {"-"}) = parts
  BY <1>1, <1>3, SplitJoin
<1> QED
  BY <1>2, <1>4, <1>5, <1>6 DEF parts

LEMMA NormalizeTwice ==
  ASSUME NEW s \in Texts
  PROVE  NormalizeNomer(NormalizeNomer(s)) = NormalizeNomer(s)
<1> DEFINE r == NormalizeNomer(s)
<1>1. r \in Texts /\ Neat(r) /\ SplitAt(r, {"-"}) = StripEach(Segments(s))
  BY NormalizedIsNeat
<1>2. r = JoinDashes(StripEach(Segments(s)))
  BY NormalizeForm
<1> HIDE DEF r
<1>3. Segments(r) = StripEach(Segments(s))
  BY <1>1, CleanedNeat DEF Segments
<1>4. StripEach(StripEach(Segments(s))) = StripEach(Segments(s))
  BY NormalizeForm, StripEachFacts
<1>5. NormalizeNomer(r) = JoinDashes(StripEach(Segments(r)))
  BY <1>1, NormalizeForm
<1> QED
  BY <1>2, <1>3, <1>4, <1>5 DEF r

-----------------------------------------------------------------------------
(* What a part has to say, however it is spaced.                           *)

LEMMA CollapseType ==
  ASSUME NEW s \in Texts
  PROVE  Collapse(s) \in Texts
<1>1. Len(s) \in 0..Len(s)
  BY TextFacts
<1> QED
  BY <1>1, CollapseLoop

LEMMA CollapseEmpty == Collapse(<< >>) = << >>
<1>1. << >> \in Texts /\ Len(<< >>) = 0
  BY DEF Texts
<1> QED
  BY <1>1, CollapseLoop

LEMMA CollapseAppend ==
  ASSUME NEW s \in Texts, NEW ch \in Char
  PROVE  Collapse(Append(s, ch)) = PutCollapsed(Collapse(s), ch)
<1> DEFINE u == Append(s, ch)
           n == Len(s)
<1>0. n \in Nat
  BY TextFacts
<1>1. /\ u \in Texts /\ Len(u) = n + 1
      /\ \A i \in 1..n : u[i] = s[i]
      /\ u[n + 1] = ch
  BY AppendFacts
<1> HIDE DEF u
<1>2. PICK texts \in [0..n -> Texts] :
        /\ texts[0] = << >>
        /\ \A i \in 1..n : texts[i] = PutCollapsed(texts[i - 1], s[i])
        /\ Collapse(s) = texts[n]
  BY CollapseLoop
<1>3. PICK more \in [0..n + 1 -> Texts] :
        /\ more[0] = << >>
        /\ \A i \in 1..n + 1 : more[i] = PutCollapsed(more[i - 1], u[i])
        /\ Collapse(u) = more[n + 1]
  <2>1. \E more \in [0..Len(u) -> Texts] :
          /\ more[0] = << >>
          /\ \A i \in 1..Len(u) : more[i] = PutCollapsed(more[i - 1], u[i])
          /\ Collapse(u) = more[Len(u)]
    BY <1>1, CollapseLoop, Zenon
  <2> HIDE DEF n
  <2> QED
    BY <1>1, <2>1
<1> HIDE DEF n
<1> DEFINE Same == {i \in 0..n : more[i] = texts[i]}
<1>4. 0 \in Same /\ \A i \in 1..n : i - 1 \in Same => i \in Same
  <2>1. ASSUME NEW i \in 1..n, more[i - 1] = texts[i - 1]
        PROVE  more[i] = texts[i]
    <3>1. i \in 1..n + 1
      BY <1>0
    <3> QED
      BY <1>1, <1>2, <1>3, <2>1, <3>1
  <2> QED
    BY <1>0, <1>2, <1>3, <2>1
<1> HIDE DEF Same
<1>5. more[n] = texts[n]
  <2>1. \A i \in 0..n : i \in Same
    BY <1>0, <1>4, LoopInvariant, Zenon
  <2> QED
    BY <1>0, <2>1 DEF Same
<1>6. more[n + 1] = PutCollapsed(more[n], ch)
  <2>1. n + 1 \in 1..n + 1 /\ (n + 1) - 1 = n
    BY <1>0
  <2> QED
    BY <1>1, <1>3, <2>1
<1> QED
  BY <1>2, <1>3, <1>5, <1>6 DEF u

\* What Strip returns is determined by the first and the last solid character.
LEMMA StripUnique ==
  ASSUME NEW s \in Texts, NEW from \in 1..Len(s), NEW to \in 1..Len(s), from <= to,
         s[from] \notin Blank, s[to] \notin Blank,
         \A i \in 1..Len(s) : i < from \/ i > to => s[i] \in Blank
  PROVE  Strip(s) = SubSeq(s, from, to)
<1>0. Len(s) \in Nat
  BY TextFacts
<1>1. ASSUME NEW first \in 1..Len(s), NEW final \in 1..Len(s),
             s[first] \notin Blank, s[final] \notin Blank,
             \A i \in 1..Len(s) : i < first \/ i > final => s[i] \in Blank,
             Strip(s) = SubSeq(s, first, final)
      PROVE  Strip(s) = SubSeq(s, from, to)
  <2>1. ~(first < from) /\ ~(from < first) /\ ~(final > to) /\ ~(to > final)
    BY <1>1
  <2>2. first = from /\ final = to
    BY <1>0, <2>1
  <2> QED
    BY <1>1, <2>2
<1> QED
  BY <1>1, StripForm

\* A space at either end makes no difference to it.
LEMMA StripAppend ==
  ASSUME NEW s \in Texts, NEW ch \in Char, ch \in Blank
  PROVE  Strip(Append(s, ch)) = Strip(s)
<1> DEFINE u == Append(s, ch)
           n == Len(s)
<1>0. n \in Nat
  BY TextFacts
<1>1. /\ u \in Texts /\ Len(u) = n + 1
      /\ \A i \in 1..n : u[i] = s[i]
      /\ u[n + 1] \in Blank
  BY AppendFacts
<1> HIDE DEF u
<1>2. \A i \in 1..n + 1 : i \in 1..n \/ i = n + 1
  BY <1>0
<1>3. CASE (\A i \in 1..n : s[i] \in Blank) /\ Strip(s) = << >>
  <2>1. \A i \in 1..Len(u) : u[i] \in Blank
    BY <1>1, <1>2, <1>3
  <2>2. Strip(u) = << >>
    BY <1>1, <2>1, StripForm
  <2> QED
    BY <1>3, <2>2 DEF u
<1>4. ASSUME NEW from \in 1..n, NEW to \in 1..n, from <= to,
             s[from] \notin Blank, s[to] \notin Blank,
             \A i \in 1..n : i < from \/ i > to => s[i] \in Blank,
             Strip(s) = SubSeq(s, from, to)
      PROVE  Strip(u) = Strip(s)
  <2>1. from \in 1..Len(u) /\ to \in 1..Len(u)
    BY <1>0, <1>1
  <2>2. u[from] \notin Blank /\ u[to] \notin Blank
    BY <1>1, <1>4
  <2>3. \A i \in 1..Len(u) : i < from \/ i > to => u[i] \in Blank
    BY <1>1, <1>2, <1>4
  <2>4. Strip(u) = SubSeq(u, from, to)
    BY <1>1, <1>4, <2>1, <2>2, <2>3, StripUnique
  <2>5. SubSeq(u, from, to) = SubSeq(s, from, to)
    <3>1. /\ SubSeq(u, from, to) \in Texts /\ Len(SubSeq(u, from, to)) = to - from + 1
          /\ \A i \in 1..to - from + 1 : SubSeq(u, from, to)[i] = u[from + i - 1]
      <4>1. from \in 1..Len(u) + 1 /\ to \in 0..Len(u) /\ from <= to + 1
        BY <1>0, <1>1, <1>4
      <4> QED
        BY <1>1, <4>1, PartFacts
    <3>2. /\ SubSeq(s, from, to) \in Texts /\ Len(SubSeq(s, from, to)) = to - from + 1
          /\ \A i \in 1..to - from + 1 : SubSeq(s, from, to)[i] = s[from + i - 1]
      <4>1. from \in 1..Len(s) + 1 /\ to \in 0..Len(s) /\ from <= to + 1
        BY <1>0, <1>4
      <4> QED
        BY <4>1, PartFacts
    <3>3. \A i \in 1..to - from + 1 : from + i - 1 \in 1..n
      BY <1>0
    <3>4. \A i \in 1..to - from + 1 : u[from + i - 1] = s[from + i - 1]
      BY <1>1, <3>3
    <3> QED
      BY <3>1, <3>2, <3>4, SeqEqual DEF Texts
  <2> QED
    BY <1>4, <2>4, <2>5
<1> QED
  BY <1>3, <1>4, StripForm DEF u

LEMMA SpaceFirst ==
  ASSUME NEW s \in Texts
  PROVE  /\ <<Space>> \o s \in Texts
         /\ Len(<<Space>> \o s) = Len(s) + 1
         /\ (<<Space>> \o s)[1] = Space
         /\ \A i \in 1..Len(s) : (<<Space>> \o s)[i + 1] = s[i]
<1>1. <<Space>> \in Seq(Char) /\ s \in Seq(Char) /\ Len(s) \in Nat
  BY CharFacts, TextFacts DEF Texts
<1>2. /\ <<Space>> \o s \in Seq(Char)
      /\ Len(<<Space>> \o s) = Len(<<Space>>) + Len(s)
      /\ \A i \in 1..Len(<<Space>>) + Len(s) :
           (<<Space>> \o s)[i] = IF i <= Len(<<Space>>) THEN <<Space>>[i]
                                 ELSE s[i - Len(<<Space>>)]
  BY <1>1, ConcatProperties
<1>3. Len(<<Space>>) = 1 /\ <<Space>>[1] = Space
  OBVIOUS
<1>4. 1 \in 1..1 + Len(s) /\ \A i \in 1..Len(s) : i + 1 \in 1..1 + Len(s) /\ ~(i + 1 <= 1)
                                                   /\ (i + 1) - 1 = i
  BY <1>1
<1> QED
  BY <1>1, <1>2, <1>3, <1>4 DEF Texts

LEMMA StripSpace ==
  ASSUME NEW s \in Texts
  PROVE  Strip(<<Space>> \o s) = Strip(s)
<1> DEFINE u == <<Space>> \o s
           n == Len(s)
<1>0. n \in Nat
  BY TextFacts
<1>1. /\ u \in Texts /\ Len(u) = n + 1
      /\ u[1] \in Blank
      /\ \A i \in 1..n : u[i + 1] = s[i]
  BY SpaceFirst, CharFacts
<1> HIDE DEF u
<1>2. \A i \in 1..n + 1 : i = 1 \/ i - 1 \in 1..n
  BY <1>0
<1>3. \A i \in 2..n + 1 : u[i] = s[i - 1]
  <2>1. ASSUME NEW i \in 2..n + 1
        PROVE  u[i] = s[i - 1]
    <3>1. i - 1 \in 1..n /\ (i - 1) + 1 = i
      BY <1>0
    <3> QED
      BY <1>1, <3>1
  <2> QED
    BY <2>1
<1>4. CASE (\A i \in 1..n : s[i] \in Blank) /\ Strip(s) = << >>
  <2>1. ASSUME NEW i \in 1..Len(u)
        PROVE  u[i] \in Blank
    <3>1. i = 1 \/ (i - 1 \in 1..n /\ (i - 1) + 1 = i)
      BY <1>0, <1>1, <1>2
    <3> QED
      BY <1>1, <1>4, <3>1
  <2>2. Strip(u) = << >>
    BY <1>1, <2>1, StripForm
  <2> QED
    BY <1>4, <2>2 DEF u
<1>5. ASSUME NEW from \in 1..n, NEW to \in 1..n, from <= to,
             s[from] \notin Blank, s[to] \notin Blank,
             \A i \in 1..n : i < from \/ i > to => s[i] \in Blank,
             Strip(s) = SubSeq(s, from, to)
      PROVE  Strip(u) = Strip(s)
  <2>1. from + 1 \in 1..Len(u) /\ to + 1 \in 1..Len(u) /\ from + 1 <= to + 1
    BY <1>0, <1>1, <1>5
  <2>2. u[from + 1] \notin Blank /\ u[to + 1] \notin Blank
    BY <1>1, <1>5
  <2>3. ASSUME NEW i \in 1..Len(u), i < from + 1 \/ i > to + 1
        PROVE  u[i] \in Blank
    <3>1. CASE i = 1
      BY <1>1, <3>1
    <3>2. CASE i # 1
      <4>1. i - 1 \in 1..n /\ (i - 1) + 1 = i /\ (i - 1 < from \/ i - 1 > to)
        BY <1>0, <1>1, <2>3, <3>2
      <4> QED
        BY <1>1, <1>5, <4>1
    <3> QED
      BY <3>1, <3>2
  <2>4. Strip(u) = SubSeq(u, from + 1, to + 1)
    BY <1>1, <2>1, <2>2, <2>3, StripUnique
  <2>5. SubSeq(u, from + 1, to + 1) = SubSeq(s, from, to)
    <3>1. /\ SubSeq(u, from + 1, to + 1) \in Texts
          /\ Len(SubSeq(u, from + 1, to + 1)) = to - from + 1
          /\ \A i \in 1..to - from + 1 : SubSeq(u, from + 1, to + 1)[i] = u[(from + i - 1) + 1]
      <4>1. /\ from + 1 \in 1..Len(u) + 1 /\ to + 1 \in 0..Len(u)
            /\ from + 1 <= (to + 1) + 1
            /\ (to + 1) - (from + 1) + 1 = to - from + 1
            /\ \A i \in 1..to - from + 1 : (from + 1) + i - 1 = (from + i - 1) + 1
        BY <1>0, <1>1, <1>5
      <4>2. /\ SubSeq(u, from + 1, to + 1) \in Texts
            /\ Len(SubSeq(u, from + 1, to + 1)) = (to + 1) - (from + 1) + 1
            /\ \A i \in 1..(to + 1) - (from + 1) + 1 :
                 SubSeq(u, from + 1, to + 1)[i] = u[(from + 1) + i - 1]
        BY <1>1, <4>1, PartFacts
      <4> QED
        BY <4>1, <4>2
    <3>2. /\ SubSeq(s, from, to) \in Texts /\ Len(SubSeq(s, from, to)) = to - from + 1
          /\ \A i \in 1..to - from + 1 : SubSeq(s, from, to)[i] = s[from + i - 1]
      <4>1. from \in 1..Len(s) + 1 /\ to \in 0..Len(s) /\ from <= to + 1
        BY <1>0, <1>5
      <4> QED
        BY <4>1, PartFacts
    <3>3. \A i \in 1..to - from + 1 : from + i - 1 \in 1..n
      BY <1>0
    <3>4. \A i \in 1..to - from + 1 : u[(from + i - 1) + 1] = s[from + i - 1]
      BY <1>1, <3>3
    <3> QED
      BY <3>1, <3>2, <3>4, SeqEqual DEF Texts
  <2> QED
    BY <1>5, <2>4, <2>5
<1> QED
  BY <1>4, <1>5, StripForm DEF u

\* What is searched for in a part.
Says(p) == Strip(Collapse(p))

\* So far p reads like q, but for white space in front.
Reads(p, q) == Collapse(p) = Collapse(q) \/ Collapse(p) = <<Space>> \o Collapse(q)

LEMMA ReadsSaysSame ==
  ASSUME NEW p \in Texts, NEW q \in Texts, Reads(p, q)
  PROVE  Says(p) = Says(q)
  BY CollapseType, StripSpace DEF Reads, Says

\* A blank at the end says nothing.
LEMMA BlankSaysNothing ==
  ASSUME NEW p \in Texts, NEW ch \in Char, ch \in Blank
  PROVE  Says(Append(p, ch)) = Says(p)
<1>1. Collapse(p) \in Texts /\ Collapse(Append(p, ch)) = PutCollapsed(Collapse(p), ch)
  BY CollapseType, CollapseAppend
<1> QED
  BY <1>1, CharFacts, StripAppend DEF Says, PutCollapsed

LEMMA PutCollapsedSpace ==
  ASSUME NEW t \in Texts, NEW ch \in Char
  PROVE  LET u == <<Space>> \o t IN
         PutCollapsed(u, ch) \in {PutCollapsed(t, ch), <<Space>> \o PutCollapsed(t, ch)}
<1> DEFINE u == <<Space>> \o t
<1>0. <<Space>> \in Texts
  BY CharFacts DEF Texts
<1>1. /\ u \in Texts /\ Len(u) = Len(t) + 1 /\ u[1] = Space
      /\ \A i \in 1..Len(t) : u[i + 1] = t[i]
      /\ Len(t) \in Nat /\ (t = << >> <=> Len(t) = 0)
  BY SpaceFirst, TextFacts
<1>2. /\ <<Space>> \o Append(t, ch) = Append(u, ch)
      /\ <<Space>> \o Append(t, Space) = Append(u, Space)
  BY <1>0, CharFacts, ConcatAppend
<1> HIDE DEF u
<1>3. u # << >>
  BY <1>1, TextFacts
<1>4. CASE ch \notin Blank
  BY <1>2, <1>4 DEF PutCollapsed, u
<1>5. CASE ch \in Blank /\ t = << >>
  <2>1. Last(u) = Space
    BY <1>1, <1>5 DEF Last
  <2>2. PutCollapsed(u, ch) = u
    BY <1>3, <1>5, <2>1 DEF PutCollapsed
  <2>3. PutCollapsed(t, ch) = Append(<< >>, Space)
    BY <1>5 DEF PutCollapsed
  <2>4. u = Append(<< >>, Space)
    BY <1>5 DEF u
  <2> QED
    BY <2>2, <2>3, <2>4 DEF u
<1>6. CASE ch \in Blank /\ t # << >>
  <2>1. Last(u) = Last(t)
    <3>1. Len(t) \in 1..Len(t)
      BY <1>1, <1>6
    <3> QED
      BY <1>1, <3>1 DEF Last
  <2> QED
    BY <1>2, <1>3, <1>6, <2>1 DEF PutCollapsed, u
<1> QED
  BY <1>4, <1>5, <1>6 DEF u

LEMMA ReadsGrows ==
  ASSUME NEW p \in Texts, NEW q \in Texts, Reads(p, q), NEW ch \in Char
  PROVE  Reads(Append(p, ch), Append(q, ch))
<1>1. Collapse(p) \in Texts /\ Collapse(q) \in Texts
  BY CollapseType
<1>2. /\ Collapse(Append(p, ch)) = PutCollapsed(Collapse(p), ch)
      /\ Collapse(Append(q, ch)) = PutCollapsed(Collapse(q), ch)
  BY CollapseAppend
<1>3. CASE Collapse(p) = Collapse(q)
  BY <1>2, <1>3 DEF Reads
<1>4. CASE Collapse(p) = <<Space>> \o Collapse(q)
  BY <1>1, <1>2, <1>4, PutCollapsedSpace DEF Reads
<1> QED
  BY <1>3, <1>4 DEF Reads

LEMMA ReadsBlanks ==
  ASSUME NEW p \in Texts, NEW q \in Texts, Reads(p, q),
         NEW ch \in Char, ch \in Blank, NEW by \in Char, by \in Blank
  PROVE  Reads(Append(p, ch), Append(q, by))
<1>1. Reads(Append(p, ch), Append(q, ch))
  BY ReadsGrows
<1>2. Collapse(Append(q, ch)) = Collapse(Append(q, by))
  <2>1. /\ Collapse(Append(q, ch)) = PutCollapsed(Collapse(q), ch)
        /\ Collapse(Append(q, by)) = PutCollapsed(Collapse(q), by)
    BY CollapseAppend
  <2> QED
    BY <2>1 DEF PutCollapsed
<1> QED
  BY <1>1, <1>2 DEF Reads

\* Where a blank in p has nothing to add to what q has said.
Dropped(q) == Collapse(q) = << >> \/ Last(Collapse(q)) = Space

LEMMA ReadsDropped ==
  ASSUME NEW p \in Texts, NEW q \in Texts, Reads(p, q), Dropped(q),
         NEW ch \in Char, ch \in Blank
  PROVE  Reads(Append(p, ch), q)
<1> DEFINE c == Collapse(p)
           d == Collapse(q)
<1>1. c \in Texts /\ d \in Texts /\ (c = d \/ c = <<Space>> \o d)
  BY CollapseType DEF Reads
<1>2. Collapse(Append(p, ch)) = PutCollapsed(c, ch)
  BY CollapseAppend
<1>3. d = << >> \/ (d # << >> /\ Last(d) = Space)
  BY DEF Dropped
<1> HIDE DEF c, d
<1>4. <<Space>> \o << >> = <<Space>> /\ Append(<< >>, Space) = <<Space>> /\ Last(<<Space>>) = Space
  BY DEF Last
<1>5. CASE d = << >>
  <2>1. PutCollapsed(c, ch) = <<Space>>
    BY <1>1, <1>4, <1>5 DEF PutCollapsed
  <2> QED
    BY <1>2, <1>4, <1>5, <2>1 DEF Reads, d
<1>6. CASE d # << >> /\ Last(d) = Space
  <2>1. c # << >> /\ Last(c) = Space
    <3>1. CASE c = d
      BY <1>6, <3>1
    <3>2. CASE c = <<Space>> \o d
      <4>1. /\ Len(d) \in Nat \ {0} /\ Len(c) = Len(d) + 1
            /\ \A i \in 1..Len(d) : c[i + 1] = d[i]
        BY <1>1, <1>6, <3>2, SpaceFirst, TextFacts
      <4>2. c # << >>
        BY <1>1, <4>1, TextFacts
      <4> QED
        BY <1>6, <4>1, <4>2 DEF Last
    <3> QED
      BY <1>1, <3>1, <3>2
  <2>2. PutCollapsed(c, ch) = c
    BY <2>1 DEF PutCollapsed
  <2> QED
    BY <1>1, <1>2, <2>2 DEF Reads, d
<1> QED
  BY <1>3, <1>5, <1>6

LEMMA DroppedAfterSpace ==
  ASSUME NEW p \in Texts
  PROVE  Dropped(Append(p, Space))
<1>1. /\ Collapse(p) \in Texts
      /\ Collapse(Append(p, Space)) = PutCollapsed(Collapse(p), Space)
  BY CharFacts, CollapseType, CollapseAppend
<1>2. Last(Append(Collapse(p), Space)) = Space
  BY <1>1, CharFacts, AppendFacts
<1> QED
  BY <1>1, <1>2, CharFacts DEF Dropped, PutCollapsed

-----------------------------------------------------------------------------
(* Texts whose parts say the same.                                         *)

PartsSaySame(these, those) ==
  /\ Len(these) = Len(those)
  /\ \A i \in 1..Len(these) : Says(these[i]) = Says(those[i])

\* And will do so whatever follows.
PartsReadSame(these, those) ==
  /\ PartsSaySame(these, those)
  /\ Reads(these[Len(these)], those[Len(those)])

SaySame(s, t)  == PartsSaySame(SplitAt(s, Dashes), SplitAt(t, Dashes))
ReadSame(s, t) == PartsReadSame(SplitAt(s, Dashes), SplitAt(t, Dashes))

\* Only the last parts change.
LEMMA LastPartsChange ==
  ASSUME NEW these \in Filled, NEW those \in Filled, PartsSaySame(these, those),
         NEW p \in Texts, NEW q \in Texts, Says(p) = Says(q),
         NEW P \in Filled, Len(P) = Len(these), P[Len(these)] = p,
         \A j \in 1..Len(these) - 1 : P[j] = these[j],
         NEW Q \in Filled, Len(Q) = Len(those), Q[Len(those)] = q,
         \A j \in 1..Len(those) - 1 : Q[j] = those[j]
  PROVE  PartsSaySame(P, Q)
<1> DEFINE n == Len(these)
<1>1. n \in Nat \ {0} /\ Len(those) = n
  BY ListFacts DEF Filled, PartsSaySame
<1>2. \A j \in 1..n : j \in 1..n - 1 \/ j = n
  BY <1>1
<1> HIDE DEF n
<1>3. \A j \in 1..n : Says(P[j]) = Says(Q[j])
  BY <1>1, <1>2 DEF PartsSaySame, n
<1> QED
  BY <1>1, <1>3 DEF PartsSaySame, n

\* One more character, which does not separate, in the last part.
LEMMA PutSolidFacts ==
  ASSUME NEW these \in Filled, NEW ch \in Char, ch \notin Dashes
  PROVE  LET P == PutSplit(these, ch, Dashes) IN
         /\ P \in Filled /\ Len(P) = Len(these) /\ Len(these) \in Nat \ {0}
         /\ P[Len(these)] = Append(these[Len(these)], ch)
         /\ \A j \in 1..Len(these) - 1 : P[j] = these[j]
         /\ these[Len(these)] \in Texts
         /\ Append(these[Len(these)], ch) \in Texts
<1>1. these \in Lists \ {<< >>} /\ Len(these) \in Nat \ {0} /\ these[Len(these)] \in Texts
  BY ListFacts DEF Filled
<1>2. Append(these[Len(these)], ch) \in Texts
  BY <1>1, AppendFacts
<1>3. PutSplit(these, ch, Dashes) \in Filled
  BY <1>1, PutSplitFacts DEF Filled
<1> QED
  BY <1>1, <1>2, <1>3, PutSplitOther

LEMMA PartsGrow ==
  ASSUME NEW these \in Filled, NEW those \in Filled,
         NEW ch \in Char, NEW by \in Char, ch \notin Dashes, by \notin Dashes,
         PartsSaySame(these, those),
         Reads(Append(these[Len(these)], ch), Append(those[Len(those)], by))
  PROVE  PartsReadSame(PutSplit(these, ch, Dashes), PutSplit(those, by, Dashes))
<1> DEFINE P == PutSplit(these, ch, Dashes)
           Q == PutSplit(those, by, Dashes)
           p == Append(these[Len(these)], ch)
           q == Append(those[Len(those)], by)
<1>1. /\ P \in Filled /\ Len(P) = Len(these) /\ P[Len(these)] = p
      /\ \A j \in 1..Len(these) - 1 : P[j] = these[j]
      /\ p \in Texts
  BY PutSolidFacts
<1>2. /\ Q \in Filled /\ Len(Q) = Len(those) /\ Q[Len(those)] = q
      /\ \A j \in 1..Len(those) - 1 : Q[j] = those[j]
      /\ q \in Texts
  BY PutSolidFacts
<1>3. Reads(p, q)
  OBVIOUS
<1> HIDE DEF P, Q, p, q
<1>4. Says(p) = Says(q)
  BY <1>1, <1>2, <1>3, ReadsSaysSame
<1>5. PartsSaySame(P, Q)
  BY <1>1, <1>2, <1>4, LastPartsChange
<1> QED
  BY <1>1, <1>2, <1>3, <1>5 DEF PartsReadSame, P, Q

\* One more character that is dropped on the other side.
LEMMA PartsGrowAlone ==
  ASSUME NEW these \in Filled, NEW those \in Filled, NEW ch \in Char, ch \in Blank,
         PartsSaySame(these, those)
  PROVE  /\ PartsSaySame(PutSplit(these, ch, Dashes), those)
         /\ Reads(Append(these[Len(these)], ch), those[Len(those)]) =>
              PartsReadSame(PutSplit(these, ch, Dashes), those)
<1> DEFINE P == PutSplit(these, ch, Dashes)
           p == Append(these[Len(these)], ch)
           q == those[Len(those)]
<1>1. /\ P \in Filled /\ Len(P) = Len(these) /\ P[Len(these)] = p
      /\ \A j \in 1..Len(these) - 1 : P[j] = these[j]
      /\ p \in Texts /\ these[Len(these)] \in Texts /\ Len(these) \in Nat \ {0}
  BY CharFacts, PutSolidFacts
<1>2. /\ those \in Filled /\ q \in Texts
      /\ \A j \in 1..Len(those) - 1 : those[j] = those[j]
      /\ Len(those) = Len(these)
  BY <1>1, ListFacts DEF Filled, PartsSaySame
<1>3. Says(p) = Says(these[Len(these)])
  BY <1>1, BlankSaysNothing
<1>4. Says(these[Len(these)]) = Says(q)
  <2>1. Len(these) \in 1..Len(these)
    BY <1>1
  <2> QED
    BY <1>2, <2>1 DEF PartsSaySame
<1> HIDE DEF P, p
<1>5. PartsSaySame(P, those)
  <2>1. Len(these) \in 1..Len(these)
    BY <1>1
  <2> QED
    BY <1>1, <1>2, <1>3, <1>4, LastPartsChange
<1> QED
  BY <1>1, <1>5 DEF PartsReadSame, P, p

\* A dash begins a new part.
LEMMA PartsBreak ==
  ASSUME NEW these \in Filled, NEW those \in Filled, PartsSaySame(these, those),
         NEW ch \in Char, NEW by \in Char, ch \in Dashes, by \in Dashes
  PROVE  PartsReadSame(PutSplit(these, ch, Dashes), PutSplit(those, by, Dashes))
<1> DEFINE P == PutSplit(these, ch, Dashes)
           Q == PutSplit(those, by, Dashes)
           n == Len(these)
<1>0. n \in Nat /\ Len(those) = n
  BY ListFacts DEF Filled, PartsSaySame
<1>1. Len(P) = n + 1 /\ P[n + 1] = << >> /\ \A j \in 1..n : P[j] = these[j]
  BY PutSplitFacts DEF Filled
<1>2. Len(Q) = n + 1 /\ Q[n + 1] = << >> /\ \A j \in 1..n : Q[j] = those[j]
  BY <1>0, PutSplitFacts DEF Filled
<1> HIDE DEF P, Q
<1>3. \A j \in 1..n + 1 : j \in 1..n \/ j = n + 1
  BY <1>0
<1>4. \A j \in 1..n : Says(these[j]) = Says(those[j])
  BY DEF PartsSaySame
<1> HIDE DEF n
<1>5. PartsSaySame(P, Q)
  BY <1>1, <1>2, <1>3, <1>4 DEF PartsSaySame
<1>6. Reads(P[Len(P)], Q[Len(Q)])
  BY <1>1, <1>2 DEF Reads
<1> QED
  BY <1>5, <1>6 DEF PartsReadSame, P, Q

LEMMA SaySameEquivalence ==
  /\ \A s \in Texts : SaySame(s, s) /\ ReadSame(s, s)
  /\ \A s, t, u \in Texts : SaySame(s, t) /\ SaySame(t, u) => SaySame(s, u)
  BY DEF SaySame, ReadSame, PartsSaySame, PartsReadSame, Reads

LEMMA LastPartFacts ==
  ASSUME NEW s \in Texts
  PROVE  /\ SplitAt(s, Dashes) \in Filled
         /\ SplitAt(s, Dashes)[Len(SplitAt(s, Dashes))] \in Texts
<1>1. SplitAt(s, Dashes) \in Filled
  BY SplitType
<1>2. Len(SplitAt(s, Dashes)) \in 1..Len(SplitAt(s, Dashes))
  BY <1>1, ListFacts DEF Filled
<1> QED
  BY <1>1, <1>2, ListFacts DEF Filled

LastPart(s) == SplitAt(s, Dashes)[Len(SplitAt(s, Dashes))]

\* The same character at the end of both texts.
LEMMA SayGrows ==
  ASSUME NEW s \in Texts, NEW t \in Texts, ReadSame(s, t), NEW ch \in Char
  PROVE  ReadSame(Append(s, ch), Append(t, ch))
<1> DEFINE P == SplitAt(s, Dashes)
           Q == SplitAt(t, Dashes)
<1>1. P \in Filled /\ Q \in Filled /\ PartsSaySame(P, Q) /\ Reads(LastPart(s), LastPart(t))
  BY LastPartFacts DEF ReadSame, PartsReadSame, LastPart
<1>2. /\ SplitAt(Append(s, ch), Dashes) = PutSplit(P, ch, Dashes)
      /\ SplitAt(Append(t, ch), Dashes) = PutSplit(Q, ch, Dashes)
  BY SplitAppend
<1>3. LastPart(s) \in Texts /\ LastPart(t) \in Texts
  BY LastPartFacts DEF LastPart
<1>4. Reads(Append(LastPart(s), ch), Append(LastPart(t), ch))
  BY <1>1, <1>3, ReadsGrows
<1> HIDE DEF P, Q
<1>5. PartsReadSame(PutSplit(P, ch, Dashes), PutSplit(Q, ch, Dashes))
  BY <1>1, <1>4, PartsBreak, PartsGrow DEF LastPart, P, Q
<1> QED
  BY <1>2, <1>5 DEF ReadSame

\* A dash of any kind.
LEMMA SayDashes ==
  ASSUME NEW s \in Texts, NEW t \in Texts, SaySame(s, t),
         NEW ch \in Char, ch \in Dashes
  PROVE  ReadSame(Append(s, ch), Append(t, "-"))
<1>1. /\ SplitAt(Append(s, ch), Dashes) = PutSplit(SplitAt(s, Dashes), ch, Dashes)
      /\ SplitAt(Append(t, "-"), Dashes) = PutSplit(SplitAt(t, Dashes), "-", Dashes)
  BY CharFacts, SplitAppend
<1>2. SplitAt(s, Dashes) \in Filled /\ SplitAt(t, Dashes) \in Filled
  BY SplitType
<1>3. PartsReadSame(PutSplit(SplitAt(s, Dashes), ch, Dashes),
                    PutSplit(SplitAt(t, Dashes), "-", Dashes))
  BY <1>2, CharFacts, PartsBreak DEF SaySame
<1> QED
  BY <1>1, <1>3 DEF ReadSame

\* White space of any kind.
LEMMA SayBlanks ==
  ASSUME NEW s \in Texts, NEW t \in Texts, ReadSame(s, t),
         NEW ch \in Char, ch \in Blank, NEW by \in Char, by \in Blank
  PROVE  ReadSame(Append(s, ch), Append(t, by))
<1> DEFINE P == SplitAt(s, Dashes)
           Q == SplitAt(t, Dashes)
<1>1. P \in Filled /\ Q \in Filled /\ PartsSaySame(P, Q) /\ Reads(LastPart(s), LastPart(t))
  BY LastPartFacts DEF ReadSame, PartsReadSame, LastPart
<1>2. /\ SplitAt(Append(s, ch), Dashes) = PutSplit(P, ch, Dashes)
      /\ SplitAt(Append(t, by), Dashes) = PutSplit(Q, by, Dashes)
  BY SplitAppend
<1>3. LastPart(s) \in Texts /\ LastPart(t) \in Texts
  BY LastPartFacts DEF LastPart
<1>4. Reads(Append(LastPart(s), ch), Append(LastPart(t), by))
  BY <1>1, <1>3, ReadsBlanks
<1> HIDE DEF P, Q
<1>5. PartsReadSame(PutSplit(P, ch, Dashes), PutSplit(Q, by, Dashes))
  BY <1>1, <1>4, CharFacts, PartsGrow DEF LastPart, P, Q
<1> QED
  BY <1>2, <1>5 DEF ReadSame

\* White space that is dropped.
LEMMA SayDropped ==
  ASSUME NEW s \in Texts, NEW t \in Texts, SaySame(s, t), NEW ch \in Char, ch \in Blank
  PROVE  /\ SaySame(Append(s, ch), t)
         /\ ReadSame(s, t) /\ Dropped(LastPart(t)) => ReadSame(Append(s, ch), t)
<1> DEFINE P == SplitAt(s, Dashes)
           Q == SplitAt(t, Dashes)
<1>1. P \in Filled /\ Q \in Filled /\ PartsSaySame(P, Q)
  BY SplitType DEF SaySame
<1>2. SplitAt(Append(s, ch), Dashes) = PutSplit(P, ch, Dashes)
  BY SplitAppend
<1>3. LastPart(s) \in Texts /\ LastPart(t) \in Texts
  BY LastPartFacts DEF LastPart
<1>4. ASSUME ReadSame(s, t), Dropped(LastPart(t))
      PROVE  Reads(Append(LastPart(s), ch), LastPart(t))
  <2>1. Reads(LastPart(s), LastPart(t))
    BY <1>4 DEF ReadSame, PartsReadSame, LastPart
  <2> QED
    BY <1>3, <1>4, <2>1, ReadsDropped
<1> HIDE DEF P, Q
<1>5. /\ PartsSaySame(PutSplit(P, ch, Dashes), Q)
      /\ Reads(Append(P[Len(P)], ch), Q[Len(Q)]) =>
           PartsReadSame(PutSplit(P, ch, Dashes), Q)
  BY <1>1, PartsGrowAlone
<1>6. LastPart(s) = P[Len(P)] /\ LastPart(t) = Q[Len(Q)]
  BY DEF LastPart, P, Q
<1> QED
  BY <1>2, <1>4, <1>5, <1>6 DEF SaySame, ReadSame, Q

LEMMA DroppedAtStart == Dropped(LastPart(<< >>))
<1>1. LastPart(<< >>) = << >>
  BY SplitEmpty DEF LastPart
<1> QED
  BY <1>1, CollapseEmpty DEF Dropped

LEMMA LastPartGrows ==
  ASSUME NEW s \in Texts, NEW ch \in Char
  PROVE  LastPart(Append(s, ch)) = IF ch \in Dashes THEN << >> ELSE Append(LastPart(s), ch)
<1> DEFINE P == SplitAt(s, Dashes)
           Q == PutSplit(P, ch, Dashes)
<1>1. P \in Lists \ {<< >>} /\ SplitAt(Append(s, ch), Dashes) = Q
  BY SplitType, SplitAppend DEF Filled
<1> HIDE DEF P
<1>2. CASE ch \in Dashes
  <2>1. Len(Q) = Len(P) + 1 /\ Q[Len(P) + 1] = << >>
    BY <1>1, <1>2, PutSplitFacts
  <2> QED
    BY <1>1, <1>2, <2>1 DEF LastPart
<1>3. CASE ch \notin Dashes
  <2>1. Len(Q) = Len(P) /\ Q[Len(P)] = Append(P[Len(P)], ch)
    BY <1>1, <1>3, PutSplitOther
  <2> QED
    BY <1>1, <1>3, <2>1 DEF LastPart, P
<1> QED
  BY <1>2, <1>3

LEMMA TextGrown ==
  ASSUME NEW t \in Texts, t # << >>
  PROVE  \E s \in Texts : t = Append(s, Last(t))
<1> DEFINE n == Len(t)
<1>1. n \in Nat \ {0} /\ n \in 1..n /\ t \in Seq(Char)
  BY TextFacts DEF Texts
<1>2. SubSeq(t, 1, n - 1) \in Texts /\ SubSeq(t, 1, n) = Append(SubSeq(t, 1, n - 1), t[n])
  BY <1>1, PrefixGrows DEF Texts
<1>3. SubSeq(t, 1, n) = t
  BY PrefixEnds
<1> QED
  BY <1>2, <1>3 DEF Last

LEMMA DroppedBySpace ==
  ASSUME NEW t \in Texts, t # << >>, Last(t) = Space
  PROVE  Dropped(LastPart(t))
<1>1. PICK s \in Texts : t = Append(s, Space)
  BY TextGrown
<1>2. LastPart(t) = Append(LastPart(s), Space)
  BY <1>1, CharFacts, LastPartGrows
<1>3. LastPart(s) \in Texts
  BY LastPartFacts DEF LastPart
<1> QED
  BY <1>2, <1>3, DroppedAfterSpace

LEMMA DroppedByDash ==
  ASSUME NEW s \in Texts, s # << >>, Last(s) = "-", NEW t \in Texts, ReadSame(s, t)
  PROVE  Dropped(LastPart(t))
<1>1. PICK r \in Texts : s = Append(r, "-")
  BY TextGrown
<1>2. LastPart(s) = << >>
  BY <1>1, CharFacts, LastPartGrows
<1>3. Reads(<< >>, LastPart(t))
  BY <1>2 DEF ReadSame, PartsReadSame, LastPart
<1>4. LastPart(t) \in Texts
  BY LastPartFacts DEF LastPart
<1>5. Collapse(LastPart(t)) \in Texts
  BY <1>4, CollapseType
<1>6. << >> # <<Space>> \o Collapse(LastPart(t))
  <2> DEFINE u == <<Space>> \o Collapse(LastPart(t))
  <2>1. u \in Texts /\ Len(u) = Len(Collapse(LastPart(t))) + 1
    BY <1>5, SpaceFirst
  <2>2. Len(Collapse(LastPart(t))) \in Nat
    BY <1>5, TextFacts
  <2> HIDE DEF u
  <2>3. u # << >>
    BY <2>1, <2>2, TextFacts
  <2> QED
    BY <2>3 DEF u
<1>7. Collapse(LastPart(t)) = << >>
  BY <1>3, <1>6, CollapseEmpty DEF Reads
<1> QED
  BY <1>7 DEF Dropped

-----------------------------------------------------------------------------
(* No substitution changes what the parts say.                             *)

\* A loop over the characters whose passes say the same, and, where firm, read
\* the same.
LEMMA PassesSay ==
  ASSUME NEW s \in Texts, NEW texts \in [0..Len(s) -> Texts], texts[0] = << >>, NEW Firm,
         \A i \in 1..Len(s) :
           LET p == SubSeq(s, 1, i - 1)
               q == Append(p, s[i]) IN
           SaySame(p, texts[i - 1]) /\ (i - 1 \in Firm => ReadSame(p, texts[i - 1])) =>
             SaySame(q, texts[i]) /\ (i \in Firm => ReadSame(q, texts[i]))
  PROVE  SaySame(s, texts[Len(s)])
<1> DEFINE n == Len(s)
           Good(i) == /\ SaySame(SubSeq(s, 1, i), texts[i])
                      /\ i \in Firm => ReadSame(SubSeq(s, 1, i), texts[i])
           Goods == {i \in 0..n : Good(i)}
<1>0. n \in Nat /\ s \in Seq(Char)
  BY TextFacts DEF Texts
<1>1. Good(0)
  <2>1. SubSeq(s, 1, 0) = << >> /\ << >> \in Texts
    BY PrefixEnds DEF Texts
  <2> QED
    BY <2>1, SaySameEquivalence
<1>2. ASSUME NEW i \in 1..n, Good(i - 1)
      PROVE  Good(i)
  <2>1. SubSeq(s, 1, i) = Append(SubSeq(s, 1, i - 1), s[i])
    BY <1>0, PrefixGrows
  <2> QED
    BY <1>2, <2>1
<1>3. Good(n)
  <2> HIDE DEF Good, n
  <2>1. 0 \in Goods /\ \A i \in 1..n : i - 1 \in Goods => i \in Goods
    BY <1>0, <1>1, <1>2
  <2> HIDE DEF Goods
  <2>2. \A i \in 0..n : i \in Goods
    BY <1>0, <2>1, LoopInvariant, Zenon
  <2> QED
    BY <1>0, <2>2 DEF Goods
<1> QED
  BY <1>3, PrefixEnds

LEMMA ReadSameSays ==
  ASSUME NEW s, NEW t, ReadSame(s, t)
  PROVE  SaySame(s, t)
  BY DEF ReadSame, SaySame, PartsReadSame

LEMMA CollapseSays ==
  ASSUME NEW s \in Texts
  PROVE  SaySame(s, Collapse(s))
<1> DEFINE n == Len(s)
<1>0. n \in Nat /\ \A i \in 1..n : s[i] \in Char
  BY TextFacts
<1>1. PICK texts \in [0..n -> Texts] :
        /\ texts[0] = << >>
        /\ \A i \in 1..n : texts[i] = PutCollapsed(texts[i - 1], s[i])
        /\ Collapse(s) = texts[n]
  BY CollapseLoop
<1>2. ASSUME NEW i \in 1..n, NEW p \in Texts, ReadSame(p, texts[i - 1])
      PROVE  ReadSame(Append(p, s[i]), texts[i])
  <2>1. texts[i - 1] \in Texts /\ s[i] \in Char
    BY <1>0
  <2>2. CASE s[i] \notin Blank
    BY <1>1, <1>2, <2>1, <2>2, SayGrows DEF PutCollapsed
  <2>3. CASE s[i] \in Blank /\ texts[i - 1] # << >> /\ Last(texts[i - 1]) = Space
    <3>1. texts[i] = texts[i - 1] /\ Dropped(LastPart(texts[i - 1]))
      BY <1>1, <2>1, <2>3, DroppedBySpace DEF PutCollapsed
    <3> QED
      BY <1>2, <2>1, <2>3, <3>1, ReadSameSays, SayDropped
  <2>4. CASE s[i] \in Blank /\ texts[i] = Append(texts[i - 1], Space)
    BY <1>2, <2>1, <2>4, CharFacts, SayBlanks
  <2> QED
    BY <1>1, <2>2, <2>3, <2>4 DEF PutCollapsed
<1>3. \A i \in 1..n : SubSeq(s, 1, i - 1) \in Texts
  BY PrefixGrows DEF Texts
<1>4. \A i \in 0..n : i - 1 \in Nat => i - 1 \in 0..n
  BY <1>0
<1> HIDE DEF n
<1>5. ASSUME NEW i \in 1..n,
             i - 1 \in 0..n => ReadSame(SubSeq(s, 1, i - 1), texts[i - 1])
      PROVE  /\ SaySame(Append(SubSeq(s, 1, i - 1), s[i]), texts[i])
             /\ ReadSame(Append(SubSeq(s, 1, i - 1), s[i]), texts[i])
  <2>1. i - 1 \in 0..n
    BY <1>0
  <2> QED
    BY <1>2, <1>3, <1>5, <2>1, ReadSameSays
<1>6. SaySame(s, texts[n])
  BY <1>1, <1>5, PassesSay DEF n
<1> QED
  BY <1>1, <1>6

LEMMA UnifySays ==
  ASSUME NEW s \in Texts
  PROVE  SaySame(s, UnifyDashes(s))
<1> DEFINE t == UnifyDashes(s)
           n == Len(s)
           texts == [i \in 0..n |-> SubSeq(t, 1, i)]
<1>0. n \in Nat /\ DOMAIN s = 1..n /\ \A i \in 1..n : s[i] \in Char
  BY TextFacts
<1>1. /\ t \in Texts /\ t \in Seq(Char) /\ Len(t) = n
      /\ \A i \in 1..n : t[i] = IF s[i] \in Dashes THEN "-" ELSE s[i]
  BY <1>0, UnifyFacts DEF Texts
<1>2. \A i \in 1..n : SubSeq(s, 1, i - 1) \in Texts
  BY PrefixGrows DEF Texts
<1> HIDE DEF t, n
<1>3. texts \in [0..n -> Texts] /\ texts[0] = << >> /\ texts[n] = t
  <2>1. \A i \in 0..n : SubSeq(t, 1, i) \in Texts
    BY <1>1, PrefixFacts DEF Texts
  <2>2. SubSeq(t, 1, 0) = << >> /\ SubSeq(t, 1, n) = t
    BY <1>1, PrefixEnds
  <2> QED
    BY <1>0, <2>1, <2>2
<1>4. ASSUME NEW i \in 1..n
      PROVE  texts[i] = Append(texts[i - 1], t[i])
  <2>1. SubSeq(t, 1, i) = Append(SubSeq(t, 1, i - 1), t[i])
    BY <1>1, PrefixGrows
  <2>2. i \in 0..n /\ i - 1 \in 0..n
    BY <1>0
  <2> QED
    BY <2>1, <2>2
<1> HIDE DEF texts
<1>5. ASSUME NEW i \in 1..n,
             i - 1 \in 0..n => ReadSame(SubSeq(s, 1, i - 1), texts[i - 1])
      PROVE  /\ SaySame(Append(SubSeq(s, 1, i - 1), s[i]), texts[i])
             /\ ReadSame(Append(SubSeq(s, 1, i - 1), s[i]), texts[i])
  <2> DEFINE p == SubSeq(s, 1, i - 1)
  <2>1. /\ i - 1 \in 0..n /\ texts[i - 1] \in Texts /\ s[i] \in Char
        /\ p \in Texts /\ ReadSame(p, texts[i - 1])
    BY <1>0, <1>2, <1>3, <1>5
  <2> HIDE DEF p
  <2>2. CASE s[i] \in Dashes
    <3>1. texts[i] = Append(texts[i - 1], "-")
      BY <1>1, <1>4, <2>2
    <3> QED
      BY <2>1, <2>2, <3>1, ReadSameSays, SayDashes DEF p
  <2>3. CASE s[i] \notin Dashes
    <3>1. texts[i] = Append(texts[i - 1], s[i])
      BY <1>1, <1>4, <2>3
    <3> QED
      BY <2>1, <2>3, <3>1, ReadSameSays, SayGrows DEF p
  <2> QED
    BY <2>2, <2>3
<1>6. SaySame(s, texts[n])
  BY <1>3, <1>5, PassesSay DEF n
<1> QED
  BY <1>3, <1>6 DEF t

\* A space before a dash is dropped before the dash is read: until then the
\* texts say the same, but do not read the same.
LEMMA TightenSays ==
  ASSUME NEW s \in Texts, Spaced(s), OneDash(s)
  PROVE  SaySame(s, TightenDashes(s))
<1> DEFINE n == Len(s)
           Firm == {i \in 0..n : ~IsDash(s, i + 1)}
<1>0. n \in Nat /\ DOMAIN s = 1..n /\ \A i \in 1..n : s[i] \in Char
  BY TextFacts
<1>1. PICK texts \in [0..n -> Texts] :
        /\ texts[0] = << >>
        /\ \A i \in 1..n : texts[i] = PutTight(texts[i - 1], s, i)
        /\ TightenDashes(s) = texts[n]
  BY TightenLoop
<1>2. \A i \in 1..n : SubSeq(s, 1, i - 1) \in Texts
  BY PrefixGrows DEF Texts
<1>3. ASSUME NEW i \in 1..n, i - 1 \in DOMAIN s
      PROVE  SubSeq(s, 1, i - 1) # << >> /\ Last(SubSeq(s, 1, i - 1)) = s[i - 1]
  BY <1>3, PrefixLast
<1> HIDE DEF n
<1>4. ASSUME NEW i \in 1..n,
             SaySame(SubSeq(s, 1, i - 1), texts[i - 1]),
             i - 1 \in Firm => ReadSame(SubSeq(s, 1, i - 1), texts[i - 1])
      PROVE  /\ SaySame(Append(SubSeq(s, 1, i - 1), s[i]), texts[i])
             /\ i \in Firm => ReadSame(Append(SubSeq(s, 1, i - 1), s[i]), texts[i])
  <2> DEFINE p == SubSeq(s, 1, i - 1)
             q == Append(p, s[i])
             t == texts[i - 1]
  <2>1. /\ i - 1 \in 0..n /\ t \in Texts /\ s[i] \in Char /\ p \in Texts
        /\ i \in DOMAIN s /\ (i - 1) + 1 = i
        /\ texts[i] = PutTight(t, s, i)
    BY <1>0, <1>1, <1>2
  <2>2. SaySame(p, t) /\ (i - 1 \in Firm => ReadSame(p, t))
    BY <1>4
  <2>3. CASE s[i] = "-"
    <3>1. texts[i] = Append(t, "-")
      BY <2>1, <2>3, SpaceIsNoDash DEF PutTight
    <3>2. s[i] \in Dashes
      BY <2>3, CharFacts
    <3>3. ReadSame(q, Append(t, "-"))
      BY <2>1, <2>2, <3>2, SayDashes
    <3> QED
      BY <3>1, <3>3, ReadSameSays
  <2>4. CASE s[i] # "-"
    <3>1. ReadSame(p, t)
      BY <2>1, <2>2, <2>4 DEF IsDash
    <3>2. CASE texts[i] = Append(t, s[i])
      <4>1. ReadSame(q, Append(t, s[i]))
        BY <2>1, <3>1, SayGrows
      <4> QED
        BY <3>2, <4>1, ReadSameSays
    <3>3. CASE s[i] = Space /\ IsDash(s, i - 1) /\ texts[i] = t
      <4>1. p # << >> /\ Last(p) = "-"
        BY <1>3, <3>3 DEF IsDash
      <4>2. Dropped(LastPart(t))
        BY <2>1, <3>1, <4>1, DroppedByDash
      <4>3. ReadSame(q, t)
        BY <2>1, <2>2, <3>1, <3>3, <4>2, CharFacts, SayDropped
      <4> QED
        BY <3>3, <4>3, ReadSameSays
    <3>4. CASE s[i] = Space /\ IsDash(s, i + 1) /\ texts[i] = t
      <4>1. SaySame(q, t)
        BY <2>1, <2>2, <3>4, CharFacts, SayDropped
      <4> QED
        BY <3>4, <4>1
    <3> QED
      BY <2>1, <3>2, <3>3, <3>4 DEF PutTight
  <2> QED
    BY <2>3, <2>4
<1> HIDE DEF Firm
<1>5. SaySame(s, texts[n])
  BY <1>1, <1>4, PassesSay DEF n
<1> QED
  BY <1>1, <1>5

\* The middle of a text, from its i-th character on.
LEMMA MiddleGrows ==
  ASSUME NEW s \in Texts, NEW from \in 1..Len(s), NEW i \in from..Len(s)
  PROVE  /\ SubSeq(s, from, i - 1) \in Texts
         /\ SubSeq(s, from, i) = Append(SubSeq(s, from, i - 1), s[i])
<1> DEFINE p == SubSeq(s, from, i - 1)
           q == SubSeq(s, from, i)
           m == i - from
<1>0. /\ Len(s) \in Nat /\ \A j \in 1..Len(s) : s[j] \in Char
      /\ s \in Seq(Char)
  BY TextFacts DEF Texts
<1>1. /\ from \in Nat /\ i \in Nat /\ m \in Nat /\ i \in 1..Len(s)
      /\ from \in 1..Len(s) + 1 /\ i - 1 \in 0..Len(s) /\ i \in 0..Len(s)
      /\ (i - 1) - from + 1 = m /\ i - from + 1 = m + 1
      /\ from <= (i - 1) + 1 /\ from <= i + 1
      /\ from + (m + 1) - 1 = i
  BY <1>0
<1>2. p \in Texts /\ Len(p) = m /\ \A j \in 1..m : p[j] = s[from + j - 1]
  <2>1. /\ p \in Texts
        /\ Len(p) = (i - 1) - from + 1
        /\ \A j \in 1..(i - 1) - from + 1 : p[j] = s[from + j - 1]
    BY <1>1, PartFacts
  <2> QED
    BY <1>1, <2>1
<1>3. q \in Texts /\ Len(q) = m + 1 /\ \A j \in 1..m + 1 : q[j] = s[from + j - 1]
  <2>1. /\ q \in Texts
        /\ Len(q) = i - from + 1
        /\ \A j \in 1..i - from + 1 : q[j] = s[from + j - 1]
    BY <1>1, PartFacts
  <2> QED
    BY <1>1, <2>1
<1> HIDE DEF p, q, m
<1>4. s[i] \in Char
  BY <1>0, <1>1
<1>5. /\ Append(p, s[i]) \in Texts /\ Len(Append(p, s[i])) = m + 1
      /\ \A j \in 1..m : Append(p, s[i])[j] = p[j]
      /\ Append(p, s[i])[m + 1] = s[i]
  BY <1>2, <1>4, AppendFacts
<1>6. \A j \in 1..m + 1 : q[j] = Append(p, s[i])[j]
  <2>1. \A j \in 1..m + 1 : j \in 1..m \/ j = m + 1
    BY <1>1
  <2> QED
    BY <1>1, <1>2, <1>3, <1>5, <2>1
<1>7. q = Append(p, s[i])
  BY <1>3, <1>5, <1>6, SeqEqual DEF Texts
<1> QED
  BY <1>2, <1>7 DEF p, q

\* Where there is one kind of dash, it is the one that separates.
LEMMA SplitOneDash ==
  ASSUME NEW s \in Texts, OneDash(s)
  PROVE  SplitAt(s, Dashes) = SplitAt(s, {"-"})
<1> DEFINE n == Len(s)
           Part(i) == SubSeq(s, 1, i)
           Goods == {i \in 0..n : SplitAt(Part(i), Dashes) = SplitAt(Part(i), {"-"})}
<1>0. n \in Nat /\ DOMAIN s = 1..n /\ \A i \in 1..n : s[i] \in Char
  BY TextFacts
<1>1. SplitAt(Part(0), Dashes) = SplitAt(Part(0), {"-"})
  <2>1. Part(0) = << >>
    BY PrefixEnds
  <2> QED
    BY <2>1, SplitEmpty
<1>2. ASSUME NEW i \in 1..n, SplitAt(Part(i - 1), Dashes) = SplitAt(Part(i - 1), {"-"})
      PROVE  SplitAt(Part(i), Dashes) = SplitAt(Part(i), {"-"})
  <2>1. Part(i - 1) \in Texts /\ Part(i) = Append(Part(i - 1), s[i])
    BY PrefixGrows DEF Texts
  <2>2. s[i] \in Char /\ (s[i] \in Dashes <=> s[i] \in {"-"})
    BY <1>0, CharFacts DEF OneDash
  <2> HIDE DEF Part
  <2>3. /\ SplitAt(Part(i), Dashes) = PutSplit(SplitAt(Part(i - 1), Dashes), s[i], Dashes)
        /\ SplitAt(Part(i), {"-"}) = PutSplit(SplitAt(Part(i - 1), {"-"}), s[i], {"-"})
    BY <2>1, <2>2, SplitAppend
  <2>4. PutSplit(SplitAt(Part(i - 1), {"-"}), s[i], Dashes)
          = PutSplit(SplitAt(Part(i - 1), {"-"}), s[i], {"-"})
    BY <2>2 DEF PutSplit
  <2> QED
    BY <1>2, <2>3, <2>4
<1>3. SplitAt(Part(n), Dashes) = SplitAt(Part(n), {"-"})
  <2> HIDE DEF Part, n
  <2>1. 0 \in Goods /\ \A i \in 1..n : i - 1 \in Goods => i \in Goods
    BY <1>0, <1>1, <1>2
  <2> HIDE DEF Goods
  <2>2. \A i \in 0..n : i \in Goods
    BY <1>0, <2>1, LoopInvariant, Zenon
  <2> QED
    BY <1>0, <2>2 DEF Goods
<1> QED
  BY <1>3, PrefixEnds

LEMMA StripSays ==
  ASSUME NEW s \in Texts
  PROVE  SaySame(s, Strip(s))
<1> DEFINE n == Len(s)
<1>0. n \in Nat /\ \A i \in 1..n : s[i] \in Char
  BY TextFacts
<1>1. \A i \in 1..n : SubSeq(s, 1, i - 1) \in Texts
  BY PrefixGrows DEF Texts
<1>2. << >> \in Texts
  BY DEF Texts
<1>3. CASE (\A i \in 1..n : s[i] \in Blank) /\ Strip(s) = << >>
  <2> DEFINE texts == [i \in 0..n |-> << >>]
             Firm == {}
  <2>1. texts \in [0..n -> Texts] /\ texts[0] = << >> /\ texts[n] = << >>
    BY <1>0, <1>2
  <2>2. ASSUME NEW i \in 1..n, SaySame(SubSeq(s, 1, i - 1), texts[i - 1]),
               i - 1 \in Firm => ReadSame(SubSeq(s, 1, i - 1), texts[i - 1])
        PROVE  /\ SaySame(Append(SubSeq(s, 1, i - 1), s[i]), texts[i])
               /\ i \in Firm => ReadSame(Append(SubSeq(s, 1, i - 1), s[i]), texts[i])
    <3>1. texts[i - 1] = << >> /\ texts[i] = << >> /\ s[i] \in Char /\ s[i] \in Blank
      BY <1>0, <1>3
    <3>2. SaySame(Append(SubSeq(s, 1, i - 1), s[i]), << >>)
      BY <1>1, <1>2, <2>2, <3>1, SayDropped
    <3> QED
      BY <3>1, <3>2
  <2> HIDE DEF texts, Firm
  <2>3. SaySame(s, texts[n])
    BY <2>1, <2>2, PassesSay
  <2> QED
    BY <1>3, <2>1, <2>3
<1>4. ASSUME NEW from \in 1..n, NEW to \in 1..n, from <= to,
             \A i \in 1..n : i < from \/ i > to => s[i] \in Blank,
             Strip(s) = SubSeq(s, from, to)
      PROVE  SaySame(s, Strip(s))
  <2> DEFINE Upto(i) == IF i < from THEN << >>
                        ELSE IF i > to THEN SubSeq(s, from, to)
                        ELSE SubSeq(s, from, i)
             texts == [i \in 0..n |-> Upto(i)]
             Firm == 0..to
  <2>1. ASSUME NEW i \in from..n
        PROVE  SubSeq(s, from, i) \in Texts
    <3>1. i \in 0..Len(s) /\ from \in 1..Len(s) + 1 /\ from <= i + 1
      BY <1>0
    <3> QED
      BY <3>1, PartFacts
  <2>2. texts \in [0..n -> Texts]
    <3>1. ASSUME NEW i \in 0..n
          PROVE  Upto(i) \in Texts
      <4>1. to \in from..n
        BY <1>0, <1>4
      <4>2. i < from \/ i > to \/ i \in from..n
        BY <1>0
      <4> QED
        BY <1>2, <2>1, <4>1, <4>2
    <3> HIDE DEF Upto
    <3> QED
      BY <3>1
  <2>3. texts[0] = << >> /\ texts[n] = SubSeq(s, from, to)
    <3>1. 0 < from /\ ~(n < from) /\ (n > to \/ n = to)
      BY <1>0, <1>4
    <3>2. 0 \in 0..n /\ n \in 0..n
      BY <1>0
    <3> QED
      BY <3>1, <3>2
  <2>4. ASSUME NEW i \in 1..n
        PROVE  \/ i < from /\ texts[i - 1] = << >> /\ texts[i] = << >>
               \/ i > to /\ texts[i] = texts[i - 1]
               \/ i \in from..to /\ texts[i] = Append(texts[i - 1], s[i])
    <3>0. i \in 0..n /\ i - 1 \in 0..n
      BY <1>0
    <3>1. texts[i] = Upto(i) /\ texts[i - 1] = Upto(i - 1)
      BY <3>0
    <3> HIDE DEF texts
    <3>2. CASE i < from
      <4>1. i - 1 < from
        BY <3>2
      <4> QED
        BY <3>1, <3>2, <4>1
    <3>3. CASE i > to
      <4>1. ~(i < from) /\ ~(i - 1 < from) /\ (i - 1 > to \/ i - 1 = to)
        BY <1>4, <3>3
      <4> QED
        BY <3>1, <3>3, <4>1
    <3>4. CASE ~(i < from) /\ ~(i > to)
      <4>1. i \in from..Len(s) /\ i \in from..to
        BY <1>0, <3>4
      <4>2. SubSeq(s, from, i) = Append(SubSeq(s, from, i - 1), s[i])
        BY <4>1, MiddleGrows
      <4>3. Upto(i - 1) = SubSeq(s, from, i - 1)
        <5>1. CASE i = from
          <6>1. i - 1 < from /\ from \in Int
            BY <1>0, <5>1
          <6>2. SubSeq(s, from, i - 1) = << >>
            BY <5>1, <6>1, SubSeqEmpty
          <6> QED
            BY <6>1, <6>2
        <5>2. CASE i # from
          <6>1. ~(i - 1 < from) /\ ~(i - 1 > to)
            BY <1>0, <3>4, <5>2
          <6> QED
            BY <6>1
        <5> QED
          BY <5>1, <5>2
      <4> QED
        BY <3>1, <3>4, <4>1, <4>2, <4>3
    <3> QED
      BY <3>2, <3>3, <3>4
  <2> HIDE DEF texts
  <2>5. ASSUME NEW i \in 1..n,
               SaySame(SubSeq(s, 1, i - 1), texts[i - 1]),
               i - 1 \in Firm => ReadSame(SubSeq(s, 1, i - 1), texts[i - 1])
        PROVE  /\ SaySame(Append(SubSeq(s, 1, i - 1), s[i]), texts[i])
               /\ i \in Firm => ReadSame(Append(SubSeq(s, 1, i - 1), s[i]), texts[i])
    <3> DEFINE p == SubSeq(s, 1, i - 1)
               q == Append(p, s[i])
    <3>1. p \in Texts /\ s[i] \in Char /\ texts[i - 1] \in Texts
      <4>1. i - 1 \in 0..n
        BY <1>0
      <4> QED
        BY <1>0, <1>1, <2>2, <4>1
    <3>2. CASE i < from /\ texts[i - 1] = << >> /\ texts[i] = << >>
      <4>1. ReadSame(p, texts[i - 1]) /\ s[i] \in Blank
        <5>1. i - 1 \in Firm
          BY <1>4, <3>2
        <5> QED
          BY <1>4, <2>5, <3>2, <5>1
      <4>2. Dropped(LastPart(texts[i - 1]))
        BY <3>2, DroppedAtStart
      <4>3. SaySame(q, texts[i - 1]) /\ ReadSame(q, texts[i - 1])
        BY <2>5, <3>1, <4>1, <4>2, SayDropped
      <4> QED
        BY <3>2, <4>3
    <3>3. CASE i > to /\ texts[i] = texts[i - 1]
      <4>1. s[i] \in Blank /\ i \notin Firm
        BY <1>4, <3>3
      <4>2. SaySame(q, texts[i - 1])
        BY <2>5, <3>1, <4>1, SayDropped
      <4> QED
        BY <3>3, <4>1, <4>2
    <3>4. CASE i \in from..to /\ texts[i] = Append(texts[i - 1], s[i])
      <4>1. i - 1 \in Firm
        BY <1>4, <3>4
      <4>2. ReadSame(q, Append(texts[i - 1], s[i]))
        BY <2>5, <3>1, <4>1, SayGrows
      <4> QED
        BY <3>4, <4>2, ReadSameSays
    <3> QED
      BY <2>4, <3>2, <3>3, <3>4
  <2> HIDE DEF Firm
  <2>6. SaySame(s, texts[n])
    BY <2>2, <2>3, <2>5, PassesSay
  <2> QED
    BY <1>4, <2>3, <2>6
<1> QED
  BY <1>3, <1>4, StripForm

LEMMA CleanedSays ==
  ASSUME NEW s \in Texts
  PROVE  SaySame(s, Cleaned(s))
<1> DEFINE t == Strip(s)
           u == Collapse(t)
           v == UnifyDashes(u)
           w == TightenDashes(v)
<1>1. t \in Texts /\ Trimmed(t) /\ SaySame(s, t)
  BY StripTrims, StripSays
<1>2. u \in Texts /\ Spaced(u) /\ SaySame(t, u)
  BY <1>1, CollapseSpaces, CollapseSays
<1>3. v \in Texts /\ Spaced(v) /\ OneDash(v) /\ SaySame(u, v)
  BY <1>2, UnifyFacts, UnifyKeepsSpaced, UnifySays
<1>4. w \in Texts /\ SaySame(v, w)
  BY <1>3, TightenMakesNeat, TightenSays
<1>5. Cleaned(s) = w
  BY DEF Cleaned
<1> HIDE DEF t, u, v, w
<1>6. SaySame(s, u)
  BY <1>1, <1>2, SaySameEquivalence
<1>7. SaySame(s, v)
  BY <1>2, <1>3, <1>6, SaySameEquivalence
<1> QED
  BY <1>3, <1>4, <1>5, <1>7, SaySameEquivalence

\* The segments are what the parts say.
LEMMA SegmentsSay ==
  ASSUME NEW s \in Texts
  PROVE  LET parts == SplitAt(s, Dashes) IN
         /\ parts \in Filled
         /\ Segments(s) = [i \in DOMAIN parts |-> Says(parts[i])]
<1> DEFINE parts == SplitAt(s, Dashes)
           n == Len(parts)
           segments == Segments(s)
<1>1. parts \in Filled /\ DOMAIN parts = 1..n /\ n \in Nat
  BY SplitType, ListFacts DEF Filled
<1>2. /\ segments \in Filled /\ DOMAIN segments = 1..Len(segments)
      /\ \A i \in 1..Len(segments) : segments[i] \in Texts /\ Segment(segments[i])
  BY NormalizeForm, ListFacts DEF Filled
<1>3. segments = SplitAt(Cleaned(s), Dashes)
  BY CleanedIsNeat, SplitOneDash DEF Neat, Segments
<1>4. PartsSaySame(parts, segments)
  BY <1>3, CleanedSays DEF SaySame
<1> HIDE DEF segments
<1>5. Len(segments) = n /\ \A i \in 1..n : Says(parts[i]) = Says(segments[i])
  BY <1>4 DEF PartsSaySame
<1>6. \A i \in 1..n : Says(segments[i]) = segments[i]
  BY <1>2, <1>5, CollapseNeat, StripNeat DEF Segment, Says
<1>7. segments = [i \in 1..n |-> segments[i]]
  BY <1>2, <1>5 DEF Filled, Lists
<1> HIDE DEF parts, n
<1>8. segments = [i \in 1..n |-> Says(parts[i])]
  BY <1>5, <1>6, <1>7
<1> QED
  BY <1>1, <1>8 DEF segments, parts

-----------------------------------------------------------------------------
(* Numerals.                                                               *)

IsDigit(ch) == ch \in ToSet(Digits)

LEMMA DigitValueFacts ==
  /\ \A d \in 0..9 : IsDigit(Digits[d + 1]) /\ DigitValue(Digits[d + 1]) = d
  /\ \A ch : IsDigit(ch) => DigitValue(ch) \in 0..9 /\ Digits[DigitValue(ch) + 1] = ch
  /\ Digits[1] = "0"
<1>1. DOMAIN Digits = 1..10
  BY DEF Digits
<1>2. /\ Digits[1] = "0" /\ Digits[2] = "1" /\ Digits[3] = "2" /\ Digits[4] = "3"
      /\ Digits[5] = "4" /\ Digits[6] = "5" /\ Digits[7] = "6" /\ Digits[8] = "7"
      /\ Digits[9] = "8" /\ Digits[10] = "9"
  BY DEF Digits
<1> HIDE DEF Digits
<1>3. \A d, e \in 1..10 : Digits[d] = Digits[e] => d = e
  BY <1>2
<1>4. ASSUME NEW ch, IsDigit(ch)
      PROVE  DigitValue(ch) \in 0..9 /\ Digits[DigitValue(ch) + 1] = ch
  <2> DEFINE d == CHOOSE d \in DOMAIN Digits : Digits[d] = ch
  <2>1. \E e \in DOMAIN Digits : Digits[e] = ch
    BY <1>4 DEF IsDigit, ToSet
  <2>2. d \in 1..10 /\ Digits[d] = ch
    BY <1>1, <2>1
  <2>3. DigitValue(ch) = d - 1
    BY DEF DigitValue
  <2> HIDE DEF d
  <2> QED
    BY <2>2, <2>3
<1>5. ASSUME NEW d \in 0..9
      PROVE  IsDigit(Digits[d + 1]) /\ DigitValue(Digits[d + 1]) = d
  <2>1. d + 1 \in 1..10
    OBVIOUS
  <2>2. IsDigit(Digits[d + 1])
    BY <1>1, <2>1 DEF IsDigit, ToSet
  <2>3. DigitValue(Digits[d + 1]) \in 0..9
        /\ Digits[DigitValue(Digits[d + 1]) + 1] = Digits[d + 1]
    BY <1>4, <2>2
  <2>4. DigitValue(Digits[d + 1]) + 1 = d + 1
    BY <1>3, <2>1, <2>3
  <2> QED
    BY <2>2, <2>3, <2>4
<1> QED
  BY <1>2, <1>4, <1>5

\* The value of a text of digits, one digit after the other.
LEMMA ValueLoop ==
  ASSUME NEW s \in Texts, \A i \in 1..Len(s) : IsDigit(s[i])
  PROVE  \E values \in [0..Len(s) -> Nat] :
           /\ values[0] = 0
           /\ \A i \in 1..Len(s) : values[i] = 10 * values[i - 1] + DigitValue(s[i])
           /\ Value(s) = values[Len(s)]
<1> DEFINE n == Len(s)
           Pass(i, v) == 10 * v + DigitValue(s[i])
           step == [i \in 1..n |-> [v \in Nat |-> Pass(i, v)]]
           IsValue(f) == f = [i \in 0..n |-> IF i = 0 THEN 0 ELSE Pass(i, f[i - 1])]
           values == CHOOSE f : IsValue(f)
<1>0. n \in Nat /\ 0 \in Nat
  BY TextFacts
<1>1. ASSUME NEW i \in 1..n, NEW v \in Nat
      PROVE  Pass(i, v) \in Nat
  <2>1. DigitValue(s[i]) \in 0..9
    BY DigitValueFacts
  <2> QED
    BY <2>1
<1>2. Value(s) = values[n]
  BY DEF Value
<1> HIDE DEF n, Pass
<1>3. step \in [1..n -> [Nat -> Nat]]
  BY <1>1
<1>4. PICK found \in [0..n -> Nat] : IsLoop(found, n, 0, step)
  <2> HIDE DEF step
  <2> QED
    BY <1>0, <1>3, LoopExists
<1>5. ASSUME NEW i \in 1..n
      PROVE  found[i] = Pass(i, found[i - 1])
  <2>1. found[i - 1] \in Nat
    BY <1>0
  <2> QED
    BY <1>4, <2>1 DEF IsLoop
<1>6. IsValue(found)
  BY <1>0, <1>4, <1>5 DEF IsLoop
<1>7. IsValue(values)
  <2> HIDE DEF IsValue
  <2> QED
    BY <1>6, Zenon
<1> HIDE DEF values
<1>8. values[0] = 0 /\ \A i \in 1..n : values[i] = Pass(i, values[i - 1])
  BY <1>0, <1>7
<1>9. values \in [0..n -> Nat]
  <2>1. \A i \in 1..n : values[i - 1] \in Nat => values[i] \in Nat
    BY <1>1, <1>8
  <2>2. values = [i \in 0..n |-> values[i]]
    BY <1>7
  <2> HIDE DEF IsValue
  <2> QED
    BY <1>0, <1>8, <2>1, <2>2, LoopTyped
<1> QED
  BY <1>2, <1>8, <1>9 DEF n, Pass

\* The numerals of the numbers up to n.
AreNumerals(f, n) ==
  f = [m \in 0..n |-> IF m < 10 THEN <<Digits[m + 1]>>
                      ELSE Append(f[m \div 10], Digits[(m % 10) + 1])]

LEMMA NumeralAt ==
  ASSUME NEW n \in Nat, NEW f, AreNumerals(f, n), NEW m \in 0..n
  PROVE  f[m] = IF m < 10 THEN <<Digits[m + 1]>>
                ELSE Append(f[m \div 10], Digits[(m % 10) + 1])
  BY Zenon DEF AreNumerals

LEMMA NumeralsExist ==
  ASSUME NEW n \in Nat
  PROVE  \E f : AreNumerals(f, n)
<1> DEFINE S == {i \in 0..n : \E f : AreNumerals(f, i)}
<1>1. 0 \in S
  <2>1. AreNumerals([m \in 0..0 |-> <<Digits[1]>>], 0)
    BY DEF AreNumerals
  <2> QED
    BY <2>1
<1>2. ASSUME NEW i \in 1..n, i - 1 \in S
      PROVE  i \in S
  <2>1. PICK f : AreNumerals(f, i - 1)
    BY <1>2
  <2> DEFINE numeral(g, m) == IF m < 10 THEN <<Digits[m + 1]>>
                              ELSE Append(g[m \div 10], Digits[(m % 10) + 1])
             g == [m \in 0..i |-> IF m = i THEN numeral(f, i) ELSE f[m]]
  <2>2. \A m \in 0..(i - 1) : f[m] = numeral(f, m)
    BY <2>1 DEF AreNumerals
  <2>3. ASSUME NEW m \in 0..i, m >= 10
        PROVE  g[m \div 10] = f[m \div 10]
    <3>1. m \div 10 \in 0..i /\ m \div 10 # i
      BY <2>3
    <3> HIDE DEF numeral
    <3> QED
      BY <3>1
  <2>4. ASSUME NEW m \in 0..i
        PROVE  g[m] = numeral(g, m)
    <3>1. numeral(g, m) = numeral(f, m)
      <4> HIDE DEF g
      <4> QED
        BY <2>3
    <3>2. m = i \/ m \in 0..(i - 1)
      OBVIOUS
    <3> HIDE DEF numeral
    <3>3. g[m] = numeral(f, m)
      BY <2>2, <3>2
    <3> QED
      BY <3>1, <3>3
  <2>5. g = [m \in 0..i |-> g[m]]
    OBVIOUS
  <2> HIDE DEF g
  <2>6. AreNumerals(g, i)
    BY <2>4, <2>5 DEF AreNumerals
  <2> QED
    BY <2>6
<1> HIDE DEF S
<1>3. \A i \in 0..n : i \in S
  BY <1>1, <1>2, LoopInvariant, Zenon
<1>4. n \in S
  BY <1>3
<1> QED
  BY <1>4 DEF S

LEMMA NumeralsAgree ==
  ASSUME NEW n \in Nat, NEW k \in Nat, k <= n,
         NEW f, AreNumerals(f, n), NEW g, AreNumerals(g, k)
  PROVE  g[k] = f[k]
<1> DEFINE S == {i \in 0..k : \A m \in 0..i : g[m] = f[m]}
           numeral(h, m) == IF m < 10 THEN <<Digits[m + 1]>>
                            ELSE Append(h[m \div 10], Digits[(m % 10) + 1])
<1>1. \A m \in 0..k : f[m] = numeral(f, m) /\ g[m] = numeral(g, m)
  <2>1. \A m \in 0..k : m \in 0..n
    OBVIOUS
  <2> QED
    BY <2>1, NumeralAt
<1>2. 0 \in S
  <2>1. 0 \in 0..k /\ \A m \in 0..0 : m = 0
    OBVIOUS
  <2>2. f[0] = g[0]
    <3>1. numeral(f, 0) = numeral(g, 0)
      OBVIOUS
    <3> HIDE DEF numeral
    <3> QED
      BY <1>1, <2>1, <3>1
  <2> QED
    BY <2>1, <2>2
<1>3. ASSUME NEW i \in 1..k, i - 1 \in S
      PROVE  i \in S
  <2>1. i >= 10 => i \div 10 \in 0..(i - 1)
    OBVIOUS
  <2>2. \A m \in 0..(i - 1) : g[m] = f[m]
    BY <1>3
  <2>3. numeral(f, i) = numeral(g, i)
    BY <2>1, <2>2
  <2>4. g[i] = f[i]
    BY <1>1, <2>3
  <2>5. \A m \in 0..i : m = i \/ m \in 0..(i - 1)
    OBVIOUS
  <2> HIDE DEF numeral
  <2> QED
    BY <2>2, <2>4, <2>5
<1> HIDE DEF S
<1>4. \A i \in 0..k : i \in S
  BY <1>2, <1>3, LoopInvariant, Zenon
<1>5. k \in S
  BY <1>4
<1> QED
  BY <1>5 DEF S

LEMMA NumeralIs ==
  ASSUME NEW n \in Nat
  PROVE  \E f : AreNumerals(f, n) /\ Numeral(n) = f[n]
<1> DEFINE f == CHOOSE f : AreNumerals(f, n)
<1>1. AreNumerals(f, n)
  BY NumeralsExist, Zenon
<1>2. Numeral(n) = f[n]
  BY DEF Numeral, AreNumerals
<1> QED
  BY <1>1, <1>2, Zenon

\* A numeral is a digit, or the numeral of a tenth with one more digit.
LEMMA NumeralFacts ==
  /\ \A d \in 0..9 : Numeral(d) = <<Digits[d + 1]>>
  /\ \A n \in Nat \ {0}, d \in 0..9 : Numeral(10 * n + d) = Append(Numeral(n), Digits[d + 1])
<1>1. ASSUME NEW d \in 0..9
      PROVE  Numeral(d) = <<Digits[d + 1]>>
  <2>1. d \in Nat /\ d \in 0..d
    OBVIOUS
  <2>2. PICK f : AreNumerals(f, d) /\ Numeral(d) = f[d]
    BY <2>1, NumeralIs
  <2> QED
    BY <2>1, <2>2 DEF AreNumerals
<1>2. ASSUME NEW n \in Nat \ {0}, NEW d \in 0..9
      PROVE  Numeral(10 * n + d) = Append(Numeral(n), Digits[d + 1])
  <2> DEFINE m == 10 * n + d
  <2>1. /\ m \in Nat /\ n \in Nat /\ m \in 0..m /\ m >= 10 /\ n <= m
        /\ m \div 10 = n /\ m % 10 = d
    OBVIOUS
  <2> HIDE DEF m
  <2>2. PICK f : AreNumerals(f, m) /\ Numeral(m) = f[m]
    BY <2>1, NumeralIs
  <2>3. PICK g : AreNumerals(g, n) /\ Numeral(n) = g[n]
    BY NumeralIs
  <2>4. g[n] = f[n]
    BY <2>1, <2>2, <2>3, NumeralsAgree
  <2>5. f[m] = Append(f[n], Digits[d + 1])
    <3>1. f[m] = Append(f[m \div 10], Digits[(m % 10) + 1])
      <4>1. f[m] = IF m < 10 THEN <<Digits[m + 1]>>
                   ELSE Append(f[m \div 10], Digits[(m % 10) + 1])
        BY <2>1, <2>2, NumeralAt, Zenon
      <4>2. ~(m < 10)
        BY <2>1
      <4> QED
        BY <4>1, <4>2, Zenon
    <3> QED
      BY <2>1, <3>1
  <2> QED
    BY <2>2, <2>3, <2>4, <2>5 DEF m
<1> QED
  BY <1>1, <1>2

LEMMA NumeralNotEmpty ==
  /\ \A n \in Nat : Numeral(n) # << >>
  /\ Numeral(0) = <<"0">>
<1>1. ASSUME NEW n \in Nat
      PROVE  Numeral(n) # << >>
  <2>1. CASE n < 10
    <3>1. n \in 0..9
      BY <2>1
    <3>2. Numeral(n) = <<Digits[n + 1]>>
      BY <3>1, NumeralFacts
    <3> QED
      BY <3>2
  <2>2. CASE n >= 10
    <3> DEFINE q == n \div 10
               d == n % 10
    <3>1. q \in Nat \ {0} /\ d \in 0..9 /\ n = 10 * q + d
      BY <2>2
    <3> HIDE DEF q, d
    <3>2. Numeral(10 * q + d) = Append(Numeral(q), Digits[d + 1])
      BY <3>1, NumeralFacts
    <3>3. Append(Numeral(q), Digits[d + 1]) # << >>
      OBVIOUS
    <3> QED
      BY <3>1, <3>2, <3>3
  <2> QED
    BY <2>1, <2>2
<1>2. Numeral(0) = <<"0">>
  <2>1. 0 \in 0..9 /\ 0 + 1 = 1
    OBVIOUS
  <2> QED
    BY <2>1, NumeralFacts, DigitValueFacts
<1> QED
  BY <1>1, <1>2

\* Without its leading zeros a text of digits is the numeral of its value.
LEMMA StripLeadingZerosIsNumeral ==
  ASSUME NEW p \in Texts, IsDigits(p)
  PROVE  StripLeadingZeros(p) = Numeral(Value(p)) /\ Value(p) \in Nat
<1> DEFINE n == Len(p)
<1>0. n \in Nat \ {0} /\ \A i \in 1..n : IsDigit(p[i])
  <2>1. Len(p) \in Nat /\ DOMAIN p = 1..Len(p) /\ (p = << >> <=> Len(p) = 0)
    BY TextFacts
  <2> QED
    BY <2>1 DEF IsDigits, IsDigit, ToSet
<1>1. PICK values \in [0..n -> Nat] :
        /\ values[0] = 0
        /\ \A i \in 1..n : values[i] = 10 * values[i - 1] + DigitValue(p[i])
        /\ Value(p) = values[n]
  BY <1>0, ValueLoop
<1>2. PICK texts \in [0..n -> Texts] :
        /\ texts[0] = << >>
        /\ \A i \in 1..n : texts[i] = PutUnlessZero(texts[i - 1], p[i])
        /\ WithoutZeros(p) = texts[n]
  BY WithoutZerosLoop
<1> HIDE DEF n
<1> DEFINE Good(t, v) == /\ v = 0 => t = << >>
                         /\ v # 0 => t = Numeral(v)
           Goods == {i \in 0..n : Good(texts[i], values[i])}
<1>3. ASSUME NEW t \in Texts, NEW v \in Nat, NEW ch, IsDigit(ch), Good(t, v)
      PROVE  Good(PutUnlessZero(t, ch), 10 * v + DigitValue(ch))
  <2> DEFINE d == DigitValue(ch)
  <2>1. d \in 0..9 /\ Digits[d + 1] = ch /\ (ch = "0" <=> d = 0)
    <3>1. 0 \in 0..9 /\ Digits[0 + 1] = "0"
      BY DigitValueFacts
    <3>2. DigitValue("0") = 0
      BY <3>1, DigitValueFacts
    <3> QED
      BY <1>3, <3>1, <3>2, DigitValueFacts
  <2> HIDE DEF d
  <2>2. CASE v = 0
    <3>1. t = << >> /\ 10 * v + d = d
      BY <1>3, <2>1, <2>2
    <3>2. CASE d = 0
      BY <2>1, <3>1, <3>2 DEF PutUnlessZero, d
    <3>3. CASE d # 0
      <4>1. PutUnlessZero(t, ch) = <<Digits[d + 1]>>
        BY <2>1, <3>1, <3>3 DEF PutUnlessZero
      <4> QED
        BY <2>1, <3>1, <3>3, <4>1, NumeralFacts DEF d
    <3> QED
      BY <3>2, <3>3
  <2>3. CASE v # 0
    <3>1. t = Numeral(v)
      BY <1>3, <2>3
    <3>2. t # << >>
      BY <3>1, NumeralNotEmpty
    <3>3. PutUnlessZero(t, ch) = Append(Numeral(v), Digits[d + 1])
      BY <2>1, <3>1, <3>2 DEF PutUnlessZero
    <3>4. Numeral(10 * v + d) = Append(Numeral(v), Digits[d + 1]) /\ 10 * v + d # 0
      <4>1. v \in Nat \ {0} /\ 10 * v + d # 0
        BY <2>1, <2>3
      <4> QED
        BY <2>1, <4>1, NumeralFacts
    <3> QED
      BY <3>3, <3>4 DEF d
  <2> QED
    BY <2>2, <2>3
<1>4. Good(texts[0], values[0])
  BY <1>1, <1>2
<1> HIDE DEF Good
<1>5. 0 \in Goods /\ \A i \in 1..n : i - 1 \in Goods => i \in Goods
  BY <1>0, <1>1, <1>2, <1>3, <1>4
<1> HIDE DEF Goods
<1>6. \A i \in 0..n : i \in Goods
  BY <1>0, <1>5, LoopInvariant, Zenon
<1>7. Good(WithoutZeros(p), Value(p)) /\ Value(p) \in Nat
  BY <1>0, <1>1, <1>2, <1>6 DEF Goods
<1>8. CASE n > 1
  <2>1. CASE Value(p) = 0
    <3>1. WithoutZeros(p) = << >>
      BY <1>7, <2>1 DEF Good
    <3>2. StripLeadingZeros(p) = <<"0">>
      BY <1>8, <3>1 DEF StripLeadingZeros, n
    <3> QED
      BY <1>7, <2>1, <3>2, NumeralNotEmpty
  <2>2. CASE Value(p) # 0
    <3>1. WithoutZeros(p) = Numeral(Value(p))
      BY <1>7, <2>2 DEF Good
    <3>2. WithoutZeros(p) # << >>
      BY <1>7, <3>1, NumeralNotEmpty
    <3> QED
      BY <1>7, <1>8, <3>1, <3>2 DEF StripLeadingZeros, n
  <2> QED
    BY <2>1, <2>2
<1>9. CASE n = 1
  <2>1. StripLeadingZeros(p) = p /\ p = <<p[1]>>
    BY <1>9 DEF StripLeadingZeros, n, Texts
  <2>2. values[1] = 10 * values[0] + DigitValue(p[1]) /\ IsDigit(p[1])
    BY <1>0, <1>1, <1>9
  <2>3. Value(p) = DigitValue(p[1]) /\ DigitValue(p[1]) \in 0..9
    <3>1. DigitValue(p[1]) \in 0..9
      BY <2>2, DigitValueFacts
    <3>2. values[0] = 0 /\ Value(p) = values[1]
      BY <1>1, <1>9
    <3> QED
      BY <2>2, <3>1, <3>2
  <2>4. Numeral(DigitValue(p[1])) = <<Digits[DigitValue(p[1]) + 1]>>
    BY <2>3, NumeralFacts
  <2>5. Digits[DigitValue(p[1]) + 1] = p[1]
    BY <2>2, DigitValueFacts
  <2> QED
    BY <1>7, <2>1, <2>3, <2>4, <2>5
<1> QED
  BY <1>0, <1>8, <1>9

-----------------------------------------------------------------------------
(* Every segment in its normal form.                                       *)

\* The normal form of a segment.
LEMMA StripLeadingZerosNormal ==
  ASSUME NEW p \in Texts
  PROVE  StripLeadingZeros(Says(p)) = ReferenceSegment(p)
<1>1. Says(p) \in Texts
  BY CollapseType, StripTrims DEF Says
<1>2. CASE IsDigits(Says(p))
  BY <1>1, <1>2, StripLeadingZerosIsNumeral DEF ReferenceSegment, Says
<1>3. CASE ~IsDigits(Says(p))
  BY <1>3 DEF ReferenceSegment, Says, StripLeadingZeros
<1> QED
  BY <1>2, <1>3

LEMMA NormalizesParts ==
  ASSUME NEW s \in Texts
  PROVE  NormalizeNomer(s) = Reference(s)
<1> DEFINE parts == SplitAt(s, Dashes)
<1>1. /\ parts \in Filled
      /\ Segments(s) = [i \in DOMAIN parts |-> Says(parts[i])]
  BY SegmentsSay
<1>2. NormalizeNomer(s) = JoinDashes(StripEach(Segments(s)))
  BY NormalizeForm
<1>3. Reference(s) = JoinDashes([i \in DOMAIN parts |-> ReferenceSegment(parts[i])])
  BY DEF Reference
<1> HIDE DEF parts
<1>4. \A i \in DOMAIN parts : parts[i] \in Texts
  BY <1>1, ListFacts DEF Filled
<1>5. StripEach(Segments(s)) = [i \in DOMAIN parts |-> StripLeadingZeros(Says(parts[i]))]
  BY <1>1 DEF StripEach
<1>6. StripEach(Segments(s)) = [i \in DOMAIN parts |-> ReferenceSegment(parts[i])]
  BY <1>4, <1>5, StripLeadingZerosNormal
<1> QED
  BY <1>2, <1>3, <1>6

-----------------------------------------------------------------------------
(* Parts with something to search for.                                     *)

Solid(p) == \E i \in DOMAIN p : p[i] \notin Blank

LEMMA SolidAppend ==
  ASSUME NEW p \in Texts, NEW ch \in Char
  PROVE  Solid(Append(p, ch)) <=> Solid(p) \/ ch \notin Blank
<1> DEFINE u == Append(p, ch)
<1>1. /\ Len(p) \in Nat /\ DOMAIN p = 1..Len(p) /\ DOMAIN u = 1..Len(p) + 1
      /\ \A j \in 1..Len(p) : u[j] = p[j]
      /\ u[Len(p) + 1] = ch
  BY TextFacts, AppendFacts
<1> HIDE DEF u
<1>2. \A j \in 1..Len(p) + 1 : j \in 1..Len(p) \/ j = Len(p) + 1
  BY <1>1
<1>3. Len(p) + 1 \in 1..Len(p) + 1 /\ \A j \in 1..Len(p) : j \in 1..Len(p) + 1
  BY <1>1
<1>4. Solid(u) <=> Solid(p) \/ ch \notin Blank
  BY <1>1, <1>2, <1>3 DEF Solid
<1> QED
  BY <1>4 DEF u

LEMMA CollapseSolid ==
  ASSUME NEW s \in Texts
  PROVE  Solid(Collapse(s)) <=> Solid(s)
<1> DEFINE n == Len(s)
           Part(i) == SubSeq(s, 1, i)
           Goods == {i \in 0..n : Solid(Collapse(Part(i))) <=> Solid(Part(i))}
<1>0. n \in Nat /\ \A i \in 1..n : s[i] \in Char
  BY TextFacts
<1>1. Solid(Collapse(Part(0))) <=> Solid(Part(0))
  <2>1. Part(0) = << >> /\ Collapse(<< >>) = << >>
    BY PrefixEnds, CollapseEmpty
  <2> QED
    BY <2>1
<1>2. ASSUME NEW i \in 1..n, Solid(Collapse(Part(i - 1))) <=> Solid(Part(i - 1))
      PROVE  Solid(Collapse(Part(i))) <=> Solid(Part(i))
  <2>1. Part(i - 1) \in Texts /\ Part(i) = Append(Part(i - 1), s[i]) /\ s[i] \in Char
    BY <1>0, PrefixGrows DEF Texts
  <2> HIDE DEF Part
  <2>2. /\ Collapse(Part(i - 1)) \in Texts
        /\ Collapse(Part(i)) = PutCollapsed(Collapse(Part(i - 1)), s[i])
    BY <2>1, CollapseType, CollapseAppend
  <2>3. Solid(Part(i)) <=> Solid(Part(i - 1)) \/ s[i] \notin Blank
    BY <2>1, SolidAppend
  <2>4. Solid(Collapse(Part(i))) <=> Solid(Collapse(Part(i - 1))) \/ s[i] \notin Blank
    BY <2>1, <2>2, CharFacts, SolidAppend DEF PutCollapsed
  <2> QED
    BY <1>2, <2>3, <2>4
<1>3. Solid(Collapse(Part(n))) <=> Solid(Part(n))
  <2> HIDE DEF Part, n
  <2>1. 0 \in Goods /\ \A i \in 1..n : i - 1 \in Goods => i \in Goods
    BY <1>0, <1>1, <1>2
  <2> HIDE DEF Goods
  <2>2. \A i \in 0..n : i \in Goods
    BY <1>0, <2>1, LoopInvariant, Zenon
  <2> QED
    BY <1>0, <2>2 DEF Goods
<1> QED
  BY <1>3, PrefixEnds

LEMMA StripLeadingZerosSolid ==
  ASSUME NEW p \in Texts
  PROVE  Solid(StripLeadingZeros(p)) <=> Solid(p)
<1>1. ASSUME NEW q \in Texts, IsDigits(q)
      PROVE  Solid(q)
  <2>1. 1 \in DOMAIN q
    BY <1>1, TextFacts DEF IsDigits
  <2> QED
    BY <1>1, <2>1, DigitsAreSegment DEF Solid
<1> QED
  BY <1>1, StripLeadingZerosFacts

LEMMA StripSolid ==
  ASSUME NEW p \in Texts
  PROVE  Strip(p) # << >> <=> Solid(p)
<1>0. Len(p) \in Nat /\ DOMAIN p = 1..Len(p)
  BY TextFacts
<1>1. CASE (\A i \in 1..Len(p) : p[i] \in Blank) /\ Strip(p) = << >>
  BY <1>0, <1>1 DEF Solid
<1>2. ASSUME NEW from \in 1..Len(p), NEW to \in 1..Len(p), from <= to,
             p[from] \notin Blank, Strip(p) = SubSeq(p, from, to)
      PROVE  Strip(p) # << >> /\ Solid(p)
  <2>1. from \in 1..Len(p) + 1 /\ to \in 0..Len(p) /\ from <= to + 1 /\ to - from + 1 > 0
    BY <1>0, <1>2
  <2>2. Len(SubSeq(p, from, to)) = to - from + 1
    BY <2>1, PartFacts
  <2>3. SubSeq(p, from, to) # << >>
    BY <2>1, <2>2
  <2> QED
    BY <1>0, <1>2, <2>3 DEF Solid
<1> QED
  BY <1>1, <1>2, StripForm

\* A part says nothing when there is only white space in it.
LEMMA SaysSolid ==
  ASSUME NEW p \in Texts
  PROVE  /\ Says(p) \in Texts
         /\ Solid(Says(p)) <=> Solid(p)
<1> DEFINE c == Collapse(p)
           q == Strip(c)
<1>1. c \in Texts /\ q \in Texts /\ Trimmed(q)
  BY CollapseType, StripTrims
<1> HIDE DEF c, q
<1>2. Solid(q) <=> q # << >>
  BY <1>1 DEF Trimmed, SolidAt, Solid
<1>3. q # << >> <=> Solid(c)
  BY <1>1, StripSolid DEF q
<1>4. Solid(c) <=> Solid(p)
  BY CollapseSolid DEF c
<1> QED
  BY <1>1, <1>2, <1>3, <1>4 DEF Says, q, c

LEMMA NormalizeKeeps ==
  ASSUME NEW s \in Texts
  PROVE  LET P == SplitAt(s, Dashes)
             Q == SplitAt(NormalizeNomer(s), Dashes)
         IN  {i \in DOMAIN Q : Strip(Q[i]) # << >>} = {i \in DOMAIN P : Strip(P[i]) # << >>}
<1> DEFINE P == SplitAt(s, Dashes)
           Q == SplitAt(NormalizeNomer(s), Dashes)
<1>1. P \in Filled /\ Segments(s) = [i \in DOMAIN P |-> Says(P[i])]
  BY SegmentsSay
<1>2. Q = StripEach(Segments(s))
  BY NormalizedIsNeat
<1> HIDE DEF P, Q
<1>3. Q = [i \in DOMAIN P |-> StripLeadingZeros(Says(P[i]))]
  BY <1>1, <1>2 DEF StripEach
<1>4. ASSUME NEW i \in DOMAIN P
      PROVE  Strip(Q[i]) # << >> <=> Strip(P[i]) # << >>
  <2>1. P[i] \in Texts /\ Says(P[i]) \in Texts
    BY <1>1, ListFacts, SaysSolid DEF Filled
  <2>2. Q[i] = StripLeadingZeros(Says(P[i])) /\ Q[i] \in Texts
    BY <1>3, <2>1, StripLeadingZerosFacts
  <2>3. /\ Solid(Q[i]) <=> Solid(Says(P[i]))
        /\ Solid(Says(P[i])) <=> Solid(P[i])
    BY <2>1, <2>2, StripLeadingZerosSolid, SaysSolid
  <2> QED
    BY <2>1, <2>2, <2>3, StripSolid
<1>5. DOMAIN Q = DOMAIN P
  BY <1>3
<1>6. {i \in DOMAIN Q : Strip(Q[i]) # << >>} = {i \in DOMAIN P : Strip(P[i]) # << >>}
  BY <1>4, <1>5
<1> QED
  BY <1>6 DEF P, Q

-----------------------------------------------------------------------------
(* The values of texts of digits.                                          *)

\* The texts of digits, the empty one included.
DigitTexts == {s \in Texts : \A i \in 1..Len(s) : IsDigit(s[i])}

\* The value is what the loop over the digits computes, whoever computes it.
LEMMA ValueIs ==
  ASSUME NEW s \in DigitTexts, NEW n \in Nat, n = Len(s), NEW values, values[0] = 0,
         \A i \in 1..n : values[i] = 10 * values[i - 1] + DigitValue(s[i])
  PROVE  Value(s) = values[n] /\ Value(s) \in Nat
<1>1. s \in Texts /\ \A i \in 1..Len(s) : IsDigit(s[i])
  BY DEF DigitTexts
<1>2. PICK found \in [0..n -> Nat] :
        /\ found[0] = 0
        /\ \A i \in 1..n : found[i] = 10 * found[i - 1] + DigitValue(s[i])
        /\ Value(s) = found[n]
  BY <1>1, ValueLoop
<1> DEFINE Same == {i \in 0..n : values[i] = found[i]}
<1>3. 0 \in Same /\ \A i \in 1..n : i - 1 \in Same => i \in Same
  <2>1. ASSUME NEW i \in 1..n, values[i - 1] = found[i - 1]
        PROVE  values[i] = found[i]
    BY <1>2, <2>1
  <2> QED
    BY <1>2, <2>1
<1> HIDE DEF Same
<1>4. \A i \in 0..n : i \in Same
  BY <1>3, LoopInvariant, Zenon
<1>5. n \in 0..n
  OBVIOUS
<1> QED
  BY <1>2, <1>4, <1>5 DEF Same

LEMMA ValueEmpty ==
  << >> \in DigitTexts /\ Value(<< >>) = 0
<1>1. << >> \in DigitTexts /\ Len(<< >>) = 0
  BY DEF DigitTexts, Texts
<1>2. << >> \in Texts /\ \A i \in 1..Len(<< >>) : IsDigit(<< >>[i])
  BY <1>1 DEF DigitTexts
<1> QED
  BY <1>1, <1>2, ValueLoop

LEMMA ValueAppend ==
  ASSUME NEW s \in DigitTexts, NEW ch, IsDigit(ch)
  PROVE  /\ Append(s, ch) \in DigitTexts
         /\ Value(s) \in Nat
         /\ Value(Append(s, ch)) = 10 * Value(s) + DigitValue(ch)
<1> DEFINE u == Append(s, ch)
           n == Len(s)
<1>0. s \in Texts /\ n \in Nat /\ ch \in Char /\ \A i \in 1..n : IsDigit(s[i])
  BY TextFacts, CharFacts DEF DigitTexts, IsDigit
<1>1. /\ u \in Texts /\ Len(u) = n + 1
      /\ \A i \in 1..n : u[i] = s[i]
      /\ u[n + 1] = ch
  BY <1>0, AppendFacts
<1> HIDE DEF u
<1>2. \A i \in 1..n + 1 : i \in 1..n \/ i = n + 1
  BY <1>0
<1>3. \A i \in 1..Len(u) : IsDigit(u[i])
  BY <1>0, <1>1, <1>2
<1>4. u \in DigitTexts
  BY <1>1, <1>3 DEF DigitTexts
<1>5. \E more \in [0..Len(u) -> Nat] :
        /\ more[0] = 0
        /\ \A i \in 1..Len(u) : more[i] = 10 * more[i - 1] + DigitValue(u[i])
        /\ Value(u) = more[Len(u)]
  BY <1>1, <1>3, ValueLoop, Zenon
<1>6. PICK more \in [0..n + 1 -> Nat] :
        /\ more[0] = 0
        /\ \A i \in 1..n + 1 : more[i] = 10 * more[i - 1] + DigitValue(u[i])
        /\ Value(u) = more[n + 1]
  <2> HIDE DEF n
  <2> QED
    BY <1>1, <1>5
<1>7. \A i \in 1..n : more[i] = 10 * more[i - 1] + DigitValue(s[i])
  <2>1. \A i \in 1..n : i \in 1..n + 1
    BY <1>0
  <2> QED
    BY <1>1, <1>6, <2>1
<1>8. Value(s) = more[n] /\ Value(s) \in Nat
  BY <1>0, <1>6, <1>7, ValueIs, Zenon
<1>9. more[n + 1] = 10 * more[n] + DigitValue(ch)
  <2>1. n + 1 \in 1..n + 1 /\ (n + 1) - 1 = n
    BY <1>0
  <2> HIDE DEF n
  <2> QED
    BY <1>1, <1>6, <2>1
<1> QED
  BY <1>4, <1>6, <1>8, <1>9 DEF u

\* Zeros in front do not count.
LEMMA ZerosFacts ==
  ASSUME NEW k \in Nat
  PROVE  Zeros(k) \in DigitTexts /\ Len(Zeros(k)) = k /\ Value(Zeros(k)) = 0
<1> DEFINE z == Zeros(k)
           values == [i \in 0..k |-> 0]
<1>1. z = [i \in 1..k |-> "0"]
  BY DEF Zeros
<1>2. z \in Texts /\ Len(z) = k /\ \A i \in 1..k : z[i] = "0"
  <2> HIDE DEF z
  <2>1. z \in [1..k -> Char]
    BY <1>1, CharFacts
  <2>2. z \in Seq(Char)
    BY <2>1
  <2> QED
    BY <1>1, <2>2 DEF Texts
<1> HIDE DEF z
<1>3. IsDigit("0") /\ DigitValue("0") = 0
  <2>1. 0 \in 0..9 /\ 0 + 1 = 1
    OBVIOUS
  <2> QED
    BY <2>1, DigitValueFacts
<1>4. z \in DigitTexts
  BY <1>2, <1>3 DEF DigitTexts
<1>5. values[0] = 0 /\ \A i \in 1..k : values[i] = 10 * values[i - 1] + DigitValue(z[i])
  BY <1>2, <1>3
<1>6. values[k] = 0
  OBVIOUS
<1> HIDE DEF values
<1>7. Value(z) = values[k]
  BY <1>2, <1>4, <1>5, ValueIs, Zenon
<1> QED
  BY <1>2, <1>4, <1>6, <1>7 DEF z

LEMMA ZerosInFront ==
  ASSUME NEW k \in Nat, NEW s \in DigitTexts
  PROVE  /\ Zeros(k) \o s \in DigitTexts
         /\ Len(Zeros(k) \o s) = k + Len(s)
         /\ Value(Zeros(k) \o s) = Value(s)
<1> DEFINE z == Zeros(k)
           n == Len(s)
           Part(i) == SubSeq(s, 1, i)
           Good(i) == /\ z \o Part(i) \in DigitTexts
                      /\ Part(i) \in DigitTexts
                      /\ Value(z \o Part(i)) = Value(Part(i))
           Goods == {i \in 0..n : Good(i)}
<1>0. /\ s \in Texts /\ s \in Seq(Char) /\ n \in Nat /\ \A i \in 1..n : IsDigit(s[i]) /\ s[i] \in Char
  BY TextFacts DEF DigitTexts, Texts
<1>1. z \in DigitTexts /\ z \in Texts /\ z \in Seq(Char) /\ Len(z) = k /\ Value(z) = 0
  BY ZerosFacts DEF DigitTexts, Texts
<1> HIDE DEF z
<1>2. Good(0)
  <2>1. Part(0) = << >> /\ z \o << >> = z
    BY <1>0, <1>1, PrefixEnds, ConcatEmptySeq
  <2> HIDE DEF Part
  <2> QED
    BY <1>1, <2>1, ValueEmpty
<1>3. ASSUME NEW i \in 1..n, Good(i - 1)
      PROVE  Good(i)
  <2> DEFINE p == Part(i - 1)
  <2>1. p \in Texts /\ Part(i) = Append(p, s[i])
    BY <1>0, PrefixGrows DEF Texts
  <2>2. p \in DigitTexts /\ z \o p \in DigitTexts /\ Value(z \o p) = Value(p)
    BY <1>3
  <2> HIDE DEF p, Part
  <2>3. IsDigit(s[i]) /\ s[i] \in Char
    BY <1>0
  <2>4. z \o Append(p, s[i]) = Append(z \o p, s[i])
    BY <1>1, <2>1, <2>3, ConcatAppend
  <2>5. /\ Append(p, s[i]) \in DigitTexts
        /\ Value(Append(p, s[i])) = 10 * Value(p) + DigitValue(s[i])
    BY <2>2, <2>3, ValueAppend
  <2>6. /\ Append(z \o p, s[i]) \in DigitTexts
        /\ Value(Append(z \o p, s[i])) = 10 * Value(z \o p) + DigitValue(s[i])
    BY <2>2, <2>3, ValueAppend
  <2> QED
    BY <2>1, <2>2, <2>4, <2>5, <2>6
<1>4. Good(n)
  <2> HIDE DEF Good, n
  <2>1. 0 \in Goods /\ \A i \in 1..n : i - 1 \in Goods => i \in Goods
    BY <1>0, <1>2, <1>3
  <2> HIDE DEF Goods
  <2>2. \A i \in 0..n : i \in Goods
    BY <1>0, <2>1, LoopInvariant, Zenon
  <2> QED
    BY <1>0, <2>2 DEF Goods
<1>5. Part(n) = s
  BY <1>0, PrefixEnds
<1>6. Len(z \o s) = k + n
  BY <1>0, <1>1
<1> HIDE DEF n, Part
<1> QED
  BY <1>4, <1>5, <1>6 DEF z, n

\* A numeral has the value of its number.
LEMMA NumeralValue ==
  ASSUME NEW n \in Nat
  PROVE  Numeral(n) \in DigitTexts /\ Value(Numeral(n)) = n
<1> DEFINE Good(m) == Numeral(m) \in DigitTexts /\ Value(Numeral(m)) = m
           S == {i \in 0..n : \A m \in 0..i : Good(m)}
<1>1. ASSUME NEW d \in 0..9
      PROVE  Good(d)
  <2> DEFINE ch == Digits[d + 1]
  <2>1. Numeral(d) = <<ch>> /\ IsDigit(ch) /\ DigitValue(ch) = d
    BY NumeralFacts, DigitValueFacts
  <2> HIDE DEF ch
  <2>2. /\ Append(<< >>, ch) \in DigitTexts
        /\ Value(Append(<< >>, ch)) = 10 * Value(<< >>) + DigitValue(ch)
    BY <2>1, ValueEmpty, ValueAppend
  <2>3. Numeral(d) = Append(<< >>, ch)
    BY <2>1
  <2>4. 10 * Value(<< >>) + DigitValue(ch) = d
    BY <2>1, ValueEmpty
  <2> QED
    BY <2>2, <2>3, <2>4
<1>2. ASSUME NEW m \in Nat, m >= 10, Good(m \div 10)
      PROVE  Good(m)
  <2> DEFINE q == m \div 10
             d == m % 10
  <2>1. q \in Nat \ {0} /\ d \in 0..9 /\ m = 10 * q + d
    BY <1>2
  <2>2. Numeral(q) \in DigitTexts /\ Value(Numeral(q)) = q
    BY <1>2
  <2> HIDE DEF q, d
  <2>3. Numeral(m) = Append(Numeral(q), Digits[d + 1])
    BY <2>1, NumeralFacts
  <2>4. IsDigit(Digits[d + 1]) /\ DigitValue(Digits[d + 1]) = d
    BY <2>1, DigitValueFacts
  <2> QED
    BY <2>1, <2>2, <2>3, <2>4, ValueAppend
<1> HIDE DEF Good
<1>3. 0 \in S
  <2>1. 0 \in 0..9 /\ \A m \in 0..0 : m = 0
    OBVIOUS
  <2> QED
    BY <1>1, <2>1
<1>4. ASSUME NEW i \in 1..n, i - 1 \in S
      PROVE  i \in S
  <2>1. i < 10 => i \in 0..9
    OBVIOUS
  <2>2. i >= 10 => i \div 10 \in 0..(i - 1)
    OBVIOUS
  <2>3. Good(i)
    BY <1>1, <1>2, <1>4, <2>1, <2>2
  <2>4. \A m \in 0..i : m = i \/ m \in 0..(i - 1)
    OBVIOUS
  <2> QED
    BY <1>4, <2>3, <2>4
<1> HIDE DEF S
<1>5. \A i \in 0..n : i \in S
  BY <1>3, <1>4, LoopInvariant, Zenon
<1>6. Good(n)
  BY <1>5 DEF S
<1> QED
  BY <1>6 DEF Good

LEMMA TenToFacts ==
  ASSUME NEW n \in Nat
  PROVE  \E power \in [0..n -> Nat] :
           /\ power[0] = 1
           /\ \A i \in 1..n : power[i] = 10 * power[i - 1]
           /\ TenTo(n) = power[n]
<1> DEFINE Pass(v) == 10 * v
           step == [i \in 1..n |-> [v \in Nat |-> Pass(v)]]
           IsPower(f) == f = [i \in 0..n |-> IF i = 0 THEN 1 ELSE Pass(f[i - 1])]
           power == CHOOSE f : IsPower(f)
<1>1. \A v \in Nat : Pass(v) \in Nat
  OBVIOUS
<1>2. TenTo(n) = power[n]
  BY DEF TenTo
<1> HIDE DEF Pass
<1>3. step \in [1..n -> [Nat -> Nat]] /\ 1 \in Nat
  BY <1>1
<1>4. PICK found \in [0..n -> Nat] : IsLoop(found, n, 1, step)
  <2> HIDE DEF step
  <2> QED
    BY <1>3, LoopExists
<1>5. ASSUME NEW i \in 1..n
      PROVE  found[i] = Pass(found[i - 1])
  <2>1. found[i - 1] \in Nat
    OBVIOUS
  <2> QED
    BY <1>4, <2>1 DEF IsLoop
<1>6. IsPower(found)
  BY <1>4, <1>5 DEF IsLoop
<1>7. IsPower(power)
  <2> HIDE DEF IsPower
  <2> QED
    BY <1>6, Zenon
<1> HIDE DEF power
<1>8. power[0] = 1 /\ \A i \in 1..n : power[i] = Pass(power[i - 1])
  BY <1>7
<1>9. power \in [0..n -> Nat]
  <2>1. \A i \in 1..n : power[i - 1] \in Nat => power[i] \in Nat
    BY <1>1, <1>8
  <2>2. power = [i \in 0..n |-> power[i]] /\ power[0] \in Nat
    BY <1>7, <1>8
  <2> HIDE DEF IsPower
  <2> QED
    BY <2>1, <2>2, LoopTyped
<1> QED
  BY <1>2, <1>8, <1>9 DEF Pass

\* A number below a power of ten has no more digits than the power.
LEMMA NumeralLength ==
  ASSUME NEW width \in Nat \ {0}, NEW m \in Nat, m < TenTo(width)
  PROVE  Len(Numeral(m)) <= width
<1>0. width \in Nat
  OBVIOUS
<1>1. PICK power \in [0..width -> Nat] :
        /\ power[0] = 1
        /\ \A i \in 1..width : power[i] = 10 * power[i - 1]
        /\ TenTo(width) = power[width]
  BY <1>0, TenToFacts
<1> DEFINE Short(i) == \A k \in Nat : k < power[i] => Len(Numeral(k)) <= i
           S == {i \in 0..width : i = 0 \/ Short(i)}
<1>2. ASSUME NEW d \in 0..9
      PROVE  Len(Numeral(d)) = 1
  <2>1. Numeral(d) = <<Digits[d + 1]>>
    BY NumeralFacts
  <2> QED
    BY <2>1
<1>3. ASSUME NEW i \in 1..width, i = 1 \/ Short(i - 1), NEW k \in Nat, k < power[i]
      PROVE  Len(Numeral(k)) <= i
  <2>0. /\ i - 1 \in 0..width /\ power[i - 1] \in Nat /\ power[i] = 10 * power[i - 1]
        /\ i = 1 => power[i - 1] = 1
    BY <1>1
  <2>1. CASE k < 10
    <3>1. k \in 0..9
      BY <2>1
    <3>2. Len(Numeral(k)) = 1
      BY <1>2, <3>1
    <3> QED
      BY <3>2
  <2>2. CASE k >= 10
    <3> DEFINE q == k \div 10
               d == k % 10
    <3>1. q \in Nat \ {0} /\ d \in 0..9 /\ k = 10 * q + d
      BY <2>2
    <3> HIDE DEF q, d
    <3>2. Numeral(k) = Append(Numeral(q), Digits[d + 1])
      BY <3>1, NumeralFacts
    <3>3. Numeral(q) \in Seq(Char)
      BY <3>1, NumeralValue DEF DigitTexts, Texts
    <3>4. Len(Numeral(k)) = Len(Numeral(q)) + 1 /\ Len(Numeral(q)) \in Nat
      BY <3>2, <3>3
    <3>5. q < power[i - 1]
      BY <1>3, <2>0, <3>1
    <3>6. i # 1
      BY <2>0, <3>1, <3>5
    <3>7. Len(Numeral(q)) <= i - 1
      BY <1>3, <3>1, <3>5, <3>6
    <3> QED
      BY <3>4, <3>7
  <2> QED
    BY <2>1, <2>2
<1>4. 0 \in S /\ \A i \in 1..width : i - 1 \in S => i \in S
  <2>1. ASSUME NEW i \in 1..width, i - 1 = 0 \/ Short(i - 1)
        PROVE  Short(i)
    <3>1. i = 1 \/ Short(i - 1)
      BY <2>1
    <3> QED
      BY <1>3, <3>1
  <2> HIDE DEF Short
  <2> QED
    BY <2>1
<1> HIDE DEF S
<1>5. \A i \in 0..width : i \in S
  BY <1>0, <1>4, LoopInvariant, Zenon
<1>6. Short(width)
  BY <1>5 DEF S
<1> QED
  BY <1>1, <1>6

\* Padding changes neither the value nor, where the number fits, the width.
LEMMA ZFillFacts ==
  ASSUME NEW width \in Nat \ {0}, NEW m \in Nat
  PROVE  LET z == ZFill(Numeral(m), width) IN
         /\ z \in Texts /\ IsDigits(z)
         /\ Value(z) = m
         /\ m < TenTo(width) => Len(z) = width
<1> DEFINE s == Numeral(m)
           z == ZFill(s, width)
<1>1. /\ s \in DigitTexts /\ Value(s) = m /\ s # << >>
      /\ m < TenTo(width) => Len(s) <= width
  BY NumeralValue, NumeralNotEmpty, NumeralLength
<1> HIDE DEF s
<1>2. s \in Texts /\ Len(s) \in Nat \ {0}
  BY <1>1, TextFacts DEF DigitTexts
<1>3. /\ z \in DigitTexts /\ Value(z) = m /\ Len(z) \in Nat \ {0}
      /\ m < TenTo(width) => Len(z) = width
  <2>1. CASE Len(s) < width
    <3>1. width - Len(s) \in Nat
      BY <1>2, <2>1
    <3>2. z = Zeros(width - Len(s)) \o s
      BY <2>1 DEF ZFill
    <3>3. z \in DigitTexts /\ Len(z) = (width - Len(s)) + Len(s) /\ Value(z) = Value(s)
      BY <1>1, <3>1, <3>2, ZerosInFront
    <3> QED
      BY <1>1, <1>2, <3>3
  <2>2. CASE ~(Len(s) < width)
    <3>1. z = s
      BY <2>2 DEF ZFill
    <3> QED
      BY <1>1, <1>2, <2>2, <3>1
  <2> QED
    BY <2>1, <2>2
<1> HIDE DEF z
<1>4. z \in Texts /\ DOMAIN z = 1..Len(z) /\ z # << >> /\ \A i \in 1..Len(z) : z[i] \in ToSet(Digits)
  BY <1>3, TextFacts DEF DigitTexts, IsDigit
<1>5. IsDigits(z)
  BY <1>4 DEF IsDigits, ToSet
<1> QED
  BY <1>3, <1>4, <1>5 DEF z, s

-----------------------------------------------------------------------------
(* The last segment.                                                       *)

LEMMA ConcatFacts ==
  ASSUME NEW q \in Texts, NEW p \in Texts
  PROVE  /\ q \o p \in Texts /\ Len(q \o p) = Len(q) + Len(p)
         /\ Len(q) \in Nat /\ Len(p) \in Nat
         /\ DOMAIN (q \o p) = 1..Len(q) + Len(p)
         /\ \A i \in 1..Len(q) : (q \o p)[i] = q[i]
         /\ \A i \in 1..Len(p) : (q \o p)[Len(q) + i] = p[i]
         /\ SubSeq(q \o p, 1, Len(q)) = q
<1> DEFINE u == q \o p
<1>1. /\ u \in Seq(Char) /\ Len(u) = Len(q) + Len(p)
      /\ Len(q) \in Nat /\ Len(p) \in Nat /\ q \in Seq(Char)
      /\ \A i \in 1..Len(u) : u[i] = IF i <= Len(q) THEN q[i] ELSE p[i - Len(q)]
  BY ConcatProperties DEF Texts
<1> HIDE DEF u
<1>2. /\ \A i \in 1..Len(q) : u[i] = q[i]
      /\ \A i \in 1..Len(p) : u[Len(q) + i] = p[i]
  <2>1. \A i \in 1..Len(q) : i \in 1..Len(u) /\ i <= Len(q)
    BY <1>1
  <2>2. \A i \in 1..Len(p) :
          /\ Len(q) + i \in 1..Len(u) /\ ~(Len(q) + i <= Len(q))
          /\ (Len(q) + i) - Len(q) = i
    BY <1>1
  <2>3. ASSUME NEW i \in 1..Len(p)
        PROVE  u[Len(q) + i] = p[i]
    <3>1. u[Len(q) + i] = p[(Len(q) + i) - Len(q)]
      BY <1>1, <2>2
    <3> QED
      BY <2>2, <3>1
  <2> QED
    BY <1>1, <2>1, <2>3
<1>3. Len(q) \in 0..Len(u)
  BY <1>1
<1>4. /\ SubSeq(u, 1, Len(q)) \in Seq(Char)
      /\ Len(SubSeq(u, 1, Len(q))) = Len(q)
      /\ \A i \in 1..Len(q) : SubSeq(u, 1, Len(q))[i] = u[i]
  BY <1>1, <1>3, PrefixFacts
<1>5. SubSeq(u, 1, Len(q)) = q
  BY <1>1, <1>2, <1>4, SeqEqual
<1>6. DOMAIN u = 1..Len(q) + Len(p)
  BY <1>1
<1> QED
  BY <1>1, <1>2, <1>5, <1>6 DEF Texts, u

\* What follows the last slash is the last segment.
LEMMA LastSegmentOf ==
  ASSUME NEW q \in Texts, q = << >> \/ \E r \in Texts : q = Append(r, "/"),
         "/" \in Char \/ q = << >>,
         NEW p \in Texts, Free(p, {"/"})
  PROVE  LastSegment(q \o p) = p /\ Prefix(q \o p) = q
<1> DEFINE before == SplitAt(q, {"/"})
<1>1. before \in Filled /\ Front(before) \in Lists /\ Last(before) = << >>
  <2>1. CASE q = << >>
    <3>1. << >> \in Texts /\ << >> \in Lists /\ << << >> >> = Append(<< >>, << >>)
      BY DEF Texts, Lists
    <3>2. Front(<< << >> >>) = << >> /\ Last(<< << >> >>) = << >>
      BY <3>1, AppendEnds
    <3>3. before = << << >> >>
      BY <2>1, SplitEmpty
    <3>4. before \in Filled
      BY SplitType
    <3> QED
      BY <3>1, <3>2, <3>3, <3>4
  <2>2. CASE q # << >>
    <3>1. PICK r \in Texts : q = Append(r, "/")
      BY <2>2
    <3>2. before = Append(SplitAt(r, {"/"}), << >>)
      BY <2>2, <3>1, SplitAppend DEF PutSplit
    <3>3. SplitAt(r, {"/"}) \in Lists /\ << >> \in Texts
      BY SplitType DEF Filled, Texts
    <3> QED
      BY <3>2, <3>3, AppendEnds
  <2> QED
    BY <2>1, <2>2
<1>2. SplitAt(q \o p, {"/"}) = Append(Front(before), Last(before) \o p)
  BY SplitConcat, Zenon
<1> HIDE DEF before
<1>3. Last(before) \o p = p
  BY <1>1, ConcatEmptySeq DEF Texts
<1>4. LastSegment(q \o p) = p
  BY <1>1, <1>2, <1>3, AppendEnds DEF LastSegment
<1>5. Len(q \o p) - Len(p) = Len(q) /\ SubSeq(q \o p, 1, Len(q)) = q
  BY ConcatFacts
<1> QED
  BY <1>4, <1>5 DEF Prefix

\* Every text is what goes up to its last slash, and its last segment.
LEMMA LastSegmentEnds ==
  ASSUME NEW s \in Texts
  PROVE  LET q == Prefix(s)
             p == LastSegment(s) IN
         /\ q \in Texts /\ p \in Texts /\ s = q \o p /\ Free(p, {"/"})
         /\ q = << >> \/ \E r \in Texts : q = Append(r, "/") /\ "/" \in Char
<1> DEFINE n == Len(s)
           Upto(q) == q = << >> \/ \E r \in Texts : q = Append(r, "/") /\ "/" \in Char
           Good(t, p) == \E q \in Texts : t = q \o p /\ Upto(q)
           Ended(t) == /\ LastSegment(t) \in Texts /\ Free(LastSegment(t), {"/"})
                       /\ Good(t, LastSegment(t))
           Goods == {i \in 0..n : Ended(SubSeq(s, 1, i))}
<1>0. n \in Nat /\ \A i \in 1..n : s[i] \in Char
  BY TextFacts
<1>1. Ended(<< >>)
  <2>1. << >> \in Texts /\ << >> \in Lists /\ << << >> >> = Append(<< >>, << >>)
    BY DEF Texts, Lists
  <2>2. LastSegment(<< >>) = << >>
    <3>1. Last(<< << >> >>) = << >>
      BY <2>1, AppendEnds
    <3>2. SplitAt(<< >>, {"/"}) = << << >> >>
      BY SplitEmpty
    <3> QED
      BY <3>1, <3>2 DEF LastSegment
  <2>3. << >> \o << >> = << >> /\ Free(<< >>, {"/"})
    BY DEF Free
  <2>4. Good(<< >>, << >>)
    BY <2>1, <2>3
  <2> HIDE DEF Good
  <2> QED
    BY <2>1, <2>2, <2>3, <2>4
<1>2. ASSUME NEW t \in Texts, NEW ch \in Char, Ended(t)
      PROVE  Ended(Append(t, ch))
  <2> DEFINE parts == SplitAt(t, {"/"})
             p == Last(parts)
  <2>1. parts \in Filled /\ Front(parts) \in Lists
    <3>1. parts \in Filled
      BY SplitType
    <3> HIDE DEF parts
    <3> QED
      BY <3>1, PartsEnd
  <2>2. p = LastSegment(t) /\ p \in Texts /\ Free(p, {"/"}) /\ Good(t, p)
    BY <1>2 DEF LastSegment
  <2>3. SplitAt(Append(t, ch), {"/"}) = PutSplit(parts, ch, {"/"})
    BY SplitAppend
  <2> HIDE DEF parts, p
  <2>4. CASE ch = "/"
    <3>1. << >> \in Texts /\ Free(<< >>, {"/"}) /\ parts \in Lists
      BY <2>1 DEF Texts, Free, Filled
    <3>2. LastSegment(Append(t, ch)) = << >>
      BY <2>3, <2>4, <3>1, AppendEnds DEF LastSegment, PutSplit
    <3>3. Append(t, ch) \in Texts /\ Append(t, ch) \o << >> = Append(t, ch)
      BY AppendFacts, ConcatEmptySeq DEF Texts
    <3>4. Upto(Append(t, ch))
      BY <2>4
    <3>5. Good(Append(t, ch), << >>)
      BY <3>3, <3>4
    <3> HIDE DEF Good
    <3> QED
      BY <3>1, <3>2, <3>5
  <2>5. CASE ch # "/"
    <3>1. Append(p, ch) \in Texts
      BY <2>2, AppendFacts
    <3>2. LastSegment(Append(t, ch)) = Append(p, ch)
      BY <2>1, <2>3, <2>5, <3>1, AppendEnds DEF LastSegment, PutSplit, p
    <3>3. Free(Append(p, ch), {"/"})
      <4> DEFINE u == Append(p, ch)
      <4>1. /\ Len(p) \in Nat /\ DOMAIN p = 1..Len(p) /\ DOMAIN u = 1..Len(p) + 1
            /\ \A i \in 1..Len(p) : u[i] = p[i]
            /\ u[Len(p) + 1] = ch
        BY <2>2, TextFacts, AppendFacts
      <4> HIDE DEF u
      <4>2. \A i \in 1..Len(p) + 1 : i \in 1..Len(p) \/ i = Len(p) + 1
        BY <4>1
      <4>3. Free(u, {"/"})
        BY <2>2, <2>5, <4>1, <4>2 DEF Free
      <4> QED
        BY <4>3 DEF u
    <3>4. PICK q \in Texts : t = q \o p /\ Upto(q)
      BY <2>2
    <3> HIDE DEF Upto
    <3>5. Append(t, ch) = q \o Append(p, ch)
      <4>1. p \in Texts
        BY <2>2
      <4>2. q \o Append(p, ch) = Append(q \o p, ch)
        BY <4>1, ConcatAppend
      <4> QED
        BY <3>4, <4>2, Zenon
    <3>6. Good(Append(t, ch), Append(p, ch))
      BY <3>4, <3>5
    <3> HIDE DEF Good
    <3> QED
      BY <3>1, <3>2, <3>3, <3>6
  <2> QED
    BY <2>4, <2>5
<1> HIDE DEF Ended
<1>3. Ended(s)
  <2>1. 0 \in Goods
    <3>1. SubSeq(s, 1, 0) = << >> /\ 0 \in 0..n
      BY <1>0, PrefixEnds
    <3>2. Ended(SubSeq(s, 1, 0))
      BY <1>1, <3>1
    <3> QED
      BY <3>1, <3>2
  <2>2. ASSUME NEW i \in 1..n, Ended(SubSeq(s, 1, i - 1))
        PROVE  Ended(SubSeq(s, 1, i))
    <3>1. SubSeq(s, 1, i - 1) \in Texts /\ SubSeq(s, 1, i) = Append(SubSeq(s, 1, i - 1), s[i])
      BY PrefixGrows DEF Texts
    <3> QED
      BY <1>0, <1>2, <2>2, <3>1
  <2>3. \A i \in 1..n : i - 1 \in Goods => i \in Goods
    BY <1>0, <2>2
  <2> HIDE DEF Goods
  <2>4. \A i \in 0..n : i \in Goods
    BY <1>0, <2>1, <2>3, LoopInvariant, Zenon
  <2>5. Ended(SubSeq(s, 1, n))
    BY <1>0, <2>4 DEF Goods
  <2> QED
    BY <2>5, PrefixEnds
<1> DEFINE p == LastSegment(s)
<1>4. p \in Texts /\ Free(p, {"/"}) /\ Good(s, p)
  BY <1>3 DEF Ended
<1> HIDE DEF p
<1>5. PICK q \in Texts : s = q \o p /\ Upto(q)
  BY <1>4
<1>6. Prefix(s) = q
  BY <1>4, <1>5, LastSegmentOf
<1> QED
  BY <1>4, <1>5, <1>6 DEF p

-----------------------------------------------------------------------------
(* A number with another last segment.                                     *)

LEMMA JoinMore ==
  ASSUME NEW parts \in Lists, NEW p \in Texts
  PROVE  JoinDashes(Append(parts, p))
           = IF parts = << >> THEN p ELSE Append(JoinDashes(parts), "-") \o p
<1> DEFINE u == Append(parts, p)
           n == Len(parts)
<1>0. n \in Nat /\ parts \in Seq(Texts) /\ (parts = << >> <=> n = 0)
  BY ListFacts DEF Lists
<1>1. /\ u \in Lists /\ Len(u) = n + 1
      /\ \A i \in 1..n : u[i] = parts[i]
      /\ u[n + 1] = p
  BY <1>0, AppendProperties DEF Lists
<1> HIDE DEF u
<1>2. PICK texts \in [0..n -> Texts] :
        /\ texts[0] = << >>
        /\ \A i \in 1..n : texts[i] = PutJoined(texts[i - 1], parts[i], i)
        /\ JoinDashes(parts) = texts[n]
  BY JoinLoop
<1>3. PICK more \in [0..n + 1 -> Texts] :
        /\ more[0] = << >>
        /\ \A i \in 1..n + 1 : more[i] = PutJoined(more[i - 1], u[i], i)
        /\ JoinDashes(u) = more[n + 1]
  <2>1. \E more \in [0..Len(u) -> Texts] :
          /\ more[0] = << >>
          /\ \A i \in 1..Len(u) : more[i] = PutJoined(more[i - 1], u[i], i)
          /\ JoinDashes(u) = more[Len(u)]
    BY <1>1, JoinLoop, Zenon
  <2> HIDE DEF n
  <2> QED
    BY <1>1, <2>1
<1> HIDE DEF n
<1> DEFINE Same == {i \in 0..n : more[i] = texts[i]}
<1>4. 0 \in Same /\ \A i \in 1..n : i - 1 \in Same => i \in Same
  <2>1. ASSUME NEW i \in 1..n, more[i - 1] = texts[i - 1]
        PROVE  more[i] = texts[i]
    <3>1. i \in 1..n + 1
      BY <1>0
    <3> QED
      BY <1>1, <1>2, <1>3, <2>1, <3>1
  <2> QED
    BY <1>0, <1>2, <1>3, <2>1
<1> HIDE DEF Same
<1>5. more[n] = texts[n]
  <2>1. \A i \in 0..n : i \in Same
    BY <1>0, <1>4, LoopInvariant, Zenon
  <2> QED
    BY <1>0, <2>1 DEF Same
<1>6. more[n + 1] = PutJoined(more[n], p, n + 1)
  <2>1. n + 1 \in 1..n + 1 /\ (n + 1) - 1 = n
    BY <1>0
  <2> QED
    BY <1>1, <1>3, <2>1
<1>7. n + 1 = 1 <=> parts = << >>
  BY <1>0
<1>8. JoinDashes(u) = PutJoined(JoinDashes(parts), p, n + 1)
  BY <1>2, <1>3, <1>5, <1>6
<1> QED
  BY <1>7, <1>8 DEF PutJoined, u

\* join undoes split.
LEMMA JoinSplit ==
  ASSUME NEW s \in Texts
  PROVE  JoinDashes(SplitAt(s, {"-"})) = s
<1> DEFINE n == Len(s)
           Parts(t) == SplitAt(t, {"-"})
           Goods == {i \in 0..n : JoinDashes(Parts(SubSeq(s, 1, i))) = SubSeq(s, 1, i)}
<1>0. n \in Nat /\ \A i \in 1..n : s[i] \in Char
  BY TextFacts
<1>1. JoinDashes(Parts(<< >>)) = << >>
  <2>1. << >> \in Texts /\ << >> \in Lists /\ << << >> >> = Append(<< >>, << >>)
    BY DEF Texts, Lists
  <2>2. JoinDashes(Append(<< >>, << >>)) = << >>
    BY <2>1, JoinMore
  <2> QED
    BY <2>1, <2>2, SplitEmpty
<1>2. ASSUME NEW t \in Texts, NEW ch \in Char, JoinDashes(Parts(t)) = t
      PROVE  JoinDashes(Parts(Append(t, ch))) = Append(t, ch)
  <2> DEFINE parts == Parts(t)
             front == Front(parts)
             p == Last(parts)
  <2>1. /\ parts \in Filled /\ parts \in Lists /\ parts # << >>
        /\ front \in Lists /\ p \in Texts /\ parts = Append(front, p)
    <3>1. parts \in Filled
      BY SplitType
    <3> HIDE DEF parts
    <3> QED
      BY <3>1, PartsEnd DEF Filled
  <2>2. Parts(Append(t, ch)) = PutSplit(parts, ch, {"-"})
    BY SplitAppend
  <2>3. t = IF front = << >> THEN p ELSE Append(JoinDashes(front), "-") \o p
    BY <1>2, <2>1, JoinMore
  <2>4. JoinDashes(parts) = t
    BY <1>2
  <2> HIDE DEF parts, Parts
  <2>5. CASE ch = "-"
    <3>1. << >> \in Texts
      BY DEF Texts
    <3>2. Parts(Append(t, ch)) = Append(parts, << >>)
      BY <2>2, <2>5 DEF PutSplit
    <3>3. JoinDashes(Append(parts, << >>)) = Append(t, "-") \o << >>
      BY <2>1, <2>4, <3>1, JoinMore
    <3>4. Append(t, "-") \o << >> = Append(t, "-")
      BY CharFacts, AppendFacts, ConcatEmptySeq DEF Texts
    <3> QED
      BY <2>5, <3>2, <3>3, <3>4
  <2>6. CASE ch # "-"
    <3>1. Parts(Append(t, ch)) = Append(front, Append(p, ch)) /\ Append(p, ch) \in Texts
      BY <2>1, <2>2, <2>6, AppendFacts DEF PutSplit
    <3> HIDE DEF front, p
    <3>2. JoinDashes(Append(front, Append(p, ch)))
            = IF front = << >> THEN Append(p, ch)
              ELSE Append(JoinDashes(front), "-") \o Append(p, ch)
      BY <2>1, <3>1, JoinMore
    <3>3. CASE front = << >>
      BY <2>3, <3>1, <3>2, <3>3
    <3>4. CASE front # << >>
      <4> DEFINE r == Append(JoinDashes(front), "-")
      <4>1. r \in Texts
        <5>1. Len(front) \in 0..Len(front)
          BY <2>1, ListFacts
        <5>2. JoinDashes(front) \in Texts
          BY <2>1, <5>1, JoinLoop
        <5> QED
          BY <5>2, CharFacts, AppendFacts
      <4> HIDE DEF r
      <4>2. r \o Append(p, ch) = Append(r \o p, ch)
        BY <2>1, <4>1, ConcatAppend
      <4>3. t = r \o p
        BY <2>3, <3>4 DEF r
      <4>4. JoinDashes(Append(front, Append(p, ch))) = r \o Append(p, ch)
        BY <3>2, <3>4 DEF r
      <4> QED
        BY <3>1, <4>2, <4>3, <4>4
    <3> QED
      BY <3>3, <3>4
  <2> QED
    BY <2>5, <2>6
<1> HIDE DEF Parts
<1>3. JoinDashes(Parts(s)) = s
  <2>1. 0 \in Goods
    <3>1. SubSeq(s, 1, 0) = << >> /\ 0 \in 0..n
      BY <1>0, PrefixEnds
    <3> QED
      BY <1>1, <3>1
  <2>2. ASSUME NEW i \in 1..n, JoinDashes(Parts(SubSeq(s, 1, i - 1))) = SubSeq(s, 1, i - 1)
        PROVE  JoinDashes(Parts(SubSeq(s, 1, i))) = SubSeq(s, 1, i)
    <3>1. SubSeq(s, 1, i - 1) \in Texts /\ SubSeq(s, 1, i) = Append(SubSeq(s, 1, i - 1), s[i])
      BY PrefixGrows DEF Texts
    <3> QED
      BY <1>0, <1>2, <2>2, <3>1
  <2>3. \A i \in 1..n : i - 1 \in Goods => i \in Goods
    BY <1>0, <2>2
  <2> HIDE DEF Goods
  <2>4. \A i \in 0..n : i \in Goods
    BY <1>0, <2>1, <2>3, LoopInvariant, Zenon
  <2>5. n \in 0..n
    BY <1>0
  <2>6. JoinDashes(Parts(SubSeq(s, 1, n))) = SubSeq(s, 1, n)
    BY <2>4, <2>5 DEF Goods
  <2> QED
    BY <2>6, PrefixEnds
<1> QED
  BY <1>3 DEF Parts

\* A text is normalised when it is neat and its segments have no zeros to lose.
LEMMA NormalizedWhen ==
  ASSUME NEW s \in Texts, Neat(s)
  PROVE  NormalizeNomer(s) = s <=>
           \A i \in DOMAIN SplitAt(s, {"-"}) :
             StripLeadingZeros(SplitAt(s, {"-"})[i]) = SplitAt(s, {"-"})[i]
<1> DEFINE parts == SplitAt(s, {"-"})
<1>1. Segments(s) = parts
  BY CleanedNeat DEF Segments
<1>2. /\ parts \in Filled /\ \A i \in DOMAIN parts : Segment(parts[i])
      /\ NormalizeNomer(s) = JoinDashes(StripEach(parts))
  BY <1>1, NormalizeForm
<1>3. JoinDashes(parts) = s
  BY JoinSplit
<1>4. NormalizeNomer(s) \in Texts /\ SplitAt(NormalizeNomer(s), {"-"}) = StripEach(parts)
  BY <1>1, NormalizedIsNeat
<1>5. NormalizeNomer(s) = s => StripEach(parts) = parts
  BY <1>4
<1> HIDE DEF parts
<1>6. NormalizeNomer(s) = s <=> StripEach(parts) = parts
  BY <1>2, <1>3, <1>5
<1>7. StripEach(parts) = [i \in DOMAIN parts |-> StripLeadingZeros(parts[i])]
  BY DEF StripEach
<1>8. parts = [i \in DOMAIN parts |-> parts[i]]
  BY <1>2, ListFacts DEF Filled, Lists
<1>9. StripEach(parts) = parts <=> \A i \in DOMAIN parts : StripLeadingZeros(parts[i]) = parts[i]
  BY <1>7, <1>8
<1> QED
  BY <1>6, <1>9 DEF parts

\* Digits at the end of a neat text can be replaced by digits.
LEMMA NeatEnds ==
  ASSUME NEW q \in Texts, NEW p \in Texts, NEW z \in Texts, IsDigits(p), IsDigits(z),
         Neat(q \o p)
  PROVE  Neat(q \o z)
<1> DEFINE s == q \o p
           t == q \o z
           m == Len(q)
<1>0. /\ m \in Nat /\ Len(p) \in Nat \ {0} /\ Len(z) \in Nat \ {0}
      /\ \A i \in 1..Len(p) : p[i] \notin Blank /\ p[i] \notin Dashes
      /\ \A i \in 1..Len(z) : z[i] \notin Blank /\ z[i] \notin Dashes
  <2>1. ASSUME NEW x \in Texts, IsDigits(x)
        PROVE  Len(x) \in Nat \ {0} /\ \A i \in 1..Len(x) : x[i] \notin Blank /\ x[i] \notin Dashes
    <3>1. Len(x) \in Nat \ {0} /\ DOMAIN x = 1..Len(x)
      BY <2>1, TextFacts DEF IsDigits
    <3>2. \A i \in DOMAIN x : x[i] \notin Blank /\ x[i] \notin Dashes
      BY <2>1, DigitsAreSegment DEF Segment, Free
    <3> QED
      BY <3>1, <3>2
  <2> QED
    BY <2>1, TextFacts
<1>1. /\ DOMAIN s = 1..m + Len(p) /\ DOMAIN t = 1..m + Len(z)
      /\ \A i \in 1..m : s[i] = q[i] /\ t[i] = q[i]
      /\ \A i \in 1..Len(p) : s[m + i] = p[i]
      /\ \A i \in 1..Len(z) : t[m + i] = z[i]
  BY ConcatFacts
<1>2. ASSUME NEW x, NEW i \in m + 1..m + Len(x), Len(x) \in Nat
      PROVE  i - m \in 1..Len(x) /\ m + (i - m) = i
  BY <1>0, <1>2
<1>3. \A i \in m + 1..m + Len(p) : s[i] \notin Blank /\ s[i] \notin Dashes
  <2>1. ASSUME NEW i \in m + 1..m + Len(p)
        PROVE  s[i] \notin Blank /\ s[i] \notin Dashes
    <3>1. i - m \in 1..Len(p) /\ m + (i - m) = i
      BY <1>0, <1>2
    <3> HIDE DEF s, m
    <3>2. s[m + (i - m)] = p[i - m]
      BY <1>1, <3>1
    <3> QED
      BY <1>0, <3>1, <3>2
  <2> QED
    BY <2>1
<1>4. \A i \in m + 1..m + Len(z) : t[i] \notin Blank /\ t[i] \notin Dashes
  <2>1. ASSUME NEW i \in m + 1..m + Len(z)
        PROVE  t[i] \notin Blank /\ t[i] \notin Dashes
    <3>1. i - m \in 1..Len(z) /\ m + (i - m) = i
      BY <1>0, <1>2
    <3> HIDE DEF t, m
    <3>2. t[m + (i - m)] = z[i - m]
      BY <1>1, <3>1
    <3> QED
      BY <1>0, <3>1, <3>2
  <2> QED
    BY <2>1
<1> DEFINE a == m + Len(p)
           b == m + Len(z)
<1>5. /\ a \in Nat /\ b \in Nat /\ m + 1 <= a /\ m + 1 <= b
      /\ DOMAIN s = 1..a /\ DOMAIN t = 1..b
      /\ \A i \in 1..m : s[i] = t[i]
      /\ \A i \in m + 1..a : s[i] \notin Blank /\ s[i] \notin Dashes
      /\ \A i \in m + 1..b : t[i] \notin Blank /\ t[i] \notin Dashes
  BY <1>0, <1>1, <1>3, <1>4
<1> HIDE DEF s, t, m, a, b
<1>6. \A i \in 1..b : t[i] \in Blank \/ t[i] \in Dashes => i \in 1..m /\ i \in 1..a /\ s[i] = t[i]
  <2>1. \A i \in 1..b : i \in 1..m \/ i \in m + 1..b
    BY <1>0, <1>5 DEF m
  <2>2. \A i \in 1..m : i \in 1..a
    BY <1>0, <1>5 DEF m
  <2> QED
    BY <1>5, <2>1, <2>2
<1>7. Neat(s)
  BY DEF s
<1>8. OneDash(t)
  BY <1>5, <1>6, <1>7 DEF Neat, OneDash
<1>9. ASSUME NEW i \in 1..b, t[i] \in Blank
      PROVE  /\ t[i] = Space /\ SolidAt(t, i - 1) /\ SolidAt(t, i + 1)
             /\ ~IsDash(t, i - 1) /\ ~IsDash(t, i + 1)
  <2>1. i \in 1..m /\ i \in 1..a /\ s[i] = t[i]
    BY <1>6, <1>9
  <2>2. /\ s[i] = Space /\ SolidAt(s, i - 1) /\ SolidAt(s, i + 1)
        /\ ~IsDash(s, i - 1) /\ ~IsDash(s, i + 1)
    BY <1>5, <1>7, <1>9, <2>1 DEF Neat, Spaced
  <2>3. i - 1 \in 1..m /\ i - 1 \in 1..b
    <3>1. i - 1 \in 1..a
      BY <1>5, <2>2 DEF SolidAt
    <3> QED
      BY <1>0, <1>5, <2>1, <3>1 DEF m
  <2>4. SolidAt(t, i - 1) /\ ~IsDash(t, i - 1)
    BY <1>5, <2>2, <2>3 DEF SolidAt, IsDash
  <2>5. SolidAt(t, i + 1) /\ ~IsDash(t, i + 1)
    <3>1. i + 1 \in 1..b /\ (i + 1 \in 1..m \/ i + 1 \in m + 1..b)
      BY <1>0, <1>5, <2>1 DEF m
    <3>2. CASE i + 1 \in 1..m
      BY <1>5, <2>2, <3>1, <3>2 DEF SolidAt, IsDash
    <3>3. CASE i + 1 \in m + 1..b
      BY <1>5, <3>1, <3>3, CharFacts DEF SolidAt, IsDash
    <3> QED
      BY <3>1, <3>2, <3>3
  <2> QED
    BY <2>1, <2>2, <2>4, <2>5
<1>10. Neat(t)
  BY <1>5, <1>8, <1>9, CharFacts DEF Neat, Spaced
<1> QED
  BY <1>10 DEF t

LEMMA SlashIsNoDigit == ~IsDigit("/") /\ "/" # "-"
<1>1. \A d \in DOMAIN Digits : Digits[d] # "/"
  BY DEF Digits
<1> QED
  BY <1>1 DEF IsDigit, ToSet

\* A normalised number stays normalised when the digits after its last slash
\* are replaced by others.
LEMMA NormalizedEnds ==
  ASSUME NEW q \in Texts, NEW r \in Texts, q = Append(r, "/"), "/" \in Char,
         NEW p \in Texts, NEW z \in Texts, IsDigits(p), IsDigits(z),
         Neat(q \o p), NormalizeNomer(q \o p) = q \o p
  PROVE  NormalizeNomer(q \o z) = q \o z
<1> DEFINE before == SplitAt(q, {"-"})
           front == Front(before)
           x == Last(before)
           After(y) == Append(front, x \o y)
<1>1. /\ front \in Lists /\ Len(front) \in Nat /\ x \in Texts
      /\ \E i \in DOMAIN x : x[i] = "/"
  <2> DEFINE parts == SplitAt(r, {"-"})
  <2>1. parts \in Filled /\ before \in Filled
    BY SplitType
  <2>2. before = PutSplit(parts, "/", {"-"})
    BY SplitAppend
  <2> HIDE DEF parts, before
  <2>3. front \in Lists /\ x \in Texts
    BY <2>1, PartsEnd
  <2>4. Front(parts) \in Lists /\ Last(parts) \in Texts
    BY <2>1, PartsEnd
  <2>5. before = Append(Front(parts), Append(Last(parts), "/"))
    BY <2>2, SlashIsNoDigit DEF PutSplit
  <2>6. Append(Last(parts), "/") \in Texts
    BY <2>4, AppendFacts
  <2>7. x = Append(Last(parts), "/")
    BY <2>4, <2>5, <2>6, AppendEnds
  <2> HIDE DEF front, x
  <2>8. Len(Last(parts)) + 1 \in DOMAIN x /\ x[Len(Last(parts)) + 1] = "/"
    <3>1. Len(Last(parts)) \in Nat
      BY <2>4, TextFacts
    <3>2. DOMAIN x = 1..Len(Last(parts)) + 1 /\ x[Len(Last(parts)) + 1] = "/"
      BY <2>4, <2>7, AppendFacts
    <3> QED
      BY <3>1, <3>2
  <2> QED
    BY <2>3, <2>8, ListFacts
<1>2. ASSUME NEW y \in Texts, IsDigits(y)
      PROVE  /\ SplitAt(q \o y, {"-"}) = After(y)
             /\ x \o y \in Texts
             /\ StripLeadingZeros(x \o y) = x \o y
  <2>1. Free(y, {"-"})
    BY <1>2, DigitsAreSegment, CharFacts DEF Segment, Free
  <2>2. SplitAt(q \o y, {"-"}) = After(y)
    BY <2>1, SplitConcat, Zenon
  <2> HIDE DEF x
  <2>3. PICK i \in DOMAIN x : x[i] = "/"
    BY <1>1
  <2>4. i \in 1..Len(x)
    BY <1>1, TextFacts
  <2>5. x \o y \in Texts /\ i \in DOMAIN (x \o y) /\ (x \o y)[i] = "/"
    <3>1. /\ x \o y \in Texts /\ Len(x) \in Nat /\ Len(y) \in Nat
          /\ DOMAIN (x \o y) = 1..Len(x) + Len(y)
          /\ (x \o y)[i] = x[i]
      BY <1>1, <2>4, ConcatFacts
    <3>2. i \in 1..Len(x) + Len(y)
      BY <2>4, <3>1
    <3> QED
      BY <2>3, <3>1, <3>2
  <2>6. ~IsDigits(x \o y)
    BY <2>5, SlashIsNoDigit DEF IsDigits, IsDigit, ToSet
  <2>7. StripLeadingZeros(x \o y) = x \o y
    BY <2>6 DEF StripLeadingZeros
  <2> QED
    BY <2>2, <2>5, <2>7
<1> HIDE DEF front, x, before
<1>3. /\ Neat(q \o z) /\ q \o z \in Texts /\ q \o p \in Texts
  BY NeatEnds, ConcatFacts
<1>4. \A i \in DOMAIN After(p) : StripLeadingZeros(After(p)[i]) = After(p)[i]
  <2> DEFINE parts == SplitAt(q \o p, {"-"})
  <2>1. parts = After(p)
    BY <1>2
  <2>2. \A i \in DOMAIN parts : StripLeadingZeros(parts[i]) = parts[i]
    BY <1>3, NormalizedWhen
  <2> HIDE DEF parts, After
  <2> QED
    BY <2>1, <2>2
<1>5. ASSUME NEW y \in Texts, IsDigits(y)
      PROVE  /\ DOMAIN After(y) = 1..Len(front) + 1
             /\ \A i \in 1..Len(front) : After(y)[i] = front[i]
             /\ After(y)[Len(front) + 1] = x \o y
  <2>1. x \o y \in Texts /\ front \in Seq(Texts)
    BY <1>1, <1>2, <1>5 DEF Lists
  <2> QED
    BY <2>1, AppendProperties
<1>6. ASSUME NEW i \in DOMAIN After(z)
      PROVE  StripLeadingZeros(After(z)[i]) = After(z)[i]
  <2>1. i \in 1..Len(front) \/ i = Len(front) + 1
    BY <1>1, <1>5
  <2>2. CASE i \in 1..Len(front)
    <3>1. i \in DOMAIN After(p) /\ After(p)[i] = front[i] /\ After(z)[i] = front[i]
      BY <1>1, <1>5, <2>2
    <3> HIDE DEF After
    <3> QED
      BY <1>4, <3>1
  <2>3. CASE i = Len(front) + 1
    <3>1. After(z)[i] = x \o z
      BY <1>5, <2>3
    <3> HIDE DEF After
    <3> QED
      BY <1>2, <3>1
  <2> QED
    BY <2>1, <2>2, <2>3
<1> HIDE DEF After
<1>7. SplitAt(q \o z, {"-"}) = After(z)
  BY <1>2
<1> QED
  BY <1>3, <1>6, <1>7, NormalizedWhen

\* The shifted number, normalised or not.
LEMMA ShiftForm ==
  ASSUME NEW s \in Texts, HasLastSegment(s), NEW offset \in Nat
  PROVE  LET shifted == ShiftLastSegment(s, offset)
             p       == LastSegment(s)
             z       == LastSegment(shifted) IN
         /\ shifted \in Texts /\ HasLastSegment(shifted)
         /\ Prefix(shifted) = Prefix(s)
         /\ Value(p) \in Nat /\ Value(z) = Value(p) + offset
         /\ Value(z) < TenTo(Len(p)) => Len(z) = Len(p)
         /\ Neat(s) /\ NormalizeNomer(s) = s => NormalizeNomer(shifted) = shifted
<1> DEFINE q == Prefix(s)
           p == LastSegment(s)
           m == Value(p) + offset
           z == ZFill(Numeral(m), Len(p))
<1>1. /\ q \in Texts /\ p \in Texts /\ s = q \o p /\ Free(p, {"/"})
      /\ q = << >> \/ \E r \in Texts : q = Append(r, "/") /\ "/" \in Char
  BY LastSegmentEnds
<1>2. IsDigits(p) /\ "/" \in ToSet(s)
  BY DEF HasLastSegment
<1>3. ShiftLastSegment(s, offset) = q \o z
  BY DEF ShiftLastSegment
<1> HIDE DEF q, p
<1>4. Len(p) \in Nat \ {0} /\ Value(p) \in Nat
  BY <1>1, <1>2, TextFacts, StripLeadingZerosIsNumeral DEF IsDigits
<1>5. m \in Nat
  BY <1>4
<1> HIDE DEF m
<1>6. z \in Texts /\ IsDigits(z) /\ Value(z) = m /\ (m < TenTo(Len(p)) => Len(z) = Len(p))
  BY <1>4, <1>5, ZFillFacts
<1> HIDE DEF z
<1>7. q # << >>
  <2>1. CASE q = << >>
    <3>1. s = p
      BY <1>1, <2>1, ConcatEmptySeq DEF Texts
    <3> QED
      BY <1>1, <1>2, <3>1 DEF ToSet, Free
  <2> QED
    BY <2>1
<1>8. PICK r \in Texts : q = Append(r, "/") /\ "/" \in Char
  BY <1>1, <1>7
<1>9. Free(z, {"/"})
  BY <1>6, SlashIsNoDigit DEF IsDigits, IsDigit, ToSet, Free
<1>10. LastSegment(q \o z) = z /\ Prefix(q \o z) = q
  BY <1>1, <1>6, <1>8, <1>9, LastSegmentOf
<1>11. "/" \in ToSet(q \o z)
  <2>1. /\ Len(r) \in Nat /\ Len(q) = Len(r) + 1 /\ q[Len(r) + 1] = "/"
    BY <1>8, AppendFacts, TextFacts
  <2>2. Len(q) \in 1..Len(q)
    BY <2>1
  <2>3. /\ DOMAIN (q \o z) = 1..Len(q) + Len(z) /\ (q \o z)[Len(q)] = q[Len(q)]
        /\ Len(z) \in Nat
    BY <1>1, <1>6, <2>2, ConcatFacts
  <2>4. Len(q) \in DOMAIN (q \o z)
    BY <2>1, <2>2, <2>3
  <2> QED
    BY <2>1, <2>3, <2>4 DEF ToSet
<1>12. Neat(s) /\ NormalizeNomer(s) = s => NormalizeNomer(q \o z) = q \o z
  BY <1>1, <1>2, <1>6, <1>8, NormalizedEnds
<1>13. q \o z \in Texts /\ HasLastSegment(q \o z)
  BY <1>1, <1>6, <1>10, <1>11, ConcatFacts DEF HasLastSegment
<1> QED
  BY <1>3, <1>4, <1>6, <1>10, <1>12, <1>13 DEF q, p, m

\* _shift_last_segment with its None, as a function of number and offset.
Shifted(None) ==
  [s \in Texts |->
     [offset \in 1..MaxOffset |->
        IF HasLastSegment(s) THEN ShiftLastSegment(s, offset) ELSE None]]

\* _shift_last_segment is what GoszakupParser assumes of its constant Shift: it
\* gives numbers, or None whatever the offset; and the offsets give different
\* numbers, none of them the one that was asked for.
THEOREM ShiftIsAsAssumed ==
  ASSUME NEW None, None \notin Texts
  PROVE  LET Shift == Shifted(None) IN
         /\ Shift \in [Texts -> [1..MaxOffset -> Texts \cup {None}]]
         /\ \A s \in Texts, o, p \in 1..MaxOffset :
              Shift[s][o] = None => Shift[s][p] = None
         /\ \A s \in Texts, o, p \in 1..MaxOffset :
              Shift[s][o] = None \/ (Shift[s][o] # s /\ (Shift[s][o] = Shift[s][p] => o = p))
<1> DEFINE Shift == Shifted(None)
<1>1. \A offset \in 1..MaxOffset : offset \in Nat \ {0}
  OBVIOUS
<1>2. \A s \in Texts, o \in 1..MaxOffset :
        Shift[s][o] = IF HasLastSegment(s) THEN ShiftLastSegment(s, o) ELSE None
  BY DEF Shifted
<1>3. \A s \in Texts, o \in 1..MaxOffset :
        HasLastSegment(s) =>
          /\ ShiftLastSegment(s, o) \in Texts
          /\ Value(LastSegment(s)) \in Nat
          /\ Value(LastSegment(ShiftLastSegment(s, o))) = Value(LastSegment(s)) + o
  BY <1>1, ShiftForm
<1>4. Shift \in [Texts -> [1..MaxOffset -> Texts \cup {None}]]
  <2>1. ASSUME NEW s \in Texts, NEW o \in 1..MaxOffset
        PROVE  (IF HasLastSegment(s) THEN ShiftLastSegment(s, o) ELSE None) \in Texts \cup {None}
    BY <1>3
  <2> QED
    BY <2>1 DEF Shifted
<1> HIDE DEF Shift
<1>5. ASSUME NEW s \in Texts, NEW o \in 1..MaxOffset, NEW p \in 1..MaxOffset
      PROVE  /\ Shift[s][o] = None => Shift[s][p] = None
             /\ Shift[s][o] = None \/ (Shift[s][o] # s /\ (Shift[s][o] = Shift[s][p] => o = p))
  <2>1. CASE ~HasLastSegment(s)
    BY <1>2, <2>1
  <2>2. CASE HasLastSegment(s)
    <3> DEFINE v == Value(LastSegment(s))
    <3>1. /\ Shift[s][o] = ShiftLastSegment(s, o) /\ Shift[s][p] = ShiftLastSegment(s, p)
          /\ Shift[s][o] \in Texts
          /\ v \in Nat
          /\ Value(LastSegment(Shift[s][o])) = v + o
          /\ Value(LastSegment(Shift[s][p])) = v + p
      BY <1>2, <1>3, <2>2
    <3>2. Shift[s][o] = s => v = v + o
      BY <3>1
    <3>3. Shift[s][o] = Shift[s][p] => v + o = v + p
      BY <3>1
    <3> HIDE DEF v
    <3>4. v # v + o /\ (v + o = v + p => o = p)
      BY <1>1, <3>1
    <3> QED
      BY <3>1, <3>2, <3>3, <3>4
  <2> QED
    BY <2>1, <2>2
<1> QED
  BY <1>4, <1>5 DEF Shift

-----------------------------------------------------------------------------
(* The texts of the model.                                                 *)

Typed == text \in Texts

LEMMA TypedHolds == Spec => []Typed
<1>1. Init => Typed
  BY DEF Init, Texts, Typed
<1>2. Typed /\ [Type]_text => Typed'
  <2> SUFFICES ASSUME text \in Texts, [Type]_text
               PROVE  text' \in Texts
    BY DEF Typed
  <2>1. CASE Type
    <3>1. PICK ch \in Alphabet : text' = Append(text, ch)
      BY <2>1 DEF Type
    <3>2. ch \in Char
      BY DEF Char
    <3> QED
      BY <3>1, <3>2, AppendFacts
  <2>2. CASE UNCHANGED text
    BY <2>2
  <2> QED
    BY <2>1, <2>2
<1> QED
  BY <1>1, <1>2, PTL DEF Spec

\* normalize_nomer changes nothing the second time, whatever the text: the
\* number that is queued is the one that SamrukParser searches and compares.
THEOREM NormalizesOnceHolds == Spec => []NormalizesOnce
<1>1. Typed => NormalizesOnce
  BY NormalizeTwice DEF NormalizesOnce, Typed
<1> QED
  BY <1>1, TypedHolds, PTL

\* normalize_nomer computes the normal form of every text, segment by segment,
\* though it works on the whole text with one substitution after the other.
THEOREM NormalizesEverySegmentHolds == Spec => []NormalizesEverySegment
<1>1. Typed => NormalizesEverySegment
  BY NormalizesParts DEF NormalizesEverySegment, Typed
<1> QED
  BY <1>1, TypedHolds, PTL

\* normalize_nomer neither makes nor loses a segment, whatever the text: the
\* segments with anything but white space in them are the same ones as before.
THEOREM KeepsSegmentsHolds == Spec => []KeepsSegments
<1>1. Typed => KeepsSegments
  BY NormalizeKeeps DEF KeepsSegments, Typed
<1> QED
  BY <1>1, TypedHolds, PTL

\* Every number that GoszakupParser searches for is a neighbour of the one it
\* was asked for, and normalised like it, whatever the text and the offset.
THEOREM ShiftsLastSegmentHolds == Spec => []ShiftsLastSegment
<1>1. Typed => ShiftsLastSegment
  <2> SUFFICES ASSUME text \in Texts PROVE ShiftsLastSegment
    BY DEF Typed
  <2> DEFINE number == NormalizeNomer(text)
  <2>1. number \in Texts /\ Neat(number) /\ NormalizeNomer(number) = number
    BY NormalizedIsNeat, NormalizeTwice
  <2>2. \A offset \in 1..MaxOffset : offset \in Nat
    OBVIOUS
  <2> HIDE DEF number
  <2>3. HasLastSegment(number) =>
          \A offset \in 1..MaxOffset :
            LET shifted == ShiftLastSegment(number, offset)
                width   == Len(LastSegment(number)) IN
            /\ HasLastSegment(shifted)
            /\ Prefix(shifted) = Prefix(number)
            /\ Value(LastSegment(shifted)) = Value(LastSegment(number)) + offset
            /\ Value(LastSegment(shifted)) < TenTo(width) => Len(LastSegment(shifted)) = width
            /\ NormalizeNomer(shifted) = shifted
    BY <2>1, <2>2, ShiftForm
  <2> QED
    BY <2>3 DEF ShiftsLastSegment, number
<1> QED
  BY <1>1, TypedHolds, PTL

=============================================================================
