------------------------ MODULE FoundContractsProofs ------------------------
(***************************************************************************)
(* What _search and _pick_primary make of a list, for any list.            *)
(***************************************************************************)
EXTENDS FoundContracts, SequenceTheorems, LoopInduction

LEMMA FirstIsLeast ==
  ASSUME NEW positions \in SUBSET Nat, positions # {}
  PROVE  /\ First(positions) \in positions
         /\ \A j \in positions : First(positions) <= j
  BY LeastExists DEF First

\* The members of list come from the positions of found, one from each.
Traced(list, found, positions, origin) ==
  /\ \A a \in DOMAIN list : list[a] = found[origin[a]]
  /\ \A i \in positions : \E a \in DOMAIN list : origin[a] = i
  /\ \A a, b \in DOMAIN list : origin[a] = origin[b] => a = b

\* A sublist has the members at its positions, each of them once.
LEMMA SublistMembers ==
  ASSUME NEW X, NEW found \in Seq(X), NEW positions \in SUBSET (DOMAIN found)
  PROVE  /\ Sublist(found, positions) \in Seq(X)
         /\ \E origin \in [DOMAIN Sublist(found, positions) -> positions] :
              Traced(Sublist(found, positions), found, positions, origin)
<1> DEFINE V == Seq(X)
           n == Len(found)
           Pass(i, v) == IF i \in positions THEN Append(v, found[i]) ELSE v
           step == [i \in 1..n |-> [v \in V |-> Pass(i, v)]]
           IsKept(f) == f = [i \in 0..n |-> IF i = 0 THEN << >> ELSE Pass(i, f[i - 1])]
           kept == CHOOSE f : IsKept(f)
<1>0. /\ n \in Nat /\ << >> \in V /\ DOMAIN found = 1..n
      /\ \A i \in 1..n : found[i] \in X
  OBVIOUS
<1>1. ASSUME NEW i \in 1..n, NEW v \in V
      PROVE  Pass(i, v) \in V
  BY <1>0
<1> HIDE DEF n
<1>2. PICK values \in [0..n -> V] : IsLoop(values, n, << >>, step)
  <2> HIDE DEF V
  <2>1. step \in [1..n -> [V -> V]]
    <3> HIDE DEF Pass
    <3> QED
      BY <1>1
  <2> HIDE DEF step
  <2> QED
    BY <1>0, <2>1, LoopExists
<1>3. IsKept(values)
  <2> HIDE DEF V
  <2>1. ASSUME NEW i \in 1..n
        PROVE  values[i] = Pass(i, values[i - 1])
    <3> HIDE DEF Pass
    <3> QED
      BY <1>0, <1>2 DEF IsLoop
  <2> HIDE DEF Pass
  <2> QED
    BY <1>0, <1>2, <2>1 DEF IsLoop
<1>4. IsKept(kept)
  <2> HIDE DEF IsKept
  <2> QED
    BY <1>3, Zenon
<1>5. Sublist(found, positions) = kept[n]
  BY DEF Sublist, n
<1> HIDE DEF kept
<1>6. kept[0] = << >> /\ \A i \in 1..n : kept[i] = Pass(i, kept[i - 1])
  <2> HIDE DEF Pass
  <2> QED
    BY <1>0, <1>4
<1> DEFINE Good(i) == /\ kept[i] \in V
                      /\ \E origin \in [DOMAIN kept[i] -> positions \cap 1..i] :
                           Traced(kept[i], found, positions \cap 1..i, origin)
           Goods == {i \in 0..n : Good(i)}
<1>7. Good(0)
  <2>1. kept[0] \in V /\ DOMAIN kept[0] = {}
    BY <1>6
  <2>2. [a \in {} |-> 0] \in [DOMAIN kept[0] -> positions \cap 1..0]
    BY <2>1
  <2>3. Traced(kept[0], found, positions \cap 1..0, [a \in {} |-> 0])
    BY <2>1 DEF Traced
  <2> QED
    BY <2>1, <2>2, <2>3
<1>8. ASSUME NEW i \in 1..n, Good(i - 1)
      PROVE  Good(i)
  <2>1. PICK origin \in [DOMAIN kept[i - 1] -> positions \cap 1..(i - 1)] :
          Traced(kept[i - 1], found, positions \cap 1..(i - 1), origin)
    BY <1>8
  <2>2. kept[i - 1] \in V
    BY <1>8
  <2>3. CASE i \notin positions
    <3>1. kept[i] = kept[i - 1]
      BY <1>6, <2>3
    <3>2. positions \cap 1..i = positions \cap 1..(i - 1)
      BY <2>3
    <3>3. origin \in [DOMAIN kept[i] -> positions \cap 1..i]
      BY <2>1, <3>1, <3>2
    <3>4. Traced(kept[i], found, positions \cap 1..i, origin)
      BY <2>1, <3>1, <3>2
    <3> QED
      BY <2>2, <3>1, <3>3, <3>4
  <2>4. CASE i \in positions
    <3> DEFINE m == Len(kept[i - 1])
               after == [a \in 1..(m + 1) |-> IF a = m + 1 THEN i ELSE origin[a]]
    <3>1. kept[i] = Append(kept[i - 1], found[i])
      BY <1>6, <2>4
    <3>2. m \in Nat /\ DOMAIN kept[i - 1] = 1..m
      BY <2>2
    <3>3. /\ kept[i] \in V /\ DOMAIN kept[i] = 1..(m + 1)
          /\ kept[i][m + 1] = found[i]
          /\ \A a \in 1..m : kept[i][a] = kept[i - 1][a]
      BY <1>0, <2>2, <3>1, <3>2
    <3> HIDE DEF m
    <3>4. /\ \A a \in 1..m : after[a] = origin[a] /\ origin[a] \in positions \cap 1..(i - 1)
          /\ after[m + 1] = i
      BY <2>1, <3>2
    <3>5. after \in [DOMAIN kept[i] -> positions \cap 1..i]
      <4>1. ASSUME NEW a \in 1..(m + 1)
            PROVE  (IF a = m + 1 THEN i ELSE origin[a]) \in positions \cap 1..i
        BY <2>1, <2>4, <3>2
      <4> QED
        BY <3>3, <4>1
    <3> HIDE DEF after
    <3>6. Traced(kept[i], found, positions \cap 1..i, after)
      <4>1. ASSUME NEW a \in 1..(m + 1)
            PROVE  kept[i][a] = found[after[a]]
        <5>1. a = m + 1 \/ a \in 1..m
          BY <3>2
        <5> QED
          BY <2>1, <3>2, <3>3, <3>4, <5>1 DEF Traced
      <4>2. ASSUME NEW j \in positions \cap 1..i
            PROVE  \E a \in 1..(m + 1) : after[a] = j
        <5>1. CASE j = i
          BY <3>2, <3>4, <5>1
        <5>2. CASE j # i
          <6>1. j \in positions \cap 1..(i - 1)
            BY <5>2
          <6>2. PICK a \in 1..m : origin[a] = j
            BY <2>1, <3>2, <6>1 DEF Traced
          <6>3. after[a] = j /\ a \in 1..(m + 1)
            BY <3>2, <3>4, <6>2
          <6> QED
            BY <6>3
        <5> QED
          BY <5>1, <5>2
      <4>3. ASSUME NEW a \in 1..(m + 1), NEW b \in 1..(m + 1), after[a] = after[b]
            PROVE  a = b
        <5>1. (a = m + 1 \/ a \in 1..m) /\ (b = m + 1 \/ b \in 1..m)
          BY <3>2
        <5>2. \A c \in 1..m : after[c] # i /\ after[c] = origin[c]
          BY <3>4
        <5>3. CASE a \in 1..m /\ b \in 1..m
          <6>1. origin[a] = origin[b]
            BY <4>3, <5>2, <5>3
          <6> QED
            BY <2>1, <3>2, <5>3, <6>1 DEF Traced
        <5>4. CASE a = m + 1 \/ b = m + 1
          BY <3>4, <4>3, <5>1, <5>2, <5>4
        <5> QED
          BY <5>1, <5>3, <5>4
      <4> QED
        BY <3>3, <4>1, <4>2, <4>3 DEF Traced
    <3> QED
      BY <3>3, <3>5, <3>6
  <2> QED
    BY <2>3, <2>4
<1> HIDE DEF Good
<1>9. 0 \in Goods /\ \A i \in 1..n : i - 1 \in Goods => i \in Goods
  BY <1>0, <1>7, <1>8
<1> HIDE DEF Goods
<1>10. \A i \in 0..n : i \in Goods
  BY <1>0, <1>9, LoopInvariant, Zenon
<1>11. Good(n)
  BY <1>0, <1>10 DEF Goods
<1>12. positions \cap 1..n = positions
  BY <1>0
<1> QED
  BY <1>5, <1>11, <1>12 DEF Good

\* What a sublist is made of.
LEMMA SublistType ==
  ASSUME NEW X, NEW found \in Seq(X), NEW positions \in SUBSET (DOMAIN found),
         NEW Y, \A i \in positions : found[i] \in Y
  PROVE  /\ Sublist(found, positions) \in Seq(Y)
         /\ \A i \in positions :
              \E a \in DOMAIN Sublist(found, positions) :
                Sublist(found, positions)[a] = found[i]
<1> DEFINE list == Sublist(found, positions)
<1>1. list \in Seq(X)
  BY SublistMembers
<1>2. PICK origin \in [DOMAIN list -> positions] :
        Traced(list, found, positions, origin)
  BY SublistMembers
<1> HIDE DEF list
<1>3. \A a \in DOMAIN list : list[a] \in Y
  BY <1>2 DEF Traced
<1>4. list \in Seq(Y)
  BY <1>1, <1>3
<1>5. \A i \in positions : \E a \in DOMAIN list : list[a] = found[i]
  BY <1>2 DEF Traced
<1> QED
  BY <1>4, <1>5 DEF list

\* Of the records of a list with the same id one stays: no id is lost, and none
\* comes twice.
THEOREM EveryIdStaysOnce ==
  ASSUME NEW X, NEW found \in Seq(X)
  PROVE  FirstOfEachId(found) \in Seq(X) /\ OnePerId(FirstOfEachId(found), found)
<1>0. DOMAIN found \subseteq Nat /\ Unseen(found) \in SUBSET (DOMAIN found)
  BY DEF Unseen
<1> DEFINE list == FirstOfEachId(found)
<1>1. list \in Seq(X)
  BY <1>0, SublistMembers DEF FirstOfEachId
<1>2. PICK origin \in [DOMAIN list -> Unseen(found)] :
        Traced(list, found, Unseen(found), origin)
  BY <1>0, SublistMembers DEF FirstOfEachId
<1> HIDE DEF list
<1>3. ASSUME NEW a \in DOMAIN list
      PROVE  \E j \in DOMAIN found : list[a] = found[j]
  BY <1>0, <1>2 DEF Traced
<1>4. ASSUME NEW j \in DOMAIN found
      PROVE  \E a \in DOMAIN list : list[a].id = found[j].id
  <2> DEFINE Same == {i \in DOMAIN found : found[i].id = found[j].id}
  <2>1. PICK i \in Same : \A other \in Same : i <= other
    <3>1. Same \subseteq Nat /\ Same # {}
      BY <1>0
    <3> QED
      BY <3>1, LeastExists
  <2>2. i \in Unseen(found)
    <3>1. ASSUME NEW other \in 1..i - 1
          PROVE  found[other].id # found[i].id
      <4>1. other \in DOMAIN found /\ ~(i <= other)
        BY <2>1
      <4> QED
        BY <2>1, <4>1
    <3> QED
      BY <2>1, <3>1 DEF Unseen
  <2> QED
    BY <1>2, <2>1, <2>2 DEF Traced
<1>5. ASSUME NEW a \in DOMAIN list, NEW b \in DOMAIN list, list[a].id = list[b].id
      PROVE  a = b
  <2>1. /\ origin[a] \in Unseen(found) /\ origin[b] \in Unseen(found)
        /\ found[origin[a]].id = found[origin[b]].id
    BY <1>5, <1>2 DEF Traced
  <2>2. origin[a] \in Nat \ {0} /\ origin[b] \in Nat \ {0}
    BY <2>1 DEF Unseen
  <2>3. ~(origin[a] < origin[b]) /\ ~(origin[b] < origin[a])
    BY <2>1, <2>2 DEF Unseen
  <2>4. origin[a] = origin[b]
    BY <2>2, <2>3
  <2> QED
    BY <1>2, <2>4 DEF Traced
<1> QED
  BY <1>1, <1>3, <1>4, <1>5 DEF OnePerId, list

\* Some start date is the latest one.
LEMMA LatestExists ==
  ASSUME NEW Bound \in Nat,
         NEW X, \A x \in X : x.start \in 0..Bound,
         NEW found \in Seq(X), found # << >>
  PROVE  Latest(found) # {}
<1> DEFINE Distances == {n \in Nat : \E i \in DOMAIN found : n = Bound - found[i].start}
<1>1. \A i \in DOMAIN found : found[i].start \in 0..Bound
  OBVIOUS
<1>2. PICK i \in DOMAIN found : TRUE
  <2>1. Len(found) # 0
    BY EmptySeq
  <2>2. 1 \in DOMAIN found
    BY <2>1
  <2> QED
    BY <2>2
<1>3. Distances # {}
  <2>1. Bound - found[i].start \in Nat
    BY <1>1, <1>2
  <2> QED
    BY <1>2, <2>1
<1>4. PICK least \in Distances : \A n \in Distances : least <= n
  BY <1>3, LeastExists
<1>5. PICK j \in DOMAIN found : least = Bound - found[j].start
  BY <1>4
<1>6. ASSUME NEW k \in DOMAIN found
      PROVE  found[k].start <= found[j].start
  <2>1. Bound - found[k].start \in Distances
    BY <1>1
  <2>2. least <= Bound - found[k].start
    BY <1>4, <2>1
  <2> QED
    BY <1>1, <1>5, <2>2
<1> QED
  BY <1>5, <1>6 DEF Latest

\* _pick_primary returns a contract of the list, and no other contract of the
\* list is preferred to it.
THEOREM PickPrimaryIsBest ==
  ASSUME NEW Bound \in Nat,
         NEW X, \A x \in X : x.start \in 0..Bound /\ x.main \in BOOLEAN,
         NEW found \in Seq(X), found # << >>
  PROVE  \E i \in DOMAIN found :
           /\ PickPrimary(found) = found[i]
           /\ \A j \in DOMAIN found : PreferredTo(found[i], found[j])
<1>1. Mains(found) \in SUBSET Nat /\ Latest(found) \in SUBSET Nat
  BY DEF Mains, Latest
<1>2. CASE Mains(found) # {}
  <2>1. First(Mains(found)) \in Mains(found)
    BY <1>1, <1>2, FirstIsLeast
  <2> QED
    BY <1>2, <2>1 DEF Mains, PickPrimary, PreferredTo
<1>3. CASE Mains(found) = {}
  <2>1. First(Latest(found)) \in Latest(found)
    BY <1>1, FirstIsLeast, LatestExists
  <2>2. \A j \in DOMAIN found : ~found[j].main
    BY <1>3 DEF Mains
  <2> QED
    BY <1>3, <2>1, <2>2 DEF Latest, PickPrimary, PreferredTo
<1> QED
  BY <1>2, <1>3
=============================================================================
