--------------------------- MODULE LoopInduction ---------------------------
(***************************************************************************)
(* Induction for loops over the members of a list.  The induction theorems *)
(* of the library are about any predicate P(_) and any step Def(_, _).     *)
(* Here the predicate is a set of numbers and the step is a function, so   *)
(* that a proof can apply the theorems to a loop of its own by naming the  *)
(* two.  Both rest on the fact that the natural numbers are well ordered.  *)
(***************************************************************************)
EXTENDS Integers, Sequences, WellFoundedInduction, TLAPS

LEMMA LeastExists ==
  ASSUME NEW T, T \subseteq Nat, T # {}
  PROVE  \E m \in T : \A n \in T : m <= n
<1>1. PICK m \in T : \A n \in T : ~(<<n, m>> \in OpToRel(<, Nat))
  BY WFMin, NatLessThanWellFounded, Zenon
<1>2. \A n \in T : ~(n < m)
  BY <1>1, Zenon DEF OpToRel
<1> QED
  BY <1>2

\* What holds before the loop and is kept by its n passes holds all along.
LEMMA LoopInvariant ==
  ASSUME NEW n \in Nat, NEW S, 0 \in S,
         \A i \in 1..n : i - 1 \in S => i \in S
  PROVE  \A i \in 0..n : i \in S
<1> DEFINE T == {i \in 0..n : i \notin S}
<1> SUFFICES ASSUME T # {} PROVE FALSE
  OBVIOUS
<1>1. T \subseteq Nat
  OBVIOUS
<1>2. PICK m \in T : \A i \in T : m <= i
  BY <1>1, LeastExists
<1>3. m \in 1..n
  BY <1>2
<1>4. m - 1 \notin T
  BY <1>2, <1>3
<1>5. m - 1 \in S
  BY <1>3, <1>4
<1> QED
  BY <1>2, <1>3, <1>5

\* A loop variable has the type that its passes keep.
LEMMA LoopTyped ==
  ASSUME NEW n \in Nat, NEW V, NEW values,
         values = [i \in 0..n |-> values[i]],
         values[0] \in V,
         \A i \in 1..n : values[i - 1] \in V => values[i] \in V
  PROVE  values \in [0..n -> V]
<1> DEFINE Typed == {i \in 0..n : values[i] \in V}
<1>1. 0 \in Typed /\ \A i \in 1..n : i - 1 \in Typed => i \in Typed
  OBVIOUS
<1> HIDE DEF Typed
<1>2. \A i \in 0..n : i \in Typed
  BY <1>1, LoopInvariant, Zenon
<1>3. \A i \in 0..n : values[i] \in V
  BY <1>2 DEF Typed
<1> QED
  BY <1>3

\* The values of a loop variable that starts as base and becomes step[i][v] in
\* the i-th pass.
IsLoop(values, n, base, step) ==
  /\ DOMAIN values = 0..n
  /\ values[0] = base
  /\ \A i \in 1..n : values[i] = step[i][values[i - 1]]

\* A loop has values in every pass, of the type that its passes keep.
LEMMA LoopExists ==
  ASSUME NEW n \in Nat, NEW V, NEW base \in V,
         NEW step \in [1..n -> [V -> V]]
  PROVE  \E values \in [0..n -> V] : IsLoop(values, n, base, step)
<1> DEFINE S == {m \in Nat : \E values \in [0..m -> V] : IsLoop(values, m, base, step)}
<1>1. 0 \in S
  <2>1. [i \in 0..0 |-> base] \in [0..0 -> V]
    OBVIOUS
  <2>2. IsLoop([i \in 0..0 |-> base], 0, base, step)
    BY DEF IsLoop
  <2> QED
    BY <2>1, <2>2
<1>2. ASSUME NEW m \in 1..n, m - 1 \in S
      PROVE  m \in S
  <2>1. PICK before \in [0..(m - 1) -> V] : IsLoop(before, m - 1, base, step)
    BY <1>2
  <2> DEFINE after == [i \in 0..m |-> IF i = m THEN step[m][before[m - 1]] ELSE before[i]]
  <2>2. m - 1 \in 0..(m - 1) /\ before[m - 1] \in V
    OBVIOUS
  <2>3. step[m][before[m - 1]] \in V
    BY <2>2
  <2>4. after \in [0..m -> V]
    <3>1. ASSUME NEW i \in 0..m
          PROVE  after[i] \in V
      <4>1. i = m \/ i \in 0..(m - 1)
        OBVIOUS
      <4> QED
        BY <2>3, <4>1
    <3> HIDE DEF after
    <3>2. after = [i \in 0..m |-> after[i]]
      BY DEF after
    <3> QED
      BY <3>1, <3>2
  <2>5. after[0] = base
    BY <2>1 DEF IsLoop
  <2>6. ASSUME NEW i \in 1..m
        PROVE  after[i] = step[i][after[i - 1]]
    <3>1. CASE i = m
      BY <3>1
    <3>2. CASE i # m
      BY <2>1, <3>2 DEF IsLoop
    <3> QED
      BY <3>1, <3>2
  <2>7. IsLoop(after, m, base, step)
    BY <2>4, <2>5, <2>6 DEF IsLoop
  <2> HIDE DEF after
  <2>8. m \in Nat
    OBVIOUS
  <2> QED
    BY <2>4, <2>7, <2>8
<1> HIDE DEF S
<1>3. \A i \in 1..n : i - 1 \in S => i \in S
  BY <1>2
<1>4. \A i \in 0..n : i \in S
  BY <1>1, <1>3, LoopInvariant, Zenon
<1>5. n \in S
  BY <1>4
<1> QED
  BY <1>5 DEF S
=============================================================================
