-------------------------- MODULE MCGoszakupParser --------------------------
(***************************************************************************)
(* Values of the constants of GoszakupParser for the model checker.        *)
(***************************************************************************)
EXTENDS GoszakupParser

CONSTANTS k1, k2, valid, ended, broken

\* 0 to 6 stand for numbers x/00 to x/06, and 7 for one that does not end in
\* digits.  No call asks for 4, 5 or 6.
NumberOf == [k \in Calls |-> IF k = k1 THEN 0 ELSE 7]
ShiftOf  ==
  [n \in Numbers |-> [o \in 1..MaxOffset |-> IF n <= 3 THEN n + o ELSE NoNumber]]

Row(id, main, start, stat) ==
  [id |-> id, main |-> main, start |-> start, stat |-> stat]

\* The card of 1 differs from its row, the others agree; 3 has no card, and a
\* registry may list it a second time, with another type.
Amendment == Row(1, FALSE, 2, valid)
Main      == Row(2, TRUE, 1, ended)
Undated   == Row(3, FALSE, 0, broken)
Repeated  == Row(3, TRUE, 2, ended)

Card ==
  [id \in Ids |-> CASE id = 1 -> Row(1, FALSE, 1, NoStat)
                    [] id = 2 -> Main
                    [] id = 3 -> Missing]

Registry(zero, two, three, six) ==
  [n \in Numbers |-> CASE n = 0 -> zero
                       [] n = 2 -> two
                       [] n = 3 -> three
                       [] n = 6 -> six
                       [] n = 7 -> <<Amendment>>
                       [] OTHER -> << >>]

\* The number itself has contracts, one of them twice; a neighbour has, and
\* another further on; only the last neighbour has; none of the four has.
FourViews ==
  { [registry |-> r, card |-> Card] :
      r \in { Registry(<<Amendment, Undated, Repeated>>, <<Main>>, << >>, << >>),
              Registry(<< >>, <<Amendment, Main, Undated>>, <<Undated>>, << >>),
              Registry(<< >>, << >>, <<Undated, Amendment>>, << >>),
              Registry(<< >>, << >>, << >>, <<Main>>) } }
=============================================================================
