--------------------------- MODULE MCSamrukParser ---------------------------
(***************************************************************************)
(* Values of the constants of SamrukParser for the model checker.          *)
(***************************************************************************)
EXTENDS SamrukParser

CONSTANTS k1, k2, expired, executed

TwoStatuses == <<"SIGNED", "EXECUTED">>

\* A search for "1/25/3" also shows "1/25/31", of which it is a prefix.
TwoNumbers == {"1/25/3", "1/25/31"}
NumberOf   == [k \in Calls |-> IF k = k1 THEN "1/25/3" ELSE "1/25/31"]

Undated == [id |-> 1, number |-> "1/25/3",  main |-> FALSE, start |-> 0]
Extra   == [id |-> 2, number |-> "1/25/3",  main |-> FALSE, start |-> 2]
Main    == [id |-> 1, number |-> "1/25/3",  main |-> TRUE,  start |-> 1]
Other   == [id |-> 3, number |-> "1/25/31", main |-> TRUE,  start |-> 2]

BadgeOf == [id \in 1..3 |-> IF id = 3 THEN executed ELSE expired]

Shows(signed, done, other) ==
  [k \in Calls |-> IF k = k1 THEN <<signed, done>> ELSE <<other, << >> >>]

\* Either the main contract is under the second status, where its id is the one
\* that a card of the first status has; or the portal has nothing with the
\* number of the first call.
TwoViews ==
  { Shows(<<Undated, Other>>, <<Other, Extra, Main>>, << >>),
    Shows(<<Other>>, << >>, <<Other>>) }
=============================================================================
