--------------------------- MODULE FoundContracts ---------------------------
(***************************************************************************)
(* The contracts that one search of a portal brings back, and the choice   *)
(* of the one whose data the service stores.  Both adapters hold the same  *)
(* code.  A contract is a record with at least                             *)
(*                                                                         *)
(*   id     the number under which the portal shows its card               *)
(*   main   its type is "Основной договор"                                 *)
(*   start  its start date, a number, 0 where the date is None             *)
(***************************************************************************)
EXTENDS Naturals, Sequences

\* The members of a list at the given positions, in their order.
Sublist(found, positions) ==
  LET kept[i \in 0..Len(found)] ==
        IF i = 0 THEN << >>
        ELSE IF i \in positions THEN Append(kept[i - 1], found[i])
        ELSE kept[i - 1]
  IN  kept[Len(found)]

\* An id that was seen before is passed over, whatever the record says.
Unseen(found) ==
  {i \in DOMAIN found : \A j \in 1..i - 1 : found[j].id # found[i].id}

FirstOfEachId(found) == Sublist(found, Unseen(found))

\* A list has every id of another one once, with one of its records.
OnePerId(listed, found) ==
  /\ \A i \in DOMAIN listed : \E j \in DOMAIN found : listed[i] = found[j]
  /\ \A j \in DOMAIN found : \E i \in DOMAIN listed : listed[i].id = found[j].id
  /\ \A i, j \in DOMAIN listed : listed[i].id = listed[j].id => i = j

-----------------------------------------------------------------------------
First(positions) == CHOOSE i \in positions : \A j \in positions : i <= j

Mains(found) == {i \in DOMAIN found : found[i].main}

\* datetime.min stands in for a missing date, and max() keeps the first of
\* several maxima.
Latest(found) ==
  {i \in DOMAIN found : \A j \in DOMAIN found : found[j].start <= found[i].start}

PickPrimary(found) ==
  found[First(IF Mains(found) # {} THEN Mains(found) ELSE Latest(found))]

\* One contract is never passed over for another: a main contract goes before
\* the others, and among contracts none of which is main the later one does.
PreferredTo(x, y) ==
  \/ x.main
  \/ ~y.main /\ y.start <= x.start
=============================================================================
