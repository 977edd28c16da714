------------------------ MODULE GoszakupParserProofs ------------------------
(***************************************************************************)
(* For any registry, any numbers and any failures: a call of parse() takes *)
(* the nearest number that has contracts, chooses among all of them, and   *)
(* answers with what the portal publishes.                                 *)
(***************************************************************************)
EXTENDS GoszakupParser, FoundContractsProofs

\* The number in search is the one at the offset; the numbers passed over have
\* nothing, and if NOT_FOUND is answered, none of the numbers has anything.
SearchInv(k) ==
  /\ term[k] = NumberAt(k, offset[k])
  /\ listing[k] # << >> => OnePerId(listing[k], portal.registry[term[k]])
  /\ \A o \in 0..offset[k] - 1 : NothingAt(k, o)
  /\ answer[k].status = "NOT_FOUND" => \A o \in 0..MaxOffset : NothingAt(k, o)

Looked(k, i) ==
  /\ details[k][i].id = listing[k][i].id
  /\ details[k][i].stat \in Published[k] \cup {NoStat}

\* No contract of the list should have been preferred to the one at position i.
Chosen(k, i) ==
  /\ details[k][i].stat = answer[k].stat
  /\ \A j \in DOMAIN details[k] : PreferredTo(details[k][i], details[k][j])

\* The cards looked at belong to the first rows of the list, and until the
\* answer there is a row left.
DetailInv(k) ==
  /\ Len(details[k]) <= Len(listing[k])
  /\ ~Answered(k) /\ listing[k] # << >> => Len(details[k]) < Len(listing[k])
  /\ \A i \in DOMAIN details[k] : Looked(k, i)
  /\ answer[k].status = "DONE" =>
       /\ Len(details[k]) = Len(listing[k])
       /\ \E i \in DOMAIN details[k] : Chosen(k, i)

CallInv(k) == SearchInv(k) /\ DetailInv(k)

IInv == TypeOK /\ \A k \in Calls : CallInv(k)

-----------------------------------------------------------------------------
(* What a step of one call leaves alone.                                   *)

Same(k) ==
  UNCHANGED <<portal, offset[k], term[k], listing[k], details[k], missed[k], answer[k]>>

LEMMA PublishedIsFixed ==
  ASSUME UNCHANGED portal
  PROVE  UNCHANGED Published
  BY DEF Published, ContractsAt, NumberAt

LEMMA NothingAtStays ==
  ASSUME NEW k \in Calls, UNCHANGED portal, missed[k] \subseteq missed'[k],
         NEW o, NothingAt(k, o)
  PROVE  NothingAt(k, o)'
  BY DEF NothingAt, NumberAt

LEMMA SameKeeps ==
  ASSUME NEW k \in Calls, CallInv(k), Same(k)
  PROVE  CallInv(k)'
<1>1. UNCHANGED Published
  BY PublishedIsFixed DEF Same
<1>2. SearchInv(k)'
  BY DEF CallInv, Same, SearchInv, NothingAt, NumberAt
<1>3. DetailInv(k)'
  BY <1>1 DEF CallInv, Same, DetailInv, Looked, Chosen, Answered
<1> QED
  BY <1>2, <1>3 DEF CallInv

\* A step of call k concerns no other call.
LEMMA OthersKeep ==
  ASSUME IInv, NEW k \in Calls,
         Parse(k) \/ Step(k) \/ Failure(k),
         NEW j \in Calls, j # k
  PROVE  CallInv(j)'
<1>1. Same(j)
  BY DEF IInv, TypeOK, Same, Parse, Step, Failure, SearchAnswers, DetailAnswers,
         SearchShowsNothing, DetailShowsPart, RequestFails, NothingListed,
         TakeDetail, Returns
<1> QED
  BY <1>1, SameKeeps DEF IInv

-----------------------------------------------------------------------------
(* Types.                                                                  *)

LEMMA NumberAtType ==
  ASSUME NEW k \in Calls, NEW o \in 0..MaxOffset
  PROVE  NumberAt(k, o) \in Numbers \cup {NoNumber}
  BY GoszakupAssumption DEF NumberAt

LEMMA RegistryType ==
  ASSUME TypeOK, NEW k \in Calls
  PROVE  /\ portal.registry[term[k]] \in Seq(Contract)
         /\ portal.card \in [Ids -> Contract \cup {Missing}]
  BY GoszakupAssumption DEF TypeOK, View

LEMMA NextTermType ==
  ASSUME TypeOK, NEW k \in Calls, HasNext(k)
  PROVE  /\ NextTerm(k) \in Numbers
         /\ NextTerm(k) = NumberAt(k, offset[k] + 1)
         /\ offset[k] + 1 \in 0..MaxOffset
  BY GoszakupAssumption DEF TypeOK, HasNext, NextTerm, NumberAt

\* The row whose card is opened next.
LEMMA NextRowType ==
  ASSUME IInv, NEW k \in Calls, Detailing(k)
  PROVE  /\ Len(details[k]) + 1 \in DOMAIN listing[k]
         /\ Len(details[k]) \in Nat /\ Len(listing[k]) \in Nat
         /\ Len(details[k]) < Len(listing[k])
         /\ NextRow(k) \in Contract
<1>1. listing[k] \in Seq(Contract) /\ details[k] \in Seq(Contract)
  BY DEF IInv, TypeOK
<1>2. Len(details[k]) < Len(listing[k])
  BY DEF IInv, CallInv, DetailInv, Detailing, Answered
<1> QED
  BY <1>1, <1>2 DEF NextRow

LEMMA CardType ==
  ASSUME IInv, NEW k \in Calls, Detailing(k), NEW card \in {CardOrRow(k)} \cup ShownInPart(k)
  PROVE  card \in Contract /\ card.id = NextRow(k).id
<1>1. NextRow(k) \in Contract /\ NextRow(k).id \in Ids
  BY NextRowType DEF Contract
<1> DEFINE shown == portal.card[NextRow(k).id]
<1>2. shown = Missing \/ (shown \in Contract /\ shown.id = NextRow(k).id)
  <2>1. portal \in Views /\ portal.card \in [Ids -> Contract \cup {Missing}]
    BY RegistryType DEF IInv, TypeOK
  <2> QED
    BY <1>1, <2>1, GoszakupAssumption
<1> HIDE DEF shown
<1>3. CASE card = CardOrRow(k)
  BY <1>1, <1>2, <1>3 DEF CardOrRow, shown
<1>4. CASE card \in ShownInPart(k)
  <2>1. CASE shown = Missing
    <3>1. card = [id |-> NextRow(k).id, main |-> FALSE, start |-> 0, stat |-> NoStat]
      BY <1>4, <2>1 DEF ShownInPart, shown
    <3>2. NextRow(k).id \in Ids /\ 0 \in 0..MaxStart /\ NoStat \in StatValue
      BY <1>1, GoszakupAssumption DEF StatValue
    <3> QED
      BY <3>1, <3>2 DEF Contract
  <2>2. CASE shown # Missing
    <3>1. card \in [id : {shown.id}, main : {FALSE, shown.main},
                    start : {0, shown.start}, stat : {NoStat, shown.stat}]
      BY <1>4, <2>2 DEF ShownInPart, shown
    <3>2. /\ shown.id \in Ids /\ shown.main \in BOOLEAN /\ shown.start \in 0..MaxStart
          /\ shown.stat \in StatValue /\ NoStat \in StatValue /\ 0 \in 0..MaxStart
      BY <1>2, <2>2, GoszakupAssumption DEF Contract, StatValue
    <3>3. card.id = shown.id
      BY <3>1
    <3>4. card \in Contract
      BY <3>1, <3>2 DEF Contract
    <3> QED
      BY <1>2, <2>2, <3>3, <3>4
  <2> QED
    BY <2>1, <2>2
<1> QED
  BY <1>3, <1>4

-----------------------------------------------------------------------------
(* The search.                                                             *)

\* A search that listed nothing: its number has nothing, and the call goes on
\* to the next one or gives up.
LEMMA NothingListedKeeps ==
  ASSUME IInv, NEW k \in Calls, Searching(k), NothingListed(k),
         UNCHANGED <<portal, listing, details>>,
         missed[k] \subseteq missed'[k],
         NEW here \in Nat, here = offset[k], NothingAt(k, here)'
  PROVE  /\ CallInv(k)'
         /\ offset' \in [Calls -> 0..MaxOffset]
         /\ term' \in [Calls -> Numbers]
         /\ answer' \in [Calls -> ParseResult \cup {Adapter!NotAsked, Adapter!Asked}]
<1>0. /\ TypeOK /\ CallInv(k)
      /\ offset \in [Calls -> 0..MaxOffset]
      /\ offset[k] \in Nat /\ MaxOffset \in Nat
      /\ listing[k] = << >>
      /\ details[k] \in Seq(Contract) /\ Len(details[k]) <= 0
      /\ term \in [Calls -> Numbers]
      /\ answer \in [Calls -> ParseResult \cup {Adapter!NotAsked, Adapter!Asked}]
      /\ answer[k] = Adapter!Asked
  BY GoszakupAssumption DEF IInv, TypeOK, Searching, CallInv, DetailInv
<1>1. \A o \in 0..offset[k] : NothingAt(k, o)'
  <2>1. ASSUME NEW o \in 0..offset[k] - 1
        PROVE  NothingAt(k, o)'
    BY <1>0, NothingAtStays DEF CallInv, SearchInv
  <2> QED
    BY <1>0, <2>1
<1>2. Len(details[k]) = 0 /\ DOMAIN details[k] = {}
  BY <1>0
<1>3. CASE HasNext(k)
  <2>1. /\ offset' = [offset EXCEPT ![k] = offset[k] + 1]
        /\ term' = [term EXCEPT ![k] = NextTerm(k)]
        /\ answer' = answer
    BY <1>3 DEF NothingListed
  <2>2. /\ NextTerm(k) \in Numbers
        /\ NextTerm(k) = NumberAt(k, offset[k] + 1)
        /\ offset[k] + 1 \in 0..MaxOffset
    BY <1>0, <1>3, NextTermType
  <2>3. SearchInv(k)'
    <3>1. /\ offset'[k] = offset[k] + 1 /\ term'[k] = NextTerm(k)
          /\ answer'[k].status = "ASKED"
          /\ listing'[k] = << >>
      BY <1>0, <2>1 DEF Adapter!Asked
    <3>2. term'[k] = NumberAt(k, offset'[k])
      BY <2>2, <3>1
    <3>3. \A o \in 0..offset'[k] - 1 : NothingAt(k, o)'
      BY <1>0, <1>1, <3>1
    <3> QED
      BY <3>1, <3>2, <3>3 DEF SearchInv, NumberAt
  <2>4. DetailInv(k)'
    BY <1>0, <1>2, <2>1 DEF DetailInv, Adapter!Asked
  <2> QED
    BY <1>0, <2>1, <2>2, <2>3, <2>4 DEF CallInv
<1>4. CASE ~HasNext(k)
  <2>1. /\ answer' = [answer EXCEPT ![k] = [status |-> "NOT_FOUND", stat |-> NoStat]]
        /\ UNCHANGED <<offset, term>>
    BY <1>4 DEF NothingListed, Returns
  <2>2. [status |-> "NOT_FOUND", stat |-> NoStat] \in ParseResult
    BY DEF ParseResult
  <2>3. ASSUME NEW o \in 0..MaxOffset, o > offset[k]
        PROVE  NothingAt(k, o)'
    <3>1. offset[k] + 1 \in 1..MaxOffset /\ o \in 1..MaxOffset /\ o # 0
      BY <1>0, <2>3
    <3>2. Shift[Number[k]][offset[k] + 1] = NoNumber
      BY <1>0, <1>4, <3>1 DEF HasNext, NextTerm
    <3>3. Shift[Number[k]][o] = NoNumber
      BY <3>1, <3>2, GoszakupAssumption
    <3> QED
      BY <3>1, <3>3 DEF NothingAt, NumberAt
  <2>4. \A o \in 0..MaxOffset : NothingAt(k, o)'
    BY <1>0, <1>1, <2>3
  <2>5. SearchInv(k)'
    BY <1>0, <1>1, <2>1, <2>4 DEF CallInv, SearchInv, NumberAt
  <2>6. DetailInv(k)'
    BY <1>0, <1>2, <2>1 DEF DetailInv
  <2> QED
    BY <1>0, <2>1, <2>2, <2>5, <2>6 DEF CallInv
<1> QED
  BY <1>3, <1>4

LEMMA SearchAnswersKeeps ==
  ASSUME IInv, NEW k \in Calls, SearchAnswers(k)
  PROVE  TypeOK' /\ CallInv(k)'
<1>0. /\ TypeOK /\ CallInv(k) /\ Searching(k)
      /\ UNCHANGED <<portal, details, missed, faults>>
      /\ portal.registry[term[k]] \in Seq(Contract)
      /\ answer[k] = Adapter!Asked
  BY RegistryType DEF IInv, SearchAnswers, Searching
<1>1. CASE /\ portal.registry[term[k]] # << >>
           /\ listing' = [listing EXCEPT ![k] = FirstOfEachId(portal.registry[term[k]])]
           /\ UNCHANGED <<offset, term, answer>>
  <2> DEFINE rows == portal.registry[term[k]]
             listed == FirstOfEachId(rows)
  <2>0. listed \in Seq(Contract) /\ OnePerId(listed, rows)
    BY <1>0, EveryIdStaysOnce
  <2>5. listed # << >>
    <3>1. 1 \in DOMAIN rows
      BY <1>0, <1>1, EmptySeq
    <3> HIDE DEF rows, listed
    <3> QED
      BY <2>0, <3>1 DEF OnePerId
  <2>1. TypeOK'
    BY <1>0, <1>1, <2>0 DEF TypeOK
  <2>2. /\ listing'[k] = listed /\ Len(listing'[k]) \in Nat \ {0}
        /\ OnePerId(listing'[k], portal.registry[term[k]])
    BY <1>0, <1>1, <2>0, <2>5, EmptySeq DEF TypeOK
  <2> HIDE DEF listed
  <2>3. SearchInv(k)'
    BY <1>0, <1>1, <2>2, NothingAtStays DEF CallInv, SearchInv, NumberAt, Adapter!Asked
  <2>4. DetailInv(k)'
    <3>1. listing[k] = << >> /\ details[k] \in Seq(Contract) /\ Len(details[k]) <= 0
      BY <1>0 DEF Searching, CallInv, DetailInv, TypeOK
    <3>2. Len(details[k]) = 0 /\ DOMAIN details[k] = {}
      BY <3>1
    <3> QED
      BY <1>0, <1>1, <2>2, <3>2 DEF DetailInv, Adapter!Asked
  <2> QED
    BY <2>1, <2>3, <2>4 DEF CallInv
<1>2. CASE /\ portal.registry[term[k]] = << >>
           /\ NothingListed(k)
           /\ UNCHANGED listing
  <2>1. PICK here \in Nat : here = offset[k]
    BY <1>0 DEF TypeOK
  <2>2. NothingAt(k, here)'
    BY <1>0, <1>2, <2>1 DEF CallInv, SearchInv, NothingAt, NumberAt
  <2>3. /\ CallInv(k)'
        /\ offset' \in [Calls -> 0..MaxOffset]
        /\ term' \in [Calls -> Numbers]
        /\ answer' \in [Calls -> ParseResult \cup {Adapter!NotAsked, Adapter!Asked}]
    BY <1>0, <1>2, <2>1, <2>2, NothingListedKeeps
  <2> QED
    BY <1>0, <1>2, <2>3 DEF TypeOK
<1> QED
  BY <1>1, <1>2 DEF SearchAnswers

LEMMA SearchShowsNothingKeeps ==
  ASSUME IInv, NEW k \in Calls, SearchShowsNothing(k)
  PROVE  TypeOK' /\ CallInv(k)'
<1>0. /\ TypeOK /\ Searching(k) /\ NothingListed(k)
      /\ UNCHANGED <<portal, listing, details>>
      /\ missed' = [missed EXCEPT ![k] = missed[k] \cup {offset[k]}]
  BY DEF IInv, SearchShowsNothing
<1>1. /\ offset[k] \in missed'[k]
      /\ missed[k] \subseteq missed'[k]
      /\ missed' \in [Calls -> SUBSET (0..MaxOffset)]
  BY <1>0 DEF TypeOK
<1>2. faults' \in 0..MaxFaults
  BY GoszakupAssumption DEF IInv, TypeOK, SearchShowsNothing, Fault
<1>3. PICK here \in Nat : here = offset[k]
  BY <1>0 DEF TypeOK
<1>4. NothingAt(k, here)'
  BY <1>1, <1>3 DEF NothingAt
<1>5. /\ CallInv(k)'
      /\ offset' \in [Calls -> 0..MaxOffset]
      /\ term' \in [Calls -> Numbers]
      /\ answer' \in [Calls -> ParseResult \cup {Adapter!NotAsked, Adapter!Asked}]
  BY <1>0, <1>1, <1>3, <1>4, NothingListedKeeps
<1> QED
  BY <1>0, <1>1, <1>2, <1>5 DEF TypeOK

-----------------------------------------------------------------------------
(* The cards.                                                              *)

\* What the portal publishes for the call includes the row whose card is
\* opened, and the card.
LEMMA RowIsPublished ==
  ASSUME IInv, NEW k \in Calls, Detailing(k)
  PROVE  /\ Published[k] # {}
         /\ \A card \in {CardOrRow(k)} \cup ShownInPart(k) :
              card.stat \in Published[k] \cup {NoStat}
<1>0. /\ TypeOK /\ CallInv(k)
      /\ OnePerId(listing[k], portal.registry[term[k]])
      /\ term[k] = NumberAt(k, offset[k])
      /\ term[k] \in Numbers
      /\ offset[k] \in 0..MaxOffset
  BY DEF IInv, CallInv, SearchInv, TypeOK, Detailing
<1>1. term[k] \in {NumberAt(k, o) : o \in 0..MaxOffset} \ {NoNumber}
  BY <1>0, GoszakupAssumption
<1>2. NextRow(k) \in ToSet(portal.registry[term[k]])
  BY <1>0, NextRowType DEF NextRow, ToSet, OnePerId
<1>3. NextRow(k) \in ContractsAt(term[k]) /\ CardOrRow(k) \in ContractsAt(term[k])
  BY <1>2 DEF ContractsAt, CardOrRow
<1>4. \A contract \in ContractsAt(term[k]) : contract.stat \in Published[k]
  BY <1>1 DEF Published
<1>5. ASSUME NEW part \in ShownInPart(k)
      PROVE  part.stat \in {NoStat, CardOrRow(k).stat}
  <2> DEFINE shown == portal.card[NextRow(k).id]
  <2>1. CASE shown = Missing
    BY <1>5, <2>1 DEF ShownInPart
  <2>2. CASE shown # Missing
    <3>1. part \in [id : {shown.id}, main : {FALSE, shown.main},
                    start : {0, shown.start}, stat : {NoStat, shown.stat}]
      BY <1>5, <2>2 DEF ShownInPart
    <3>2. part.stat \in {NoStat, shown.stat}
      BY <3>1
    <3> QED
      BY <2>2, <3>2 DEF CardOrRow
  <2> QED
    BY <2>1, <2>2
<1> QED
  BY <1>3, <1>4, <1>5

LEMMA TakeDetailKeeps ==
  ASSUME IInv, NEW k \in Calls, Detailing(k),
         NEW card \in {CardOrRow(k)} \cup ShownInPart(k),
         TakeDetail(k, card),
         UNCHANGED <<portal, offset, term, listing, missed>>,
         faults' \in 0..MaxFaults
  PROVE  TypeOK' /\ CallInv(k)'
<1> DEFINE cards == Append(details[k], card)
<1>0. /\ TypeOK /\ CallInv(k)
      /\ listing[k] \in Seq(Contract) /\ details[k] \in Seq(Contract)
      /\ answer[k] = Adapter!Asked
      /\ details' = [details EXCEPT ![k] = cards]
      /\ details'[k] = cards
      /\ listing' = listing
  BY DEF IInv, TypeOK, Detailing, TakeDetail
<1>1. /\ card \in Contract
      /\ card.id = listing[k][Len(details[k]) + 1].id
      /\ card.stat \in Published[k] \cup {NoStat}
  BY CardType, RowIsPublished DEF NextRow
<1>2. /\ cards \in Seq(Contract)
      /\ Len(cards) = Len(details[k]) + 1
      /\ DOMAIN cards = 1..Len(cards)
      /\ cards[Len(cards)] = card
      /\ \A i \in DOMAIN details[k] : cards[i] = details[k][i]
      /\ Len(cards) \in Nat \ {0} /\ Len(listing[k]) \in Nat
      /\ Len(cards) <= Len(listing[k])
  BY <1>0, <1>1, NextRowType
<1>3. \A i \in DOMAIN cards : Looked(k, i)'
  <2>1. ASSUME NEW i \in DOMAIN cards
        PROVE  /\ cards[i].id = listing[k][i].id
               /\ cards[i].stat \in Published[k] \cup {NoStat}
    <3>1. CASE i \in DOMAIN details[k]
      BY <1>0, <1>2, <3>1 DEF CallInv, DetailInv, Looked
    <3>2. CASE i = Len(cards)
      BY <1>1, <1>2, <3>2
    <3>3. i \in DOMAIN details[k] \/ i = Len(cards)
      BY <1>0, <1>2
    <3> QED
      BY <3>1, <3>2, <3>3
  <2>2. Published' = Published
    BY PublishedIsFixed
  <2> HIDE DEF cards
  <2> QED
    BY <1>0, <2>1, <2>2 DEF Looked
<1> HIDE DEF cards
<1>4. CASE Len(cards) # Len(listing[k])
  <2>1. answer' = answer
    BY <1>0, <1>4 DEF TakeDetail
  <2>2. TypeOK'
    BY <1>0, <1>2, <2>1 DEF TypeOK
  <2>3. DetailInv(k)'
    BY <1>0, <1>2, <1>3, <1>4, <2>1 DEF DetailInv, Adapter!Asked
  <2>4. SearchInv(k)'
    BY <1>0, <2>1 DEF CallInv, SearchInv, NothingAt, NumberAt
  <2> QED
    BY <2>2, <2>3, <2>4 DEF CallInv
<1>5. CASE Len(cards) = Len(listing[k])
  <2>1. /\ answer' = [answer EXCEPT ![k] =
                        [status |-> "DONE", stat |-> PickPrimary(cards).stat]]
        /\ answer'[k] = [status |-> "DONE", stat |-> PickPrimary(cards).stat]
    BY <1>0, <1>5 DEF TakeDetail, Returns, TypeOK
  <2>2. PICK i \in DOMAIN cards :
          /\ PickPrimary(cards) = cards[i]
          /\ \A j \in DOMAIN cards : PreferredTo(cards[i], cards[j])
    <3>1. \A c \in Contract : c.start \in 0..MaxStart /\ c.main \in BOOLEAN
      BY DEF Contract
    <3>2. cards # << >> /\ MaxStart \in Nat
      BY <1>2, GoszakupAssumption
    <3> QED
      BY <1>2, <3>1, <3>2, PickPrimaryIsBest
  <2>3. cards[i].stat \in StatValue
    <3>1. cards[i] \in Contract
      BY <1>2, <2>2
    <3> QED
      BY <3>1 DEF Contract
  <2>4. [status |-> "DONE", stat |-> PickPrimary(cards).stat] \in ParseResult
    BY <2>2, <2>3 DEF ParseResult
  <2>5. TypeOK'
    BY <1>0, <1>2, <2>1, <2>4 DEF TypeOK
  <2>6. Chosen(k, i)'
    BY <1>0, <2>1, <2>2 DEF Chosen
  <2>7. DetailInv(k)'
    BY <1>0, <1>2, <1>3, <1>5, <2>1, <2>2, <2>6
       DEF DetailInv, Answered, Adapter!Asked, Adapter!NotAsked
  <2>8. SearchInv(k)'
    BY <1>0, <2>1 DEF CallInv, SearchInv, NothingAt, NumberAt
  <2> QED
    BY <2>5, <2>7, <2>8 DEF CallInv
<1> QED
  BY <1>4, <1>5

-----------------------------------------------------------------------------
(* All steps.                                                              *)

LEMMA StepKeeps ==
  ASSUME IInv, NEW k \in Calls, Step(k)
  PROVE  TypeOK' /\ CallInv(k)'
<1>1. CASE SearchAnswers(k)
  BY <1>1, SearchAnswersKeeps
<1>2. CASE DetailAnswers(k)
  <2>1. faults' \in 0..MaxFaults
    BY <1>2 DEF DetailAnswers, IInv, TypeOK
  <2> QED
    BY <1>2, <2>1, TakeDetailKeeps DEF DetailAnswers
<1> QED
  BY <1>1, <1>2 DEF Step

LEMMA FailureKeeps ==
  ASSUME IInv, NEW k \in Calls, Failure(k)
  PROVE  TypeOK' /\ CallInv(k)'
<1>0. ASSUME Fault
      PROVE  faults' \in 0..MaxFaults
  BY <1>0, GoszakupAssumption DEF Fault, IInv, TypeOK
<1>1. CASE SearchShowsNothing(k)
  BY <1>1, SearchShowsNothingKeeps
<1>2. CASE DetailShowsPart(k)
  <2>1. faults' \in 0..MaxFaults
    BY <1>0, <1>2 DEF DetailShowsPart
  <2> QED
    BY <1>2, <2>1, TakeDetailKeeps DEF DetailShowsPart
<1>3. CASE RequestFails(k)
  <2>1. /\ answer' = [answer EXCEPT ![k] = [status |-> "ERROR", stat |-> NoStat]]
        /\ UNCHANGED <<portal, offset, term, listing, details, missed>>
        /\ faults' \in 0..MaxFaults
    BY <1>0, <1>3 DEF RequestFails, Returns
  <2>2. [status |-> "ERROR", stat |-> NoStat] \in ParseResult
    BY DEF ParseResult
  <2>3. TypeOK'
    BY <2>1, <2>2 DEF IInv, TypeOK
  <2>4. answer'[k] = [status |-> "ERROR", stat |-> NoStat]
    BY <2>1 DEF IInv, TypeOK
  <2>5. SearchInv(k)'
    BY <2>1, <2>4 DEF IInv, CallInv, SearchInv, NothingAt, NumberAt
  <2>6. DetailInv(k)'
    <3>1. UNCHANGED Published /\ Answered(k)'
      BY <2>1, <2>4, PublishedIsFixed DEF Answered, Adapter!Asked, Adapter!NotAsked
    <3> QED
      BY <2>1, <2>4, <3>1 DEF IInv, CallInv, DetailInv, Looked
  <2> QED
    BY <2>3, <2>5, <2>6 DEF CallInv
<1> QED
  BY <1>1, <1>2, <1>3 DEF Failure

LEMMA ParseKeeps ==
  ASSUME IInv, NEW k \in Calls, Parse(k)
  PROVE  TypeOK' /\ CallInv(k)'
<1>1. /\ answer' = [answer EXCEPT ![k] = Adapter!Asked]
      /\ UNCHANGED <<portal, offset, term, listing, details, missed, faults>>
      /\ answer[k] = Adapter!NotAsked
  BY DEF Parse
<1>2. TypeOK'
  BY <1>1 DEF IInv, TypeOK
<1>3. answer'[k] = Adapter!Asked
  BY <1>1 DEF IInv, TypeOK
<1>4. SearchInv(k)'
  BY <1>1, <1>3 DEF IInv, CallInv, SearchInv, NothingAt, NumberAt, Adapter!Asked
<1>5. DetailInv(k)'
  <2>1. UNCHANGED Published /\ ~Answered(k)
    BY <1>1, PublishedIsFixed DEF Answered
  <2> QED
    BY <1>1, <1>3, <2>1 DEF IInv, CallInv, DetailInv, Looked, Adapter!Asked
<1> QED
  BY <1>2, <1>4, <1>5 DEF CallInv

LEMMA NextKeeps ==
  ASSUME IInv, [Next]_vars
  PROVE  IInv'
<1>1. ASSUME NEW k \in Calls, Parse(k) \/ Step(k) \/ Failure(k)
      PROVE  IInv'
  <2>1. TypeOK' /\ CallInv(k)'
    BY <1>1, ParseKeeps, StepKeeps, FailureKeeps
  <2>2. \A j \in Calls \ {k} : CallInv(j)'
    BY <1>1, OthersKeep
  <2> QED
    BY <2>1, <2>2 DEF IInv
<1>2. CASE UNCHANGED vars
  <2>1. TypeOK'
    BY <1>2 DEF IInv, TypeOK, vars
  <2>2. \A k \in Calls : Same(k)
    BY <1>2 DEF Same, vars
  <2> QED
    BY <2>1, <2>2, SameKeeps DEF IInv
<1> QED
  BY <1>1, <1>2 DEF Next

LEMMA InitIInv == Init => IInv
<1> SUFFICES ASSUME Init PROVE IInv
  OBVIOUS
<1>1. TypeOK
  BY GoszakupAssumption DEF Init, TypeOK
<1>2. ASSUME NEW k \in Calls
      PROVE  CallInv(k)
  <2>1. SearchInv(k)
    BY GoszakupAssumption DEF Init, SearchInv, NumberAt, Adapter!NotAsked
  <2>2. DetailInv(k)
    BY DEF Init, DetailInv, Adapter!NotAsked
  <2> QED
    BY <2>1, <2>2 DEF CallInv
<1> QED
  BY <1>1, <1>2 DEF IInv

THEOREM Invariance == Spec => []IInv
  BY InitIInv, NextKeeps, PTL DEF Spec

\* Types of all variables.
THEOREM TypeCorrect == Spec => []TypeOK
<1>1. IInv => TypeOK
  BY DEF IInv
<1> QED
  BY <1>1, Invariance, PTL

\* The list has every contract of its number once; a neighbouring number is taken,
\* or NOT_FOUND answered, only if no nearer number, or none at all, has a contract.
THEOREM NearestNumberHolds == Spec => []NearestNumber
<1>1. IInv => NearestNumber
  BY DEF IInv, CallInv, SearchInv, NearestNumber
<1> QED
  BY <1>1, Invariance, PTL

\* The answer is that of a contract of the list to which none of the others
\* should have been preferred, all of them looked at.
THEOREM ChoosesAmongAllHolds == Spec => []ChoosesAmongAll
<1>1. ASSUME IInv, NEW k \in Calls, answer[k].status = "DONE"
      PROVE  /\ [i \in DOMAIN details[k] |-> details[k][i].id]
                  = [i \in DOMAIN listing[k] |-> listing[k][i].id]
             /\ \E x \in ToSet(details[k]) :
                  /\ x.stat = answer[k].stat
                  /\ \A y \in ToSet(details[k]) : PreferredTo(x, y)
  <2>1. /\ listing[k] \in Seq(Contract) /\ details[k] \in Seq(Contract)
        /\ Len(details[k]) = Len(listing[k])
        /\ \A i \in DOMAIN details[k] : Looked(k, i)
        /\ \E i \in DOMAIN details[k] : Chosen(k, i)
    BY <1>1 DEF IInv, TypeOK, CallInv, DetailInv
  <2>2. DOMAIN details[k] = DOMAIN listing[k]
    BY <2>1
  <2>3. [i \in DOMAIN details[k] |-> details[k][i].id]
          = [i \in DOMAIN listing[k] |-> listing[k][i].id]
    BY <2>1, <2>2 DEF Looked
  <2> QED
    BY <2>1, <2>3 DEF Chosen, ToSet
<1>2. IInv => ChoosesAmongAll
  BY <1>1 DEF ChoosesAmongAll
<1> QED
  BY <1>2, Invariance, PTL

-----------------------------------------------------------------------------
(* parse() implements the contract of ParserAdapter.                       *)

LEMMA SameValues == Adapter!StatValue = StatValue /\ Adapter!ParseResult = ParseResult
  BY DEF Adapter!StatValue, StatValue, Adapter!ParseResult, ParseResult

LEMMA InitMaps == Init => Adapter!Init
<1> SUFFICES ASSUME Init PROVE Adapter!Init
  OBVIOUS
<1>1. portal \in View
  BY GoszakupAssumption DEF Init
<1>2. ASSUME NEW n \in Numbers, NEW contract \in ContractsAt(n)
      PROVE  contract.stat \in StatValue
  <2>1. /\ portal.registry[n] \in Seq(Contract)
        /\ portal.card \in [Ids -> Contract \cup {Missing}]
    BY <1>1 DEF View
  <2>2. ToSet(portal.registry[n]) \subseteq Contract
    BY <2>1 DEF ToSet
  <2>3. \A row \in ToSet(portal.registry[n]) : row.id \in Ids
    BY <2>2 DEF Contract
  <2>4. contract \in Contract
    BY <1>2, <2>1, <2>2, <2>3 DEF ContractsAt
  <2> QED
    BY <2>4 DEF Contract
<1>3. ASSUME NEW k \in Calls
      PROVE  Published[k] \in SUBSET StatValue
  <2>1. {NumberAt(k, o) : o \in 0..MaxOffset} \ {NoNumber} \subseteq Numbers
    BY NumberAtType
  <2> QED
    BY <1>2, <2>1 DEF Published
<1>4. Published \in [Calls -> SUBSET StatValue]
  BY <1>3 DEF Published
<1> QED
  BY <1>4, SameValues DEF Init, Adapter!Init

\* A call that gives up answers NOT_FOUND, and one that goes on says nothing.
LEMMA NothingListedMaps ==
  ASSUME IInv, NEW k \in Calls, Searching(k), NothingListed(k), UNCHANGED portal
  PROVE  [Adapter!Next]_(Adapter!contract)
<1>1. UNCHANGED Published
  BY PublishedIsFixed
<1>2. CASE UNCHANGED answer
  BY <1>1, <1>2 DEF Adapter!contract
<1>3. CASE Returns(k, "NOT_FOUND", NoStat)
  <2>1. Adapter!Answer(k, [status |-> "NOT_FOUND", stat |-> NoStat])
    BY <1>1, <1>3 DEF Searching, Returns, Adapter!Answer
  <2>2. [status |-> "NOT_FOUND", stat |-> NoStat] \in ParseResult
    BY DEF ParseResult
  <2> QED
    BY <2>1, <2>2, SameValues DEF Adapter!Next
<1> QED
  BY <1>2, <1>3 DEF NothingListed

LEMMA TakeDetailMaps ==
  ASSUME IInv, NEW k \in Calls, Detailing(k),
         NEW card \in {CardOrRow(k)} \cup ShownInPart(k),
         TakeDetail(k, card),
         UNCHANGED <<portal, offset, term, listing, missed>>,
         faults' \in 0..MaxFaults
  PROVE  [Adapter!Next]_(Adapter!contract)
<1>1. UNCHANGED Published
  BY PublishedIsFixed
<1>2. CASE UNCHANGED answer
  BY <1>1, <1>2 DEF Adapter!contract
<1>3. CASE Len(details'[k]) = Len(listing[k])
  <2>1. PICK res : /\ res = [status |-> "DONE", stat |-> PickPrimary(details'[k]).stat]
                   /\ answer' = [answer EXCEPT ![k] = res]
    BY <1>3 DEF TakeDetail, Returns
  <2>2. answer'[k] = res /\ TypeOK' /\ CallInv(k)'
    BY <2>1, TakeDetailKeeps DEF IInv, TypeOK
  <2>3. PICK i \in DOMAIN details'[k] : Looked(k, i)' /\ Chosen(k, i)'
    BY <2>1, <2>2 DEF CallInv, DetailInv
  <2>4. res.stat \in Published[k] \cup {NoStat}
    BY <1>1, <2>2, <2>3 DEF Looked, Chosen
  <2>5. Published[k] # {}
    BY RowIsPublished
  <2>6. Adapter!Answer(k, res)
    BY <1>1, <2>1, <2>4, <2>5 DEF Detailing, Adapter!Answer
  <2>7. res \in ParseResult
    BY <2>1, <2>2 DEF TypeOK, Adapter!Asked, Adapter!NotAsked
  <2> QED
    BY <2>6, <2>7, SameValues DEF Adapter!Next
<1> QED
  BY <1>2, <1>3 DEF TakeDetail

LEMMA NextMaps ==
  ASSUME IInv, [Next]_vars
  PROVE  [Adapter!Next]_(Adapter!contract)
<1>0. ASSUME Fault
      PROVE  faults' \in 0..MaxFaults
  BY <1>0, GoszakupAssumption DEF Fault, IInv, TypeOK
<1>1. CASE UNCHANGED vars
  BY <1>1, PublishedIsFixed DEF vars, Adapter!contract
<1>2. ASSUME NEW k \in Calls, Parse(k)
      PROVE  [Adapter!Next]_(Adapter!contract)
  <2>1. Adapter!Ask(k)
    BY <1>2, PublishedIsFixed DEF Parse, Adapter!Ask
  <2> QED
    BY <2>1 DEF Adapter!Next
<1>3. ASSUME NEW k \in Calls, SearchAnswers(k) \/ SearchShowsNothing(k)
      PROVE  [Adapter!Next]_(Adapter!contract)
  <2>1. CASE NothingListed(k)
    BY <1>3, <2>1, NothingListedMaps DEF SearchAnswers, SearchShowsNothing
  <2>2. CASE UNCHANGED <<portal, answer>>
    BY <2>2, PublishedIsFixed DEF Adapter!contract
  <2> QED
    BY <1>3, <2>1, <2>2 DEF SearchAnswers, SearchShowsNothing
<1>4. ASSUME NEW k \in Calls, DetailAnswers(k)
      PROVE  [Adapter!Next]_(Adapter!contract)
  <2>1. faults' \in 0..MaxFaults
    BY <1>4 DEF DetailAnswers, IInv, TypeOK
  <2> QED
    BY <1>4, <2>1, TakeDetailMaps DEF DetailAnswers
<1>5. ASSUME NEW k \in Calls, DetailShowsPart(k)
      PROVE  [Adapter!Next]_(Adapter!contract)
  <2>1. faults' \in 0..MaxFaults
    BY <1>0, <1>5 DEF DetailShowsPart
  <2> QED
    BY <1>5, <2>1, TakeDetailMaps DEF DetailShowsPart
<1>6. ASSUME NEW k \in Calls, RequestFails(k)
      PROVE  [Adapter!Next]_(Adapter!contract)
  <2>1. Adapter!Answer(k, [status |-> "ERROR", stat |-> NoStat])
    BY <1>6, PublishedIsFixed
       DEF RequestFails, Searching, Detailing, Returns, Adapter!Answer
  <2>2. [status |-> "ERROR", stat |-> NoStat] \in ParseResult
    BY DEF ParseResult
  <2> QED
    BY <2>1, <2>2, SameValues DEF Adapter!Next
<1> QED
  BY <1>1, <1>2, <1>3, <1>4, <1>5, <1>6 DEF Next, Step, Failure

\* parse() is answered once, and DONE only for a contract of the portal, with a
\* status that the portal publishes for it or with none.
THEOREM KeepsContractHolds == Spec => KeepsContract
<1>1. IInv /\ [Next]_vars => [Adapter!Next]_(Adapter!contract)
  BY NextMaps
<1> QED
  BY <1>1, InitMaps, Invariance, PTL DEF Spec, KeepsContract, Adapter!Spec

=============================================================================
