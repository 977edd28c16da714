--------------------------- MODULE GoszakupParser ---------------------------
(***************************************************************************)
(* app/parsers/goszakup_parser.py: the adapter for goszakup.gov.kz, which  *)
(* serves HTML.  A call of parse() searches the registry for its number    *)
(* and, as long as that finds nothing, for the numbers whose last segment  *)
(* is 1, 2 and 3 higher; then it opens the card of every contract that the *)
(* successful search has listed and chooses one of them.  Every request is *)
(* an await; calls share the HTTP client and nothing else.                 *)
(***************************************************************************)
EXTENDS ParseDto, FoundContracts, SequencesExt

CONSTANTS
  Calls,
  Numbers,    \* contract numbers
  Number,     \* the number that each call looks for
  Shift,      \* _shift_last_segment, see ContractNumber: Shift[n][offset]
  NoNumber,   \* its None, for a number that does not end in "/<digits>"
  MaxOffset,  \* _LAST_SEGMENT_MAX_OFFSET
  Ids,        \* contract ids
  MaxStart,   \* bound: dates are 1..MaxStart, and 0 for None
  Views,      \* what the portal may show
  Missing,    \* a card that reads "Договор не найден"
  MaxFaults   \* bound: failed requests and pages without the expected table

\* The fields that rows of the registry and cards have in common.
Contract == [id : Ids, main : BOOLEAN, start : 0..MaxStart, stat : StatValue]

\* The registry's rows for a number, and the card of a contract.
View == [registry : [Numbers -> Seq(Contract)], card : [Ids -> Contract \cup {Missing}]]

\* Whether a number has a last segment to shift does not depend on the offset;
\* the card of an id carries this id.
ASSUME GoszakupAssumption ==
  /\ Number \in [Calls -> Numbers]
  /\ NoNumber \notin Numbers
  /\ MaxOffset \in Nat
  /\ Shift \in [Numbers -> [1..MaxOffset -> Numbers \cup {NoNumber}]]
  /\ \A n \in Numbers, o, p \in 1..MaxOffset :
       Shift[n][o] = NoNumber => Shift[n][p] = NoNumber
  /\ MaxStart \in Nat
  /\ Missing \notin Contract
  /\ Views \subseteq View
  /\ \A view \in Views, id \in Ids :
       view.card[id] # Missing => view.card[id].id = id
  /\ MaxFaults \in Nat

VARIABLES
  portal,   \* the view of the portal while the calls run
  offset,   \* the offset of the search that each call is making
  term,     \* search_term of each call: the number it is searching
  listing,  \* listing_rows of each call
  details,  \* the contracts it has looked at
  missed,   \* history: the offsets whose search showed no table though there
            \* are rows
  answer,   \* the state of each call, see ParserAdapter
  faults

vars == <<portal, offset, term, listing, details, missed, answer, faults>>

\* The number searched at an offset, NoNumber if there is none.
NumberAt(k, o) == IF o = 0 THEN Number[k] ELSE Shift[Number[k]][o]

\* What the portal has under a number: its rows and their cards.
ContractsAt(number) ==
  LET rows == ToSet(portal.registry[number]) IN
  rows \cup ({portal.card[row.id] : row \in rows} \ {Missing})

Published ==
  [k \in Calls |->
     {contract.stat :
        contract \in UNION {ContractsAt(n) :
                              n \in {NumberAt(k, o) : o \in 0..MaxOffset} \ {NoNumber}}}]

Adapter == INSTANCE ParserAdapter WITH published <- Published

Answered(k) == answer[k] \notin {Adapter!NotAsked, Adapter!Asked}

Searching(k) == answer[k] = Adapter!Asked /\ listing[k] = << >>
Detailing(k) == answer[k] = Adapter!Asked /\ listing[k] # << >>

-----------------------------------------------------------------------------
Init ==
  /\ portal \in Views
  /\ offset = [k \in Calls |-> 0]
  /\ term = Number
  /\ listing = [k \in Calls |-> << >>]
  /\ details = [k \in Calls |-> << >>]
  /\ missed = [k \in Calls |-> {}]
  /\ answer = [k \in Calls |-> Adapter!NotAsked]
  /\ faults = 0

Returns(k, status, stat) ==
  answer' = [answer EXCEPT ![k] = [status |-> status, stat |-> stat]]

Fault == faults < MaxFaults /\ faults' = faults + 1

Parse(k) ==
  /\ answer[k] = Adapter!NotAsked
  /\ answer' = [answer EXCEPT ![k] = Adapter!Asked]
  /\ UNCHANGED <<portal, offset, term, listing, details, missed, faults>>

-----------------------------------------------------------------------------
(* _search(): the loop over the offsets                                    *)

\* Mutant: shifts the number of the previous search.
NextTermCompounded(k) == Shift[term[k]][offset[k] + 1]

\* Every offset is added to the number that was asked for.
NextTerm(k) == Shift[Number[k]][offset[k] + 1]

\* Mutant: the loop gives up one offset early.
HasNextEarly(k) == offset[k] + 1 < MaxOffset /\ NextTerm(k) # NoNumber

\* Mutant: no test for None.
HasNextUntested(k) == offset[k] < MaxOffset

HasNext(k) == offset[k] < MaxOffset /\ NextTerm(k) # NoNumber

\* Mutant: the same number again.
NothingListedAgain(k) ==
  \/ /\ ~HasNext(k)
     /\ Returns(k, "NOT_FOUND", NoStat)
     /\ UNCHANGED <<offset, term>>
  \/ /\ HasNext(k)
     /\ UNCHANGED <<offset, term, answer>>

\* On to the next offset, or NOT_FOUND.
NothingListed(k) ==
  \/ /\ ~HasNext(k)
     /\ Returns(k, "NOT_FOUND", NoStat)
     /\ UNCHANGED <<offset, term>>
  \/ /\ HasNext(k)
     /\ offset' = [offset EXCEPT ![k] = @ + 1]
     /\ term' = [term EXCEPT ![k] = NextTerm(k)]
     /\ UNCHANGED answer

\* A row whose id the page has shown before is passed over.
SearchAnswers(k) ==
  LET rows == portal.registry[term[k]] IN
  /\ Searching(k)
  /\ \/ /\ rows # << >>
        /\ listing' = [listing EXCEPT ![k] = FirstOfEachId(rows)]
        /\ UNCHANGED <<offset, term, answer>>
     \/ /\ rows = << >>
        /\ NothingListed(k)
        /\ UNCHANGED listing
  /\ UNCHANGED <<portal, details, missed, faults>>

\* An answer 200 without the table "search-result", or whose rows lack a
\* number under "#", counts as an empty list.
SearchShowsNothing(k) ==
  /\ Searching(k)
  /\ portal.registry[term[k]] # << >>
  /\ Fault
  /\ NothingListed(k)
  /\ missed' = [missed EXCEPT ![k] = @ \cup {offset[k]}]
  /\ UNCHANGED <<portal, listing, details>>

-----------------------------------------------------------------------------
(* _fetch_detail() for every row, then _pick_primary()                     *)

NextRow(k) == listing[k][Len(details[k]) + 1]

\* Where there is no card the row of the registry stands in for it.
CardOrRow(k) ==
  LET card == portal.card[NextRow(k).id] IN
  IF card = Missing THEN NextRow(k) ELSE card

\* A page that lacks some labels, or all of them: these fields are None.  Only a
\* page without the marker and without any label can stand in for a missing card.
ShownInPart(k) ==
  LET card == portal.card[NextRow(k).id] IN
  IF card = Missing
  THEN {[id |-> NextRow(k).id, main |-> FALSE, start |-> 0, stat |-> NoStat]}
  ELSE [id : {card.id}, main : {FALSE, card.main}, start : {0, card.start},
        stat : {NoStat, card.stat}]

\* Mutant: returns with the first card.
TakeDetailFirst(k, card) ==
  /\ details' = [details EXCEPT ![k] = Append(@, card)]
  /\ Returns(k, "DONE", card.stat)

TakeDetail(k, card) ==
  /\ details' = [details EXCEPT ![k] = Append(@, card)]
  /\ IF Len(details'[k]) = Len(listing[k])
     THEN Returns(k, "DONE", PickPrimary(details'[k]).stat)
     ELSE UNCHANGED answer

DetailAnswers(k) ==
  /\ Detailing(k)
  /\ TakeDetail(k, CardOrRow(k))
  /\ UNCHANGED <<portal, offset, term, listing, missed, faults>>

DetailShowsPart(k) ==
  /\ Detailing(k)
  /\ Fault
  /\ \E part \in ShownInPart(k) : TakeDetail(k, part)
  /\ UNCHANGED <<portal, offset, term, listing, missed>>

\* Whatever had been found, one failed request makes the whole call an ERROR.
\* Exceptions other than HTTPError leave parse(), and the orchestrator makes
\* the same ERROR of them.
RequestFails(k) ==
  /\ Searching(k) \/ Detailing(k)
  /\ Fault
  /\ Returns(k, "ERROR", NoStat)
  /\ UNCHANGED <<portal, offset, term, listing, details, missed>>

-----------------------------------------------------------------------------
Step(k) == SearchAnswers(k) \/ DetailAnswers(k)

Failure(k) == SearchShowsNothing(k) \/ DetailShowsPart(k) \/ RequestFails(k)

Next == \E k \in Calls : Parse(k) \/ Step(k) \/ Failure(k)

\* The client's timeout ends every request.
Fairness == \A k \in Calls : WF_vars(Step(k))

Spec == Init /\ [][Next]_vars /\ Fairness

-----------------------------------------------------------------------------
(* Properties.                                                             *)

\* Types of all variables.
TypeOK ==
  /\ portal \in Views
  /\ offset \in [Calls -> 0..MaxOffset]
  /\ term \in [Calls -> Numbers]
  /\ listing \in [Calls -> Seq(Contract)]
  /\ details \in [Calls -> Seq(Contract)]
  /\ missed \in [Calls -> SUBSET (0..MaxOffset)]
  /\ answer \in [Calls -> ParseResult \cup {Adapter!NotAsked, Adapter!Asked}]
  /\ faults \in 0..MaxFaults

\* No contract of the portal under the number at an offset, as far as the
\* pages that were served can tell.
NothingAt(k, o) ==
  NumberAt(k, o) = NoNumber \/ portal.registry[NumberAt(k, o)] = << >>
    \/ o \in missed[k]

\* The contracts that are listed are those of the number at the offset, each of
\* them once; they are a neighbour's only if no nearer number has any; and
\* NOT_FOUND is answered only if none of the four has.
NearestNumber ==
  \A k \in Calls :
    /\ listing[k] # << >> =>
         /\ OnePerId(listing[k], portal.registry[NumberAt(k, offset[k])])
         /\ \A o \in 0..offset[k] - 1 : NothingAt(k, o)
    /\ answer[k].status = "NOT_FOUND" => \A o \in 0..MaxOffset : NothingAt(k, o)

\* The status answered is that of a contract of the list to which no other
\* contract of the list should have been preferred, all of them looked at.
ChoosesAmongAll ==
  \A k \in Calls :
    answer[k].status = "DONE" =>
      /\ [i \in DOMAIN details[k] |-> details[k][i].id]
           = [i \in DOMAIN listing[k] |-> listing[k][i].id]
      /\ \E x \in ToSet(details[k]) :
           /\ x.stat = answer[k].stat
           /\ \A y \in ToSet(details[k]) : PreferredTo(x, y)

\* parse() keeps the promise of its base class, as far as the numbers with the
\* last segment up to MaxOffset higher count as the contract's own.
KeepsContract == Adapter!Spec

\* Every call of parse() comes to its end.
ParseReturns == \A k \in Calls : answer[k] = Adapter!Asked ~> Answered(k)
=============================================================================
