---------------------------- MODULE SamrukParser ----------------------------
(***************************************************************************)
(* app/parsers/samruk_parser.py: the adapter for zakup.sk.kz, a single     *)
(* page application that is read with a headless browser.                  *)
(*                                                                         *)
(* One SamrukParser object serves all runs of the process, so calls of     *)
(* parse() overlap.  A call searches the portal once per contract status,  *)
(* all searches in parallel, and then opens the pop-up card of the one     *)
(* contract it has chosen.  Every search, and the pop-up, is a page of its *)
(* own in a context of its own of the one browser, which whoever comes     *)
(* first starts under a lock.  Such a page is a worker here: <<k, l>> is   *)
(* the search for the l-th status in call k, and <<k, 0>> its pop-up.  A   *)
(* step is what a worker does from one await to the next.                  *)
(***************************************************************************)
EXTENDS ParseDto, FoundContracts, SequencesExt

CONSTANTS
  Calls,
  Number,         \* the normalised contract number that each call looks for
  Statuses,       \* _ALL_STATUSES, a sequence
  Ids, Numbers,   \* contract ids, and normalised contract numbers
  MaxStart,       \* bound: start dates are 1..MaxStart, and 0 for None
  Badge,          \* the status badge in the pop-up of each contract
  Views,          \* what the portal may show: the cards of every search
  NoCard, Nobody,
  NavMaxRetries,  \* _NAV_MAX_RETRIES
  MaxFaults       \* bound: failures of the browser, the network or a page

Card == [id : Ids, number : Numbers, main : BOOLEAN, start : 0..MaxStart]

Searches == DOMAIN Statuses
Workers  == Calls \X ({0} \cup Searches)
PopUp(k) == <<k, 0>>

ASSUME SamrukAssumption ==
  /\ Number \in [Calls -> Numbers]
  /\ Statuses \in Seq(STRING)
  /\ MaxStart \in Nat
  /\ Badge \in [Ids -> Stats]
  /\ Views \subseteq [Calls -> [Searches -> Seq(Card)]]
  /\ NoCard \notin Card
  /\ Nobody \notin Workers
  /\ NavMaxRetries \in Nat \ {0}
  /\ MaxFaults \in Nat

VARIABLES
  portal,    \* the view of the portal while the calls run
  browser,   \* self._browser: "none", "up", or a handle whose browser is "dead"
  launched,  \* history: browsers launched
  drivers,   \* Playwright drivers running
  lock,      \* the worker inside "async with self._lock", or Nobody
  pc, tries, \* where each worker is, and its failed navigations
  found,     \* the cards that each search has brought back
  contexts,  \* the workers whose browser context is open
  primary,   \* the chosen card of each call, or NoCard
  answer,    \* the state of each call, see ParserAdapter
  faults

vars == <<portal, browser, launched, drivers, lock, pc, tries, found,
          contexts, primary, answer, faults>>

PC == {"idle", "ensure", "wait", "start", "launch", "context", "page",
       "close", "unwind", "done", "failed"}

AtRest == {"idle", "done", "failed"}

\* Mutant: every card of the result list, as the portal matches prefixes.
ExactOrPrefix(k, cards, read) == Sublist(cards, read)

\* Mutant: stops at the first card with another number.
ExactUntilOther(k, cards, read) ==
  Sublist(cards, {i \in read : \A j \in 1..i : cards[j].number = Number[k]})

\* The cards with the number of call k among those that are read of a list.
Exact(k, cards, read) == Sublist(cards, {i \in read : cards[i].number = Number[k]})

\* What the portal has under the number of call k.
Contracts(k) ==
  {card \in UNION {ToSet(portal[k][l]) : l \in Searches} : card.number = Number[k]}

Published == [k \in Calls |-> {Badge[card.id] : card \in Contracts(k)}]

Adapter == INSTANCE ParserAdapter WITH published <- Published

Answered(k) == answer[k] \notin {Adapter!NotAsked, Adapter!Asked}

-----------------------------------------------------------------------------
Init ==
  /\ portal \in Views
  /\ browser = "none" /\ launched = 0 /\ drivers = 0 /\ lock = Nobody
  /\ pc = [w \in Workers |-> "idle"]
  /\ tries = [w \in Workers |-> 0]
  /\ found = [w \in Workers |-> << >>]
  /\ contexts = {}
  /\ primary = [k \in Calls |-> NoCard]
  /\ answer = [k \in Calls |-> Adapter!NotAsked]
  /\ faults = 0

-----------------------------------------------------------------------------
(* _ensure_browser and _new_context                                        *)

shared == <<browser, launched, drivers, lock>>
local  == <<tries, found, contexts>>
calls  == <<portal, primary, answer>>

Move(w, from, to) == pc[w] = from /\ pc' = [pc EXCEPT ![w] = to]

\* The test outside the lock, and the lock if nobody has it.  A worker that
\* comes between a release and the wake-up of the next waiter may overtake it.
EnsureBrowser(w) ==
  /\ \/ /\ browser # "none"
        /\ Move(w, "ensure", "context")
        /\ UNCHANGED lock
     \/ /\ browser = "none" /\ lock = Nobody
        /\ Move(w, "ensure", "start")
        /\ lock' = w
     \/ /\ browser = "none" /\ lock # Nobody
        /\ Move(w, "ensure", "wait")
        /\ UNCHANGED lock
  /\ UNCHANGED <<browser, launched, drivers, local, calls, faults>>

\* Mutant: no second test under the lock.
AcquireLockUntested(w) ==
  /\ lock = Nobody
  /\ Move(w, "wait", "start")
  /\ lock' = w
  /\ UNCHANGED <<browser, launched, drivers, local, calls, faults>>

\* The second test is made under the lock; without an await the lock is free
\* again in the same step.
AcquireLock(w) ==
  /\ lock = Nobody
  /\ \/ /\ browser # "none"
        /\ Move(w, "wait", "context")
        /\ UNCHANGED lock
     \/ /\ browser = "none"
        /\ Move(w, "wait", "start")
        /\ lock' = w
  /\ UNCHANGED <<browser, launched, drivers, local, calls, faults>>

StartPlaywright(w) ==
  /\ Move(w, "start", "launch")
  /\ drivers' = drivers + 1
  /\ UNCHANGED <<browser, launched, lock, local, calls, faults>>

LaunchBrowser(w) ==
  /\ Move(w, "launch", "context")
  /\ browser' = "up"
  /\ launched' = launched + 1
  /\ lock' = Nobody
  /\ UNCHANGED <<drivers, local, calls, faults>>

NewContext(w) ==
  /\ browser = "up"
  /\ Move(w, "context", "page")
  /\ contexts' = contexts \cup {w}
  /\ UNCHANGED <<shared, tries, found, calls, faults>>

-----------------------------------------------------------------------------
(* The pages: _goto_with_retry, then what _search_with_status and          *)
(* _fetch_detail read.  The awaits in between touch nothing that is shared. *)

\* The cards with the exact number, out of all that the list shows.
ReadList(k, l) ==
  /\ l \in Searches
  /\ browser = "up"
  /\ Move(<<k, l>>, "page", "close")
  /\ found' = [found EXCEPT ![<<k, l>>] = Exact(k, portal[k][l], DOMAIN portal[k][l])]
  /\ UNCHANGED <<shared, tries, contexts, calls, faults>>

\* The pop-up opens; what it shows belongs to the id in its URL.
ReadCard(k) ==
  /\ browser = "up"
  /\ Move(PopUp(k), "page", "close")
  /\ UNCHANGED <<shared, local, calls, faults>>

\* The finally clause.  With the browser gone it may itself raise, and what
\* was read is lost.
CloseContext(w) ==
  /\ \/ Move(w, "close", "done")
     \/ Move(w, "unwind", "failed")
     \/ browser = "dead" /\ Move(w, "close", "failed")
  /\ contexts' = contexts \ {w}
  /\ UNCHANGED <<shared, tries, found, calls, faults>>

-----------------------------------------------------------------------------
(* parse() and _search()                                                   *)

Parse(k) ==
  /\ answer[k] = Adapter!NotAsked
  /\ answer' = [answer EXCEPT ![k] = Adapter!Asked]
  /\ pc' = [w \in Workers |->
              IF \E l \in Searches : w = <<k, l>> THEN "ensure" ELSE pc[w]]
  /\ UNCHANGED <<shared, local, portal, primary, faults>>

\* Mutant: gather without return_exceptions, the first exception ends parse().
SearchesOverOrFailed(k) ==
  \/ \A l \in Searches : pc[<<k, l>>] \in {"done", "failed"}
  \/ \E l \in Searches : pc[<<k, l>>] = "failed"

\* gather has all its results, exceptions included.
SearchesOver(k) == \A l \in Searches : pc[<<k, l>>] \in {"done", "failed"}

Brought(k, l) == IF pc[<<k, l>>] = "done" THEN found[<<k, l>>] ELSE << >>

\* Mutant: the results of the first status that has any, the sequential
\* fallback that the comment on _ALL_STATUSES tells of.
CombinedUpToFirst(k) ==
  LET hits == {l \in Searches : Brought(k, l) # << >>} IN
  IF hits = {} THEN << >> ELSE Brought(k, First(hits))

\* In the order of the statuses; of cards with the same id the first one stays,
\* though the id is no more than what the portal shows in ".m-found-item__num".
Combined(k) == FirstOfEachId(FlattenSeq([l \in Searches |-> Brought(k, l)]))

Join(k) ==
  /\ answer[k] = Adapter!Asked
  /\ pc[PopUp(k)] = "idle"
  /\ SearchesOver(k)
  /\ \/ /\ Combined(k) = << >>
        /\ answer' = [answer EXCEPT ![k] = [status |-> "NOT_FOUND", stat |-> NoStat]]
        /\ UNCHANGED <<primary, pc>>
     \/ /\ Combined(k) # << >>
        /\ primary' = [primary EXCEPT ![k] = PickPrimary(Combined(k))]
        /\ Move(PopUp(k), "idle", "ensure")
        /\ UNCHANGED answer
  /\ UNCHANGED <<shared, local, portal, faults>>

\* Mutant: a status name of its own for a failed pop-up.
ReturnMisnamed(k) ==
  /\ answer[k] = Adapter!Asked
  /\ pc[PopUp(k)] \in {"done", "failed"}
  /\ answer' = [answer EXCEPT ![k] =
                  [status |-> IF pc[PopUp(k)] = "done" THEN "DONE" ELSE "FAILED",
                   stat   |-> NoStat]]
  /\ UNCHANGED <<shared, local, pc, portal, primary, faults>>

\* A pop-up without a badge leaves KONTR_STAT empty; the result is still DONE.
Return(k) ==
  /\ answer[k] = Adapter!Asked
  /\ \/ /\ pc[PopUp(k)] = "done"
        /\ \E stat \in {Badge[primary[k].id], NoStat} :
             answer' = [answer EXCEPT ![k] = [status |-> "DONE", stat |-> stat]]
     \/ /\ pc[PopUp(k)] = "failed"
        /\ answer' = [answer EXCEPT ![k] = [status |-> "ERROR", stat |-> NoStat]]
  /\ UNCHANGED <<shared, local, pc, portal, primary, faults>>

-----------------------------------------------------------------------------
(* Failures.  Every await has a timeout, so a failure is an exception.     *)

Fault == faults < MaxFaults /\ faults' = faults + 1

\* Mutant: acquire() and release() around the launch, without a finally.
LaunchFailsLocked(w) ==
  /\ \/ Move(w, "start", "failed")
     \/ Move(w, "launch", "failed")
  /\ UNCHANGED <<shared, local, calls>>

\* A worker inside the lock fails, and "async with" releases it.  A driver that
\* was started stays: nobody stops it, and the next attempt starts another.
LaunchFails(w) ==
  /\ \/ Move(w, "start", "failed")
     \/ Move(w, "launch", "failed")
  /\ lock' = Nobody
  /\ UNCHANGED <<browser, launched, drivers, local, calls>>

\* One navigation fails; after the last one RuntimeError leaves the page.
NavigationFails(w) ==
  /\ browser = "up"
  /\ tries' = [tries EXCEPT ![w] = @ + 1]
  /\ Move(w, "page", IF tries'[w] = NavMaxRetries THEN "unwind" ELSE "page")
  /\ UNCHANGED <<shared, found, contexts, calls>>

\* Without a context there is nothing to close; with one, finally closes it.
PageFails(w) ==
  /\ \/ Move(w, "context", "failed")
     \/ Move(w, "page", "unwind")
  /\ UNCHANGED <<shared, local, calls>>

\* The list has been drawn in part, or not at all, when its 1.5 s are over, or
\* some of its cards lack the expected markup and are skipped.
ReadListInPart(k, l) ==
  /\ l \in Searches
  /\ browser = "up"
  /\ Move(<<k, l>>, "page", "close")
  /\ \E read \in (SUBSET DOMAIN portal[k][l]) \ {DOMAIN portal[k][l]} :
       found' = [found EXCEPT ![<<k, l>>] = Exact(k, portal[k][l], read)]
  /\ UNCHANGED <<shared, tries, contexts, calls>>

\* The browser process ends.  Its handle stays in self._browser for good.
BrowserDies ==
  /\ browser = "up"
  /\ browser' = "dead"
  /\ contexts' = {}
  /\ UNCHANGED <<launched, drivers, lock, pc, tries, found, calls>>

-----------------------------------------------------------------------------
\* What a page with a dead browser does by itself.
Orphaned(w) == browser = "dead" /\ PageFails(w) /\ UNCHANGED faults

Step(w) ==
  \/ EnsureBrowser(w) \/ AcquireLock(w) \/ StartPlaywright(w)
  \/ LaunchBrowser(w) \/ NewContext(w)
  \/ ReadList(w[1], w[2]) \/ (w[2] = 0 /\ ReadCard(w[1]))
  \/ CloseContext(w) \/ Orphaned(w)

CallStep(k) ==
  Join(k) \/ Return(k) \/ \E l \in {0} \cup Searches : Step(<<k, l>>)

Failure ==
  /\ Fault
  /\ \/ \E w \in Workers : \/ LaunchFails(w) \/ NavigationFails(w)
                           \/ PageFails(w) \/ ReadListInPart(w[1], w[2])
     \/ BrowserDies

Next ==
  \/ \E k \in Calls : Parse(k) \/ CallStep(k)
  \/ Failure

\* asyncio resumes whoever is ready, and every await of a page ends.
Fairness == \A k \in Calls : WF_vars(CallStep(k))

Spec == Init /\ [][Next]_vars /\ Fairness

-----------------------------------------------------------------------------
(* Properties.                                                             *)

\* Types of all variables.
TypeOK ==
  /\ portal \in Views
  /\ browser \in {"none", "up", "dead"}
  /\ launched \in Nat /\ drivers \in Nat /\ faults \in 0..MaxFaults
  /\ lock \in Workers \cup {Nobody}
  /\ pc \in [Workers -> PC]
  /\ tries \in [Workers -> 0..NavMaxRetries]
  /\ found \in [Workers -> Seq(Card)]
  /\ contexts \subseteq Workers
  /\ primary \in [Calls -> Card \cup {NoCard}]
  /\ answer \in [Calls -> ParseResult \cup {Adapter!NotAsked, Adapter!Asked}]

\* However many pages of however many calls come first at the same time, at
\* most one browser is ever launched, and a driver without a browser is one
\* whose browser is being launched or one that a failed launch left behind.
OneBrowser ==
  /\ launched <= 1
  /\ drivers <= launched + faults
                + (IF \E w \in Workers : pc[w] = "launch" THEN 1 ELSE 0)

\* When parse() has returned, whatever its result, none of its pages is still
\* at work and none of its browser contexts is still open.
ContextsEnd ==
  \A k \in Calls :
    Answered(k) =>
      \A l \in {0} \cup Searches :
        pc[<<k, l>>] \in AtRest /\ <<k, l>> \notin contexts

\* NOT_FOUND means that no search brought back a card.  Otherwise the contract
\* that is opened is one of those brought back, under whatever status; and every
\* id that was brought back, under whatever status, has a card that should not
\* have been preferred to it.  Where an id belongs to one card, as parse() relies
\* on, this is to say that no card should have been preferred.
ChoosesAmongAll ==
  \A k \in Calls :
    LET seen == UNION {ToSet(Brought(k, l)) : l \in Searches} IN
    Answered(k) =>
      /\ answer[k].status = "NOT_FOUND" <=> seen = {}
      /\ seen # {} =>
           /\ primary[k] \in seen
           /\ \A card \in seen : \E same \in seen :
                same.id = card.id /\ PreferredTo(primary[k], same)

\* As long as nothing has failed and every list was drawn in time, the answer is
\* about all that the portal has under the number: no page misses any of it.
AnswersThePortal ==
  \A k \in Calls :
    LET contracts == Contracts(k) IN
    Answered(k) /\ faults = 0 =>
      /\ answer[k].status = IF contracts = {} THEN "NOT_FOUND" ELSE "DONE"
      /\ contracts # {} =>
           /\ primary[k] \in contracts
           /\ \A card \in contracts : \E same \in contracts :
                same.id = card.id /\ PreferredTo(primary[k], same)

\* parse() keeps the promise of its base class.
KeepsContract == Adapter!Spec

\* Whatever fails, every call of parse() comes to its end.
ParseReturns == \A k \in Calls : answer[k] = Adapter!Asked ~> Answered(k)

\* What app/parsers/base.py says of the answers: NOT_FOUND means that the
\* contract was not found, and a failed request is ERROR.  The code breaks it.
FailureIsError ==
  \A k \in Calls :
    answer[k].status = "NOT_FOUND" => \A l \in Searches : pc[<<k, l>>] # "failed"
=============================================================================
