# Verification of msb_kontr_parser_service

TLA+ specifications of the contract-parsing service in `src/`: what its endpoints, runs,
journal and queue do, checked with TLC on small instances and, for the safety properties
that matter most, proved with TLAPS for instances of any size.

Source references are relative to `src/app/` unless they begin with `src/`.

## 1. The system

The service is one FastAPI process with one asyncio event loop and an Oracle database.
Informatica triggers it once per business date. A *pipeline run* finds the contracts
without a status in the target table, queues them, asks the two procurement portals
about each, and merges the answers back.

| Component | State it keeps | Operations | Correct when |
|---|---|---|---|
| HTTP endpoints (`api/routes.py`) | none; checks the journal and the queue | `trigger`, `parse_one`, `parse_many`, `merge`, `rerun_not_found`, two GETs | a business date has one pipeline run at a time, and opens again after it; a contract is in one rerun at most |
| Orchestrator (`services/orchestrator.py`) | locals of the coroutine: lists of `GapRow` with the `attempt_number` read for them, the position in them | `run`, `run_single`, `run_many`, `run_merge`, `run_rerun_not_found`, `_parse_and_stage` | every queued contract of a known portal is parsed once per listing; attempts respect the limit; a parsed contract is not reopened; every run ends |
| Task monitor (`services/monitor_service.py`) | `_run_id` of the open row | `__enter__`, `__exit__`, two queries | no row stays RUNNING unless its run was interrupted; a failure ends the chain |
| Process journal (`db/monitor_repo.py`) | table `MSB_DB_PROCESS_MONITOR` | `log_start`, `log_end`, `already_running`, `is_task_running` | rows of a run form a chain in pipeline order, each finished once |
| Gap analysis (`db/gap_repo.py`) | writes the queue | `fetch_gaps` | lists the gaps that have attempts left |
| Queue and staging (`db/parse_repo.py`) | table `MSB_DB_KONTR_PARSE` | `mark_in_progress`, `save_result`, `status_or_not_found`, `get_or_create_kontr_id`, `count_not_found`, `fetch_and_requeue_not_found` | an IN_PROGRESS row has somebody parsing it; ERROR always means attempts are left |
| Target merge (`db/target_repo.py`) | `KONTR_STAT` of `MSB_DB_GRN_BLANK_MONITOR` | `merge_from_staging` | the target agrees with what the queue holds as DONE |
| Connections (`db/connection.py`) | the pool | `get_connection` | one block is one transaction |
| Adapter contract (`parsers/base.py`, `models/dto.py`) | none | `parse(GapRow) -> ParseResult` | one answer per call; DONE only for a contract the portal publishes, with its status or with none |
| Samruk adapter (`parsers/samruk_parser.py`) | `_browser`, `_playwright`, `_lock`, shared by all calls; a page and a context per search | `parse`, `_search`, `_search_with_status`, `_fetch_detail`, `_ensure_browser`, `_new_context`, `_goto_with_retry` | one browser is launched; a call leaves no page or context behind; the choice is made among all that was found |
| Goszakup adapter (`parsers/goszakup_parser.py`) | HTTP client; locals of the call | `parse`, `_search`, `_fetch_detail`, `_pick_primary`, `_shift_last_segment` | a neighbour's data only if no nearer number has any; all cards of the list are looked at |
| Normalizer (`parsers/normalizer.py`) | none | `normalize_nomer` | idempotent; computes a normal form whatever the order of spaces, dashes and zeros in the text |
| Life cycle (`main.py`, `src/docker-compose.yml`) | the pool and the process | start, shutdown, restart by the container | a restart loses nothing but the runs in progress |
| Schemas, configuration, logging, API key | constants | validation | – |

### How the components interact

* A handler checks the journal or the queue, and then either starts a *background task*
  (`trigger`, `rerun-not-found`: the response is sent first) or awaits the run itself
  (`parse-one`, `parse-many`, `merge`).
* A run works through its tasks. Each is a `with TaskMonitor(...)` block: `__enter__`
  inserts a RUNNING row and `__exit__` closes it as SUCCESS or FAILED. `AlreadyRunning`
  reads these rows, so the journal is also the lock.
* Pipelines, reruns and manual requests share the queue. Nothing but the journal keeps
  them apart, and manual requests do not even read it.
* One object of each adapter serves all runs, so calls of `parse` overlap. Those of
  Samruk share a browser, which whichever page comes first starts under a lock; those of
  Goszakup share nothing but the HTTP client.
* Database calls are synchronous and block the event loop. What lies between two awaits
  is atomic for everybody else, but not for a crash.

### What is hard here

Interleavings at the awaits (`parser.parse`, `asyncio.sleep`, sending the response);
decisions taken from lists and attempt numbers read hours before they are used; failures
between two transactions; restarts; rows of one task hiding earlier rows of the same
task; portal texts that are compared with case in SQL and without case in Python; five
pages that reach for one missing browser at once; searches of which some fail; a list
and its cards that come from different requests. `PROJECT.json` lists each of these
hazards at its line with the properties that cover it.

## 2. The modules

| Module | Stands for |
|---|---|
| `ParseDto` | `ParseResult`, the values that travel between an adapter and the service |
| `KontrParse` | the two business tables and the functions of `gap_repo`, `parse_repo`, `target_repo` |
| `ProcessMonitor` | the journal and `monitor_repo`, with the filter of `monitor_service.already_running` |
| `ParserService` | endpoints, runs, task monitors, failures and restarts over the two |
| `TaskLog` | abstract specification: what the journal promises its readers |
| `ParserAdapter` | abstract specification: what `parse()` promises its callers |
| `FoundContracts` | the list that a search returns, without repeated ids, and `_pick_primary`, the same in both adapters |
| `SamrukParser`, `GoszakupParser` | the two adapters with their failures |
| `ContractNumber` | `normalize_nomer` and `_shift_last_segment` on texts |
| `DocumentedClaims` | statements of the comments and the README about the service that the code does not satisfy |
| `ParserServiceProofs`, `QueueProofs`, `TaskLogProofs` | theorems about `ParserService`, its lists and its journal |
| `SamrukParserProofs`, `GoszakupParserProofs`, `FoundContractsProofs` | theorems about the adapters |
| `ContractNumberProofs` | theorems about `normalize_nomer` and `_shift_last_segment` |
| `LoopInduction` | induction over the passes of a loop, for the proofs about lists and texts |
| `MC*` | values of the constants for TLC; `MCContractNumber` types the texts and holds the reference definition |

`ParserService` EXTENDS `KontrParse` and `ProcessMonitor` and instantiates `TaskLog`
with `monitor` for its log. The two adapters instantiate `ParserAdapter` with what their
portal publishes for each call. The service and the adapters meet in `ParseDto`:
`SaveRow` accepts any `ParseResult`, and `KeepsContract` says that an adapter returns
nothing else.

### ParserService: state

| Variable | Code |
|---|---|
| `queue[c]` | the row of contract `c` in `MSB_DB_KONTR_PARSE`: STATUS_NAME, ATTEMPT_NUMBER, NAIM_PORTALA, KONTR_STAT. `"ABSENT"`: no row |
| `vitrina[c]` | KONTR_STAT of the target table, `NoStat` for NULL; `Listed` are the contracts that have a row there |
| `monitor` | the journal, a sequence: rows are only appended, so position stands for RUN_ID and START_TIME |
| `job[r]` | the coroutine of process_run_id `r`: kind of request, point reached (`pc`), business date, current task, RUN_ID of its open row, requested contracts without a row, the two lists still to parse with their attempt numbers, the contract in the parser |
| `loop` | the run that executed a step and has not awaited since, or `Free` |
| `raced` | history: dates for which a trigger was accepted while another accepted run had not yet written its GAP_ANALYSIS row |
| `crashes`, `dbErrors` | counters of the two bounds on failures |

A list of `GapRow` is a bag (`[Contracts -> Nat]`): no SELECT orders its rows and a text
that names both portals is returned twice.

### ParserService: actions

A step of a run is one transaction. A step that ends before an await sets `loop` to
`Free` (`Await`); one that does not keeps the loop (`Goto`), and all other requests and
runs wait.

| Action | Code |
|---|---|
| `Trigger`, `RerunNotFound` | the check, then `accepted`: the response is being sent and the background task has not begun |
| `ParseOne`, `ParseMany`, `CreateRow` | the handler; one `CreateRow` per `get_or_create_kontr_id`, and after the last one the ValueError of an unknown portal text |
| `Merge` | the handler of `/parser/merge` |
| `Rejected` | ALREADY_RUNNING and NOTHING_TO_RERUN |
| `OpenTask` | `TaskMonitor.__enter__` |
| `FetchStep`, `RequeueStep`, `MergeStep` | the body of GAP_ANALYSIS, of RERUN_NOT_FOUND up to its lists, and of UPDATE_TARGET_TABLE |
| `MarkRow`, `SaveRow` | `_parse_and_stage` and `run_single` before and after `await parser.parse` |
| `CloseTask`, `Abort` | `__exit__` without and with an exception |
| `BodyFails`, `CallFails` | a database call that raises inside the body of a task, and in `__enter__`, `__exit__` or `get_or_create_kontr_id` |
| `Crash` | the process dies, the container restarts it, the tables stay |
| `Quiescent` | every process_run_id of the instance has been used: the model, not the service, stops. With it deadlock checking stays on |

`SaveRow` lets the parser return any result of the adapter contract, or raise, which the
code turns into an ERROR, after any number of steps of other runs.

### SamrukParser

A *worker* is a page with its context: `<<k, l>>` searches under the `l`-th status of
`_ALL_STATUSES` in call `k`, and `<<k, 0>>` opens the card of the chosen contract.

| Variable | Code |
|---|---|
| `browser`, `lock` | `self._browser`, which keeps its handle when the browser has died, and `self._lock` |
| `drivers`, `launched` | Playwright drivers running (`self._playwright` knows the last one), and a history of launches |
| `pc`, `tries`, `found`, `contexts` | where a worker is, its failed navigations, the cards it has read, whether its context is open |
| `primary`, `answer` | the chosen card and the state of a call |
| `portal` | what the portal shows while the calls run |

| Action | Code |
|---|---|
| `Parse`, `Join`, `Return` | `parse` up to the `gather` of `_search`; the combination of its results and `_pick_primary`; the result |
| `EnsureBrowser`, `AcquireLock`, `StartPlaywright`, `LaunchBrowser` | `_ensure_browser` with its test outside and inside the lock |
| `NewContext`, `ReadList`, `ReadCard`, `CloseContext` | `_new_context`, `_search_with_status`, `_fetch_detail` and their `finally` |
| `LaunchFails`, `NavigationFails`, `PageFails`, `ReadListInPart`, `BrowserDies` | a failed start, a navigation of `_goto_with_retry`, a timeout or exception elsewhere, a list of which any part is missing when it is read, the end of the browser process |
| `Orphaned` | a page whose browser is gone raises |

`Combined` is the loop of `_search` over the results, in the order of the statuses. Of
cards with the same id it keeps the first one, whatever the others say. The id is what
the list shows in `.m-found-item__num`, and a comment of the code (55-60) says that
nobody has checked this on a real page. So a `Card` has an id and a number, and nothing
in the model makes cards with one id the same card. If the element held the number of
the contract, all its cards would share one id and the first would be taken: an
amendment, say, though the main contract stands under a later status. That is why
`ChoosesAmongAll` and `AnswersThePortal` compare ids: every id has a card that was not
preferable to the one opened, but another card of that id may have been.

### GoszakupParser

`offset`, `term`, `listing`, `details` are the locals of `parse` and `_search`; `missed`
remembers the searches that showed no table although there are rows. `SearchAnswers` and
`DetailAnswers` are the two requests, each with what follows up to the next one: the
shifted number (`NextTerm`), NOT_FOUND, or the choice after the last card.
`SearchShowsNothing`, `DetailShowsPart` and `RequestFails` are pages without the
expected markup, cards that lack any of their labels, and failed requests. The rows of a
registry are those with a number under "#"; a single row without one is passed over by
the code and not counted by the model. The numbers are opaque; `Shift` is any function
that gives a number its neighbours, and `ContractNumber` says which one the code uses
(`ShiftIsAsAssumed` joins the two).

### Abstractions

* A contract is addressed by its number. Both ways of inserting a row look for the
  number first, without yielding in between.
* Portal texts are members of a small set; `LikeSamruk`/`LikeGos` are those the SQL
  matches, `IsSamruk`/`IsGos` those `lower()` matches. The first are subsets of the
  second.
* KONTR_DATA_START and KONTR_DATA_END travel with KONTR_STAT. Wording, counters of a
  run, URLs and raw responses are left out.
* HTML, selectors and page layout become the cards and rows that a page shows; a page
  that does not have the expected markup is a failure.
* `str.isdigit` and `\d` also accept digits of other scripts, and `int` reads them. The
  digits of `ContractNumber` are "0" to "9", those of the portals' numbers.
* Titles are read as one word without spaces, so a number that has inner spaces after
  normalisation is compared with something else and never found. In the model a card
  carries the number that was read from it.
* In `ContractNumber` a text is a sequence of characters, of which only the classes that
  `normalize_nomer` tells apart matter.
* The rows of a list are worked through in any order, those of RERUN_NOT_FOUND first on
  one list and then on the other as in the code.

## 3. What TLC checks

The runs of `ParserService` check deadlock; in those of the adapters and of the texts
the system does stop, when all calls have returned or the text has its full length.
`Runs` is a set of interchangeable process_run_ids and `pipeline` and `manual`, which
check no liveness, use its symmetry.

| Run | Instance | Shows |
|---|---|---|
| `pipeline` | 3 runs of one date, 1 contract, empty queue, trigger and merge, 1 restart, 1 database error | `AttemptsRespectLimit`, `PublishedIsParsed`, `DoneIsFinal`, `SingleRunUnlessRaced` and `RunInv`, the invariant that makes the last one inductive |
| `manual` | 2 runs, 2 contracts, all endpoints, 5 portal texts, 1 restart, 1 database error | `TypeOK`, `RunningRowHasOwner`, `InProgressHasOwner`, `RerunsDisjoint`, and that the journal implements `TaskLog` |
| `liveness` | 2 runs, 2 contracts, all endpoints, requests for up to 2 contracts, no failures | `QueuedRowIsHeld`, `RunsEnd`, `DatesReopen` |
| `samruk` | 2 calls, 2 statuses, 2 navigations per page, 2 failures, 2 views of the portal | `TypeOK`, `OneBrowser`, `ContextsEnd`, `ChoosesAmongAll`, `AnswersThePortal`, `ParseReturns`, and that the adapter implements `ParserAdapter` |
| `goszakup` | 2 calls, 8 numbers, 4 registries, 3 offsets, 2 failures | `TypeOK`, `NearestNumber`, `ChoosesAmongAll`, `ParseReturns`, and that the adapter implements `ParserAdapter` |
| `numbers` | all texts of up to 5 characters out of 9: two blanks, two dashes, slash, 0, 1, 9 and a letter | `NormalizesEverySegment`, `NormalizesOnce`, `KeepsSegments`, `ShiftsLastSegment` |

Why the bounds are enough for the interesting cases:

* *Runs 2–3.* A race needs two. Three let a run be accepted while a second is at work
  and a third has already finished, failed or been killed, so that there are older rows
  for `IsLatest` to look past. They also bring a contract to its limit and let one more
  run look at it.
* *Contracts 1–2.* Two give both lists a member, or one list two, and an order between
  them. The lock does not depend on what a run parses, and the counters and results of
  different contracts do not meet, so one is enough in `pipeline`.
* *MaxAttempts 2* (5 in the configuration): the smallest value with an attempt that is
  not the last one, so that both outcomes of the comparison in `status_or_not_found`
  occur.
* *MaxBatch 2*: the same contract twice and two different ones.
* *MaxCrashes, MaxDbErrors 1*: a failure at every point of every run. The proofs need no
  bound on either.
* *Statuses 2, calls 2*: four searches and two pop-ups meet at the browser, of one call
  and of two. The first list has a card without a date, the second a later one and the
  main contract, which shows that the choice is not made too early. The main contract
  has the id of the first card, so that it is dropped when both are read and chosen when
  the first list came late. Both lists have a foreign number, the second in front. The
  code has five statuses.
* *NavMaxRetries 2* (3 in the code): a navigation that is retried and one that is the
  last.
* *MaxFaults 2*: a launch that fails and a failure of the attempt after it; all searches
  of a call failing by one death of the browser; both navigations of a page.
* *Offsets 3* as in the code; the registries have contracts under the number itself (one
  of them in two rows), under a neighbour with another one further on, under the last
  neighbour, and under none of the four.
* *Texts of 5 characters*: every substitution can uncover work for every other one
  (blank, dash, blank, zero, digit), and the last segment of a number can overflow its
  width ("1/9", "1/99").
* *Initial queues*: an empty one (the first start), a contract that was NOT_FOUND by its
  first attempt, and in the runs of section 5 one that failed once and contracts that
  used up their attempts, all of which earlier runs of the service leave behind.

### Scope of the conditional properties

`SingleRunUnlessRaced` excludes the dates in `raced`: there the code does not keep the
promise, see `claim_one_run`. `AttemptsRespectLimit`, `DoneIsFinal` and
`PublishedIsParsed` hold where only pipeline runs of one business date work on the
queue. With runs of two dates the first fails (`claim_attempts`), and manual parsing
reopens DONE rows by design. `RerunsDisjoint` is about reruns and merges: a manual
request or a pipeline may take a contract that a rerun holds. `QueuedRowIsHeld` is about
runs without failures; with failures `InProgressHasOwner` says what may be left behind.

`KeepsContract` of Goszakup counts the numbers whose last segment is up to `MaxOffset`
higher as the contract's own; `NearestNumber` says when one of them is used.
`ChoosesAmongAll` of Samruk speaks of the cards that were read: `ReadListInPart` drops
any of them, and the code cannot know. `AnswersThePortal` says what this costs: as long
as no list came late and nothing else failed (`faults = 0`), the answer is about all
that the portal has under the number, so a late list or a failure is the only reason to
miss a contract.

### Fairness

`Spec` of `ParserService` assumes weak fairness of `Step(r)` for every run, and none of
requests and failures. asyncio resumes ready callbacks in FIFO order, so a coroutine
that is ready runs; the awaits end by themselves: `asyncio.sleep` after its delay, the
parsers by the timeouts of httpx and Playwright, the response when it is sent or the
client is gone. Weak fairness is enough because once a step of a run is enabled, only a
run that holds the loop disables it, and a run that holds the loop needs finitely many
steps to its next await. `RunsEnd` and `DatesReopen` are checked without failures; with
them a date may stay blocked, as section 5 explains.

The adapters assume weak fairness per call: `CallStep(k)` of Samruk, as every await of a
page has a timeout and the lock is released by whoever holds it, and `Step(k)` of
Goszakup, as the HTTP client has a timeout. None is assumed of failures, of which
`ParseReturns` allows `MaxFaults`.

## 4. What is proved

For any sets of runs, contracts, dates and portal texts, any number of failures and
restarts and any batch size, `ParserServiceProofs`, `QueueProofs` and `TaskLogProofs`
prove of `ParserService`:

| Theorem | Statement |
|---|---|
| `TypeCorrect` | `Spec => []TypeOK` |
| `RunsAreGuarded` | `Spec => []RunInv` |
| `JournalIsLock` | `Spec => []SingleRunUnlessRaced` |
| `NoStrayRunningRow` | `Spec => []RunningRowHasOwner` |
| `NoStrayContract` | `Spec => []InProgressHasOwner` |
| `RerunsNeverShare` | `Spec => []RerunsDisjoint` |
| `LimitIsKept`, `TargetAgrees`, `ParsedIsFinal` | `Spec => []AttemptsRespectLimit`, `Spec => []PublishedIsParsed`, `Spec => DoneIsFinal`, each assuming `PipelineAlone` |
| `QueuedIsHeld` | `Spec => []QueuedRowIsHeld`, assuming `Undisturbed` |
| `JournalRefinesTaskLog` | `Spec => JournalIsTaskLog`, the refinement of `TaskLog` |

For any numbers of calls, statuses, ids, rows, offsets, retries and failures, and any
view of the portal:

| Theorem | Statement |
|---|---|
| `SamrukParserProofs!TypeCorrect`, `OneBrowserHolds`, `ContextsEndHolds` | `Spec => []TypeOK`, `Spec => []OneBrowser`, `Spec => []ContextsEnd` |
| `SamrukParserProofs!ChoosesAmongAllHolds`, `AnswersThePortalHolds`, `KeepsContractHolds` | `Spec => []ChoosesAmongAll`, `Spec => []AnswersThePortal`, `Spec => KeepsContract`, the refinement of `ParserAdapter` |
| `GoszakupParserProofs!TypeCorrect`, `NearestNumberHolds`, `ChoosesAmongAllHolds`, `KeepsContractHolds` | `Spec => []TypeOK`, `Spec => []NearestNumber`, `Spec => []ChoosesAmongAll`, `Spec => KeepsContract`, the refinement of `ParserAdapter` |
| `FoundContractsProofs!PickPrimaryIsBest` | `_pick_primary` returns a contract of the list to which no other one is preferred |
| `FoundContractsProofs!EveryIdStaysOnce` | a list without its repeated ids has members of the list only, and every id once |

For texts of any length, over any alphabet and any sets of blanks and dashes:

| Theorem | Statement |
|---|---|
| `ContractNumberProofs!NormalizesEverySegmentHolds` | `Spec => []NormalizesEverySegment`: the normal form of every segment, a numeric one as the plain numeral of its value |
| `ContractNumberProofs!NormalizesOnceHolds` | `Spec => []NormalizesOnce`: the second normalisation changes nothing |
| `ContractNumberProofs!KeepsSegmentsHolds` | `Spec => []KeepsSegments`: the segments with anything but white space are the same as before |
| `ContractNumberProofs!ShiftsLastSegmentHolds` | `Spec => []ShiftsLastSegment`: an offset of any size adds to the value of the last segment and to nothing else, keeps the width as long as the sum fits, and leaves the number normalised |
| `ContractNumberProofs!ShiftIsAsAssumed` | what `GoszakupParser` assumes of its constant `Shift`: a number at every offset or `None` at every offset; and the numbers all differ |

The assumptions are `TablesAssumption` and `ServiceAssumption` (types of the constants,
`MaxAttempts` positive, a queue that does not start with a row IN_PROGRESS),
`StatsAssumption` (NULL is no status), `SamrukAssumption` and `GoszakupAssumption`
(types of the constants; a number either has a last segment to shift or has none; the
card under an id carries this id), and `NumberAssumption` (the space is a blank and "-"
a dash; no character is two of blank, dash and digit). TLC evaluates them in every run.
`PipelineAlone` and `Undisturbed` are conditions on the constants that two groups of
theorems assume: the one that only trigger and merge are called, for one date, on a
queue whose rows respect the limit and with portals that do not overlap; the other that
nothing fails, that all portal texts are known, and that no row is NEW at the start.

*The lock.* `SingleRunUnlessRaced` is not inductive. When a trigger is accepted,
`AlreadyRunning` is false, and one has to conclude that no live run of the date exists.
`IInv == TypeOK /\ RunInv /\ SingleRunUnlessRaced` adds why:

* `LoopIsHeld`: a run that is between two awaits holds the loop, so a handler meets live
  runs only at `accepted`, `rows` and `parsing`. The first is what `raced` records.
* `TaskRowIsOpen`: a run inside a task has an open journal row of its own, with its task
  and date, and `TaskMatchesKind`: the three tasks before the merge are written by
  triggered runs alone.
* `WaitingRunIsVisible`: while a pipeline run waits, its row is the last of its task for
  the date. A row of PARSE_SAMRUK or PARSE_GOSZAKUP could only be added by another
  pipeline run of the date, which the induction hypothesis excludes; UPDATE_TARGET_TABLE
  rows, which `/parser/merge` adds at any time, do not matter because a run never waits
  inside that task.
* `NoRowOutsideTask` and `ParsingHasRow` supply the typing of a run's fields that the
  others need.

The proof first describes what every step does to the run's locals and the journal
(`Moves` with one of `Keeps`, `Opens`, `Closes`; `Goes` for fields that survive; lemmas
`StepMoves` and `RequestMoves`), then shows for each conjunct of `IInv` that such a step
preserves it (`LoopStep`, `LocalStep`, `RowStep`, `VisibleStep`, `SingleStep`,
`RowlessStep` and their counterparts for requests and `Crash`).

*No row without an owner.* `RunningRowHasOwner` and `InProgressHasOwner` are inductive
relative to `IInv`: opening a task enters the row's number in `mon`, closing one needs
`TaskRowIsOpen` to know that the row closed is the run's own, and `current` is cleared
only in the step that takes the contract out of IN_PROGRESS.

*Reruns.* `RerunsDisjoint` needs to know what a contract on a list looks like in the
table: as long as only reruns and merges were accepted, it is NEW (`HeldOnce`),
IN_PROGRESS while it is in the parser, and listed once. A rerun takes NOT_FOUND rows,
hence none that is held. `StepLists` describes every step of a run by one of a few
effects on its lists and on the queue (`Creates`, `Fetches`, `Requeues`, `Marks`,
`Saves`, `GoesOn`, `Ends`), which this and the next two arguments share.

*The pipeline.* `PipelineInv` ties the lists to the table: the attempt number that a run
has read is still the row's (`UpToDate`), the row is not DONE and has attempts left.
This holds because at most one run is inside the pipeline, which is
`SingleRunUnlessRaced`, so the proof builds on `JournalIsLock`. `WithinLimit` and
`Agrees` are then what the three properties state.

*No contract forgotten.* `HeldInv` says that every NEW or IN_PROGRESS row is held by a
live run. A run may only end, or fill its lists anew, when they are empty: `ShapeInv`
records, for every task, which lists its predecessors have worked off (`ListsAtClose`),
and that the rows of a manual request are on its lists before they are created
(`Listing`).

*The journal as a task log.* `ChainInv` says what the rows of a run have to do with the
point it has reached: none before its first task; inside a task its open row is the last
one and all others succeeded; before a further task all succeeded, and the last is of
the task before it and of the same date (`Ready`). `StepJournal` reduces every step to
three kinds, silent, entering or leaving a task; entering maps to `Begin` or `Continue`,
leaving to `Finish`.

*One browser.* `LockInv`: the workers between the lock and its release are exactly the
lock's holder, and while somebody holds it there is no browser; drivers are counted
against launches and failures. `PagesInv`: the pages of a call are idle before it, its
pop-up until its searches are over, and all are at rest after it.

*Goszakup.* `SearchInv`: the number in search is the one at the offset and all numbers
passed over show nothing. `DetailInv`: the cards looked at belong to the first rows of
the list, and an answer DONE comes after the last. The choice rests on
`PickPrimaryIsBest`, where that a list has a first main contract and a latest date comes
from the least-number principle.

*The choice of Samruk.* `FoundInv`: what a search brings back are cards of the portal
with the number of the call, however much of the list had been drawn. `ChoiceInv`: from
the moment the pop-up of a call begins, its searches are over and bring back nothing
more, so the chosen card stays the one that `PickPrimary` returns for all of them;
NOT_FOUND is answered only when all are over and empty. `TriesInv` bounds the failed
navigations by the code's limit. What a search keeps of a list (`Exact`) and what the
searches bring back together (`Combined`) are loops over lists: `SublistMembers` says
that the members kept come from the positions kept, one from each, and in their order,
and `EveryIdStaysOnce` follows for the first positions of every id. The card chosen is
preferred to those that were kept, of which there is one for every id that was seen.

*An undisturbed call.* `CompleteInv`: as long as nothing has failed the browser lives,
no page fails, and a search that has read its list has exactly the cards of the portal
with its number (`ListsRead`). When the searches of a call are over, what was seen is
then what the portal has (`AllIsSeen`), and `AnswersThePortal` is `ChoosesAmongAll`
about the portal instead of what was read.

*Loops.* The induction theorems of the library take an operator, which the provers
cannot instantiate. `LoopInduction` states them about a set of passes instead:
`LoopInvariant` is induction over the passes of a loop, from the well-foundedness of the
natural numbers, and `LoopExists` says that a recursive function over the passes of a
list has values at all. A function of the model that is a loop in the code is therefore
written as a recursive function whose step has a name (`PutCollapsed`, `PutSplit`, ...).

*Normalisation.* A text is `Neat` when every blank in it is a single space between two
solid characters that are no dashes, and every dash is "-". Each substitution
establishes its part of this and keeps what those before it established (`StripTrims`,
`CollapseSpaces`, `UnifyKeepsSpaced`, `TightenMakesNeat`), and each leaves a neat text
alone (`CleanedNeat`). The parts of a neat text are segments without dashes and outer
blanks (`SplitNeat`); without their leading zeros they still are, and have none to lose
(`StripLeadingZerosFacts`); and joined again they are a neat text (`JoinNeat`) that is
split into the same parts (`SplitJoin`). So the second normalisation finds nothing to
do.

*Every segment.* The reference works part by part, the code on the whole text. What a
part *says* is what is left of it without outer blanks and with single inner ones, and
the claim is that no substitution changes what the parts of the text say
(`SegmentsSay`): the text is read from left to right, and a substitution copies the next
character, writes another dash for a dash, or drops a blank. That the parts say the same
so far is not inductive, because a blank that comes last says nothing until something
follows it. So the last parts have to *read* the same as well: white space collapsed and
all, but for a space in front (`ReadSame`). A character may be added to both texts when
they read the same (`SayGrows`); a blank may be dropped where a space has just been
written, or nothing, or where a dash follows (`SayDropped`), which is what the three
substitutions do (`CollapseSays`, `TightenSays`, `StripSays`). `KeepsSegments` follows,
as a part says something exactly when it has something solid in it.

*Numerals.* Without its leading zeros a text of digits is the numeral of its value
(`StripLeadingZerosIsNumeral`): while only zeros have been read the value is 0, and from
then on each digit multiplies it by ten and is added, which appends the digit to the
numeral (`NumeralFacts`). The numerals of numbers are a recursive function of the
number, so that they exist and do not depend on how far it is defined is an induction
of its own (`NumeralsExist`, `NumeralsAgree`).

*Neighbours.* A text is what goes up to its last slash, and its last segment
(`LastSegmentEnds`). Padding with zeros changes no value (`ZerosInFront`), and a number
below a power of ten has no more digits than that (`NumeralLength`). The shifted number
is neat because digits replace digits (`NeatEnds`), and its segments have no zeros to
lose: the last one contains the slash and is not numeric, the others are those of the
normalised number (`NormalizedEnds`). With `JoinSplit`, join undoes split, this is what
it means to be normalised (`NormalizedWhen`). That the numbers searched all differ
follows from the values of their last segments.

*Model-checked only:* the liveness properties, `RunsEnd`, `DatesReopen` and
`ParseReturns` of the two adapters. The provers do not handle fairness.

## 5. Where code and documents disagree

Each of these is a run in which TLC finds a counterexample to the documented statement.

| Run | Statement | What happens |
|---|---|---|
| `claim_one_run` | one pipeline run per business date (`api/routes.py:41-42`) | two triggers pass the check before the first background task has written its row |
| `claim_retry` | rows that are not DONE and have attempts left are retried (`db/gap_repo.py:20-21`) | a row saved as NOT_FOUND is stamped and not selected |
| `claim_rerun` | all NOT_FOUND rows are parsed again (`services/orchestrator.py:168`) | a row of an unknown portal text is reset to NEW and not parsed |
| `claim_exhausted` | after the last attempt a row stays for manual review (`db/parse_repo.py:82`) | `parse-one` with an unknown portal text makes it NEW and nobody parses it |
| `claim_attempts` | ATTEMPT_NUMBER is kept below the limit (`db/parse_repo.py:81`) | runs of two dates count one contract with stale numbers |
| `claim_not_found` | NOT_FOUND means not found, a failed request is ERROR (`parsers/base.py:26-27`) | `SamrukParser._search` drops failed searches; when nothing is left `parse` answers NOT_FOUND, even with a dead browser |

Further disagreements that need no run:

* `src/README.md:15` promises the answer ALREADY_SUCCESS;
  `monitor_service.already_running` keeps only RUNNING (line 72), so a finished date can
  be run again.
* `src/README.md:5` and `src/tests/test_orchestrator.py:52` put PARSE_GOSZAKUP before
  PARSE_SAMRUK; `orchestrator.run` (71–76) does the opposite.
* After a restart in the middle of a task the RUNNING row stays: no code closes it, and
  `monitor_repo.already_running` (160) keeps answering RUNNING for the date.
  `RunningRowHasOwner` shows that interrupted runs are the only way to get there.
* `services/orchestrator.py:34` says that the failure of one contract must not bring
  down the batch. The parser's exceptions do not, but `mark_in_progress` and
  `save_result` are outside the `try`: an error of either ends the task and the run
  (`CallFails` and `BodyFails` in the model, `InProgressHasOwner` for what is left).
* `src/README.md:31`, the docstring of `parsers/base.py` and `src/tests/test_parsers.py`
  (the Samruk stub that answers ERROR) call the adapters stubs; they are implemented.
* `parsers/goszakup_parser.py:31-32` says that the last segment is raised "exactly
  once"; `_LAST_SEGMENT_MAX_OFFSET` is 3, and the loop tries +1, +2 and +3.
* The docstring of `_shift_last_segment` says that the width is kept; "99" + 1 is "100".
  `ShiftsLastSegment` asks for the width only as far as the sum fits.
* The docstring of `normalize_nomer` exempts segments of zeros from stripping; "000"
  becomes "0", as the tests expect.

## 6. Not modelled

* An orderly shutdown as a behaviour of its own: the server waits for its background
  tasks until the container kills it, which is `Crash`. `aclose` of the adapters is
  called nowhere.
* The text of pages: which markup holds the number, the type and the dates, and the
  regular expressions that find them.
* That a list of Samruk has been drawn completely when it is read: nothing in the code
  tells.
* What Playwright does inside a call, and the memory of the drivers that failed launches
  leave behind (`drivers` counts them).
* Rebuilding of the target table by Informatica: `vitrina` starts without statuses and
  only the merge fills it.
* GET endpoints, logging, configuration, the API key, wording of answers: no state.
* Creation and sizes of the pool: calls are synchronous, one connection is in use at a
  time.
* Column widths: a value that does not fit is a database error of `save_result`.

## 7. Plan

Done: the service with its journal, queue and runs; both adapters against the contract
of their base class; the functions on contract numbers; theorems for all safety
properties that the runs check. Left:

1. **Composition**: `ParserService` over `ParserAdapter` as a component with requests
   and answers, in place of the results that `SaveRow` draws from `ParseResult`.
2. **Several dates**: what still holds of the attempt limit when runs of two dates share
   the queue.
3. **Neighbours**: `GoszakupParser` over the numbers of `ContractNumber`, with
   `_shift_last_segment` in place of the constant `Shift`.
