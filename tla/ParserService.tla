---------------------------- MODULE ParserService ----------------------------
(***************************************************************************)
(* The service as a whole: the endpoints of app/api/routes.py, the runs of *)
(* app/services/orchestrator.py and the TaskMonitor blocks around them,    *)
(* over the tables of KontrParse and the journal of ProcessMonitor.        *)
(*                                                                         *)
(* One process, one event loop.  Every database call is synchronous, so    *)
(* what lies between two awaits is atomic for the other requests but not   *)
(* for a crash, which can fall between two transactions.  A step is        *)
(* therefore one transaction, and  loop  names the run that has executed a *)
(* step and not reached an await since; the others wait for it.  The       *)
(* awaits are parser.parse, asyncio.sleep, and the sending of the response *)
(* that precedes a background task.                                        *)
(***************************************************************************)
EXTENDS KontrParse, ProcessMonitor, FiniteSets

CONSTANTS
  Free,        \* value of loop when no run occupies the event loop
  NoContract,
  Today,       \* date.today(), the business date of manual parsing
  Endpoints,   \* the POST endpoints that are called
  MaxBatch,    \* bound: contracts in one parse-many request
  MaxCrashes,  \* bound: process restarts
  MaxDbErrors  \* bound: database calls that raise

Group == {"samruk", "gos"}

Kinds == {"trigger", "one", "many", "merge", "rerun"}

ASSUME ServiceAssumption ==
  /\ Free \notin Runs
  /\ NoContract \notin Contracts
  /\ Today \in Dates
  /\ Endpoints \subseteq Kinds
  /\ MaxBatch \in Nat /\ MaxCrashes \in Nat /\ MaxDbErrors \in Nat

VARIABLES
  job,       \* what the coroutine of each process_run_id holds
  loop,
  raced,     \* history: dates with two runs accepted before either started
  crashes, dbErrors

vars == <<queue, vitrina, monitor, job, loop, raced, crashes, dbErrors>>

faults == <<crashes, dbErrors>>

-----------------------------------------------------------------------------
(* The task lists of the runs.                                             *)

FirstTask ==
  [trigger |-> "GAP_ANALYSIS",
   one     |-> "PARSE_SINGLE_CONTRACT",
   many    |-> "PARSE_SAMRUK_MANY",
   merge   |-> "UPDATE_TARGET_TABLE",
   rerun   |-> "RERUN_NOT_FOUND"]

\* Mutant: a misspelt task name.
NextTaskMisspelt(task, merge) ==
  CASE task = "GAP_ANALYSIS" -> "PARSE_SAMRUK"
    [] task = "PARSE_SAMRUK" -> "PARSE_GOZSAKUP"
    [] task = "PARSE_SAMRUK_MANY" -> "PARSE_GOSZAKUP_MANY"
    [] OTHER -> "NONE"

NextTask(task, merge) ==
  CASE task = "GAP_ANALYSIS" -> "PARSE_SAMRUK"
    [] task = "PARSE_SAMRUK" -> "PARSE_GOSZAKUP"
    [] task = "PARSE_GOSZAKUP" /\ merge -> "UPDATE_TARGET_TABLE"
    [] task = "PARSE_SAMRUK_MANY" -> "PARSE_GOSZAKUP_MANY"
    [] OTHER -> "NONE"

\* Where the body of the with-block begins.
Body(task) ==
  CASE task = "GAP_ANALYSIS" -> "fetch"
    [] task = "RERUN_NOT_FOUND" -> "requeue"
    [] task = "UPDATE_TARGET_TABLE" -> "merge"
    [] OTHER -> "rows"

\* Mutant: the rerun forgets its second list.
GroupsOfForgetsGos(task) ==
  CASE task \in {"PARSE_SAMRUK", "PARSE_SAMRUK_MANY", "RERUN_NOT_FOUND"} -> {"samruk"}
    [] task \in {"PARSE_GOSZAKUP", "PARSE_GOSZAKUP_MANY"} -> {"gos"}
    [] task = "PARSE_SINGLE_CONTRACT" -> Group
    [] OTHER -> {}

\* The parsers that the rows of a task are handed to.
GroupsOf(task) ==
  CASE task \in {"PARSE_SAMRUK", "PARSE_SAMRUK_MANY"} -> {"samruk"}
    [] task \in {"PARSE_GOSZAKUP", "PARSE_GOSZAKUP_MANY"} -> {"gos"}
    [] task \in {"PARSE_SINGLE_CONTRACT", "RERUN_NOT_FOUND"} -> Group
    [] OTHER -> {}

-----------------------------------------------------------------------------
(* A run's local state.                                                    *)

PC ==
  {"idle", "accepted", "create", "open", "fetch", "requeue", "merge",
   "rows", "parsing", "close", "abort", "finished", "raised", "killed"}

Ended == {"finished", "raised", "killed"}

NoTodo == [g \in Group |-> NoRows]

Job ==
  [kind    : Kinds,
   pc      : PC,
   date    : Dates,
   merge   : BOOLEAN,
   task    : TaskNames \cup {"NONE"},
   mon     : Nat,                              \* RUN_ID of the open row, or 0
   items   : Seq(Contracts \X Portals),        \* requested, no row yet
   known   : BOOLEAN,                          \* every portal is recognised
   todo    : [Group -> [Contracts -> Nat]],    \* GapRows still to parse
   attempt : [Contracts -> Nat],               \* their attempt_number
   current : Contracts \cup {NoContract}]      \* marked and not yet saved

IdleJob ==
  [kind |-> "trigger", pc |-> "idle", date |-> Today, merge |-> FALSE,
   task |-> "NONE", mon |-> 0, items |-> << >>, known |-> TRUE,
   todo |-> NoTodo, attempt |-> NoRows, current |-> NoContract]

\* The locals die with the coroutine; what it was doing is kept in view.
EndedJob(j, pc) ==
  [IdleJob EXCEPT !.kind = j.kind, !.pc = pc, !.current = j.current]

Live(r) == job[r].pc \notin Ended \cup {"idle"}

Turn(r) == loop \in {Free, r}

\* The run goes on with locals j; it keeps the loop or reaches an await.
Goto(r, j)  == job' = [job EXCEPT ![r] = j] /\ loop' = r
Await(r, j) == job' = [job EXCEPT ![r] = j] /\ loop' = Free

\* lower(): which of the two comprehensions, or branches, take a portal text.
Routed(g, portal) == portal \in (IF g = "samruk" THEN IsSamruk ELSE IsGos)

Split(list, rows) ==
  [g \in Group |->
     [c \in Contracts |-> IF Routed(g, rows[c].portal) THEN list[c] ELSE 0]]

\* Contract c may be the next row of list g.  A list is in no particular order;
\* RERUN_NOT_FOUND works through one list and then through the other.
Due(j, g, c) ==
  /\ g \in GroupsOf(j.task)
  /\ Has(j.todo[g], c)
  /\ g = "gos" /\ "samruk" \in GroupsOf(j.task) => j.todo["samruk"] = NoRows

NothingDue(j) == \A g \in Group, c \in Contracts : ~Due(j, g, c)

Closing(j) == j.pc = "close" \/ (j.pc = "rows" /\ NothingDue(j))

-----------------------------------------------------------------------------
Init ==
  /\ TablesInit
  /\ MonitorInit
  /\ job = [r \in Runs |-> IdleJob]
  /\ loop = Free
  /\ raced = {}
  /\ crashes = 0
  /\ dbErrors = 0

-----------------------------------------------------------------------------
(* Requests.  A handler runs while no other run occupies the loop.         *)

Called(r, kind) ==
  /\ kind \in Endpoints
  /\ loop = Free
  /\ job[r].pc = "idle"
  /\ UNCHANGED <<tables, monitor, faults>>

NewJob(kind, pc, date) ==
  [IdleJob EXCEPT !.kind = kind, !.pc = pc, !.date = date,
                  !.task = FirstTask[kind]]

Pending(d) ==
  \E s \in Runs : /\ job[s].pc = "accepted"
                  /\ job[s].kind = "trigger"
                  /\ job[s].date = d

Trigger(r, d, merge) ==
  /\ Called(r, "trigger")
  /\ ~AlreadyRunning(d)
  /\ raced' = IF Pending(d) THEN raced \cup {d} ELSE raced
  /\ Await(r, [NewJob("trigger", "accepted", d) EXCEPT !.merge = merge])

RerunNotFound(r, d) ==
  /\ Called(r, "rerun")
  /\ ~IsTaskRunning(d, "RERUN_NOT_FOUND")
  /\ NotFoundContracts # {}
  /\ Await(r, NewJob("rerun", "accepted", d))
  /\ UNCHANGED raced

\* The GapRows of a manual request carry the caller's portal text.  run_single
\* picks one parser with if/elif, run_many filters the rows twice.
Asked(kind, items) ==
  [g \in Group |->
     [c \in Contracts |->
        Cardinality({i \in DOMAIN items :
          /\ items[i][1] = c
          /\ Routed(g, items[i][2])
          /\ kind = "one" /\ g = "gos" => ~Routed("samruk", items[i][2])})]]

Recognised(items) ==
  \A i \in DOMAIN items : \E g \in Group : Routed(g, items[i][2])

Parse(r, kind, items) ==
  /\ Called(r, kind)
  /\ Goto(r, [NewJob(kind, "create", Today) EXCEPT
                !.items = items,
                !.known = Recognised(items),
                !.todo  = Asked(kind, items)])
  /\ UNCHANGED raced

Batches == UNION {[1..n -> Contracts \X Portals] : n \in 1..MaxBatch}

ParseOne(r)  == \E item \in Contracts \X Portals : Parse(r, "one", <<item>>)
ParseMany(r) == \E items \in Batches : Parse(r, "many", items)

Merge(r, d) ==
  /\ Called(r, "merge")
  /\ Goto(r, NewJob("merge", "open", d))
  /\ UNCHANGED raced

\* ALREADY_RUNNING and NOTHING_TO_RERUN: an answer and nothing else.
Rejected ==
  /\ loop = Free
  /\ \E d \in Dates :
       \/ "trigger" \in Endpoints /\ AlreadyRunning(d)
       \/ /\ "rerun" \in Endpoints
          /\ IsTaskRunning(d, "RERUN_NOT_FOUND") \/ NotFoundContracts = {}
  /\ UNCHANGED vars

Request(r) ==
  \/ \E d \in Dates, merge \in BOOLEAN : Trigger(r, d, merge)
  \/ \E d \in Dates : RerunNotFound(r, d) \/ Merge(r, d)
  \/ ParseOne(r)
  \/ ParseMany(r)

-----------------------------------------------------------------------------
(* The steps of a run, one transaction each.                               *)

\* Mutant: the loop over the request never advances.
CreateRowNeverAdvances(r) ==
  LET j == job[r] IN
  /\ Turn(r)
  /\ j.pc = "create"
  /\ GetOrCreate(Head(j.items)[1], Head(j.items)[2])
  /\ Goto(r, j)
  /\ UNCHANGED <<monitor, raced, faults>>

\* get_or_create_kontr_id for the next contract of the request.  The portal
\* texts are looked at only when every contract has its row; an unknown one
\* raises ValueError, which the handler turns into a 400.
CreateRow(r) ==
  LET j == job[r] IN
  /\ Turn(r)
  /\ j.pc = "create"
  /\ GetOrCreate(Head(j.items)[1], Head(j.items)[2])
  /\ \/ /\ Len(j.items) > 1
        /\ Goto(r, [j EXCEPT !.items = Tail(@)])
     \/ /\ Len(j.items) = 1
        /\ j.known
        /\ Goto(r, [j EXCEPT !.items = << >>, !.pc = "open"])
     \/ /\ Len(j.items) = 1
        /\ ~j.known
        /\ Await(r, EndedJob(j, "raised"))
  /\ UNCHANGED <<monitor, raced, faults>>

\* TaskMonitor.__enter__
OpenTask(r) ==
  LET j == job[r] IN
  /\ Turn(r)
  /\ j.pc \in {"accepted", "open"}
  /\ LogStart(r, j.task, j.date)
  /\ Goto(r, [j EXCEPT !.pc = Body(j.task), !.mon = Len(monitor) + 1])
  /\ UNCHANGED <<tables, raced, faults>>

FetchStep(r) ==
  LET j == job[r] IN
  /\ Turn(r)
  /\ j.pc = "fetch"
  /\ FetchGaps
  /\ Goto(r, [j EXCEPT
                !.pc      = "close",
                !.todo    = Split(SelectedForRun, MergedQueue),
                !.attempt = [c \in Contracts |->
                               IF Has(SelectedForRun, c)
                               THEN MergedQueue[c].attempts ELSE 0]])
  /\ UNCHANGED <<monitor, raced, faults>>

RequeueStep(r) ==
  LET j == job[r] IN
  /\ Turn(r)
  /\ j.pc = "requeue"
  /\ RequeueNotFound
  /\ Goto(r, [j EXCEPT !.pc = "rows", !.todo = Split(NotFoundRows, queue)])
  /\ UNCHANGED <<monitor, raced, faults>>

MergeStep(r) ==
  /\ Turn(r)
  /\ job[r].pc = "merge"
  /\ MergeFromStaging
  /\ Goto(r, [job[r] EXCEPT !.pc = "close"])
  /\ UNCHANGED <<monitor, raced, faults>>

\* mark_in_progress, then the call of the parser up to its first await.
MarkRow(r) ==
  LET j == job[r] IN
  /\ Turn(r)
  /\ j.pc = "rows"
  /\ \E g \in Group, c \in Contracts :
       /\ Due(j, g, c)
       /\ MarkInProgress(c)
       /\ Await(r, [j EXCEPT !.pc = "parsing", !.current = c,
                             !.todo[g][c] = @ - 1])
  /\ UNCHANGED <<monitor, raced, faults>>

\* The parser returns, or raises, which counts as an ERROR.  A batch sleeps
\* after each row; run_single goes on to the end of its task.
SaveRow(r) ==
  LET j == job[r]
      next == [j EXCEPT !.pc = "rows", !.current = NoContract] IN
  /\ Turn(r)
  /\ j.pc = "parsing"
  /\ \E res \in ParseResult : SaveResult(j.current, res, j.attempt[j.current])
  /\ IF j.kind = "one" THEN Goto(r, next) ELSE Await(r, next)
  /\ UNCHANGED <<monitor, raced, faults>>

\* Mutant: an await between two tasks of a run.
CloseTaskAwaits(r) ==
  LET j == job[r]
      next == NextTask(j.task, j.merge) IN
  /\ Turn(r)
  /\ Closing(j)
  /\ LogEnd(j.mon, "SUCCESS")
  /\ Await(r, IF next = "NONE"
              THEN EndedJob(j, "finished")
              ELSE [j EXCEPT !.pc = "open", !.task = next, !.mon = 0])
  /\ UNCHANGED <<tables, raced, faults>>

\* TaskMonitor.__exit__ without an exception, and on to the next task.
CloseTask(r) ==
  LET j == job[r]
      next == NextTask(j.task, j.merge) IN
  /\ Turn(r)
  /\ Closing(j)
  /\ LogEnd(j.mon, "SUCCESS")
  /\ IF next = "NONE"
     THEN Await(r, EndedJob(j, "finished"))
     ELSE Goto(r, [j EXCEPT !.pc = "open", !.task = next, !.mon = 0])
  /\ UNCHANGED <<tables, raced, faults>>

\* Mutant: __exit__ swallows the exception and the run goes on.
AbortSwallowed(r) ==
  LET j == job[r]
      next == NextTask(j.task, j.merge) IN
  /\ Turn(r)
  /\ j.pc = "abort"
  /\ LogEnd(j.mon, "FAILED")
  /\ IF next = "NONE"
     THEN Await(r, EndedJob(j, "finished"))
     ELSE Goto(r, [j EXCEPT !.pc = "open", !.task = next, !.mon = 0])
  /\ UNCHANGED <<tables, raced, faults>>

\* TaskMonitor.__exit__ with an exception, which goes on to end the run.
Abort(r) ==
  LET j == job[r] IN
  /\ Turn(r)
  /\ j.pc = "abort"
  /\ LogEnd(j.mon, "FAILED")
  /\ Await(r, EndedJob(j, "raised"))
  /\ UNCHANGED <<tables, raced, faults>>

Step(r) ==
  \/ CreateRow(r) \/ OpenTask(r) \/ FetchStep(r) \/ RequeueStep(r)
  \/ MergeStep(r) \/ MarkRow(r) \/ SaveRow(r) \/ CloseTask(r) \/ Abort(r)

-----------------------------------------------------------------------------
(* Failures.  get_connection rolls the transaction back and re-raises.     *)

DbError(r) ==
  /\ dbErrors < MaxDbErrors
  /\ dbErrors' = dbErrors + 1
  /\ Turn(r)
  /\ UNCHANGED <<tables, monitor, raced, crashes>>

\* In the body of a task: __exit__ will record it.  Only parser.parse is
\* guarded by the try of _parse_and_stage and run_single.
BodyFails(r) ==
  LET j == job[r] IN
  /\ DbError(r)
  /\ \/ j.pc \in {"fetch", "requeue", "merge", "parsing"}
     \/ j.pc = "rows" /\ ~NothingDue(j)
  /\ Goto(r, [j EXCEPT !.pc = "abort"])

\* Outside the body of a task: get_or_create_kontr_id, log_start, log_end.
CallFails(r) ==
  LET j == job[r] IN
  /\ DbError(r)
  /\ j.pc \in {"accepted", "create", "open", "abort"} \/ Closing(j)
  /\ Await(r, EndedJob(j, "raised"))

\* The process dies and the container restarts it; the tables remain.
Crash ==
  /\ crashes < MaxCrashes
  /\ crashes' = crashes + 1
  /\ \E r \in Runs : Live(r)
  /\ job' = [r \in Runs |-> IF Live(r) THEN EndedJob(job[r], "killed") ELSE job[r]]
  /\ loop' = Free
  /\ UNCHANGED <<tables, monitor, raced, dbErrors>>

\* Every process_run_id has been used: the model stops here.
Quiescent ==
  /\ \A r \in Runs : job[r].pc \in Ended
  /\ UNCHANGED vars

-----------------------------------------------------------------------------
Next ==
  \/ \E r \in Runs : Request(r) \/ Step(r) \/ BodyFails(r) \/ CallFails(r)
  \/ Crash
  \/ Rejected
  \/ Quiescent

\* asyncio resumes ready coroutines in FIFO order, and every await ends: the
\* sleeps by themselves, the parsers by their timeouts.
Fairness == \A r \in Runs : WF_vars(Step(r))

Spec == Init /\ [][Next]_vars /\ Fairness

-----------------------------------------------------------------------------
(* Properties.                                                             *)

\* Types of all variables.
TypeOK ==
  /\ TablesTypeOK
  /\ MonitorTypeOK
  /\ job \in [Runs -> Job]
  /\ loop \in Runs \cup {Free}
  /\ raced \subseteq Dates
  /\ crashes \in Nat /\ dbErrors \in Nat

PipelineLive(r, d) ==
  Live(r) /\ job[r].kind = "trigger" /\ job[r].date = d

\* The journal is the only lock of /parser/trigger: as long as no request was
\* accepted in the gap between an acceptance and its GAP_ANALYSIS row, a
\* business date has at most one live pipeline run, across all tasks of the
\* run, all awaits, and whatever other runs, merges, failures and restarts
\* write to the journal.
SingleRunUnlessRaced ==
  \A d \in Dates \ raced : \A r, s \in Runs :
    PipelineLive(r, d) /\ PipelineLive(s, d) => r = s

-----------------------------------------------------------------------------
(* Why SingleRunUnlessRaced holds: the parts of its inductive invariant.   *)

\* Between two of these points and the next there is no await.
Busy == {"create", "open", "fetch", "requeue", "merge", "close", "abort"}

LoopIsHeld == \A r \in Runs : job[r].pc \in Busy => loop = r

\* The points inside a with TaskMonitor block.
InTask == {"fetch", "requeue", "merge", "rows", "parsing", "close", "abort"}

TaskRowIsOpen ==
  \A r \in Runs :
    job[r].pc \in InTask =>
      /\ job[r].mon \in DOMAIN monitor
      /\ monitor[job[r].mon] = [run |-> r, task |-> job[r].task,
                                date |-> job[r].date, status |-> "RUNNING"]

TaskMatchesKind ==
  \A r \in Runs :
    Live(r) =>
      /\ job[r].task \in TaskNames
      /\ job[r].task \in {"GAP_ANALYSIS", "PARSE_SAMRUK", "PARSE_GOSZAKUP"}
           => job[r].kind = "trigger"
      /\ job[r].kind = "trigger" =>
           /\ job[r].task \in PipelineTasks
           /\ job[r].pc # "requeue"
           /\ job[r].pc \in {"rows", "parsing"}
                => job[r].task \in {"PARSE_SAMRUK", "PARSE_GOSZAKUP"}

ParsingHasRow ==
  \A r \in Runs : job[r].pc = "parsing" => job[r].current \in Contracts

\* While a pipeline run waits at an await, the row that guards its business
\* date has not been superseded by a later row of the same task.
WaitingRunIsVisible ==
  \A r \in Runs :
    /\ job[r].kind = "trigger"
    /\ job[r].pc \in {"rows", "parsing"}
    /\ job[r].date \notin raced
    => IsLatest(job[r].mon)

\* Before and between its tasks a run has no journal row.
NoRowOutsideTask ==
  \A r \in Runs : job[r].pc \in {"accepted", "create", "open"} => job[r].mon = 0

\* The loop is held wherever the code does not await, the row of the current
\* task is open and belongs to it, and the lock of a waiting run is in force.
RunInv ==
  /\ LoopIsHeld
  /\ TaskRowIsOpen
  /\ NoRowOutsideTask
  /\ TaskMatchesKind
  /\ ParsingHasRow
  /\ WaitingRunIsVisible

-----------------------------------------------------------------------------
\* A RUNNING row is the open task of a live run, or was left by a run that a
\* restart killed or whose database calls failed: nothing else can block a
\* date.
RunningRowHasOwner ==
  \A i \in DOMAIN monitor :
    monitor[i].status = "RUNNING" =>
      LET j == job[monitor[i].run] IN
      \/ j.pc \in {"raised", "killed"}
      \/ Live(monitor[i].run) /\ j.mon = i /\ j.task = monitor[i].task

\* An IN_PROGRESS contract is being parsed by somebody, or its run was
\* interrupted between mark_in_progress and save_result.
InProgressHasOwner ==
  \A c \in Contracts :
    queue[c].status = "IN_PROGRESS" =>
      \E r \in Runs : /\ job[r].current = c
                      /\ job[r].pc \in {"parsing", "abort", "raised", "killed"}

\* The run still has c on a list or in a parser.
Holds(r, c) ==
  /\ Live(r)
  /\ job[r].current = c \/ \E g \in Group : Has(job[r].todo[g], c)

\* Where pipeline runs alone work on the queue, one date at a time, no row is
\* attempted more than MaxAttempts times and a row that has used them up is
\* not left as ERROR for the next run to skip for ever: the attempt_number
\* read at GAP_ANALYSIS is still the row's own when its result is saved.
AttemptsRespectLimit ==
  raced = {} =>
    \A c \in Contracts :
      /\ queue[c].attempts <= MaxAttempts
      /\ queue[c].status = "ERROR" => queue[c].attempts < MaxAttempts

\* Under the same conditions a contract that was parsed is never reopened,
\* although the runs work from lists read long before.
DoneIsFinal ==
  [][\A c \in Contracts :
       raced = {} /\ queue[c].status = "DONE" => queue'[c] = queue[c]]_vars

\* Under the same conditions the target table shows, for every contract it
\* has a status for, the status that the queue holds as DONE.
PublishedIsParsed ==
  raced = {} =>
    \A c \in Contracts :
      vitrina[c] # NoStat =>
        queue[c].status = "DONE" /\ queue[c].stat = vitrina[c]

\* Without failures, a contract of a known portal that is queued as NEW or
\* IN_PROGRESS is on the list of a live run: none is forgotten.
QueuedRowIsHeld ==
  \A c \in Contracts :
    /\ queue[c].status \in {"NEW", "IN_PROGRESS"}
    /\ queue[c].portal \in LikeSamruk \cup LikeGos
    => \E r \in Runs : Holds(r, c)

\* Nothing but reruns and merges has been accepted.
OnlyReruns ==
  \A r \in Runs : job[r].pc # "idle" => job[r].kind \in {"rerun", "merge"}

\* A portal text that names both portals puts a contract on both lists.
OnOneList(c) == queue[c].portal \notin IsSamruk \cap IsGos

\* fetch_and_requeue_not_found takes its rows without FOR UPDATE and the
\* endpoint's check comes long before it; still, however many reruns of
\* whatever dates are under way, no contract is in the hands of two of them:
\* a row stays NEW or IN_PROGRESS until the rerun that took it has done with it.
RerunsDisjoint ==
  OnlyReruns =>
    \A r, s \in Runs : \A c \in Contracts :
      OnOneList(c) /\ Holds(r, c) /\ Holds(s, c) => r = s

\* The journal is a task log in the sense of TaskLog.
Journal ==
  INSTANCE TaskLog WITH
    log        <- monitor,
    FirstTasks <- {FirstTask[kind] : kind \in Kinds},
    Follows    <- {<<"GAP_ANALYSIS", "PARSE_SAMRUK">>,
                   <<"PARSE_SAMRUK", "PARSE_GOSZAKUP">>,
                   <<"PARSE_GOSZAKUP", "UPDATE_TARGET_TABLE">>,
                   <<"PARSE_SAMRUK_MANY", "PARSE_GOSZAKUP_MANY">>}

JournalIsTaskLog == Journal!Spec

\* Without failures every accepted request comes to its end, however the
\* others keep the event loop busy.
RunsEnd == \A r \in Runs : Live(r) ~> job[r].pc \in Ended

\* Without failures a business date that answers ALREADY_RUNNING opens again.
DatesReopen == \A d \in Dates : AlreadyRunning(d) ~> ~AlreadyRunning(d)
=============================================================================
