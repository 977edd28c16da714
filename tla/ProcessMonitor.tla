--------------------------- MODULE ProcessMonitor ---------------------------
(***************************************************************************)
(* MSB_DB_PROCESS_MONITOR (app/db/monitor_repo.py): the journal of task    *)
(* executions and the queries that use it as a lock.  Rows are only ever   *)
(* appended, so the position of a row is both its RUN_ID and its rank by   *)
(* START_TIME.                                                             *)
(***************************************************************************)
EXTENDS Naturals, Sequences

CONSTANTS
  Runs,   \* process_run_ids, one per accepted request
  Dates   \* business dates

PipelineTasks ==
  {"GAP_ANALYSIS", "PARSE_SAMRUK", "PARSE_GOSZAKUP", "UPDATE_TARGET_TABLE"}

\* The tasks _ALREADY_RUNNING_SQL leaves out.
ManualTasks ==
  {"PARSE_SINGLE_CONTRACT", "PARSE_SAMRUK_MANY", "PARSE_GOSZAKUP_MANY",
   "RERUN_NOT_FOUND"}

TaskNames == PipelineTasks \cup ManualTasks

MonitorStatus == {"RUNNING", "SUCCESS", "FAILED"}

MonitorRow ==
  [run : Runs, task : TaskNames, date : Dates, status : MonitorStatus]

VARIABLE monitor

MonitorTypeOK == monitor \in Seq(MonitorRow)

MonitorInit == monitor = << >>

LogStart(run, task, date) ==
  monitor' = Append(monitor,
               [run |-> run, task |-> task, date |-> date,
                status |-> "RUNNING"])

\* Mutant: closes the row that was opened last.
LogEndOfLastRow(i, status) ==
  monitor' = [monitor EXCEPT ![Len(monitor)].status = status]

\* UPDATE ... WHERE RUN_ID = :run_id, whatever the row's present status.
LogEnd(i, status) ==
  monitor' = [monitor EXCEPT ![i].status = status]

-----------------------------------------------------------------------------
\* Row i is the last one of its task for its business date.
IsLatest(i) ==
  \A k \in DOMAIN monitor :
    k > i => ~ (/\ monitor[k].task = monitor[i].task
                /\ monitor[k].date = monitor[i].date)

IsTaskRunning(date, task) ==
  \E i \in DOMAIN monitor :
    /\ monitor[i].date = date
    /\ monitor[i].task = task
    /\ monitor[i].status = "RUNNING"
    /\ IsLatest(i)

\* Mutant: any answer of monitor_repo.already_running counts.
AlreadyRunningOrDone(date) ==
  \/ \E task \in TaskNames \ ManualTasks : IsTaskRunning(date, task)
  \/ \A task \in PipelineTasks : \E i \in DOMAIN monitor :
       /\ monitor[i].date = date
       /\ monitor[i].task = task
       /\ monitor[i].status = "SUCCESS"
       /\ IsLatest(i)

\* monitor_service.already_running keeps only the RUNNING answer of
\* monitor_repo.already_running; its SUCCESS answer is dropped.
AlreadyRunning(date) ==
  \E task \in TaskNames \ ManualTasks : IsTaskRunning(date, task)
=============================================================================
