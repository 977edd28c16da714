------------------------------- MODULE TaskLog -------------------------------
(***************************************************************************)
(* What the journal MSB_DB_PROCESS_MONITOR promises to the people who read *)
(* it, whatever the service does: the rows of one process_run_id form a    *)
(* chain of tasks in pipeline order, all for one business date, of which   *)
(* at most the last one is unfinished or failed; a row is finished once    *)
(* and never changes again.  ParserService is shown to implement it.       *)
(***************************************************************************)
EXTENDS Naturals, Sequences

CONSTANTS
  Runs, Dates,
  FirstTasks,   \* the tasks a run may begin with
  Follows       \* <<a, b>>: task b may come next after task a

VARIABLE log

Row(run, task, date, status) ==
  [run |-> run, task |-> task, date |-> date, status |-> status]

OfRun(run) == {i \in DOMAIN log : log[i].run = run}

Init == log = << >>

\* A run begins.
Begin(run, task, date) ==
  /\ OfRun(run) = {}
  /\ task \in FirstTasks
  /\ log' = Append(log, Row(run, task, date, "RUNNING"))

\* The task after the run's last one, provided that all of them succeeded.
Continue(run, task) ==
  /\ \A i \in OfRun(run) : log[i].status = "SUCCESS"
  /\ \E last \in OfRun(run) :
       /\ \A i \in OfRun(run) : i <= last
       /\ <<log[last].task, task>> \in Follows
       /\ log' = Append(log, Row(run, task, log[last].date, "RUNNING"))

Finish(i, status) ==
  /\ log[i].status = "RUNNING"
  /\ log' = [log EXCEPT ![i].status = status]

Next ==
  \/ \E run \in Runs, task \in FirstTasks, date \in Dates : Begin(run, task, date)
  \/ \E run \in Runs, edge \in Follows : Continue(run, edge[2])
  \/ \E i \in DOMAIN log, status \in {"SUCCESS", "FAILED"} : Finish(i, status)

Spec == Init /\ [][Next]_log
=============================================================================
