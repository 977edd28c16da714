------------------------- MODULE ParserServiceProofs -------------------------
(***************************************************************************)
(* Theorems about ParserService, for any number of runs, contracts, dates  *)
(* and failures.  First the types of the run-local records, then what a    *)
(* step of each kind does to the journal, then the inductive invariant     *)
(* conjunct by conjunct, and last that no journal row and no contract is   *)
(* left open without an owner.                                             *)
(***************************************************************************)
EXTENDS ParserService, FiniteSetTheorems, SequenceTheorems, TLAPS

-----------------------------------------------------------------------------
(* Types of the records that requests and steps build.                     *)

\* The run that has not been requested is a Job.
LEMMA IdleJobType == IdleJob \in Job
BY ServiceAssumption, EmptySeq
   DEF IdleJob, Job, NoTodo, NoRows, Kinds, PC

\* The record kept of a run that is over is a Job.
LEMMA EndedJobType ==
  ASSUME NEW j \in Job, NEW pc \in PC
  PROVE  EndedJob(j, pc) \in Job
BY IdleJobType DEF EndedJob, Job

\* A request that needs no rows starts as a Job.
LEMMA NewJobType ==
  ASSUME NEW kind \in Kinds, NEW pc \in PC, NEW d \in Dates
  PROVE  NewJob(kind, pc, d) \in Job
<1>1. FirstTask[kind] \in TaskNames
  BY DEF Kinds, FirstTask, TaskNames, PipelineTasks, ManualTasks
<1> QED
  BY <1>1, IdleJobType DEF NewJob, Job

\* Splitting a list by portal gives two lists.
LEMMA SplitType ==
  ASSUME NEW list \in [Contracts -> Nat], NEW rows
  PROVE  Split(list, rows) \in [Group -> [Contracts -> Nat]]
BY DEF Split

\* The rows of a manual request are two finite lists.
LEMMA AskedType ==
  ASSUME NEW items \in Seq(Contracts \X Portals), NEW kind
  PROVE  Asked(kind, items) \in [Group -> [Contracts -> Nat]]
<1> DEFINE Of(g, c) ==
      {i \in DOMAIN items :
         /\ items[i][1] = c
         /\ Routed(g, items[i][2])
         /\ kind = "one" /\ g = "gos" => ~Routed("samruk", items[i][2])}
<1>1. \A g \in Group, c \in Contracts : Cardinality(Of(g, c)) \in Nat
  <2> SUFFICES ASSUME NEW g \in Group, NEW c \in Contracts
               PROVE  Cardinality(Of(g, c)) \in Nat
    OBVIOUS
  <2>1. DOMAIN items = 1..Len(items) /\ Len(items) \in Nat
    BY LenProperties
  <2>2. IsFiniteSet(1..Len(items))
    BY <2>1, FS_Interval
  <2>3. Of(g, c) \in SUBSET (1..Len(items))
    BY <2>1
  <2>4. IsFiniteSet(Of(g, c))
    BY <2>2, <2>3, FS_Subset
  <2> QED
    BY <2>4, FS_CardinalityType
<1>2. Asked(kind, items) = [g \in Group |-> [c \in Contracts |-> Cardinality(Of(g, c))]]
  BY DEF Asked
<1> QED
  BY <1>1, <1>2

\* The result of the queue's SELECT is a list of rows of the queue.
LEMMA SelectedForRunType ==
  ASSUME TablesTypeOK
  PROVE  /\ MergedQueue \in [Contracts -> QueueRow]
         /\ SelectedForRun \in [Contracts -> Nat]
<1>1. \A c \in Contracts : NewRow(VitrinaPortal[c]) \in QueueRow
  BY TablesAssumption DEF NewRow, QueueRow, QueueStatus, StatValue
<1>2. MergedQueue \in [Contracts -> QueueRow]
  BY <1>1 DEF MergedQueue, TablesTypeOK
<1>3. SelectedForRun \in [Contracts -> Nat]
  BY DEF SelectedForRun, Count
<1> QED
  BY <1>2, <1>3

-----------------------------------------------------------------------------
(* What the two writes of a TaskMonitor do to the journal.                 *)

\* log_start adds one row at the end and leaves the others alone.
LEMMA LogStartStep ==
  ASSUME MonitorTypeOK, NEW r \in Runs, NEW t \in TaskNames, NEW d \in Dates,
         LogStart(r, t, d)
  PROVE  /\ MonitorTypeOK'
         /\ Len(monitor) \in Nat
         /\ DOMAIN monitor = 1..Len(monitor)
         /\ DOMAIN monitor' = 1..(Len(monitor) + 1)
         /\ \A k \in DOMAIN monitor : monitor'[k] = monitor[k]
         /\ monitor'[Len(monitor) + 1]
              = [run |-> r, task |-> t, date |-> d, status |-> "RUNNING"]
<1> DEFINE row == [run |-> r, task |-> t, date |-> d, status |-> "RUNNING"]
<1>1. row \in MonitorRow
  BY DEF MonitorRow, MonitorStatus
<1>2. monitor \in Seq(MonitorRow) /\ monitor' = Append(monitor, row)
  BY DEF MonitorTypeOK, LogStart
<1> HIDE DEF row
<1>3. /\ Len(monitor) \in Nat
      /\ DOMAIN monitor = 1..Len(monitor)
  BY <1>2, LenProperties
<1>4. /\ monitor' \in Seq(MonitorRow)
      /\ Len(monitor') = Len(monitor) + 1
      /\ \A k \in 1..Len(monitor) : monitor'[k] = monitor[k]
      /\ monitor'[Len(monitor) + 1] = row
  BY <1>1, <1>2, AppendProperties
<1>5. DOMAIN monitor' = 1..(Len(monitor) + 1)
  BY <1>4, LenProperties
<1> QED
  BY <1>3, <1>4, <1>5 DEF row, MonitorTypeOK

\* log_end changes the status of one row and nothing else.
LEMMA LogEndStep ==
  ASSUME MonitorTypeOK, NEW i, NEW status \in MonitorStatus, LogEnd(i, status)
  PROVE  /\ MonitorTypeOK'
         /\ DOMAIN monitor' = DOMAIN monitor
         /\ \A k \in DOMAIN monitor :
              monitor'[k] = IF k = i THEN [monitor[k] EXCEPT !.status = status]
                                     ELSE monitor[k]
<1>1. /\ monitor \in Seq(MonitorRow)
      /\ monitor' = [monitor EXCEPT ![i].status = status]
  BY DEF MonitorTypeOK, LogEnd
<1>2. /\ Len(monitor) \in Nat
      /\ monitor \in [1..Len(monitor) -> MonitorRow]
      /\ DOMAIN monitor = 1..Len(monitor)
  BY <1>1, LenProperties
<1>3. /\ DOMAIN monitor' = DOMAIN monitor
      /\ \A k \in DOMAIN monitor :
           monitor'[k] = IF k = i THEN [monitor[k] EXCEPT !.status = status]
                                  ELSE monitor[k]
  BY <1>1, <1>2
<1>4. monitor' \in [1..Len(monitor) -> MonitorRow]
  BY <1>1, <1>2 DEF MonitorRow
<1>5. monitor' \in Seq(MonitorRow)
  BY <1>2, <1>4, SeqDef
<1> QED
  BY <1>3, <1>5 DEF MonitorTypeOK

-----------------------------------------------------------------------------
(* Type correctness.                                                       *)

\* The operations of the tables keep them well typed.
LEMMA TablesStep ==
  ASSUME TablesTypeOK
  PROVE  /\ FetchGaps => TablesTypeOK'
         /\ RequeueNotFound => TablesTypeOK'
         /\ MergeFromStaging => TablesTypeOK'
         /\ \A c \in Contracts, p \in Portals : GetOrCreate(c, p) => TablesTypeOK'
         /\ \A c \in Contracts : MarkInProgress(c) => TablesTypeOK'
         /\ \A c \in Contracts, res \in ParseResult, n \in Nat :
              SaveResult(c, res, n) => TablesTypeOK'
<1> USE DEF TablesTypeOK, QueueRow
<1>1. FetchGaps => TablesTypeOK'
  BY SelectedForRunType DEF FetchGaps
<1>2. RequeueNotFound => TablesTypeOK'
  <2>1. \A c \in Contracts :
          [queue[c] EXCEPT !.status = "NEW", !.attempts = 0] \in QueueRow
    BY DEF QueueStatus
  <2> QED
    BY <2>1 DEF RequeueNotFound
<1>3. MergeFromStaging => TablesTypeOK'
  BY DEF MergeFromStaging
<1>4. \A c \in Contracts, p \in Portals : GetOrCreate(c, p) => TablesTypeOK'
  BY DEF GetOrCreate, NewRow, QueueStatus, StatValue
<1>5. \A c \in Contracts : MarkInProgress(c) => TablesTypeOK'
  BY DEF MarkInProgress, QueueStatus
<1>6. \A c \in Contracts, res \in ParseResult, n \in Nat :
        SaveResult(c, res, n) => TablesTypeOK'
  <2> SUFFICES ASSUME NEW c \in Contracts, NEW res \in ParseResult, NEW n \in Nat,
                      SaveResult(c, res, n)
               PROVE  TablesTypeOK'
    OBVIOUS
  <2>1. res.status \in QueueStatus /\ res.stat \in StatValue
    BY DEF ParseResult, QueueStatus, StatValue
  <2>2. StatusOrNotFound(res.status, n) \in QueueStatus
    BY <2>1 DEF StatusOrNotFound, QueueStatus
  <2> QED
    BY <2>1, <2>2 DEF SaveResult
<1> QED
  BY <1>1, <1>2, <1>3, <1>4, <1>5, <1>6

\* A run that goes on with a Job keeps job and loop well typed.
LEMMA MoveType ==
  ASSUME job \in [Runs -> Job], NEW r \in Runs, NEW j \in Job
  PROVE  /\ Goto(r, j) => job' \in [Runs -> Job] /\ loop' \in Runs \cup {Free}
         /\ Await(r, j) => job' \in [Runs -> Job] /\ loop' \in Runs \cup {Free}
BY DEF Goto, Await

\* The initial state is well typed.
LEMMA InitType == Init => TypeOK
BY IdleJobType, TablesAssumption, ServiceAssumption, EmptySeq
   DEF Init, TypeOK, TablesInit, TablesTypeOK, MonitorInit, MonitorTypeOK,
       StatValue

\* Requests keep everything well typed.
LEMMA RequestType ==
  ASSUME TypeOK, NEW r \in Runs, Request(r)
  PROVE  TypeOK'
<1>0. /\ job \in [Runs -> Job]
      /\ \A p \in {"create", "accepted", "open"} : p \in PC
  BY DEF TypeOK, PC
<1> DEFINE Typed(j) == Goto(r, j) \/ Await(r, j)
<1>1. ASSUME NEW j \in Job, Typed(j), UNCHANGED <<tables, monitor, faults>>,
             raced' \subseteq Dates
      PROVE  TypeOK'
  BY <1>0, <1>1, MoveType
     DEF TypeOK, TablesTypeOK, MonitorTypeOK, tables, faults
<1>2. ASSUME NEW d \in Dates, NEW merge \in BOOLEAN, Trigger(r, d, merge)
      PROVE  TypeOK'
  <2>1. NewJob("trigger", "accepted", d) \in Job
    BY <1>0, NewJobType DEF Kinds
  <2>2. [NewJob("trigger", "accepted", d) EXCEPT !.merge = merge] \in Job
    BY <2>1 DEF Job
  <2>3. raced' \subseteq Dates
    BY <1>2 DEF Trigger, TypeOK
  <2> QED
    BY <1>1, <1>2, <2>2, <2>3 DEF Trigger, Called
<1>3. ASSUME NEW d \in Dates, RerunNotFound(r, d) PROVE TypeOK'
  <2>1. NewJob("rerun", "accepted", d) \in Job
    BY <1>0, NewJobType DEF Kinds
  <2> QED
    BY <1>1, <1>3, <2>1 DEF RerunNotFound, Called, TypeOK
<1>4. ASSUME NEW d \in Dates, Merge(r, d) PROVE TypeOK'
  <2>1. NewJob("merge", "open", d) \in Job
    BY <1>0, NewJobType DEF Kinds
  <2> QED
    BY <1>1, <1>4, <2>1 DEF Merge, Called, TypeOK
<1>5. ASSUME NEW kind \in Kinds, NEW items \in Seq(Contracts \X Portals),
             Parse(r, kind, items)
      PROVE  TypeOK'
  <2>1. NewJob(kind, "create", Today) \in Job
    BY <1>0, NewJobType, ServiceAssumption
  <2>2. Recognised(items) \in BOOLEAN
    BY DEF Recognised
  <2>3. Asked(kind, items) \in [Group -> [Contracts -> Nat]]
    BY AskedType
  <2>4. [NewJob(kind, "create", Today) EXCEPT
           !.items = items, !.known = Recognised(items),
           !.todo = Asked(kind, items)] \in Job
    BY <2>1, <2>2, <2>3 DEF Job
  <2> QED
    BY <1>1, <1>5, <2>4 DEF Parse, Called, TypeOK
<1>6. CASE ParseOne(r)
  <2>1. PICK item \in Contracts \X Portals : Parse(r, "one", <<item>>)
    BY <1>6 DEF ParseOne
  <2>2. <<item>> \in Seq(Contracts \X Portals)
    OBVIOUS
  <2> QED
    BY <1>5, <2>1, <2>2 DEF Kinds
<1>7. CASE ParseMany(r)
  <2>1. PICK items \in Batches : Parse(r, "many", items)
    BY <1>7 DEF ParseMany
  <2>2. items \in Seq(Contracts \X Portals)
    <3>1. PICK n \in 1..MaxBatch : items \in [1..n -> Contracts \X Portals]
      BY DEF Batches
    <3>2. n \in Nat
      BY ServiceAssumption
    <3> QED
      BY <3>1, <3>2, SeqDef
  <2> QED
    BY <1>5, <2>1, <2>2 DEF Kinds
<1> QED
  BY <1>2, <1>3, <1>4, <1>6, <1>7 DEF Request

\* Updates of a Job's fields that the steps make.
LEMMA JobItemsType ==
  ASSUME NEW j \in Job, NEW items \in Seq(Contracts \X Portals), NEW pc \in PC
  PROVE  /\ [j EXCEPT !.items = items] \in Job
         /\ [j EXCEPT !.items = items, !.pc = pc] \in Job
BY DEF Job

LEMMA JobTaskType ==
  ASSUME NEW j \in Job, NEW pc \in PC, NEW n \in Nat,
         NEW t \in TaskNames \cup {"NONE"}
  PROVE  /\ [j EXCEPT !.pc = pc, !.mon = n] \in Job
         /\ [j EXCEPT !.pc = pc, !.task = t, !.mon = n] \in Job
BY DEF Job

\* The steps of a run keep everything well typed.
LEMMA StepType ==
  ASSUME TypeOK, TaskMatchesKind, ParsingHasRow, NEW r \in Runs, Step(r)
  PROVE  TypeOK'
<1> DEFINE j == job[r]
<1>0. /\ TablesTypeOK /\ MonitorTypeOK
      /\ job \in [Runs -> Job] /\ j \in Job
  BY DEF TypeOK
<1>1. ASSUME NEW new \in Job, Goto(r, new) \/ Await(r, new),
             TablesTypeOK', MonitorTypeOK', UNCHANGED <<raced, faults>>
      PROVE  TypeOK'
  BY <1>0, <1>1, MoveType DEF TypeOK, faults
<1>2. /\ UNCHANGED tables => TablesTypeOK'
      /\ UNCHANGED monitor => MonitorTypeOK'
  BY <1>0 DEF TablesTypeOK, MonitorTypeOK, tables
<1>3. CASE CreateRow(r)
  <2>1. j.items # << >> /\ j.items \in Seq(Contracts \X Portals)
    BY <1>0, <1>3, EmptySeq DEF CreateRow, Job
  <2>2. /\ Head(j.items) \in Contracts \X Portals
        /\ Tail(j.items) \in Seq(Contracts \X Portals)
    BY <2>1, HeadTailProperties
  <2>3. TablesTypeOK'
    BY <1>0, <1>3, <2>2, TablesStep DEF CreateRow
  <2>4. [j EXCEPT !.items = Tail(j.items)] \in Job
    BY <1>0, <2>2, JobItemsType DEF PC
  <2>5. [j EXCEPT !.items = << >>, !.pc = "open"] \in Job
    BY <1>0, EmptySeq, JobItemsType DEF PC
  <2>6. EndedJob(j, "raised") \in Job
    BY <1>0, EndedJobType DEF PC
  <2> QED
    BY <1>1, <1>2, <1>3, <2>3, <2>4, <2>5, <2>6 DEF CreateRow
<1>4. CASE OpenTask(r)
  <2>1. j.task \in TaskNames
    BY <1>4 DEF OpenTask, TaskMatchesKind, Live, Ended
  <2>2. MonitorTypeOK' /\ Len(monitor) \in Nat
    BY <1>0, <1>4, <2>1, LogStartStep DEF OpenTask, Job
  <2>3. Body(j.task) \in PC
    BY DEF Body, PC
  <2>4. Len(monitor) + 1 \in Nat
    BY <2>2
  <2>5. [j EXCEPT !.pc = Body(j.task), !.mon = Len(monitor) + 1] \in Job
    BY <1>0, <2>3, <2>4, JobTaskType
  <2> QED
    BY <1>1, <1>2, <1>4, <2>2, <2>5 DEF OpenTask
<1>5. CASE FetchStep(r)
  <2>1. /\ MergedQueue \in [Contracts -> QueueRow]
        /\ SelectedForRun \in [Contracts -> Nat]
    BY <1>0, SelectedForRunType
  <2> DEFINE new == [j EXCEPT
                       !.pc      = "close",
                       !.todo    = Split(SelectedForRun, MergedQueue),
                       !.attempt = [c \in Contracts |->
                                      IF Has(SelectedForRun, c)
                                      THEN MergedQueue[c].attempts ELSE 0]]
  <2>2. [c \in Contracts |-> IF Has(SelectedForRun, c)
                             THEN MergedQueue[c].attempts ELSE 0]
          \in [Contracts -> Nat]
    BY <2>1 DEF QueueRow
  <2>3. Split(SelectedForRun, MergedQueue) \in [Group -> [Contracts -> Nat]]
    BY <2>1, SplitType
  <2>4. new \in Job
    BY <1>0, <2>2, <2>3 DEF Job, PC
  <2> HIDE DEF new
  <2>5. Goto(r, new) /\ FetchGaps /\ UNCHANGED <<monitor, raced, faults>>
    BY <1>5 DEF FetchStep, new
  <2> QED
    BY <1>0, <1>1, <1>2, <2>4, <2>5, TablesStep
<1>6. CASE RequeueStep(r)
  <2>1. NotFoundRows \in [Contracts -> Nat]
    BY DEF NotFoundRows, Count
  <2>2. [j EXCEPT !.pc = "rows", !.todo = Split(NotFoundRows, queue)] \in Job
    BY <1>0, <2>1, SplitType DEF Job, PC
  <2> QED
    BY <1>0, <1>1, <1>2, <1>6, <2>2, TablesStep DEF RequeueStep
<1>7. CASE MergeStep(r)
  <2>1. [j EXCEPT !.pc = "close"] \in Job
    BY <1>0 DEF Job, PC
  <2> QED
    BY <1>0, <1>1, <1>2, <1>7, <2>1, TablesStep DEF MergeStep
<1>8. CASE MarkRow(r)
  <2>1. PICK g \in Group, c \in Contracts :
          /\ Due(j, g, c)
          /\ MarkInProgress(c)
          /\ Await(r, [j EXCEPT !.pc = "parsing", !.current = c,
                                !.todo[g][c] = @ - 1])
    BY <1>8 DEF MarkRow
  <2>2. j.todo[g][c] - 1 \in Nat
    BY <1>0, <2>1 DEF Due, Has, Job
  <2>3. [j EXCEPT !.pc = "parsing", !.current = c, !.todo[g][c] = @ - 1] \in Job
    <3>1. [j.todo EXCEPT ![g][c] = @ - 1] \in [Group -> [Contracts -> Nat]]
      BY <1>0, <2>2 DEF Job
    <3> QED
      BY <1>0, <3>1 DEF Job, PC
  <2> QED
    BY <1>0, <1>1, <1>2, <1>8, <2>1, <2>3, TablesStep DEF MarkRow
<1>9. CASE SaveRow(r)
  <2>1. j.current \in Contracts /\ j.attempt[j.current] \in Nat
    BY <1>0, <1>9 DEF SaveRow, ParsingHasRow, Job
  <2>2. PICK res \in ParseResult :
          SaveResult(j.current, res, j.attempt[j.current])
    BY <1>9 DEF SaveRow
  <2>3. TablesTypeOK'
    BY <1>0, <2>1, <2>2, TablesStep
  <2>4. [j EXCEPT !.pc = "rows", !.current = NoContract] \in Job
    BY <1>0 DEF Job, PC
  <2> QED
    BY <1>1, <1>2, <1>9, <2>3, <2>4 DEF SaveRow
<1>10. CASE CloseTask(r)
  <2> DEFINE next == NextTask(j.task, j.merge)
  <2>1. MonitorTypeOK'
    BY <1>0, <1>10, LogEndStep DEF CloseTask, MonitorStatus
  <2>2. next \in TaskNames \cup {"NONE"}
    BY DEF NextTask, TaskNames, PipelineTasks, ManualTasks
  <2>3. /\ EndedJob(j, "finished") \in Job
        /\ [j EXCEPT !.pc = "open", !.task = next, !.mon = 0] \in Job
    <3> HIDE DEF next
    <3>1. "open" \in PC /\ "finished" \in PC /\ 0 \in Nat
      BY DEF PC
    <3> QED
      BY <1>0, <2>2, <3>1, EndedJobType, JobTaskType
  <2>4. \/ Await(r, EndedJob(j, "finished"))
        \/ Goto(r, [j EXCEPT !.pc = "open", !.task = next, !.mon = 0])
    BY <1>10 DEF CloseTask
  <2> QED
    BY <1>1, <1>2, <1>10, <2>1, <2>3, <2>4 DEF CloseTask
<1>11. CASE Abort(r)
  <2>1. MonitorTypeOK'
    BY <1>0, <1>11, LogEndStep DEF Abort, MonitorStatus
  <2>2. EndedJob(j, "raised") \in Job
    BY <1>0, EndedJobType DEF PC
  <2> QED
    BY <1>1, <1>2, <1>11, <2>1, <2>2 DEF Abort
<1> QED
  BY <1>3, <1>4, <1>5, <1>6, <1>7, <1>8, <1>9, <1>10, <1>11 DEF Step

\* The database errors and the restart keep everything well typed.
LEMMA FaultType ==
  ASSUME TypeOK
  PROVE  /\ \A r \in Runs : BodyFails(r) \/ CallFails(r) => TypeOK'
         /\ Crash => TypeOK'
<1>0. /\ TablesTypeOK /\ MonitorTypeOK /\ job \in [Runs -> Job]
      /\ crashes \in Nat /\ dbErrors \in Nat
      /\ \A p \in {"abort", "raised", "killed"} : p \in PC
  BY DEF TypeOK, PC
<1>1. ASSUME NEW r \in Runs, NEW new \in Job, DbError(r),
             Goto(r, new) \/ Await(r, new)
      PROVE  TypeOK'
  BY <1>0, <1>1, MoveType
     DEF DbError, TypeOK, TablesTypeOK, MonitorTypeOK, tables
<1>2. ASSUME NEW r \in Runs, BodyFails(r) PROVE TypeOK'
  <2>1. [job[r] EXCEPT !.pc = "abort"] \in Job
    BY <1>0 DEF Job
  <2> QED
    BY <1>1, <1>2, <2>1 DEF BodyFails
<1>3. ASSUME NEW r \in Runs, CallFails(r) PROVE TypeOK'
  <2>1. EndedJob(job[r], "raised") \in Job
    BY <1>0, EndedJobType
  <2> QED
    BY <1>1, <1>3, <2>1 DEF CallFails
<1>4. ASSUME Crash PROVE TypeOK'
  <2>1. \A r \in Runs : job[r] \in Job /\ EndedJob(job[r], "killed") \in Job
    BY <1>0, EndedJobType
  <2>2. job' \in [Runs -> Job]
    BY <1>4, <2>1 DEF Crash
  <2> QED
    BY <1>0, <1>4, <2>2
       DEF Crash, TypeOK, TablesTypeOK, MonitorTypeOK, tables
<1> QED
  BY <1>2, <1>3, <1>4

\* Every step keeps everything well typed.
LEMMA NextType ==
  ASSUME TypeOK, TaskMatchesKind, ParsingHasRow, [Next]_vars
  PROVE  TypeOK'
<1>1. ASSUME UNCHANGED vars PROVE TypeOK'
  BY <1>1 DEF vars, TypeOK, TablesTypeOK, MonitorTypeOK
<1>2. Rejected \/ Quiescent => UNCHANGED vars
  BY DEF Rejected, Quiescent
<1> QED
  BY <1>1, <1>2, RequestType, StepType, FaultType DEF Next

-----------------------------------------------------------------------------
(* What the invariants need to know of a step of run r that leaves the     *)
(* locals new behind.                                                      *)

\* The condition that TaskMatchesKind and ParsingHasRow put on one run.
LocalOK(j) ==
  /\ j.pc \notin Ended \cup {"idle"} =>
       /\ j.task \in TaskNames
       /\ j.task \in {"GAP_ANALYSIS", "PARSE_SAMRUK", "PARSE_GOSZAKUP"}
            => j.kind = "trigger"
       /\ j.kind = "trigger" =>
            /\ j.task \in PipelineTasks
            /\ j.pc # "requeue"
            /\ j.pc \in {"rows", "parsing"}
                 => j.task \in {"PARSE_SAMRUK", "PARSE_GOSZAKUP"}
  /\ j.pc = "parsing" => j.current \in Contracts

Moves(r, new) ==
  /\ Turn(r)
  /\ \/ Goto(r, new)
     \/ Await(r, new) /\ new.pc \notin Busy
  /\ LocalOK(new)

SameRow(r, new) ==
  /\ job[r].pc \in InTask
  /\ new.mon = job[r].mon /\ new.task = job[r].task /\ new.date = job[r].date

\* No row is written; a run inside a task stays inside the same task, unless
\* a database error ends it.
Keeps(r, new) ==
  /\ UNCHANGED monitor
  /\ job[r].pc \in InTask /\ new.pc \notin InTask => new.pc = "raised"
  /\ new.pc \in InTask => SameRow(r, new)
  /\ new.pc \in {"rows", "parsing"} =>
       job[r].pc \in {"rows", "parsing", "requeue"}

Opens(r, new) ==
  /\ job[r].pc \in {"accepted", "open"}
  /\ LogStart(r, job[r].task, job[r].date)
  /\ new.pc \in InTask /\ new.mon = Len(monitor) + 1
  /\ new.task = job[r].task /\ new.date = job[r].date

Closes(r, new) ==
  /\ job[r].pc \in InTask
  /\ LogEnd(job[r].mon, "SUCCESS") \/ LogEnd(job[r].mon, "FAILED")
  /\ new.pc \notin InTask

\* A live run does not change its kind, nor its date while it lives; it leaves
\* the number of its row behind when it goes on to the next task.
Goes(r, new) ==
  /\ Live(r)
  /\ raced' = raced
  /\ new.kind = job[r].kind
  /\ new.pc \notin Ended => new.date = job[r].date
  /\ new.pc # "idle"
  /\ new.pc \in {"accepted", "create", "open"} =>
       new.mon = 0 \/ (job[r].pc = "create" /\ new.mon = job[r].mon)

\* The fields of a run that is over.
LEMMA EndedFields ==
  ASSUME NEW j, NEW pc
  PROVE  /\ EndedJob(j, pc).pc = pc
         /\ EndedJob(j, pc).kind = j.kind
         /\ EndedJob(j, pc).current = j.current
BY DEF EndedJob, IdleJob

\* LocalOK is those two invariants, run by run.
LEMMA LocalIsInv ==
  (\A r \in Runs : LocalOK(job[r])) <=> TaskMatchesKind /\ ParsingHasRow
BY DEF LocalOK, TaskMatchesKind, ParsingHasRow, Live

\* The locals new of a run that had the locals j, seen through the fields the
\* invariants speak of.
Fields(new, j, pc, task, mon, current) ==
  /\ new.pc = pc /\ new.task = task /\ new.mon = mon /\ new.current = current
  /\ new.kind = j.kind /\ new.date = j.date

\* The updates that the steps make, seen in that way.
LEMMA JobUpdate ==
  ASSUME NEW j \in Job, NEW pc, NEW n, NEW t, NEW x, NEW y, NEW c, NEW g
  PROVE  /\ Fields([j EXCEPT !.pc = pc], j, pc, j.task, j.mon, j.current)
         /\ Fields([j EXCEPT !.pc = pc, !.mon = n], j, pc, j.task, n, j.current)
         /\ Fields([j EXCEPT !.pc = pc, !.task = t, !.mon = n],
                   j, pc, t, n, j.current)
         /\ Fields([j EXCEPT !.items = x], j, j.pc, j.task, j.mon, j.current)
         /\ Fields([j EXCEPT !.items = x, !.pc = pc],
                   j, pc, j.task, j.mon, j.current)
         /\ Fields([j EXCEPT !.pc = pc, !.todo = x, !.attempt = y],
                   j, pc, j.task, j.mon, j.current)
         /\ Fields([j EXCEPT !.pc = pc, !.todo = x],
                   j, pc, j.task, j.mon, j.current)
         /\ Fields([j EXCEPT !.pc = pc, !.current = c], j, pc, j.task, j.mon, c)
         /\ Fields([j EXCEPT !.pc = pc, !.current = c, !.todo[g][c] = @ - 1],
                   j, pc, j.task, j.mon, c)
<1>1. /\ Fields([j EXCEPT !.pc = pc], j, pc, j.task, j.mon, j.current)
      /\ Fields([j EXCEPT !.pc = pc, !.mon = n], j, pc, j.task, n, j.current)
      /\ Fields([j EXCEPT !.pc = pc, !.current = c], j, pc, j.task, j.mon, c)
  BY DEF Job, Fields
<1>2. Fields([j EXCEPT !.pc = pc, !.task = t, !.mon = n], j, pc, t, n, j.current)
  BY DEF Job, Fields
<1>3. /\ Fields([j EXCEPT !.items = x], j, j.pc, j.task, j.mon, j.current)
      /\ Fields([j EXCEPT !.items = x, !.pc = pc], j, pc, j.task, j.mon, j.current)
  BY DEF Job, Fields
<1>4. /\ Fields([j EXCEPT !.pc = pc, !.todo = x, !.attempt = y],
                j, pc, j.task, j.mon, j.current)
      /\ Fields([j EXCEPT !.pc = pc, !.todo = x], j, pc, j.task, j.mon, j.current)
  BY DEF Job, Fields
<1>5. Fields([j EXCEPT !.pc = pc, !.current = c, !.todo[g][c] = @ - 1],
             j, pc, j.task, j.mon, c)
  BY DEF Job, Fields
<1> QED
  BY <1>1, <1>2, <1>3, <1>4, <1>5

\* A step or a failure of a run moves it as Moves and Goes say and treats the
\* journal in one of three ways.
LEMMA StepMoves ==
  ASSUME TypeOK, TaskMatchesKind, ParsingHasRow, NEW r \in Runs,
         Step(r) \/ BodyFails(r) \/ CallFails(r)
  PROVE  \E new : /\ Moves(r, new) /\ Goes(r, new)
                  /\ Keeps(r, new) \/ Opens(r, new) \/ Closes(r, new)
<1> DEFINE j == job[r]
           OK(new) == /\ Moves(r, new) /\ Goes(r, new)
                      /\ Keeps(r, new) \/ Opens(r, new) \/ Closes(r, new)
<1>0. j \in Job /\ LocalOK(j)
  BY LocalIsInv DEF TypeOK
<1> USE DEF Moves, Goes, Keeps, Opens, Closes, SameRow, LocalOK, Live, Ended,
            Busy, InTask, Fields
<1>1. CASE CreateRow(r)
  <2>1. CASE Goto(r, [j EXCEPT !.items = Tail(@)])
    <3> DEFINE new == [j EXCEPT !.items = Tail(@)]
    <3>1. Fields(new, j, j.pc, j.task, j.mon, j.current)
      BY <1>0, JobUpdate
    <3> HIDE DEF new
    <3>2. OK(new)
      BY <1>0, <1>1, <2>1, <3>1 DEF CreateRow, new
    <3> QED
      BY <3>2
  <2>2. CASE Goto(r, [j EXCEPT !.items = << >>, !.pc = "open"])
    <3> DEFINE new == [j EXCEPT !.items = << >>, !.pc = "open"]
    <3>1. Fields(new, j, "open", j.task, j.mon, j.current)
      BY <1>0, JobUpdate
    <3> HIDE DEF new
    <3>2. OK(new)
      BY <1>0, <1>1, <2>2, <3>1 DEF CreateRow, new
    <3> QED
      BY <3>2
  <2>3. CASE Await(r, EndedJob(j, "raised"))
    <3>1. OK(EndedJob(j, "raised"))
      BY <1>0, <1>1, <2>3, EndedFields DEF CreateRow
    <3> QED
      BY <3>1
  <2> QED
    BY <1>1, <2>1, <2>2, <2>3 DEF CreateRow
<1>2. CASE OpenTask(r)
  <2> DEFINE new == [j EXCEPT !.pc = Body(j.task), !.mon = Len(monitor) + 1]
  <2>1. Body(j.task) \in PC /\ j.task \in TaskNames
    BY <1>0, <1>2 DEF OpenTask, Body, PC
  <2>2. Fields(new, j, Body(j.task), j.task, Len(monitor) + 1, j.current)
    BY <1>0, <2>1, JobUpdate
  <2> HIDE DEF new
  <2>3. Goto(r, new) /\ LogStart(r, j.task, j.date) /\ Turn(r)
        /\ j.pc \in {"accepted", "open"} /\ raced' = raced
    BY <1>2 DEF OpenTask, new
  <2>4. Body(j.task) \in {"fetch", "requeue", "merge", "rows"}
    BY DEF Body
  <2>5. j.kind = "trigger" =>
          /\ Body(j.task) # "requeue"
          /\ Body(j.task) = "rows" => j.task \in {"PARSE_SAMRUK", "PARSE_GOSZAKUP"}
    BY <1>0, <1>2 DEF OpenTask, Body, PipelineTasks
  <2>6. LocalOK(new)
    BY <1>0, <2>1, <2>2, <2>3, <2>4, <2>5
  <2>7. OK(new)
    BY <2>2, <2>3, <2>4, <2>6
  <2> QED
    BY <2>7
<1>3. CASE FetchStep(r)
  <2> DEFINE new == [j EXCEPT
                       !.pc      = "close",
                       !.todo    = Split(SelectedForRun, MergedQueue),
                       !.attempt = [c \in Contracts |->
                                      IF Has(SelectedForRun, c)
                                      THEN MergedQueue[c].attempts ELSE 0]]
  <2>2. Fields(new, j, "close", j.task, j.mon, j.current)
    BY <1>0, JobUpdate
  <2> HIDE DEF new
  <2>3. /\ Goto(r, new) /\ Turn(r) /\ j.pc = "fetch"
        /\ UNCHANGED <<monitor, raced>>
    BY <1>3 DEF FetchStep, new
  <2>4. OK(new)
    BY <1>0, <2>2, <2>3
  <2> QED
    BY <2>4
<1>4. CASE RequeueStep(r)
  <2> DEFINE new == [j EXCEPT !.pc = "rows", !.todo = Split(NotFoundRows, queue)]
  <2>2. Fields(new, j, "rows", j.task, j.mon, j.current)
    BY <1>0, JobUpdate
  <2> HIDE DEF new
  <2>3. /\ Goto(r, new) /\ Turn(r) /\ j.pc = "requeue"
        /\ UNCHANGED <<monitor, raced>>
    BY <1>4 DEF RequeueStep, new
  <2>4. OK(new)
    BY <1>0, <2>2, <2>3
  <2> QED
    BY <2>4
<1>5. ASSUME NEW pc \in {"close", "abort"},
             Turn(r), j.pc \in InTask, Goto(r, [j EXCEPT !.pc = pc]),
             UNCHANGED <<monitor, raced>>
      PROVE  \E new : OK(new)
  <2> DEFINE new == [j EXCEPT !.pc = pc]
  <2>1. Fields(new, j, pc, j.task, j.mon, j.current)
    BY <1>0, JobUpdate
  <2> HIDE DEF new
  <2>2. Goto(r, new)
    BY <1>5 DEF new
  <2>3. OK(new)
    BY <1>0, <1>5, <2>1, <2>2
  <2> QED
    BY <2>3
<1>6. CASE MergeStep(r)
  BY <1>5, <1>6 DEF MergeStep
<1>7. CASE BodyFails(r)
  BY <1>5, <1>7 DEF BodyFails, DbError
<1>8. CASE MarkRow(r)
  <2>1. PICK g \in Group, c \in Contracts :
          /\ Due(j, g, c)
          /\ MarkInProgress(c)
          /\ Await(r, [j EXCEPT !.pc = "parsing", !.current = c,
                                !.todo[g][c] = @ - 1])
    BY <1>8, Zenon DEF MarkRow
  <2> DEFINE new == [j EXCEPT !.pc = "parsing", !.current = c, !.todo[g][c] = @ - 1]
  <2>2. Fields(new, j, "parsing", j.task, j.mon, c)
    BY <1>0, JobUpdate
  <2> HIDE DEF new
  <2>3. Await(r, new)
    BY <2>1 DEF new
  <2>4. OK(new)
    BY <1>0, <1>8, <2>2, <2>3 DEF MarkRow
  <2> QED
    BY <2>4
<1>9. CASE SaveRow(r)
  <2> DEFINE new == [j EXCEPT !.pc = "rows", !.current = NoContract]
  <2>2. Fields(new, j, "rows", j.task, j.mon, NoContract)
    BY <1>0, JobUpdate
  <2> HIDE DEF new
  <2>3. Goto(r, new) \/ Await(r, new)
    BY <1>9 DEF SaveRow, new
  <2>4. OK(new)
    BY <1>0, <1>9, <2>2, <2>3 DEF SaveRow
  <2> QED
    BY <2>4
<1>10. ASSUME NEW pc \in {"finished", "raised"}, Turn(r), Live(r),
              Await(r, EndedJob(j, pc)), raced' = raced,
              \/ UNCHANGED monitor /\ pc = "raised"
              \/ j.pc \in InTask /\ LogEnd(j.mon, "SUCCESS")
              \/ j.pc \in InTask /\ LogEnd(j.mon, "FAILED")
       PROVE  \E new : OK(new)
  <2>1. OK(EndedJob(j, pc))
    BY <1>10, EndedFields
  <2> QED
    BY <2>1
<1>11. CASE CloseTask(r)
  <2> DEFINE next == NextTask(j.task, j.merge)
             new == [j EXCEPT !.pc = "open", !.task = next, !.mon = 0]
  <2>1. Closing(j) /\ j.pc \in InTask
    BY <1>11 DEF CloseTask, Closing
  <2>2. CASE next = "NONE"
    BY <1>10, <1>11, <2>1, <2>2 DEF CloseTask
  <2>3. CASE next # "NONE"
    <3>1. Fields(new, j, "open", next, 0, j.current)
      BY <1>0, JobUpdate
    <3>2. Goto(r, new)
      BY <1>11, <2>3 DEF CloseTask
    <3>3. /\ next \in TaskNames
          /\ next \in {"PARSE_SAMRUK", "PARSE_GOSZAKUP"} => j.kind = "trigger"
          /\ next # "GAP_ANALYSIS"
          /\ j.kind = "trigger" => next \in PipelineTasks
      BY <1>0, <2>1, <2>3
         DEF NextTask, TaskNames, PipelineTasks, ManualTasks
    <3> HIDE DEF new, next
    <3>4. LocalOK(new)
      BY <3>1, <3>3
    <3>5. OK(new)
      BY <1>11, <2>1, <3>1, <3>2, <3>4 DEF CloseTask
    <3> QED
      BY <3>5
  <2> QED
    BY <2>2, <2>3
<1>12. CASE Abort(r)
  BY <1>10, <1>12 DEF Abort
<1>13. CASE CallFails(r)
  BY <1>10, <1>13 DEF CallFails, DbError, Closing
<1> QED
  BY <1>1, <1>2, <1>3, <1>4, <1>6, <1>7, <1>8, <1>9, <1>11, <1>12, <1>13
     DEF Step

\* What a request of run r leaves behind.
Enters(r, new) ==
  /\ loop = Free
  /\ job[r].pc = "idle"
  /\ new.pc \in {"create", "accepted", "open"} /\ new.mon = 0
  /\ \/ new.kind # "trigger" /\ raced' = raced
     \/ /\ new.kind = "trigger" /\ new.pc = "accepted"
        /\ ~AlreadyRunning(new.date)
        /\ raced' = IF Pending(new.date) THEN raced \cup {new.date} ELSE raced

\* A request brings a new run in, writes no journal row, and, when it is a
\* trigger, has found no RUNNING row of a pipeline task for its date.
LEMMA RequestMoves ==
  ASSUME NEW r \in Runs, Request(r)
  PROVE  \E new : Moves(r, new) /\ Enters(r, new) /\ Keeps(r, new)
<1> DEFINE OK(new) == Moves(r, new) /\ Enters(r, new) /\ Keeps(r, new)
<1>1. \A kind, pc, d :
        /\ NewJob(kind, pc, d).kind = kind
        /\ NewJob(kind, pc, d).pc = pc
        /\ NewJob(kind, pc, d).date = d
        /\ NewJob(kind, pc, d).task = FirstTask[kind]
        /\ NewJob(kind, pc, d).mon = 0
  BY DEF NewJob, IdleJob
<1>2. ASSUME NEW kind \in Kinds, NEW pc \in {"create", "accepted", "open"}, NEW new,
             new.kind = kind, new.pc = pc, new.task = FirstTask[kind]
      PROVE  LocalOK(new)
  BY <1>2
     DEF LocalOK, Kinds, FirstTask, TaskNames, PipelineTasks, ManualTasks, Ended
<1>3. ASSUME NEW d, NEW merge, Trigger(r, d, merge) PROVE \E new : OK(new)
  <2> DEFINE base == NewJob("trigger", "accepted", d)
             new  == [base EXCEPT !.merge = merge]
  <2>1. /\ new.kind = "trigger" /\ new.pc = "accepted" /\ new.date = d
        /\ new.task = FirstTask["trigger"] /\ new.mon = 0
    BY DEF NewJob, IdleJob
  <2>2. LocalOK(new)
    BY <1>2, <2>1 DEF Kinds
  <2>3. Await(r, new)
    BY <1>3 DEF Trigger
  <2> HIDE DEF new
  <2>4. OK(new)
    BY <1>3, <2>1, <2>2, <2>3
       DEF Trigger, Called, Moves, Enters, Keeps, Turn, Busy, InTask
  <2> QED
    BY <2>4
<1>4. ASSUME NEW d, RerunNotFound(r, d) PROVE \E new : OK(new)
  <2> DEFINE new == NewJob("rerun", "accepted", d)
  <2>1. LocalOK(new)
    BY <1>1, <1>2 DEF Kinds
  <2>2. OK(new)
    BY <1>1, <1>4, <2>1
       DEF RerunNotFound, Called, Moves, Enters, Keeps, Turn, Busy, InTask
  <2> QED
    BY <2>2
<1>5. ASSUME NEW d, Merge(r, d) PROVE \E new : OK(new)
  <2> DEFINE new == NewJob("merge", "open", d)
  <2>1. LocalOK(new)
    BY <1>1, <1>2 DEF Kinds
  <2>2. OK(new)
    BY <1>1, <1>5, <2>1
       DEF Merge, Called, Moves, Enters, Keeps, Turn, Busy, InTask
  <2> QED
    BY <2>2
<1>6. ASSUME NEW kind \in {"one", "many"}, NEW items, Parse(r, kind, items)
      PROVE  \E new : OK(new)
  <2> DEFINE base == NewJob(kind, "create", Today)
             new  == [base EXCEPT !.items = items,
                                  !.known = Recognised(items),
                                  !.todo  = Asked(kind, items)]
  <2>1. /\ new.kind = kind /\ new.pc = "create" /\ new.task = FirstTask[kind]
        /\ new.mon = 0
    BY DEF NewJob, IdleJob
  <2>2. LocalOK(new)
    BY <1>2, <2>1 DEF Kinds
  <2>3. Goto(r, new)
    BY <1>6 DEF Parse
  <2> HIDE DEF new
  <2>4. OK(new)
    BY <1>6, <2>1, <2>2, <2>3
       DEF Parse, Called, Moves, Enters, Keeps, Turn, Busy, InTask
  <2> QED
    BY <2>4
<1> QED
  BY <1>3, <1>4, <1>5, <1>6 DEF Request, ParseOne, ParseMany

-----------------------------------------------------------------------------
(* The parts of the inductive invariant, one by one.                       *)

\* The three ways in which a step treats the journal.
Writes(r, new) == Keeps(r, new) \/ Opens(r, new) \/ Closes(r, new)

\* A move changes the locals of its own run only.
LEMMA MoveOthers ==
  ASSUME TypeOK, NEW r \in Runs, NEW new, Moves(r, new)
  PROVE  /\ job'[r] = new
         /\ \A s \in Runs \ {r} : job'[s] = job[s]
BY DEF TypeOK, Moves, Goto, Await

\* A run that has not reached an await keeps the loop, and while it does
\* nobody else moves.
LEMMA LoopStep ==
  ASSUME TypeOK, LoopIsHeld, NEW r \in Runs, NEW new, Moves(r, new)
  PROVE  LoopIsHeld'
<1> SUFFICES ASSUME NEW s \in Runs, job'[s].pc \in Busy
             PROVE  loop' = s
  BY DEF LoopIsHeld, Busy
<1>1. CASE s = r
  BY <1>1, MoveOthers DEF Moves, Goto
<1>2. CASE s # r
  BY <1>2, MoveOthers, ServiceAssumption DEF Moves, LoopIsHeld, Turn
<1> QED
  BY <1>1, <1>2

\* The locals of every run stay as TaskMatchesKind and ParsingHasRow want them.
LEMMA LocalStep ==
  ASSUME TypeOK, TaskMatchesKind, ParsingHasRow,
         NEW r \in Runs, NEW new, Moves(r, new)
  PROVE  TaskMatchesKind' /\ ParsingHasRow'
<1>1. \A s \in Runs : LocalOK(job[s])
  BY LocalIsInv
<1>2. \A s \in Runs : LocalOK(job'[s])
  BY <1>1, MoveOthers DEF Moves
<1> QED
  BY <1>2 DEF LocalOK, TaskMatchesKind, ParsingHasRow, Live

\* The journal row of a run inside a task is open and its own; nobody else
\* writes it.
LEMMA RowStep ==
  ASSUME TypeOK, TaskRowIsOpen, TaskMatchesKind,
         NEW r \in Runs, NEW new, Moves(r, new), Writes(r, new)
  PROVE  TaskRowIsOpen'
<1> SUFFICES ASSUME NEW s \in Runs, job'[s].pc \in InTask
             PROVE  /\ job'[s].mon \in DOMAIN monitor'
                    /\ monitor'[job'[s].mon]
                         = [run |-> s, task |-> job'[s].task,
                            date |-> job'[s].date, status |-> "RUNNING"]
  BY DEF TaskRowIsOpen, InTask
<1>1. CASE Keeps(r, new)
  BY <1>1, MoveOthers DEF Keeps, SameRow, TaskRowIsOpen
<1>2. CASE Opens(r, new)
  <2>1. job[r].task \in TaskNames /\ job[r].date \in Dates
    BY <1>2 DEF Opens, TaskMatchesKind, Live, Ended, TypeOK, Job
  <2>2. /\ Len(monitor) \in Nat
        /\ DOMAIN monitor = 1..Len(monitor)
        /\ DOMAIN monitor' = 1..(Len(monitor) + 1)
        /\ \A k \in DOMAIN monitor : monitor'[k] = monitor[k]
        /\ monitor'[Len(monitor) + 1]
             = [run |-> r, task |-> job[r].task, date |-> job[r].date,
                status |-> "RUNNING"]
    BY <1>2, <2>1, LogStartStep DEF Opens, TypeOK
  <2>3. CASE s = r
    BY <1>2, <2>2, <2>3, MoveOthers DEF Opens
  <2>4. CASE s # r
    BY <2>2, <2>4, MoveOthers DEF TaskRowIsOpen
  <2> QED
    BY <2>3, <2>4
<1>3. CASE Closes(r, new)
  <2>1. s # r /\ job'[s] = job[s]
    BY <1>3, MoveOthers DEF Closes
  <2>2. job[s].pc \in InTask /\ job[r].pc \in InTask
    BY <1>3, <2>1 DEF Closes
  <2>3. \A x \in {r, s} :
          /\ job[x].mon \in DOMAIN monitor
          /\ monitor[job[x].mon] = [run |-> x, task |-> job[x].task,
                                    date |-> job[x].date, status |-> "RUNNING"]
    BY <2>2 DEF TaskRowIsOpen
  <2>4. job[s].mon # job[r].mon
    BY <2>1, <2>3
  <2>5. \/ LogEnd(job[r].mon, "SUCCESS")
        \/ LogEnd(job[r].mon, "FAILED")
    BY <1>3 DEF Closes
  <2>6. /\ DOMAIN monitor' = DOMAIN monitor
        /\ \A k \in DOMAIN monitor : k # job[r].mon => monitor'[k] = monitor[k]
    BY <2>5, LogEndStep DEF TypeOK, MonitorStatus
  <2> QED
    BY <2>1, <2>3, <2>4, <2>6
<1> QED
  BY <1>1, <1>2, <1>3 DEF Writes

\* Row i is the last of its task and date in log.
LatestIn(log, i) ==
  \A k \in DOMAIN log :
    k > i => ~(log[k].task = log[i].task /\ log[k].date = log[i].date)

\* WaitingRunIsVisible in those terms, now and after the step.
LEMMA VisibleIn ==
  /\ WaitingRunIsVisible <=>
       \A s \in Runs :
         /\ job[s].kind = "trigger" /\ job[s].pc \in {"rows", "parsing"}
         /\ job[s].date \notin raced
         => LatestIn(monitor, job[s].mon)
  /\ WaitingRunIsVisible' <=>
       \A s \in Runs :
         /\ job'[s].kind = "trigger" /\ job'[s].pc \in {"rows", "parsing"}
         /\ job'[s].date \notin raced'
         => LatestIn(monitor', job'[s].mon)
BY DEF WaitingRunIsVisible, IsLatest, LatestIn

\* Closing a row leaves the order of the rows, and so who is the last, alone.
LEMMA LogEndLatest ==
  ASSUME MonitorTypeOK, NEW i, NEW status \in MonitorStatus, LogEnd(i, status),
         NEW k \in DOMAIN monitor, LatestIn(monitor, k)
  PROVE  LatestIn(monitor', k)
<1>1. /\ DOMAIN monitor' = DOMAIN monitor
      /\ \A n \in DOMAIN monitor :
           monitor'[n].task = monitor[n].task /\ monitor'[n].date = monitor[n].date
  <2>1. \A n \in DOMAIN monitor : monitor[n] \in MonitorRow
    BY ElementOfSeq, LenProperties DEF MonitorTypeOK
  <2> QED
    BY <2>1, LogEndStep DEF MonitorRow
<1> QED
  BY <1>1 DEF LatestIn

\* The inductive invariant.
IInv == TypeOK /\ RunInv /\ SingleRunUnlessRaced

\* A step of a live run does not hide the row of a waiting pipeline run: the
\* only later row of the same task and date would be another pipeline run's.
LEMMA VisibleStep ==
  ASSUME IInv, NEW r \in Runs, NEW new, Moves(r, new), Goes(r, new),
         Writes(r, new)
  PROVE  WaitingRunIsVisible'
<1> SUFFICES ASSUME NEW s \in Runs,
                    job'[s].kind = "trigger",
                    job'[s].pc \in {"rows", "parsing"},
                    job'[s].date \notin raced'
             PROVE  LatestIn(monitor', job'[s].mon)
  BY VisibleIn
<1>0. /\ TypeOK /\ MonitorTypeOK /\ RunInv /\ raced' = raced /\ Live(r)
      /\ new.kind = job[r].kind
      /\ job[r].kind \in Kinds /\ job[r].task \in TaskNames /\ job[r].date \in Dates
  BY DEF IInv, TypeOK, Goes, RunInv, TaskMatchesKind, Job
<1>1. ASSUME job'[s] = job[s]
      PROVE  /\ LatestIn(monitor, job[s].mon) /\ job[s].mon \in DOMAIN monitor
             /\ monitor[job[s].mon] = [run |-> s, task |-> job[s].task,
                                       date |-> job[s].date, status |-> "RUNNING"]
             /\ job[s].task \in {"PARSE_SAMRUK", "PARSE_GOSZAKUP"}
             /\ Live(s)
  BY <1>0, <1>1, VisibleIn
     DEF RunInv, TaskRowIsOpen, TaskMatchesKind, InTask,
         Live, Ended
<1>2. CASE Keeps(r, new)
  <2>1. CASE s = r
    <3>1. new.pc \in InTask /\ job[r].pc \in {"rows", "parsing", "requeue"}
      BY <1>0, <1>2, <2>1, MoveOthers DEF Keeps, InTask
    <3>2. new.mon = job[r].mon /\ new.date = job[r].date
      BY <1>2, <3>1 DEF Keeps, SameRow
    <3>3. job[r].kind = "trigger" /\ job[r].pc \in {"rows", "parsing"}
      BY <1>0, <2>1, <3>1, MoveOthers DEF RunInv, TaskMatchesKind
    <3>4. LatestIn(monitor, job[r].mon)
      BY <1>0, <2>1, <3>2, <3>3, MoveOthers, VisibleIn DEF RunInv
    <3> QED
      BY <1>0, <1>2, <2>1, <3>2, <3>4, MoveOthers DEF Keeps
  <2>2. CASE s # r
    <3>1. job'[s] = job[s]
      BY <1>0, <2>2, MoveOthers
    <3> QED
      BY <1>1, <1>2, <3>1 DEF Keeps
  <2> QED
    BY <2>1, <2>2
<1>3. CASE Opens(r, new)
  <2>1. /\ Len(monitor) \in Nat
        /\ DOMAIN monitor = 1..Len(monitor)
        /\ DOMAIN monitor' = 1..(Len(monitor) + 1)
        /\ \A k \in DOMAIN monitor : monitor'[k] = monitor[k]
        /\ monitor'[Len(monitor) + 1]
             = [run |-> r, task |-> job[r].task, date |-> job[r].date,
                status |-> "RUNNING"]
    BY <1>0, <1>3, LogStartStep DEF Opens
  <2>2. CASE s = r
    <3>1. job'[s].mon = Len(monitor) + 1
      BY <1>0, <1>3, <2>2, MoveOthers DEF Opens
    <3> QED
      BY <2>1, <3>1 DEF LatestIn
  <2>3. CASE s # r
    <3>1. job'[s] = job[s]
      BY <1>0, <2>3, MoveOthers
    <3>2. ~(job[r].task = job[s].task /\ job[r].date = job[s].date)
      <4> SUFFICES ASSUME job[r].task = job[s].task, job[r].date = job[s].date
                   PROVE  FALSE
        OBVIOUS
      <4>1. job[r].kind = "trigger"
        BY <1>0, <1>1, <3>1 DEF RunInv, TaskMatchesKind
      <4>2. /\ PipelineLive(r, job[s].date) /\ PipelineLive(s, job[s].date)
            /\ job[s].date \in Dates \ raced
        BY <1>0, <1>1, <3>1, <4>1 DEF PipelineLive
      <4> QED
        BY <2>3, <4>2 DEF IInv, SingleRunUnlessRaced
    <3> QED
      BY <1>1, <2>1, <3>1, <3>2 DEF LatestIn
  <2> QED
    BY <2>2, <2>3
<1>4. CASE Closes(r, new)
  <2>1. s # r /\ job'[s] = job[s]
    BY <1>0, <1>4, MoveOthers DEF Closes, InTask
  <2>2. \/ LogEnd(job[r].mon, "SUCCESS")
        \/ LogEnd(job[r].mon, "FAILED")
    BY <1>4 DEF Closes
  <2>3. LatestIn(monitor', job[s].mon)
    BY <1>0, <1>1, <2>1, <2>2, LogEndLatest DEF MonitorStatus
  <2> QED
    BY <2>1, <2>3
<1> QED
  BY <1>2, <1>3, <1>4 DEF Writes

\* Nor does a request.
LEMMA VisibleRequest ==
  ASSUME IInv, NEW r \in Runs, NEW new, Moves(r, new), Enters(r, new),
         Keeps(r, new)
  PROVE  WaitingRunIsVisible'
<1>1. raced \subseteq raced' /\ UNCHANGED monitor /\ TypeOK /\ WaitingRunIsVisible
  BY DEF Enters, Keeps, IInv, RunInv
<1>2. \A s \in Runs : job'[s].pc \in {"rows", "parsing"} => job'[s] = job[s]
  BY <1>1, MoveOthers DEF Enters
<1> QED
  BY <1>1, <1>2, VisibleIn

\* A step of a live run makes no further pipeline run live.
LEMMA SingleStep ==
  ASSUME TypeOK, SingleRunUnlessRaced, NEW r \in Runs, NEW new, Moves(r, new),
         Goes(r, new)
  PROVE  SingleRunUnlessRaced'
<1>1. \A d \in Dates, s \in Runs : PipelineLive(s, d)' => PipelineLive(s, d)
  BY MoveOthers DEF PipelineLive, Live, Goes
<1> QED
  BY <1>1 DEF SingleRunUnlessRaced, Goes

\* A trigger that is accepted has no live pipeline run of its date beside it:
\* one that waits at an await would have shown up in the journal, one that
\* does not wait would hold the loop, and one that has not started yet puts
\* the date among the raced ones.
LEMMA SingleRequest ==
  ASSUME IInv, NEW r \in Runs, NEW new, Moves(r, new), Enters(r, new)
  PROVE  SingleRunUnlessRaced'
<1>0. TypeOK /\ RunInv /\ SingleRunUnlessRaced
  BY DEF IInv
<1>1. ASSUME NEW s \in Runs \ {r}, NEW d \in Dates \ raced',
             PipelineLive(r, d)', PipelineLive(s, d)'
      PROVE  FALSE
  <2>1. /\ new.kind = "trigger" /\ new.date = d
        /\ job'[s] = job[s] /\ PipelineLive(s, d)
    BY <1>0, <1>1, MoveOthers DEF PipelineLive, Live
  <2>2. ~AlreadyRunning(d) /\ ~Pending(d) /\ loop = Free /\ d \notin raced
    BY <1>1, <2>1 DEF Enters
  <2>3. job[s].pc \notin Busy
    BY <1>0, <2>2, ServiceAssumption DEF RunInv, LoopIsHeld
  <2>4. job[s].pc # "accepted"
    BY <2>1, <2>2 DEF Pending, PipelineLive
  <2>5. job[s].pc \in PC
    BY <1>0 DEF TypeOK, Job
  <2>6. job[s].pc \in {"rows", "parsing"}
    BY <2>1, <2>3, <2>4, <2>5 DEF PipelineLive, Live, Ended, PC, Busy
  <2>7. /\ job[s].mon \in DOMAIN monitor
        /\ monitor[job[s].mon] = [run |-> s, task |-> job[s].task,
                                  date |-> d, status |-> "RUNNING"]
    BY <1>0, <2>1, <2>6 DEF RunInv, TaskRowIsOpen, InTask, PipelineLive
  <2>8. job[s].task \in {"PARSE_SAMRUK", "PARSE_GOSZAKUP"}
    BY <1>0, <2>1, <2>6 DEF RunInv, TaskMatchesKind, PipelineLive
  <2>9. LatestIn(monitor, job[s].mon)
    BY <1>0, <2>1, <2>2, <2>6, VisibleIn DEF RunInv, PipelineLive
  <2>10. IsTaskRunning(d, job[s].task)
    BY <2>7, <2>9 DEF IsTaskRunning, IsLatest, LatestIn
  <2>11. job[s].task \in TaskNames \ ManualTasks
    BY <2>8 DEF TaskNames, PipelineTasks, ManualTasks
  <2> QED
    BY <2>2, <2>10, <2>11 DEF AlreadyRunning
<1>2. ASSUME NEW d \in Dates \ raced', NEW a \in Runs \ {r}, NEW b \in Runs \ {r},
             PipelineLive(a, d)', PipelineLive(b, d)'
      PROVE  a = b
  <2>1. d \in Dates \ raced
    BY <1>2 DEF Enters
  <2>2. PipelineLive(a, d) /\ PipelineLive(b, d)
    BY <1>0, <1>2, MoveOthers DEF PipelineLive, Live
  <2> QED
    BY <1>0, <2>1, <2>2 DEF SingleRunUnlessRaced
<1> QED
  BY <1>1, <1>2 DEF SingleRunUnlessRaced

\* The number of a run's row is 0 before and between its tasks.
LEMMA RowlessStep ==
  ASSUME TypeOK, NoRowOutsideTask, NEW r \in Runs, NEW new, Moves(r, new),
         Goes(r, new) \/ Enters(r, new)
  PROVE  NoRowOutsideTask'
BY MoveOthers DEF NoRowOutsideTask, Goes, Enters

\* A step of a live run keeps the whole of IInv.
LEMMA RunStep ==
  ASSUME IInv, NEW r \in Runs, Step(r) \/ BodyFails(r) \/ CallFails(r)
  PROVE  IInv'
<1>0. /\ TypeOK /\ RunInv /\ SingleRunUnlessRaced
      /\ LoopIsHeld /\ TaskRowIsOpen /\ TaskMatchesKind /\ ParsingHasRow
      /\ NoRowOutsideTask
  BY DEF IInv, RunInv
<1>1. PICK new : /\ Moves(r, new) /\ Goes(r, new)
                 /\ Keeps(r, new) \/ Opens(r, new) \/ Closes(r, new)
  BY <1>0, StepMoves
<1>2. TypeOK'
  BY <1>0, StepType, FaultType
<1>3. LoopIsHeld' /\ TaskRowIsOpen' /\ TaskMatchesKind' /\ ParsingHasRow'
  BY <1>0, <1>1, LoopStep, RowStep, LocalStep DEF Writes
<1>4. WaitingRunIsVisible' /\ NoRowOutsideTask'
  BY <1>0, <1>1, VisibleStep, RowlessStep DEF Writes
<1>5. SingleRunUnlessRaced'
  BY <1>0, <1>1, SingleStep
<1> QED
  BY <1>2, <1>3, <1>4, <1>5 DEF IInv, RunInv

\* And so does a request.
LEMMA RequestStep ==
  ASSUME IInv, NEW r \in Runs, Request(r)
  PROVE  IInv'
<1>0. /\ TypeOK /\ RunInv /\ SingleRunUnlessRaced
      /\ LoopIsHeld /\ TaskRowIsOpen /\ TaskMatchesKind /\ ParsingHasRow
      /\ NoRowOutsideTask
  BY DEF IInv, RunInv
<1>1. PICK new : Moves(r, new) /\ Enters(r, new) /\ Keeps(r, new)
  BY RequestMoves
<1>2. TypeOK'
  BY <1>0, RequestType
<1>3. LoopIsHeld' /\ TaskRowIsOpen' /\ TaskMatchesKind' /\ ParsingHasRow'
  BY <1>0, <1>1, LoopStep, RowStep, LocalStep DEF Writes
<1>4. WaitingRunIsVisible' /\ NoRowOutsideTask'
  BY <1>0, <1>1, VisibleRequest, RowlessStep
<1>5. SingleRunUnlessRaced'
  BY <1>0, <1>1, SingleRequest
<1> QED
  BY <1>2, <1>3, <1>4, <1>5 DEF IInv, RunInv

\* A restart leaves nobody live.
LEMMA CrashStep ==
  ASSUME IInv, Crash
  PROVE  IInv'
<1>1. TypeOK /\ TypeOK'
  BY FaultType DEF IInv
<1>2. \A r \in Runs : job'[r].pc \in Ended \cup {"idle"}
  BY EndedFields DEF Crash, Live, Ended
<1>3. /\ LoopIsHeld' /\ TaskRowIsOpen' /\ WaitingRunIsVisible'
      /\ NoRowOutsideTask' /\ ParsingHasRow'
  BY <1>2
     DEF LoopIsHeld, TaskRowIsOpen, WaitingRunIsVisible, ParsingHasRow,
         NoRowOutsideTask, Ended, Busy, InTask
<1>4. TaskMatchesKind' /\ SingleRunUnlessRaced'
  BY <1>2 DEF TaskMatchesKind, SingleRunUnlessRaced, PipelineLive, Live
<1> QED
  BY <1>1, <1>3, <1>4 DEF IInv, RunInv

\* IInv holds at the start.
LEMMA InitInv == Init => IInv
<1> SUFFICES ASSUME Init PROVE IInv
  OBVIOUS
<1>1. TypeOK
  BY InitType
<1>2. \A r \in Runs : job[r].pc = "idle"
  BY DEF Init, IdleJob
<1>3. RunInv
  BY <1>2
     DEF RunInv, LoopIsHeld, TaskRowIsOpen, WaitingRunIsVisible, ParsingHasRow,
         NoRowOutsideTask, TaskMatchesKind, Live, Ended, Busy, InTask
<1>4. SingleRunUnlessRaced
  BY <1>2 DEF SingleRunUnlessRaced, PipelineLive, Live
<1> QED
  BY <1>1, <1>3, <1>4 DEF IInv

\* IInv is inductive.
LEMMA NextInv == IInv /\ [Next]_vars => IInv'
<1>1. ASSUME IInv, UNCHANGED vars PROVE IInv'
  BY <1>1
     DEF vars, IInv, TypeOK, TablesTypeOK, MonitorTypeOK, RunInv, LoopIsHeld,
         TaskRowIsOpen, WaitingRunIsVisible, IsLatest, ParsingHasRow,
         NoRowOutsideTask, TaskMatchesKind, SingleRunUnlessRaced, PipelineLive,
         Live
<1>2. Rejected \/ Quiescent => UNCHANGED vars
  BY DEF Rejected, Quiescent
<1> QED
  BY <1>1, <1>2, RunStep, RequestStep, CrashStep DEF Next

\* IInv holds in every reachable state.
LEMMA Invariance == Spec => []IInv
BY InitInv, NextInv, PTL DEF Spec

\* Every variable keeps its type, whatever the requests, the portals, the
\* failures and the restarts: no run ever opens a task that has no name, hands
\* a row to save_result that it did not mark, or decrements an empty list.
THEOREM TypeCorrect == Spec => []TypeOK
<1>1. IInv => TypeOK
  BY DEF IInv
<1> QED
  BY <1>1, Invariance, PTL

\* The loop is held between two awaits, each run's journal row is open and its
\* own while it is inside a task, and the row that guards the business date of
\* a waiting pipeline run is the last of its task.
THEOREM RunsAreGuarded == Spec => []RunInv
<1>1. IInv => RunInv
  BY DEF IInv
<1> QED
  BY <1>1, Invariance, PTL

\* The check of /parser/trigger against the journal (routes.py and
\* monitor_repo.already_running) admits one live pipeline run per business
\* date, except for requests accepted before an accepted run has started.
THEOREM JournalIsLock == Spec => []SingleRunUnlessRaced
<1>1. IInv => SingleRunUnlessRaced
  BY DEF IInv
<1> QED
  BY <1>1, Invariance, PTL

-----------------------------------------------------------------------------
(* Nothing is left behind without an owner.                                *)

\* A RUNNING row belongs to a run that is inside its task or was interrupted:
\* a step of a live run opens its own row or closes it, and leaves a row open
\* only by dying.
LEMMA RowOwnerStep ==
  ASSUME IInv, RunningRowHasOwner, NEW r \in Runs, NEW new,
         Moves(r, new), Goes(r, new), Writes(r, new)
  PROVE  RunningRowHasOwner'
<1>0. /\ TypeOK /\ MonitorTypeOK /\ TaskRowIsOpen /\ NoRowOutsideTask
      /\ TaskMatchesKind
  BY DEF IInv, TypeOK, RunInv
<1>1. /\ Len(monitor) \in Nat
      /\ DOMAIN monitor = 1..Len(monitor)
      /\ \A k \in DOMAIN monitor : monitor[k] \in MonitorRow
  BY <1>0, LenProperties, ElementOfSeq DEF MonitorTypeOK
<1> DEFINE Owned(k, row, js) ==
      \/ js[row.run].pc \in {"raised", "killed"}
      \/ /\ js[row.run].pc \notin Ended \cup {"idle"}
         /\ js[row.run].mon = k /\ js[row.run].task = row.task
<1>2. /\ \A k \in DOMAIN monitor :
           monitor[k].status = "RUNNING" => Owned(k, monitor[k], job)
      /\ (\A k \in DOMAIN monitor' :
            monitor'[k].status = "RUNNING" => Owned(k, monitor'[k], job'))
         => RunningRowHasOwner'
  BY DEF RunningRowHasOwner, Live
<1> HIDE DEF Owned
<1>3. ASSUME NEW k \in DOMAIN monitor, monitor[k].run # r,
             monitor[k].status = "RUNNING"
      PROVE  Owned(k, monitor[k], job')
  BY <1>0, <1>1, <1>2, <1>3, MoveOthers DEF Owned, MonitorRow
<1>4. ASSUME NEW k \in DOMAIN monitor, monitor[k].run = r,
             monitor[k].status = "RUNNING"
      PROVE  job[r].pc \in InTask /\ job[r].mon = k /\ job[r].task = monitor[k].task
  <2>1. Live(r) /\ job[r].mon = k /\ job[r].task = monitor[k].task
    BY <1>2, <1>4 DEF Owned, Goes, Live, Ended
  <2>2. job[r].mon # 0
    BY <1>1, <2>1
  <2>3. job[r].pc \in PC /\ job[r].pc \notin {"accepted", "create", "open"}
    BY <1>0, <2>2 DEF NoRowOutsideTask, TypeOK, Job
  <2> QED
    BY <2>1, <2>3 DEF Live, Ended, PC, InTask
<1>5. CASE Keeps(r, new)
  <2>1. ASSUME NEW k \in DOMAIN monitor, monitor[k].run = r,
               monitor[k].status = "RUNNING"
        PROVE  Owned(k, monitor[k], job')
    BY <1>0, <1>4, <1>5, <2>1, MoveOthers
       DEF Owned, Keeps, SameRow, InTask, Ended
  <2> QED
    BY <1>2, <1>3, <1>5, <2>1 DEF Keeps
<1>6. CASE Opens(r, new)
  <2>1. /\ DOMAIN monitor' = 1..(Len(monitor) + 1)
        /\ \A k \in DOMAIN monitor : monitor'[k] = monitor[k]
        /\ monitor'[Len(monitor) + 1]
             = [run |-> r, task |-> job[r].task, date |-> job[r].date,
                status |-> "RUNNING"]
    <3>1. job[r].task \in TaskNames /\ job[r].date \in Dates
      BY <1>0 DEF Goes, TaskMatchesKind, TypeOK, Job
    <3> QED
      BY <1>0, <1>6, <3>1, LogStartStep DEF Opens
  <2>2. ASSUME NEW k \in DOMAIN monitor, monitor[k].status = "RUNNING"
        PROVE  monitor[k].run # r
    BY <1>4, <1>6, <2>2 DEF Opens, InTask
  <2>3. Owned(Len(monitor) + 1, monitor'[Len(monitor) + 1], job')
    BY <1>0, <1>6, <2>1, MoveOthers DEF Owned, Opens, InTask, Ended
  <2> QED
    BY <1>1, <1>2, <1>3, <2>1, <2>2, <2>3
<1>7. CASE Closes(r, new)
  <2>1. PICK status \in {"SUCCESS", "FAILED"} : LogEnd(job[r].mon, status)
    BY <1>7 DEF Closes
  <2>2. /\ DOMAIN monitor' = DOMAIN monitor
        /\ \A k \in DOMAIN monitor : k # job[r].mon => monitor'[k] = monitor[k]
        /\ job[r].mon \in DOMAIN monitor => monitor'[job[r].mon].status # "RUNNING"
    <3>1. \A row \in MonitorRow :
            [row EXCEPT !.status = status].status # "RUNNING"
      BY DEF MonitorRow
    <3>2. /\ DOMAIN monitor' = DOMAIN monitor
          /\ \A k \in DOMAIN monitor :
               monitor'[k] = IF k = job[r].mon
                             THEN [monitor[k] EXCEPT !.status = status]
                             ELSE monitor[k]
      BY <1>0, <2>1, LogEndStep DEF MonitorStatus
    <3> QED
      BY <1>1, <3>1, <3>2
  <2>3. ASSUME NEW k \in DOMAIN monitor, monitor'[k].status = "RUNNING"
        PROVE  k # job[r].mon /\ monitor'[k] = monitor[k] /\ monitor[k].run # r
    BY <1>4, <2>2, <2>3
  <2> QED
    BY <1>2, <1>3, <2>2, <2>3
<1> QED
  BY <1>5, <1>6, <1>7 DEF Writes

\* Every row belongs to a run.
LEMMA RowRun ==
  ASSUME MonitorTypeOK
  PROVE  \A k \in DOMAIN monitor : monitor[k].run \in Runs
<1>1. \A k \in DOMAIN monitor : monitor[k] \in MonitorRow
  BY LenProperties, ElementOfSeq DEF MonitorTypeOK
<1> QED
  BY <1>1 DEF MonitorRow

\* A request has no row yet.
LEMMA RowOwnerRequest ==
  ASSUME TypeOK, RunningRowHasOwner, NEW r \in Runs, NEW new,
         Moves(r, new), Enters(r, new), Keeps(r, new)
  PROVE  RunningRowHasOwner'
<1>1. UNCHANGED monitor /\ job[r].pc = "idle"
  BY DEF Enters, Keeps
<1>2. \A k \in DOMAIN monitor : monitor[k].run \in Runs
  BY RowRun DEF TypeOK
<1>3. \A k \in DOMAIN monitor :
        monitor[k].status = "RUNNING" => monitor[k].run # r
  BY <1>1 DEF RunningRowHasOwner, Live
<1>4. \A s \in Runs \ {r} : job'[s] = job[s]
  BY MoveOthers
<1> QED
  BY <1>1, <1>2, <1>3, <1>4 DEF RunningRowHasOwner, Live

\* A restart leaves its rows with the killed.
LEMMA RowOwnerCrash ==
  ASSUME TypeOK, RunningRowHasOwner, Crash
  PROVE  RunningRowHasOwner'
<1>1. \A k \in DOMAIN monitor : monitor[k].run \in Runs
  BY RowRun DEF TypeOK
<1>2. /\ UNCHANGED monitor
      /\ \A r \in Runs : IF Live(r) THEN job'[r].pc = "killed"
                                    ELSE job'[r] = job[r]
  BY EndedFields DEF Crash, tables
<1> QED
  BY <1>1, <1>2 DEF RunningRowHasOwner, Live

\* A RUNNING journal row, the only thing that makes /parser/trigger answer
\* ALREADY_RUNNING, is the open task of a live run or was left by a run that a
\* restart killed or that a database error ended.
THEOREM NoStrayRunningRow == Spec => []RunningRowHasOwner
<1>1. Init => RunningRowHasOwner
  BY DEF Init, MonitorInit, RunningRowHasOwner
<1>2. IInv /\ RunningRowHasOwner /\ [Next]_vars => RunningRowHasOwner'
  <2> SUFFICES ASSUME IInv, RunningRowHasOwner, [Next]_vars
               PROVE  RunningRowHasOwner'
    OBVIOUS
  <2>0. TypeOK /\ TaskMatchesKind /\ ParsingHasRow
    BY DEF IInv, RunInv
  <2>1. ASSUME NEW r \in Runs, Step(r) \/ BodyFails(r) \/ CallFails(r)
        PROVE  RunningRowHasOwner'
    BY <2>0, <2>1, StepMoves, RowOwnerStep DEF Writes
  <2>2. ASSUME NEW r \in Runs, Request(r) PROVE RunningRowHasOwner'
    BY <2>0, <2>2, RequestMoves, RowOwnerRequest
  <2>3. Rejected \/ Quiescent \/ UNCHANGED vars => RunningRowHasOwner'
    BY DEF Rejected, Quiescent, vars, RunningRowHasOwner, Live
  <2> QED
    BY <2>0, <2>1, <2>2, <2>3, RowOwnerCrash DEF Next
<1> QED
  BY <1>1, <1>2, Invariance, PTL DEF Spec

\* The points at which a run answers for the contract in current.
Answers == {"parsing", "abort", "raised", "killed"}

\* A contract keeps its owner if no other run changes and r either keeps the
\* contract it answers for or leaves it in another status than IN_PROGRESS.
LEMMA OwnerKept ==
  ASSUME InProgressHasOwner, NEW r \in Runs,
         \A s \in Runs \ {r} : job'[s] = job[s],
         \A c \in Contracts :
           queue'[c].status = "IN_PROGRESS" =>
             \/ job'[r].pc \in Answers /\ job'[r].current = c
             \/ /\ queue[c].status = "IN_PROGRESS"
                /\ ~(job[r].pc \in Answers /\ job[r].current = c)
  PROVE  InProgressHasOwner'
BY DEF InProgressHasOwner, Answers

\* Of the operations on the tables only mark_in_progress marks a contract, and
\* save_result unmarks one.
LEMMA TablesMarks ==
  ASSUME TablesTypeOK, NEW c \in Contracts
  PROVE  /\ \/ FetchGaps \/ RequeueNotFound \/ MergeFromStaging \/ UNCHANGED tables
            \/ \E d \in Contracts, p \in Portals : GetOrCreate(d, p)
            => (queue'[c].status = "IN_PROGRESS" => queue[c].status = "IN_PROGRESS")
         /\ \A d \in Contracts : MarkInProgress(d) =>
              (queue'[c].status = "IN_PROGRESS" =>
                 c = d \/ queue[c].status = "IN_PROGRESS")
         /\ \A d \in Contracts, res \in ParseResult, n \in Nat :
              SaveResult(d, res, n) =>
                (queue'[c].status = "IN_PROGRESS" =>
                   c # d /\ queue[c].status = "IN_PROGRESS")
<1>0. queue \in [Contracts -> QueueRow]
  BY DEF TablesTypeOK
<1>1. \A p : NewRow(p).status = "NEW"
  BY DEF NewRow
<1>2. ASSUME \/ FetchGaps \/ RequeueNotFound \/ MergeFromStaging \/ UNCHANGED tables,
             queue'[c].status = "IN_PROGRESS"
      PROVE  queue[c].status = "IN_PROGRESS"
  BY <1>0, <1>1, <1>2, Zenon
     DEF FetchGaps, MergedQueue, RequeueNotFound, MergeFromStaging, tables, QueueRow
<1>3. ASSUME NEW d \in Contracts, NEW p \in Portals, GetOrCreate(d, p),
             queue'[c].status = "IN_PROGRESS"
      PROVE  queue[c].status = "IN_PROGRESS"
  BY <1>0, <1>1, <1>3 DEF GetOrCreate, QueueRow
<1>4. ASSUME NEW d \in Contracts, MarkInProgress(d),
             queue'[c].status = "IN_PROGRESS"
      PROVE  c = d \/ queue[c].status = "IN_PROGRESS"
  BY <1>0, <1>4 DEF MarkInProgress, QueueRow
<1>5. ASSUME NEW d \in Contracts, NEW res \in ParseResult, NEW n \in Nat,
             SaveResult(d, res, n), queue'[c].status = "IN_PROGRESS"
      PROVE  c # d /\ queue[c].status = "IN_PROGRESS"
  <2>1. StatusOrNotFound(res.status, n) # "IN_PROGRESS"
    BY DEF StatusOrNotFound, ParseResult
  <2> QED
    BY <1>0, <1>5, <2>1 DEF SaveResult, QueueRow
<1> QED
  BY <1>2, <1>3, <1>4, <1>5

\* A step of a live run leaves no contract behind without an owner.
LEMMA OwnerStep ==
  ASSUME IInv, InProgressHasOwner, NEW r \in Runs,
         Step(r) \/ BodyFails(r) \/ CallFails(r)
  PROVE  InProgressHasOwner'
<1> DEFINE j == job[r]
<1>0. /\ TypeOK /\ TablesTypeOK /\ TaskMatchesKind /\ ParsingHasRow
      /\ j \in Job /\ job \in [Runs -> Job]
  BY DEF IInv, TypeOK, RunInv
<1>1. \A s \in Runs \ {r} : job'[s] = job[s]
  BY <1>0, StepMoves, MoveOthers
<1>2. ASSUME j.pc \notin Answers,
             \A c \in Contracts :
               queue'[c].status = "IN_PROGRESS" => queue[c].status = "IN_PROGRESS"
      PROVE  InProgressHasOwner'
  BY <1>1, <1>2, OwnerKept
<1>3. CASE CreateRow(r)
  <2>1. j.items # << >> /\ j.items \in Seq(Contracts \X Portals)
    BY <1>0, <1>3, EmptySeq DEF CreateRow, Job
  <2>2. Head(j.items) \in Contracts \X Portals
    BY <2>1, HeadTailProperties
  <2>3. \E d \in Contracts, p \in Portals : GetOrCreate(d, p)
    BY <1>3, <2>2 DEF CreateRow
  <2>4. j.pc \notin Answers
    BY <1>3 DEF CreateRow, Answers
  <2> QED
    BY <1>0, <1>2, <2>3, <2>4, TablesMarks
<1>4. CASE \/ OpenTask(r) \/ FetchStep(r) \/ RequeueStep(r) \/ MergeStep(r)
           \/ CloseTask(r)
  <2>1. \/ FetchGaps \/ RequeueNotFound \/ MergeFromStaging \/ UNCHANGED tables
    BY <1>4 DEF OpenTask, FetchStep, RequeueStep, MergeStep, CloseTask
  <2>2. j.pc \notin Answers
    BY <1>4
       DEF OpenTask, FetchStep, RequeueStep, MergeStep, CloseTask, Closing, Answers
  <2> QED
    BY <1>0, <1>2, <2>1, <2>2, TablesMarks
<1>5. CASE MarkRow(r)
  <2>1. PICK g \in Group, c \in Contracts :
          /\ Due(j, g, c)
          /\ MarkInProgress(c)
          /\ Await(r, [j EXCEPT !.pc = "parsing", !.current = c,
                                !.todo[g][c] = @ - 1])
    BY <1>5, Zenon DEF MarkRow
  <2> DEFINE new == [j EXCEPT !.pc = "parsing", !.current = c, !.todo[g][c] = @ - 1]
  <2>2. Fields(new, j, "parsing", j.task, j.mon, c)
    BY <1>0, JobUpdate, Zenon
  <2> HIDE DEF new
  <2>3. job' = [job EXCEPT ![r] = new]
    BY <2>1 DEF Await, new
  <2>4. job'[r].pc \in Answers /\ job'[r].current = c
    BY <1>0, <2>2, <2>3 DEF Fields, Answers
  <2>5. j.pc \notin Answers
    BY <1>5 DEF MarkRow, Answers
  <2> QED
    BY <1>0, <1>1, <2>1, <2>4, <2>5, TablesMarks, OwnerKept
<1>6. CASE SaveRow(r)
  <2>1. j.current \in Contracts /\ j.attempt[j.current] \in Nat
    BY <1>0, <1>6 DEF SaveRow, ParsingHasRow, Job
  <2>2. PICK res \in ParseResult :
          SaveResult(j.current, res, j.attempt[j.current])
    BY <1>6 DEF SaveRow
  <2>3. \A c \in Contracts :
          queue'[c].status = "IN_PROGRESS" =>
            c # j.current /\ queue[c].status = "IN_PROGRESS"
    BY <1>0, <2>1, <2>2, TablesMarks
  <2> QED
    BY <1>1, <2>3, OwnerKept
<1>7. CASE Abort(r) \/ BodyFails(r) \/ CallFails(r)
  <2>1. UNCHANGED queue
    BY <1>7 DEF Abort, BodyFails, CallFails, DbError, tables
  <2>2. job'[r].pc \in Answers /\ job'[r].current = j.current
    <3>1. ASSUME NEW new, job' = [job EXCEPT ![r] = new],
                 new.pc \in Answers, new.current = j.current
          PROVE  job'[r].pc \in Answers /\ job'[r].current = j.current
      BY <1>0, <3>1
    <3>2. CASE BodyFails(r)
      <4> DEFINE new == [j EXCEPT !.pc = "abort"]
      <4>1. Fields(new, j, "abort", j.task, j.mon, j.current)
        BY <1>0, JobUpdate, Zenon
      <4> HIDE DEF new
      <4>2. job' = [job EXCEPT ![r] = new]
        BY <3>2 DEF BodyFails, Goto, new
      <4> QED
        BY <3>1, <4>1, <4>2, Zenon DEF Fields, Answers
    <3>3. CASE Abort(r) \/ CallFails(r)
      <4>1. job' = [job EXCEPT ![r] = EndedJob(j, "raised")]
        BY <3>3 DEF Abort, CallFails, Await
      <4>2. /\ EndedJob(j, "raised").pc \in Answers
            /\ EndedJob(j, "raised").current = j.current
        BY EndedFields DEF Answers
      <4> QED
        BY <3>1, <4>1, <4>2, Zenon
    <3> QED
      BY <1>7, <3>2, <3>3
  <2> QED
    BY <1>1, <2>1, <2>2, OwnerKept
<1> QED
  BY <1>3, <1>4, <1>5, <1>6, <1>7 DEF Step

\* An IN_PROGRESS contract is being parsed by somebody, or its run was
\* interrupted between mark_in_progress and save_result.
THEOREM NoStrayContract == Spec => []InProgressHasOwner
<1>1. Init => InProgressHasOwner
  BY TablesAssumption DEF Init, TablesInit, InProgressHasOwner
<1>2. IInv /\ InProgressHasOwner /\ [Next]_vars => InProgressHasOwner'
  <2> SUFFICES ASSUME IInv, InProgressHasOwner, [Next]_vars
               PROVE  InProgressHasOwner'
    OBVIOUS
  <2>1. ASSUME NEW r \in Runs, Request(r) PROVE InProgressHasOwner'
    <3>1. UNCHANGED queue /\ job[r].pc = "idle"
      BY <2>1, Zenon
         DEF Request, Trigger, RerunNotFound, Merge, ParseOne, ParseMany, Parse,
             Called, tables
    <3>2. \A s \in Runs \ {r} : job'[s] = job[s]
      BY <2>1, RequestMoves, MoveOthers DEF IInv
    <3> QED
      BY <3>1, <3>2, OwnerKept DEF Answers
  <2>2. ASSUME Crash PROVE InProgressHasOwner'
    <3>1. UNCHANGED queue
      BY <2>2 DEF Crash, tables
    <3>2. \A s \in Runs :
            /\ job'[s].current = job[s].current
            /\ job'[s].pc \in {job[s].pc, "killed"}
      BY <2>2, EndedFields DEF Crash
    <3> QED
      BY <3>1, <3>2 DEF InProgressHasOwner
  <2>3. Rejected \/ Quiescent \/ UNCHANGED vars => InProgressHasOwner'
    BY DEF Rejected, Quiescent, vars, InProgressHasOwner
  <2> QED
    BY <2>1, <2>2, <2>3, OwnerStep DEF Next
<1> QED
  BY <1>1, <1>2, Invariance, PTL DEF Spec

=============================================================================
