------------------------------ MODULE QueueProofs ------------------------------
(***************************************************************************)
(* Theorems about the queue: what the lists a run works from still say     *)
(* about the rows when it comes to them, although others work on the same  *)
(* table.  Reruns never share a contract; where pipeline runs have the     *)
(* queue to themselves the attempt limit is kept, a parsed contract is     *)
(* never reopened, and the target table agrees with the queue; and without *)
(* failures no queued contract is forgotten.                               *)
(***************************************************************************)
EXTENDS ParserServiceProofs

-----------------------------------------------------------------------------
(* The steps of a run as the lists and the queue see them.                 *)

\* fetch_gaps belongs to the pipeline, get_or_create_kontr_id to manual runs and
\* RERUN_NOT_FOUND to reruns; a contract is held from its marking to its saving.
PointInv ==
  \A r \in Runs :
    /\ job[r].pc = "fetch" => job[r].kind = "trigger"
    /\ job[r].pc = "create" => job[r].kind \in {"one", "many"}
    /\ job[r].pc = "requeue" => job[r].task = "RERUN_NOT_FOUND"
    /\ Live(r) /\ job[r].task = "RERUN_NOT_FOUND" => job[r].kind = "rerun"
    /\ Live(r) /\ job[r].pc \notin {"parsing", "abort"} =>
         job[r].current = NoContract

\* What a step of r leaves in its locals.
After(r, pc, task, todo, current) ==
  /\ job'[r].pc = pc /\ job'[r].task = task
  /\ job'[r].todo = todo /\ job'[r].current = current
  /\ job'[r].attempt = job[r].attempt

\* The steps of r as the lists and the queue see them: get_or_create_kontr_id,
\* fetch_gaps, the rerun's requeueing, mark_in_progress and save_result.
Creates(r) ==
  /\ job[r].pc = "create"
  /\ GetOrCreate(Head(job[r].items)[1], Head(job[r].items)[2])
  /\ \/ job'[r].pc = "raised" /\ ~job[r].known
     \/ /\ job'[r].pc = "create" /\ Len(job[r].items) > 1
        /\ job'[r].items = Tail(job[r].items) /\ job'[r].known = job[r].known
        /\ After(r, "create", job[r].task, job[r].todo, job[r].current)
     \/ After(r, "open", job[r].task, job[r].todo, job[r].current)

Fetches(r) ==
  /\ job[r].pc = "fetch" /\ FetchGaps
  /\ job'[r].pc = "close"
  /\ job'[r].task = job[r].task /\ job'[r].current = job[r].current
  /\ job'[r].todo = Split(SelectedForRun, MergedQueue)
  /\ job'[r].attempt =
       [c \in Contracts |->
          IF Has(SelectedForRun, c) THEN MergedQueue[c].attempts ELSE 0]

Requeues(r) ==
  /\ job[r].pc = "requeue" /\ RequeueNotFound
  /\ After(r, "rows", job[r].task, Split(NotFoundRows, queue), job[r].current)

Marks(r, g, c) ==
  /\ job[r].pc = "rows" /\ Has(job[r].todo[g], c) /\ MarkInProgress(c)
  /\ After(r, "parsing", job[r].task, [job[r].todo EXCEPT ![g][c] = @ - 1], c)

Saves(r, res) ==
  /\ job[r].pc = "parsing"
  /\ SaveResult(job[r].current, res, job[r].attempt[job[r].current])
  /\ After(r, "rows", job[r].task, job[r].todo, NoContract)

\* The run goes on without writing the queue: into a task, through the merge,
\* to the next task, or to the end of a task that failed.
GoesOn(r, pc, task) ==
  LET j == job[r] IN
  /\ After(r, pc, task, j.todo, j.current)
  /\ \/ /\ UNCHANGED tables
        /\ j.pc \in {"accepted", "open"} /\ task = j.task /\ pc = Body(task)
     \/ /\ MergeFromStaging
        /\ j.pc = "merge" /\ task = j.task /\ pc = "close"
     \/ /\ UNCHANGED tables
        /\ Closing(j) /\ task = NextTask(j.task, j.merge) /\ task # "NONE"
        /\ pc = "open"
     \/ /\ UNCHANGED tables
        /\ dbErrors < MaxDbErrors /\ task = j.task /\ pc = "abort"

Ends(r) ==
  /\ UNCHANGED tables
  /\ \/ /\ Closing(job[r]) /\ NextTask(job[r].task, job[r].merge) = "NONE"
        /\ job'[r].pc = "finished"
     \/ /\ job[r].pc = "abort" \/ dbErrors < MaxDbErrors
        /\ job'[r].pc = "raised"

\* Every step or failure of a run is one of these.
LEMMA StepLists ==
  ASSUME IInv, NEW r \in Runs, Step(r) \/ BodyFails(r) \/ CallFails(r)
  PROVE  \/ Creates(r) \/ Fetches(r) \/ Requeues(r)
         \/ \E g \in Group, c \in Contracts : Marks(r, g, c)
         \/ \E res \in ParseResult : Saves(r, res)
         \/ \E pc, task : GoesOn(r, pc, task)
         \/ Ends(r)
<1> DEFINE j == job[r]
<1>0. /\ job \in [Runs -> Job] /\ j \in Job
      /\ TaskMatchesKind
  BY DEF IInv, TypeOK, RunInv
<1>1. ASSUME NEW new, Goto(r, new) \/ Await(r, new) PROVE job'[r] = new
  BY <1>0, <1>1 DEF Goto, Await
<1>2. ASSUME NEW new, NEW pc, NEW task, NEW mon, Goto(r, new),
             Fields(new, j, pc, task, mon, j.current),
             new.todo = j.todo, new.attempt = j.attempt
      PROVE  After(r, pc, task, j.todo, j.current)
  BY <1>1, <1>2 DEF After, Fields
<1>3. ASSUME NEW pc, Await(r, EndedJob(j, pc)) PROVE job'[r].pc = pc
  BY <1>1, <1>3, EndedFields
<1>4. CASE CreateRow(r)
  <2>1. CASE Len(j.items) > 1 /\ Goto(r, [j EXCEPT !.items = Tail(@)])
    <3> DEFINE new == [j EXCEPT !.items = Tail(@)]
    <3>1. /\ new.pc = "create" /\ new.task = j.task /\ new.current = j.current
          /\ new.todo = j.todo /\ new.attempt = j.attempt
          /\ new.items = Tail(j.items) /\ new.known = j.known
      BY <1>0, <1>4 DEF CreateRow, Job
    <3>2. Goto(r, new)
      BY <2>1
    <3> HIDE DEF new
    <3> QED
      BY <1>1, <1>4, <2>1, <3>1, <3>2 DEF CreateRow, Creates, After
  <2>2. CASE Goto(r, [j EXCEPT !.items = << >>, !.pc = "open"])
    <3> DEFINE new == [j EXCEPT !.items = << >>, !.pc = "open"]
    <3>1. /\ new.pc = "open" /\ new.task = j.task /\ new.current = j.current
          /\ new.todo = j.todo /\ new.attempt = j.attempt
      BY <1>0 DEF Job
    <3>2. Goto(r, new)
      BY <2>2
    <3> HIDE DEF new
    <3> QED
      BY <1>1, <1>4, <3>1, <3>2 DEF CreateRow, Creates, After
  <2>3. CASE ~j.known /\ Await(r, EndedJob(j, "raised"))
    BY <1>3, <1>4, <2>3 DEF CreateRow, Creates
  <2> QED
    BY <1>4, <2>1, <2>2, <2>3 DEF CreateRow
<1>5. CASE OpenTask(r)
  <2> DEFINE new == [j EXCEPT !.pc = Body(j.task), !.mon = Len(monitor) + 1]
  <2>1. Fields(new, j, Body(j.task), j.task, Len(monitor) + 1, j.current)
    BY <1>0, JobUpdate DEF Fields
  <2>2. new.todo = j.todo /\ new.attempt = j.attempt
    BY <1>0 DEF Job
  <2>3. Goto(r, new) /\ UNCHANGED tables /\ j.pc \in {"accepted", "open"}
    BY <1>5 DEF OpenTask
  <2> HIDE DEF new
  <2>4. GoesOn(r, Body(j.task), j.task)
    BY <1>2, <2>1, <2>2, <2>3 DEF GoesOn
  <2> QED
    BY <2>4
<1>6. CASE FetchStep(r)
  <2> DEFINE new == [j EXCEPT
                       !.pc      = "close",
                       !.todo    = Split(SelectedForRun, MergedQueue),
                       !.attempt = [c \in Contracts |->
                                      IF Has(SelectedForRun, c)
                                      THEN MergedQueue[c].attempts ELSE 0]]
  <2>1. /\ new.pc = "close" /\ new.task = j.task /\ new.current = j.current
        /\ new.todo = Split(SelectedForRun, MergedQueue)
        /\ new.attempt = [c \in Contracts |->
                            IF Has(SelectedForRun, c)
                            THEN MergedQueue[c].attempts ELSE 0]
    BY <1>0 DEF Job
  <2>2. Goto(r, new) /\ j.pc = "fetch" /\ FetchGaps
    BY <1>6 DEF FetchStep
  <2> HIDE DEF new
  <2>3. Fetches(r)
    BY <1>1, <2>1, <2>2 DEF Fetches
  <2> QED
    BY <2>3
<1>7. CASE RequeueStep(r)
  <2> DEFINE new == [j EXCEPT !.pc = "rows", !.todo = Split(NotFoundRows, queue)]
  <2>1. /\ new.pc = "rows" /\ new.task = j.task /\ new.current = j.current
        /\ new.todo = Split(NotFoundRows, queue) /\ new.attempt = j.attempt
    BY <1>0 DEF Job
  <2>2. Goto(r, new) /\ j.pc = "requeue" /\ RequeueNotFound
    BY <1>7 DEF RequeueStep
  <2> HIDE DEF new
  <2>3. Requeues(r)
    BY <1>1, <2>1, <2>2 DEF Requeues, After
  <2> QED
    BY <2>3
<1>8. ASSUME NEW pc, Goto(r, [j EXCEPT !.pc = pc])
      PROVE  After(r, pc, j.task, j.todo, j.current)
  <2> DEFINE new == [j EXCEPT !.pc = pc]
  <2>1. Fields(new, j, pc, j.task, j.mon, j.current)
    BY <1>0, JobUpdate DEF Fields
  <2>2. new.todo = j.todo /\ new.attempt = j.attempt
    BY <1>0 DEF Job
  <2> HIDE DEF new
  <2>3. Goto(r, new)
    BY <1>8 DEF new
  <2> QED
    BY <1>2, <1>8, <2>1, <2>2, <2>3
<1>9. CASE MergeStep(r)
  <2>1. GoesOn(r, "close", j.task)
    BY <1>8, <1>9 DEF MergeStep, GoesOn
  <2> QED
    BY <2>1
<1>10. CASE BodyFails(r)
  <2>1. GoesOn(r, "abort", j.task)
    BY <1>8, <1>10 DEF BodyFails, DbError, GoesOn
  <2> QED
    BY <2>1
<1>11. CASE MarkRow(r)
  <2>1. PICK g \in Group, c \in Contracts :
          /\ Due(j, g, c)
          /\ MarkInProgress(c)
          /\ Await(r, [j EXCEPT !.pc = "parsing", !.current = c,
                                !.todo[g][c] = @ - 1])
    BY <1>11, Zenon DEF MarkRow
  <2> DEFINE new == [j EXCEPT !.pc = "parsing", !.current = c, !.todo[g][c] = @ - 1]
  <2>2. /\ new.pc = "parsing" /\ new.task = j.task /\ new.current = c
        /\ new.todo = [j.todo EXCEPT ![g][c] = @ - 1] /\ new.attempt = j.attempt
    BY <1>0 DEF Job
  <2>3. Await(r, new)
    BY <2>1
  <2> HIDE DEF new
  <2>4. Marks(r, g, c)
    BY <1>1, <1>11, <2>1, <2>2, <2>3 DEF MarkRow, Marks, After, Due
  <2> QED
    BY <2>4
<1>12. CASE SaveRow(r)
  <2> DEFINE new == [j EXCEPT !.pc = "rows", !.current = NoContract]
  <2>1. /\ new.pc = "rows" /\ new.task = j.task /\ new.current = NoContract
        /\ new.todo = j.todo /\ new.attempt = j.attempt
    BY <1>0 DEF Job
  <2>2. Goto(r, new) \/ Await(r, new)
    BY <1>12 DEF SaveRow
  <2> HIDE DEF new
  <2>3. After(r, "rows", j.task, j.todo, NoContract)
    BY <1>1, <2>1, <2>2 DEF After
  <2> QED
    BY <1>12, <2>3, Zenon DEF SaveRow, Saves
<1>13. CASE CloseTask(r)
  <2> DEFINE next == NextTask(j.task, j.merge)
             new == [j EXCEPT !.pc = "open", !.task = next, !.mon = 0]
  <2>1. UNCHANGED tables /\ Closing(j)
    BY <1>13 DEF CloseTask
  <2>2. CASE next = "NONE" /\ Await(r, EndedJob(j, "finished"))
    BY <1>3, <2>1, <2>2 DEF Ends
  <2>3. CASE next # "NONE" /\ Goto(r, new)
    <3>1. Fields(new, j, "open", next, 0, j.current)
      BY <1>0, JobUpdate DEF Fields
    <3>2. new.todo = j.todo /\ new.attempt = j.attempt
      BY <1>0 DEF Job
    <3>3. Goto(r, new)
      BY <2>3
    <3> HIDE DEF new
    <3>4. After(r, "open", next, j.todo, j.current)
      BY <1>2, <3>1, <3>2, <3>3
    <3>5. GoesOn(r, "open", next)
      BY <2>1, <2>3, <3>4 DEF GoesOn
    <3> QED
      BY <3>5
  <2> QED
    BY <1>13, <2>2, <2>3 DEF CloseTask
<1>14. CASE Abort(r) \/ CallFails(r)
  BY <1>3, <1>14 DEF Abort, CallFails, DbError, Ends
<1> QED
  BY <1>4, <1>5, <1>6, <1>7, <1>9, <1>10, <1>11, <1>12, <1>13, <1>14 DEF Step

\* What the invariants need to know of a run that goes on.
LEMMA GoesOnFacts ==
  ASSUME TaskMatchesKind, NEW r \in Runs, Live(r), NEW pc, NEW task,
         GoesOn(r, pc, task)
  PROVE  /\ UNCHANGED queue /\ (UNCHANGED vitrina \/ MergeFromStaging)
         /\ pc \in {"fetch", "requeue", "merge", "rows", "open", "close", "abort"}
         /\ pc = "abort" \/ job[r].pc \notin {"parsing", "abort"}
         /\ pc = "fetch" => job[r].kind = "trigger"
         /\ pc = "requeue" => task = "RERUN_NOT_FOUND"
         /\ task = "RERUN_NOT_FOUND" => job[r].task = "RERUN_NOT_FOUND"
<1>1. /\ Body(task) \in {"fetch", "requeue", "merge", "rows"}
      /\ Body(task) = "fetch" => task = "GAP_ANALYSIS"
      /\ Body(task) = "requeue" => task = "RERUN_NOT_FOUND"
      /\ NextTask(job[r].task, job[r].merge) # "RERUN_NOT_FOUND"
  BY DEF Body, NextTask
<1> QED
  BY <1>1
     DEF GoesOn, Closing, TaskMatchesKind, Live, tables, MergeFromStaging

\* The locals of a request that names its contracts.
Names(j) ==
  /\ j.pc = "create" /\ j.task \in {"PARSE_SINGLE_CONTRACT", "PARSE_SAMRUK_MANY"}
  /\ j.items \in Seq(Contracts \X Portals) /\ j.items # << >>
  /\ j.known = Recognised(j.items)
  /\ j.todo = Asked(j.kind, j.items)

\* A request starts with empty lists, unless it names its contracts itself.
LEMMA RequestKind ==
  ASSUME TypeOK, NEW r \in Runs, Request(r)
  PROVE  /\ UNCHANGED tables
         /\ job[r].pc = "idle" /\ job'[r].kind \in Endpoints
         /\ job'[r].pc \in {"accepted", "create", "open"}
         /\ job'[r].current = NoContract
         /\ job'[r].task = "RERUN_NOT_FOUND" => job'[r].kind = "rerun"
         /\ \/ job'[r].kind \in {"one", "many"} /\ Names(job'[r])
            \/ job'[r].pc # "create" /\ job'[r].todo = NoTodo
<1> DEFINE OK(new) == /\ new.kind \in Endpoints
                      /\ new.pc \in {"accepted", "create", "open"}
                      /\ new.current = NoContract
                      /\ new.task = "RERUN_NOT_FOUND" => new.kind = "rerun"
                      /\ \/ new.kind \in {"one", "many"} /\ Names(new)
                         \/ new.pc # "create" /\ new.todo = NoTodo
           Starts == /\ UNCHANGED tables /\ job[r].pc = "idle" /\ OK(job'[r])
<1>1. ASSUME NEW new, Goto(r, new) \/ Await(r, new) PROVE job'[r] = new
  BY <1>1 DEF TypeOK, Goto, Await
<1>2. ASSUME NEW kind \in Kinds, NEW pc, NEW d
      PROVE  LET new == NewJob(kind, pc, d) IN
             /\ new.kind = kind /\ new.pc = pc /\ new.current = NoContract
             /\ new.todo = NoTodo
             /\ new.task = "RERUN_NOT_FOUND" => kind = "rerun"
  BY DEF NewJob, IdleJob, FirstTask, Kinds
<1>3. ASSUME NEW d, NEW merge, Trigger(r, d, merge) PROVE Starts
  <2> DEFINE new == [NewJob("trigger", "accepted", d) EXCEPT !.merge = merge]
  <2>1. /\ new.kind = "trigger" /\ new.pc = "accepted" /\ new.current = NoContract
        /\ new.task = "GAP_ANALYSIS" /\ new.todo = NoTodo
    BY DEF NewJob, IdleJob, FirstTask
  <2>2. Await(r, new) /\ Called(r, "trigger")
    BY <1>3 DEF Trigger
  <2> HIDE DEF new
  <2> QED
    BY <1>1, <2>1, <2>2 DEF Called
<1>4. ASSUME NEW d, RerunNotFound(r, d) PROVE Starts
  <2>1. job'[r] = NewJob("rerun", "accepted", d)
    BY <1>1, <1>4 DEF RerunNotFound
  <2> QED
    BY <1>2, <1>4, <2>1 DEF RerunNotFound, Called, Kinds
<1>5. ASSUME NEW d, Merge(r, d) PROVE Starts
  <2>1. job'[r] = NewJob("merge", "open", d)
    BY <1>1, <1>5 DEF Merge
  <2> QED
    BY <1>2, <1>5, <2>1 DEF Merge, Called, Kinds
<1>6. ASSUME NEW kind \in {"one", "many"}, NEW items \in Seq(Contracts \X Portals),
             items # << >>, Parse(r, kind, items)
      PROVE  Starts
  <2> DEFINE new == [NewJob(kind, "create", Today) EXCEPT
                       !.items = items,
                       !.known = Recognised(items),
                       !.todo  = Asked(kind, items)]
  <2>1. /\ new.kind = kind /\ new.pc = "create" /\ new.current = NoContract
        /\ new.task \in {"PARSE_SINGLE_CONTRACT", "PARSE_SAMRUK_MANY"}
        /\ new.items = items /\ new.known = Recognised(items)
        /\ new.todo = Asked(kind, items)
    BY DEF NewJob, IdleJob, FirstTask
  <2>2. Goto(r, new) /\ Called(r, kind)
    BY <1>6 DEF Parse
  <2> HIDE DEF new
  <2> QED
    BY <1>1, <1>6, <2>1, <2>2 DEF Called, Names
<1>7. ParseOne(r) => Starts
  <2> SUFFICES ASSUME NEW item \in Contracts \X Portals, Parse(r, "one", <<item>>)
               PROVE  Starts
    BY DEF ParseOne
  <2>1. <<item>> \in Seq(Contracts \X Portals) /\ <<item>> # << >>
    OBVIOUS
  <2> QED
    BY <1>6, <2>1
<1>8. ParseMany(r) => Starts
  <2> SUFFICES ASSUME NEW n \in 1..MaxBatch,
                      NEW items \in [1..n -> Contracts \X Portals],
                      Parse(r, "many", items)
               PROVE  Starts
    BY DEF ParseMany, Batches
  <2>1. n \in Nat /\ n > 0
    BY ServiceAssumption
  <2>2. items \in Seq(Contracts \X Portals) /\ items # << >>
    BY <2>1
  <2> QED
    BY <1>6, <2>2
<1> QED
  BY <1>3, <1>4, <1>5, <1>7, <1>8 DEF Request

\* Wherever a step leaves a run, it is a point of the run's kind.
LEMMA PointStep ==
  ASSUME IInv, PointInv, [Next]_vars
  PROVE  PointInv'
<1>0. TypeOK /\ TaskMatchesKind /\ ParsingHasRow
  BY DEF IInv, RunInv
<1>1. ASSUME NEW r \in Runs, Step(r) \/ BodyFails(r) \/ CallFails(r)
      PROVE  PointInv'
  <2>1. /\ \A s \in Runs \ {r} : job'[s] = job[s]
        /\ job'[r].kind = job[r].kind /\ Live(r)
    BY <1>0, <1>1, StepMoves, MoveOthers DEF Goes
  <2>2. CASE Creates(r)
    BY <2>1, <2>2 DEF PointInv, Creates, After, Live, Ended
  <2>5. CASE Fetches(r) \/ Requeues(r)
    BY <2>1, <2>5 DEF PointInv, Fetches, Requeues, After, Live
  <2>6. CASE Ends(r)
    BY <2>1, <2>6 DEF PointInv, Ends, Live, Ended
  <2>3. CASE \/ \E g \in Group, c \in Contracts : Marks(r, g, c)
             \/ \E res \in ParseResult : Saves(r, res)
    <3>1. /\ job'[r].task = job[r].task
          /\ \/ job'[r].pc = "parsing"
             \/ job'[r].pc = "rows" /\ job'[r].current = NoContract
      BY <2>3 DEF Marks, Saves, After
    <3> QED
      BY <2>1, <3>1 DEF PointInv, Live
  <2>4. ASSUME NEW pc, NEW task, GoesOn(r, pc, task) PROVE PointInv'
    <3>1. After(r, pc, task, job[r].todo, job[r].current)
      BY <2>4 DEF GoesOn
    <3> QED
      BY <1>0, <2>1, <2>4, <3>1, GoesOnFacts DEF PointInv, After, Live
  <2> QED
    BY <1>1, <2>2, <2>3, <2>4, <2>5, <2>6, StepLists
<1>2. ASSUME NEW r \in Runs, Request(r) PROVE PointInv'
  <2>1. \A s \in Runs \ {r} : job'[s] = job[s]
    BY <1>0, <1>2, RequestMoves, MoveOthers
  <2> QED
    BY <1>0, <1>2, <2>1, RequestKind DEF PointInv, Live
<1>3. ASSUME Crash PROVE PointInv'
  <2>1. \A r \in Runs : job'[r].pc \in Ended \cup {"idle"}
    BY <1>3, EndedFields DEF Crash, Live, Ended
  <2> QED
    BY <2>1 DEF PointInv, Live, Ended
<1>4. Rejected \/ Quiescent \/ UNCHANGED vars => PointInv'
  BY DEF Rejected, Quiescent, vars, PointInv, Live
<1> QED
  BY <1>1, <1>2, <1>3, <1>4 DEF Next

\* PointInv holds in every reachable state.
LEMMA PointsInvariance == Spec => []PointInv
<1>1. Init => PointInv
  BY DEF Init, IdleJob, PointInv, Live
<1> QED
  BY <1>1, PointStep, Invariance, PTL DEF Spec

-----------------------------------------------------------------------------
(* Reruns never share a contract.                                          *)

\* Contract c is NEW as long as it is on a list, which names it once, and
\* IN_PROGRESS while it is in a parser; one run has it.
HeldOnce(c) ==
  /\ \A r \in Runs, g \in Group :
       Live(r) /\ Has(job[r].todo[g], c) =>
         /\ queue[c].status = "NEW"
         /\ job[r].todo[g][c] = 1
         /\ Routed(g, queue[c].portal)
  /\ \A r \in Runs :
       Live(r) /\ job[r].current = c => queue[c].status = "IN_PROGRESS"
  /\ \A r, s \in Runs : Holds(r, c) /\ Holds(s, c) => r = s

RerunInv ==
  OnlyReruns => \A c \in Contracts : OnOneList(c) => HeldOnce(c)

\* A contract stays with the run that holds it if its row does not change and
\* nobody takes hold of it.
LEMMA HeldLess ==
  ASSUME NEW c \in Contracts, HeldOnce(c),
         queue'[c].status = queue[c].status, queue'[c].portal = queue[c].portal,
         \A r \in Runs : Live(r)' =>
           /\ \A g \in Group :
                Has(job'[r].todo[g], c) =>
                  Live(r) /\ job'[r].todo[g][c] = job[r].todo[g][c]
           /\ job'[r].current = c => Live(r) /\ job[r].current = c
  PROVE  HeldOnce(c)'
<1>1. \A r \in Runs : Holds(r, c)' => Holds(r, c)
  BY DEF Holds, Has, Live
<1> QED
  BY <1>1 DEF HeldOnce, Has, Live, Routed

\* A contract nobody holds is taken by one run, which puts it on one list and
\* makes it NEW.
LEMMA HeldTaken ==
  ASSUME IInv, NEW r \in Runs, Requeues(r),
         \A s \in Runs \ {r} : job'[s] = job[s],
         Live(r), NEW c \in Contracts, HeldOnce(c)
  PROVE  HeldOnce(c)'
<1>0. queue \in [Contracts -> QueueRow]
  BY DEF IInv, TypeOK, TablesTypeOK
<1>1. /\ c \in NotFoundContracts =>
           queue'[c].status = "NEW" /\ queue'[c].portal = queue[c].portal
      /\ c \notin NotFoundContracts => queue'[c] = queue[c]
  <2>1. /\ [queue[c] EXCEPT !.status = "NEW", !.attempts = 0].status = "NEW"
        /\ [queue[c] EXCEPT !.status = "NEW", !.attempts = 0].portal
             = queue[c].portal
    BY <1>0 DEF QueueRow
  <2> QED
    BY <2>1, Zenon DEF Requeues, RequeueNotFound
<1>2. \A g \in Group :
        job'[r].todo[g][c] =
          IF Routed(g, queue[c].portal) /\ c \in NotFoundContracts THEN 1 ELSE 0
  BY DEF Requeues, After, Split, NotFoundRows, Count
<1>3. CASE c \notin NotFoundContracts
  BY <1>1, <1>2, <1>3, HeldLess DEF Has, Requeues, After, Live
<1>4. CASE c \in NotFoundContracts
  <2>1. queue[c].status = "NOT_FOUND"
    BY <1>4 DEF NotFoundContracts
  <2>2. \A s \in Runs : Live(s) => ~Holds(s, c) /\ job[s].current # c
    BY <2>1 DEF HeldOnce, Holds
  <2>3. \A s \in Runs : Holds(s, c)' => s = r
    BY <2>2 DEF Holds, Live
  <2>4. \A s \in Runs : Live(s)' => job'[s].current # c
    BY <2>2 DEF Requeues, After, Live
  <2>5. \A s \in Runs, g \in Group :
          Live(s)' /\ Has(job'[s].todo[g], c) =>
            job'[s].todo[g][c] = 1 /\ Routed(g, queue[c].portal)
    BY <1>2, <2>3 DEF Has, Holds
  <2> QED
    BY <1>1, <1>4, <2>3, <2>4, <2>5 DEF HeldOnce, Routed
<1> QED
  BY <1>3, <1>4

\* mark_in_progress takes the contract from the list into the parser.
LEMMA HeldMarked ==
  ASSUME IInv, NEW r \in Runs, NEW g \in Group, NEW d \in Contracts,
         Marks(r, g, d),
         \A s \in Runs \ {r} : job'[s] = job[s],
         Live(r), NEW c \in Contracts, OnOneList(c), HeldOnce(c)
  PROVE  HeldOnce(c)'
<1>0. /\ queue \in [Contracts -> QueueRow]
      /\ job[r].todo \in [Group -> [Contracts -> Nat]]
  BY DEF IInv, TypeOK, TablesTypeOK, Job
<1>1. /\ queue'[d].status = "IN_PROGRESS"
      /\ queue'[c].portal = queue[c].portal
      /\ c # d => queue'[c] = queue[c]
  BY <1>0 DEF Marks, MarkInProgress, QueueRow
<1>2. \A h \in Group :
        job'[r].todo[h][c] =
          IF h = g /\ c = d THEN job[r].todo[h][c] - 1 ELSE job[r].todo[h][c]
  BY <1>0 DEF Marks, After
<1>3. CASE c # d
  <2>1. /\ queue'[c].status = queue[c].status
        /\ \A h \in Group : job'[r].todo[h][c] = job[r].todo[h][c]
        /\ job'[r].current # c
    BY <1>1, <1>2, <1>3 DEF Marks, After
  <2>2. \A s \in Runs : Live(s)' =>
          /\ Live(s)
          /\ \A h \in Group : job'[s].todo[h][c] = job[s].todo[h][c]
          /\ job'[s].current = c => job[s].current = c
    BY <2>1 DEF Live
  <2> QED
    BY <1>1, <2>1, <2>2, HeldLess
<1>4. CASE c = d
  <2>1. Holds(r, c)
    BY <1>4 DEF Marks, Holds
  <2>2. /\ job[r].todo[g][c] = 1
        /\ Routed(g, queue[c].portal)
    BY <1>4 DEF Marks, HeldOnce
  <2>3. \A h \in Group : job'[r].todo[h][c] = 0
    <3> SUFFICES ASSUME NEW h \in Group, h # g PROVE ~Has(job[r].todo[h], c)
      BY <1>0, <1>2, <1>4, <2>2 DEF Has
    <3>1. ~Routed(h, queue[c].portal)
      BY <2>2 DEF OnOneList, Routed, Group
    <3> QED
      BY <3>1 DEF HeldOnce
  <2>4. \A s \in Runs : Holds(s, c)' => s = r
    BY <2>1 DEF HeldOnce, Holds, Live
  <2>5. \A s \in Runs, h \in Group : Live(s)' => ~Has(job'[s].todo[h], c)
    BY <2>3, <2>4 DEF Has, Holds
  <2> QED
    BY <1>1, <1>4, <2>4, <2>5 DEF HeldOnce
<1> QED
  BY <1>3, <1>4

\* save_result lets go of the contract.
LEMMA HeldSaved ==
  ASSUME IInv, NEW r \in Runs, NEW res \in ParseResult, Saves(r, res),
         \A s \in Runs \ {r} : job'[s] = job[s],
         Live(r), NEW c \in Contracts, HeldOnce(c)
  PROVE  HeldOnce(c)'
<1> DEFINE d == job[r].current
<1>0. queue \in [Contracts -> QueueRow]
  BY DEF IInv, TypeOK, TablesTypeOK
<1>1. c # d => queue'[c] = queue[c]
  BY <1>0 DEF Saves, SaveResult
<1>2. NoContract # c
  BY ServiceAssumption
<1>3. CASE c # d
  BY <1>1, <1>2, <1>3, HeldLess DEF Has, Saves, After, Live
<1>4. CASE c = d
  <2>1. Holds(r, c) /\ queue[c].status = "IN_PROGRESS"
    BY <1>4 DEF Holds, HeldOnce
  <2>2. \A g \in Group : ~Has(job[r].todo[g], c)
    BY <2>1 DEF HeldOnce
  <2>3. ~Holds(r, c)'
    BY <1>2, <2>2 DEF Holds, Saves, After
  <2>4. \A s \in Runs \ {r} : ~Holds(s, c)'
    BY <2>1 DEF HeldOnce, Holds, Live
  <2>5. \A s \in Runs : ~Holds(s, c)'
    BY <2>3, <2>4
  <2> QED
    BY <2>5 DEF HeldOnce, Holds
<1> QED
  BY <1>3, <1>4

\* None of these operations changes a portal text.
LEMMA PortalKept ==
  ASSUME TablesTypeOK, NEW c \in Contracts,
         \/ RequeueNotFound \/ UNCHANGED queue
         \/ \E d \in Contracts : MarkInProgress(d)
         \/ \E d \in Contracts, res \in ParseResult, n \in Nat : SaveResult(d, res, n)
  PROVE  queue'[c].portal = queue[c].portal
<1>0. queue \in [Contracts -> QueueRow] /\ queue[c] \in QueueRow
  BY DEF TablesTypeOK
<1>1. CASE RequeueNotFound \/ UNCHANGED queue
  <2>1. [queue[c] EXCEPT !.status = "NEW", !.attempts = 0].portal = queue[c].portal
    BY <1>0 DEF QueueRow
  <2> QED
    BY <1>0, <1>1, <2>1, Zenon DEF RequeueNotFound
<1>2. CASE \E d \in Contracts : MarkInProgress(d)
  BY <1>0, <1>2 DEF MarkInProgress, QueueRow
<1>3. CASE \E d \in Contracts, res \in ParseResult, n \in Nat : SaveResult(d, res, n)
  <2>1. PICK d \in Contracts, res \in ParseResult, n \in Nat : SaveResult(d, res, n)
    BY <1>3
  <2>2. CASE c # d
    BY <1>0, <2>1, <2>2 DEF SaveResult
  <2>3. CASE c = d
    BY <1>0, <2>1, <2>3 DEF SaveResult, QueueRow
  <2> QED
    BY <2>2, <2>3
<1> QED
  BY <1>1, <1>2, <1>3

\* A step of a run keeps every contract with the run that holds it.
LEMMA RerunStep ==
  ASSUME IInv, PointInv, RerunInv, NEW r \in Runs,
         Step(r) \/ BodyFails(r) \/ CallFails(r)
  PROVE  RerunInv'
<1> SUFFICES ASSUME OnlyReruns', NEW c \in Contracts, OnOneList(c)'
             PROVE  HeldOnce(c)'
  BY DEF RerunInv
<1> DEFINE j == job[r]
<1>0. TypeOK /\ TablesTypeOK /\ TaskMatchesKind /\ ParsingHasRow /\ j \in Job
  BY DEF IInv, RunInv, TypeOK
<1>1. /\ \A s \in Runs \ {r} : job'[s] = job[s]
      /\ job'[r].kind = j.kind /\ job'[r].pc # "idle" /\ Live(r)
  BY <1>0, StepMoves, MoveOthers DEF Goes
<1>2. OnlyReruns /\ j.kind \in {"rerun", "merge"}
  BY <1>1 DEF OnlyReruns
<1>3. j.pc \notin {"fetch", "create"}
  BY <1>2 DEF PointInv
<1>4. ASSUME queue'[c].portal = queue[c].portal
      PROVE  OnOneList(c) /\ HeldOnce(c)
  BY <1>2, <1>4 DEF OnOneList, RerunInv
<1>5. CASE Requeues(r)
  <2>1. OnOneList(c) /\ HeldOnce(c)
    BY <1>0, <1>4, <1>5, PortalKept DEF Requeues
  <2> QED
    BY <1>1, <1>5, <2>1, HeldTaken
<1>6. ASSUME NEW g \in Group, NEW d \in Contracts, Marks(r, g, d)
      PROVE  HeldOnce(c)'
  <2>1. OnOneList(c) /\ HeldOnce(c)
    BY <1>0, <1>4, <1>6, PortalKept DEF Marks
  <2> QED
    BY <1>1, <1>6, <2>1, HeldMarked
<1>7. ASSUME NEW res \in ParseResult, Saves(r, res)
      PROVE  HeldOnce(c)'
  <2>1. j.current \in Contracts /\ j.attempt[j.current] \in Nat
    BY <1>0, <1>7 DEF ParsingHasRow, Job, Saves
  <2>2. OnOneList(c) /\ HeldOnce(c)
    BY <1>0, <1>4, <1>7, <2>1, PortalKept DEF Saves
  <2> QED
    BY <1>1, <1>7, <2>2, HeldSaved
<1>8. ASSUME NEW pc, NEW task, GoesOn(r, pc, task) PROVE HeldOnce(c)'
  <2>1. UNCHANGED queue
    BY <1>0, <1>1, <1>8, GoesOnFacts
  <2>2. HeldOnce(c)
    BY <1>4, <2>1
  <2> QED
    BY <1>1, <1>8, <2>1, <2>2, HeldLess DEF GoesOn, After, Live
<1>9. CASE Ends(r)
  <2>1. UNCHANGED queue /\ ~Live(r)'
    BY <1>9 DEF Ends, tables, Live, Ended
  <2>2. HeldOnce(c)
    BY <1>4, <2>1
  <2> QED
    BY <1>1, <2>1, <2>2, HeldLess DEF Live
<1> QED
  BY <1>3, <1>5, <1>6, <1>7, <1>8, <1>9, StepLists DEF Creates, Fetches

\* However many reruns of whatever dates are under way, no contract is in the
\* hands of two of them, although fetch_and_requeue_not_found selects its rows
\* without FOR UPDATE and the endpoint's check comes long before it.
THEOREM RerunsNeverShare == Spec => []RerunsDisjoint
<1>1. Init => RerunInv
  <2> SUFFICES ASSUME Init PROVE RerunInv
    OBVIOUS
  <2>1. \A r \in Runs : job[r].pc = "idle"
    BY DEF Init, IdleJob
  <2> QED
    BY <2>1 DEF RerunInv, HeldOnce, Holds, Live
<1>2. IInv /\ PointInv /\ RerunInv /\ [Next]_vars => RerunInv'
  <2> SUFFICES ASSUME IInv, PointInv, RerunInv, [Next]_vars
               PROVE  RerunInv'
    OBVIOUS
  <2>1. ASSUME NEW r \in Runs, Request(r) PROVE RerunInv'
    <3> SUFFICES ASSUME OnlyReruns', NEW c \in Contracts, OnOneList(c)'
                 PROVE  HeldOnce(c)'
      BY DEF RerunInv
    <3>1. PICK new : Moves(r, new) /\ Enters(r, new)
      BY <2>1, RequestMoves
    <3>2. /\ \A s \in Runs \ {r} : job'[s] = job[s]
          /\ job[r].pc = "idle" /\ job'[r].pc # "idle"
      BY <3>1, MoveOthers DEF IInv, Enters
    <3>3. OnlyReruns /\ job'[r].kind \in {"rerun", "merge"}
      BY <3>2 DEF OnlyReruns
    <3>4. /\ UNCHANGED queue /\ job'[r].current = NoContract
          /\ job'[r].todo = NoTodo
      BY <2>1, <3>3, RequestKind DEF IInv, tables
    <3>5. HeldOnce(c)
      BY <3>3, <3>4 DEF RerunInv, OnOneList
    <3>6. c # NoContract /\ \A g \in Group : ~Has(NoTodo[g], c)
      BY ServiceAssumption DEF NoTodo, NoRows, Has
    <3> QED
      BY <3>2, <3>4, <3>5, <3>6, HeldLess DEF Live
  <2>2. ASSUME Crash PROVE RerunInv'
    <3>1. \A r \in Runs : ~Live(r)'
      BY <2>2, EndedFields DEF Crash, Live, Ended
    <3> QED
      BY <3>1 DEF RerunInv, HeldOnce, Holds
  <2>3. Rejected \/ Quiescent \/ UNCHANGED vars => RerunInv'
    BY DEF Rejected, Quiescent, vars, RerunInv, OnlyReruns, OnOneList, HeldOnce,
           Holds, Live
  <2> QED
    BY <2>1, <2>2, <2>3, RerunStep DEF Next
<1>3. RerunInv => RerunsDisjoint
  BY DEF RerunInv, RerunsDisjoint, HeldOnce
<1> QED
  BY <1>1, <1>2, <1>3, Invariance, PointsInvariance, PTL DEF Spec

-----------------------------------------------------------------------------
(* Pipeline runs that have the queue to themselves.                        *)

\* The service is triggered and asked to merge, for one business date; no
\* portal text names both portals, and the queue starts within the limit.
PipelineAlone ==
  /\ Endpoints \subseteq {"trigger", "merge"}
  /\ Dates = {Today}
  /\ LikeSamruk \cap LikeGos = {} /\ IsSamruk \cap IsGos = {}
  /\ \A c \in Contracts :
       /\ InitQueue[c].attempts <= MaxAttempts
       /\ InitQueue[c].status = "ERROR" => InitQueue[c].attempts < MaxAttempts

\* Runs of the pipeline and merges, of which the latter hold nothing.
OnlyPipeline ==
  \A r \in Runs :
    job[r].pc # "idle" =>
      /\ job[r].kind \in {"trigger", "merge"}
      /\ Live(r) /\ job[r].kind = "merge" =>
           job[r].todo = NoTodo /\ job[r].current = NoContract

WithinLimit(c) ==
  /\ queue[c].attempts <= MaxAttempts
  /\ queue[c].status = "ERROR" => queue[c].attempts < MaxAttempts

Agrees(c) ==
  vitrina[c] # NoStat => queue[c].status = "DONE" /\ queue[c].stat = vitrina[c]

\* What the list of a run says of contract c is still so: it has attempts left,
\* the number read at GAP_ANALYSIS is its own, and it is not parsed yet.
UpToDate(c) ==
  \A r \in Runs :
    Live(r) =>
      /\ Holds(r, c) =>
           /\ job[r].attempt[c] = queue[c].attempts
           /\ queue[c].attempts < MaxAttempts
           /\ queue[c].status # "DONE"
      /\ \A g \in Group :
           Has(job[r].todo[g], c) =>
             /\ job[r].todo[g][c] = 1
             /\ Routed(g, queue[c].portal)
             /\ job[r].current # c

InOrder(c) == WithinLimit(c) /\ Agrees(c) /\ UpToDate(c)

PipelineInv ==
  /\ OnlyPipeline
  /\ raced = {} => \A c \in Contracts : InOrder(c)

\* A parsed contract is left alone.
Final(c) == queue[c].status = "DONE" => queue'[c] = queue[c]

\* Nothing changes for a contract whose row stays as it is, and which no run
\* takes hold of.
LEMMA StaysUpToDate ==
  ASSUME NEW c \in Contracts, UpToDate(c), queue'[c] = queue[c],
         \A r \in Runs : Live(r)' /\ Holds(r, c)' =>
           /\ Live(r) /\ Holds(r, c)
           /\ job'[r].attempt[c] = job[r].attempt[c]
           /\ \A g \in Group : Has(job'[r].todo[g], c) =>
                                 job'[r].todo[g][c] = job[r].todo[g][c]
           /\ job'[r].current = c => job[r].current = c
  PROVE  UpToDate(c)'
<1> SUFFICES ASSUME NEW r \in Runs, Live(r)'
             PROVE  /\ Holds(r, c)' =>
                         /\ job'[r].attempt[c] = queue'[c].attempts
                         /\ queue'[c].attempts < MaxAttempts
                         /\ queue'[c].status # "DONE"
                    /\ \A g \in Group :
                         Has(job'[r].todo[g], c) =>
                           /\ job'[r].todo[g][c] = 1
                           /\ Routed(g, queue'[c].portal)
                           /\ job'[r].current # c
  BY DEF UpToDate
<1>1. CASE Holds(r, c)'
  BY <1>1 DEF UpToDate, Has
<1>2. CASE ~Holds(r, c)'
  BY <1>2 DEF Holds
<1> QED
  BY <1>1, <1>2

\* Only one run holds anything.
LEMMA OneHolds ==
  ASSUME PipelineAlone, IInv, PipelineInv, raced = {},
         NEW r \in Runs, NEW s \in Runs, NEW c \in Contracts,
         Live(r), job[r].kind = "trigger", s # r
  PROVE  ~Holds(s, c)
<1>1. /\ job[r].date = Today /\ job[s].date = Today
      /\ Today \in Dates
  BY ServiceAssumption DEF PipelineAlone, IInv, TypeOK, Job
<1>2. CASE Live(s)
  <2>1. job[s].kind # "trigger"
    BY <1>1, <1>2 DEF IInv, SingleRunUnlessRaced, PipelineLive
  <2>2. job[s].todo = NoTodo /\ job[s].current = NoContract
    BY <1>2, <2>1 DEF PipelineInv, OnlyPipeline, Live
  <2>3. c # NoContract /\ \A g \in Group : ~Has(NoTodo[g], c)
    BY ServiceAssumption DEF NoTodo, NoRows, Has
  <2> QED
    BY <2>2, <2>3 DEF Holds
<1>3. CASE ~Live(s)
  BY <1>3 DEF Holds
<1> QED
  BY <1>2, <1>3

\* fetch_gaps lists contracts that have attempts left and are not parsed, with
\* the attempt numbers they have.
LEMMA FetchInOrder ==
  ASSUME PipelineAlone, IInv, PointInv, PipelineInv, raced = {},
         NEW r \in Runs, Live(r), Fetches(r),
         \A s \in Runs \ {r} : job'[s] = job[s],
         NEW c \in Contracts
  PROVE  InOrder(c)' /\ Final(c)
<1> DEFINE new == job'[r]
<1>0. /\ queue \in [Contracts -> QueueRow]
      /\ InOrder(c) /\ queue' = MergedQueue /\ vitrina' = vitrina
  BY DEF IInv, TypeOK, TablesTypeOK, PipelineInv, Fetches, FetchGaps
<1>1. queue'[c] = IF c \in Gaps /\ queue[c].status = "ABSENT"
                  THEN NewRow(VitrinaPortal[c]) ELSE queue[c]
  BY <1>0 DEF MergedQueue
<1>2. \A p : NewRow(p).status = "NEW" /\ NewRow(p).attempts = 0
  BY DEF NewRow
<1>3. WithinLimit(c)' /\ Final(c)
  BY <1>0, <1>1, <1>2, TablesAssumption DEF InOrder, WithinLimit, Final
<1>4. Agrees(c)'
  BY <1>0, <1>1 DEF InOrder, Agrees, Gaps
<1>5. \A s \in Runs \ {r} : ~Holds(s, c)'
  BY OneHolds DEF Holds, Live, Fetches, PointInv
<1>6. new.current # c
  BY ServiceAssumption DEF Fetches, PointInv
<1>7. ASSUME NEW g \in Group, Has(new.todo[g], c)
      PROVE  /\ new.todo[g][c] = 1
             /\ Routed(g, queue'[c].portal)
             /\ c \in Stamped
             /\ queue'[c].status \in {"NEW", "IN_PROGRESS", "ERROR"}
             /\ new.attempt[c] = queue'[c].attempts
  <2>1. new.todo[g][c] =
          IF Routed(g, queue'[c].portal) THEN SelectedForRun[c] ELSE 0
    BY <1>0 DEF Fetches, Split
  <2>2. Routed(g, queue'[c].portal) /\ SelectedForRun[c] > 0
        /\ new.todo[g][c] = SelectedForRun[c]
    BY <1>7, <2>1 DEF Has
  <2>3. c \in Stamped /\ MergedQueue[c].status \in {"NEW", "IN_PROGRESS", "ERROR"}
        /\ SelectedForRun[c] = Count(MergedQueue[c].portal \in LikeSamruk)
                                 + Count(MergedQueue[c].portal \in LikeGos)
    BY <2>2 DEF SelectedForRun
  <2>4. SelectedForRun[c] = 1
    BY <2>2, <2>3 DEF PipelineAlone, Count
  <2>5. new.attempt[c] = MergedQueue[c].attempts
    BY <2>2 DEF Fetches, Has
  <2> QED
    BY <1>0, <2>2, <2>3, <2>4, <2>5
<1>8. Holds(r, c)' =>
        /\ new.attempt[c] = queue'[c].attempts
        /\ queue'[c].attempts < MaxAttempts
        /\ queue'[c].status # "DONE"
  <2> SUFFICES ASSUME Holds(r, c)'
               PROVE  /\ new.attempt[c] = queue'[c].attempts
                      /\ queue'[c].attempts < MaxAttempts
                      /\ queue'[c].status # "DONE"
    OBVIOUS
  <2>1. PICK g \in Group : Has(new.todo[g], c)
    BY <1>6 DEF Holds
  <2>2. c \in Gaps /\ (queue[c].status = "ABSENT" \/ Retryable(c))
    BY <1>7, <2>1 DEF Stamped
  <2>3. queue'[c].attempts < MaxAttempts
    BY <1>1, <1>2, <2>2, TablesAssumption DEF Retryable
  <2> QED
    BY <1>7, <2>1, <2>3
<1>9. UpToDate(c)'
  BY <1>5, <1>6, <1>7, <1>8 DEF UpToDate, Holds
<1> QED
  BY <1>3, <1>4, <1>9 DEF InOrder

\* mark_in_progress takes the contract off the list.
LEMMA MarkInOrder ==
  ASSUME PipelineAlone, IInv, PipelineInv, raced = {},
         NEW r \in Runs, Live(r), NEW g \in Group, NEW d \in Contracts,
         Marks(r, g, d),
         \A s \in Runs \ {r} : job'[s] = job[s],
         NEW c \in Contracts
  PROVE  InOrder(c)' /\ Final(c)
<1> DEFINE j == job[r]
           new == job'[r]
<1>0. /\ queue \in [Contracts -> QueueRow]
      /\ j.todo \in [Group -> [Contracts -> Nat]]
      /\ InOrder(c) /\ vitrina' = vitrina
  BY DEF IInv, TypeOK, TablesTypeOK, Job, PipelineInv, Marks, MarkInProgress
<1>1. \A h \in Group :
        new.todo[h][c] = IF h = g /\ c = d THEN j.todo[h][c] - 1 ELSE j.todo[h][c]
  BY <1>0 DEF Marks, After
<1>2. CASE c # d
  <2>1. queue'[c] = queue[c]
    BY <1>0, <1>2 DEF Marks, MarkInProgress
  <2>2. /\ new.attempt = j.attempt /\ new.current # c
        /\ \A h \in Group : new.todo[h][c] = j.todo[h][c]
    BY <1>1, <1>2 DEF Marks, After
  <2>3. UpToDate(c)'
    BY <1>0, <2>1, <2>2, StaysUpToDate DEF InOrder, Holds, Has, Live
  <2> QED
    BY <1>0, <2>1, <2>3 DEF InOrder, WithinLimit, Agrees, Final
<1>3. CASE c = d
  <2>1. /\ Holds(r, c) /\ Has(j.todo[g], c)
        /\ j.attempt[c] = queue[c].attempts
        /\ queue[c].attempts < MaxAttempts
        /\ queue[c].status # "DONE"
        /\ j.todo[g][c] = 1 /\ Routed(g, queue[c].portal)
    BY <1>0, <1>3 DEF InOrder, UpToDate, Holds, Marks
  <2>2. /\ queue'[c].status = "IN_PROGRESS"
        /\ queue'[c].attempts = queue[c].attempts
        /\ queue'[c].portal = queue[c].portal
    BY <1>0, <1>3 DEF Marks, MarkInProgress, QueueRow
  <2>3. \A h \in Group : ~Has(new.todo[h], c)
    <3> SUFFICES ASSUME NEW h \in Group, h # g PROVE ~Has(j.todo[h], c)
      BY <1>0, <1>1, <1>3, <2>1 DEF Has
    <3>1. ~Routed(h, queue[c].portal)
      BY <2>1 DEF PipelineAlone, Routed, Group
    <3> QED
      BY <1>0, <3>1 DEF InOrder, UpToDate
  <2>4. j.kind = "trigger"
    <3>1. j.todo # NoTodo
      BY <2>1 DEF NoTodo, NoRows, Has
    <3> QED
      BY <3>1 DEF PipelineInv, OnlyPipeline, Live
  <2>5. \A s \in Runs \ {r} : ~Holds(s, c)'
    BY <2>4, OneHolds DEF Holds, Live
  <2>6. UpToDate(c)'
    BY <2>1, <2>2, <2>3, <2>5 DEF UpToDate, Holds, Marks, After
  <2> QED
    BY <1>0, <2>1, <2>2, <2>6 DEF InOrder, WithinLimit, Agrees, Final
<1> QED
  BY <1>2, <1>3

\* save_result counts the attempt it decided on.
LEMMA SaveInOrder ==
  ASSUME PipelineAlone, IInv, PipelineInv, raced = {},
         NEW r \in Runs, Live(r), NEW res \in ParseResult, Saves(r, res),
         \A s \in Runs \ {r} : job'[s] = job[s],
         NEW c \in Contracts
  PROVE  InOrder(c)' /\ Final(c)
<1> DEFINE j == job[r]
           d == j.current
           new == job'[r]
<1>0. /\ queue \in [Contracts -> QueueRow]
      /\ InOrder(c) /\ vitrina' = vitrina /\ c # NoContract
  BY ServiceAssumption
     DEF IInv, TypeOK, TablesTypeOK, PipelineInv, Saves, SaveResult
<1>1. CASE c # d
  <2>1. queue'[c] = queue[c]
    BY <1>0, <1>1 DEF Saves, SaveResult
  <2>2. UpToDate(c)'
    BY <1>0, <1>1, <2>1, StaysUpToDate
       DEF InOrder, Holds, Live, Saves, After
  <2> QED
    BY <1>0, <2>1, <2>2 DEF InOrder, WithinLimit, Agrees, Final
<1>2. CASE c = d
  <2>1. /\ j.attempt[c] = queue[c].attempts
        /\ queue[c].attempts < MaxAttempts
        /\ queue[c].status # "DONE"
        /\ \A g \in Group : ~Has(j.todo[g], c)
    BY <1>0, <1>2 DEF InOrder, UpToDate, Holds
  <2>2. /\ queue'[c].status = StatusOrNotFound(res.status, j.attempt[c])
        /\ queue'[c].attempts = queue[c].attempts + 1
    BY <1>0, <1>2 DEF Saves, SaveResult, QueueRow
  <2>3. WithinLimit(c)'
    BY <1>0, <2>1, <2>2, TablesAssumption
       DEF WithinLimit, StatusOrNotFound, QueueRow
  <2>4. j.kind = "trigger"
    BY <1>0, <1>2 DEF PipelineInv, OnlyPipeline, Live
  <2>5. \A s \in Runs \ {r} : ~Holds(s, c)'
    BY <2>4, OneHolds DEF Holds, Live
  <2>6. ~Holds(r, c)'
    BY <1>0, <2>1 DEF Holds, Saves, After
  <2>7. UpToDate(c)'
    BY <2>5, <2>6 DEF UpToDate, Holds
  <2> QED
    BY <1>0, <2>1, <2>3, <2>7 DEF InOrder, Agrees, Final
<1> QED
  BY <1>1, <1>2

\* Between them a run writes nothing but the target table.
LEMMA OtherInOrder ==
  ASSUME IInv, PipelineInv, raced = {}, NEW r \in Runs, Live(r),
         Ends(r) \/ \E pc, task : GoesOn(r, pc, task),
         \A s \in Runs \ {r} : job'[s] = job[s],
         NEW c \in Contracts
  PROVE  InOrder(c)' /\ Final(c)
<1>0. InOrder(c) /\ vitrina \in [Contracts -> StatValue] /\ TaskMatchesKind
  BY DEF PipelineInv, IInv, TypeOK, TablesTypeOK, RunInv
<1>1. UNCHANGED queue /\ (UNCHANGED vitrina \/ MergeFromStaging)
  BY <1>0, GoesOnFacts DEF Ends, tables
<1>2. Agrees(c)'
  BY <1>0, <1>1 DEF InOrder, Agrees, MergeFromStaging
<1>3. UpToDate(c)'
  <2>1. Live(r)' =>
          /\ job'[r].todo = job[r].todo /\ job'[r].attempt = job[r].attempt
          /\ job'[r].current = job[r].current
    BY DEF Ends, GoesOn, After, Live, Ended
  <2> QED
    BY <1>0, <1>1, <2>1, StaysUpToDate DEF InOrder, Holds, Live
<1> QED
  BY <1>0, <1>1, <1>2, <1>3 DEF InOrder, WithinLimit, Final

\* A step or a failure of a run keeps the queue in order.
LEMMA PipelineStep ==
  ASSUME PipelineAlone, IInv, PointInv, PipelineInv, NEW r \in Runs,
         Step(r) \/ BodyFails(r) \/ CallFails(r)
  PROVE  /\ PipelineInv'
         /\ raced = {} => \A c \in Contracts : Final(c)
<1> DEFINE j == job[r]
<1>0. TypeOK /\ TaskMatchesKind /\ ParsingHasRow
  BY DEF IInv, RunInv
<1>1. /\ \A s \in Runs \ {r} : job'[s] = job[s]
      /\ job'[r].kind = j.kind /\ Live(r) /\ raced' = raced
  BY <1>0, StepMoves, MoveOthers DEF Goes
<1>2. j.kind \in {"trigger", "merge"}
  BY <1>1 DEF PipelineInv, OnlyPipeline, Live
<1>3. ~Creates(r) /\ ~Requeues(r)
  BY <1>1, <1>2 DEF Creates, Requeues, PointInv
<1>4. j.kind = "merge" /\ Live(r)' =>
        job'[r].todo = NoTodo /\ job'[r].current = NoContract
  <2> SUFFICES ASSUME j.kind = "merge", Live(r)'
               PROVE  job'[r].todo = NoTodo /\ job'[r].current = NoContract
    OBVIOUS
  <2>1. j.todo = NoTodo /\ j.current = NoContract
    BY <1>1 DEF PipelineInv, OnlyPipeline, Live
  <2>2. ~Fetches(r) /\ ~Ends(r)
    BY DEF Fetches, Ends, PointInv, Live, Ended
  <2>3. \A g \in Group, c \in Contracts : ~Marks(r, g, c)
    BY <2>1 DEF Marks, Has, NoTodo, NoRows
  <2>4. \A res \in ParseResult : Saves(r, res) => job'[r].todo = NoTodo
                                    /\ job'[r].current = NoContract
    BY <2>1 DEF Saves, After
  <2>5. \A pc, task : GoesOn(r, pc, task) =>
          job'[r].todo = NoTodo /\ job'[r].current = NoContract
    BY <2>1 DEF GoesOn, After
  <2> QED
    BY <1>3, <2>2, <2>3, <2>4, <2>5, StepLists
<1>5. OnlyPipeline'
  BY <1>1, <1>2, <1>4 DEF PipelineInv, OnlyPipeline, Live
<1>6. ASSUME raced = {}, NEW c \in Contracts PROVE InOrder(c)' /\ Final(c)
  BY <1>1, <1>3, <1>6, StepLists, FetchInOrder, MarkInOrder, SaveInOrder,
     OtherInOrder
<1> QED
  BY <1>1, <1>5, <1>6 DEF PipelineInv

\* So do requests, restarts and answers.
LEMMA PipelineNext ==
  ASSUME PipelineAlone, IInv, PointInv, PipelineInv, [Next]_vars
  PROVE  /\ PipelineInv'
         /\ raced = {} => \A c \in Contracts : Final(c)
<1>1. ASSUME NEW r \in Runs, Request(r)
      PROVE  /\ PipelineInv'
             /\ raced = {} => \A c \in Contracts : Final(c)
  <2>1. PICK new : Moves(r, new) /\ Enters(r, new)
    BY <1>1, RequestMoves
  <2>2. /\ \A s \in Runs \ {r} : job'[s] = job[s]
        /\ raced' = {} => raced = {}
    BY <2>1, MoveOthers DEF IInv, Enters
  <2>3. /\ UNCHANGED tables /\ job[r].pc = "idle"
        /\ job'[r].kind \in {"trigger", "merge"}
        /\ job'[r].todo = NoTodo /\ job'[r].current = NoContract
    BY <1>1, RequestKind DEF IInv, PipelineAlone
  <2>4. OnlyPipeline'
    BY <2>2, <2>3 DEF PipelineInv, OnlyPipeline, Live
  <2>5. ASSUME raced = {}, NEW c \in Contracts PROVE InOrder(c)'
    <3>1. ~Holds(r, c)'
      <4>1. c # NoContract /\ \A g \in Group : ~Has(NoTodo[g], c)
        BY ServiceAssumption DEF NoTodo, NoRows, Has
      <4> QED
        BY <2>3, <4>1 DEF Holds
    <3>2. InOrder(c) /\ queue' = queue /\ vitrina' = vitrina
      BY <2>3, <2>5 DEF PipelineInv, tables
    <3>3. UpToDate(c)'
      BY <2>2, <3>1, <3>2, StaysUpToDate DEF InOrder, Holds, Live
    <3> QED
      BY <3>2, <3>3 DEF InOrder, WithinLimit, Agrees
  <2> QED
    BY <2>2, <2>3, <2>4, <2>5 DEF PipelineInv, Final, tables
<1>2. ASSUME Crash
      PROVE  /\ PipelineInv'
             /\ raced = {} => \A c \in Contracts : Final(c)
  <2>1. /\ UNCHANGED tables /\ raced' = raced
        /\ \A s \in Runs : /\ ~Live(s)' /\ job'[s].kind = job[s].kind
                           /\ job'[s].pc = "idle" <=> job[s].pc = "idle"
    BY <1>2, EndedFields DEF Crash, Live, Ended
  <2> QED
    BY <2>1
       DEF PipelineInv, OnlyPipeline, InOrder, WithinLimit, Agrees, UpToDate,
           Final, tables
<1>3. ASSUME UNCHANGED vars
      PROVE  /\ PipelineInv'
             /\ raced = {} => \A c \in Contracts : Final(c)
  BY <1>3
     DEF vars, PipelineInv, OnlyPipeline, InOrder, WithinLimit, Agrees, UpToDate,
         Final, Holds, Live
<1>4. Rejected \/ Quiescent => UNCHANGED vars
  BY DEF Rejected, Quiescent
<1> QED
  BY <1>1, <1>2, <1>3, <1>4, PipelineStep DEF Next

\* PipelineInv holds in every reachable state.
LEMMA PipelineInvariance ==
  ASSUME PipelineAlone
  PROVE  Spec => []PipelineInv
<1>1. Init => PipelineInv
  <2> SUFFICES ASSUME Init PROVE PipelineInv
    OBVIOUS
  <2>1. \A r \in Runs : job[r].pc = "idle"
    BY DEF Init, IdleJob
  <2> QED
    BY <2>1
       DEF Init, TablesInit, PipelineAlone, PipelineInv, OnlyPipeline, InOrder,
           WithinLimit, Agrees, UpToDate, Live
<1>2. IInv /\ PointInv /\ PipelineInv /\ [Next]_vars => PipelineInv'
  BY PipelineNext
<1> QED
  BY <1>1, <1>2, Invariance, PointsInvariance, PTL DEF Spec

\* Where pipeline runs of one business date work on the queue, no contract is
\* attempted more often than max_attempts says, and none is left as ERROR with
\* its attempts used up, however many runs, failures and restarts there are:
\* the attempt number read at GAP_ANALYSIS is the row's own when it is used.
THEOREM LimitIsKept ==
  ASSUME PipelineAlone
  PROVE  Spec => []AttemptsRespectLimit
<1>1. PipelineInv => AttemptsRespectLimit
  BY DEF PipelineInv, InOrder, WithinLimit, AttemptsRespectLimit
<1> QED
  BY <1>1, PipelineInvariance, PTL

\* Under the same conditions merge_from_staging never leaves the target table
\* with a status that the queue does not hold as DONE.
THEOREM TargetAgrees ==
  ASSUME PipelineAlone
  PROVE  Spec => []PublishedIsParsed
<1>1. PipelineInv => PublishedIsParsed
  BY DEF PipelineInv, InOrder, Agrees, PublishedIsParsed
<1> QED
  BY <1>1, PipelineInvariance, PTL

\* And under the same conditions no run reopens a contract that was parsed,
\* although it works from a list read long before.
THEOREM ParsedIsFinal ==
  ASSUME PipelineAlone
  PROVE  Spec => DoneIsFinal
<1> DEFINE A == \A c \in Contracts :
                  raced = {} /\ queue[c].status = "DONE" => queue'[c] = queue[c]
<1>1. IInv /\ PointInv /\ PipelineInv /\ [Next]_vars => [A]_vars
  BY PipelineNext DEF Final
<1> QED
  BY <1>1, Invariance, PointsInvariance, PipelineInvariance, PTL
     DEF Spec, DoneIsFinal

-----------------------------------------------------------------------------
(* Without failures no queued contract is forgotten.                       *)

\* Nothing fails, every portal text is one that the SQL and the comprehensions
\* recognise, and nothing is queued when the service first starts.
Undisturbed ==
  /\ MaxCrashes = 0 /\ MaxDbErrors = 0
  /\ Portals \subseteq LikeSamruk \cup LikeGos
  /\ \A c \in Contracts : InitQueue[c].status \notin {"NEW", "IN_PROGRESS"}

\* The lists that are worked off when a run has come to a task.
ListsShrink(j) ==
  /\ j.pc = "fetch" => j.task = "GAP_ANALYSIS"
  /\ j.pc = "merge" => j.task = "UPDATE_TARGET_TABLE"
  /\ j.pc = "close" => j.task \in {"GAP_ANALYSIS", "UPDATE_TARGET_TABLE"}
  /\ j.task \in {"PARSE_GOSZAKUP", "PARSE_GOSZAKUP_MANY"} =>
       j.todo["samruk"] = NoRows
  /\ \/ j.task = "UPDATE_TARGET_TABLE"
     \/ /\ j.task \in {"GAP_ANALYSIS", "RERUN_NOT_FOUND"}
        /\ j.pc \in {"accepted", "open", "fetch", "requeue"}
     => j.todo = NoTodo

\* The contracts of a manual request are on its lists from the start.
Listing(j) ==
  j.pc = "create" =>
    /\ j.task \in {"PARSE_SINGLE_CONTRACT", "PARSE_SAMRUK_MANY"}
    /\ j.known
    /\ j.items # << >>
    /\ \A i \in DOMAIN j.items : \E g \in Group : Has(j.todo[g], j.items[i][1])

ShapeInv ==
  \A r \in Runs :
    Live(r) => job[r].pc # "abort" /\ ListsShrink(job[r]) /\ Listing(job[r])

HeldInv ==
  \A c \in Contracts :
    queue[c].status \in {"NEW", "IN_PROGRESS"} => \E r \in Runs : Holds(r, c)

\* Every contract of a manual request with known portals is on a list.
LEMMA AskedHas ==
  ASSUME NEW items \in Seq(Contracts \X Portals), Recognised(items),
         NEW kind, NEW i \in DOMAIN items
  PROVE  \E g \in Group : Has(Asked(kind, items)[g], items[i][1])
<1> DEFINE Of(g, c) ==
      {k \in DOMAIN items :
         /\ items[k][1] = c
         /\ Routed(g, items[k][2])
         /\ kind = "one" /\ g = "gos" => ~Routed("samruk", items[k][2])}
           c == items[i][1]
<1>1. PICK g \in Group :
        /\ Routed(g, items[i][2])
        /\ g = "gos" => ~Routed("samruk", items[i][2])
  <2>1. PICK h \in Group : Routed(h, items[i][2])
    BY DEF Recognised
  <2>2. CASE Routed("samruk", items[i][2])
    BY <2>2 DEF Group
  <2>3. CASE ~Routed("samruk", items[i][2])
    BY <2>1, <2>3
  <2> QED
    BY <2>2, <2>3
<1>2. i \in Of(g, c)
  BY <1>1
<1>3. c \in Contracts
  <2>1. items[i] \in Contracts \X Portals
    BY ElementOfSeq, LenProperties
  <2> QED
    BY <2>1
<1>4. IsFiniteSet(Of(g, c))
  <2>1. DOMAIN items = 1..Len(items) /\ Len(items) \in Nat
    BY LenProperties
  <2>2. IsFiniteSet(1..Len(items))
    BY <2>1, FS_Interval
  <2>3. Of(g, c) \in SUBSET (1..Len(items))
    BY <2>1
  <2> QED
    BY <2>2, <2>3, FS_Subset
<1>5. Cardinality(Of(g, c)) \in Nat /\ Cardinality(Of(g, c)) # 0
  BY <1>2, <1>4, FS_CardinalityType, FS_EmptySet
<1>6. Asked(kind, items)[g][c] = Cardinality(Of(g, c))
  BY <1>3 DEF Asked
<1> QED
  BY <1>5, <1>6 DEF Has

\* A run leaves a task when the rows of that task are done.
LEMMA NothingLeft ==
  ASSUME NEW j \in Job, NothingDue(j)
  PROVE  /\ "samruk" \in GroupsOf(j.task) => j.todo["samruk"] = NoRows
         /\ /\ "gos" \in GroupsOf(j.task)
            /\ "samruk" \in GroupsOf(j.task) \/ j.todo["samruk"] = NoRows
            => j.todo = NoTodo
<1>0. j.todo \in [Group -> [Contracts -> Nat]] /\ Group = {"samruk", "gos"}
  BY DEF Job, Group
<1>1. ASSUME NEW g \in Group, \A c \in Contracts : ~Has(j.todo[g], c)
      PROVE  j.todo[g] = NoRows
  <2>1. \A c \in Contracts : j.todo[g][c] = 0
    BY <1>0, <1>1 DEF Has
  <2> QED
    BY <1>0, <2>1 DEF NoRows
<1>2. "samruk" \in GroupsOf(j.task) => j.todo["samruk"] = NoRows
  BY <1>0, <1>1 DEF NothingDue, Due
<1>3. /\ "gos" \in GroupsOf(j.task)
      /\ "samruk" \in GroupsOf(j.task) \/ j.todo["samruk"] = NoRows
      => j.todo["gos"] = NoRows /\ j.todo["samruk"] = NoRows
  BY <1>0, <1>1, <1>2 DEF NothingDue, Due
<1>4. j.todo["gos"] = NoRows /\ j.todo["samruk"] = NoRows => j.todo = NoTodo
  BY <1>0 DEF NoTodo
<1> QED
  BY <1>2, <1>3, <1>4

\* When a run goes to its next task, or ends, its lists have shrunk to what that
\* task still has to work off.
LEMMA ListsAtClose ==
  ASSUME NEW j \in Job, j.task \in TaskNames, ListsShrink(j), Closing(j)
  PROVE  LET next == NextTask(j.task, j.merge) IN
         /\ next = "NONE" => j.todo = NoTodo
         /\ next \in {"PARSE_GOSZAKUP", "PARSE_GOSZAKUP_MANY"} =>
              j.todo["samruk"] = NoRows
         /\ next = "UPDATE_TARGET_TABLE" => j.todo = NoTodo
         /\ next \notin {"GAP_ANALYSIS", "RERUN_NOT_FOUND"}
<1>1. CASE j.pc = "close"
  BY <1>1 DEF ListsShrink, NextTask
<1>2. CASE j.pc = "rows" /\ NothingDue(j)
  <2>1. CASE j.task \in {"PARSE_SAMRUK", "PARSE_SAMRUK_MANY"}
    BY <1>2, <2>1, NothingLeft DEF NextTask, GroupsOf
  <2>2. CASE j.task \in {"PARSE_GOSZAKUP", "PARSE_GOSZAKUP_MANY",
                         "PARSE_SINGLE_CONTRACT", "RERUN_NOT_FOUND"}
    <3>1. j.todo = NoTodo
      BY <1>2, <2>2, NothingLeft DEF GroupsOf, ListsShrink, Group
    <3>2. j.todo["samruk"] = NoRows
      BY <3>1 DEF NoTodo, Group
    <3> QED
      BY <2>2, <3>1, <3>2 DEF NextTask
  <2>3. CASE j.task \in {"GAP_ANALYSIS", "UPDATE_TARGET_TABLE"}
    BY <2>3 DEF NextTask, ListsShrink
  <2> QED
    BY <2>1, <2>2, <2>3 DEF TaskNames, PipelineTasks, ManualTasks
<1> QED
  BY <1>1, <1>2 DEF Closing

\* The rest of a request's list when one of its contracts is done, and the one
\* that is done.
LEMMA TailOf ==
  ASSUME NEW S, NEW q \in Seq(S), Len(q) > 1
  PROVE  /\ Tail(q) # << >>
         /\ \A i \in DOMAIN Tail(q) :
              i + 1 \in DOMAIN q /\ Tail(q)[i] = q[i + 1]
<1>1. q # << >> /\ Len(q) \in Nat /\ DOMAIN q = 1..Len(q)
  BY LenProperties, EmptySeq
<1>2. PICK t \in Seq(S) : t = Tail(q)
  BY <1>1, HeadTailProperties
<1>3. Len(t) = Len(q) - 1 /\ \A i \in 1..Len(t) : t[i] = q[i + 1]
  BY <1>1, <1>2, HeadTailProperties
<1>4. DOMAIN t = 1..Len(t)
  BY LenProperties
<1>5. Len(t) # 0
  BY <1>1, <1>3
<1>6. t # << >>
  BY <1>5, EmptySeq
<1>7. \A i \in DOMAIN t : i + 1 \in DOMAIN q /\ t[i] = q[i + 1]
  BY <1>1, <1>3, <1>4
<1> QED
  BY <1>2, <1>6, <1>7

LEMMA HeadOf ==
  ASSUME NEW S, NEW q \in Seq(S), q # << >>
  PROVE  1 \in DOMAIN q /\ Head(q) = q[1] /\ q[1] \in S
<1>1. Len(q) \in Nat \ {0} /\ DOMAIN q = 1..Len(q)
  BY LenProperties, EmptySeq
<1>2. 1 \in 1..Len(q)
  BY <1>1
<1>3. Head(q) = q[1]
  BY SMT
<1> QED
  BY <1>1, <1>2, <1>3, ElementOfSeq

\* A step keeps the shape of a run's lists.
LEMMA ShapeStep ==
  ASSUME Undisturbed, IInv, PointInv, ShapeInv, NEW r \in Runs,
         Step(r) \/ BodyFails(r) \/ CallFails(r), Live(r),
         \A s \in Runs \ {r} : job'[s] = job[s]
  PROVE  ShapeInv'
<1> DEFINE j == job[r]
           new == job'[r]
           OK == new.pc # "abort" /\ ListsShrink(new) /\ Listing(new)
<1>0. /\ j \in Job /\ j.pc # "abort" /\ ListsShrink(j) /\ Listing(j)
      /\ j.task \in TaskNames /\ TaskMatchesKind
      /\ ~(dbErrors < MaxDbErrors)
  BY DEF IInv, RunInv, TypeOK, ShapeInv, TaskMatchesKind, Undisturbed
<1>1. ASSUME Live(r)' => OK PROVE ShapeInv'
  BY <1>1 DEF ShapeInv, Live
<1>2. CASE Creates(r)
  <2>1. CASE new.pc = "create" /\ After(r, "create", j.task, j.todo, j.current)
    <3>1. /\ j.items \in Seq(Contracts \X Portals) /\ Len(j.items) > 1
          /\ new.items = Tail(j.items) /\ new.known = j.known
      BY <1>0, <1>2, <2>1 DEF Creates, After, Job
    <3>2. /\ Tail(j.items) # << >>
          /\ \A i \in DOMAIN Tail(j.items) :
               /\ i + 1 \in DOMAIN j.items
               /\ Tail(j.items)[i] = j.items[i + 1]
      BY <3>1, TailOf
    <3>3. Listing(new)
      BY <1>0, <1>2, <2>1, <3>1, <3>2 DEF Listing, Creates, After
    <3>4. ListsShrink(new)
      BY <1>0, <1>2, <2>1 DEF ListsShrink, Listing, Creates, After
    <3> QED
      BY <1>1, <2>1, <3>3, <3>4
  <2>2. CASE After(r, "open", j.task, j.todo, j.current)
    BY <1>0, <1>1, <1>2, <2>2 DEF ListsShrink, Listing, Creates, After
  <2> QED
    BY <1>0, <1>2, <2>1, <2>2 DEF Creates, Listing, After
<1>3. CASE Fetches(r)
  BY <1>0, <1>1, <1>3 DEF Fetches, ListsShrink, Listing
<1>4. CASE Requeues(r)
  BY <1>0, <1>1, <1>4 DEF Requeues, After, ListsShrink, Listing, PointInv
<1>5. ASSUME NEW g \in Group, NEW c \in Contracts, Marks(r, g, c)
      PROVE  ShapeInv'
  <2>1. /\ new.pc = "parsing" /\ new.task = j.task
        /\ new.todo = [j.todo EXCEPT ![g][c] = @ - 1]
    BY <1>5 DEF Marks, After
  <2>2. /\ j.todo # NoTodo
        /\ g = "samruk" => j.todo["samruk"] # NoRows
    BY <1>5 DEF Marks, Has, NoTodo, NoRows
  <2>3. g # "samruk" => new.todo["samruk"] = j.todo["samruk"]
    BY <1>0, <2>1 DEF Job, Group
  <2> QED
    BY <1>0, <1>1, <2>1, <2>2, <2>3 DEF ListsShrink, Listing
<1>6. ASSUME NEW res \in ParseResult, Saves(r, res) PROVE ShapeInv'
  BY <1>0, <1>1, <1>6 DEF Saves, After, ListsShrink, Listing
<1>7. ASSUME NEW pc, NEW task, GoesOn(r, pc, task) PROVE ShapeInv'
  <2>1. new.pc = pc /\ new.task = task /\ new.todo = j.todo
    BY <1>7 DEF GoesOn, After
  <2>2. CASE j.pc \in {"accepted", "open"} /\ task = j.task /\ pc = Body(task)
    BY <1>0, <1>1, <2>1, <2>2 DEF Body, ListsShrink, Listing
  <2>3. CASE j.pc = "merge" /\ task = j.task /\ pc = "close"
    BY <1>0, <1>1, <2>1, <2>3 DEF ListsShrink, Listing
  <2>4. CASE Closing(j) /\ task = NextTask(j.task, j.merge) /\ pc = "open"
    BY <1>0, <1>1, <2>1, <2>4, ListsAtClose DEF ListsShrink, Listing
  <2> QED
    BY <1>0, <1>7, <2>2, <2>3, <2>4 DEF GoesOn
<1>8. CASE Ends(r)
  BY <1>1, <1>8 DEF Ends, Live, Ended
<1> QED
  BY <1>2, <1>3, <1>4, <1>5, <1>6, <1>7, <1>8, StepLists

\* A queued contract keeps its holder if the run that moves has kept it.
LEMMA StaysHeld ==
  ASSUME HeldInv, NEW r \in Runs,
         \A s \in Runs \ {r} : job'[s] = job[s],
         \A c \in Contracts :
           queue'[c].status \in {"NEW", "IN_PROGRESS"} =>
             \/ Holds(r, c)'
             \/ ~Holds(r, c) /\ queue[c].status \in {"NEW", "IN_PROGRESS"}
  PROVE  HeldInv'
<1> SUFFICES ASSUME NEW c \in Contracts,
                    queue'[c].status \in {"NEW", "IN_PROGRESS"}
             PROVE  \E s \in Runs : Holds(s, c)'
  BY DEF HeldInv
<1>1. CASE Holds(r, c)'
  BY <1>1
<1>2. CASE ~Holds(r, c) /\ queue[c].status \in {"NEW", "IN_PROGRESS"}
  <2>1. PICK s \in Runs : Holds(s, c)
    BY <1>2 DEF HeldInv
  <2>2. Holds(s, c)'
    BY <1>2, <2>1 DEF Holds, Live
  <2> QED
    BY <2>2
<1> QED
  BY <1>1, <1>2

\* A step forgets no contract.
LEMMA HeldStep ==
  ASSUME Undisturbed, IInv, PointInv, ShapeInv, HeldInv, NEW r \in Runs,
         Step(r) \/ BodyFails(r) \/ CallFails(r), Live(r),
         \A s \in Runs \ {r} : job'[s] = job[s]
  PROVE  HeldInv'
<1> DEFINE j == job[r]
           new == job'[r]
           Waiting == {"NEW", "IN_PROGRESS"}
<1>0. /\ j \in Job /\ queue \in [Contracts -> QueueRow]
      /\ j.todo \in [Group -> [Contracts -> Nat]]
      /\ j.pc # "abort" /\ ListsShrink(j) /\ Listing(j)
      /\ j.task \in TaskNames /\ TaskMatchesKind
      /\ ~(dbErrors < MaxDbErrors)
      /\ j.pc \notin {"parsing", "abort"} => j.current = NoContract
  BY DEF IInv, RunInv, TypeOK, TablesTypeOK, ShapeInv, TaskMatchesKind,
         Undisturbed, Job, PointInv
<1>1. ASSUME j.todo = NoTodo, j.current = NoContract, NEW c \in Contracts
      PROVE  ~Holds(r, c)
  BY <1>1, ServiceAssumption DEF Holds, NoTodo, NoRows, Has
<1>2. \A p \in Portals : \E g \in Group : Routed(g, p)
  BY TablesAssumption DEF Undisturbed, Routed, Group
<1>3. CASE Creates(r)
  <2>1. /\ Live(r)' /\ new.todo = j.todo /\ new.current = j.current
    BY <1>0, <1>3 DEF Creates, After, Listing, Live, Ended
  <2>2. PICK d \in Contracts :
          /\ d = Head(j.items)[1]
          /\ \E g \in Group : Has(j.todo[g], d)
    <3>1. j.items \in Seq(Contracts \X Portals) /\ j.items # << >>
      BY <1>0, <1>3 DEF Job, Creates, Listing
    <3>2. 1 \in DOMAIN j.items /\ Head(j.items) = j.items[1]
          /\ j.items[1] \in Contracts \X Portals
      BY <3>1, HeadOf
    <3> QED
      BY <1>0, <1>3, <3>2 DEF Creates, Listing
  <2>3. Holds(r, d)'
    BY <2>1, <2>2 DEF Holds
  <2>4. \A c \in Contracts : Holds(r, c) => Holds(r, c)'
    BY <2>1 DEF Holds
  <2>5. \A c \in Contracts \ {d} : queue'[c] = queue[c]
    BY <1>0, <1>3, <2>2 DEF Creates, GetOrCreate
  <2> QED
    BY <2>3, <2>4, <2>5, StaysHeld
<1>4. CASE Fetches(r)
  <2>1. j.todo = NoTodo /\ j.current = NoContract /\ Live(r)'
    BY <1>0, <1>4 DEF Fetches, ListsShrink, Live, Ended
  <2>2. ASSUME NEW c \in Contracts, queue'[c].status \in Waiting,
               queue[c].status \notin Waiting
        PROVE  Holds(r, c)'
    <3>1. queue' = MergedQueue
      BY <1>4 DEF Fetches, FetchGaps
    <3>2. /\ c \in Gaps /\ queue[c].status = "ABSENT"
          /\ MergedQueue[c] = NewRow(VitrinaPortal[c])
      BY <2>2, <3>1 DEF MergedQueue
    <3>3. c \in Stamped /\ MergedQueue[c].status = "NEW"
          /\ MergedQueue[c].portal = VitrinaPortal[c]
          /\ VitrinaPortal[c] \in Portals
      BY <3>2, TablesAssumption DEF Stamped, NewRow
    <3>4. SelectedForRun[c] > 0
      BY <3>3 DEF SelectedForRun, Undisturbed, Count
    <3>5. PICK g \in Group : Routed(g, MergedQueue[c].portal)
      BY <1>2, <3>3
    <3>6. new.todo[g][c] = SelectedForRun[c]
      BY <1>4, <3>5 DEF Fetches, Split
    <3> QED
      BY <2>1, <3>4, <3>6 DEF Holds, Has
  <2>3. \A c \in Contracts : ~Holds(r, c)
    BY <1>1, <2>1
  <2> QED
    BY <2>2, <2>3, StaysHeld
<1>5. CASE Requeues(r)
  <2>1. j.todo = NoTodo /\ j.current = NoContract /\ Live(r)'
    BY <1>0, <1>5 DEF Requeues, After, ListsShrink, PointInv, Live, Ended
  <2>2. ASSUME NEW c \in Contracts, queue'[c].status \in Waiting,
               queue[c].status \notin Waiting
        PROVE  Holds(r, c)'
    <3>1. c \in NotFoundContracts
      BY <1>0, <1>5, <2>2 DEF Requeues, RequeueNotFound
    <3>2. PICK g \in Group : Routed(g, queue[c].portal)
      BY <1>0, <1>2 DEF QueueRow
    <3>3. new.todo[g][c] = 1
      BY <1>5, <3>1, <3>2 DEF Requeues, After, Split, NotFoundRows, Count
    <3> QED
      BY <2>1, <3>3 DEF Holds, Has
  <2>3. \A c \in Contracts : ~Holds(r, c)
    BY <1>1, <2>1
  <2> QED
    BY <2>2, <2>3, StaysHeld
<1>6. ASSUME NEW g \in Group, NEW d \in Contracts, Marks(r, g, d)
      PROVE  HeldInv'
  <2>1. /\ Live(r)' /\ new.current = d /\ j.current = NoContract
        /\ new.todo = [j.todo EXCEPT ![g][d] = @ - 1]
    BY <1>0, <1>6 DEF Marks, After, Live, Ended
  <2>2. Holds(r, d)'
    BY <2>1 DEF Holds
  <2>3. ASSUME NEW c \in Contracts \ {d}
        PROVE  queue'[c] = queue[c] /\ (Holds(r, c) => Holds(r, c)')
    <3>1. queue'[c] = queue[c]
      BY <1>0, <1>6, <2>3 DEF Marks, MarkInProgress
    <3>2. \A h \in Group : new.todo[h][c] = j.todo[h][c]
      BY <1>0, <2>1, <2>3
    <3> QED
      BY <2>1, <3>1, <3>2, ServiceAssumption DEF Holds, Has
  <2> QED
    BY <2>2, <2>3, StaysHeld
<1>7. ASSUME NEW res \in ParseResult, Saves(r, res) PROVE HeldInv'
  <2> DEFINE d == j.current
  <2>1. Live(r)' /\ new.todo = j.todo
    BY <1>7 DEF Saves, After, Live, Ended
  <2>2. ASSUME NEW c \in Contracts, queue'[c].status \in Waiting
        PROVE  queue[c].status \in Waiting /\ (Holds(r, c) => Holds(r, c)')
    <3>1. StatusOrNotFound(res.status, j.attempt[d]) \notin Waiting
      BY DEF StatusOrNotFound, ParseResult
    <3>2. c # d /\ queue'[c] = queue[c]
      BY <1>0, <1>7, <2>2, <3>1 DEF Saves, SaveResult, QueueRow
    <3> QED
      BY <2>1, <2>2, <3>2 DEF Holds
  <2> QED
    BY <2>2, StaysHeld
<1>8. ASSUME NEW pc, NEW task, GoesOn(r, pc, task) PROVE HeldInv'
  <2>1. Live(r)' /\ new.todo = j.todo /\ new.current = j.current
    BY <1>0, <1>8, GoesOnFacts DEF GoesOn, After, Live, Ended
  <2>2. UNCHANGED queue
    BY <1>0, <1>8, GoesOnFacts
  <2> QED
    BY <2>1, <2>2, StaysHeld DEF Holds
<1>9. CASE Ends(r)
  <2>1. Closing(j) /\ NextTask(j.task, j.merge) = "NONE" /\ UNCHANGED queue
    BY <1>0, <1>9 DEF Ends, tables
  <2>2. j.todo = NoTodo /\ j.current = NoContract
    BY <1>0, <2>1, ListsAtClose DEF Closing
  <2>3. \A c \in Contracts : ~Holds(r, c)
    BY <1>1, <2>2
  <2> QED
    BY <2>1, <2>3, StaysHeld
<1> QED
  BY <1>3, <1>4, <1>5, <1>6, <1>7, <1>8, <1>9, StepLists

\* Without failures, a contract that is queued as NEW or IN_PROGRESS is on the
\* list, or in the parser, of a live run: pipelines, reruns, parse-one and
\* parse-many together forget none, in whatever order they take each other's
\* contracts.
THEOREM QueuedIsHeld ==
  ASSUME Undisturbed
  PROVE  Spec => []QueuedRowIsHeld
<1>1. Init => ShapeInv /\ HeldInv
  <2> SUFFICES ASSUME Init PROVE ShapeInv /\ HeldInv
    OBVIOUS
  <2>1. \A r \in Runs : job[r].pc = "idle"
    BY DEF Init, IdleJob
  <2> QED
    BY <2>1 DEF Init, TablesInit, Undisturbed, ShapeInv, HeldInv, Live
<1>2. IInv /\ PointInv /\ ShapeInv /\ HeldInv /\ [Next]_vars => ShapeInv' /\ HeldInv'
  <2> SUFFICES ASSUME IInv, PointInv, ShapeInv, HeldInv, [Next]_vars
               PROVE  ShapeInv' /\ HeldInv'
    OBVIOUS
  <2>0. TypeOK /\ TaskMatchesKind /\ ParsingHasRow
    BY DEF IInv, RunInv
  <2>1. ASSUME NEW r \in Runs, Step(r) \/ BodyFails(r) \/ CallFails(r)
        PROVE  ShapeInv' /\ HeldInv'
    <3>1. Live(r) /\ \A s \in Runs \ {r} : job'[s] = job[s]
      BY <2>0, <2>1, StepMoves, MoveOthers DEF Goes
    <3> QED
      BY <2>1, <3>1, ShapeStep, HeldStep
  <2>2. ASSUME NEW r \in Runs, Request(r) PROVE ShapeInv' /\ HeldInv'
    <3> DEFINE new == job'[r]
    <3>1. \A s \in Runs \ {r} : job'[s] = job[s]
      BY <2>0, <2>2, RequestMoves, MoveOthers
    <3>2. /\ UNCHANGED queue /\ job[r].pc = "idle"
          /\ new.pc \in {"accepted", "create", "open"}
          /\ \/ Names(new)
             \/ new.pc # "create" /\ new.todo = NoTodo
      BY <2>0, <2>2, RequestKind DEF tables
    <3>3. ASSUME new.pc # "create", new.todo = NoTodo
          PROVE  ListsShrink(new) /\ Listing(new)
      BY <3>2, <3>3 DEF ListsShrink, Listing, NoTodo, Group
    <3>4. ASSUME Names(new)
          PROVE  ListsShrink(new) /\ Listing(new)
      <4>1. Recognised(new.items)
        <5> SUFFICES ASSUME NEW i \in DOMAIN new.items
                     PROVE  \E g \in Group : Routed(g, new.items[i][2])
          BY DEF Recognised
        <5>1. new.items[i] \in Contracts \X Portals
          BY <3>4, ElementOfSeq, LenProperties DEF Names
        <5> QED
          BY <5>1, TablesAssumption DEF Undisturbed, Routed, Group
      <4>2. \A i \in DOMAIN new.items :
              \E g \in Group : Has(new.todo[g], new.items[i][1])
        BY <3>4, <4>1, AskedHas DEF Names
      <4>3. Listing(new)
        BY <3>4, <4>1, <4>2 DEF Names, Listing
      <4> QED
        BY <3>4, <4>3 DEF Names, ListsShrink
    <3>5. ShapeInv'
      <4>1. new.pc # "abort" /\ ListsShrink(new) /\ Listing(new)
        BY <3>2, <3>3, <3>4
      <4>2. \A s \in Runs \ {r} : job'[s] = job[s]
        BY <3>1
      <4> QED
        BY <4>1, <4>2 DEF ShapeInv, Live
    <3>6. HeldInv'
      BY <3>1, <3>2, StaysHeld DEF Holds, Live
    <3> QED
      BY <3>5, <3>6
  <2>3. ~Crash
    BY <2>0 DEF Crash, Undisturbed, TypeOK
  <2>4. Rejected \/ Quiescent \/ UNCHANGED vars => ShapeInv' /\ HeldInv'
    BY DEF Rejected, Quiescent, vars, ShapeInv, HeldInv, Holds, Live
  <2> QED
    BY <2>1, <2>2, <2>3, <2>4 DEF Next
<1>3. HeldInv => QueuedRowIsHeld
  BY DEF HeldInv, QueuedRowIsHeld
<1> QED
  BY <1>1, <1>2, <1>3, Invariance, PointsInvariance, PTL DEF Spec

=============================================================================
