---------------------------- MODULE TaskLogProofs ----------------------------
(***************************************************************************)
(* The journal that the service writes is a task log: every step of        *)
(* ParserService is a step of TaskLog or leaves the journal as it is, for  *)
(* any number of runs, contracts, dates, failures and restarts.            *)
(***************************************************************************)
EXTENDS QueueProofs

Firsts == {FirstTask[kind] : kind \in Kinds}

Edges == {<<"GAP_ANALYSIS", "PARSE_SAMRUK">>,
          <<"PARSE_SAMRUK", "PARSE_GOSZAKUP">>,
          <<"PARSE_GOSZAKUP", "UPDATE_TARGET_TABLE">>,
          <<"PARSE_SAMRUK_MANY", "PARSE_GOSZAKUP_MANY">>}

RowsOf(r) == {i \in DOMAIN monitor : monitor[i].run = r}

IsLastOf(i, r) == i \in RowsOf(r) /\ \A k \in RowsOf(r) : k <= i

\* The next row of r continues its chain, or begins it.
Ready(r) ==
  \/ RowsOf(r) = {} /\ job[r].task \in Firsts
  \/ /\ \A i \in RowsOf(r) : monitor[i].status = "SUCCESS"
     /\ \E i \in RowsOf(r) :
          /\ IsLastOf(i, r)
          /\ monitor[i].date = job[r].date
          /\ <<monitor[i].task, job[r].task>> \in Edges

\* The open row of r is its last, and those before it succeeded.
Inside(r) ==
  /\ IsLastOf(job[r].mon, r)
  /\ \A i \in RowsOf(r) \ {job[r].mon} : monitor[i].status = "SUCCESS"

Chain(r) ==
  /\ job[r].pc = "idle" => RowsOf(r) = {}
  /\ job[r].pc \in {"accepted", "create", "open"} => Ready(r)
  /\ job[r].pc \in InTask => Inside(r)

ChainInv == \A r \in Runs : Chain(r)

-----------------------------------------------------------------------------
(* The steps of a run as the journal sees them.                            *)

Silent(r) ==
  /\ UNCHANGED monitor
  /\ job'[r].pc # "idle"
  /\ job'[r].pc \in {"accepted", "create", "open"} =>
       /\ job[r].pc = "create"
       /\ job'[r].task = job[r].task /\ job'[r].date = job[r].date
  /\ job'[r].pc \in InTask => job[r].pc \in InTask /\ job'[r].mon = job[r].mon

Enter(r) ==
  /\ job[r].pc \in {"accepted", "open"}
  /\ LogStart(r, job[r].task, job[r].date)
  /\ job'[r].pc \in InTask /\ job'[r].mon = Len(monitor) + 1

Leave(r, status) ==
  /\ job[r].pc \in InTask
  /\ LogEnd(job[r].mon, status)
  /\ \/ job'[r].pc \in Ended
     \/ /\ status = "SUCCESS" /\ job'[r].pc = "open"
        /\ <<job[r].task, job'[r].task>> \in Edges
        /\ job'[r].date = job[r].date

\* The points that StepLists lets a run inside a task go to.
LEMMA GoesOpen ==
  ASSUME IInv, NEW r \in Runs, Step(r) \/ BodyFails(r) \/ CallFails(r)
  PROVE  /\ job'[r].pc # "accepted"
         /\ job'[r].pc \in {"create", "open"} =>
              \/ job[r].pc = "create" /\ job'[r].task = job[r].task
              \/ /\ Closing(job[r]) /\ job'[r].pc = "open"
                 /\ job'[r].task = NextTask(job[r].task, job[r].merge)
                 /\ job'[r].task # "NONE"
<1>1. \A task : Body(task) \in {"fetch", "requeue", "merge", "rows"}
  BY DEF Body
<1>2. CASE Creates(r)
  BY <1>2 DEF Creates, After
<1>3. CASE Fetches(r) \/ Requeues(r) \/ Ends(r)
  BY <1>3 DEF Fetches, Requeues, Ends, After
<1>4. ASSUME NEW g, NEW c, Marks(r, g, c) PROVE job'[r].pc = "parsing"
  BY <1>4 DEF Marks, After
<1>5. ASSUME NEW res, Saves(r, res) PROVE job'[r].pc = "rows"
  BY <1>5 DEF Saves, After
<1>6. ASSUME NEW pc, NEW task, GoesOn(r, pc, task)
      PROVE  /\ job'[r].pc # "accepted"
             /\ job'[r].pc \in {"create", "open"} =>
                  /\ Closing(job[r]) /\ job'[r].pc = "open"
                  /\ job'[r].task = NextTask(job[r].task, job[r].merge)
                  /\ job'[r].task # "NONE"
  BY <1>1, <1>6 DEF GoesOn, After
<1> QED
  BY <1>2, <1>3, <1>4, <1>5, <1>6, StepLists

LEMMA TaskOrder ==
  ASSUME NEW task, NEW merge, NextTask(task, merge) # "NONE"
  PROVE  <<task, NextTask(task, merge)>> \in Edges
  BY DEF NextTask, Edges

\* A run that goes on to another task has closed its row as SUCCESS.
LEMMA ClosedWell ==
  ASSUME IInv, NEW r \in Runs, Step(r) \/ BodyFails(r) \/ CallFails(r),
         Closing(job[r]), job'[r].pc = "open"
  PROVE  LogEnd(job[r].mon, "SUCCESS")
<1>1. /\ job \in [Runs -> Job] /\ job[r].pc \in {"close", "rows"}
      /\ job[r].pc = "rows" => NothingDue(job[r])
  BY DEF IInv, TypeOK, Closing
<1>2. ~CreateRow(r) /\ ~OpenTask(r) /\ ~FetchStep(r) /\ ~RequeueStep(r)
  BY <1>1 DEF CreateRow, OpenTask, FetchStep, RequeueStep
<1>3. ~MergeStep(r) /\ ~SaveRow(r) /\ ~Abort(r)
  BY <1>1 DEF MergeStep, SaveRow, Abort
<1>4. ~MarkRow(r) /\ ~BodyFails(r)
  BY <1>1, Zenon DEF MarkRow, BodyFails, NothingDue
<1>5. ~CallFails(r)
  BY <1>1, EndedFields DEF CallFails, Await
<1> QED
  BY <1>2, <1>3, <1>4, <1>5 DEF Step, CloseTask

\* Every step or failure of a run is silent, enters a task or leaves one.
LEMMA StepJournal ==
  ASSUME IInv, NEW r \in Runs, Step(r) \/ BodyFails(r) \/ CallFails(r)
  PROVE  /\ \A s \in Runs \ {r} : job'[s] = job[s]
         /\ \/ Silent(r) \/ Enter(r)
            \/ \E status \in {"SUCCESS", "FAILED"} : Leave(r, status)
<1>0. TypeOK /\ TaskMatchesKind /\ ParsingHasRow
  BY DEF IInv, RunInv
<1>1. PICK new : /\ Moves(r, new) /\ Goes(r, new)
                 /\ Keeps(r, new) \/ Opens(r, new) \/ Closes(r, new)
  BY <1>0, StepMoves
<1>2. job'[r] = new /\ \A s \in Runs \ {r} : job'[s] = job[s]
  BY <1>0, <1>1, MoveOthers
<1>3. new.pc \in PC
  <2>1. TypeOK'
    BY <1>0, StepType, FaultType
  <2> QED
    BY <1>2, <2>1 DEF TypeOK, Job
<1>4. CASE Keeps(r, new)
  <2>1. Silent(r)
    BY <1>1, <1>2, <1>4, GoesOpen
       DEF Silent, Keeps, SameRow, Goes, Ended, InTask, Closing
  <2> QED
    BY <1>2, <2>1
<1>5. CASE Opens(r, new)
  BY <1>2, <1>5 DEF Opens, Enter
<1>6. CASE Closes(r, new)
  <2>1. job[r].pc \in InTask /\ new.pc \notin InTask
    BY <1>6 DEF Closes
  <2>2. new.pc \in Ended \/ new.pc = "open"
    BY <1>1, <1>2, <1>3, <2>1, GoesOpen DEF Goes, PC, InTask, Ended
  <2>3. CASE new.pc \in Ended
    BY <1>2, <1>6, <2>1, <2>3 DEF Closes, Leave
  <2>4. CASE new.pc = "open"
    <3>1. LogEnd(job[r].mon, "SUCCESS")
      BY <1>2, <2>1, <2>4, GoesOpen, ClosedWell DEF InTask
    <3>2. <<job[r].task, new.task>> \in Edges
      BY <1>2, <2>1, <2>4, GoesOpen, TaskOrder DEF InTask
    <3>3. new.date = job[r].date
      BY <1>1, <2>4 DEF Goes, Ended
    <3>4. Leave(r, "SUCCESS")
      BY <1>2, <2>1, <2>4, <3>1, <3>2, <3>3 DEF Leave
    <3> QED
      BY <1>2, <3>4
  <2> QED
    BY <2>2, <2>3, <2>4
<1> QED
  BY <1>1, <1>4, <1>5, <1>6

\* A request writes no row and begins with the first task of its kind.
LEMMA RequestJournal ==
  ASSUME IInv, NEW r \in Runs, Request(r)
  PROVE  /\ \A s \in Runs \ {r} : job'[s] = job[s]
         /\ UNCHANGED monitor
         /\ job[r].pc = "idle" /\ job'[r].task \in Firsts
         /\ job'[r].pc \in {"accepted", "create", "open"}
<1>0. TypeOK
  BY DEF IInv
<1>1. /\ \A s \in Runs \ {r} : job'[s] = job[s]
      /\ UNCHANGED monitor
      /\ job[r].pc = "idle" /\ job'[r].pc \in {"accepted", "create", "open"}
  BY <1>0, RequestMoves, MoveOthers DEF Enters, Keeps
<1>2. ASSUME NEW new, Goto(r, new) \/ Await(r, new), NEW kind \in Kinds,
             new.task = FirstTask[kind]
      PROVE  job'[r].task \in Firsts
  BY <1>0, <1>2 DEF Goto, Await, TypeOK, Firsts
<1>3. \A kind, pc, d : NewJob(kind, pc, d).task = FirstTask[kind]
  BY DEF NewJob, IdleJob
<1>4. ASSUME NEW d, NEW merge, Trigger(r, d, merge) PROVE job'[r].task \in Firsts
  <2>1. [NewJob("trigger", "accepted", d) EXCEPT !.merge = merge].task
          = FirstTask["trigger"]
    BY DEF NewJob, IdleJob
  <2> QED
    BY <1>2, <1>4, <2>1 DEF Trigger, Kinds
<1>5. ASSUME NEW d, RerunNotFound(r, d) PROVE job'[r].task \in Firsts
  BY <1>2, <1>3, <1>5 DEF RerunNotFound, Kinds
<1>6. ASSUME NEW d, Merge(r, d) PROVE job'[r].task \in Firsts
  BY <1>2, <1>3, <1>6 DEF Merge, Kinds
<1>7. ASSUME NEW kind \in {"one", "many"}, NEW items, Parse(r, kind, items)
      PROVE  job'[r].task \in Firsts
  <2>1. [NewJob(kind, "create", Today) EXCEPT
           !.items = items,
           !.known = Recognised(items),
           !.todo  = Asked(kind, items)].task = FirstTask[kind]
    BY DEF NewJob, IdleJob
  <2> QED
    BY <1>2, <1>7, <2>1 DEF Parse, Kinds
<1> QED
  BY <1>1, <1>4, <1>5, <1>6, <1>7 DEF Request, ParseOne, ParseMany

-----------------------------------------------------------------------------
(* The rows of every run form a chain.                                     *)

\* What one run writes is nothing to the chain of another.
LEMMA OthersChain ==
  ASSUME NEW s \in Runs, Chain(s), job'[s] = job[s], RowsOf(s)' = RowsOf(s),
         \A i \in RowsOf(s) : monitor'[i] = monitor[i]
  PROVE  Chain(s)'
<1>1. \A i : IsLastOf(i, s)' <=> IsLastOf(i, s)
  BY DEF IsLastOf
<1>2. Ready(s) => Ready(s)'
  BY <1>1 DEF Ready
<1>3. Inside(s) => Inside(s)'
  BY <1>1 DEF Inside
<1> QED
  BY <1>2, <1>3 DEF Chain

\* A step of a run keeps every chain.
LEMMA StepChain ==
  ASSUME IInv, ChainInv, NEW r \in Runs, Step(r) \/ BodyFails(r) \/ CallFails(r)
  PROVE  ChainInv'
<1>0. /\ MonitorTypeOK /\ TaskRowIsOpen /\ Chain(r)
      /\ \A s \in Runs \ {r} : job'[s] = job[s]
      /\ job[r].pc \notin Ended /\ job[r].pc # "idle"
  <2>1. TypeOK /\ TaskMatchesKind /\ ParsingHasRow
    BY DEF IInv, RunInv
  <2>2. Live(r)
    BY <2>1, StepMoves DEF Goes
  <2> QED
    BY <2>1, <2>2, StepJournal DEF IInv, RunInv, TypeOK, ChainInv, Live
<1>1. ASSUME Chain(r)',
             \A s \in Runs \ {r} : /\ RowsOf(s)' = RowsOf(s)
                                   /\ \A i \in RowsOf(s) : monitor'[i] = monitor[i]
      PROVE  ChainInv'
  BY <1>0, <1>1, OthersChain DEF ChainInv
<1>2. CASE Silent(r)
  <2>1. \A s : RowsOf(s)' = RowsOf(s) /\ \A i : IsLastOf(i, s)' <=> IsLastOf(i, s)
    BY <1>2 DEF Silent, RowsOf, IsLastOf
  <2>2. job'[r].pc \in {"accepted", "create", "open"} => Ready(r)'
    BY <1>0, <1>2, <2>1 DEF Silent, Chain, Ready
  <2>3. job'[r].pc \in InTask => Inside(r)'
    BY <1>0, <1>2, <2>1 DEF Silent, Chain, Inside
  <2>4. Chain(r)'
    BY <1>2, <2>2, <2>3 DEF Chain, Silent
  <2> QED
    BY <1>1, <1>2, <2>1, <2>4 DEF Silent
<1>3. CASE Enter(r)
  <2>1. job[r].task \in TaskNames /\ job[r].date \in Dates
    BY <1>0, <1>3 DEF Enter, IInv, RunInv, TaskMatchesKind, Live, TypeOK, Job
  <2> DEFINE n == Len(monitor) + 1
  <2>2. /\ Len(monitor) \in Nat
        /\ DOMAIN monitor = 1..Len(monitor)
        /\ DOMAIN monitor' = 1..n
        /\ \A k \in DOMAIN monitor : monitor'[k] = monitor[k]
        /\ monitor'[n].run = r
    <3>1. LogStart(r, job[r].task, job[r].date)
      BY <1>3 DEF Enter
    <3>2. monitor'[n] = [run |-> r, task |-> job[r].task,
                         date |-> job[r].date, status |-> "RUNNING"]
      BY <1>0, <2>1, <3>1, LogStartStep
    <3> QED
      BY <1>0, <2>1, <3>1, <3>2, LogStartStep
  <2>3. job'[r].mon = n /\ job'[r].pc \in InTask /\ Ready(r)
    BY <1>0, <1>3 DEF Enter, Chain
  <2> HIDE DEF n
  <2>4. \A s \in Runs \ {r} : RowsOf(s)' = RowsOf(s)
    BY <2>2 DEF RowsOf, n
  <2>5. RowsOf(r)' = RowsOf(r) \cup {n} /\ n \notin RowsOf(r)
    BY <2>2 DEF RowsOf, n
  <2>6. \A i \in RowsOf(r) : i <= n /\ monitor'[i].status = "SUCCESS"
    BY <2>2, <2>3 DEF Ready, RowsOf, n
  <2>7. n <= n
    BY <2>2 DEF n
  <2>8. Inside(r)'
    BY <2>3, <2>5, <2>6, <2>7 DEF Inside, IsLastOf
  <2>9. Chain(r)'
    BY <2>3, <2>8 DEF Chain, InTask
  <2>10. \A s \in Runs : \A i \in RowsOf(s) : monitor'[i] = monitor[i]
    BY <2>2 DEF RowsOf
  <2> QED
    BY <1>1, <2>4, <2>9, <2>10
<1>4. ASSUME NEW status \in {"SUCCESS", "FAILED"}, Leave(r, status)
      PROVE  ChainInv'
  <2> DEFINE m == job[r].mon
  <2>1. /\ m \in DOMAIN monitor
        /\ monitor[m] = [run |-> r, task |-> job[r].task,
                         date |-> job[r].date, status |-> "RUNNING"]
        /\ Inside(r)
    BY <1>0, <1>4 DEF Leave, TaskRowIsOpen, Chain
  <2>2. /\ DOMAIN monitor' = DOMAIN monitor
        /\ \A k \in DOMAIN monitor :
             monitor'[k] = IF k = m THEN [monitor[k] EXCEPT !.status = status]
                                    ELSE monitor[k]
    BY <1>0, <1>4, LogEndStep DEF Leave, MonitorStatus
  <2>3. monitor'[m] = [run |-> r, task |-> job[r].task,
                       date |-> job[r].date, status |-> status]
    BY <2>1, <2>2
  <2>4. \A k \in DOMAIN monitor : monitor'[k].run = monitor[k].run
    BY <2>1, <2>2, <2>3
  <2>5. \A s : RowsOf(s)' = RowsOf(s)
    BY <2>2, <2>4 DEF RowsOf
  <2>6. \A s \in Runs \ {r} : \A i \in RowsOf(s) : monitor'[i] = monitor[i]
    BY <2>1, <2>2 DEF RowsOf
  <2>7. ASSUME job'[r].pc = "open" PROVE Ready(r)'
    <3>1. /\ status = "SUCCESS" /\ job'[r].date = job[r].date
          /\ <<job[r].task, job'[r].task>> \in Edges
      BY <1>4, <2>7 DEF Leave, Ended
    <3>2. PICK n \in RowsOf(r) : n = m /\ IsLastOf(n, r)
      BY <2>1 DEF Inside, IsLastOf
    <3>3. IsLastOf(n, r)' /\ n \in RowsOf(r)'
      BY <2>5, <3>2 DEF IsLastOf
    <3>4. \A i \in RowsOf(r)' : monitor'[i].status = "SUCCESS"
      BY <2>1, <2>2, <2>3, <2>5, <3>1 DEF Inside, RowsOf
    <3>5. monitor'[n].date = job'[r].date /\ <<monitor'[n].task, job'[r].task>> \in Edges
      BY <2>3, <3>1, <3>2
    <3> QED
      BY <3>3, <3>4, <3>5 DEF Ready
  <2>8. Chain(r)'
    BY <1>4, <2>7 DEF Leave, Chain, Ended, InTask
  <2> QED
    BY <1>1, <2>5, <2>6, <2>8
<1> QED
  BY <1>2, <1>3, <1>4, StepJournal

LEMMA RequestChain ==
  ASSUME IInv, ChainInv, NEW r \in Runs, Request(r)
  PROVE  ChainInv'
<1>1. /\ \A s \in Runs \ {r} : job'[s] = job[s]
      /\ UNCHANGED monitor
      /\ job[r].pc = "idle" /\ job'[r].task \in Firsts
      /\ job'[r].pc \in {"accepted", "create", "open"}
  BY RequestJournal
<1>2. \A s : RowsOf(s)' = RowsOf(s)
  BY <1>1 DEF RowsOf
<1>3. RowsOf(r)' = {}
  BY <1>1, <1>2 DEF ChainInv, Chain
<1>4. Chain(r)'
  BY <1>1, <1>3 DEF Chain, Ready, InTask
<1> QED
  BY <1>1, <1>2, <1>4, OthersChain DEF ChainInv

LEMMA ChainNext == IInv /\ ChainInv /\ [Next]_vars => ChainInv'
<1> SUFFICES ASSUME IInv, ChainInv, [Next]_vars PROVE ChainInv'
  OBVIOUS
<1>1. CASE Crash
  <2>1. /\ UNCHANGED monitor
        /\ \A r \in Runs : job'[r] = job[r] \/ job'[r].pc = "killed"
    BY <1>1, EndedFields DEF Crash
  <2>2. \A r : RowsOf(r)' = RowsOf(r)
    BY <2>1 DEF RowsOf
  <2>3. ASSUME NEW r \in Runs, job'[r].pc = "killed" PROVE Chain(r)'
    BY <2>3 DEF Chain, InTask
  <2> QED
    BY <2>1, <2>2, <2>3, OthersChain DEF ChainInv
<1>2. CASE UNCHANGED <<job, monitor>>
  <2>1. \A r : RowsOf(r)' = RowsOf(r)
    BY <1>2 DEF RowsOf
  <2> QED
    BY <1>2, <2>1, OthersChain DEF ChainInv
<1>3. Rejected \/ Quiescent \/ UNCHANGED vars => UNCHANGED <<job, monitor>>
  BY DEF Rejected, Quiescent, vars
<1> QED
  BY <1>1, <1>2, <1>3, StepChain, RequestChain DEF Next

-----------------------------------------------------------------------------
(* The refinement.                                                         *)

LEMMA InitJournal == Init => ChainInv /\ Journal!Init
<1> SUFFICES ASSUME Init PROVE ChainInv /\ Journal!Init
  OBVIOUS
<1>1. monitor = << >> /\ \A r \in Runs : job[r].pc = "idle"
  BY DEF Init, MonitorInit, IdleJob
<1>2. \A r : RowsOf(r) = {}
  BY <1>1 DEF RowsOf
<1> QED
  BY <1>1, <1>2 DEF ChainInv, Chain, InTask, Journal!Init

\* Entering a task begins or continues the chain of its run, leaving one
\* finishes its row, and no other step touches the journal.
LEMMA NextJournal ==
  IInv /\ ChainInv /\ [Next]_vars => [Journal!Next]_monitor
<1> SUFFICES ASSUME IInv, ChainInv, [Next]_vars
             PROVE  Journal!Next \/ UNCHANGED monitor
  OBVIOUS
<1>0. \A r : Journal!OfRun(r) = RowsOf(r)
  BY DEF Journal!OfRun, RowsOf
<1>1. ASSUME NEW r \in Runs, Enter(r) PROVE Journal!Next
  <2> DEFINE task == job[r].task
  <2>1. job[r].date \in Dates /\ Ready(r)
    BY <1>1 DEF Enter, IInv, TypeOK, Job, ChainInv, Chain
  <2>2. monitor' = Append(monitor, Journal!Row(r, task, job[r].date, "RUNNING"))
    BY <1>1 DEF Enter, LogStart, Journal!Row
  <2>3. CASE RowsOf(r) = {} /\ task \in Firsts
    <3>1. Journal!Begin(r, task, job[r].date)
      BY <1>0, <2>2, <2>3 DEF Journal!Begin, Firsts
    <3> QED
      BY <2>1, <2>3, <3>1 DEF Journal!Next, Firsts
  <2>4. CASE /\ \A i \in RowsOf(r) : monitor[i].status = "SUCCESS"
             /\ \E i \in RowsOf(r) : /\ IsLastOf(i, r)
                                     /\ monitor[i].date = job[r].date
                                     /\ <<monitor[i].task, task>> \in Edges
    <3>1. PICK i \in RowsOf(r) : /\ \A k \in RowsOf(r) : k <= i
                                 /\ monitor[i].date = job[r].date
                                 /\ <<monitor[i].task, task>> \in Edges
      BY <2>4 DEF IsLastOf
    <3>2. Journal!Continue(r, task)
      BY <1>0, <2>2, <2>4, <3>1 DEF Journal!Continue, Edges
    <3>3. \E edge \in Edges : Journal!Continue(r, edge[2])
      BY <3>1, <3>2
    <3> QED
      BY <3>3 DEF Journal!Next, Edges
  <2> QED
    BY <2>1, <2>3, <2>4 DEF Ready
<1>2. ASSUME NEW r \in Runs, NEW status \in {"SUCCESS", "FAILED"}, Leave(r, status)
      PROVE  Journal!Next
  <2>1. /\ job[r].mon \in DOMAIN monitor
        /\ monitor[job[r].mon] = [run |-> r, task |-> job[r].task,
                                  date |-> job[r].date, status |-> "RUNNING"]
    BY <1>2 DEF Leave, IInv, RunInv, TaskRowIsOpen
  <2>2. Journal!Finish(job[r].mon, status)
    BY <1>2, <2>1 DEF Leave, LogEnd, Journal!Finish
  <2> QED
    BY <2>1, <2>2 DEF Journal!Next
<1>3. ASSUME NEW r \in Runs, Step(r) \/ BodyFails(r) \/ CallFails(r)
      PROVE  Journal!Next \/ UNCHANGED monitor
  BY <1>1, <1>2, <1>3, StepJournal DEF Silent
<1>4. \A r \in Runs : Request(r) => UNCHANGED monitor
  BY RequestJournal
<1>5. Crash \/ Rejected \/ Quiescent \/ UNCHANGED vars => UNCHANGED monitor
  BY DEF Crash, Rejected, Quiescent, vars
<1> QED
  BY <1>3, <1>4, <1>5 DEF Next

\* The journal MSB_DB_PROCESS_MONITOR keeps the promises of TaskLog: the rows
\* of a run follow each other in the order of its tasks, for one date, a task
\* begins only after the ones before it have succeeded, and a row is finished
\* once, whatever fails and however runs interleave.
THEOREM JournalRefinesTaskLog == Spec => JournalIsTaskLog
<1>1. Init => ChainInv /\ Journal!Init
  BY InitJournal
<1>2. IInv /\ ChainInv /\ [Next]_vars => ChainInv'
  BY ChainNext
<1>3. IInv /\ ChainInv /\ [Next]_vars => [Journal!Next]_monitor
  BY NextJournal
<1> QED
  BY <1>1, <1>2, <1>3, Invariance, PTL DEF Spec, JournalIsTaskLog, Journal!Spec
=============================================================================
