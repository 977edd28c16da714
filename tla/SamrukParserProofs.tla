------------------------- MODULE SamrukParserProofs -------------------------
(***************************************************************************)
(* For any number of calls, statuses and failures: one browser at most is  *)
(* launched; a call that has returned leaves no page and no browser        *)
(* context behind; it has chosen among all that its searches brought back; *)
(* and what it answers is what the portal publishes.                       *)
(***************************************************************************)
EXTENDS SamrukParser, FoundContractsProofs

Inside      == {"start", "launch"}
WithContext == {"page", "close", "unwind"}
Active      == {"ensure", "wait", "context"} \cup Inside \cup WithContext

Launching == IF \E w \in Workers : pc[w] = "launch" THEN 1 ELSE 0

\* The lock is held exactly by the worker that is starting the browser, which
\* there is none of at that time, and every driver is accounted for.
LockInv ==
  /\ pc \in [Workers -> PC]
  /\ browser \in {"none", "up", "dead"}
  /\ lock \in Workers \cup {Nobody}
  /\ drivers \in Nat /\ faults \in Nat
  /\ launched = IF browser = "none" THEN 0 ELSE 1
  /\ \A w \in Workers : pc[w] \in Inside <=> lock = w
  /\ lock # Nobody => browser = "none"
  /\ drivers <= launched + faults + Launching

\* The pages of a call are idle before it; its pop-up is idle until its searches
\* are over; all are at rest after it; and a context belongs to a page at work.
PagesInv ==
  /\ answer = [k \in Calls |-> answer[k]]
  /\ \A k \in Calls :
       /\ answer[k] = Adapter!NotAsked =>
            \A l \in {0} \cup Searches : pc[<<k, l>>] = "idle"
       /\ pc[PopUp(k)] # "idle" => SearchesOver(k)
       /\ Answered(k) => \A l \in {0} \cup Searches : pc[<<k, l>>] \in AtRest
  /\ \A w \in contexts : w \in Workers /\ pc[w] \in WithContext

IInv == LockInv /\ PagesInv

-----------------------------------------------------------------------------
(* The workers.                                                            *)

LEMMA SearchesPositive == 0 \notin Searches
  BY SamrukAssumption DEF Searches

LEMMA CallOfWorker ==
  ASSUME NEW w \in Workers
  PROVE  /\ w = <<w[1], w[2]>>
         /\ w[1] \in Calls
         /\ w[2] \in {0} \cup Searches
  BY DEF Workers

\* A worker that is at work moves, and keeps its context only while it needs
\* it: whatever else the step does, the pages stay in order.
LEMMA MoveKeepsPages ==
  ASSUME PagesInv, LockInv,
         NEW w \in Workers, NEW from \in Active, NEW to \in PC \ {"idle"},
         Move(w, from, to),
         UNCHANGED answer,
         \A v \in contexts' : (v \in contexts /\ v # w) \/ (v = w /\ to \in WithContext)
  PROVE  PagesInv'
<1>0. /\ pc \in [Workers -> PC]
      /\ pc' = [pc EXCEPT ![w] = to]
      /\ pc[w] = from
  BY DEF LockInv, Move
<1>1. ASSUME NEW k \in Calls, answer'[k] = Adapter!NotAsked, NEW l \in {0} \cup Searches
      PROVE  pc'[<<k, l>>] = "idle"
  <2>1. <<k, l>> \in Workers /\ pc[<<k, l>>] = "idle"
    BY <1>1 DEF PagesInv, Workers
  <2> QED
    BY <1>0, <2>1 DEF Active, Inside, WithContext
<1>2. ASSUME NEW k \in Calls, pc'[PopUp(k)] # "idle"
      PROVE  SearchesOver(k)'
  <2>1. PopUp(k) \in Workers /\ pc[PopUp(k)] # "idle"
    BY <1>0, <1>2 DEF Active, Inside, WithContext, PopUp, Workers
  <2>2. SearchesOver(k)
    BY <2>1 DEF PagesInv
  <2>3. ASSUME NEW l \in Searches
        PROVE  pc'[<<k, l>>] \in {"done", "failed"}
    <3>1. <<k, l>> \in Workers /\ pc[<<k, l>>] \in {"done", "failed"}
      BY <2>2 DEF SearchesOver, Workers
    <3> QED
      BY <1>0, <3>1 DEF Active, Inside, WithContext
  <2> QED
    BY <2>3 DEF SearchesOver
<1>3. ASSUME NEW k \in Calls, Answered(k)', NEW l \in {0} \cup Searches
      PROVE  pc'[<<k, l>>] \in AtRest
  <2>1. <<k, l>> \in Workers /\ pc[<<k, l>>] \in AtRest
    BY <1>3 DEF PagesInv, Workers, Answered
  <2> QED
    BY <1>0, <2>1 DEF Active, Inside, WithContext, AtRest
<1>4. ASSUME NEW v \in contexts'
      PROVE  v \in Workers /\ pc'[v] \in WithContext
  <2>1. CASE v \in contexts /\ v # w
    BY <1>0, <2>1 DEF PagesInv
  <2>2. CASE v = w /\ to \in WithContext
    BY <1>0, <2>2
  <2> QED
    BY <1>4, <2>1, <2>2
<1> QED
  BY <1>1, <1>2, <1>3, <1>4 DEF PagesInv

-----------------------------------------------------------------------------
(* The pages.                                                              *)

LEMMA StepKeepsPages ==
  ASSUME IInv, NEW w \in Workers, Step(w)
  PROVE  PagesInv'
<1> USE DEF IInv, Active, Inside, WithContext, PC, shared, local, calls
<1>1. CASE EnsureBrowser(w)
  BY <1>1, MoveKeepsPages DEF EnsureBrowser, Move, PagesInv
<1>2. CASE AcquireLock(w)
  BY <1>2, MoveKeepsPages DEF AcquireLock, Move, PagesInv
<1>3. CASE StartPlaywright(w)
  BY <1>3, MoveKeepsPages DEF StartPlaywright, Move, PagesInv
<1>4. CASE LaunchBrowser(w)
  BY <1>4, MoveKeepsPages DEF LaunchBrowser, Move, PagesInv
<1>5. CASE NewContext(w)
  BY <1>5, MoveKeepsPages DEF NewContext, Move, PagesInv
<1>6. CASE ReadList(w[1], w[2])
  BY <1>6, MoveKeepsPages, CallOfWorker DEF ReadList, Move, PagesInv
<1>7. CASE w[2] = 0 /\ ReadCard(w[1])
  <2>1. /\ Move(w, "page", "close")
        /\ UNCHANGED <<answer, contexts>>
    BY <1>7, CallOfWorker DEF ReadCard, PopUp
  <2> QED
    BY <2>1, MoveKeepsPages DEF Move, PagesInv
<1>8. CASE CloseContext(w)
  <2>1. /\ UNCHANGED answer
        /\ contexts' = contexts \ {w}
    BY <1>8 DEF CloseContext
  <2>2. CASE Move(w, "close", "done")
    BY <2>1, <2>2, MoveKeepsPages
  <2>3. CASE Move(w, "unwind", "failed")
    BY <2>1, <2>3, MoveKeepsPages
  <2>4. CASE Move(w, "close", "failed")
    BY <2>1, <2>4, MoveKeepsPages
  <2> QED
    BY <1>8, <2>2, <2>3, <2>4 DEF CloseContext
<1>9. CASE Orphaned(w)
  BY <1>9, MoveKeepsPages DEF Orphaned, PageFails, Move, PagesInv
<1> QED
  BY <1>1, <1>2, <1>3, <1>4, <1>5, <1>6, <1>7, <1>8, <1>9 DEF Step

LEMMA FailureKeepsPages ==
  ASSUME IInv, Failure
  PROVE  PagesInv'
<1> USE DEF IInv, Active, Inside, WithContext, PC, shared, local, calls
<1>1. ASSUME NEW w \in Workers, LaunchFails(w)
      PROVE  PagesInv'
  BY <1>1, MoveKeepsPages DEF LaunchFails, Move, PagesInv
<1>2. ASSUME NEW w \in Workers, NavigationFails(w)
      PROVE  PagesInv'
  BY <1>2, MoveKeepsPages DEF NavigationFails, Move, PagesInv
<1>3. ASSUME NEW w \in Workers, PageFails(w)
      PROVE  PagesInv'
  BY <1>3, MoveKeepsPages DEF PageFails, Move, PagesInv
<1>4. ASSUME NEW w \in Workers, ReadListInPart(w[1], w[2])
      PROVE  PagesInv'
  BY <1>4, MoveKeepsPages, CallOfWorker DEF ReadListInPart, Move, PagesInv
<1>5. CASE BrowserDies
  BY <1>5 DEF BrowserDies, PagesInv, Answered, SearchesOver
<1> QED
  BY <1>1, <1>2, <1>3, <1>4, <1>5 DEF Failure

LEMMA JoinKeepsPages ==
  ASSUME IInv, NEW k \in Calls, Join(k)
  PROVE  PagesInv'
<1>1. /\ answer[k] = Adapter!Asked
      /\ SearchesOver(k)
      /\ pc[PopUp(k)] = "idle"
      /\ contexts' = contexts
      /\ pc \in [Workers -> PC]
      /\ answer = [j \in Calls |-> answer[j]]
  BY DEF Join, local, IInv, PagesInv, LockInv
<1>2. CASE /\ answer' = [answer EXCEPT ![k] = [status |-> "NOT_FOUND", stat |-> NoStat]]
           /\ pc' = pc
  <2>1. ASSUME NEW l \in {0} \cup Searches
        PROVE  pc[<<k, l>>] \in AtRest
    BY <1>1 DEF SearchesOver, PopUp, AtRest
  <2>2. answer'[k] # Adapter!NotAsked
    BY <1>1, <1>2 DEF Adapter!NotAsked
  <2>3. \A j \in Calls : j # k => answer'[j] = answer[j]
    BY <1>1, <1>2
  <2> QED
    BY <1>1, <1>2, <2>1, <2>2, <2>3 DEF IInv, PagesInv, SearchesOver, Answered
<1>3. CASE Move(PopUp(k), "idle", "ensure") /\ answer' = answer
  <2>1. /\ PopUp(k) \in Workers
        /\ pc' = [pc EXCEPT ![PopUp(k)] = "ensure"]
    BY <1>3 DEF Move, PopUp, Workers
  <2>2. ASSUME NEW v \in Workers, v # PopUp(k)
        PROVE  pc'[v] = pc[v]
    BY <1>1, <2>1, <2>2
  <2>3. ASSUME NEW j \in Calls, NEW l \in Searches
        PROVE  <<j, l>> \in Workers /\ <<j, l>> # PopUp(k)
    BY SearchesPositive DEF Workers, PopUp
  <2>4. ASSUME NEW j \in Calls, j # k, NEW l \in {0} \cup Searches
        PROVE  <<j, l>> \in Workers /\ <<j, l>> # PopUp(k)
    BY <2>4 DEF Workers, PopUp
  <2>5. answer[k] # Adapter!NotAsked /\ ~Answered(k)
    BY <1>1 DEF Adapter!NotAsked, Adapter!Asked, Answered
  <2>6. \A j \in Calls : SearchesOver(j) => SearchesOver(j)'
    BY <2>2, <2>3 DEF SearchesOver
  <2>7. ASSUME NEW j \in Calls
        PROVE  /\ answer'[j] = Adapter!NotAsked =>
                    \A l \in {0} \cup Searches : pc'[<<j, l>>] = "idle"
               /\ pc'[PopUp(j)] # "idle" => SearchesOver(j)'
               /\ Answered(j)' => \A l \in {0} \cup Searches : pc'[<<j, l>>] \in AtRest
    <3>1. CASE j = k
      BY <1>1, <1>3, <2>5, <2>6, <3>1 DEF Answered
    <3>2. CASE j # k
      <4>1. \A l \in {0} \cup Searches : pc'[<<j, l>>] = pc[<<j, l>>]
        BY <2>2, <2>4, <3>2
      <4>2. pc'[PopUp(j)] = pc[PopUp(j)]
        BY <4>1 DEF PopUp
      <4> QED
        BY <1>3, <2>6, <4>1, <4>2 DEF IInv, PagesInv, Answered
    <3> QED
      BY <3>1, <3>2
  <2>8. \A w \in contexts' : w \in Workers /\ pc'[w] \in WithContext
    BY <1>1, <2>2 DEF IInv, PagesInv, WithContext
  <2> QED
    BY <1>3, <2>7, <2>8 DEF IInv, PagesInv
<1> QED
  BY <1>2, <1>3 DEF Join

LEMMA ReturnKeepsPages ==
  ASSUME IInv, NEW k \in Calls, Return(k)
  PROVE  PagesInv'
<1>1. /\ answer[k] = Adapter!Asked
      /\ pc[PopUp(k)] \in {"done", "failed"}
      /\ \A j \in Calls : j # k => answer'[j] = answer[j]
      /\ answer' = [j \in Calls |-> answer'[j]]
      /\ answer'[k].status \in {"DONE", "ERROR"}
      /\ UNCHANGED <<pc, contexts>>
  BY DEF Return, local, IInv, PagesInv
<1>2. \A l \in {0} \cup Searches : pc[<<k, l>>] \in AtRest
  BY <1>1 DEF IInv, PagesInv, SearchesOver, PopUp, AtRest
<1>3. answer'[k] # Adapter!NotAsked
  BY <1>1 DEF Adapter!NotAsked
<1> QED
  BY <1>1, <1>2, <1>3 DEF IInv, PagesInv, SearchesOver, Answered

LEMMA ParseKeepsPages ==
  ASSUME IInv, NEW k \in Calls, Parse(k)
  PROVE  PagesInv'
<1>1. /\ answer[k] = Adapter!NotAsked
      /\ answer' = [answer EXCEPT ![k] = Adapter!Asked]
      /\ pc' = [w \in Workers |->
                  IF \E l \in Searches : w = <<k, l>> THEN "ensure" ELSE pc[w]]
      /\ contexts' = contexts
      /\ pc \in [Workers -> PC]
      /\ answer = [j \in Calls |-> answer[j]]
  BY DEF Parse, local, IInv, PagesInv, LockInv
<1>2. Adapter!Asked # Adapter!NotAsked
  BY DEF Adapter!Asked, Adapter!NotAsked
<1>3. ASSUME NEW j \in Calls, j # k, NEW l \in {0} \cup Searches
      PROVE  pc'[<<j, l>>] = pc[<<j, l>>]
  BY <1>1, <1>3 DEF Workers
<1>4. pc'[PopUp(k)] = "idle"
  <2>1. pc[PopUp(k)] = "idle" /\ PopUp(k) \in Workers
    BY <1>1 DEF IInv, PagesInv, PopUp, Workers
  <2>2. \A l \in Searches : PopUp(k) # <<k, l>>
    BY SearchesPositive DEF PopUp
  <2> QED
    BY <1>1, <2>1, <2>2
<1>5. ASSUME NEW j \in Calls
      PROVE  /\ answer'[j] = Adapter!NotAsked =>
                  \A l \in {0} \cup Searches : pc'[<<j, l>>] = "idle"
             /\ pc'[PopUp(j)] # "idle" => SearchesOver(j)'
             /\ Answered(j)' => \A l \in {0} \cup Searches : pc'[<<j, l>>] \in AtRest
  <2>1. CASE j = k
    BY <1>1, <1>2, <1>4, <2>1 DEF Answered
  <2>2. CASE j # k
    BY <1>1, <1>3, <2>2 DEF IInv, PagesInv, Answered, SearchesOver, PopUp
  <2> QED
    BY <2>1, <2>2
<1>6. ASSUME NEW w \in contexts
      PROVE  w \in Workers /\ pc'[w] \in WithContext
  <2>1. w \in Workers /\ pc[w] \in WithContext
    BY <1>6 DEF IInv, PagesInv
  <2>2. \A l \in Searches : w # <<k, l>>
    BY <1>1, <2>1 DEF IInv, PagesInv, WithContext
  <2> QED
    BY <1>1, <2>1, <2>2
<1> QED
  BY <1>1, <1>5, <1>6 DEF PagesInv

LEMMA NextKeepsPages ==
  ASSUME IInv, [Next]_vars
  PROVE  PagesInv'
<1>1. CASE UNCHANGED vars
  BY <1>1 DEF vars, IInv, PagesInv, Answered, SearchesOver
<1>2. ASSUME NEW k \in Calls, NEW l \in {0} \cup Searches, Step(<<k, l>>)
      PROVE  PagesInv'
  BY <1>2, StepKeepsPages DEF Workers
<1> QED
  BY <1>1, <1>2, ParseKeepsPages, JoinKeepsPages, ReturnKeepsPages, FailureKeepsPages
     DEF Next, CallStep

-----------------------------------------------------------------------------
(* The lock.                                                               *)

LEMMA MoreFaults ==
  ASSUME NEW d \in Nat, NEW a \in Nat, NEW x \in Nat, NEW f \in Nat, NEW g \in Nat,
         d <= a + f + x, g >= f
  PROVE  d <= a + g + x
  OBVIOUS

\* A move that neither begins nor ends a launch leaves the account as it is.
LEMMA MoveKeepsLock ==
  ASSUME LockInv,
         NEW w \in Workers, NEW from \in PC \ Inside, NEW to \in PC \ Inside,
         Move(w, from, to),
         UNCHANGED shared,
         faults' \in Nat, faults' >= faults
  PROVE  LockInv'
<1>1. /\ pc \in [Workers -> PC]
      /\ pc' = [pc EXCEPT ![w] = to]
      /\ pc[w] = from
      /\ UNCHANGED <<browser, launched, drivers, lock>>
  BY DEF LockInv, Move, shared
<1>2. \A v \in Workers : pc'[v] \in Inside <=> pc[v] \in Inside
  BY <1>1
<1>3. \A v \in Workers : pc'[v] = "launch" <=> pc[v] = "launch"
  BY <1>1 DEF Inside
<1>4. Launching' = Launching /\ Launching \in Nat
  BY <1>3 DEF Launching
<1>5. launched \in Nat
  BY DEF LockInv
<1>6. drivers' <= launched' + faults' + Launching'
  <2>1. drivers \in Nat /\ faults \in Nat /\ drivers <= launched + faults + Launching
    BY DEF LockInv
  <2> HIDE DEF Launching
  <2> QED
    BY <1>1, <1>4, <1>5, <2>1, MoreFaults
<1> QED
  BY <1>1, <1>2, <1>6 DEF LockInv

\* A worker takes the lock, to start Playwright.
LEMMA TakeKeepsLock ==
  ASSUME LockInv,
         NEW w \in Workers, NEW from \in PC \ Inside,
         Move(w, from, "start"),
         lock = Nobody, lock' = w, browser = "none",
         UNCHANGED <<browser, launched, drivers, faults>>
  PROVE  LockInv'
<1>1. /\ pc \in [Workers -> PC]
      /\ pc' = [pc EXCEPT ![w] = "start"]
      /\ pc[w] = from
  BY DEF LockInv, Move
<1>2. \A v \in Workers : pc'[v] = "launch" <=> pc[v] = "launch"
  BY <1>1 DEF Inside
<1>3. Launching' = Launching
  BY <1>2 DEF Launching
<1>4. \A v \in Workers : pc'[v] \in Inside <=> lock' = v
  BY <1>1, SamrukAssumption DEF LockInv, Inside
<1>5. pc' \in [Workers -> PC]
  BY <1>1 DEF PC
<1> QED
  BY <1>3, <1>4, <1>5 DEF LockInv

LEMMA StartKeepsLock ==
  ASSUME LockInv, NEW w \in Workers, StartPlaywright(w)
  PROVE  LockInv'
<1>1. /\ pc \in [Workers -> PC]
      /\ pc' = [pc EXCEPT ![w] = "launch"]
      /\ pc[w] = "start"
      /\ lock = w
      /\ drivers' = drivers + 1
      /\ UNCHANGED <<browser, launched, lock, faults>>
  BY DEF LockInv, Move, StartPlaywright, Inside
<1>2. Launching = 0 /\ Launching' = 1
  BY <1>1 DEF LockInv, Inside, Launching
<1>3. pc' \in [Workers -> PC]
  BY <1>1 DEF PC
<1>4. \A v \in Workers : pc'[v] \in Inside <=> lock' = v
  BY <1>1 DEF LockInv, Inside
<1>5. launched \in Nat
  BY DEF LockInv
<1>6. drivers' <= launched' + faults' + Launching'
  <2> HIDE DEF Launching
  <2> QED
    BY <1>1, <1>2, <1>5 DEF LockInv
<1> QED
  BY <1>1, <1>3, <1>4, <1>6 DEF LockInv

LEMMA LaunchKeepsLock ==
  ASSUME LockInv, NEW w \in Workers, LaunchBrowser(w)
  PROVE  LockInv'
<1>1. /\ pc \in [Workers -> PC]
      /\ pc' = [pc EXCEPT ![w] = "context"]
      /\ pc[w] = "launch"
      /\ lock = w /\ lock' = Nobody
      /\ browser = "none" /\ browser' = "up"
      /\ launched = 0 /\ launched' = 1
      /\ UNCHANGED <<drivers, faults>>
  BY SamrukAssumption DEF LockInv, Move, LaunchBrowser, Inside
<1>2. Launching = 1 /\ Launching' = 0
  BY <1>1 DEF LockInv, Inside, Launching
<1>3. pc' \in [Workers -> PC]
  BY <1>1 DEF PC
<1>4. \A v \in Workers : pc'[v] \in Inside <=> lock' = v
  BY <1>1, SamrukAssumption DEF LockInv, Inside
<1>5. drivers' <= launched' + faults' + Launching'
  <2> HIDE DEF Launching
  <2> QED
    BY <1>1, <1>2 DEF LockInv
<1> QED
  BY <1>1, <1>3, <1>4, <1>5 DEF LockInv

LEMMA LaunchFailsKeepsLock ==
  ASSUME LockInv, NEW w \in Workers, Fault, LaunchFails(w)
  PROVE  LockInv'
<1>1. /\ pc \in [Workers -> PC]
      /\ pc' = [pc EXCEPT ![w] = "failed"]
      /\ pc[w] \in Inside
      /\ lock = w /\ lock' = Nobody
      /\ UNCHANGED <<browser, launched, drivers>>
      /\ faults' = faults + 1
  BY DEF LockInv, Move, LaunchFails, Inside, Fault
<1>2. Launching \in {0, 1} /\ Launching' = 0
  BY <1>1 DEF LockInv, Inside, Launching
<1>3. pc' \in [Workers -> PC]
  BY <1>1 DEF PC
<1>4. \A v \in Workers : pc'[v] \in Inside <=> lock' = v
  BY <1>1, SamrukAssumption DEF LockInv, Inside
<1>5. launched \in Nat
  BY DEF LockInv
<1>6. drivers' <= launched' + faults' + Launching'
  <2> HIDE DEF Launching
  <2> QED
    BY <1>1, <1>2, <1>5 DEF LockInv
<1> QED
  BY <1>1, <1>3, <1>4, <1>6 DEF LockInv

LEMMA StepKeepsLock ==
  ASSUME LockInv, NEW w \in Workers, Step(w)
  PROVE  LockInv'
<1> faults \in Nat /\ faults >= faults
  BY DEF LockInv
<1>1. CASE EnsureBrowser(w)
  <2>1. CASE browser # "none" /\ Move(w, "ensure", "context") /\ UNCHANGED lock
    BY <1>1, <2>1, MoveKeepsLock DEF EnsureBrowser, PC, Inside, shared
  <2>2. CASE browser = "none" /\ lock = Nobody /\ Move(w, "ensure", "start") /\ lock' = w
    BY <1>1, <2>2, TakeKeepsLock DEF EnsureBrowser, PC, Inside
  <2>3. CASE browser = "none" /\ Move(w, "ensure", "wait") /\ UNCHANGED lock
    BY <1>1, <2>3, MoveKeepsLock DEF EnsureBrowser, PC, Inside, shared
  <2> QED
    BY <1>1, <2>1, <2>2, <2>3 DEF EnsureBrowser
<1>2. CASE AcquireLock(w)
  <2>1. CASE Move(w, "wait", "context") /\ UNCHANGED lock
    BY <1>2, <2>1, MoveKeepsLock DEF AcquireLock, PC, Inside, shared
  <2>2. CASE browser = "none" /\ Move(w, "wait", "start") /\ lock' = w
    BY <1>2, <2>2, TakeKeepsLock DEF AcquireLock, PC, Inside
  <2> QED
    BY <1>2, <2>1, <2>2 DEF AcquireLock
<1>3. CASE NewContext(w)
  BY <1>3, MoveKeepsLock DEF NewContext, PC, Inside
<1>4. CASE ReadList(w[1], w[2])
  BY <1>4, CallOfWorker, MoveKeepsLock DEF ReadList, PC, Inside
<1>5. CASE w[2] = 0 /\ ReadCard(w[1])
  <2>1. Move(w, "page", "close") /\ UNCHANGED shared /\ faults' = faults
    BY <1>5, CallOfWorker DEF ReadCard, PopUp
  <2> QED
    BY <2>1, MoveKeepsLock DEF PC, Inside
<1>6. CASE CloseContext(w)
  <2>1. UNCHANGED shared /\ faults' = faults
    BY <1>6 DEF CloseContext
  <2>2. \/ Move(w, "close", "done")
        \/ Move(w, "unwind", "failed")
        \/ Move(w, "close", "failed")
    BY <1>6 DEF CloseContext
  <2> QED
    BY <2>1, <2>2, MoveKeepsLock DEF PC, Inside
<1>7. CASE Orphaned(w)
  <2>1. UNCHANGED shared /\ faults' = faults
    BY <1>7 DEF Orphaned, PageFails
  <2>2. Move(w, "context", "failed") \/ Move(w, "page", "unwind")
    BY <1>7 DEF Orphaned, PageFails
  <2> QED
    BY <2>1, <2>2, MoveKeepsLock DEF PC, Inside
<1> QED
  BY <1>1, <1>2, <1>3, <1>4, <1>5, <1>6, <1>7, StartKeepsLock, LaunchKeepsLock DEF Step

LEMMA FailureKeepsLock ==
  ASSUME LockInv, Failure
  PROVE  LockInv'
<1>1. Fault /\ faults' \in Nat /\ faults' >= faults
  BY DEF Failure, Fault, LockInv
<1>2. ASSUME NEW w \in Workers, NavigationFails(w)
      PROVE  LockInv'
  <2>1. UNCHANGED shared
    BY <1>2 DEF NavigationFails
  <2>2. Move(w, "page", "unwind") \/ Move(w, "page", "page")
    BY <1>2 DEF NavigationFails
  <2> QED
    BY <1>1, <2>1, <2>2, MoveKeepsLock DEF PC, Inside
<1>3. ASSUME NEW w \in Workers, PageFails(w)
      PROVE  LockInv'
  <2>1. UNCHANGED shared
    BY <1>3 DEF PageFails
  <2>2. Move(w, "context", "failed") \/ Move(w, "page", "unwind")
    BY <1>3 DEF PageFails
  <2> QED
    BY <1>1, <2>1, <2>2, MoveKeepsLock DEF PC, Inside
<1>4. ASSUME NEW w \in Workers, ReadListInPart(w[1], w[2])
      PROVE  LockInv'
  <2>1. UNCHANGED shared /\ Move(w, "page", "close")
    BY <1>4, CallOfWorker DEF ReadListInPart
  <2> QED
    BY <1>1, <2>1, MoveKeepsLock DEF PC, Inside
<1>5. CASE BrowserDies
  <2>1. Launching' = Launching /\ Launching \in Nat
    BY <1>5 DEF BrowserDies, Launching
  <2>2. launched' = launched /\ launched \in Nat
    BY <1>5 DEF BrowserDies, LockInv
  <2>3. drivers' <= launched' + faults' + Launching'
    <3>1. /\ drivers \in Nat /\ faults \in Nat
          /\ drivers <= launched + faults + Launching
          /\ drivers' = drivers
      BY <1>5 DEF LockInv, BrowserDies
    <3> HIDE DEF Launching
    <3> QED
      BY <1>1, <2>1, <2>2, <3>1, MoreFaults
  <2> QED
    BY <1>1, <1>5, <2>3 DEF BrowserDies, LockInv
<1> QED
  BY <1>1, <1>2, <1>3, <1>4, <1>5, LaunchFailsKeepsLock DEF Failure

LEMMA NextKeepsLock ==
  ASSUME IInv, [Next]_vars
  PROVE  LockInv'
<1>0. LockInv /\ faults \in Nat
  BY DEF IInv, LockInv
<1>1. CASE UNCHANGED vars
  BY <1>0, <1>1 DEF vars, LockInv, Launching
<1>2. ASSUME NEW k \in Calls, Return(k)
      PROVE  LockInv'
  BY <1>0, <1>2 DEF Return, shared, LockInv, Launching
<1>3. ASSUME NEW k \in Calls, Join(k)
      PROVE  LockInv'
  <2>1. CASE UNCHANGED pc
    BY <1>0, <1>3, <2>1 DEF Join, shared, LockInv, Launching
  <2>2. CASE Move(PopUp(k), "idle", "ensure")
    <3>1. UNCHANGED shared /\ faults' = faults /\ faults >= faults
      BY <1>0, <1>3 DEF Join
    <3>2. PopUp(k) \in Workers
      BY DEF PopUp, Workers
    <3> QED
      BY <1>0, <2>2, <3>1, <3>2, MoveKeepsLock DEF PC, Inside
  <2> QED
    BY <1>3, <2>1, <2>2 DEF Join
<1>4. ASSUME NEW k \in Calls, Parse(k)
      PROVE  LockInv'
  <2>1. /\ UNCHANGED <<browser, launched, drivers, lock, faults>>
        /\ pc' = [w \in Workers |->
                    IF \E l \in Searches : w = <<k, l>> THEN "ensure" ELSE pc[w]]
    BY <1>4 DEF Parse, shared
  <2>2. ASSUME NEW w \in Workers
        PROVE  /\ pc'[w] \in PC
               /\ pc'[w] \in Inside <=> pc[w] \in Inside
               /\ pc'[w] = "launch" <=> pc[w] = "launch"
    <3>1. CASE \E l \in Searches : w = <<k, l>>
      <4>1. pc[w] = "idle"
        BY <1>4, <3>1 DEF Parse, IInv, PagesInv
      <4> QED
        BY <2>1, <3>1, <4>1 DEF PC, Inside
    <3>2. CASE ~ \E l \in Searches : w = <<k, l>>
      BY <1>0, <2>1, <3>2 DEF LockInv
    <3> QED
      BY <3>1, <3>2
  <2>3. Launching' = Launching
    BY <2>2 DEF Launching
  <2>4. pc' \in [Workers -> PC]
    BY <2>1, <2>2
  <2> QED
    BY <1>0, <2>1, <2>2, <2>3, <2>4 DEF LockInv
<1>5. ASSUME NEW k \in Calls, NEW l \in {0} \cup Searches, Step(<<k, l>>)
      PROVE  LockInv'
  BY <1>0, <1>5, StepKeepsLock DEF Workers
<1> QED
  BY <1>0, <1>1, <1>2, <1>3, <1>4, <1>5, FailureKeepsLock DEF Next, CallStep

-----------------------------------------------------------------------------
LEMMA InitIInv == Init => IInv
<1> SUFFICES ASSUME Init PROVE IInv
  OBVIOUS
<1>1. LockInv
  <2>1. Launching = 0
    BY DEF Init, Launching
  <2>2. \A w \in Workers : pc[w] \in Inside <=> lock = w
    BY SamrukAssumption DEF Init, Inside
  <2> QED
    BY <2>1, <2>2 DEF Init, LockInv, PC
<1>2. PagesInv
  <2>1. \A k \in Calls : ~Answered(k)
    BY DEF Init, Answered
  <2>2. \A k \in Calls, l \in {0} \cup Searches : pc[<<k, l>>] = "idle"
    BY DEF Init, Workers
  <2> QED
    BY <2>1, <2>2 DEF Init, PagesInv, PopUp
<1> QED
  BY <1>1, <1>2 DEF IInv

\* The lock, the pages and the drivers are in order at all times.
THEOREM Invariance == Spec => []IInv
<1>1. IInv /\ [Next]_vars => IInv'
  BY NextKeepsLock, NextKeepsPages DEF IInv
<1> QED
  BY <1>1, InitIInv, PTL DEF Spec

\* At most one browser is launched, and no driver is unaccounted for, however
\* the pages of however many calls meet in _ensure_browser.
THEOREM OneBrowserHolds == Spec => []OneBrowser
<1>1. IInv => OneBrowser
  BY DEF IInv, LockInv, OneBrowser, Launching
<1> QED
  BY <1>1, Invariance, PTL

\* A call of parse() that has returned leaves no page at work and no browser
\* context open, whatever failed.
THEOREM ContextsEndHolds == Spec => []ContextsEnd
<1>1. ASSUME IInv, NEW k \in Calls, Answered(k), NEW l \in {0} \cup Searches
      PROVE  pc[<<k, l>>] \in AtRest /\ <<k, l>> \notin contexts
  BY <1>1 DEF IInv, PagesInv, AtRest, WithContext
<1>2. IInv => ContextsEnd
  BY <1>1 DEF ContextsEnd
<1> QED
  BY <1>2, Invariance, PTL

-----------------------------------------------------------------------------
(* The cards of a list.                                                    *)

Exacts(k, cards) == {card \in ToSet(cards) : card.number = Number[k]}

\* What Exact keeps of the cards that were read has the number of the call, and
\* of a list that was read in full it keeps all that has.
LEMMA ExactCards ==
  ASSUME NEW k \in Calls, NEW cards \in Seq(Card), NEW read \in SUBSET (DOMAIN cards)
  PROVE  /\ Exact(k, cards, read) \in Seq(Exacts(k, cards))
         /\ read = DOMAIN cards => ToSet(Exact(k, cards, read)) = Exacts(k, cards)
<1> DEFINE right == {i \in read : cards[i].number = Number[k]}
           list == Exact(k, cards, read)
<1>1. right \in SUBSET (DOMAIN cards) /\ list = Sublist(cards, right)
  BY DEF Exact
<1>2. \A i \in right : cards[i] \in Exacts(k, cards)
  BY DEF Exacts, ToSet
<1>3. ASSUME read = DOMAIN cards, NEW card \in Exacts(k, cards)
      PROVE  \E i \in right : cards[i] = card
  BY <1>3 DEF Exacts, ToSet
<1> HIDE DEF right, list
<1>4. /\ list \in Seq(Exacts(k, cards))
      /\ \A i \in right : \E a \in DOMAIN list : list[a] = cards[i]
  BY <1>1, <1>2, SublistType
<1>5. ToSet(list) \subseteq Exacts(k, cards)
  BY <1>4 DEF ToSet
<1>6. ASSUME read = DOMAIN cards
      PROVE  Exacts(k, cards) \subseteq ToSet(list)
  BY <1>3, <1>4, <1>6 DEF ToSet
<1> QED
  BY <1>4, <1>5, <1>6 DEF list

LEMMA ConcatMembers ==
  ASSUME NEW X, NEW s \in Seq(X), NEW t \in Seq(X)
  PROVE  ToSet(s \o t) = ToSet(s) \cup ToSet(t)
<1>1. Range(s \o t) = Range(s) \cup Range(t)
  BY RangeConcatenation
<1> QED
  BY <1>1 DEF ToSet, Range

\* FlattenSeq keeps all members, and invents none.
LEMMA FlattenSeqMembers ==
  ASSUME NEW X, NEW parts \in Seq(Seq(X))
  PROVE  /\ FlattenSeq(parts) \in Seq(X)
         /\ ToSet(FlattenSeq(parts)) = UNION {ToSet(parts[i]) : i \in DOMAIN parts}
<1> DEFINE V == Seq(X)
           n == Len(parts)
           Pass(i, v) == IF i = 1 THEN parts[i] ELSE v \o parts[i]
           step == [i \in 1..n |-> [v \in V |-> Pass(i, v)]]
           IsFlatten(f) == f = [i \in 1..n |-> Pass(i, f[i - 1])]
           flatten == CHOOSE f : IsFlatten(f)
<1>0. n \in Nat /\ DOMAIN parts = 1..n /\ << >> \in V /\ \A i \in 1..n : parts[i] \in V
  OBVIOUS
<1>1. CASE n = 0
  <2>1. parts = << >> /\ DOMAIN parts = {}
    BY <1>0, <1>1, EmptySeq
  <2>2. FlattenSeq(parts) = << >>
    BY <1>1, <2>1 DEF FlattenSeq
  <2>3. ToSet(FlattenSeq(parts)) = {}
    BY <2>2 DEF ToSet
  <2>4. UNION {ToSet(parts[i]) : i \in DOMAIN parts} = {}
    BY <2>1
  <2> QED
    BY <1>0, <2>2, <2>3, <2>4
<1>2. CASE n # 0
  <2>1. ASSUME NEW i \in 1..n, NEW v \in V
        PROVE  Pass(i, v) \in V
    BY <1>0
  <2> HIDE DEF V, n
  <2>2. step \in [1..n -> [V -> V]]
    <3> HIDE DEF Pass
    <3> QED
      BY <2>1
  <2>3. PICK values \in [0..n -> V] : IsLoop(values, n, << >>, step)
    <3> HIDE DEF step
    <3> QED
      BY <1>0, <2>2, LoopExists
  <2> DEFINE shown == [i \in 1..n |-> values[i]]
  <2>4. IsFlatten(shown)
    <3>1. ASSUME NEW i \in 1..n
          PROVE  shown[i] = Pass(i, shown[i - 1])
      <4>1. values[i] = Pass(i, values[i - 1])
        <5>1. n \in Nat
          BY <1>0
        <5>2. i - 1 \in 0..n /\ values[i - 1] \in V
          BY <5>1
        <5>3. values[i] = step[i][values[i - 1]]
          BY <2>3 DEF IsLoop
        <5> HIDE DEF Pass
        <5> QED
          BY <5>2, <5>3
      <4>2. CASE i = 1
        BY <4>1, <4>2
      <4>3. CASE i # 1
        <5>1. i - 1 \in 1..n
          BY <1>0, <4>3
        <5> HIDE DEF Pass
        <5> QED
          BY <4>1, <5>1
      <4> QED
        BY <4>2, <4>3
    <3> HIDE DEF Pass
    <3>2. shown = [i \in 1..n |-> shown[i]]
      OBVIOUS
    <3> HIDE DEF shown
    <3> QED
      BY <3>1, <3>2
  <2>5. IsFlatten(flatten)
    <3> HIDE DEF IsFlatten
    <3> QED
      BY <2>4, Zenon
  <2>6. FlattenSeq(parts) = flatten[n]
    BY <1>2 DEF FlattenSeq, n
  <2> HIDE DEF flatten
  <2> DEFINE M == UNION {ToSet(parts[i]) : i \in DOMAIN parts}
             Good(i) == /\ flatten[i] \in V
                        /\ ToSet(flatten[i]) \subseteq M
                        /\ \A j \in 1..i : ToSet(parts[j]) \subseteq ToSet(flatten[i])
             Kept == {i \in 0..n : i = 0 \/ Good(i)}
  <2>10. \A j \in 1..n : ToSet(parts[j]) \subseteq M
    BY <1>0
  <2> HIDE DEF M
  <2>7. ASSUME NEW i \in 1..n, i - 1 \in Kept
        PROVE  Good(i)
    <3>1. CASE i = 1
      <4>1. flatten[1] = parts[1]
        BY <2>5, <3>1
      <4> QED
        BY <1>0, <2>10, <3>1, <4>1
    <3>2. CASE i # 1
      <4>1. /\ flatten[i] = flatten[i - 1] \o parts[i]
            /\ flatten[i - 1] \in V
            /\ ToSet(flatten[i - 1]) \subseteq M
            /\ \A j \in 1..(i - 1) : ToSet(parts[j]) \subseteq ToSet(flatten[i - 1])
        <5>1. flatten[i] = flatten[i - 1] \o parts[i]
          BY <2>5, <3>2
        <5>2. Good(i - 1)
          <6> HIDE DEF Good
          <6> QED
            BY <2>7, <3>2
        <5> QED
          BY <5>1, <5>2
      <4>2. ToSet(flatten[i]) = ToSet(flatten[i - 1]) \cup ToSet(parts[i])
        BY <1>0, <4>1, ConcatMembers DEF V
      <4>3. flatten[i] \in V
        BY <1>0, <4>1 DEF V
      <4>4. ASSUME NEW j \in 1..i
            PROVE  ToSet(parts[j]) \subseteq ToSet(flatten[i])
        <5>1. j = i \/ j \in 1..(i - 1)
          BY <1>0
        <5> QED
          BY <4>1, <4>2, <5>1
      <4> QED
        BY <1>0, <2>10, <4>1, <4>2, <4>3, <4>4
    <3> QED
      BY <3>1, <3>2
  <2>8. n \in Kept
    <3> HIDE DEF Good
    <3>1. 0 \in Kept /\ \A i \in 1..n : i - 1 \in Kept => i \in Kept
      BY <1>0, <2>7
    <3> HIDE DEF Kept
    <3>3. \A i \in 0..n : i \in Kept
      BY <1>0, <3>1, LoopInvariant, Zenon
    <3> QED
      BY <1>0, <3>3
  <2>9. /\ FlattenSeq(parts) \in V
        /\ ToSet(FlattenSeq(parts)) \subseteq M
        /\ \A j \in 1..n : ToSet(parts[j]) \subseteq ToSet(FlattenSeq(parts))
    BY <1>0, <1>2, <2>6, <2>8
  <2> QED
    BY <1>0, <2>9 DEF V, M
<1> QED
  BY <1>1, <1>2
-----------------------------------------------------------------------------
(* What the searches bring back, and the choice among it.                  *)

Before == {"idle", "ensure", "wait", "start", "launch", "context"}

TriesInv ==
  \A w \in Workers :
    /\ pc[w] \in Before => tries[w] = 0
    /\ pc[w] = "page" => tries[w] < NavMaxRetries

\* A search brings back contracts of the portal with the number of its call.
FoundInv ==
  \A k \in Calls, l \in Searches : found[<<k, l>>] \in Seq(Exacts(k, portal[k][l]))

\* Once the pop-up of a call has begun, and when it has answered, the choice is
\* the one that all that was brought back calls for.
ChoiceInv ==
  \A k \in Calls :
    /\ pc[PopUp(k)] # "idle" =>
         Combined(k) # << >> /\ primary[k] = PickPrimary(Combined(k))
    /\ answer[k].status = "NOT_FOUND" =>
         SearchesOver(k) /\ pc[PopUp(k)] = "idle" /\ Combined(k) = << >>
    /\ answer[k].status \in {"DONE", "ERROR"} => pc[PopUp(k)] \in {"done", "failed"}

AnswerInv == IInv /\ TypeOK /\ TriesInv /\ FoundInv /\ ChoiceInv

LEMMA SearchIsWorker ==
  ASSUME NEW k \in Calls, NEW l \in {0} \cup Searches
  PROVE  <<k, l>> \in Workers
  BY DEF Workers

LEMMA SearchesAreIndices ==
  /\ Len(Statuses) \in Nat
  /\ Searches = 1..Len(Statuses)
  BY SamrukAssumption DEF Searches

LEMMA PortalType ==
  ASSUME TypeOK, NEW k \in Calls, NEW l \in Searches
  PROVE  portal[k][l] \in Seq(Card)
  BY SamrukAssumption DEF TypeOK

LEMMA ExactsAreCards ==
  ASSUME TypeOK, NEW k \in Calls, NEW l \in Searches
  PROVE  Exacts(k, portal[k][l]) \subseteq Card
  BY PortalType DEF Exacts, ToSet

LEMMA BroughtType ==
  ASSUME TypeOK, NEW k \in Calls, NEW l \in Searches
  PROVE  Brought(k, l) \in Seq(Card)
<1>1. found[<<k, l>>] \in Seq(Card)
  BY SearchIsWorker DEF TypeOK
<1> QED
  BY <1>1 DEF Brought

Seen(k) == UNION {ToSet(Brought(k, l)) : l \in Searches}

\* The choice is made among cards that were brought back, every id of which is
\* among them.
LEMMA CombinedIsSeen ==
  ASSUME TypeOK, NEW k \in Calls
  PROVE  /\ Combined(k) \in Seq(Card)
         /\ ToSet(Combined(k)) \subseteq Seen(k)
         /\ \A card \in Seen(k) : \E same \in ToSet(Combined(k)) : same.id = card.id
<1> DEFINE parts == [l \in Searches |-> Brought(k, l)]
           cards == FlattenSeq(parts)
<1>1. parts \in Seq(Seq(Card))
  <2>1. \A l \in 1..Len(Statuses) : Brought(k, l) \in Seq(Card)
    BY BroughtType, SearchesAreIndices
  <2> QED
    BY <2>1, SearchesAreIndices
<1>2. Combined(k) = FirstOfEachId(cards)
  BY DEF Combined
<1>3. UNION {ToSet(parts[l]) : l \in DOMAIN parts} = Seen(k)
  BY DEF Seen
<1> HIDE DEF parts
<1>4. cards \in Seq(Card) /\ ToSet(cards) = Seen(k)
  BY <1>1, <1>3, FlattenSeqMembers
<1> HIDE DEF cards
<1>5. Combined(k) \in Seq(Card) /\ OnePerId(Combined(k), cards)
  BY <1>2, <1>4, EveryIdStaysOnce
<1> HIDE DEF Combined, Seen
<1> QED
  BY <1>4, <1>5 DEF OnePerId, ToSet

\* What is over stays what it was.
LEMMA CombinedStays ==
  ASSUME NEW k \in Calls,
         \A l \in Searches : UNCHANGED <<pc[<<k, l>>], found[<<k, l>>]>>
  PROVE  UNCHANGED Combined(k)
<1>1. \A l \in Searches : Brought(k, l)' = Brought(k, l)
  BY DEF Brought
<1>2. [l \in Searches |-> Brought(k, l)]' = [l \in Searches |-> Brought(k, l)]
  BY <1>1 DEF Searches
<1> QED
  BY <1>2 DEF Combined

\* The contract chosen is one of those brought back, and every id of these has a
\* card that is not to be preferred to it.
LEMMA CombinedPick ==
  ASSUME TypeOK, NEW k \in Calls, Combined(k) # << >>
  PROVE  /\ PickPrimary(Combined(k)) \in Card
         /\ PickPrimary(Combined(k)) \in Seen(k)
         /\ \A card \in Seen(k) : \E same \in Seen(k) :
              same.id = card.id /\ PreferredTo(PickPrimary(Combined(k)), same)
<1> DEFINE cards == Combined(k)
<1>1. /\ cards \in Seq(Card) /\ cards # << >>
      /\ ToSet(cards) \subseteq Seen(k)
      /\ \A card \in Seen(k) : \E same \in ToSet(cards) : same.id = card.id
  BY CombinedIsSeen
<1> HIDE DEF cards
<1>2. PICK i \in DOMAIN cards :
        /\ PickPrimary(cards) = cards[i]
        /\ \A j \in DOMAIN cards : PreferredTo(cards[i], cards[j])
  <2>1. \A card \in Card : card.start \in 0..MaxStart /\ card.main \in BOOLEAN
    BY DEF Card
  <2>2. MaxStart \in Nat
    BY SamrukAssumption
  <2> QED
    BY <1>1, <2>1, <2>2, PickPrimaryIsBest
<1>3. \A same \in ToSet(cards) : PreferredTo(cards[i], same)
  BY <1>2 DEF ToSet
<1>4. ASSUME NEW card \in Seen(k)
      PROVE  \E same \in Seen(k) : same.id = card.id /\ PreferredTo(cards[i], same)
  BY <1>1, <1>3
<1> QED
  BY <1>1, <1>2, <1>4 DEF ToSet, cards

-----------------------------------------------------------------------------
(* A step of a page.                                                       *)

\* A page at work moves; what it has counted and read is its own.
PageMoves(w) ==
  /\ \E from \in Active, to \in PC \ {"idle"} : Move(w, from, to)
  /\ \A v \in Workers \ {w} : tries'[v] = tries[v] /\ found'[v] = found[v]
  /\ UNCHANGED calls

LEMMA MoveIsPageMove ==
  ASSUME NEW w \in Workers, NEW from \in Active, NEW to \in PC \ {"idle"},
         Move(w, from, to),
         UNCHANGED <<tries, found, calls>>
  PROVE  PageMoves(w)
  BY DEF PageMoves

LEMMA MoveKeepsTries ==
  ASSUME TypeOK, TriesInv,
         NEW w \in Workers, NEW from \in PC, NEW to \in PC,
         Move(w, from, to),
         UNCHANGED tries,
         to \in Before => from \in Before,
         to = "page" => from \in Before
  PROVE  TriesInv'
  BY SamrukAssumption DEF TypeOK, TriesInv, Move

LEMMA ReadKeepsFound ==
  ASSUME TypeOK, FoundInv,
         NEW k \in Calls, NEW l \in Searches,
         NEW read \in SUBSET (DOMAIN portal[k][l]),
         found' = [found EXCEPT ![<<k, l>>] = Exact(k, portal[k][l], read)],
         UNCHANGED portal
  PROVE  FoundInv' /\ found' \in [Workers -> Seq(Card)]
<1>1. Exact(k, portal[k][l], read) \in Seq(Exacts(k, portal[k][l]))
  BY PortalType, ExactCards
<1>2. Exact(k, portal[k][l], read) \in Seq(Card)
  BY <1>1, ExactsAreCards
<1>3. <<k, l>> \in Workers /\ found \in [Workers -> Seq(Card)]
  BY SearchIsWorker DEF TypeOK
<1>4. found' \in [Workers -> Seq(Card)]
  BY <1>2, <1>3
<1>5. ASSUME NEW j \in Calls, NEW m \in Searches
      PROVE  found'[<<j, m>>] \in Seq(Exacts(j, portal[j][m]))
  <2>1. <<j, m>> \in Workers
    BY SearchIsWorker
  <2>2. CASE <<j, m>> = <<k, l>>
    BY <1>1, <1>3, <2>2
  <2>3. CASE <<j, m>> # <<k, l>>
    BY <1>3, <2>1, <2>3 DEF FoundInv
  <2> QED
    BY <2>2, <2>3
<1>6. FoundInv'
  BY <1>5 DEF FoundInv, Exacts
<1> QED
  BY <1>4, <1>6

\* What a page does to its counters and its cards.
PageKeeps(w) ==
  /\ PageMoves(w)
  /\ TriesInv' /\ FoundInv'
  /\ tries' \in [Workers -> 0..NavMaxRetries]
  /\ found' \in [Workers -> Seq(Card)]

LEMMA PlainMoveKeeps ==
  ASSUME AnswerInv,
         NEW w \in Workers, NEW from \in Active, NEW to \in PC \ {"idle"},
         Move(w, from, to),
         UNCHANGED <<tries, found, calls>>,
         to \in Before => from \in Before,
         to = "page" => from \in Before
  PROVE  PageKeeps(w)
<1>1. from \in PC /\ to \in PC
  BY DEF Active, Inside, WithContext, PC
<1>2. TriesInv'
  BY <1>1, MoveKeepsTries DEF AnswerInv
<1>3. FoundInv'
  BY DEF AnswerInv, FoundInv, calls, Exacts
<1> QED
  BY <1>2, <1>3, MoveIsPageMove DEF PageKeeps, AnswerInv, TypeOK

LEMMA ReadKeeps ==
  ASSUME AnswerInv, NEW k \in Calls, NEW l \in Searches,
         NEW read \in SUBSET (DOMAIN portal[k][l]),
         Move(<<k, l>>, "page", "close"),
         found' = [found EXCEPT ![<<k, l>>] = Exact(k, portal[k][l], read)],
         UNCHANGED <<tries, calls>>
  PROVE  PageKeeps(<<k, l>>)
<1>1. <<k, l>> \in Workers /\ UNCHANGED portal
  BY SearchIsWorker DEF calls
<1>2. FoundInv' /\ found' \in [Workers -> Seq(Card)]
  BY <1>1, ReadKeepsFound DEF AnswerInv
<1>3. TriesInv'
  BY <1>1, MoveKeepsTries DEF AnswerInv, PC, Before
<1>4. \A v \in Workers \ {<<k, l>>} : tries'[v] = tries[v] /\ found'[v] = found[v]
  BY DEF AnswerInv, TypeOK
<1>5. "page" \in Active /\ "close" \in PC \ {"idle"}
  BY DEF Active, WithContext, PC
<1>6. PageMoves(<<k, l>>)
  BY <1>4, <1>5 DEF PageMoves
<1> QED
  BY <1>2, <1>3, <1>6 DEF PageKeeps, AnswerInv, TypeOK

LEMMA StepIsPageStep ==
  ASSUME AnswerInv, NEW w \in Workers, Step(w)
  PROVE  PageKeeps(w)
<1> USE DEF Active, Inside, WithContext, PC, Before
<1>1. CASE EnsureBrowser(w)
  BY <1>1, PlainMoveKeeps DEF EnsureBrowser, local
<1>2. CASE AcquireLock(w)
  BY <1>2, PlainMoveKeeps DEF AcquireLock, local
<1>3. CASE StartPlaywright(w)
  BY <1>3, PlainMoveKeeps DEF StartPlaywright, local
<1>4. CASE LaunchBrowser(w)
  BY <1>4, PlainMoveKeeps DEF LaunchBrowser, local
<1>5. CASE NewContext(w)
  BY <1>5, PlainMoveKeeps DEF NewContext
<1>6. CASE ReadList(w[1], w[2])
  <2>1. w = <<w[1], w[2]>> /\ w[1] \in Calls /\ w[2] \in Searches
    BY <1>6, CallOfWorker DEF ReadList
  <2> QED
    BY <1>6, <2>1, ReadKeeps DEF ReadList
<1>7. CASE w[2] = 0 /\ ReadCard(w[1])
  <2>1. Move(w, "page", "close") /\ UNCHANGED <<tries, found, calls>>
    BY <1>7, CallOfWorker DEF ReadCard, PopUp, local
  <2> QED
    BY <2>1, PlainMoveKeeps
<1>8. CASE CloseContext(w)
  <2>1. UNCHANGED <<tries, found, calls>>
    BY <1>8 DEF CloseContext
  <2>2. \/ Move(w, "close", "done")
        \/ Move(w, "unwind", "failed")
        \/ Move(w, "close", "failed")
    BY <1>8 DEF CloseContext
  <2> QED
    BY <2>1, <2>2, PlainMoveKeeps
<1>9. CASE Orphaned(w)
  <2>1. UNCHANGED <<tries, found, calls>>
    BY <1>9 DEF Orphaned, PageFails, local
  <2>2. Move(w, "context", "failed") \/ Move(w, "page", "unwind")
    BY <1>9 DEF Orphaned, PageFails
  <2> QED
    BY <2>1, <2>2, PlainMoveKeeps
<1> QED
  BY <1>1, <1>2, <1>3, <1>4, <1>5, <1>6, <1>7, <1>8, <1>9 DEF Step

LEMMA FailureIsPageStep ==
  ASSUME AnswerInv, Failure
  PROVE  (\E w \in Workers : PageKeeps(w)) \/ BrowserDies
<1> USE DEF Active, Inside, WithContext, PC, Before
<1>1. ASSUME NEW w \in Workers, LaunchFails(w)
      PROVE  PageKeeps(w)
  BY <1>1, PlainMoveKeeps DEF LaunchFails, local
<1>2. ASSUME NEW w \in Workers, NavigationFails(w)
      PROVE  PageKeeps(w)
  <2>1. /\ tries' = [tries EXCEPT ![w] = tries[w] + 1]
        /\ Move(w, "page", IF tries'[w] = NavMaxRetries THEN "unwind" ELSE "page")
        /\ UNCHANGED <<found, calls>>
    BY <1>2 DEF NavigationFails
  <2>2. /\ tries \in [Workers -> 0..NavMaxRetries]
        /\ tries[w] < NavMaxRetries
        /\ NavMaxRetries \in Nat
        /\ pc \in [Workers -> PC]
    BY <2>1, SamrukAssumption DEF AnswerInv, TypeOK, TriesInv, Move
  <2>3. tries'[w] = tries[w] + 1 /\ tries'[w] \in 0..NavMaxRetries
    BY <2>1, <2>2
  <2>4. tries' \in [Workers -> 0..NavMaxRetries]
    BY <2>1, <2>2, <2>3
  <2>5. TriesInv'
    <3>1. ASSUME NEW v \in Workers
          PROVE  /\ pc'[v] \in Before => tries'[v] = 0
                 /\ pc'[v] = "page" => tries'[v] < NavMaxRetries
      <4>1. CASE v = w
        BY <2>1, <2>2, <2>3, <4>1 DEF Move
      <4>2. CASE v # w
        BY <2>1, <2>2, <4>2 DEF Move, AnswerInv, TriesInv
      <4> QED
        BY <4>1, <4>2
    <3> QED
      BY <3>1 DEF TriesInv
  <2>6. FoundInv' /\ found' \in [Workers -> Seq(Card)]
    BY <2>1 DEF AnswerInv, TypeOK, FoundInv, Exacts, calls
  <2>7. PageMoves(w)
    BY <2>1, <2>2 DEF PageMoves
  <2> QED
    BY <2>4, <2>5, <2>6, <2>7 DEF PageKeeps
<1>3. ASSUME NEW w \in Workers, PageFails(w)
      PROVE  PageKeeps(w)
  <2>1. UNCHANGED <<tries, found, calls>>
    BY <1>3 DEF PageFails, local
  <2>2. Move(w, "context", "failed") \/ Move(w, "page", "unwind")
    BY <1>3 DEF PageFails
  <2> QED
    BY <2>1, <2>2, PlainMoveKeeps
<1>4. ASSUME NEW w \in Workers, ReadListInPart(w[1], w[2])
      PROVE  PageKeeps(w)
  <2>1. w = <<w[1], w[2]>> /\ w[1] \in Calls /\ w[2] \in Searches
    BY <1>4, CallOfWorker DEF ReadListInPart
  <2>2. PICK read \in SUBSET (DOMAIN portal[w[1]][w[2]]) :
          found' = [found EXCEPT ![<<w[1], w[2]>>] =
                      Exact(w[1], portal[w[1]][w[2]], read)]
    BY <1>4 DEF ReadListInPart
  <2>3. Move(<<w[1], w[2]>>, "page", "close") /\ UNCHANGED <<tries, calls>>
    BY <1>4 DEF ReadListInPart
  <2>4. PageKeeps(<<w[1], w[2]>>)
    BY <2>1, <2>2, <2>3, ReadKeeps
  <2> QED
    BY <2>1, <2>4
<1> QED
  BY <1>1, <1>2, <1>3, <1>4 DEF Failure

-----------------------------------------------------------------------------
(* The choice.                                                             *)

\* A page of another call, or of a call that is not over, disturbs no choice.
LEMMA PageMoveKeepsChoice ==
  ASSUME AnswerInv, NEW w \in Workers, PageMoves(w)
  PROVE  ChoiceInv'
<1>1. PICK from \in Active, to \in PC \ {"idle"} :
        pc[w] = from /\ pc' = [pc EXCEPT ![w] = to]
  BY DEF PageMoves, Move
<1>2. /\ pc \in [Workers -> PC]
      /\ from \notin {"idle", "done", "failed"}
      /\ UNCHANGED <<portal, primary, answer>>
  BY DEF AnswerInv, TypeOK, PageMoves, calls, Active, Inside, WithContext
<1>3. ASSUME NEW k \in Calls, SearchesOver(k)
      PROVE  SearchesOver(k)' /\ UNCHANGED Combined(k)
  <2>1. ASSUME NEW l \in Searches
        PROVE  UNCHANGED <<pc[<<k, l>>], found[<<k, l>>]>>
    <3>1. <<k, l>> \in Workers /\ <<k, l>> # w
      BY <1>1, <1>2, <1>3, SearchIsWorker DEF SearchesOver
    <3> QED
      BY <1>1, <1>2, <3>1 DEF PageMoves
  <2>2. UNCHANGED Combined(k)
    BY <2>1, CombinedStays
  <2> QED
    BY <1>3, <2>1, <2>2 DEF SearchesOver
<1>4. ASSUME NEW k \in Calls
      PROVE  /\ pc[PopUp(k)] \in {"done", "failed"} => pc'[PopUp(k)] = pc[PopUp(k)]
             /\ pc'[PopUp(k)] = "idle" <=> pc[PopUp(k)] = "idle"
  BY <1>1, <1>2, SearchIsWorker DEF PopUp
<1>5. ASSUME NEW k \in Calls
      PROVE  /\ pc'[PopUp(k)] # "idle" =>
                  Combined(k)' # << >> /\ primary'[k] = PickPrimary(Combined(k)')
             /\ answer'[k].status = "NOT_FOUND" =>
                  SearchesOver(k)' /\ pc'[PopUp(k)] = "idle" /\ Combined(k)' = << >>
             /\ answer'[k].status \in {"DONE", "ERROR"} =>
                  pc'[PopUp(k)] \in {"done", "failed"}
  <2>1. pc[PopUp(k)] # "idle" => SearchesOver(k)
    BY DEF AnswerInv, IInv, PagesInv
  <2> QED
    BY <1>2, <1>3, <1>4, <2>1 DEF AnswerInv, ChoiceInv
<1> QED
  BY <1>5 DEF ChoiceInv, PopUp

LEMMA JoinKeepsChoice ==
  ASSUME AnswerInv, NEW k \in Calls, Join(k)
  PROVE  /\ ChoiceInv'
         /\ primary' \in [Calls -> Card \cup {NoCard}]
         /\ answer' \in [Calls -> ParseResult \cup {Adapter!NotAsked, Adapter!Asked}]
<1>0. /\ answer[k] = Adapter!Asked
      /\ SearchesOver(k)
      /\ pc[PopUp(k)] = "idle"
      /\ UNCHANGED <<found, portal>>
      /\ pc \in [Workers -> PC]
      /\ answer \in [Calls -> ParseResult \cup {Adapter!NotAsked, Adapter!Asked}]
      /\ primary \in [Calls -> Card \cup {NoCard}]
  BY DEF Join, local, AnswerInv, TypeOK
<1>1. \A j \in Calls, l \in {0} \cup Searches :
        <<j, l>> # PopUp(k) => pc'[<<j, l>>] = pc[<<j, l>>]
  BY <1>0, SearchIsWorker DEF Join, Move
<1>2. \A j \in Calls, l \in Searches : pc'[<<j, l>>] = pc[<<j, l>>]
  BY <1>1, SearchesPositive DEF PopUp
<1>3. \A j \in Calls : UNCHANGED Combined(j) /\ SearchesOver(j)' = SearchesOver(j)
  BY <1>0, <1>2, CombinedStays DEF SearchesOver
<1>4. ASSUME NEW j \in Calls, j # k
      PROVE  pc'[PopUp(j)] = pc[PopUp(j)]
  BY <1>1, <1>4 DEF PopUp
<1>5. CASE /\ Combined(k) = << >>
           /\ answer' = [answer EXCEPT ![k] = [status |-> "NOT_FOUND", stat |-> NoStat]]
           /\ UNCHANGED <<primary, pc>>
  <2>1. [status |-> "NOT_FOUND", stat |-> NoStat] \in ParseResult
    BY DEF ParseResult
  <2>2. answer' \in [Calls -> ParseResult \cup {Adapter!NotAsked, Adapter!Asked}]
    BY <1>0, <1>5, <2>1
  <2>3. answer'[k].status = "NOT_FOUND" /\ \A j \in Calls \ {k} : answer'[j] = answer[j]
    BY <1>0, <1>5
  <2>4. ChoiceInv'
    BY <1>0, <1>3, <1>5, <2>3 DEF AnswerInv, ChoiceInv, PopUp
  <2> QED
    BY <1>0, <1>5, <2>2, <2>4
<1>6. CASE /\ Combined(k) # << >>
           /\ primary' = [primary EXCEPT ![k] = PickPrimary(Combined(k))]
           /\ UNCHANGED answer
  <2>1. PickPrimary(Combined(k)) \in Card
    BY <1>6, CombinedPick DEF AnswerInv
  <2>2. /\ primary' \in [Calls -> Card \cup {NoCard}]
        /\ primary'[k] = PickPrimary(Combined(k))
        /\ \A j \in Calls \ {k} : primary'[j] = primary[j]
    BY <1>0, <1>6, <2>1
  <2>3. answer'[k].status \notin {"NOT_FOUND", "DONE", "ERROR"}
    BY <1>0, <1>6 DEF Adapter!Asked
  <2>4. ASSUME NEW j \in Calls
        PROVE  /\ pc'[PopUp(j)] # "idle" =>
                    Combined(j)' # << >> /\ primary'[j] = PickPrimary(Combined(j)')
               /\ answer'[j].status = "NOT_FOUND" =>
                    SearchesOver(j)' /\ pc'[PopUp(j)] = "idle" /\ Combined(j)' = << >>
               /\ answer'[j].status \in {"DONE", "ERROR"} =>
                    pc'[PopUp(j)] \in {"done", "failed"}
    <3>1. CASE j = k
      BY <1>3, <1>6, <2>2, <2>3, <3>1
    <3>2. CASE j # k
      BY <1>3, <1>4, <1>6, <2>2, <3>2 DEF AnswerInv, ChoiceInv
    <3> QED
      BY <3>1, <3>2
  <2>5. ChoiceInv'
    BY <2>4 DEF ChoiceInv, PopUp
  <2> QED
    BY <1>0, <1>6, <2>2, <2>5
<1> QED
  BY <1>5, <1>6 DEF Join

LEMMA ReturnKeepsChoice ==
  ASSUME AnswerInv, NEW k \in Calls, Return(k)
  PROVE  /\ ChoiceInv'
         /\ answer' \in [Calls -> ParseResult \cup {Adapter!NotAsked, Adapter!Asked}]
<1>0. /\ pc[PopUp(k)] \in {"done", "failed"}
      /\ UNCHANGED <<found, portal, pc, primary>>
      /\ answer \in [Calls -> ParseResult \cup {Adapter!NotAsked, Adapter!Asked}]
  BY DEF Return, local, AnswerInv, TypeOK
<1>1. Badge[primary[k].id] \in Stats
  <2>1. Combined(k) # << >> /\ primary[k] = PickPrimary(Combined(k))
    BY <1>0 DEF AnswerInv, ChoiceInv
  <2>2. primary[k] \in Card
    BY <2>1, CombinedPick DEF AnswerInv
  <2> QED
    BY <2>2, SamrukAssumption DEF Card
<1>2. PICK res : /\ answer' = [answer EXCEPT ![k] = res]
                 /\ \/ res.status = "DONE" /\ res \in ParseResult
                    \/ res.status = "ERROR" /\ res \in ParseResult
  <2>1. ASSUME NEW stat \in {Badge[primary[k].id], NoStat}
        PROVE  [status |-> "DONE", stat |-> stat] \in ParseResult
    BY <1>1, <2>1 DEF ParseResult, StatValue
  <2>2. [status |-> "ERROR", stat |-> NoStat] \in ParseResult
    BY DEF ParseResult
  <2> QED
    BY <2>1, <2>2 DEF Return
<1>3. answer' \in [Calls -> ParseResult \cup {Adapter!NotAsked, Adapter!Asked}]
  BY <1>0, <1>2
<1>4. answer'[k] = res /\ \A j \in Calls \ {k} : answer'[j] = answer[j]
  BY <1>0, <1>2
<1>5. \A j \in Calls : UNCHANGED Combined(j) /\ SearchesOver(j)' = SearchesOver(j)
  BY <1>0, CombinedStays DEF SearchesOver
<1>6. ChoiceInv'
  BY <1>0, <1>2, <1>4, <1>5 DEF AnswerInv, ChoiceInv, PopUp
<1> QED
  BY <1>3, <1>6

LEMMA ParseKeepsChoice ==
  ASSUME AnswerInv, NEW k \in Calls, Parse(k)
  PROVE  /\ ChoiceInv' /\ TriesInv'
         /\ answer' \in [Calls -> ParseResult \cup {Adapter!NotAsked, Adapter!Asked}]
<1>0. /\ answer[k] = Adapter!NotAsked
      /\ answer' = [answer EXCEPT ![k] = Adapter!Asked]
      /\ UNCHANGED <<tries, found, portal, primary>>
      /\ answer \in [Calls -> ParseResult \cup {Adapter!NotAsked, Adapter!Asked}]
      /\ pc \in [Workers -> PC]
      /\ pc' = [w \in Workers |->
                  IF \E l \in Searches : w = <<k, l>> THEN "ensure" ELSE pc[w]]
  BY DEF Parse, local, AnswerInv, TypeOK
<1>1. answer' \in [Calls -> ParseResult \cup {Adapter!NotAsked, Adapter!Asked}]
  BY <1>0
<1>2. \A l \in {0} \cup Searches : pc[<<k, l>>] = "idle"
  BY <1>0 DEF AnswerInv, IInv, PagesInv
<1>3. TriesInv'
  <2>1. ASSUME NEW w \in Workers
        PROVE  /\ pc'[w] \in Before => tries[w] = 0
               /\ pc'[w] = "page" => tries[w] < NavMaxRetries
    <3>1. CASE \E l \in Searches : w = <<k, l>>
      BY <1>0, <1>2, <3>1 DEF AnswerInv, TriesInv, Before
    <3>2. CASE ~ \E l \in Searches : w = <<k, l>>
      BY <1>0, <3>2 DEF AnswerInv, TriesInv
    <3> QED
      BY <3>1, <3>2
  <2> QED
    BY <1>0, <2>1 DEF TriesInv
<1>4. ASSUME NEW j \in Calls
      PROVE  /\ pc'[PopUp(j)] = pc[PopUp(j)]
             /\ j # k => UNCHANGED Combined(j) /\ SearchesOver(j)' = SearchesOver(j)
  <2>1. \A l \in Searches : PopUp(j) # <<k, l>>
    BY SearchesPositive DEF PopUp
  <2>2. pc'[PopUp(j)] = pc[PopUp(j)]
    BY <1>0, <2>1, SearchIsWorker DEF PopUp
  <2>3. ASSUME j # k, NEW l \in Searches
        PROVE  pc'[<<j, l>>] = pc[<<j, l>>]
    BY <1>0, <2>3, SearchIsWorker
  <2> QED
    BY <1>0, <2>2, <2>3, CombinedStays DEF SearchesOver
<1>5. answer'[k] = Adapter!Asked /\ \A j \in Calls \ {k} : answer'[j] = answer[j]
  BY <1>0
<1>6. ASSUME NEW j \in Calls
      PROVE  /\ pc'[PopUp(j)] # "idle" =>
                  Combined(j)' # << >> /\ primary'[j] = PickPrimary(Combined(j)')
             /\ answer'[j].status = "NOT_FOUND" =>
                  SearchesOver(j)' /\ pc'[PopUp(j)] = "idle" /\ Combined(j)' = << >>
             /\ answer'[j].status \in {"DONE", "ERROR"} =>
                  pc'[PopUp(j)] \in {"done", "failed"}
  <2>1. CASE j = k
    BY <1>2, <1>4, <1>5, <2>1 DEF PopUp, Adapter!Asked
  <2>2. CASE j # k
    BY <1>0, <1>4, <1>5, <2>2 DEF AnswerInv, ChoiceInv
  <2> QED
    BY <2>1, <2>2
<1>7. ChoiceInv'
  BY <1>6 DEF ChoiceInv, PopUp
<1> QED
  BY <1>1, <1>3, <1>7

-----------------------------------------------------------------------------
(* All steps.                                                              *)

Answers == [Calls -> ParseResult \cup {Adapter!NotAsked, Adapter!Asked}]

LEMMA TypesTogether ==
  ASSUME TypeOK, IInv', UNCHANGED portal,
         faults' \in 0..MaxFaults,
         tries' \in [Workers -> 0..NavMaxRetries],
         found' \in [Workers -> Seq(Card)],
         primary' \in [Calls -> Card \cup {NoCard}],
         answer' \in Answers
  PROVE  TypeOK'
<1>1. /\ browser' \in {"none", "up", "dead"}
      /\ launched' \in Nat /\ drivers' \in Nat
      /\ lock' \in Workers \cup {Nobody}
      /\ pc' \in [Workers -> PC]
  BY DEF IInv, LockInv
<1>2. contexts' \subseteq Workers
  BY DEF IInv, PagesInv
<1> QED
  BY <1>1, <1>2 DEF TypeOK, Answers

LEMMA NextKeepsFaults ==
  ASSUME TypeOK, [Next]_vars
  PROVE  faults' \in 0..MaxFaults /\ UNCHANGED portal
<1>1. CASE Failure
  <2>1. faults' \in 0..MaxFaults
    BY <1>1, SamrukAssumption DEF TypeOK, Failure, Fault
  <2>2. UNCHANGED portal
    BY <1>1 DEF Failure, LaunchFails, NavigationFails, PageFails, ReadListInPart,
                BrowserDies, calls
  <2> QED
    BY <2>1, <2>2
<1>2. ASSUME NEW w, Step(w)
      PROVE  UNCHANGED <<faults, portal>>
  BY <1>2 DEF Step, EnsureBrowser, AcquireLock, StartPlaywright, LaunchBrowser,
              NewContext, ReadList, ReadCard, CloseContext, Orphaned, PageFails, calls
<1>3. ASSUME NEW k \in Calls, Parse(k) \/ Join(k) \/ Return(k)
      PROVE  UNCHANGED <<faults, portal>>
  BY <1>3 DEF Parse, Join, Return
<1> QED
  BY <1>1, <1>2, <1>3 DEF TypeOK, Next, CallStep, vars

LEMMA PageStepKeepsAnswers ==
  ASSUME AnswerInv, [Next]_vars, IInv', NEW w \in Workers, PageKeeps(w)
  PROVE  AnswerInv'
<1>1. TypeOK'
  BY TypesTogether, NextKeepsFaults DEF AnswerInv, PageKeeps, PageMoves, calls, TypeOK, Answers
<1>2. ChoiceInv'
  BY PageMoveKeepsChoice DEF PageKeeps
<1> QED
  BY <1>1, <1>2 DEF AnswerInv, PageKeeps

\* A death that only the pages notice, or a step that nobody notices.
LEMMA IdleKeepsAnswers ==
  ASSUME AnswerInv, [Next]_vars, IInv', UNCHANGED <<pc, tries, found, calls>>
  PROVE  AnswerInv'
<1>0. UNCHANGED <<portal, primary, answer>>
  BY DEF calls
<1>1. TypeOK'
  BY <1>0, TypesTogether, NextKeepsFaults DEF AnswerInv, TypeOK, Answers
<1>2. TriesInv'
  BY DEF AnswerInv, TriesInv
<1>3. FoundInv'
  BY <1>0 DEF AnswerInv, FoundInv, Exacts
<1>4. \A k \in Calls : UNCHANGED Combined(k) /\ SearchesOver(k)' = SearchesOver(k)
  BY CombinedStays DEF SearchesOver
<1>5. ChoiceInv'
  BY <1>0, <1>4 DEF AnswerInv, ChoiceInv, PopUp
<1> QED
  BY <1>1, <1>2, <1>3, <1>5 DEF AnswerInv

LEMMA NextKeepsAnswers ==
  ASSUME AnswerInv, [Next]_vars
  PROVE  AnswerInv'
<1>0. IInv' /\ UNCHANGED portal /\ faults' \in 0..MaxFaults
  BY NextKeepsLock, NextKeepsPages, NextKeepsFaults DEF AnswerInv, IInv
<1>1. CASE UNCHANGED vars
  BY <1>0, <1>1, IdleKeepsAnswers DEF vars, calls
<1>2. CASE Failure
  <2>1. CASE BrowserDies
    BY <1>0, <2>1, IdleKeepsAnswers DEF BrowserDies
  <2>2. ASSUME NEW w \in Workers, PageKeeps(w)
        PROVE  AnswerInv'
    BY <1>0, <2>2, PageStepKeepsAnswers
  <2> QED
    BY <1>2, <2>1, <2>2, FailureIsPageStep
<1>3. ASSUME NEW k \in Calls, NEW l \in {0} \cup Searches, Step(<<k, l>>)
      PROVE  AnswerInv'
  <2>1. <<k, l>> \in Workers
    BY SearchIsWorker
  <2> QED
    BY <1>0, <1>3, <2>1, StepIsPageStep, PageStepKeepsAnswers
<1>4. ASSUME NEW k \in Calls, Parse(k)
      PROVE  AnswerInv'
  <2>1. UNCHANGED <<tries, found, portal, primary>>
    BY <1>4 DEF Parse, local
  <2>2. ChoiceInv' /\ TriesInv' /\ answer' \in Answers
    BY <1>4, ParseKeepsChoice DEF Answers
  <2>3. FoundInv'
    BY <2>1 DEF AnswerInv, FoundInv, Exacts
  <2>4. TypeOK'
    BY <1>0, <2>1, <2>2, TypesTogether DEF AnswerInv, TypeOK
  <2> QED
    BY <1>0, <2>2, <2>3, <2>4 DEF AnswerInv
<1>5. ASSUME NEW k \in Calls, Join(k)
      PROVE  AnswerInv'
  <2>1. UNCHANGED <<tries, found, portal>>
    BY <1>5 DEF Join, local
  <2>2. /\ ChoiceInv' /\ answer' \in Answers
        /\ primary' \in [Calls -> Card \cup {NoCard}]
    BY <1>5, JoinKeepsChoice DEF Answers
  <2>3. FoundInv'
    BY <2>1 DEF AnswerInv, FoundInv, Exacts
  <2>4. TriesInv'
    <3>1. CASE UNCHANGED pc
      BY <2>1, <3>1 DEF AnswerInv, TriesInv
    <3>2. CASE Move(PopUp(k), "idle", "ensure")
      BY <2>1, <3>2, SearchIsWorker, MoveKeepsTries DEF AnswerInv, PC, Before, PopUp
    <3> QED
      BY <1>5, <3>1, <3>2 DEF Join
  <2>5. TypeOK'
    BY <1>0, <2>1, <2>2, TypesTogether DEF AnswerInv, TypeOK
  <2> QED
    BY <1>0, <2>2, <2>3, <2>4, <2>5 DEF AnswerInv
<1>6. ASSUME NEW k \in Calls, Return(k)
      PROVE  AnswerInv'
  <2>1. UNCHANGED <<tries, found, portal, pc, primary>>
    BY <1>6 DEF Return, local
  <2>2. ChoiceInv' /\ answer' \in Answers
    BY <1>6, ReturnKeepsChoice DEF Answers
  <2>3. FoundInv' /\ TriesInv'
    BY <2>1 DEF AnswerInv, FoundInv, TriesInv, Exacts
  <2>4. TypeOK'
    BY <1>0, <2>1, <2>2, TypesTogether DEF AnswerInv, TypeOK
  <2> QED
    BY <1>0, <2>2, <2>3, <2>4 DEF AnswerInv
<1> QED
  BY <1>1, <1>2, <1>3, <1>4, <1>5, <1>6 DEF Next, CallStep

LEMMA InitAnswerInv == Init => AnswerInv
<1> SUFFICES ASSUME Init PROVE AnswerInv
  OBVIOUS
<1>1. IInv
  BY InitIInv
<1>2. TypeOK
  BY SamrukAssumption DEF Init, TypeOK, PC
<1>3. TriesInv
  BY SamrukAssumption DEF Init, TriesInv
<1>4. FoundInv
  <2>1. \A k \in Calls, l \in Searches : found[<<k, l>>] = << >>
    BY SearchIsWorker DEF Init
  <2> HIDE DEF Searches
  <2>2. ASSUME NEW k \in Calls, NEW l \in Searches
        PROVE  << >> \in Seq(Exacts(k, portal[k][l]))
    OBVIOUS
  <2> QED
    BY <2>1, <2>2 DEF FoundInv
<1>5. ChoiceInv
  BY SearchIsWorker DEF Init, ChoiceInv, PopUp, Adapter!NotAsked
<1> QED
  BY <1>1, <1>2, <1>3, <1>4, <1>5 DEF AnswerInv

\* What the searches bring back, the choice and the answer agree at all times.
THEOREM AnswersInvariance == Spec => []AnswerInv
  BY InitAnswerInv, NextKeepsAnswers, PTL DEF Spec

\* Types of all variables.
THEOREM TypeCorrect == Spec => []TypeOK
<1>1. AnswerInv => TypeOK
  BY DEF AnswerInv
<1> QED
  BY <1>1, AnswersInvariance, PTL

\* The choice of a call that has answered.
LEMMA ChoosesAmongSeen ==
  ASSUME AnswerInv, NEW k \in Calls, Answered(k)
  PROVE  /\ answer[k].status = "NOT_FOUND" <=> Seen(k) = {}
         /\ Seen(k) # {} =>
              /\ primary[k] \in Seen(k)
              /\ \A card \in Seen(k) : \E same \in Seen(k) :
                   same.id = card.id /\ PreferredTo(primary[k], same)
<1>1. /\ Combined(k) \in Seq(Card)
      /\ ToSet(Combined(k)) \subseteq Seen(k)
      /\ \A card \in Seen(k) : \E same \in ToSet(Combined(k)) : same.id = card.id
  BY CombinedIsSeen DEF AnswerInv
<1>2. Combined(k) = << >> <=> Seen(k) = {}
  <2> HIDE DEF Combined, Seen
  <2>1. Combined(k) # << >> => Combined(k)[1] \in ToSet(Combined(k))
    BY <1>1 DEF ToSet
  <2>2. Combined(k) = << >> => ToSet(Combined(k)) = {}
    BY DEF ToSet
  <2> QED
    BY <1>1, <2>1, <2>2
<1>3. answer[k].status \in {"NOT_FOUND", "DONE", "ERROR"}
  BY DEF AnswerInv, TypeOK, Answered, ParseResult
<1>4. CASE answer[k].status = "NOT_FOUND"
  BY <1>2, <1>4 DEF AnswerInv, ChoiceInv
<1>5. CASE answer[k].status \in {"DONE", "ERROR"}
  <2>1. Combined(k) # << >> /\ primary[k] = PickPrimary(Combined(k))
    BY <1>5 DEF AnswerInv, ChoiceInv
  <2> QED
    BY <1>2, <1>5, <2>1, CombinedPick DEF AnswerInv
<1> QED
  BY <1>3, <1>4, <1>5

\* NOT_FOUND is answered if and only if no search brought back a card, and
\* otherwise every id that was brought back, under whatever status, has a card that
\* was not preferable to the one that is opened.
THEOREM ChoosesAmongAllHolds == Spec => []ChoosesAmongAll
<1>1. AnswerInv => ChoosesAmongAll
  BY ChoosesAmongSeen DEF ChoosesAmongAll, Seen
<1> QED
  BY <1>1, AnswersInvariance, PTL

-----------------------------------------------------------------------------
(* An undisturbed call.                                                    *)

\* A search that has read its list has all that the list has for its call.
ListsRead ==
  \A k \in Calls, l \in Searches :
    pc[<<k, l>>] \in {"close", "done"} =>
      ToSet(found[<<k, l>>]) = Exacts(k, portal[k][l])

\* Without a failure the browser lives, no page fails, and no list is cut short.
CompleteInv ==
  faults = 0 =>
    /\ browser # "dead"
    /\ \A w \in Workers : pc[w] \notin {"unwind", "failed"}
    /\ \A k \in Calls : answer[k].status # "ERROR"
    /\ ListsRead

\* A move that does not end a list leaves the lists as they are.
LEMMA MoveKeepsComplete ==
  ASSUME TypeOK, CompleteInv, faults = 0,
         NEW w \in Workers, NEW from \in PC, NEW to \in PC \ {"unwind", "failed"},
         Move(w, from, to),
         to \in {"close", "done"} => from = "close" \/ w[2] = 0,
         browser' # "dead",
         UNCHANGED <<found, portal, answer>>
  PROVE  CompleteInv'
<1>0. /\ pc \in [Workers -> PC]
      /\ pc[w] = from
      /\ pc' = [pc EXCEPT ![w] = to]
  BY DEF TypeOK, Move
<1>1. \A v \in Workers : pc'[v] \notin {"unwind", "failed"}
  BY <1>0 DEF CompleteInv
<1>2. \A k \in Calls : answer'[k].status # "ERROR"
  BY DEF CompleteInv
<1>3. ASSUME NEW k \in Calls, NEW l \in Searches, pc'[<<k, l>>] \in {"close", "done"}
      PROVE  ToSet(found[<<k, l>>]) = Exacts(k, portal[k][l])
  <2>1. <<k, l>> \in Workers /\ l # 0
    BY SearchIsWorker, SearchesPositive
  <2>2. CASE <<k, l>> = w
    <3>1. w[2] # 0
      BY <2>1, <2>2
    <3>2. pc[<<k, l>>] = "close"
      BY <1>0, <1>3, <2>1, <2>2, <3>1
    <3> QED
      BY <3>2 DEF CompleteInv, ListsRead
  <2>3. CASE <<k, l>> # w
    <3>1. pc[<<k, l>>] \in {"close", "done"}
      BY <1>0, <1>3, <2>1, <2>3
    <3> QED
      BY <3>1 DEF CompleteInv, ListsRead
  <2> QED
    BY <2>2, <2>3
<1>4. ListsRead'
  BY <1>3 DEF ListsRead, Exacts
<1> QED
  BY <1>1, <1>2, <1>4 DEF CompleteInv

\* A list that is read in full.
LEMMA ReadKeepsComplete ==
  ASSUME TypeOK, CompleteInv, faults = 0, NEW k \in Calls, NEW l \in Searches,
         ReadList(k, l)
  PROVE  CompleteInv'
<1>0. /\ pc \in [Workers -> PC]
      /\ pc' = [pc EXCEPT ![<<k, l>>] = "close"]
      /\ found \in [Workers -> Seq(Card)]
      /\ found' = [found EXCEPT ![<<k, l>>] =
                     Exact(k, portal[k][l], DOMAIN portal[k][l])]
      /\ UNCHANGED <<portal, answer, browser>>
      /\ <<k, l>> \in Workers
  BY SearchIsWorker DEF TypeOK, ReadList, Move, calls, shared
<1>1. ToSet(Exact(k, portal[k][l], DOMAIN portal[k][l])) = Exacts(k, portal[k][l])
  BY PortalType, ExactCards
<1>2. \A v \in Workers : pc'[v] \notin {"unwind", "failed"}
  BY <1>0 DEF CompleteInv
<1>3. ASSUME NEW j \in Calls, NEW m \in Searches, pc'[<<j, m>>] \in {"close", "done"}
      PROVE  ToSet(found'[<<j, m>>]) = Exacts(j, portal[j][m])
  <2>1. <<j, m>> \in Workers
    BY SearchIsWorker
  <2>2. CASE <<j, m>> = <<k, l>>
    <3>1. j = k /\ m = l
      BY <2>2
    <3>2. found'[<<k, l>>] = Exact(k, portal[k][l], DOMAIN portal[k][l])
      BY <1>0
    <3> QED
      BY <1>1, <3>1, <3>2
  <2>3. CASE <<j, m>> # <<k, l>>
    <3>1. found'[<<j, m>>] = found[<<j, m>>] /\ pc[<<j, m>>] \in {"close", "done"}
      BY <1>0, <1>3, <2>1, <2>3
    <3> QED
      BY <3>1 DEF CompleteInv, ListsRead
  <2> QED
    BY <2>2, <2>3
<1>4. ListsRead'
  BY <1>0, <1>3 DEF ListsRead, Exacts
<1> QED
  BY <1>0, <1>2, <1>4 DEF CompleteInv

LEMMA StepKeepsComplete ==
  ASSUME TypeOK, CompleteInv, faults = 0, NEW w \in Workers, Step(w)
  PROVE  CompleteInv'
<1> USE DEF PC, shared, local, calls
<1>0. browser # "dead" /\ pc[w] \notin {"unwind", "failed"}
  BY DEF CompleteInv
<1>1. CASE EnsureBrowser(w)
  BY <1>0, <1>1, MoveKeepsComplete DEF EnsureBrowser
<1>2. CASE AcquireLock(w)
  BY <1>0, <1>2, MoveKeepsComplete DEF AcquireLock
<1>3. CASE StartPlaywright(w)
  BY <1>0, <1>3, MoveKeepsComplete DEF StartPlaywright
<1>4. CASE LaunchBrowser(w)
  BY <1>0, <1>4, MoveKeepsComplete DEF LaunchBrowser
<1>5. CASE NewContext(w)
  BY <1>0, <1>5, MoveKeepsComplete DEF NewContext
<1>6. CASE ReadList(w[1], w[2])
  BY <1>6, CallOfWorker, ReadKeepsComplete DEF ReadList
<1>7. CASE w[2] = 0 /\ ReadCard(w[1])
  <2>1. Move(w, "page", "close") /\ UNCHANGED <<found, portal, answer, browser>>
    BY <1>7, CallOfWorker DEF ReadCard, PopUp
  <2> QED
    BY <1>0, <1>7, <2>1, MoveKeepsComplete
<1>8. CASE CloseContext(w)
  <2>1. Move(w, "close", "done") /\ UNCHANGED <<found, portal, answer, browser>>
    BY <1>0, <1>8 DEF CloseContext, Move
  <2> QED
    BY <1>0, <2>1, MoveKeepsComplete
<1>9. CASE Orphaned(w)
  BY <1>0, <1>9 DEF Orphaned
<1> QED
  BY <1>1, <1>2, <1>3, <1>4, <1>5, <1>6, <1>7, <1>8, <1>9 DEF Step

LEMMA NextKeepsComplete ==
  ASSUME AnswerInv, CompleteInv, [Next]_vars
  PROVE  CompleteInv'
<1>1. CASE UNCHANGED vars
  BY <1>1 DEF vars, CompleteInv, ListsRead, Exacts
<1>2. CASE Failure
  BY <1>2 DEF Failure, Fault, AnswerInv, TypeOK, CompleteInv
<1>3. ASSUME faults = 0, NEW k \in Calls, NEW l \in {0} \cup Searches, Step(<<k, l>>)
      PROVE  CompleteInv'
  BY <1>3, SearchIsWorker, StepKeepsComplete DEF AnswerInv
<1>4. ASSUME faults = 0, NEW k \in Calls, Parse(k)
      PROVE  CompleteInv'
  <2>0. /\ pc \in [Workers -> PC]
        /\ answer' = [answer EXCEPT ![k] = Adapter!Asked]
        /\ UNCHANGED <<found, portal, browser>>
    BY <1>4 DEF AnswerInv, TypeOK, Parse, local, shared
  <2>1. \A v \in Workers : pc'[v] = pc[v] \/ pc'[v] = "ensure"
    BY <1>4, <2>0 DEF Parse
  <2>2. \A j \in Calls : answer'[j].status # "ERROR"
    BY <1>4, <2>0 DEF CompleteInv, AnswerInv, TypeOK, Adapter!Asked
  <2>3. ListsRead'
    BY <1>4, <2>0, <2>1, SearchIsWorker DEF CompleteInv, ListsRead, Exacts
  <2> QED
    BY <1>4, <2>0, <2>1, <2>2, <2>3 DEF CompleteInv
<1>5. ASSUME faults = 0, NEW k \in Calls, Join(k)
      PROVE  CompleteInv'
  <2>0. /\ pc \in [Workers -> PC]
        /\ UNCHANGED <<found, portal, browser>>
    BY <1>5 DEF AnswerInv, TypeOK, Join, local, shared
  <2>1. \A v \in Workers : pc'[v] = pc[v] \/ pc'[v] = "ensure"
    BY <1>5, <2>0 DEF Join, Move
  <2>2. \A j \in Calls : answer'[j].status # "ERROR"
    <3>1. PICK res \in {[status |-> "NOT_FOUND", stat |-> NoStat], answer[k]} :
            answer' = [answer EXCEPT ![k] = res]
      BY <1>5 DEF Join, AnswerInv, TypeOK
    <3>2. res.status # "ERROR" /\ DOMAIN answer = Calls
      BY <1>5 DEF CompleteInv, AnswerInv, TypeOK
    <3> QED
      BY <1>5, <3>1, <3>2 DEF CompleteInv
  <2>3. ListsRead'
    BY <1>5, <2>0, <2>1, SearchIsWorker DEF CompleteInv, ListsRead, Exacts
  <2> QED
    BY <1>5, <2>0, <2>1, <2>2, <2>3 DEF CompleteInv
<1>6. ASSUME faults = 0, NEW k \in Calls, Return(k)
      PROVE  CompleteInv'
  <2>0. UNCHANGED <<pc, found, portal, browser>>
    BY <1>6 DEF Return, local, shared
  <2>1. pc[PopUp(k)] # "failed"
    BY <1>6, SearchIsWorker DEF CompleteInv, PopUp
  <2>2. \A j \in Calls : answer'[j].status # "ERROR"
    <3>1. PICK stat : answer' = [answer EXCEPT ![k] = [status |-> "DONE", stat |-> stat]]
      BY <1>6, <2>1 DEF Return
    <3>2. DOMAIN answer = Calls
      BY DEF AnswerInv, TypeOK
    <3> QED
      BY <1>6, <3>1, <3>2 DEF CompleteInv
  <2>3. ListsRead'
    BY <1>6, <2>0 DEF CompleteInv, ListsRead, Exacts
  <2> QED
    BY <1>6, <2>0, <2>2, <2>3 DEF CompleteInv
<1>7. ASSUME UNCHANGED faults, faults # 0
      PROVE  CompleteInv'
  BY <1>7 DEF CompleteInv
<1>8. CASE Failure \/ UNCHANGED faults
  BY <1>1, <1>2, <1>3, <1>4, <1>5, <1>6, <1>7, <1>8 DEF Next, CallStep
<1>9. ASSUME NEW w, Step(w)
      PROVE  UNCHANGED faults
  BY <1>9 DEF Step, EnsureBrowser, AcquireLock, StartPlaywright, LaunchBrowser,
              NewContext, ReadList, ReadCard, CloseContext, Orphaned
<1>10. Failure \/ UNCHANGED faults
  BY <1>9 DEF Next, CallStep, Parse, Join, Return, vars
<1> QED
  BY <1>8, <1>10

LEMMA InitComplete == Init => CompleteInv
<1> SUFFICES ASSUME Init PROVE CompleteInv
  OBVIOUS
<1>1. \A w \in Workers : pc[w] = "idle"
  BY DEF Init
<1>2. \A k \in Calls : answer[k].status # "ERROR"
  BY DEF Init, Adapter!NotAsked
<1>3. ListsRead
  BY <1>1, SearchIsWorker DEF ListsRead
<1> QED
  BY <1>1, <1>2, <1>3 DEF Init, CompleteInv

\* All that the portal has under the number of a call has been seen, when its
\* searches are over and nothing has failed.
LEMMA AllIsSeen ==
  ASSUME CompleteInv, faults = 0, NEW k \in Calls, SearchesOver(k)
  PROVE  Seen(k) = Contracts(k)
<1>1. ASSUME NEW l \in Searches
      PROVE  ToSet(Brought(k, l)) = Exacts(k, portal[k][l])
  <2>1. pc[<<k, l>>] = "done"
    BY SearchIsWorker DEF CompleteInv, SearchesOver
  <2> QED
    BY <2>1 DEF CompleteInv, ListsRead, Brought
<1> QED
  BY <1>1 DEF Seen, Contracts, Exacts

\* As long as nothing has failed, parse() says NOT_FOUND just when the portal has
\* no contract under the number; and otherwise every id that it has there has a
\* card that was not preferable to the one that is opened.
THEOREM AnswersThePortalHolds == Spec => []AnswersThePortal
<1>1. ASSUME AnswerInv, CompleteInv, faults = 0, NEW k \in Calls, Answered(k)
      PROVE  /\ answer[k].status = IF Contracts(k) = {} THEN "NOT_FOUND" ELSE "DONE"
             /\ Contracts(k) # {} =>
                  /\ primary[k] \in Contracts(k)
                  /\ \A card \in Contracts(k) : \E same \in Contracts(k) :
                       same.id = card.id /\ PreferredTo(primary[k], same)
  <2>1. answer[k].status \in {"NOT_FOUND", "DONE"}
    BY <1>1 DEF AnswerInv, TypeOK, Answered, ParseResult, CompleteInv
  <2>2. SearchesOver(k)
    <3>1. CASE answer[k].status = "NOT_FOUND"
      BY <1>1, <3>1 DEF AnswerInv, ChoiceInv
    <3>2. CASE answer[k].status = "DONE"
      <4>1. pc[PopUp(k)] # "idle"
        BY <1>1, <3>2 DEF AnswerInv, ChoiceInv
      <4> QED
        BY <1>1, <4>1 DEF AnswerInv, IInv, PagesInv
    <3> QED
      BY <2>1, <3>1, <3>2
  <2>3. Seen(k) = Contracts(k)
    BY <1>1, <2>2, AllIsSeen
  <2> QED
    BY <1>1, <2>1, <2>3, ChoosesAmongSeen
<1>2. AnswerInv /\ CompleteInv => AnswersThePortal
  BY <1>1 DEF AnswersThePortal
<1>3. CompleteInv /\ AnswerInv /\ [Next]_vars => CompleteInv'
  BY NextKeepsComplete
<1> QED
  BY <1>2, <1>3, InitComplete, AnswersInvariance, PTL DEF Spec

-----------------------------------------------------------------------------
(* parse() implements the contract of ParserAdapter.                       *)

LEMMA SameValues == Adapter!StatValue = StatValue /\ Adapter!ParseResult = ParseResult
  BY DEF Adapter!StatValue, StatValue, Adapter!ParseResult, ParseResult

LEMMA PublishedIsFixed ==
  ASSUME UNCHANGED portal
  PROVE  UNCHANGED Published
  BY DEF Published, Contracts

LEMMA InitMaps == Init => Adapter!Init
<1> SUFFICES ASSUME Init PROVE Adapter!Init
  OBVIOUS
<1>1. ASSUME NEW k \in Calls
      PROVE  Published[k] \in SUBSET StatValue
  <2>1. ASSUME NEW l \in Searches, NEW card \in ToSet(portal[k][l])
        PROVE  Badge[card.id] \in StatValue
    <3>1. portal[k][l] \in Seq(Card)
      BY SamrukAssumption DEF Init
    <3>2. card \in Card
      BY <2>1, <3>1 DEF ToSet
    <3> QED
      BY <3>2, SamrukAssumption DEF Card, StatValue
  <2> QED
    BY <2>1 DEF Published, Contracts
<1>2. Published \in [Calls -> SUBSET StatValue]
  BY <1>1 DEF Published
<1> QED
  BY <1>2, SameValues DEF Init, Adapter!Init

\* What was seen has the number of the call, and is shown by the portal.
LEMMA SeenIsPublished ==
  ASSUME AnswerInv, NEW k \in Calls, NEW card \in Seen(k)
  PROVE  Badge[card.id] \in Published[k]
<1>1. PICK l \in Searches : card \in ToSet(Brought(k, l))
  BY DEF Seen
<1>2. found[<<k, l>>] \in Seq(Exacts(k, portal[k][l]))
  BY DEF AnswerInv, FoundInv
<1>3. card \in ToSet(found[<<k, l>>])
  BY <1>1 DEF Brought, ToSet
<1>4. card \in Exacts(k, portal[k][l])
  BY <1>2, <1>3 DEF ToSet
<1> QED
  BY <1>4 DEF Exacts, Published, Contracts

LEMMA ReturnMaps ==
  ASSUME AnswerInv, NEW k \in Calls, Return(k)
  PROVE  [Adapter!Next]_(Adapter!contract)
<1>0. answer[k] = Adapter!Asked /\ UNCHANGED Published
  BY PublishedIsFixed DEF Return
<1>1. ASSUME NEW res \in ParseResult,
             answer' = [answer EXCEPT ![k] = res],
             res.status = "DONE" =>
               Published[k] # {} /\ res.stat \in Published[k] \cup {NoStat}
      PROVE  [Adapter!Next]_(Adapter!contract)
  <2>1. Adapter!Answer(k, res)
    BY <1>0, <1>1 DEF Adapter!Answer
  <2> QED
    BY <2>1, SameValues DEF Adapter!Next
<1>2. CASE pc[PopUp(k)] = "done"
  <2>1. Combined(k) # << >> /\ primary[k] = PickPrimary(Combined(k))
    BY <1>2 DEF AnswerInv, ChoiceInv
  <2>2. primary[k] \in Seen(k) /\ primary[k] \in Card
    BY <2>1, CombinedPick DEF AnswerInv
  <2>3. /\ Badge[primary[k].id] \in Published[k]
        /\ Badge[primary[k].id] \in Stats
    BY <2>2, SeenIsPublished, SamrukAssumption DEF Card
  <2>4. PICK stat \in {Badge[primary[k].id], NoStat} :
          answer' = [answer EXCEPT ![k] = [status |-> "DONE", stat |-> stat]]
    BY <1>2 DEF Return
  <2>5. [status |-> "DONE", stat |-> stat] \in ParseResult
    BY <2>3, <2>4 DEF ParseResult, StatValue
  <2> QED
    BY <1>1, <2>3, <2>4, <2>5
<1>3. CASE pc[PopUp(k)] = "failed"
  <2>1. [status |-> "ERROR", stat |-> NoStat] \in ParseResult
    BY DEF ParseResult
  <2> QED
    BY <1>1, <1>3, <2>1 DEF Return
<1> QED
  BY <1>2, <1>3 DEF Return

LEMMA NextMaps ==
  ASSUME AnswerInv, [Next]_vars
  PROVE  [Adapter!Next]_(Adapter!contract)
<1>0. UNCHANGED Published
  BY NextKeepsFaults, PublishedIsFixed DEF AnswerInv
<1>1. CASE UNCHANGED answer
  BY <1>0, <1>1 DEF Adapter!contract
<1>2. ASSUME NEW k \in Calls, Parse(k)
      PROVE  [Adapter!Next]_(Adapter!contract)
  <2>1. Adapter!Ask(k)
    BY <1>0, <1>2 DEF Parse, Adapter!Ask
  <2> QED
    BY <2>1 DEF Adapter!Next
<1>3. ASSUME NEW k \in Calls, Join(k)
      PROVE  [Adapter!Next]_(Adapter!contract)
  <2>1. CASE answer' = [answer EXCEPT ![k] = [status |-> "NOT_FOUND", stat |-> NoStat]]
    <3>1. Adapter!Answer(k, [status |-> "NOT_FOUND", stat |-> NoStat])
      BY <1>0, <1>3, <2>1 DEF Join, Adapter!Answer
    <3>2. [status |-> "NOT_FOUND", stat |-> NoStat] \in ParseResult
      BY DEF ParseResult
    <3> QED
      BY <3>1, <3>2, SameValues DEF Adapter!Next
  <2> QED
    BY <1>1, <1>3, <2>1 DEF Join
<1>4. ASSUME NEW w \in Workers, PageKeeps(w)
      PROVE  UNCHANGED answer
  BY <1>4 DEF PageKeeps, PageMoves, calls
<1>5. ASSUME NEW k \in Calls, NEW l \in {0} \cup Searches, Step(<<k, l>>)
      PROVE  UNCHANGED answer
  BY <1>4, <1>5, SearchIsWorker, StepIsPageStep
<1>6. ASSUME Failure
      PROVE  UNCHANGED answer
  BY <1>4, <1>6, FailureIsPageStep DEF BrowserDies, calls
<1>7. ASSUME UNCHANGED vars
      PROVE  UNCHANGED answer
  BY <1>7 DEF vars
<1> QED
  BY <1>1, <1>2, <1>3, <1>5, <1>6, <1>7, ReturnMaps DEF Next, CallStep

\* parse() is answered once, and DONE only for a contract of the portal, with a
\* status that the portal publishes for it or with none.
THEOREM KeepsContractHolds == Spec => KeepsContract
<1>1. AnswerInv /\ [Next]_vars => [Adapter!Next]_(Adapter!contract)
  BY NextMaps
<1> QED
  BY <1>1, InitMaps, AnswersInvariance, PTL DEF Spec, KeepsContract, Adapter!Spec
=============================================================================
