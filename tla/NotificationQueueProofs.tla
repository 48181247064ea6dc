---------------------- MODULE NotificationQueueProofs ----------------------
(* Theorems about NotificationQueue, for every number of notifications,    *)
(* groups, windows, flush callers and workers, every retry delay, and      *)
(* whether or not tasks start eagerly and timers fire early.               *)
EXTENDS NotificationQueue, FiniteSetTheorems, WellFoundedInduction, TLAPS

-----------------------------------------------------------------------------
(* Lemmas about the operators.                                             *)

\* The earliest deadline of a nonempty set of notifications is the deadline
\* of one of them, and no other is earlier.
LEMMA EarliestDueIsLeast ==
    ASSUME NEW items, NEW due, items # {}, \A i \in items : due[i] \in Nat
    PROVE  /\ \E i \in items : EarliestDue(items, due) = due[i]
           /\ \A i \in items : EarliestDue(items, due) <= due[i]
           /\ EarliestDue(items, due) \in Nat
<1> DEFINE D == {due[i] : i \in items}
<1>1. D \subseteq Nat /\ D # {}
  OBVIOUS
<1> DEFINE Less == {p \in Nat \X Nat : p[1] < p[2]}
<1>2. IsWellFoundedOn(Less, Nat)
  BY NatLessThanWellFounded DEF OpToRel
<1>3. PICK d \in D : \A e \in D : <<e, d>> \notin Less
  BY <1>1, <1>2, WFMin
<1>4. \A i \in items : d <= due[i]
  <2>1. ASSUME NEW e \in D PROVE d <= e
    <3>1. e \in Nat /\ d \in Nat
      BY <1>1
    <3>2. <<e, d>> \notin Less
      BY <1>3
    <3>3. ~(e < d)
      BY <3>1, <3>2
    <3>4. QED
      BY <3>1, <3>3
  <2>2. QED
    BY <2>1
<1>5. /\ EarliestDue(items, due) \in D
      /\ \A i \in items : EarliestDue(items, due) <= due[i]
  BY <1>4 DEF EarliestDue
<1>6. QED
  BY <1>1, <1>5

\* A timer is a number of ticks or no timer.
LEMMA ScheduleFlushType ==
    ASSUME NEW items, NEW due, \A i \in items : due[i] \in Nat, NEW isClosed, NEW task
    PROVE  ScheduleFlush(isClosed, items, due, task) \in Nat \cup {NoTimer}
BY EarliestDueIsLeast DEF ScheduleFlush

LEMMA TasksDisjoint ==
    /\ NoTask \notin Workers /\ NoTask \notin Items /\ NoTask \notin FlushCallers /\ NoTask # Closer
    /\ Items \cap Workers = {} /\ FlushCallers \cap Workers = {} /\ Closer \notin Workers
    /\ Items \cap FlushCallers = {} /\ Closer \notin Items /\ Closer \notin FlushCallers
BY ClientsAssumption DEF Tasks, Clients

\* Whoever enters leaves a sequence of tasks waiting.
LEMMA BehindType ==
    ASSUME waiters \in Seq(Tasks), NEW t
    PROVE  Behind(t) \in Seq(Tasks)
BY DEF Behind

\* Only the deadlines of the given notifications count.
LEMMA EarliestDueUnique ==
    ASSUME NEW items, NEW due, items # {}, \A i \in items : due[i] \in Nat,
           NEW d \in Nat, \A i \in items : d <= due[i], \E i \in items : d = due[i]
    PROVE  EarliestDue(items, due) = d
BY EarliestDueIsLeast

-----------------------------------------------------------------------------
LEMMA InitType == Init => TypeOK
<1> SUFFICES ASSUME Init PROVE TypeOK
  OBVIOUS
<1>1. waiters \in Seq(Tasks) /\ timer \in Nat \cup {NoTimer} /\ failures \in 0..MaxFailures
  BY TimesAssumption DEF Init
<1>2. pc \in [Tasks -> {"new", "queued", "rejected", "flush", "wait", "returned", "raised",
                        "cancelled", "idle", "pick", "deliver", "done", "fail", "exit"}]
  BY DEF Init
<1>3. QED
  BY <1>1, <1>2 DEF Init, TypeOK

LEMMA NextType == TypeOK /\ [Next]_vars => TypeOK'
<1> SUFFICES ASSUME TypeOK, [Next]_vars PROVE TypeOK'
  OBVIOUS
<1> USE TasksDisjoint, TimesAssumption
<1>0. Items \subseteq Tasks /\ FlushCallers \subseteq Tasks /\ Closer \in Tasks /\ Workers \subseteq Tasks
  BY DEF Tasks, Clients
<1>b. \A t : Behind(t) \in Seq(Tasks)
  BY BehindType DEF TypeOK
<1>s. ASSUME NEW items \in SUBSET Items, NEW due \in [Items -> Nat], NEW isClosed, NEW task
      PROVE  ScheduleFlush(isClosed, items, due, task) \in Nat \cup {NoTimer}
  <2>1. \A i \in items : due[i] \in Nat
    OBVIOUS
  <2>2. QED
    BY <2>1, ScheduleFlushType
<1>1. ASSUME NEW t \in Tasks, Block(t) PROVE TypeOK'
  BY <1>1, <1>0 DEF Block, TypeOK, TaskOnSuspend, ghostVars
<1>2. ASSUME NEW i \in Items, Enqueue(i) PROVE TypeOK'
  <2>1. Cardinality({j \in Items : pc[j] = "queued"}) + 1 \in Nat
    BY ItemsAssumption, FS_Subset, FS_CardinalityType
  <2>2. CASE closed
    BY <1>2, <2>2, <1>0, <1>b DEF Enqueue, TypeOK, ghostVars
  <2>3. CASE ~closed
    <3>1. pending' \subseteq Items /\ dueIn' \in [Items -> Nat]
      BY <1>2, <2>3 DEF Enqueue, TypeOK
    <3>2. timer' \in Nat \cup {NoTimer}
      BY <1>2, <2>3, <3>1, <1>s DEF Enqueue
    <3>3. arrival' \in [Items -> Nat]
      BY <1>2, <2>1, <2>3 DEF Enqueue, TypeOK
    <3>4. waiters' \in Seq(Tasks) /\ loop' = NoTask
      BY <1>2, <1>b DEF Enqueue
    <3>5. pc' = [pc EXCEPT ![i] = "queued"]
      BY <1>2, <2>3 DEF Enqueue
    <3>6. UNCHANGED <<flushTask, closed, batch, err, awaits, processed, failures>>
      BY <1>2 DEF Enqueue, ghostVars
    <3>7. QED
      BY <3>1, <3>2, <3>3, <3>4, <3>5, <3>6, <1>0 DEF TypeOK
  <2>4. QED
    BY <2>2, <2>3
<1>3. ASSUME NEW t \in FlushCallers \cup {Closer}, FlushNow(t) PROVE TypeOK'
  <2>1. t \in Tasks /\ dueIn' \in [Items -> Nat] /\ timer' = NoTimer
    BY <1>3, <1>0 DEF FlushNow, MakeDue, TypeOK
  <2>2. CASE MayStart(pending)
    <3>1. PICK w \in Workers :
            /\ pc' = [pc EXCEPT ![w] = "pick", ![t] = "wait"]
            /\ flushTask' = w
            /\ waiters' = IF Eager THEN Append(Behind(t), w) ELSE Behind(t)
            /\ AwaitWorker(t, w)
      BY <1>3, <2>2 DEF FlushNow
    <3>2. waiters' \in Seq(Tasks)
      BY <3>1, <1>0, <1>b
    <3>3. awaits' \in [Tasks -> Workers \cup {NoTask}] /\ loop' = NoTask
      BY <3>1, <2>1 DEF AwaitWorker, TypeOK
    <3>4. QED
      BY <1>3, <2>1, <3>1, <3>2, <3>3 DEF FlushNow, TypeOK, ghostVars
  <2>3. CASE ~MayStart(pending)
    <3>1. /\ pc' = [pc EXCEPT ![t] = IF flushTask = NoTask THEN "returned" ELSE "wait"]
          /\ waiters' = Behind(t)
          /\ AwaitWorker(t, flushTask)
          /\ UNCHANGED flushTask
      BY <1>3, <2>3 DEF FlushNow
    <3>2. awaits' \in [Tasks -> Workers \cup {NoTask}] /\ loop' = NoTask
      BY <3>1, <2>1 DEF AwaitWorker, TypeOK
    <3>3. QED
      BY <1>3, <2>1, <3>1, <3>2, <1>b DEF FlushNow, TypeOK, ghostVars
  <2>4. QED
    BY <2>2, <2>3
<1>4. CASE CloseQueue
  BY <1>4, <1>0, <1>b DEF CloseQueue, TypeOK, ghostVars
<1>5. ASSUME NEW f \in FlushCallers, CancelCaller(f) PROVE TypeOK'
  BY <1>5, <1>0 DEF CancelCaller, TypeOK, queueVars, ghostVars
<1>6. CASE TimerFires
  BY <1>6, <1>0 DEF TimerFires, TypeOK, ghostVars
<1>7. CASE Tick
  BY <1>7, <1>0 DEF Tick, TypeOK, taskVars, ghostVars, NoTimer
<1>8. ASSUME NEW w \in Workers, WorkerStep(w) PROVE TypeOK'
  <2>1. CASE Pick(w)
    BY <2>1, <1>0, <1>b DEF Pick, TypeOK, queueVars, ghostVars, NextDueGroup
  <2>2. CASE Suspend(w)
    BY <2>2, <1>0 DEF Suspend, TypeOK, TaskOnSuspend, ghostVars
  <2>3. CASE Complete(w)
    BY <2>3, <1>0 DEF Complete, TypeOK, queueVars
  <2>4. CASE Fail(w)
    BY <2>4, <1>0 DEF Fail, TypeOK, queueVars
  <2>5. CASE RemoveBatch(w)
    BY <2>5, <1>0, <1>b DEF RemoveBatch, TypeOK, ghostVars
  <2>6. CASE RetryBatch(w)
    BY <2>6, <1>0, <1>b DEF RetryBatch, TypeOK, ghostVars
  <2>7. CASE ExitFlush(w)
    <3>1. timer' \in Nat \cup {NoTimer}
      BY <2>7, <1>s DEF ExitFlush, TypeOK
    <3>2. QED
      BY <2>7, <3>1, <1>0, <1>b DEF ExitFlush, EndedPc, TypeOK, ghostVars
  <2>8. QED
    BY <1>8, <2>1, <2>2, <2>3, <2>4, <2>5, <2>6, <2>7 DEF WorkerStep
<1>9. CASE UNCHANGED vars
  BY <1>9 DEF TypeOK, vars, queueVars, taskVars, ghostVars
<1>10. QED
  BY <1>1, <1>2, <1>3, <1>4, <1>5, <1>6, <1>7, <1>8, <1>9 DEF Next, Flush

\* Every variable of the queue keeps its type.
THEOREM TypeCorrect == Spec => []TypeOK
<1>1. Init => TypeOK
  BY InitType
<1>2. TypeOK /\ [Next]_vars => TypeOK'
  BY NextType
<1>3. QED
  BY <1>1, <1>2, PTL DEF Spec

-----------------------------------------------------------------------------
(* The inductive invariant.  SingleWorker is what the rest leans on: only  *)
(* because the living worker is unique do a batch's items belong to nobody *)
(* else, and only because it is the one in _flush_task, or still inside    *)
(* _start_flush, does a queue at rest have no worker to rely on.           *)

\* Only a call that waits is bound to a worker, so that the end of a worker
\* moves no enqueued notification and no other worker.
WaitsMatch ==
    /\ \A t \in Tasks : awaits[t] # NoTask => pc[t] = "wait"
    /\ \A i \in Items : pc[i] \in {"new", "queued", "rejected"}

IInv ==
    /\ TypeOK
    /\ WaitsMatch
    /\ SingleWorker
    /\ BatchPending
    /\ Retained
    /\ Wakeup

\* A step of a task that is no worker finds no worker on the loop.
LEMMA ClientHasLoop ==
    ASSUME NEW t, t \notin Workers, Enters(t) \/ loop \in {NoTask, t}
    PROVE  loop \notin Workers
BY TasksDisjoint DEF Enters

LEMMA InitIInv == Init => IInv
<1> SUFFICES ASSUME Init PROVE IInv
  OBVIOUS
<1>0. Items \subseteq Tasks /\ Workers \subseteq Tasks
  BY DEF Tasks, Clients
<1>1. TypeOK
  BY InitType
<1>2. WaitsMatch
  BY <1>0, TasksDisjoint DEF Init, WaitsMatch
<1>3. SingleWorker
  BY <1>0, TasksDisjoint DEF Init, SingleWorker, Alive
<1>4. BatchPending
  BY <1>0 DEF Init, BatchPending
<1>5. Retained
  BY <1>0, TasksDisjoint DEF Init, Retained
<1>6. Wakeup
  BY DEF Init, Wakeup
<1>7. QED
  BY <1>1, <1>2, <1>3, <1>4, <1>5, <1>6 DEF IInv

LEMMA WaitsMatchStep == TypeOK /\ WaitsMatch /\ Next => WaitsMatch'
<1> SUFFICES ASSUME TypeOK, WaitsMatch, Next PROVE WaitsMatch'
  OBVIOUS
<1> USE TasksDisjoint
<1>0. Items \subseteq Tasks /\ FlushCallers \subseteq Tasks /\ Closer \in Tasks /\ Workers \subseteq Tasks
  BY DEF Tasks, Clients
<1>1. ASSUME NEW t \in Tasks, Block(t) PROVE WaitsMatch'
  BY <1>1 DEF Block, WaitsMatch
<1>2. ASSUME NEW i \in Items, Enqueue(i) PROVE WaitsMatch'
  BY <1>2, <1>0 DEF Enqueue, WaitsMatch, TypeOK
<1>3. ASSUME NEW t \in FlushCallers \cup {Closer}, FlushNow(t) PROVE WaitsMatch'
  <2>1. t \notin Items /\ t \in Tasks
    BY <1>0
  <2>2. CASE MayStart(pending)
    <3>1. PICK w \in Workers : pc' = [pc EXCEPT ![w] = "pick", ![t] = "wait"] /\ AwaitWorker(t, w) /\ pc[w] = "idle"
      BY <1>3, <2>2 DEF FlushNow
    <3>2. w \notin Items /\ w # t /\ awaits[w] = NoTask
      BY <2>1, <3>1, <1>0 DEF WaitsMatch
    <3>3. QED
      BY <2>1, <3>1, <3>2, <1>0 DEF AwaitWorker, WaitsMatch, TypeOK
  <2>3. CASE ~MayStart(pending)
    <3>1. pc' = [pc EXCEPT ![t] = IF flushTask = NoTask THEN "returned" ELSE "wait"] /\ AwaitWorker(t, flushTask)
      BY <1>3, <2>3 DEF FlushNow
    <3>2. QED
      BY <2>1, <3>1, <1>0 DEF AwaitWorker, WaitsMatch, TypeOK
  <2>4. QED
    BY <2>2, <2>3
<1>4. CASE CloseQueue
  BY <1>4, <1>0 DEF CloseQueue, WaitsMatch, TypeOK
<1>5. ASSUME NEW f \in FlushCallers, CancelCaller(f) PROVE WaitsMatch'
  BY <1>5, <1>0 DEF CancelCaller, WaitsMatch, TypeOK
<1>6. CASE TimerFires
  BY <1>6, <1>0 DEF TimerFires, WaitsMatch, TypeOK
<1>7. CASE Tick
  BY <1>7 DEF Tick, WaitsMatch, taskVars
<1>8. ASSUME NEW w \in Workers, WorkerStep(w) PROVE WaitsMatch'
  <2>1. CASE ExitFlush(w)
    <3>1. pc[w] = "exit" /\ pc' = EndedPc(w) /\ awaits' = [t \in Tasks |-> IF awaits[t] = w THEN NoTask ELSE awaits[t]]
      BY <2>1 DEF ExitFlush
    <3>2. awaits[w] = NoTask
      BY <3>1, <1>0 DEF WaitsMatch
    <3>3. \A t \in Tasks : awaits'[t] # NoTask => pc'[t] = "wait"
      BY <3>1, <3>2 DEF EndedPc, WaitsMatch
    <3>4. ASSUME NEW i \in Items PROVE pc'[i] = pc[i]
      <4>1. awaits[i] = NoTask /\ i # w /\ i \in Tasks
        BY <1>0 DEF WaitsMatch
      <4>2. QED
        BY <3>1, <4>1 DEF EndedPc
    <3>5. QED
      BY <3>3, <3>4 DEF WaitsMatch
  <2>2. CASE Pick(w) \/ Suspend(w) \/ Complete(w) \/ Fail(w) \/ RemoveBatch(w) \/ RetryBatch(w)
    <3>1. awaits' = awaits /\ pc[w] # "wait" /\ \A t \in Tasks : t # w => pc'[t] = pc[t]
      BY <2>2, <1>0 DEF Pick, Suspend, Complete, Fail, RemoveBatch, RetryBatch, TypeOK
    <3>2. QED
      BY <3>1, <1>0 DEF WaitsMatch
  <2>3. QED
    BY <1>8, <2>1, <2>2 DEF WorkerStep
<1>9. QED
  BY <1>1, <1>2, <1>3, <1>4, <1>5, <1>6, <1>7, <1>8 DEF Next, Flush

LEMMA SingleWorkerStep == TypeOK /\ WaitsMatch /\ SingleWorker /\ Next => SingleWorker'
<1> SUFFICES ASSUME TypeOK, WaitsMatch, SingleWorker, Next PROVE SingleWorker'
  OBVIOUS
<1> USE TasksDisjoint DEF Alive
<1>0. Items \subseteq Tasks /\ FlushCallers \subseteq Tasks /\ Closer \in Tasks /\ Workers \subseteq Tasks
  BY DEF Tasks, Clients
<1>1. ASSUME NEW t \in Tasks, Block(t) PROVE SingleWorker'
  <2>1. CASE t \in Workers
    <3>1. Alive(t)
      BY <1>1, <2>1 DEF Block, WantsLock, Clients
    <3>2. QED
      BY <1>1, <2>1, <3>1 DEF Block, TaskOnSuspend, SingleWorker, TypeOK
  <2>2. CASE t \notin Workers
    <3>1. loop \notin Workers /\ flushTask' = flushTask /\ pc' = pc
      BY <1>1, <2>2, ClientHasLoop DEF Block, TaskOnSuspend
    <3>2. QED
      BY <3>1 DEF SingleWorker
  <2>3. QED
    BY <2>1, <2>2
<1>2. ASSUME NEW i \in Items, Enqueue(i) PROVE SingleWorker'
  <2>1. i \notin Workers /\ loop \notin Workers
    BY <1>2, ClientHasLoop DEF Enqueue
  <2>2. flushTask' = flushTask /\ \A w \in Workers : pc'[w] = pc[w]
    BY <1>2, <1>0, <2>1 DEF Enqueue, TypeOK
  <2>3. QED
    BY <2>1, <2>2 DEF SingleWorker, TypeOK
<1>3. ASSUME NEW t \in FlushCallers \cup {Closer}, FlushNow(t) PROVE SingleWorker'
  <2>1. t \notin Workers /\ loop \notin Workers
    BY <1>3, ClientHasLoop DEF FlushNow
  <2>2. CASE MayStart(pending)
    <3>1. PICK w \in Workers : pc' = [pc EXCEPT ![w] = "pick", ![t] = "wait"] /\ flushTask' = w
      BY <1>3, <2>2 DEF FlushNow
    <3>2. \A v \in Workers : pc[v] = "idle"
      BY <2>1, <2>2 DEF SingleWorker, MayStart
    <3>3. \A v \in Workers : pc'[v] = IF v = w THEN "pick" ELSE "idle"
      BY <1>0, <2>1, <3>1, <3>2 DEF TypeOK
    <3>4. flushTask' = w
      BY <3>1
    <3>5. \A v \in Workers : pc'[v] # "idle" <=> v = w
      BY <3>3
    <3>6. QED
      BY <3>4, <3>5 DEF SingleWorker
  <2>3. CASE ~MayStart(pending)
    <3>1. flushTask' = flushTask /\ \A w \in Workers : pc'[w] = pc[w]
      BY <1>3, <1>0, <2>1, <2>3 DEF FlushNow, TypeOK
    <3>2. QED
      BY <2>1, <3>1 DEF SingleWorker, TypeOK
  <2>4. QED
    BY <2>2, <2>3
<1>4. CASE CloseQueue
  <2>1. loop \notin Workers
    BY <1>4, ClientHasLoop DEF CloseQueue
  <2>2. flushTask' = flushTask /\ \A w \in Workers : pc'[w] = pc[w]
    BY <1>4, <1>0 DEF CloseQueue, TypeOK
  <2>3. QED
    BY <2>1, <2>2 DEF SingleWorker, TypeOK
<1>5. ASSUME NEW f \in FlushCallers, CancelCaller(f) PROVE SingleWorker'
  <2>1. flushTask' = flushTask /\ loop' = loop /\ \A w \in Workers : pc'[w] = pc[w]
    BY <1>5, <1>0 DEF CancelCaller, queueVars, TypeOK
  <2>2. QED
    BY <2>1 DEF SingleWorker, TypeOK
<1>6. CASE TimerFires
  <2>1. CASE MayStart(pending)
    <3>1. PICK w \in Workers : /\ pc' = [pc EXCEPT ![w] = "pick"]
                               /\ loop' = IF Eager THEN w ELSE NoTask
                               /\ flushTask' = IF Eager THEN flushTask ELSE w
      BY <1>6, <2>1 DEF TimerFires
    <3>2. \A v \in Workers : pc[v] = "idle"
      BY <1>6, <2>1 DEF TimerFires, SingleWorker, MayStart
    <3>3. \A v \in Workers : pc'[v] = IF v = w THEN "pick" ELSE "idle"
      BY <1>0, <3>1, <3>2 DEF TypeOK
    <3>4. flushTask = NoTask
      BY <2>1 DEF MayStart
    <3>5. QED
      BY <3>1, <3>3, <3>4 DEF SingleWorker
  <2>2. CASE ~MayStart(pending)
    BY <1>6, <2>2 DEF TimerFires, SingleWorker
  <2>3. QED
    BY <2>1, <2>2
<1>7. CASE Tick
  BY <1>7 DEF Tick, taskVars, SingleWorker
<1>8. ASSUME NEW w \in Workers, WorkerStep(w) PROVE SingleWorker'
  <2>1. CASE Pick(w) \/ Complete(w) \/ Fail(w) \/ RemoveBatch(w) \/ RetryBatch(w)
    <3>1. /\ Alive(w) /\ flushTask' = flushTask /\ loop' = w
          /\ pc'[w] # "idle"
          /\ \A v \in Workers \ {w} : pc'[v] = pc[v]
      BY <2>1, <1>0 DEF Pick, Complete, Fail, RemoveBatch, RetryBatch, queueVars, TypeOK
    <3>2. /\ \A v \in Workers : Alive(v)' <=> Alive(v)
          /\ \A v \in Workers : Alive(v) => v = w
      BY <3>1 DEF SingleWorker
    <3>3. flushTask \in {w, NoTask}
      BY <3>1 DEF SingleWorker
    <3>4. QED
      BY <3>1, <3>2, <3>3 DEF SingleWorker
  <2>2. CASE Suspend(w)
    BY <2>2 DEF Suspend, TaskOnSuspend, SingleWorker, TypeOK
  <2>3. CASE ExitFlush(w)
    <3>1. Alive(w) /\ flushTask' = NoTask
      BY <2>3 DEF ExitFlush
    <3>2. \A v \in Workers : v # w => pc[v] = "idle"
      BY <3>1 DEF SingleWorker
    <3>3. \A v \in Workers : pc'[v] = "idle"
      BY <2>3, <3>2, <1>0 DEF ExitFlush, EndedPc, WaitsMatch, TypeOK
    <3>4. QED
      BY <3>1, <3>3 DEF SingleWorker
  <2>4. QED
    BY <1>8, <2>1, <2>2, <2>3 DEF WorkerStep
<1>9. QED
  BY <1>1, <1>2, <1>3, <1>4, <1>5, <1>6, <1>7, <1>8 DEF Next, Flush

LEMMA BatchPendingStep ==
    TypeOK /\ WaitsMatch /\ SingleWorker /\ BatchPending /\ Next => BatchPending'
<1> SUFFICES ASSUME TypeOK, WaitsMatch, SingleWorker, BatchPending, Next PROVE BatchPending'
  OBVIOUS
<1> USE TasksDisjoint
<1>0. Items \subseteq Tasks /\ FlushCallers \subseteq Tasks /\ Closer \in Tasks /\ Workers \subseteq Tasks
  BY DEF Tasks, Clients
<1>1. ASSUME NEW t \in Tasks, Block(t) PROVE BatchPending'
  BY <1>1 DEF Block, BatchPending
<1>2. ASSUME NEW i \in Items, Enqueue(i) PROVE BatchPending'
  <2>1. pending \subseteq pending' /\ batch' = batch /\ \A w \in Workers : pc'[w] = pc[w]
    BY <1>2, <1>0 DEF Enqueue, TypeOK
  <2>2. QED
    BY <2>1 DEF BatchPending
<1>3. ASSUME NEW t \in FlushCallers \cup {Closer}, FlushNow(t) PROVE BatchPending'
  <2>1. \A w \in Workers : pc'[w] = pc[w] \/ (pc[w] = "idle" /\ pc'[w] = "pick")
    BY <1>3, <1>0 DEF FlushNow, TypeOK
  <2>2. pending' = pending /\ batch' = batch
    BY <1>3 DEF FlushNow
  <2>3. QED
    BY <2>1, <2>2 DEF BatchPending
<1>4. CASE CloseQueue
  BY <1>4, <1>0 DEF CloseQueue, BatchPending, TypeOK
<1>5. ASSUME NEW f \in FlushCallers, CancelCaller(f) PROVE BatchPending'
  BY <1>5, <1>0 DEF CancelCaller, queueVars, BatchPending, TypeOK
<1>6. CASE TimerFires
  <2>1. \A w \in Workers : pc'[w] = pc[w] \/ (pc[w] = "idle" /\ pc'[w] = "pick")
    BY <1>6, <1>0 DEF TimerFires, TypeOK
  <2>2. pending' = pending /\ batch' = batch
    BY <1>6 DEF TimerFires
  <2>3. QED
    BY <2>1, <2>2 DEF BatchPending
<1>7. CASE Tick
  BY <1>7 DEF Tick, taskVars, BatchPending
<1>8. ASSUME NEW w \in Workers, WorkerStep(w) PROVE BatchPending'
  <2>1. CASE Pick(w)
    <3>1. NextDueGroup \subseteq pending
      BY DEF NextDueGroup
    <3>2. QED
      BY <2>1, <3>1, <1>0 DEF Pick, queueVars, BatchPending, TypeOK
  <2>2. CASE Suspend(w)
    BY <2>2 DEF Suspend, BatchPending
  <2>3. CASE Complete(w) \/ Fail(w)
    BY <2>3, <1>0 DEF Complete, Fail, queueVars, BatchPending, TypeOK
  <2>4. CASE RemoveBatch(w)
    <3>1. \A v \in Workers : v # w => batch[v] = {} /\ pc'[v] = pc[v] /\ batch'[v] = batch[v]
      BY <2>4, <1>0 DEF RemoveBatch, SingleWorker, Alive, BatchPending, TypeOK
    <3>2. batch'[w] = {} /\ pc'[w] = "pick"
      BY <2>4, <1>0 DEF RemoveBatch, TypeOK
    <3>3. QED
      BY <3>1, <3>2 DEF BatchPending
  <2>5. CASE RetryBatch(w)
    BY <2>5, <1>0 DEF RetryBatch, BatchPending, TypeOK
  <2>6. CASE ExitFlush(w)
    <3>1. pc' = EndedPc(w) /\ batch' = batch /\ pending' = pending /\ pc[w] = "exit"
      BY <2>6 DEF ExitFlush
    <3>2. \A v \in Workers : v # w => pc'[v] = pc[v] \/ (pc[v] = "wait" /\ pc'[v] \in {"raised", "returned"})
      BY <3>1, <1>0 DEF EndedPc, WaitsMatch
    <3>3. pc'[w] = "idle"
      BY <3>1, <1>0 DEF EndedPc
    <3>4. QED
      BY <3>1, <3>2, <3>3 DEF BatchPending
  <2>7. QED
    BY <1>8, <2>1, <2>2, <2>3, <2>4, <2>5, <2>6 DEF WorkerStep
<1>9. QED
  BY <1>1, <1>2, <1>3, <1>4, <1>5, <1>6, <1>7, <1>8 DEF Next, Flush

LEMMA RetainedStep ==
    TypeOK /\ WaitsMatch /\ SingleWorker /\ BatchPending /\ Retained /\ Next => Retained'
<1> SUFFICES ASSUME TypeOK, WaitsMatch, SingleWorker, BatchPending, Retained, Next
             PROVE  Retained'
  OBVIOUS
<1> USE TasksDisjoint
<1>0. Items \subseteq Tasks /\ FlushCallers \subseteq Tasks /\ Closer \in Tasks /\ Workers \subseteq Tasks
  BY DEF Tasks, Clients
<1> DEFINE Removing(i) == \E w \in Workers : pc[w] = "done" /\ i \in batch[w]
<1>a. ASSUME UNCHANGED <<pending, batch, processed>>,
             \A i \in Items : (pc'[i] = "queued") <=> (pc[i] = "queued"),
             \A w \in Workers : (pc'[w] = "done") <=> (pc[w] = "done")
      PROVE  Retained'
  <2>1. ASSUME NEW i \in Items PROVE Removing(i)' <=> Removing(i)
    BY <1>a
  <2>2. QED
    BY <1>a, <2>1 DEF Retained
<1>1. ASSUME NEW t \in Tasks, Block(t) PROVE Retained'
  BY <1>1, <1>a DEF Block, ghostVars
<1>2. ASSUME NEW i \in Items, Enqueue(i) PROVE Retained'
  <2>1. CASE closed
    <3>1. UNCHANGED <<pending, batch, processed>> /\ pc' = [pc EXCEPT ![i] = "rejected"] /\ pc[i] = "new"
      BY <1>2, <2>1 DEF Enqueue, ghostVars
    <3>2. QED
      BY <3>1, <1>0, <1>a DEF TypeOK
  <2>2. CASE ~closed
    <3>1. /\ pending' = pending \cup {i} /\ batch' = batch /\ processed' = processed
          /\ pc' = [pc EXCEPT ![i] = "queued"] /\ pc[i] = "new"
      BY <1>2, <2>2 DEF Enqueue, ghostVars
    <3>2. ASSUME NEW j \in Items PROVE (Removing(j)' <=> Removing(j)) /\ ~Removing(i)
      <4>1. \A w \in Workers : pc'[w] = pc[w]
        BY <3>1, <1>0 DEF TypeOK
      <4>2. i \notin pending
        BY <3>1 DEF Retained
      <4>3. QED
        BY <3>1, <4>1, <4>2 DEF BatchPending
    <3>3. \A j \in Items : pc'[j] = IF j = i THEN "queued" ELSE pc[j]
      BY <3>1, <1>0 DEF TypeOK
    <3>4. processed[i] = 0
      BY <3>1, <3>2 DEF Retained
    <3>5. QED
      BY <3>1, <3>2, <3>3, <3>4 DEF Retained
  <2>3. QED
    BY <2>1, <2>2
<1>3. ASSUME NEW t \in FlushCallers \cup {Closer}, FlushNow(t) PROVE Retained'
  <2>1. UNCHANGED <<pending, batch, processed>>
    BY <1>3 DEF FlushNow, ghostVars
  <2>2. \A i \in Items : pc'[i] = pc[i]
    <3>1. t \notin Items
      OBVIOUS
    <3>2. CASE MayStart(pending)
      BY <1>3, <1>0, <3>1, <3>2 DEF FlushNow, TypeOK
    <3>3. CASE ~MayStart(pending)
      BY <1>3, <1>0, <3>1, <3>3 DEF FlushNow, TypeOK
    <3>4. QED
      BY <3>2, <3>3
  <2>3. \A w \in Workers : (pc'[w] = "done") <=> (pc[w] = "done")
    BY <1>3, <1>0 DEF FlushNow, TypeOK
  <2>4. QED
    BY <2>1, <2>2, <2>3, <1>a
<1>4. CASE CloseQueue
  BY <1>4, <1>0, <1>a DEF CloseQueue, ghostVars, TypeOK
<1>5. ASSUME NEW f \in FlushCallers, CancelCaller(f) PROVE Retained'
  BY <1>5, <1>0, <1>a DEF CancelCaller, queueVars, ghostVars, TypeOK
<1>6. CASE TimerFires
  <2>1. UNCHANGED <<pending, batch, processed>>
    BY <1>6 DEF TimerFires, ghostVars
  <2>2. \A i \in Items : pc'[i] = pc[i]
    BY <1>6, <1>0 DEF TimerFires, TypeOK
  <2>3. \A w \in Workers : (pc'[w] = "done") <=> (pc[w] = "done")
    BY <1>6, <1>0 DEF TimerFires, TypeOK
  <2>4. QED
    BY <2>1, <2>2, <2>3, <1>a
<1>7. CASE Tick
  BY <1>7, <1>a DEF Tick, taskVars, ghostVars
<1>8. ASSUME NEW w \in Workers, WorkerStep(w) PROVE Retained'
  <2>0. \A v \in Workers : Alive(w) /\ Alive(v) => v = w
    BY DEF SingleWorker
  <2>1. CASE Pick(w)
    <3>1. \A i \in Items : ~Removing(i) /\ ~Removing(i)' /\ pc'[i] = pc[i]
      BY <2>0, <2>1, <1>0 DEF Pick, Alive, TypeOK
    <3>2. QED
      BY <2>1, <3>1 DEF Pick, queueVars, ghostVars, Retained
  <2>2. CASE Suspend(w)
    BY <2>2, <1>a DEF Suspend, ghostVars
  <2>3. CASE Complete(w)
    <3>1. \A i \in Items : ~Removing(i) /\ pc'[i] = pc[i] /\ (Removing(i)' <=> i \in batch[w])
      BY <2>0, <2>3, <1>0 DEF Complete, Alive, TypeOK
    <3>2. pending' = pending /\ batch[w] \subseteq pending
      BY <2>3 DEF Complete, queueVars, BatchPending
    <3>3. \A i \in Items : processed'[i] = IF i \in batch[w] THEN processed[i] + 1 ELSE processed[i]
      BY <2>3 DEF Complete
    <3>4. QED
      BY <3>1, <3>2, <3>3 DEF Retained
  <2>4. CASE Fail(w)
    <3>1. UNCHANGED <<pending, batch, processed>>
      BY <2>4 DEF Fail, queueVars
    <3>2. QED
      BY <2>4, <3>1, <1>0, <1>a DEF Fail, TypeOK
  <2>5. CASE RemoveBatch(w)
    <3>1. \A i \in Items : pc'[i] = pc[i] /\ (Removing(i) <=> i \in batch[w]) /\ ~Removing(i)'
      BY <2>0, <2>5, <1>0 DEF RemoveBatch, Alive, TypeOK
    <3>2. pending' = pending \ batch[w] /\ batch[w] \subseteq pending /\ processed' = processed
      BY <2>5 DEF RemoveBatch, ghostVars, BatchPending
    <3>3. QED
      BY <3>1, <3>2 DEF Retained
  <2>6. CASE RetryBatch(w)
    <3>1. \A i \in Items : pc'[i] = pc[i] /\ ~Removing(i) /\ ~Removing(i)'
      BY <2>0, <2>6, <1>0 DEF RetryBatch, Alive, TypeOK
    <3>2. pending' = pending /\ processed' = processed
      BY <2>6 DEF RetryBatch, ghostVars
    <3>3. QED
      BY <3>1, <3>2 DEF Retained
  <2>7. CASE ExitFlush(w)
    <3>1. UNCHANGED <<pending, batch, processed>> /\ pc' = EndedPc(w) /\ pc[w] = "exit"
      BY <2>7 DEF ExitFlush, ghostVars
    <3>2. \A i \in Items : (pc'[i] = "queued") <=> (pc[i] = "queued")
      BY <3>1, <1>0 DEF EndedPc, WaitsMatch
    <3>3. \A v \in Workers : (pc'[v] = "done") <=> (pc[v] = "done")
      BY <3>1, <1>0 DEF EndedPc, WaitsMatch
    <3>4. QED
      BY <3>1, <3>2, <3>3, <1>a
  <2>8. QED
    BY <1>8, <2>1, <2>2, <2>3, <2>4, <2>5, <2>6, <2>7 DEF WorkerStep
<1>9. QED
  BY <1>1, <1>2, <1>3, <1>4, <1>5, <1>6, <1>7, <1>8 DEF Next, Flush

\* A queue at rest: no worker lives.
Resting == flushTask = NoTask /\ loop \notin Workers

LEMMA WakeupStep ==
    TypeOK /\ WaitsMatch /\ SingleWorker /\ Wakeup /\ Next => Wakeup'
<1> SUFFICES ASSUME TypeOK, WaitsMatch, SingleWorker, Wakeup, Next PROVE Wakeup'
  OBVIOUS
<1> USE TasksDisjoint
<1>0. Items \subseteq Tasks /\ FlushCallers \subseteq Tasks /\ Closer \in Tasks /\ Workers \subseteq Tasks
  BY DEF Tasks, Clients
<1>a. Wakeup = /\ Resting /\ ~closed /\ pending # {} => timer = EarliestDue(pending, dueIn)
               /\ timer # NoTimer => Resting /\ ~closed /\ pending # {}
  BY DEF Wakeup, Resting
<1>b. ASSUME UNCHANGED <<pending, dueIn, timer, closed>>, Resting' <=> Resting PROVE Wakeup'
  BY <1>a, <1>b DEF Wakeup, Resting
\* Steps of the living worker: there was no timer, there is none.
<1>c. ASSUME NEW w \in Workers, Alive(w), UNCHANGED <<timer>>, ~Resting' PROVE Wakeup'
  <2>1. ~Resting
    BY <1>c DEF SingleWorker, Resting
  <2>2. timer' = NoTimer
    BY <1>a, <1>c, <2>1
  <2>3. QED
    BY <1>c, <2>2 DEF Wakeup, Resting
<1>1. ASSUME NEW t \in Tasks, Block(t) PROVE Wakeup'
  <2>1. CASE t \in Workers
    <3>1. Alive(t) /\ UNCHANGED timer /\ flushTask' # NoTask
      BY <1>1, <2>1, <1>0 DEF Block, WantsLock, TaskOnSuspend, Clients, Alive
    <3>2. QED
      BY <2>1, <3>1, <1>c DEF Resting
  <2>2. CASE t \notin Workers
    <3>1. loop \notin Workers /\ loop' \notin Workers /\ flushTask' = flushTask
      BY <1>1, <2>2, ClientHasLoop DEF Block, TaskOnSuspend
    <3>2. QED
      BY <1>1, <3>1, <1>b DEF Block, Resting
  <2>3. QED
    BY <2>1, <2>2
<1>2. ASSUME NEW i \in Items, Enqueue(i) PROVE Wakeup'
  <2>1. i \notin Workers /\ loop \notin Workers /\ loop' \notin Workers /\ flushTask' = flushTask /\ closed' = closed
    BY <1>2, ClientHasLoop DEF Enqueue
  <2>2. CASE closed
    BY <1>2, <2>1, <2>2, <1>b DEF Enqueue, Resting
  <2>3. CASE ~closed
    <3>1. pending' # {} /\ timer' = ScheduleFlush(closed, pending', dueIn', flushTask)
      BY <1>2, <2>3 DEF Enqueue
    <3>2. QED
      BY <2>1, <2>3, <3>1 DEF ScheduleFlush, Wakeup
  <2>4. QED
    BY <2>2, <2>3
<1>3. ASSUME NEW t \in FlushCallers \cup {Closer}, FlushNow(t) PROVE Wakeup'
  <2>1. timer' = NoTimer /\ pending' = pending
    BY <1>3 DEF FlushNow
  <2>2. flushTask' # NoTask \/ pending = {}
    BY <1>3 DEF FlushNow, MayStart
  <2>3. QED
    BY <2>1, <2>2 DEF Wakeup
<1>4. CASE CloseQueue
  BY <1>4 DEF CloseQueue, Wakeup
<1>5. ASSUME NEW f \in FlushCallers, CancelCaller(f) PROVE Wakeup'
  BY <1>5, <1>b DEF CancelCaller, queueVars, Resting
<1>6. CASE TimerFires
  <2>1. timer # NoTimer /\ timer' = NoTimer
    BY <1>6 DEF TimerFires, NoTimer
  <2>2. MayStart(pending)
    BY <1>a, <2>1 DEF MayStart, Resting
  <2>3. PICK w \in Workers : /\ loop' = IF Eager THEN w ELSE NoTask
                             /\ flushTask' = IF Eager THEN flushTask ELSE w
    BY <1>6, <2>2 DEF TimerFires
  <2>4. QED
    BY <2>1, <2>3, TimesAssumption DEF Wakeup
<1>7. CASE Tick
  <2>1. /\ UNCHANGED <<pending, flushTask, closed, loop>>
        /\ timer' = IF timer > 0 THEN timer - 1 ELSE timer
        /\ \A i \in Items : dueIn'[i] = IF i \in pending /\ dueIn[i] > 0 THEN dueIn[i] - 1 ELSE dueIn[i]
    BY <1>7 DEF Tick, taskVars
  <2>2. timer' # NoTimer <=> timer # NoTimer
    BY <2>1 DEF TypeOK, NoTimer
  <2>3. ASSUME Resting, ~closed, pending # {}
        PROVE  timer' = EarliestDue(pending, dueIn')
    <3>1. pending \subseteq Items /\ \A i \in pending : dueIn[i] \in Nat /\ dueIn'[i] \in Nat
      BY <2>1 DEF TypeOK
    <3>2. timer = EarliestDue(pending, dueIn)
      BY <1>a, <2>3
    <3>3. /\ timer \in Nat
          /\ \A i \in pending : timer <= dueIn[i]
          /\ \E i \in pending : timer = dueIn[i]
      BY <2>3, <3>1, <3>2, EarliestDueIsLeast
    <3>4. /\ timer' \in Nat
          /\ \A i \in pending : timer' <= dueIn'[i]
          /\ \E i \in pending : timer' = dueIn'[i]
      BY <2>1, <3>1, <3>3
    <3>5. QED
      BY <2>3, <3>1, <3>4, EarliestDueUnique
  <2>4. QED
    BY <1>a, <2>1, <2>2, <2>3 DEF Wakeup, Resting
<1>8. ASSUME NEW w \in Workers, WorkerStep(w) PROVE Wakeup'
  <2>1. CASE Pick(w) \/ Complete(w) \/ Fail(w) \/ RemoveBatch(w) \/ RetryBatch(w)
    <3>1. Alive(w) /\ UNCHANGED timer /\ loop' = w
      BY <2>1 DEF Pick, Complete, Fail, RemoveBatch, RetryBatch, queueVars, Alive
    <3>2. QED
      BY <3>1, <1>c DEF Resting
  <2>2. CASE Suspend(w)
    <3>1. Alive(w) /\ UNCHANGED timer /\ flushTask' # NoTask
      BY <2>2 DEF Suspend, TaskOnSuspend, Alive
    <3>2. QED
      BY <3>1, <1>c DEF Resting
  <2>3. CASE ExitFlush(w)
    <3>1. /\ UNCHANGED <<pending, dueIn, closed>> /\ flushTask' = NoTask /\ loop' = NoTask
          /\ timer' = ScheduleFlush(closed, pending, dueIn, NoTask)
      BY <2>3 DEF ExitFlush
    <3>2. QED
      BY <3>1 DEF ScheduleFlush, Wakeup
  <2>4. QED
    BY <1>8, <2>1, <2>2, <2>3 DEF WorkerStep
<1>9. QED
  BY <1>1, <1>2, <1>3, <1>4, <1>5, <1>6, <1>7, <1>8 DEF Next, Flush

LEMMA NextIInv == IInv /\ [Next]_vars => IInv'
<1> SUFFICES ASSUME IInv, [Next]_vars PROVE IInv'
  OBVIOUS
<1>1. CASE Next
  BY <1>1, NextType, WaitsMatchStep, SingleWorkerStep, BatchPendingStep, RetainedStep, WakeupStep DEF IInv
<1>2. CASE UNCHANGED vars
  <2>1. TypeOK'
    BY <1>2, NextType DEF IInv
  <2>2. WaitsMatch' /\ SingleWorker' /\ BatchPending'
    BY <1>2 DEF IInv, WaitsMatch, SingleWorker, Alive, BatchPending, vars, queueVars, taskVars, ghostVars
  <2>3. Retained' /\ Wakeup'
    BY <1>2 DEF IInv, Retained, Wakeup, vars, queueVars, taskVars, ghostVars
  <2>4. QED
    BY <2>1, <2>2, <2>3 DEF IInv
<1>3. QED
  BY <1>1, <1>2

LEMMA Inductive == Spec => []IInv
<1>1. Init => IInv
  BY InitIInv
<1>2. IInv /\ [Next]_vars => IInv'
  BY NextIInv
<1>3. QED
  BY <1>1, <1>2, PTL DEF Spec

-----------------------------------------------------------------------------
\* At most one delivery worker lives, and _flush_task names it as soon as it
\* has suspended: a second one is never started, a finished one never kept.
THEOREM SingleWorkerAlways == Spec => []SingleWorker
<1>1. IInv => SingleWorker
  BY DEF IInv
<1>2. QED
  BY <1>1, Inductive, PTL

\* An open queue that holds anything has a living worker or a timer set for
\* its earliest deadline: no interleaving of enqueue, flush, early timers,
\* failures and worker exits strands a notification.
THEOREM NoLostWakeup == Spec => []Wakeup
<1>1. IInv => Wakeup
  BY DEF IInv
<1>2. QED
  BY <1>1, Inductive, PTL

\* An accepted notification is in the queue until its batch was processed
\* without error, and is processed exactly once.
THEOREM NothingLostNothingTwice == Spec => [](Retained /\ BatchPending)
<1>1. IInv => Retained /\ BatchPending
  BY DEF IInv
<1>2. QED
  BY <1>1, Inductive, PTL

-----------------------------------------------------------------------------
(* The queue implements the reliable queue.                                *)

\* Arrival numbers order the accepted notifications.
QueuedItems == {i \in Items : pc[i] = "queued"}
ArrivalOrder ==
    /\ \A i \in QueuedItems : arrival[i] <= Cardinality(QueuedItems)
    /\ \A i, j \in QueuedItems : arrival[i] = arrival[j] => i = j

LEMMA ArrivalOrderStep == TypeOK /\ WaitsMatch /\ ArrivalOrder /\ [Next]_vars => ArrivalOrder'
<1> SUFFICES ASSUME TypeOK, WaitsMatch, ArrivalOrder, [Next]_vars PROVE ArrivalOrder'
  OBVIOUS
<1> USE TasksDisjoint
<1>0. Items \subseteq Tasks /\ FlushCallers \subseteq Tasks /\ Closer \in Tasks /\ Workers \subseteq Tasks
  BY DEF Tasks, Clients
<1>a. ASSUME arrival' = arrival, \A i \in Items : (pc'[i] = "queued") <=> (pc[i] = "queued")
      PROVE  ArrivalOrder'
  <2>1. QueuedItems' = QueuedItems
    BY <1>a DEF QueuedItems
  <2>2. QED
    BY <1>a, <2>1 DEF ArrivalOrder
<1>1. ASSUME NEW i \in Items, Enqueue(i) PROVE ArrivalOrder'
  <2>1. CASE closed
    BY <1>1, <2>1, <1>0, <1>a DEF Enqueue, TypeOK
  <2>2. CASE ~closed
    <3> DEFINE n == Cardinality(QueuedItems)
    <3>1. /\ pc' = [pc EXCEPT ![i] = "queued"] /\ pc[i] = "new"
          /\ arrival' = [arrival EXCEPT ![i] = n + 1]
      BY <1>1, <2>2 DEF Enqueue, QueuedItems
    <3>2. QueuedItems' = QueuedItems \cup {i} /\ i \notin QueuedItems
      BY <3>1, <1>0 DEF QueuedItems, TypeOK
    <3>3. IsFiniteSet(QueuedItems)
      BY ItemsAssumption, FS_Subset DEF QueuedItems
    <3>4. n \in Nat /\ Cardinality(QueuedItems') = n + 1
      BY <3>2, <3>3, FS_CardinalityType, FS_AddElement
    <3>5. \A j \in QueuedItems' : arrival'[j] = IF j = i THEN n + 1 ELSE arrival[j]
      BY <3>1, <3>2 DEF TypeOK, QueuedItems
    <3>6. \A j \in QueuedItems : arrival[j] \in Nat /\ arrival[j] <= n
      BY DEF ArrivalOrder, TypeOK, QueuedItems
    <3>7. \A j \in QueuedItems' : arrival'[j] <= n + 1
      BY <3>2, <3>4, <3>5, <3>6
    <3>8. \A j, k \in QueuedItems' : arrival'[j] = arrival'[k] => j = k
      BY <3>2, <3>4, <3>5, <3>6 DEF ArrivalOrder
    <3>9. QED
      BY <3>4, <3>7, <3>8 DEF ArrivalOrder
  <2>3. QED
    BY <2>1, <2>2
<1>2. ASSUME NEW t \in FlushCallers \cup {Closer}, FlushNow(t) PROVE ArrivalOrder'
  <2>1. t \notin Items /\ arrival' = arrival
    BY <1>2 DEF FlushNow
  <2>2. \A i \in Items : pc'[i] = pc[i]
    <3>1. CASE MayStart(pending)
      BY <1>2, <1>0, <2>1, <3>1 DEF FlushNow, TypeOK
    <3>2. CASE ~MayStart(pending)
      BY <1>2, <1>0, <2>1, <3>2 DEF FlushNow, TypeOK
    <3>3. QED
      BY <3>1, <3>2
  <2>3. QED
    BY <2>1, <2>2, <1>a
<1>3. ASSUME NEW w \in Workers, ExitFlush(w) PROVE ArrivalOrder'
  <2>1. arrival' = arrival /\ pc' = EndedPc(w)
    BY <1>3 DEF ExitFlush
  <2>2. \A i \in Items : pc'[i] = pc[i]
    BY <2>1, <1>0 DEF EndedPc, WaitsMatch
  <2>3. QED
    BY <2>1, <2>2, <1>a
<1>4. ASSUME NEW w \in Workers, WorkerStep(w), ~ExitFlush(w) PROVE ArrivalOrder'
  <2>1. arrival' = arrival /\ \A i \in Items : pc'[i] = pc[i]
    BY <1>4, <1>0 DEF WorkerStep, Pick, Suspend, Complete, Fail, RemoveBatch, RetryBatch, queueVars, TypeOK
  <2>2. QED
    BY <2>1, <1>a
<1>5. ASSUME NEW t \in Tasks, Block(t) PROVE ArrivalOrder'
  BY <1>5, <1>a DEF Block
<1>6. ASSUME NEW f \in FlushCallers, CancelCaller(f) PROVE ArrivalOrder'
  BY <1>6, <1>0, <1>a DEF CancelCaller, queueVars, TypeOK
<1>7. CASE CloseQueue \/ TimerFires \/ Tick \/ UNCHANGED vars
  <2>1. arrival' = arrival /\ \A i \in Items : pc'[i] = pc[i]
    BY <1>7, <1>0 DEF CloseQueue, TimerFires, Tick, vars, queueVars, taskVars, TypeOK
  <2>2. QED
    BY <2>1, <1>a
<1>8. QED
  BY <1>1, <1>2, <1>3, <1>4, <1>5, <1>6, <1>7 DEF Next, Flush

LEMMA ArrivalOrderAlways == Spec => []ArrivalOrder
<1>1. Init => ArrivalOrder
  <2>1. ASSUME Init PROVE QueuedItems = {}
    <3>1. Items \subseteq Tasks
      BY DEF Tasks, Clients
    <3>2. QED
      BY <2>1, <3>1, TasksDisjoint DEF Init, QueuedItems
  <2>2. QED
    BY <2>1 DEF ArrivalOrder
<1>2. TypeOK /\ WaitsMatch /\ ArrivalOrder /\ [Next]_vars => ArrivalOrder'
  BY ArrivalOrderStep
<1>3. IInv => TypeOK /\ WaitsMatch
  BY DEF IInv
<1>4. QED
  BY <1>1, <1>2, <1>3, Inductive, PTL DEF Spec

-----------------------------------------------------------------------------
(* Shutdown.  As long as nobody but async_shutdown calls async_flush_now,  *)
(* nobody ever waits for the lock before it does; so that no worker stands *)
(* between its last batch and its end when everything is made due, and the *)
(* one that async_shutdown waits for sees all of it.                       *)

Wired == \A f \in FlushCallers : pc[f] = "new"

\* The worker w has all that is pending before it, or has failed.
SeesAll(w) ==
    \/ err[w]
    \/ pc[w] # "fail" /\ (pc[w] = "exit" => pending = {}) /\ \A i \in pending : dueIn[i] = 0

Ending ==
    /\ pc[Closer] \in {"new", "flush", "wait", "returned", "raised"}
    /\ closed <=> pc[Closer] # "new"
    /\ Wired =>
          /\ pc[Closer] \in {"new", "flush"} =>
                waiters = <<>> /\ \A w \in Workers : pc[w] \in {"done", "fail", "exit"} => loop = w
          /\ pc[Closer] = "flush" => loop = Closer
          /\ pc[Closer] = "wait" =>
                awaits[Closer] \in Workers /\ Alive(awaits[Closer]) /\ SeesAll(awaits[Closer])
          /\ pc[Closer] = "returned" => pending = {}

\* When everything pending is due, some of it is picked.
LEMMA AllDueIsPicked ==
    ASSUME TypeOK, \A i \in pending : dueIn[i] = 0, pending # {}
    PROVE  NextDueGroup # {}
<1>1. \A i \in pending : arrival[i] \in Nat
  BY DEF TypeOK
<1>2. PICK i \in pending : \A j \in pending : arrival[i] <= arrival[j]
  BY <1>1, EarliestDueIsLeast
<1>3. GroupDue(i)
  BY DEF GroupDue
<1>4. i \in NextDueGroup
  BY <1>2, <1>3 DEF NextDueGroup
<1>. QED
  BY <1>4

LEMMA ShutdownFlushes ==
    ASSUME TypeOK, WaitsMatch, SingleWorker, Ending, FlushNow(Closer)
    PROVE  Ending'
<1>. USE TasksDisjoint
<1>0. Items \subseteq Tasks /\ FlushCallers \subseteq Tasks /\ Closer \in Tasks /\ Workers \subseteq Tasks
  BY DEF Tasks, Clients
<1>1. pc[Closer] = "flush" /\ closed /\ UNCHANGED <<closed, pending, err>>
  BY DEF FlushNow, Ending
<1>2. \A i \in pending : dueIn'[i] = 0
  BY DEF FlushNow, MakeDue, TypeOK
<1>3. CASE MayStart(pending)
  <2>1. PICK w \in Workers : /\ pc[w] = "idle" /\ pc' = [pc EXCEPT ![w] = "pick", ![Closer] = "wait"]
                             /\ awaits' = [awaits EXCEPT ![Closer] = w]
    BY <1>3 DEF FlushNow, AwaitWorker
  <2>2. pc'[Closer] = "wait" /\ pc'[w] = "pick" /\ awaits'[Closer] = w
    BY <1>0, <2>1 DEF TypeOK
  <2>. QED
    BY <1>1, <1>2, <2>1, <2>2 DEF Ending, SeesAll, Alive
<1>4. CASE ~MayStart(pending) /\ flushTask = NoTask
  <2>1. pending = {} /\ pc'[Closer] = "returned"
    BY <1>0, <1>4 DEF FlushNow, MayStart, TypeOK
  <2>. QED
    BY <1>1, <2>1 DEF Ending
<1>5. CASE ~MayStart(pending) /\ flushTask # NoTask
  <2>1. /\ pc' = [pc EXCEPT ![Closer] = "wait"] /\ awaits' = [awaits EXCEPT ![Closer] = flushTask]
    BY <1>5 DEF FlushNow, AwaitWorker
  <2>2. flushTask \in Workers /\ Alive(flushTask)
    BY <1>5 DEF SingleWorker, TypeOK
  <2>3. pc'[Closer] = "wait" /\ awaits'[Closer] = flushTask /\ pc'[flushTask] = pc[flushTask]
    BY <1>0, <2>1, <2>2 DEF TypeOK
  <2>4. Wired' => Wired
    BY <1>0, <2>1 DEF Wired, TypeOK
  <2>5. Wired => pc[flushTask] \notin {"done", "fail", "exit"}
    BY <1>1, <2>2 DEF Ending
  <2>. QED
    BY <1>1, <1>2, <2>2, <2>3, <2>4, <2>5 DEF Ending, SeesAll, Alive
<1>. QED
  BY <1>3, <1>4, <1>5

\* A worker's step leaves the calls alone, save at its end.
LEMMA WorkerEnding ==
    ASSUME TypeOK, SingleWorker, Ending, NEW w \in Workers, WorkerStep(w), ~ExitFlush(w)
    PROVE  Ending'
<1>. USE TasksDisjoint
<1>0. Items \subseteq Tasks /\ FlushCallers \subseteq Tasks /\ Closer \in Tasks /\ Workers \subseteq Tasks
  BY DEF Tasks, Clients
<1>1. /\ UNCHANGED <<closed, awaits>> /\ pc'[Closer] = pc[Closer] /\ Wired' = Wired
      /\ \A v \in Workers : v # w => pc'[v] = pc[v]
      /\ pc'[w] # "idle" /\ pc[w] # "idle" /\ pending' \subseteq pending
  BY <1>0 DEF WorkerStep, Pick, Suspend, Complete, Fail, RemoveBatch, RetryBatch, queueVars, TypeOK, Wired
<1>2. \A v \in Workers : v # w => pc[v] = "idle"
  BY <1>1 DEF SingleWorker, Alive
<1>3. ASSUME Wired, pc[Closer] \in {"new", "flush"}
      PROVE  waiters' = <<>> /\ (pc'[w] \in {"done", "fail", "exit"} => loop' = w) /\ (pc[Closer] = "flush" => FALSE)
  <2>1. waiters = <<>> /\ Behind(w) = <<>>
    BY <1>3 DEF Ending, Behind
  <2>2. waiters' = <<>> /\ (pc'[w] \in {"done", "fail", "exit"} => loop' = w)
    BY <2>1, <1>0 DEF WorkerStep, Pick, Suspend, Complete, Fail, RemoveBatch, RetryBatch, TypeOK
  <2>3. loop \in {NoTask, w}
    BY <2>1 DEF WorkerStep, Pick, Suspend, Complete, Fail, RemoveBatch, RetryBatch, Enters
  <2>. QED
    BY <1>3, <2>2, <2>3 DEF Ending
<1>4. ASSUME Wired, pc[Closer] = "wait"
      PROVE  SeesAll(w)'
  <2>1. awaits[Closer] = w /\ SeesAll(w)
    BY <1>2, <1>4 DEF Ending, Alive
  <2>2. CASE err[w]
    <3>1. err'[w]
      BY <2>2 DEF WorkerStep, Pick, Suspend, Complete, Fail, RemoveBatch, RetryBatch, TypeOK
    <3>. QED
      BY <3>1 DEF SeesAll
  <2>3. CASE ~err[w]
    <3>1. pc[w] # "fail" /\ \A i \in pending : dueIn[i] = 0
      BY <2>1, <2>3 DEF SeesAll
    <3>2. CASE Pick(w)
      <4>1. UNCHANGED <<pending, dueIn>> /\ pc'[w] = IF NextDueGroup = {} THEN "exit" ELSE "deliver"
        BY <1>0, <3>2 DEF Pick, queueVars, TypeOK
      <4>2. pending # {} => NextDueGroup # {}
        BY <3>1, AllDueIsPicked
      <4>. QED
        BY <3>1, <4>1, <4>2 DEF SeesAll
    <3>3. CASE Fail(w)
      <4>1. err'[w]
        BY <3>3 DEF Fail, TypeOK
      <4>. QED
        BY <4>1 DEF SeesAll
    <3>4. CASE Suspend(w) \/ Complete(w) \/ RemoveBatch(w)
      <4>1. dueIn' = dueIn /\ pc'[w] \in {"deliver", "done", "pick"}
        BY <1>0, <3>4 DEF Suspend, Complete, RemoveBatch, queueVars, TypeOK
      <4>. QED
        BY <1>1, <3>1, <4>1 DEF SeesAll
    <3>5. ~RetryBatch(w)
      BY <3>1 DEF RetryBatch
    <3>. QED
      BY <3>2, <3>3, <3>4, <3>5 DEF WorkerStep
  <2>. QED
    BY <2>2, <2>3
<1>5. Wired /\ pc[Closer] = "wait" => awaits[Closer] = w
  BY <1>2 DEF Ending, Alive
<1>6. \A v \in Workers : pc'[v] \in {"done", "fail", "exit"} => v = w
  BY <1>1, <1>2
<1>. QED
  BY <1>1, <1>3, <1>4, <1>5, <1>6 DEF Ending, Alive

LEMMA EndingStep ==
    ASSUME TypeOK, WaitsMatch, SingleWorker, Ending, [Next]_vars
    PROVE  Ending'
<1>. USE TasksDisjoint
<1>0. Items \subseteq Tasks /\ FlushCallers \subseteq Tasks /\ Closer \in Tasks /\ Workers \subseteq Tasks
  BY DEF Tasks, Clients
<1>1. ASSUME NEW t \in Tasks, Block(t) PROVE Ending'
  <2>1. UNCHANGED <<pending, dueIn, closed, pc, err, awaits>> /\ waiters # <<>> /\ (Wired' <=> Wired)
    BY <1>1 DEF Block, Wired
  <2>. QED
    BY <2>1 DEF Ending, SeesAll, Alive
<1>2. ASSUME NEW i \in Items, Enqueue(i) PROVE Ending'
  <2>1. /\ UNCHANGED <<closed, err, awaits>> /\ pc'[Closer] = pc[Closer] /\ (Wired' <=> Wired)
        /\ \A w \in Workers : pc'[w] = pc[w]
    BY <1>0, <1>2 DEF Enqueue, TypeOK, Wired
  <2>2. closed => UNCHANGED <<pending, dueIn>>
    BY <1>2 DEF Enqueue
  <2>3. ASSUME Wired, pc[Closer] \in {"new", "flush"}
        PROVE  waiters' = <<>> /\ pc[Closer] = "new" /\ \A w \in Workers : pc[w] \notin {"done", "fail", "exit"}
    <3>1. waiters = <<>> /\ Behind(i) = <<>>
      BY <2>3 DEF Ending, Behind
    <3>2. loop \in {NoTask, i}
      BY <1>2, <3>1 DEF Enqueue, Enters
    <3>. QED
      BY <1>2, <2>3, <3>1, <3>2 DEF Enqueue, Ending
  <2>. QED
    BY <2>1, <2>2, <2>3 DEF Ending, SeesAll, Alive
<1>3. ASSUME NEW t \in FlushCallers, FlushNow(t) PROVE Ending'
  <2>1. /\ UNCHANGED closed /\ pc'[Closer] = pc[Closer] /\ pc'[t] # "new"
    BY <1>0, <1>3 DEF FlushNow, TypeOK, AwaitWorker
  <2>. QED
    BY <2>1 DEF Ending, Wired
<1>4. CASE CloseQueue
  <2>1. /\ UNCHANGED <<pending, dueIn, err, awaits>> /\ pc[Closer] = "new" /\ pc'[Closer] = "flush" /\ closed'
        /\ loop' = Closer /\ \A t \in Tasks : t # Closer => pc'[t] = pc[t]
    BY <1>0, <1>4 DEF CloseQueue, TypeOK
  <2>2. Wired' => Wired
    BY <1>0, <2>1 DEF Wired
  <2>3. ASSUME Wired
        PROVE  waiters' = <<>> /\ \A w \in Workers : pc[w] \notin {"done", "fail", "exit"}
    <3>1. waiters = <<>> /\ Behind(Closer) = <<>>
      BY <2>1, <2>3 DEF Ending, Behind
    <3>2. loop \in {NoTask, Closer}
      BY <1>4, <3>1 DEF CloseQueue, Enters
    <3>. QED
      BY <1>4, <2>1, <2>3, <3>1, <3>2 DEF CloseQueue, Ending
  <2>. QED
    BY <1>0, <2>1, <2>2, <2>3 DEF Ending
<1>5. ASSUME NEW f \in FlushCallers, CancelCaller(f) PROVE Ending'
  <2>1. UNCHANGED closed /\ pc'[Closer] = pc[Closer] /\ pc'[f] # "new"
    BY <1>0, <1>5 DEF CancelCaller, queueVars, TypeOK
  <2>. QED
    BY <2>1 DEF Ending, Wired
<1>6. CASE TimerFires
  <2>1. /\ UNCHANGED <<pending, dueIn, closed, waiters, err, awaits>> /\ loop = NoTask
        /\ \A t \in Tasks : pc'[t] = pc[t] \/ (t \in Workers /\ pc[t] = "idle" /\ pc'[t] = "pick")
    BY <1>0, <1>6 DEF TimerFires, TypeOK
  <2>2. pc'[Closer] = pc[Closer] /\ (Wired' <=> Wired)
    BY <1>0, <2>1 DEF Wired
  <2>. QED
    BY <1>0, <2>1, <2>2 DEF Ending, SeesAll, Alive
<1>7. CASE Tick
  <2>1. /\ UNCHANGED <<pending, closed, waiters, loop, pc, err, awaits>> /\ (Wired' <=> Wired)
        /\ \A i \in pending : dueIn[i] = 0 => dueIn'[i] = 0
    BY <1>7 DEF Tick, taskVars, Wired, TypeOK
  <2>. QED
    BY <2>1 DEF Ending, SeesAll, Alive
<1>8. ASSUME NEW w \in Workers, ExitFlush(w) PROVE Ending'
  <2>1. /\ UNCHANGED <<pending, dueIn, closed>> /\ pc[w] = "exit" /\ pc' = EndedPc(w)
        /\ waiters' = Behind(w) /\ Enters(w) /\ loop' = NoTask
    BY <1>8 DEF ExitFlush
  <2>2. \A v \in Workers : v # w => pc[v] = "idle"
    BY <2>1 DEF SingleWorker, Alive
  <2>3. \A v \in Workers : pc'[v] = "idle"
    BY <1>0, <2>1, <2>2 DEF EndedPc, WaitsMatch
  <2>4. /\ awaits[Closer] = w => pc[Closer] = "wait" /\ pc'[Closer] = IF err[w] THEN "raised" ELSE "returned"
        /\ awaits[Closer] # w => pc'[Closer] = pc[Closer]
    BY <1>0, <2>1 DEF EndedPc, WaitsMatch
  <2>5. Wired' => Wired
    BY <1>0, <2>1 DEF Wired, EndedPc
  <2>6. ASSUME Wired, pc[Closer] \in {"new", "flush"}
        PROVE  waiters' = <<>> /\ pc[Closer] = "new"
    <3>1. waiters = <<>> /\ Behind(w) = <<>>
      BY <2>6 DEF Ending, Behind
    <3>2. loop \in {NoTask, w}
      BY <2>1, <3>1 DEF Enters
    <3>. QED
      BY <2>1, <2>6, <3>1, <3>2 DEF Ending
  <2>7. ASSUME Wired, pc[Closer] = "wait"
        PROVE  awaits[Closer] = w /\ (err[w] \/ pending = {})
    BY <2>1, <2>2, <2>7 DEF Ending, Alive, SeesAll
  <2>. QED
    BY <2>1, <2>3, <2>4, <2>5, <2>6, <2>7 DEF Ending
<1>9. CASE UNCHANGED vars
  BY <1>9 DEF vars, queueVars, taskVars, Ending, Wired, SeesAll, Alive
<1>. QED
  BY <1>1, <1>2, <1>3, <1>4, <1>5, <1>6, <1>7, <1>8, <1>9, ShutdownFlushes, WorkerEnding DEF Next, Flush, WorkerStep

\* When async_shutdown, the only one to flush, returns without an error, the
\* queue is empty and stays so, for any number of notifications and groups.
THEOREM ShutdownEmptiesTheQueue == Spec => []WiredShutdownFinishes
<1>1. Init => Ending
  BY TasksDisjoint DEF Init, Ending, Tasks, Clients
<1>2. IInv /\ Ending /\ [Next]_vars => Ending'
  BY EndingStep DEF IInv
<1>3. Ending => WiredShutdownFinishes
  BY DEF Ending, Wired, WiredShutdownFinishes, ShutdownFinishes
<1>. QED
  BY <1>1, <1>2, <1>3, Inductive, PTL DEF Spec

-----------------------------------------------------------------------------
(* NotificationQueue implements ReliableQueue.                             *)

RInv == IInv /\ ArrivalOrder

\* The status of a notification when none is lost.
PlainStatusOf(i) ==
    IF pc[i] # "queued" THEN pc[i]
    ELSE IF InFlight(i) THEN "inflight"
    ELSE IF processed[i] > 0 THEN "delivered"
    ELSE "pending"

\* A step that changes no notification's status and does not close the queue
\* is a stuttering step of the reliable queue.
LEMMA Stutter ==
    ASSUME UNCHANGED closed, \A i \in Items : StatusOf(i)' = StatusOf(i)
    PROVE  UNCHANGED Reliable!vars
<1>1. [i \in Items |-> StatusOf(i)]' = [i \in Items |-> StatusOf(i)]
  OBVIOUS
<1>2. QED
  BY <1>1 DEF Reliable!vars

\* Nothing is lost in a state of the invariant, nor in the next one.
LEMMA StatusPlain ==
    ASSUME RInv, NEW i \in Items
    PROVE  StatusOf(i) = PlainStatusOf(i)
<1>1. pc[i] = "queued" => i \in pending \/ processed[i] = 1
  BY DEF RInv, IInv, Retained
<1>2. QED
  BY <1>1 DEF StatusOf, PlainStatusOf

LEMMA StatusPlainNext ==
    ASSUME RInv', NEW i \in Items
    PROVE  StatusOf(i)' = PlainStatusOf(i)'
<1>1. pc'[i] = "queued" => i \in pending' \/ processed'[i] = 1
  BY DEF RInv, IInv, Retained
<1>2. QED
  BY <1>1 DEF StatusOf, PlainStatusOf

\* So is a step that leaves alone what the status is computed from.
LEMMA StutterVars ==
    ASSUME RInv, RInv', UNCHANGED <<closed, batch, processed>>, \A i \in Items : pc'[i] = pc[i],
           \A w \in Workers : pc'[w] = "deliver" <=> pc[w] = "deliver"
    PROVE  UNCHANGED Reliable!vars
<1>1. ASSUME NEW i \in Items PROVE StatusOf(i)' = StatusOf(i)
  <2>1. InFlight(i)' <=> InFlight(i)
    BY DEF InFlight
  <2>2. QED
    BY <2>1, StatusPlain, StatusPlainNext DEF PlainStatusOf
<1>2. QED
  BY <1>1, Stutter

\* The status seen from a state of the invariant.
LEMMA StatusFacts ==
    ASSUME RInv, NEW i \in Items
    PROVE  /\ StatusOf(i) = "new" <=> pc[i] = "new"
           /\ StatusOf(i) = "inflight" <=> InFlight(i)
           /\ InFlight(i) => pc[i] = "queued" /\ processed[i] = 0
           /\ StatusOf(i) = "pending" <=>
                 pc[i] = "queued" /\ processed[i] = 0 /\ ~InFlight(i)
           /\ processed[i] \in {0, 1}
<1>1. pc[i] \in {"new", "queued", "rejected"}
  BY DEF RInv, IInv, WaitsMatch
<1>2. processed[i] \in {0, 1}
  BY DEF RInv, IInv, Retained
<1>3. ASSUME InFlight(i) PROVE pc[i] = "queued" /\ processed[i] = 0
  <2>1. PICK w \in Workers : pc[w] = "deliver" /\ i \in batch[w]
    BY <1>3 DEF InFlight
  <2>2. i \in pending
    BY <2>1 DEF RInv, IInv, BatchPending
  <2>3. \A v \in Workers : pc[v] # "done"
    BY <2>1 DEF RInv, IInv, SingleWorker, Alive
  <2>4. QED
    BY <2>2, <2>3 DEF RInv, IInv, Retained
<1>4. QED
  BY <1>1, <1>2, <1>3, StatusPlain DEF PlainStatusOf

LEMMA InitRefines == Init => Reliable!Init
<1> SUFFICES ASSUME Init PROVE Reliable!Init
  OBVIOUS
<1>1. Items \subseteq Tasks
  BY DEF Tasks, Clients
<1>2. \A i \in Items : StatusOf(i) = "new"
  BY <1>1, TasksDisjoint DEF Init, StatusOf
<1>3. QED
  BY <1>2 DEF Reliable!Init, Init

\* The batch a worker picks is the whole of one group.
LEMMA PickIsGroup ==
    ASSUME RInv, NEW i \in NextDueGroup
    PROVE  NextDueGroup = {j \in pending : Group[j] = Group[i]}
<1>1. PICK first \in pending : /\ Group[first] = Group[i]
                               /\ GroupDue(first)
                               /\ \A j \in pending : GroupDue(j) => arrival[first] <= arrival[j]
  BY DEF NextDueGroup
<1>2. pending \subseteq QueuedItems
  BY DEF RInv, IInv, TypeOK, Retained, QueuedItems
<1>3. ASSUME NEW other \in pending, GroupDue(other),
             \A j \in pending : GroupDue(j) => arrival[other] <= arrival[j]
      PROVE  other = first
  <2>1. arrival[other] <= arrival[first] /\ arrival[first] <= arrival[other]
    BY <1>1, <1>3
  <2>2. arrival[other] \in Nat /\ arrival[first] \in Nat
    BY <1>2 DEF RInv, IInv, TypeOK, QueuedItems
  <2>3. QED
    BY <1>2, <2>1, <2>2 DEF RInv, ArrivalOrder
<1>4. \A j \in NextDueGroup : Group[j] = Group[i]
  BY <1>1, <1>3 DEF NextDueGroup
<1>5. \A j \in pending : Group[j] = Group[i] => j \in NextDueGroup
  BY <1>1 DEF NextDueGroup
<1>6. QED
  BY <1>4, <1>5 DEF NextDueGroup

LEMMA NextRefines == RInv /\ RInv' /\ [Next]_vars => [Reliable!Next]_Reliable!vars
<1> SUFFICES ASSUME RInv, RInv', [Next]_vars PROVE Reliable!Next \/ UNCHANGED Reliable!vars
  OBVIOUS
<1> USE TasksDisjoint
<1> DEFINE status == [i \in Items |-> StatusOf(i)]
<1>0. Items \subseteq Tasks /\ FlushCallers \subseteq Tasks /\ Closer \in Tasks /\ Workers \subseteq Tasks
  BY DEF Tasks, Clients
<1>t. TypeOK /\ WaitsMatch /\ SingleWorker /\ BatchPending /\ Retained
  BY DEF RInv, IInv
<1>p. \A i \in Items : StatusOf(i) = PlainStatusOf(i)
  BY StatusPlain
<1>q. \A i \in Items : StatusOf(i)' = PlainStatusOf(i)'
  BY StatusPlainNext
<1>1. ASSUME NEW t \in Tasks, Block(t) PROVE UNCHANGED Reliable!vars
  BY <1>1, StutterVars DEF Block, ghostVars
<1>2. ASSUME NEW i \in Items, Enqueue(i) PROVE Reliable!Next
  <2>1. /\ pc[i] = "new" /\ UNCHANGED <<closed, batch, processed>>
        /\ pc' = [pc EXCEPT ![i] = IF closed THEN "rejected" ELSE "queued"]
    BY <1>2 DEF Enqueue, ghostVars
  <2>2. \A j \in Items : InFlight(j)' <=> InFlight(j)
    BY <2>1, <1>0, <1>t DEF InFlight, TypeOK
  <2>3. ~InFlight(i) /\ processed[i] = 0
    <3>1. i \notin pending
      BY <2>1, <1>t DEF Retained
    <3>2. \A w \in Workers : i \notin batch[w]
      BY <3>1, <1>t DEF BatchPending
    <3>3. QED
      BY <2>1, <3>1, <3>2, <1>t DEF InFlight, Retained
  <2>4. \A j \in Items : StatusOf(j)' = IF j \in {i} THEN (IF closed THEN "rejected" ELSE "pending") ELSE StatusOf(j)
    <3>1. \A j \in Items : PlainStatusOf(j)' =
            IF j \in {i} THEN (IF closed THEN "rejected" ELSE "pending") ELSE PlainStatusOf(j)
      BY <2>1, <2>2, <2>3, <1>0, <1>t DEF PlainStatusOf, TypeOK
    <3>2. QED
      BY <3>1, <1>p, <1>q
  <2>5. StatusOf(i) = "new"
    BY <2>1, StatusFacts
  <2>6. CASE closed
    BY <2>1, <2>4, <2>5, <2>6 DEF Reliable!Next, Reliable!Reject, Reliable!Moved
  <2>7. CASE ~closed
    BY <2>1, <2>4, <2>5, <2>7 DEF Reliable!Next, Reliable!Accept, Reliable!Moved
  <2>8. QED
    BY <2>6, <2>7
<1>3. ASSUME NEW t \in FlushCallers \cup {Closer}, FlushNow(t) PROVE UNCHANGED Reliable!vars
  <2>1. t \notin Items /\ t \notin Workers /\ UNCHANGED <<closed, batch, processed>>
    BY <1>3 DEF FlushNow, ghostVars
  <2>2. CASE MayStart(pending)
    <3>1. PICK w \in Workers : pc' = [pc EXCEPT ![w] = "pick", ![t] = "wait"] /\ pc[w] = "idle"
      BY <1>3, <2>2 DEF FlushNow
    <3>2. QED
      BY <2>1, <3>1, <1>0, <1>t, StutterVars DEF TypeOK
  <2>3. CASE ~MayStart(pending)
    BY <1>3, <2>1, <2>3, <1>0, <1>t, StutterVars DEF FlushNow, TypeOK
  <2>4. QED
    BY <2>2, <2>3
<1>4. CASE CloseQueue
  <2>1. /\ UNCHANGED <<batch, processed>> /\ closed'
        /\ \A i \in Items : pc'[i] = pc[i]
        /\ \A w \in Workers : pc'[w] = pc[w]
    BY <1>4, <1>0, <1>t DEF CloseQueue, ghostVars, TypeOK
  <2>2. CASE closed
    BY <2>1, <2>2, <1>t, StutterVars DEF TypeOK, CloseQueue
  <2>3. CASE ~closed
    <3>1. \A i \in Items : StatusOf(i)' = StatusOf(i)
      <4>1. \A i \in Items : InFlight(i)' <=> InFlight(i)
        BY <2>1 DEF InFlight
      <4>2. QED
        BY <2>1, <4>1, <1>p, <1>q DEF PlainStatusOf
    <3>2. status' = status
      BY <3>1
    <3>3. QED
      BY <2>1, <2>3, <3>2 DEF Reliable!Next, Reliable!Close
  <2>4. QED
    BY <2>2, <2>3
<1>5. ASSUME NEW f \in FlushCallers, CancelCaller(f) PROVE UNCHANGED Reliable!vars
  <2>1. f \notin Items /\ f \notin Workers
    OBVIOUS
  <2>2. QED
    BY <1>5, <2>1, <1>0, <1>t, StutterVars DEF CancelCaller, queueVars, ghostVars, TypeOK
<1>6. CASE TimerFires
  <2>1. UNCHANGED <<closed, batch, processed>>
    BY <1>6 DEF TimerFires, ghostVars
  <2>2. \A i \in Items : pc'[i] = pc[i]
    BY <1>6, <1>0, <1>t DEF TimerFires, TypeOK
  <2>3. \A w \in Workers : pc'[w] = "deliver" <=> pc[w] = "deliver"
    BY <1>6, <1>0, <1>t DEF TimerFires, TypeOK
  <2>4. QED
    BY <2>1, <2>2, <2>3, StutterVars
<1>7. CASE Tick
  BY <1>7, StutterVars DEF Tick, taskVars, ghostVars
<1>8. ASSUME NEW w \in Workers, Pick(w) PROVE Reliable!Next \/ UNCHANGED Reliable!vars
  <2>1. /\ pc[w] = "pick" /\ UNCHANGED <<closed, pending, processed>>
        /\ batch' = [batch EXCEPT ![w] = NextDueGroup]
        /\ pc' = [pc EXCEPT ![w] = IF NextDueGroup = {} THEN "exit" ELSE "deliver"]
    BY <1>8 DEF Pick, queueVars, ghostVars
  <2>2. \A v \in Workers : pc[v] = "pick" \/ pc[v] = "idle"
    BY <2>1, <1>t DEF SingleWorker, Alive
  <2>3. \A i \in Items : ~InFlight(i) /\ pc'[i] = pc[i]
    BY <2>1, <2>2, <1>0, <1>t DEF InFlight, TypeOK
  <2>4. CASE NextDueGroup = {}
    <3>1. \A i \in Items : ~InFlight(i)'
      BY <2>1, <2>2, <2>4, <1>0, <1>t DEF InFlight, TypeOK
    <3>2. \A i \in Items : StatusOf(i)' = StatusOf(i)
      BY <2>1, <2>3, <3>1, <1>p, <1>q DEF PlainStatusOf
    <3>3. QED
      BY <2>1, <3>2, Stutter
  <2>5. CASE NextDueGroup # {}
    <3>1. PICK i \in NextDueGroup : TRUE
      BY <2>5
    <3>2. NextDueGroup = {j \in pending : Group[j] = Group[i]} /\ i \in Items
      BY PickIsGroup, <1>t DEF TypeOK, NextDueGroup
    <3>3. \A j \in Items : StatusOf(j) = "pending" <=> j \in pending
      BY <2>2, <2>3, <1>t, StatusFacts DEF Retained
    <3>4. \A j \in Items : InFlight(j)' <=> j \in NextDueGroup
      <4>1. pc'[w] = "deliver" /\ batch'[w] = NextDueGroup
        BY <2>1, <2>5, <1>0, <1>t DEF TypeOK
      <4>2. \A v \in Workers \ {w} : pc'[v] # "deliver"
        BY <2>1, <2>2, <1>0, <1>t DEF TypeOK
      <4>3. QED
        BY <4>1, <4>2 DEF InFlight
    <3>5. \A j \in NextDueGroup : pc'[j] = "queued"
      BY <2>3, <3>2, <1>t DEF Retained, TypeOK
    <3>6. \A j \in Items : StatusOf(j)' = IF j \in NextDueGroup THEN "inflight" ELSE StatusOf(j)
      BY <2>1, <2>3, <3>4, <3>5, <1>p, <1>q DEF PlainStatusOf
    <3>7. {j \in Items : status[j] = "pending"} = pending
      BY <3>3, <1>t DEF TypeOK
    <3>8. {j \in {k \in Items : status[k] = "pending"} : Group[j] = Group[i]} = NextDueGroup
      BY <3>2, <3>7
    <3>9. {j \in Items : status[j] = "inflight"} = {} /\ status[i] = "pending"
      BY <2>3, <3>2, <3>7, StatusFacts
    <3>10. status' = [j \in Items |-> IF j \in NextDueGroup THEN "inflight" ELSE status[j]]
      BY <3>6
    <3>11. Reliable!Take(i)
      BY <2>1, <3>8, <3>9, <3>10 DEF Reliable!Take, Reliable!InState, Reliable!Moved
    <3>12. QED
      BY <3>2, <3>11 DEF Reliable!Next
  <2>6. QED
    BY <2>4, <2>5
<1>9. ASSUME NEW w \in Workers, Complete(w) \/ Fail(w) PROVE Reliable!Next
  <2>1. /\ pc[w] = "deliver" /\ UNCHANGED <<closed, batch>>
        /\ \A t \in Tasks \ {w} : pc'[t] = pc[t]
        /\ pc'[w] \in {"done", "fail"}
    BY <1>9, <1>0, <1>t DEF Complete, Fail, queueVars, TypeOK
  <2>2. \A v \in Workers \ {w} : pc[v] = "idle"
    BY <2>1, <1>t DEF SingleWorker, Alive
  <2>3. \A i \in Items : ~InFlight(i)' /\ (InFlight(i) <=> i \in batch[w]) /\ pc'[i] = pc[i]
    BY <2>1, <2>2, <1>0 DEF InFlight
  <2>4. {i \in Items : status[i] = "inflight"} = batch[w]
    BY <2>3, <1>t, StatusFacts DEF TypeOK
  <2>5. batch[w] # {}
    BY <2>1, <1>t DEF BatchPending
  <2>6. \A i \in batch[w] : pc[i] = "queued" /\ processed[i] = 0
    BY <2>3, <1>t, StatusFacts DEF TypeOK
  <2>7. CASE Complete(w)
    <3>1. \A i \in Items : processed'[i] = IF i \in batch[w] THEN processed[i] + 1 ELSE processed[i]
      BY <2>7 DEF Complete
    <3>2. \A i \in Items : StatusOf(i)' = IF i \in batch[w] THEN "delivered" ELSE StatusOf(i)
      BY <2>3, <2>6, <3>1, <1>p, <1>q DEF PlainStatusOf
    <3>3. Reliable!Deliver
      BY <2>1, <2>4, <2>5, <3>2 DEF Reliable!Deliver, Reliable!InState, Reliable!Moved
    <3>4. QED
      BY <3>3 DEF Reliable!Next
  <2>8. CASE Fail(w)
    <3>1. processed' = processed
      BY <2>8 DEF Fail
    <3>2. \A i \in Items : StatusOf(i)' = IF i \in batch[w] THEN "pending" ELSE StatusOf(i)
      BY <2>3, <2>6, <3>1, <1>p, <1>q DEF PlainStatusOf
    <3>3. Reliable!GiveBack
      BY <2>1, <2>4, <2>5, <3>2 DEF Reliable!GiveBack, Reliable!InState, Reliable!Moved
    <3>4. QED
      BY <3>3 DEF Reliable!Next
  <2>9. QED
    BY <1>9, <2>7, <2>8
<1>10. ASSUME NEW w \in Workers, RemoveBatch(w) \/ RetryBatch(w) PROVE UNCHANGED Reliable!vars
  <2>1. /\ pc[w] \in {"done", "fail"} /\ UNCHANGED <<closed, processed>>
        /\ \A t \in Tasks \ {w} : pc'[t] = pc[t]
        /\ pc'[w] = "pick"
        /\ \A v \in Workers \ {w} : batch'[v] = batch[v]
    BY <1>10, <1>0, <1>t DEF RemoveBatch, RetryBatch, ghostVars, TypeOK
  <2>2. \A i \in Items : (InFlight(i)' <=> InFlight(i)) /\ pc'[i] = pc[i]
    BY <2>1, <1>0 DEF InFlight
  <2>3. \A i \in Items : StatusOf(i)' = StatusOf(i)
    BY <2>1, <2>2, <1>p, <1>q DEF PlainStatusOf
  <2>4. QED
    BY <2>1, <2>3, Stutter
<1>11. ASSUME NEW w \in Workers, Suspend(w) PROVE UNCHANGED Reliable!vars
  BY <1>11, StutterVars DEF Suspend, ghostVars
<1>12. ASSUME NEW w \in Workers, ExitFlush(w) PROVE UNCHANGED Reliable!vars
  <2>1. UNCHANGED <<closed, batch, processed>> /\ pc' = EndedPc(w) /\ pc[w] = "exit"
    BY <1>12 DEF ExitFlush, ghostVars
  <2>2. \A i \in Items : pc'[i] = pc[i]
    BY <2>1, <1>0, <1>t DEF EndedPc, WaitsMatch
  <2>3. \A v \in Workers : pc'[v] = "deliver" <=> pc[v] = "deliver"
    BY <2>1, <1>0, <1>t DEF EndedPc, WaitsMatch
  <2>4. QED
    BY <2>1, <2>2, <2>3, StutterVars
<1>13. CASE UNCHANGED vars
  BY <1>13, StutterVars DEF vars, queueVars, taskVars, ghostVars
<1>14. QED
  BY <1>1, <1>2, <1>3, <1>4, <1>5, <1>6, <1>7, <1>8, <1>9, <1>10, <1>11, <1>12, <1>13
     DEF Next, Flush, WorkerStep

\* The queue with its lock, timer, eager tasks and worker implements the
\* reliable queue: what it accepts is delivered in whole groups, one batch at
\* a time, and leaves it in no other way.
THEOREM Refinement == Spec => ImplementsReliableQueue
<1>1. Init => Reliable!Init
  BY InitRefines
<1>2. RInv /\ RInv' /\ [Next]_vars => [Reliable!Next]_Reliable!vars
  BY NextRefines
<1>3. Spec => []RInv
  BY Inductive, ArrivalOrderAlways, PTL DEF RInv
<1>4. QED
  BY <1>1, <1>2, <1>3, PTL DEF Spec, ImplementsReliableQueue, Reliable!Spec
=============================================================================
