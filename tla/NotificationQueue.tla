------------------------- MODULE NotificationQueue -------------------------
(***************************************************************************)
(* The delivery queue of Herald: custom_components/herald/queue.py.        *)
(*                                                                         *)
(* Everything runs on one asyncio event loop.  A task keeps the loop until *)
(* it suspends; the only points where it may suspend are the acquisition   *)
(* of the queue's asyncio.Lock and the delivery of a batch.  No code of    *)
(* the queue awaits while it holds the lock, so a locked section is one    *)
(* action.  asyncio.Lock is first-in first-out: a task enters at once only *)
(* when nobody waits, otherwise it joins the waiters, and only the head of *)
(* the waiters may enter next.                                             *)
(*                                                                         *)
(* Home Assistant starts tasks eagerly: async_create_task runs the new     *)
(* coroutine up to its first suspension before it returns.  A delivery     *)
(* worker started by the timer therefore runs while _flush_task is still   *)
(* None, and a worker started by async_flush_now finds the lock held by    *)
(* its own creator and becomes the first waiter.                           *)
(*                                                                         *)
(* Time is relative: dueIn[i] and timer count the ticks that are left.     *)
(***************************************************************************)
EXTENDS Integers, Sequences, FiniteSets

CONSTANTS
    Items,         \* notifications; each one is handed to async_enqueue once
    FlushCallers,  \* tasks that call async_flush_now, once each
    Closer,        \* the task that calls async_shutdown
    Workers,       \* names for the tasks that run _async_flush
    NoTask,        \* Python's None where a task is expected
    Group,         \* Group[i]: the _group_key of a notification
    Window,        \* Window[i]: its summary window, in ticks
    RetryDelay,    \* _RETRY_DELAY_SECONDS, in ticks
    MaxFailures,   \* bound on the deliveries that raise
    Eager,         \* async_create_task starts the coroutine at once
    EarlyFire      \* the loop may run a timer within its clock resolution

NoTimer == -1
Clients == Items \cup FlushCallers \cup {Closer}
Tasks == Clients \cup Workers

ASSUME ClientsAssumption ==
    /\ Items \cap (FlushCallers \cup {Closer} \cup Workers) = {}
    /\ FlushCallers \cap ({Closer} \cup Workers) = {}
    /\ Closer \notin Workers
    /\ NoTask \notin Tasks
ASSUME WorkersAssumption == Workers # {}
ASSUME ItemsAssumption == IsFiniteSet(Items)
ASSUME TimesAssumption ==
    /\ Window \in [Items -> Nat]
    /\ RetryDelay \in Nat
    /\ MaxFailures \in Nat
    /\ Eager \in BOOLEAN
    /\ EarlyFire \in BOOLEAN

VARIABLES
    pending,    \* the notifications in _items
    arrival,    \* their position in the order of arrival
    dueIn,      \* due_at, as ticks from now (0: due)
    timer,      \* _flush_timer: ticks until it fires, or NoTimer
    flushTask,  \* _flush_task
    closed,     \* _closed
    waiters,    \* the tasks waiting for _lock, in order
    loop,       \* the task that runs and has not suspended yet, or NoTask
    pc,         \* where each task is
    batch,      \* batch[w]: the items a worker took, {} when it has none
    err,        \* err[w]: first_error of a worker is set
    awaits,     \* awaits[t]: the worker an async_flush_now call waits for
    processed,  \* how often async_process_notifications returned for an item
    failures    \* deliveries that raised so far

queueVars == <<pending, arrival, dueIn, timer, flushTask, closed>>
taskVars == <<waiters, loop, pc, batch, err, awaits>>
ghostVars == <<processed, failures>>
vars == <<queueVars, taskVars, ghostVars>>

Init ==
    /\ pending = {}
    /\ arrival = [i \in Items |-> 0]
    /\ dueIn = [i \in Items |-> 0]
    /\ timer = NoTimer
    /\ flushTask = NoTask
    /\ closed = FALSE
    /\ waiters = <<>>
    /\ loop = NoTask
    /\ pc = [t \in Tasks |-> IF t \in Workers THEN "idle" ELSE "new"]
    /\ batch = [w \in Workers |-> {}]
    /\ err = [w \in Workers |-> FALSE]
    /\ awaits = [t \in Tasks |-> NoTask]
    /\ processed = [i \in Items |-> 0]
    /\ failures = 0

-----------------------------------------------------------------------------
(* The lock and the event loop.                                            *)

\* Places from which a task acquires the lock next.
WantsLock(t) ==
    \/ t \in Clients /\ pc[t] = "new"
    \/ t = Closer /\ pc[t] = "flush"
    \/ t \in Workers /\ pc[t] \in {"pick", "done", "fail", "exit"}

\* t acquires the lock: it reaches the acquisition and nobody waits, or it is
\* the head of the waiters and the loop has come round to it.
Enters(t) ==
    \/ waiters = <<>> /\ loop \in {NoTask, t}
    \/ waiters # <<>> /\ loop = NoTask /\ Head(waiters) = t

\* Mistaken variant: the entering task is never taken off the waiters.
BehindAll(t) == waiters

\* The waiters once t has entered.
Behind(t) == IF waiters # <<>> /\ Head(waiters) = t THEN Tail(waiters) ELSE waiters

\* The assignment at the end of _start_flush: a worker that suspends for the
\* first time gives control back to _start_flush, which then records it.
TaskOnSuspend(w) == IF w \in Workers /\ flushTask = NoTask THEN w ELSE flushTask

\* t finds others waiting, joins them and gives up the loop.
Block(t) ==
    /\ WantsLock(t)
    /\ waiters # <<>>
    /\ \A k \in 1..Len(waiters) : waiters[k] # t
    /\ loop \in {NoTask, t}
    /\ waiters' = Append(waiters, t)
    /\ loop' = NoTask
    /\ flushTask' = TaskOnSuspend(t)
    /\ UNCHANGED <<pending, arrival, dueIn, timer, closed, pc, batch, err, awaits, ghostVars>>

-----------------------------------------------------------------------------
(* The timer and the worker's start.                                       *)

EarliestDue(items, due) ==
    CHOOSE d \in {due[i] : i \in items} : \A i \in items : d <= due[i]

\* Mistaken variants: a timer that is already set is kept; and the task that is
\* tested is the one _flush_task held before the worker's end cleared it.
ScheduleFlushOnce(isClosed, items, due, task) ==
    IF isClosed \/ items = {} \/ task # NoTask THEN NoTimer
    ELSE IF timer # NoTimer THEN timer ELSE EarliestDue(items, due)
ScheduleFlushBeforeClear(isClosed, items, due, task) ==
    IF isClosed \/ items = {} \/ flushTask # NoTask THEN NoTimer ELSE EarliestDue(items, due)

\* _schedule_flush: the new value of the timer.
ScheduleFlush(isClosed, items, due, task) ==
    IF isClosed \/ items = {} \/ task # NoTask THEN NoTimer ELSE EarliestDue(items, due)

\* Mistaken variant: a worker is started beside a running one.
MayStartAgain(items) == items # {}

\* The guard of _start_flush.
MayStart(items) == flushTask = NoTask /\ items # {}

\* The loop runs the timer's callback, _start_flush.  An eager worker goes on
\* with the loop before _flush_task is assigned; another one only gets ready.
TimerFires ==
    /\ loop = NoTask
    /\ timer = 0 \/ (EarlyFire /\ timer = 1)
    /\ timer' = NoTimer
    /\ IF MayStart(pending)
       THEN \E w \in Workers :
              /\ pc[w] = "idle"
              /\ pc' = [pc EXCEPT ![w] = "pick"]
              /\ loop' = IF Eager THEN w ELSE NoTask
              /\ flushTask' = IF Eager THEN flushTask ELSE w
       ELSE UNCHANGED <<pc, loop, flushTask>>
    /\ UNCHANGED <<pending, arrival, dueIn, closed, waiters, batch, err, awaits, ghostVars>>

\* One tick of the monotonic clock, which runs whatever the tasks do.
Tick ==
    /\ timer > 0 \/ \E i \in pending : dueIn[i] > 0
    /\ dueIn' = [i \in Items |-> IF i \in pending /\ dueIn[i] > 0 THEN dueIn[i] - 1 ELSE dueIn[i]]
    /\ timer' = IF timer > 0 THEN timer - 1 ELSE timer
    /\ UNCHANGED <<pending, arrival, flushTask, closed, taskVars, ghostVars>>

-----------------------------------------------------------------------------
(* The callers.                                                            *)

\* async_enqueue: refused by a closed queue, else appended and scheduled.
Enqueue(i) ==
    /\ pc[i] = "new"
    /\ Enters(i)
    /\ waiters' = Behind(i)
    /\ loop' = NoTask
    /\ \/ /\ closed
          /\ pc' = [pc EXCEPT ![i] = "rejected"]
          /\ UNCHANGED <<pending, arrival, dueIn, timer>>
       \/ /\ ~closed
          /\ pc' = [pc EXCEPT ![i] = "queued"]
          /\ pending' = pending \cup {i}
          /\ arrival' = [arrival EXCEPT ![i] = Cardinality({j \in Items : pc[j] = "queued"}) + 1]
          /\ dueIn' = [dueIn EXCEPT ![i] = Window[i]]
          /\ timer' = ScheduleFlush(closed, pending', dueIn', flushTask)
    /\ UNCHANGED <<flushTask, closed, batch, err, awaits, ghostVars>>

\* Mistaken variant: the deadlines are left alone.
MakeDueNothing == dueIn

\* async_flush_now makes every pending notification due.
MakeDue == [i \in Items |-> IF i \in pending THEN 0 ELSE dueIn[i]]

\* The call is over at once without a worker, else it awaits the worker.
AwaitWorker(t, w) ==
    /\ awaits' = [awaits EXCEPT ![t] = w]
    /\ loop' = NoTask

\* async_flush_now.  The worker it starts begins while the lock is held, so
\* an eager one is the next waiter, suspended and recorded in _flush_task.
FlushNow(t) ==
    /\ pc[t] = IF t = Closer THEN "flush" ELSE "new"
    /\ Enters(t)
    /\ dueIn' = MakeDue
    /\ timer' = NoTimer
    /\ IF MayStart(pending)
       THEN \E w \in Workers :
              /\ pc[w] = "idle"
              /\ pc' = [pc EXCEPT ![w] = "pick", ![t] = "wait"]
              /\ flushTask' = w
              /\ waiters' = IF Eager THEN Append(Behind(t), w) ELSE Behind(t)
              /\ AwaitWorker(t, w)
       ELSE /\ pc' = [pc EXCEPT ![t] = IF flushTask = NoTask THEN "returned" ELSE "wait"]
            /\ waiters' = Behind(t)
            /\ AwaitWorker(t, flushTask)
            /\ UNCHANGED flushTask
    /\ UNCHANGED <<pending, arrival, closed, batch, err, ghostVars>>

\* The first section of async_shutdown; async_flush_now follows.
CloseQueue ==
    /\ pc[Closer] = "new"
    /\ Enters(Closer)
    /\ waiters' = Behind(Closer)
    /\ loop' = Closer
    /\ closed' = TRUE
    /\ timer' = NoTimer
    /\ pc' = [pc EXCEPT ![Closer] = "flush"]
    /\ UNCHANGED <<pending, arrival, dueIn, flushTask, batch, err, awaits, ghostVars>>

\* The caller of async_flush_now is cancelled; asyncio.shield keeps the worker.
CancelCaller(f) ==
    /\ loop = NoTask
    /\ pc[f] = "wait"
    /\ pc' = [pc EXCEPT ![f] = "cancelled"]
    /\ awaits' = [awaits EXCEPT ![f] = NoTask]
    /\ UNCHANGED <<queueVars, waiters, loop, batch, err, ghostVars>>

-----------------------------------------------------------------------------
(* The worker, _async_flush.                                               *)

\* A group is due when one of its notifications is.
GroupDue(i) == \E j \in pending : Group[j] = Group[i] /\ dueIn[j] = 0

\* Mistaken variant: only the notifications that are due themselves, of any
\* group, make up the batch.
NextDueItems == {i \in pending : dueIn[i] = 0}

\* _next_due_group: the whole of the due group that has the oldest member.
NextDueGroup ==
    {i \in pending :
        \E first \in pending :
            /\ Group[first] = Group[i]
            /\ GroupDue(first)
            /\ \A j \in pending : GroupDue(j) => arrival[first] <= arrival[j]}

Pick(w) ==
    /\ pc[w] = "pick"
    /\ Enters(w)
    /\ waiters' = Behind(w)
    /\ loop' = w
    /\ batch' = [batch EXCEPT ![w] = NextDueGroup]
    /\ pc' = [pc EXCEPT ![w] = IF NextDueGroup = {} THEN "exit" ELSE "deliver"]
    /\ UNCHANGED <<queueVars, err, awaits, ghostVars>>

\* The delivery suspends; everyone else may run.
Suspend(w) ==
    /\ pc[w] = "deliver"
    /\ loop = w
    /\ loop' = NoTask
    /\ flushTask' = TaskOnSuspend(w)
    /\ UNCHANGED <<pending, arrival, dueIn, timer, closed, waiters, pc, batch, err, awaits, ghostVars>>

\* async_process_notifications returns, with or without having suspended.
Complete(w) ==
    /\ pc[w] = "deliver"
    /\ loop \in {NoTask, w}
    /\ loop' = w
    /\ pc' = [pc EXCEPT ![w] = "done"]
    /\ processed' = [i \in Items |-> IF i \in batch[w] THEN processed[i] + 1 ELSE processed[i]]
    /\ UNCHANGED <<queueVars, waiters, batch, err, awaits, failures>>

\* async_process_notifications raises.
Fail(w) ==
    /\ pc[w] = "deliver"
    /\ failures < MaxFailures
    /\ loop \in {NoTask, w}
    /\ loop' = w
    /\ pc' = [pc EXCEPT ![w] = "fail"]
    /\ err' = [err EXCEPT ![w] = TRUE]
    /\ failures' = failures + 1
    /\ UNCHANGED <<queueVars, waiters, batch, awaits, processed>>

\* Mistaken variant: the whole group is removed, late arrivals with it.
RemoveGroup(w) ==
    /\ pc[w] = "done"
    /\ Enters(w)
    /\ waiters' = Behind(w)
    /\ loop' = w
    /\ pending' = {i \in pending : \A j \in batch[w] : Group[i] # Group[j]}
    /\ batch' = [batch EXCEPT ![w] = {}]
    /\ pc' = [pc EXCEPT ![w] = "pick"]
    /\ UNCHANGED <<arrival, dueIn, timer, flushTask, closed, err, awaits, ghostVars>>

\* The processed batch, and nothing that came later, leaves the queue.
RemoveBatch(w) ==
    /\ pc[w] = "done"
    /\ Enters(w)
    /\ waiters' = Behind(w)
    /\ loop' = w
    /\ pending' = pending \ batch[w]
    /\ batch' = [batch EXCEPT ![w] = {}]
    /\ pc' = [pc EXCEPT ![w] = "pick"]
    /\ UNCHANGED <<arrival, dueIn, timer, flushTask, closed, err, awaits, ghostVars>>

\* Mistaken variant: the failed batch becomes due a delay earlier.
RetryBatchEarlier(w) ==
    /\ pc[w] = "fail"
    /\ Enters(w)
    /\ waiters' = Behind(w)
    /\ loop' = w
    /\ dueIn' = [i \in Items |-> IF i \in batch[w] THEN dueIn[i] - RetryDelay ELSE dueIn[i]]
    /\ batch' = [batch EXCEPT ![w] = {}]
    /\ pc' = [pc EXCEPT ![w] = "pick"]
    /\ UNCHANGED <<pending, arrival, timer, flushTask, closed, err, awaits, ghostVars>>

\* The failed batch stays, due again after the retry delay.
RetryBatch(w) ==
    /\ pc[w] = "fail"
    /\ Enters(w)
    /\ waiters' = Behind(w)
    /\ loop' = w
    /\ dueIn' = [i \in Items |-> IF i \in batch[w] THEN RetryDelay ELSE dueIn[i]]
    /\ batch' = [batch EXCEPT ![w] = {}]
    /\ pc' = [pc EXCEPT ![w] = "pick"]
    /\ UNCHANGED <<pending, arrival, timer, flushTask, closed, err, awaits, ghostVars>>

\* Mistaken variant: the calls that await the worker are not resumed.
EndedPcAlone(w) == [pc EXCEPT ![w] = "idle"]

\* The finally clause and the end of the task.  A worker that never suspended
\* returns into _start_flush, whose task.done() branch clears the task and
\* schedules once more; the calls that awaited the worker return or raise.
EndedPc(w) ==
    [t \in Tasks |->
        IF t = w THEN "idle"
        ELSE IF awaits[t] = w THEN (IF err[w] THEN "raised" ELSE "returned")
        ELSE pc[t]]

ExitFlush(w) ==
    /\ pc[w] = "exit"
    /\ Enters(w)
    /\ waiters' = Behind(w)
    /\ loop' = NoTask
    /\ flushTask' = NoTask
    /\ timer' = ScheduleFlush(closed, pending, dueIn, flushTask')
    /\ pc' = EndedPc(w)
    /\ awaits' = [t \in Tasks |-> IF awaits[t] = w THEN NoTask ELSE awaits[t]]
    /\ err' = [err EXCEPT ![w] = FALSE]
    /\ UNCHANGED <<pending, arrival, dueIn, closed, batch, ghostVars>>

-----------------------------------------------------------------------------
WorkerStep(w) ==
    \/ Pick(w)
    \/ Suspend(w)
    \/ Complete(w)
    \/ Fail(w)
    \/ RemoveBatch(w)
    \/ RetryBatch(w)
    \/ ExitFlush(w)

Flush == \E t \in FlushCallers \cup {Closer} : FlushNow(t)

Next ==
    \/ \E t \in Tasks : Block(t)
    \/ \E i \in Items : Enqueue(i)
    \/ Flush
    \/ CloseQueue
    \/ \E f \in FlushCallers : CancelCaller(f)
    \/ TimerFires
    \/ Tick
    \/ \E w \in Workers : WorkerStep(w)

Spec == Init /\ [][Next]_vars

\* What the event loop owes: it resumes whoever can go on, runs a due timer,
\* and every delivery ends (its service calls have timeouts).  Nobody owes a
\* call of async_enqueue, async_flush_now or async_shutdown, a cancellation
\* or a failure.
Waiting(t) == \E k \in 1..Len(waiters) : waiters[k] = t
Progress ==
    \/ \E t \in Workers : Block(t) \/ Pick(t) \/ Complete(t) \/ RemoveBatch(t) \/ RetryBatch(t) \/ ExitFlush(t)
    \/ \E i \in Items : Waiting(i) /\ Enqueue(i)
    \/ \E t \in FlushCallers : Waiting(t) /\ FlushNow(t)
    \/ Waiting(Closer) /\ CloseQueue
    \/ FlushNow(Closer)
    \/ Block(Closer) /\ pc[Closer] = "flush"
    \/ TimerFires

FairSpec == Spec /\ WF_vars(Progress) /\ WF_vars(Tick)

-----------------------------------------------------------------------------
(* Properties.                                                             *)

TypeOK ==
    /\ pending \subseteq Items
    /\ arrival \in [Items -> Nat]
    /\ dueIn \in [Items -> Nat]
    /\ timer \in Nat \cup {NoTimer}
    /\ flushTask \in Workers \cup {NoTask}
    /\ closed \in BOOLEAN
    /\ waiters \in Seq(Tasks)
    /\ loop \in Tasks \cup {NoTask}
    /\ pc \in [Tasks -> {"new", "queued", "rejected", "flush", "wait", "returned", "raised",
                         "cancelled", "idle", "pick", "deliver", "done", "fail", "exit"}]
    /\ batch \in [Workers -> SUBSET Items]
    /\ err \in [Workers -> BOOLEAN]
    /\ awaits \in [Tasks -> Workers \cup {NoTask}]
    /\ processed \in [Items -> Nat]
    /\ failures \in 0..MaxFailures

\* "Start a single delivery worker": at most one worker lives, and unless it
\* is still inside _start_flush it is the one _flush_task records, so that no
\* finished worker is retained and none runs unseen.
Alive(w) == pc[w] # "idle"
SingleWorker ==
    /\ \A v, w \in Workers : Alive(v) /\ Alive(w) => v = w
    /\ \A w \in Workers : Alive(w) => flushTask = w \/ (flushTask = NoTask /\ loop = w)
    /\ flushTask # NoTask => Alive(flushTask)

\* No wake-up is lost: while the queue is open and holds something, a worker
\* lives or the timer is set for exactly the earliest deadline; and never both
\* a worker and a timer.
Wakeup ==
    LET resting == flushTask = NoTask /\ loop \notin Workers
    IN  /\ resting /\ ~closed /\ pending # {} => timer = EarliestDue(pending, dueIn)
        /\ timer # NoTimer => resting /\ ~closed /\ pending # {}

\* Each batch is retained until its processing succeeds: an accepted
\* notification is in the queue or processed, exactly one of the two, save
\* between the end of its delivery and the section that removes it.
Retained ==
    \A i \in Items :
        LET removing == \E w \in Workers : pc[w] = "done" /\ i \in batch[w]
        IN  /\ pc[i] = "queued" => i \in pending \/ processed[i] = 1
            /\ i \in pending => pc[i] = "queued"
            /\ processed[i] = (IF i \notin pending /\ pc[i] = "queued" THEN 1 ELSE IF removing THEN 1 ELSE 0)

\* A worker's batch is part of the queue until the worker lets it go.
BatchPending ==
    \A w \in Workers :
        /\ batch[w] \subseteq pending
        /\ batch[w] # {} <=> pc[w] \in {"deliver", "done", "fail"}

\* async_shutdown: "finish all pending deliveries".  When it returns without
\* an error the queue is empty, and it stays so.
ShutdownFinishes == pc[Closer] = "returned" => pending = {}

\* The same where nobody but async_shutdown has called async_flush_now, which
\* is how the coordinator uses the queue.
WiredShutdownFinishes == (\A f \in FlushCallers : pc[f] = "new") => ShutdownFinishes

\* The queue implements the reliable queue: a notification is in flight from
\* the section that picks it to the end of its delivery.  A failed batch is
\* given back, a delivered one never comes back, and there is no other way
\* out of the queue.
InFlight(i) == \E w \in Workers : pc[w] = "deliver" /\ i \in batch[w]
StatusOf(i) ==
    IF pc[i] # "queued" THEN pc[i]
    ELSE IF InFlight(i) THEN "inflight"
    ELSE IF processed[i] > 0 THEN "delivered"
    ELSE IF i \in pending THEN "pending"
    ELSE "lost"

Reliable == INSTANCE ReliableQueue WITH status <- [i \in Items |-> StatusOf(i)], open <- ~closed
ImplementsReliableQueue == Reliable!Spec

\* Nothing accepted is forgotten: it is processed, or the queue is shut down.
EventuallyProcessed == \A i \in Items : pc[i] = "queued" ~> processed[i] = 1 \/ closed

\* Every call comes back: an async_enqueue that has to wait for the lock gets
\* it, and async_flush_now and async_shutdown return, whoever is cancelled.
CallsReturn ==
    /\ \A i \in Items : Waiting(i) ~> pc[i] \in {"queued", "rejected"}
    /\ \A t \in FlushCallers \cup {Closer} :
          pc[t] \in {"flush", "wait"} ~> pc[t] \in {"returned", "raised", "cancelled"}
=============================================================================
