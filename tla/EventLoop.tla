------------------------------ MODULE EventLoop ------------------------------
(****************************************************************************)
(* The event loop of the virtual machine: pump_event_loop, activate_task    *)
(* and the loop_* operations of crates/runtime/src/vm/async_runtime.rs over *)
(* the Scheduler, with the coroutine states of vm/coroutines.rs and the     *)
(* suspension points through which a task reaches the loop.                 *)
(*                                                                          *)
(* Everything runs on one thread: an action is either one step of the pump  *)
(* or one loop operation of the code that is running, the main program      *)
(* (frames = <<>>) or the task on top of the coroutine stack.  A task that  *)
(* calls Async\drain starts another pump on top of its own frame.           *)
(****************************************************************************)
EXTENDS Scheduler

CONSTANTS
  MICROTASK_BATCH_SIZE,   \* 64 in the code
  Features,               \* the operations the program uses (names below)
  MaxGeneration,          \* bound on the wakes of one task
  MaxDepth                \* bound on nested pumps

ASSUME EventLoopAssumption ==
  /\ MICROTASK_BATCH_SIZE \in Nat \ {0}
  /\ MaxGeneration \in Nat
  /\ MaxDepth \in Nat \ {0}

VARIABLES
  s,                \* engine.scheduler
  coroutine,        \* CoroutineObject.state of each task
  wait,             \* the suspension point a suspended task is in
  resolved,         \* its Suspension has its outcome
  armed,            \* the task is between arm_readable and suspend
  cancelled_tasks,  \* engine.cancelled_tasks
  pump,             \* the locals and the control point of the innermost pump
  frames,           \* engine.coroutine_stack, with the pump below each task
  drained           \* the last pump returned false

vars == <<s, coroutine, wait, resolved, armed, cancelled_tasks, pump, frames, drained>>
taskVars == <<coroutine, wait, resolved, armed, cancelled_tasks>>

CoroutineState == {"Fresh", "Running", "Suspended", "Terminated"}
WaitKind == {"none", "timer", "descriptor", "armed", "suspension", "yield"}
Phase == {"code", "micro", "ready", "one", "poll", "block", "events", "return"}

Pumps ==
  [phase : Phase, next : Phase, mode : {"drain", "once"}, batch : Nat,
   ready_count : Nat, ran : BOOLEAN, readiness : SUBSET TaskId,
   horizon : Deadline \cup {0}]

\* No pump is active: user code runs.
idlePump == [phase |-> "code", next |-> "return", mode |-> "once", batch |-> 0,
             ready_count |-> 0, ran |-> FALSE, readiness |-> {}, horizon |-> 0]

Init ==
  /\ s = newScheduler
  /\ coroutine = [t \in TaskId |-> "Terminated"]
  /\ wait = [t \in TaskId |-> "none"]
  /\ resolved = [t \in TaskId |-> FALSE]
  /\ armed = [t \in TaskId |-> FALSE]
  /\ cancelled_tasks = {}
  /\ pump = idlePump
  /\ frames = <<>>
  /\ drained = FALSE

\* The frame on top of the coroutine stack, and the stack below it.
topFrame == frames[Len(frames)]
framesBelow == SubSeq(frames, 1, Len(frames) - 1)

\* The task whose code runs; None for the main program.
me == IF frames = <<>> THEN None ELSE topFrame.task

\* User code is running and free to call a loop operation.
coding == pump.phase = "code" /\ (me # None => ~armed[me])

\* The bound on wakes, a guard of every suspension point.
mayWake(t) == s.generation[t] < MaxGeneration

------------------------------------------------------------------------------
(* Operations of the running code.                                          *)

started(t) ==
  /\ coroutine' = [coroutine EXCEPT ![t] = "Fresh"]
  /\ wait' = [wait EXCEPT ![t] = "none"]
  /\ resolved' = [resolved EXCEPT ![t] = FALSE]
  /\ armed' = [armed EXCEPT ![t] = FALSE]
  /\ UNCHANGED <<cancelled_tasks, pump, frames, drained>>

loop_defer(t) ==
  /\ coding /\ absent(s, t)
  /\ s' = spawn(s, t, FALSE)
  /\ started(t)

loop_queue(t) ==
  /\ "microtask" \in Features
  /\ coding /\ absent(s, t)
  /\ s' = spawn(s, t, TRUE)
  /\ started(t)

loop_delay(t, deadline) ==
  /\ "timer" \in Features
  /\ coding /\ absent(s, t)
  /\ s' = armTimer(insertTask(s, t, FALSE), t, deadline)
  /\ started(t)

\* A descriptor that cannot be watched leaves only a used-up identifier.
loop_on_fd(t) ==
  /\ "descriptor" \in Features
  /\ coding /\ absent(s, t)
  /\ s' = armDescriptor(insertTask(s, t, FALSE), t)
  /\ started(t)

\* Suspension::resume, resumeEagerly and throw on a task that is suspended.
resolve(t, activation, front) ==
  /\ coding
  /\ coroutine[t] = "Suspended" /\ ~resolved[t]
  /\ \/ wait[t] = "suspension"
     \/ wait[t] = "armed" /\ activation = "throw"
  /\ front => "front" \in Features /\ activation = "resume"
  /\ s' = enqueue(s, t, activation, front)
  /\ resolved' = [resolved EXCEPT ![t] = TRUE]
  /\ UNCHANGED <<coroutine, wait, armed, cancelled_tasks, pump, frames, drained>>

loop_cancelThrows(t) ==
  /\ "cancel" \in Features
  /\ coding /\ t \in s.live
  /\ s' = IF coroutine[t] = "Running" THEN disarm(s, t)
          ELSE enqueue(disarm(s, t), t, "throw", FALSE)
  /\ cancelled_tasks' = cancelled_tasks \cup {t}
  /\ UNCHANGED <<coroutine, wait, resolved, armed, pump, frames, drained>>

loop_cancel(t) ==
  /\ "cancel" \in Features
  /\ coding /\ t \in s.live
  /\ LET d == disarm(s, t)
     IN \/ /\ coroutine[t] = "Fresh"
           /\ s' = removeTask(d, t)
           /\ UNCHANGED cancelled_tasks
        \/ /\ coroutine[t] = "Suspended"
           /\ s' = enqueue(d, t, "throw", FALSE)
           /\ cancelled_tasks' = cancelled_tasks \cup {t}
        \/ /\ coroutine[t] = "Running"
           /\ s' = d
           /\ cancelled_tasks' = cancelled_tasks \cup {t}
  /\ UNCHANGED <<coroutine, wait, resolved, armed, pump, frames, drained>>

loop_unreference(t) ==
  /\ "unreference" \in Features
  /\ coding /\ t \in s.live /\ s.referenced[t]
  /\ s' = unreference(s, t)
  /\ UNCHANGED <<taskVars, pump, frames, drained>>

------------------------------------------------------------------------------
(* The pump's control.                                                      *)

microHits == runnable(s, s.microtasks)
readyHits == runnable(s, s.ready)

\* The top of the pump's loop: a batch of the queued microtasks.
loopTop(p, sched) ==
  [p EXCEPT !.phase = "micro",
            !.batch = Min({Len(sched.microtasks), MICROTASK_BATCH_SIZE})]

firstTurn(mode, sched) ==
  loopTop([idlePump EXCEPT !.mode = mode, !.ready_count = Len(sched.ready)], sched)

\* The pump after it returns: run_event_loop calls it until it returns false.
returned(result, sched) ==
  IF pump.mode = "drain" /\ result THEN firstTurn("drain", sched) ELSE idlePump

\* Async\drain (run_event_loop), or loop_run_once of a wait outside a task.
startPump(mode) ==
  /\ coding /\ Len(frames) < MaxDepth
  /\ frames # <<>> => "nested" \in Features
  /\ pump' = firstTurn(mode, s)
  /\ drained' = FALSE
  /\ UNCHANGED <<s, taskVars, frames>>

\* activate_task up to the entry of the coroutine; `resume` is where the pump
\* goes on.
activate(q, n, micro, resume) ==
  LET t == q[n]
  IN /\ s' = nextActivation(s, micro)
     /\ coroutine' = [coroutine EXCEPT ![t] = "Running"]
     /\ wait' = [wait EXCEPT ![t] = "none"]
     /\ resolved' = [resolved EXCEPT ![t] = FALSE]
     /\ armed' = [armed EXCEPT ![t] = @ /\ wait[t] = "yield" /\ s.pending[t] = "resume"]
     /\ frames' = Append(frames, [task |-> t, pump |-> resume])
     /\ pump' = idlePump
     /\ UNCHANGED <<cancelled_tasks, drained>>

runMicrotask ==
  /\ pump.phase = "micro" /\ pump.batch > 0 /\ microHits # {}
  /\ activate(s.microtasks, Min(microHits), TRUE,
              [pump EXCEPT !.batch = @ - 1, !.ran = TRUE])

microtasksDone ==
  /\ pump.phase = "micro" /\ (pump.batch = 0 \/ microHits = {})
  /\ s' = IF pump.batch = 0 THEN s ELSE nextActivation(s, TRUE)
  /\ pump' = IF s'.microtasks # <<>>
             THEN [pump EXCEPT !.phase = "poll", !.next = "one"]
             ELSE [pump EXCEPT !.phase = "ready"]
  /\ UNCHANGED <<taskVars, frames, drained>>

runReady ==
  /\ pump.phase = "ready" /\ pump.ready_count > 0 /\ readyHits # {}
  /\ activate(s.ready, Min(readyHits), FALSE,
              [pump EXCEPT !.ready_count = @ - 1, !.ran = TRUE])

skipReady ==
  /\ pump.phase = "ready" /\ pump.ready_count > 0 /\ readyHits = {}
  /\ s' = nextActivation(s, FALSE)
  /\ pump' = loopTop([pump EXCEPT !.ready_count = @ - 1], s')
  /\ UNCHANGED <<taskVars, frames, drained>>

turnEnds ==
  /\ pump.phase = "ready" /\ pump.ready_count = 0
  /\ \/ /\ pump.ran
        /\ pump' = [pump EXCEPT !.phase = "poll", !.next = "return"]
        /\ UNCHANGED drained
     \/ /\ ~pump.ran /\ (isIdle(s) \/ ~hasWakeSource(s))
        /\ pump' = returned(FALSE, s)
        /\ drained' = TRUE
     \/ /\ ~pump.ran /\ ~isIdle(s) /\ hasWakeSource(s)
        /\ pump' = [pump EXCEPT !.phase = "block"]
        /\ UNCHANGED drained
  /\ UNCHANGED <<s, taskVars, frames>>

\* The reactor reports any of the descriptors it watches; the clock may stand
\* anywhere between the deadlines.
poll_reactor_nonblocking ==
  /\ pump.phase = "poll"
  /\ \E R \in SUBSET s.waiters, h \in Deadline \cup {0} :
       pump' = [pump EXCEPT !.phase = "events", !.readiness = R, !.horizon = h]
  /\ UNCHANGED <<s, taskVars, frames, drained>>

\* The blocking poll returns for a descriptor or once the nearest timer left
\* in the heap is due.
poll_reactor ==
  /\ pump.phase = "block"
  /\ s' = pruneStaleTimerHead(s)
  /\ \E R \in SUBSET s.waiters, h \in Deadline \cup {0} :
       /\ R # {} \/ \E e \in s'.timers : e.deadline <= h
       /\ pump' = [pump EXCEPT !.phase = "events", !.next = "return",
                               !.readiness = R, !.horizon = h]
  /\ UNCHANGED <<taskVars, frames, drained>>

wake_key ==
  /\ pump.phase = "events"
  /\ \E t \in pump.readiness :
       /\ s' = wakeKey(s, t)
       /\ pump' = [pump EXCEPT !.readiness = @ \ {t}]
  /\ UNCHANGED <<taskVars, frames, drained>>

expired == {e \in s.timers : e.deadline <= pump.horizon}

wake_expired_timers ==
  /\ pump.phase = "events" /\ pump.readiness = {}
  /\ \E e \in earliest(expired) : s' = expire(s, e)
  /\ UNCHANGED <<taskVars, pump, frames, drained>>

pollDone ==
  /\ pump.phase = "events" /\ pump.readiness = {} /\ expired = {}
  /\ pump' = [pump EXCEPT !.phase = pump.next, !.horizon = 0]
  /\ UNCHANGED <<s, taskVars, frames, drained>>

runNone ==
  /\ pump.phase = "one"
  /\ pump' = [pump EXCEPT !.phase = "return"]
  /\ UNCHANGED <<s, taskVars, frames, drained>>

\* One ordinary task runs between two batches of microtasks.
runOne ==
  /\ pump.phase = "one"
  /\ IF readyHits # {}
     THEN activate(s.ready, Min(readyHits), FALSE, [pump EXCEPT !.phase = "return"])
     ELSE /\ s' = nextActivation(s, FALSE)
          /\ pump' = [pump EXCEPT !.phase = "return"]
          /\ UNCHANGED <<taskVars, frames, drained>>

pumpReturns ==
  /\ pump.phase = "return"
  /\ pump' = returned(TRUE, s)
  /\ UNCHANGED <<s, taskVars, frames, drained>>

------------------------------------------------------------------------------
(* The end of a task's slice, and the rest of activate_task.                *)

\* The pump below the task that stops running goes on.
back(sched) ==
  LET p == topFrame.pump
  IN /\ pump' = IF p.phase = "ready" THEN loopTop(p, sched) ELSE p
     /\ frames' = framesBelow

suspendUncancelled(w, sched) ==
  /\ s' = [sched EXCEPT !.current = None]
  /\ coroutine' = [coroutine EXCEPT ![me] = "Suspended"]
  /\ wait' = [wait EXCEPT ![me] = w]
  /\ back(s')
  /\ UNCHANGED <<resolved, armed, cancelled_tasks, drained>>

\* The running task suspends at point w, sched being the scheduler it leaves.
suspend(w, sched) ==
  LET cleared == [sched EXCEPT !.current = None]
  IN /\ s' = IF me \in cancelled_tasks THEN enqueue(cleared, me, "throw", FALSE)
             ELSE cleared
     /\ coroutine' = [coroutine EXCEPT ![me] = "Suspended"]
     /\ wait' = [wait EXCEPT ![me] = w]
     /\ back(s')
     /\ UNCHANGED <<resolved, armed, cancelled_tasks, drained>>

inTask == pump.phase = "code" /\ me # None

\* loop_park_current_for and loop_suspend: a repeating task, a process poll.
parkOnTimer(deadline) ==
  /\ "timer" \in Features
  /\ inTask /\ ~armed[me] /\ mayWake(me)
  /\ suspend("timer", IF s.current = None THEN s ELSE armTimer(s, s.current, deadline))

\* loop_park_on_fd, which raises an error outside a task
loop_park_on_fd ==
  /\ "descriptor" \in Features
  /\ inTask /\ ~armed[me] /\ mayWake(me) /\ s.current # None
  /\ suspend("descriptor", armDescriptor(s, s.current))

\* arm_readable and arm_writable: wait_readable with a cancellation token
loop_arm_fd ==
  /\ "armed" \in Features
  /\ inTask /\ ~armed[me] /\ mayWake(me) /\ s.current # None
  /\ s' = armDescriptor(s, s.current)
  /\ armed' = [armed EXCEPT ![me] = TRUE]
  /\ UNCHANGED <<coroutine, wait, resolved, cancelled_tasks, pump, frames, drained>>

suspendArmed ==
  /\ inTask /\ armed[me]
  /\ suspend("armed", s)

\* Suspension::suspend of a suspension without its outcome
suspendOnSuspension ==
  /\ "suspension" \in Features
  /\ inTask /\ ~armed[me] /\ mayWake(me) /\ s.current # None
  /\ suspend("suspension", s)

\* A task gives way: yield_to_scheduler of the PostgreSQL client, or
\* drain_finalizers between any two instructions of the task's code.
yieldToScheduler ==
  /\ "yield" \in Features
  /\ inTask /\ mayWake(me) /\ s.current # None
  /\ armed[me] => "finalizer" \in Features
  /\ suspend("yield", enqueue(s, s.current, "resume", FALSE))

taskReturns ==
  /\ inTask /\ ~armed[me]
  /\ s' = removeTask([s EXCEPT !.current = None], me)
  /\ coroutine' = [coroutine EXCEPT ![me] = "Terminated"]
  /\ cancelled_tasks' = cancelled_tasks \ {me}
  /\ back(s')
  /\ UNCHANGED <<wait, resolved, armed, drained>>

\* An uncaught error of a task that was not cancelled leaves the pump too.
taskThrows ==
  /\ "throw" \in Features
  /\ inTask /\ ~armed[me]
  /\ s' = removeTask([s EXCEPT !.current = None], me)
  /\ coroutine' = [coroutine EXCEPT ![me] = "Terminated"]
  /\ cancelled_tasks' = cancelled_tasks \ {me}
  /\ IF me \in cancelled_tasks THEN back(s')
     ELSE pump' = idlePump /\ frames' = framesBelow
  /\ UNCHANGED <<wait, resolved, armed, drained>>

------------------------------------------------------------------------------
Operations ==
  \E t \in TaskId :
    \/ loop_defer(t) \/ loop_queue(t) \/ loop_on_fd(t)
    \/ \E d \in Deadline : loop_delay(t, d)
    \/ \E a \in {"resume", "throw"}, front \in BOOLEAN : resolve(t, a, front)
    \/ loop_cancel(t) \/ loop_unreference(t)

SliceEnds ==
  \/ \E d \in Deadline : parkOnTimer(d)
  \/ loop_park_on_fd \/ suspendArmed \/ suspendOnSuspension \/ yieldToScheduler
  \/ taskReturns \/ taskThrows

Pump ==
  \/ runMicrotask \/ microtasksDone \/ runReady \/ skipReady \/ turnEnds
  \/ poll_reactor_nonblocking \/ poll_reactor
  \/ wake_key \/ wake_expired_timers \/ pollDone \/ runOne \/ pumpReturns

Next ==
  \/ Operations \/ loop_arm_fd \/ SliceEnds \/ Pump
  \/ \E mode \in {"drain", "once"} : startPump(mode)

Spec == Init /\ [][Next]_vars

\* The pump's own steps never wait, user code reaches the end of its slice,
\* and the main program ends in Async\drain.
Fairness ==
  /\ WF_vars(Pump)
  /\ WF_vars(SliceEnds)
  /\ WF_vars(startPump("drain"))

FairSpec == Spec /\ Fairness

------------------------------------------------------------------------------
TypeOK ==
  /\ s \in Schedulers
  /\ coroutine \in [TaskId -> CoroutineState]
  /\ wait \in [TaskId -> WaitKind]
  /\ resolved \in [TaskId -> BOOLEAN]
  /\ armed \in [TaskId -> BOOLEAN]
  /\ cancelled_tasks \subseteq TaskId
  /\ pump \in Pumps
  /\ frames \in Seq([task : TaskId, pump : Pumps])
  /\ drained \in BOOLEAN

\* A live task stands in the queue of its kind, once, when `queued` says so
\* and in no queue otherwise, and a queued task has an activation to run:
\* next_queued_activation never skips a live task and loses its wake.
QueuesConsistent == wellQueued(s)

\* The counters that decide when the loop ends, referenced_tasks and
\* live_timers, equal what they count, so neither `-= 1` underflows and
\* is_idle and has_wake_source tell the truth.
CountersExact == wellCounted(s)

\* Every armed timer is in the heap with the task's generation, compaction
\* and pruning included, so the blocking poll has a deadline to wait for.
ArmedTimersInHeap == wellTimed(s)

\* The scheduler's queues, counters and timer heap agree through every operation
\* of the running code and every step of the pump.
SchedulerConsistent == TypeOK /\ QueuesConsistent /\ CountersExact /\ ArmedTimersInHeap

\* A timer that may still fire belongs to the wait its task is in, or to a
\* delayed task that has not started: a stale timer never resumes a later
\* suspension.
NoStaleTimer ==
  \A e \in s.timers :
    guards(s, e) =>
      \/ coroutine[e.task] = "Fresh" /\ ~s.queued[e.task]
      \/ coroutine[e.task] = "Suspended" /\ wait[e.task] = "timer" /\ ~s.queued[e.task]

\* The activation a task is queued with fits its coroutine: activate_task
\* never starts a started coroutine or resumes one that is not suspended.
ActivationFits ==
  \A t \in s.live :
    /\ s.pending[t] = "start" <=> coroutine[t] = "Fresh"
    /\ s.queued[t] => coroutine[t] \in {"Fresh", "Suspended"}

\* A suspended task is queued or something can still wake it: its timer, its
\* descriptor or the holder of its unresolved suspension.  A task that has
\* not started is queued or armed.
NoTaskStranded ==
  \A t \in s.live :
    LET onTimer == s.timer_generation[t] # None
        onDescriptor == t \in s.waiters
    IN /\ coroutine[t] = "Fresh" => s.queued[t] \/ onTimer \/ onDescriptor
       /\ coroutine[t] = "Suspended" =>
            \/ s.queued[t]
            \/ wait[t] = "timer" /\ onTimer
            \/ wait[t] \in {"descriptor", "armed"} /\ onDescriptor
            \/ wait[t] = "suspension" /\ ~resolved[t]

\* Every task that waits has its wake to come, and every wake finds its task in
\* the state it is meant for, whichever wakes, cancellations and nested pumps
\* meet at the task.
WakesDelivered == ActivationFits /\ NoTaskStranded

\* A cancelled task is never left parked: it runs, or is queued to see the
\* cancellation at every suspension point it reaches.
CancelledNeverParked ==
  \A t \in cancelled_tasks :
    /\ t \in s.live
    /\ \/ coroutine[t] = "Running"
       \/ coroutine[t] = "Suspended" /\ s.queued[t]

\* When the pump reports that nothing is left (false), no task is queued and
\* a referenced task, if any remains, waits for a suspension that only code
\* outside the loop can resolve, or runs below this pump.
DrainedMeansStuck ==
  [][~drained /\ drained' =>
       \A t \in s.live :
         /\ ~s.queued[t]
         /\ s.referenced[t] /\ ~isIdle(s) =>
              \/ coroutine[t] = "Running"
              \/ wait[t] = "suspension" /\ ~resolved[t]]_vars

\* "Waits until a descriptor is readable" (IO/_Private/functions.whim): a task
\* suspended in wait_readable after arm_readable is still armed on the
\* descriptor, or already queued.
ArmedWaitStaysArmed ==
  \A t \in s.live :
    coroutine[t] = "Suspended" /\ wait[t] = "armed" => s.queued[t] \/ t \in s.waiters

\* A queued task runs or is cancelled, whatever the microtasks do and however
\* pumps nest, unless tasks throw for ever: an error leaves the pump.
QueuedTaskRuns ==
  <>[][~taskThrows]_vars =>
    \A t \in TaskId : (t \in s.live /\ s.queued[t]) ~> (t \notin s.live \/ ~s.queued[t])

==============================================================================
