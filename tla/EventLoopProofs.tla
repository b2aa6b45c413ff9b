--------------------------- MODULE EventLoopProofs ---------------------------
(****************************************************************************)
(* The scheduler stays well formed in every run of the event loop, for any  *)
(* set of tasks, deadlines and features, any batch size and any nesting of  *)
(* pumps.                                                                   *)
(*                                                                          *)
(* Then what becomes of a task: which wakes it may have in each state of its*)
(* coroutine, and that the operations of the running code and the ends of   *)
(* its slice keep that.  EventLoopTaskProofs goes on with the pump.         *)
(****************************************************************************)
EXTENDS EventLoop, SchedulerProofs

Frame == [task : TaskId, pump : Pumps]

\* The inductive invariant: the types, and the accounts of the scheduler.
IInv == TypeOK /\ wellFormed(s)

------------------------------------------------------------------------------
(* The pump's record.                                                       *)

LEMMA IdlePump ==
  idlePump \in Pumps
BY DEF idlePump, Pumps, Phase

LEMMA UpdatePump ==
  ASSUME NEW p \in Pumps
  PROVE  /\ \A v \in Phase : [p EXCEPT !.phase = v] \in Pumps
         /\ \A v \in Phase : [p EXCEPT !.next = v] \in Pumps
         /\ \A v \in {"drain", "once"} : [p EXCEPT !.mode = v] \in Pumps
         /\ \A v \in Nat : [p EXCEPT !.batch = v] \in Pumps
         /\ \A v \in Nat : [p EXCEPT !.ready_count = v] \in Pumps
         /\ \A v \in BOOLEAN : [p EXCEPT !.ran = v] \in Pumps
         /\ \A v \in SUBSET TaskId : [p EXCEPT !.readiness = v] \in Pumps
         /\ \A v \in Deadline \cup {0} : [p EXCEPT !.horizon = v] \in Pumps
BY DEF Pumps

LEMMA Phases ==
  /\ "code" \in Phase /\ "micro" \in Phase /\ "ready" \in Phase /\ "one" \in Phase
  /\ "poll" \in Phase /\ "block" \in Phase /\ "events" \in Phase /\ "return" \in Phase
BY DEF Phase

LEMMA LoopTop ==
  ASSUME NEW p \in Pumps, NEW sched \in Schedulers
  PROVE  loopTop(p, sched) \in Pumps
<1> DEFINE n == Min({Len(sched.microtasks), MICROTASK_BATCH_SIZE})
<1>1. n \in Nat
  <2>1. Len(sched.microtasks) \in Nat /\ MICROTASK_BATCH_SIZE \in Nat
    BY EventLoopAssumption DEF Schedulers
  <2>2. /\ {Len(sched.microtasks), MICROTASK_BATCH_SIZE} \subseteq Nat
        /\ {Len(sched.microtasks), MICROTASK_BATCH_SIZE} # {}
    BY <2>1
  <2>3. n \in {Len(sched.microtasks), MICROTASK_BATCH_SIZE}
    BY <2>2, MinExists, Zenon
  <2> QED
    BY <2>2, <2>3
<1>2. loopTop(p, sched) = [p EXCEPT !.phase = "micro", !.batch = n]
  BY DEF loopTop
<1> HIDE DEF n
<1>3. [p EXCEPT !.phase = "micro", !.batch = n] \in Pumps
  BY <1>1, UpdatePump, Phases, Zenon
<1> QED
  BY <1>2, <1>3

LEMMA FirstTurn ==
  ASSUME NEW mode \in {"drain", "once"}, NEW sched \in Schedulers
  PROVE  firstTurn(mode, sched) \in Pumps
<1>1. Len(sched.ready) \in Nat
  BY DEF Schedulers
<1>2. [idlePump EXCEPT !.mode = mode, !.ready_count = Len(sched.ready)] \in Pumps
  BY <1>1, IdlePump, UpdatePump, Zenon
<1> QED
  BY <1>2, LoopTop DEF firstTurn

LEMMA Returned ==
  ASSUME NEW result \in BOOLEAN, NEW sched \in Schedulers
  PROVE  returned(result, sched) \in Pumps
BY FirstTurn, IdlePump DEF returned

------------------------------------------------------------------------------
(* The stack of running tasks.                                              *)

LEMMA TopFrame ==
  ASSUME TypeOK, frames # <<>>
  PROVE  /\ topFrame \in Frame /\ me = topFrame.task /\ me \in TaskId
         /\ topFrame.pump \in Pumps
         /\ framesBelow \in Seq(Frame)
<1>1. frames \in Seq(Frame)
  BY DEF TypeOK, Frame
<1>2. Len(frames) \in 1..Len(frames)
  BY <1>1, SeqEmpty, SeqDomain
<1>3. topFrame \in Frame
  BY <1>1, <1>2 DEF topFrame
<1>4. framesBelow \in Seq(Frame)
  BY <1>1, <1>2 DEF framesBelow
<1> QED
  BY <1>3, <1>4 DEF me, Frame

LEMMA InTask ==
  ASSUME inTask
  PROVE  frames # <<>>
BY DEF inTask, me

LEMMA Back ==
  ASSUME TypeOK, frames # <<>>, NEW sched \in Schedulers, back(sched)
  PROVE  pump' \in Pumps /\ frames' \in Seq(Frame)
BY TopFrame, LoopTop DEF back

\* A task that suspends at point w leaves a well-formed scheduler.
LEMMA Suspend ==
  ASSUME IInv, inTask, NEW w \in WaitKind, NEW sched, wellFormed(sched), suspend(w, sched)
  PROVE  IInv'
<1>1. frames # <<>> /\ me \in TaskId
  BY InTask, TopFrame DEF IInv
<1> DEFINE cleared == [sched EXCEPT !.current = None]
<1>2. wellFormed(cleared)
  BY Current
<1>3. s' = IF me \in cancelled_tasks THEN enqueue(cleared, me, "throw", FALSE) ELSE cleared
  BY DEF suspend
<1> HIDE DEF cleared
<1>4. wellFormed(s')
  BY <1>1, <1>2, <1>3, Enqueue, Zenon DEF Activation
<1>5. s' \in Schedulers
  BY <1>4 DEF wellFormed
<1>6. back(s')
  BY DEF suspend
<1>7. pump' \in Pumps /\ frames' \in Seq(Frame)
  BY <1>1, <1>5, <1>6, Back DEF IInv
<1>8. /\ coroutine' \in [TaskId -> CoroutineState] /\ wait' \in [TaskId -> WaitKind]
      /\ resolved' = resolved /\ armed' = armed /\ cancelled_tasks' = cancelled_tasks
      /\ drained' = drained
  BY <1>1 DEF suspend, IInv, TypeOK, CoroutineState
<1> QED
  BY <1>4, <1>5, <1>7, <1>8 DEF IInv, TypeOK, Frame

\* A task that is activated comes from the queue.
LEMMA Activate ==
  ASSUME IInv, NEW q \in Seq(TaskId), NEW n \in DOMAIN q, NEW micro \in BOOLEAN,
         NEW resume \in Pumps, activate(q, n, micro, resume)
  PROVE  IInv'
<1>1. q[n] \in TaskId
  OBVIOUS
<1>2. wellFormed(s')
  BY NextActivation DEF activate, IInv
<1>3. frames' \in Seq(Frame)
  <2>1. [task |-> q[n], pump |-> resume] \in Frame
    BY <1>1 DEF Frame
  <2> QED
    BY <2>1 DEF activate, IInv, TypeOK, Frame
<1>4. /\ coroutine' \in [TaskId -> CoroutineState] /\ wait' \in [TaskId -> WaitKind]
      /\ resolved' \in [TaskId -> BOOLEAN]
      /\ cancelled_tasks' = cancelled_tasks /\ drained' = drained /\ pump' = idlePump
  BY <1>1 DEF activate, IInv, TypeOK, CoroutineState, WaitKind
<1>5. armed' \in [TaskId -> BOOLEAN]
  BY <1>1 DEF activate, IInv, TypeOK
<1> QED
  BY <1>2, <1>3, <1>4, <1>5, IdlePump DEF IInv, TypeOK, wellFormed, Frame

------------------------------------------------------------------------------
\* Spawning, arming, resolving, cancelling and unreferencing a task.
LEMMA OperationsKeep ==
  ASSUME IInv, Operations
  PROVE  IInv'
<1> PICK t \in TaskId :
      \/ loop_defer(t) \/ loop_queue(t) \/ loop_on_fd(t)
      \/ \E d \in Deadline : loop_delay(t, d)
      \/ \E a \in {"resume", "throw"}, front \in BOOLEAN : resolve(t, a, front)
      \/ loop_cancel(t) \/ loop_unreference(t)
  BY DEF Operations
<1>0. wellFormed(s) /\ s.waiters \subseteq TaskId
  BY DEF IInv, wellFormed, Schedulers
<1>1. ASSUME started(t), wellFormed(s') PROVE IInv'
  BY <1>1 DEF started, IInv, TypeOK, wellFormed, CoroutineState, WaitKind
<1>2. ASSUME NEW micro \in BOOLEAN, absent(s, t)
      PROVE  /\ wellFormed(insertTask(s, t, micro))
             /\ wellFormed(spawn(s, t, micro))
  <2> DEFINE i == insertTask(s, t, micro)
  <2>1. wellFormed(i) /\ i.pending[t] = "start"
    BY <1>0, <1>2, InsertTask
  <2>2. i.pending[t] # None
    BY <2>1, SchedulerAssumption
  <2>3. spawn(s, t, micro) = markQueued(i, t, FALSE)
    BY DEF spawn
  <2> HIDE DEF i
  <2>4. wellFormed(markQueued(i, t, FALSE))
    BY <2>1, <2>2, MarkQueued, Zenon
  <2> QED
    BY <2>1, <2>3, <2>4, Zenon DEF i
<1>3. ASSUME UNCHANGED <<coroutine, wait, armed, pump, frames, drained>>,
             wellFormed(s'), cancelled_tasks' \subseteq TaskId,
             resolved' \in [TaskId -> BOOLEAN]
      PROVE  IInv'
  BY <1>3 DEF IInv, TypeOK, wellFormed
<1>4. ASSUME NEW W \in SUBSET TaskId, NEW sched, wellFormed(sched)
      PROVE  wellFormed([sched EXCEPT !.waiters = W])
  BY <1>4, Disarm
<1>5. wellFormed(disarm(s, t))
  <2>1. s.waiters \ {t} \in SUBSET TaskId
    BY <1>0
  <2> QED
    BY <1>0, <1>4, <2>1 DEF disarm
<1>6. CASE loop_defer(t)
  BY <1>1, <1>2, <1>6, Zenon DEF loop_defer
<1>7. CASE loop_queue(t)
  BY <1>1, <1>2, <1>7, Zenon DEF loop_queue
<1>8. CASE loop_on_fd(t)
  <2> DEFINE i == insertTask(s, t, FALSE)
  <2>1. wellFormed(i)
    BY <1>2, <1>8, Zenon DEF loop_on_fd
  <2>2. s' = armDescriptor(i, t) /\ started(t)
    BY <1>8 DEF loop_on_fd
  <2> HIDE DEF i
  <2>3. i.waiters \cup {t} \in SUBSET TaskId
    BY <2>1 DEF wellFormed, Schedulers
  <2>4. wellFormed(armDescriptor(i, t))
    BY <1>4, <2>1, <2>3 DEF armDescriptor
  <2> QED
    BY <1>1, <2>2, <2>4
<1>9. CASE \E d \in Deadline : loop_delay(t, d)
  <2> PICK d \in Deadline : loop_delay(t, d)
    BY <1>9
  <2>1. wellFormed(insertTask(s, t, FALSE))
    BY <1>2, Zenon DEF loop_delay
  <2>2. wellFormed(armTimer(insertTask(s, t, FALSE), t, d))
    BY <2>1, ArmTimer, Zenon
  <2> QED
    BY <1>1, <2>2 DEF loop_delay
<1>10. CASE \E a \in {"resume", "throw"}, front \in BOOLEAN : resolve(t, a, front)
  <2> PICK a \in {"resume", "throw"}, front \in BOOLEAN : resolve(t, a, front)
    BY <1>10
  <2>1. wellFormed(enqueue(s, t, a, front))
    BY <1>0, Enqueue DEF Activation
  <2>2. /\ s' = enqueue(s, t, a, front)
        /\ UNCHANGED <<coroutine, wait, armed, pump, frames, drained>>
        /\ cancelled_tasks' \subseteq TaskId /\ resolved' \in [TaskId -> BOOLEAN]
    BY DEF resolve, IInv, TypeOK
  <2> QED
    BY <1>3, <2>1, <2>2
<1>11. CASE loop_cancel(t)
  <2>1. wellFormed(removeTask(disarm(s, t), t))
    BY <1>5, RemoveTask
  <2>2. wellFormed(enqueue(disarm(s, t), t, "throw", FALSE))
    BY <1>5, Enqueue, Zenon DEF Activation
  <2>3. /\ \/ s' = removeTask(disarm(s, t), t)
           \/ s' = enqueue(disarm(s, t), t, "throw", FALSE)
           \/ s' = disarm(s, t)
        /\ cancelled_tasks' \subseteq TaskId /\ resolved' \in [TaskId -> BOOLEAN]
        /\ UNCHANGED <<coroutine, wait, armed, pump, frames, drained>>
    BY <1>11, Zenon DEF loop_cancel, IInv, TypeOK
  <2> QED
    BY <1>3, <1>5, <2>1, <2>2, <2>3, Zenon
<1>12. CASE loop_unreference(t)
  <2>1. wellFormed(unreference(s, t))
    BY <1>0, Unreference
  <2>2. /\ s' = unreference(s, t)
        /\ cancelled_tasks' \subseteq TaskId /\ resolved' \in [TaskId -> BOOLEAN]
        /\ UNCHANGED <<coroutine, wait, armed, pump, frames, drained>>
    BY <1>12 DEF loop_unreference, IInv, TypeOK, taskVars
  <2> QED
    BY <1>3, <2>1, <2>2
<1> QED
  BY <1>6, <1>7, <1>8, <1>9, <1>10, <1>11, <1>12

\* The ends of a task's slice.
LEMMA SliceEndsKeep ==
  ASSUME IInv, SliceEnds
  PROVE  IInv'
<1>0. wellFormed(s) /\ s.waiters \subseteq TaskId /\ s.current \in TaskId \cup {None}
  BY DEF IInv, wellFormed, Schedulers
<1>1. ASSUME s.current # None PROVE wellFormed(armDescriptor(s, s.current))
  <2>1. s.waiters \cup {s.current} \in SUBSET TaskId
    BY <1>0, <1>1
  <2> QED
    BY <1>0, <2>1, Disarm DEF armDescriptor
<1>2. CASE \E d \in Deadline : parkOnTimer(d)
  <2> PICK d \in Deadline : parkOnTimer(d)
    BY <1>2
  <2> DEFINE sched == IF s.current = None THEN s ELSE armTimer(s, s.current, d)
  <2>1. wellFormed(sched)
    BY <1>0, ArmTimer
  <2>2. inTask /\ suspend("timer", sched) /\ "timer" \in WaitKind
    BY DEF parkOnTimer, WaitKind
  <2> HIDE DEF sched
  <2> QED
    BY <2>1, <2>2, Suspend
<1>3. CASE loop_park_on_fd
  <2>1. /\ inTask /\ s.current # None /\ "descriptor" \in WaitKind
        /\ suspend("descriptor", armDescriptor(s, s.current))
    BY <1>3 DEF loop_park_on_fd, WaitKind
  <2> QED
    BY <1>1, <2>1, Suspend
<1>4. CASE suspendArmed
  <2>1. inTask /\ suspend("armed", s) /\ "armed" \in WaitKind
    BY <1>4 DEF suspendArmed, WaitKind
  <2> QED
    BY <1>0, <2>1, Suspend
<1>5. CASE suspendOnSuspension
  <2>1. inTask /\ suspend("suspension", s) /\ "suspension" \in WaitKind
    BY <1>5 DEF suspendOnSuspension, WaitKind
  <2> QED
    BY <1>0, <2>1, Suspend
<1>6. CASE yieldToScheduler
  <2>1. /\ inTask /\ s.current # None /\ "yield" \in WaitKind
        /\ suspend("yield", enqueue(s, s.current, "resume", FALSE))
    BY <1>6, Zenon DEF yieldToScheduler, WaitKind
  <2>2. wellFormed(enqueue(s, s.current, "resume", FALSE))
    BY <1>0, <2>1, Enqueue, Zenon DEF Activation
  <2> QED
    BY <2>1, <2>2, Suspend, Zenon
<1>7. ASSUME inTask, s' = removeTask([s EXCEPT !.current = None], me),
             coroutine' = [coroutine EXCEPT ![me] = "Terminated"],
             cancelled_tasks' = cancelled_tasks \ {me},
             back(s') \/ (pump' = idlePump /\ frames' = framesBelow),
             UNCHANGED <<wait, resolved, armed, drained>>
      PROVE  IInv'
  <2>1. frames # <<>> /\ me \in TaskId /\ framesBelow \in Seq(Frame)
    BY <1>7, InTask, TopFrame DEF IInv
  <2>2. wellFormed([s EXCEPT !.current = None])
    BY <1>0, Current
  <2>3. wellFormed(s')
    BY <1>7, <2>1, <2>2, RemoveTask
  <2>4. s' \in Schedulers
    BY <2>3 DEF wellFormed
  <2>5. pump' \in Pumps /\ frames' \in Seq(Frame)
    BY <1>7, <2>1, <2>4, Back, IdlePump DEF IInv
  <2>6. coroutine' \in [TaskId -> CoroutineState] /\ cancelled_tasks' \subseteq TaskId
    BY <1>7, <2>1 DEF IInv, TypeOK, CoroutineState
  <2> QED
    BY <1>7, <2>3, <2>4, <2>5, <2>6 DEF IInv, TypeOK, Frame
<1>8. CASE taskReturns
  BY <1>7, <1>8 DEF taskReturns
<1>9. CASE taskThrows
  BY <1>7, <1>9 DEF taskThrows
<1> QED
  BY <1>2, <1>3, <1>4, <1>5, <1>6, <1>8, <1>9 DEF SliceEnds

LEMMA ArmKeeps ==
  ASSUME IInv, loop_arm_fd
  PROVE  IInv'
<1>1. wellFormed(s) /\ s.waiters \cup {s.current} \in SUBSET TaskId
  BY DEF IInv, wellFormed, Schedulers, loop_arm_fd
<1>2. wellFormed(s')
  BY <1>1, Disarm DEF loop_arm_fd, armDescriptor
<1>3. me \in TaskId
  BY InTask, TopFrame DEF loop_arm_fd, IInv
<1> QED
  BY <1>2, <1>3 DEF loop_arm_fd, IInv, TypeOK, wellFormed

\* The steps of the pump.
LEMMA PumpKeeps ==
  ASSUME IInv, Pump
  PROVE  IInv'
<1>0. /\ wellFormed(s) /\ s \in Schedulers /\ pump \in Pumps
      /\ s.microtasks \in Seq(TaskId) /\ s.ready \in Seq(TaskId) /\ s.waiters \subseteq TaskId
      /\ pump.batch \in Nat /\ pump.ready_count \in Nat /\ pump.readiness \subseteq TaskId
      /\ pump.next \in Phase
  BY Zenon DEF IInv, TypeOK, wellFormed, Schedulers, Pumps
<1>1. ASSUME wellFormed(s'), pump' \in Pumps, drained' \in BOOLEAN,
             UNCHANGED <<taskVars, frames>>
      PROVE  IInv'
  BY <1>1 DEF IInv, TypeOK, wellFormed, taskVars
<1>2. ASSUME NEW q \in Seq(TaskId), runnable(s, q) # {}
      PROVE  Min(runnable(s, q)) \in DOMAIN q
  <2>1. runnable(s, q) \subseteq Nat /\ runnable(s, q) \subseteq DOMAIN q
    BY DEF runnable
  <2> QED
    BY <1>2, <2>1, MinExists
<1>3. drained \in BOOLEAN
  BY DEF IInv, TypeOK
<1>4. CASE runMicrotask
  <2> DEFINE resume == [pump EXCEPT !.batch = pump.batch - 1, !.ran = TRUE]
  <2>1. resume \in Pumps
    <3>1. pump.batch - 1 \in Nat
      BY <1>0, <1>4 DEF runMicrotask
    <3> QED
      BY <1>0, <3>1, UpdatePump, Zenon
  <2>2. activate(s.microtasks, Min(microHits), TRUE, resume)
    BY <1>4, Zenon DEF runMicrotask
  <2>3. Min(microHits) \in DOMAIN s.microtasks
    BY <1>0, <1>2, <1>4 DEF runMicrotask, microHits
  <2> HIDE DEF resume
  <2> QED
    BY <1>0, <2>1, <2>2, <2>3, Activate, Zenon
<1>5. CASE microtasksDone
  <2>1. wellFormed(s')
    BY <1>0, <1>5, NextActivation, Zenon DEF microtasksDone
  <2>2. /\ [pump EXCEPT !.phase = "poll", !.next = "one"] \in Pumps
        /\ [pump EXCEPT !.phase = "ready"] \in Pumps
    BY <1>0, UpdatePump, Phases, Zenon
  <2> QED
    BY <1>1, <1>3, <1>5, <2>1, <2>2, Zenon DEF microtasksDone
<1>6. CASE runReady
  <2> DEFINE resume == [pump EXCEPT !.ready_count = pump.ready_count - 1, !.ran = TRUE]
  <2>1. resume \in Pumps
    <3>1. pump.ready_count - 1 \in Nat
      BY <1>0, <1>6 DEF runReady
    <3> QED
      BY <1>0, <3>1, UpdatePump, Zenon
  <2>2. activate(s.ready, Min(readyHits), FALSE, resume)
    BY <1>6, Zenon DEF runReady
  <2>3. Min(readyHits) \in DOMAIN s.ready
    BY <1>0, <1>2, <1>6 DEF runReady, readyHits
  <2> HIDE DEF resume
  <2> QED
    BY <1>0, <2>1, <2>2, <2>3, Activate, Zenon
<1>7. CASE skipReady
  <2> DEFINE p == [pump EXCEPT !.ready_count = pump.ready_count - 1]
  <2>1. wellFormed(s')
    BY <1>0, <1>7, NextActivation, Zenon DEF skipReady
  <2>2. s' \in Schedulers
    BY <2>1 DEF wellFormed
  <2>3. p \in Pumps
    <3>1. pump.ready_count - 1 \in Nat
      BY <1>0, <1>7 DEF skipReady
    <3> QED
      BY <1>0, <3>1, UpdatePump, Zenon
  <2>4. pump' = loopTop(p, s')
    BY <1>7 DEF skipReady
  <2> HIDE DEF p
  <2>5. pump' \in Pumps
    BY <2>2, <2>3, <2>4, LoopTop
  <2> QED
    BY <1>1, <1>3, <1>7, <2>1, <2>5 DEF skipReady
<1>8. CASE turnEnds
  <2>1. /\ [pump EXCEPT !.phase = "poll", !.next = "return"] \in Pumps
        /\ [pump EXCEPT !.phase = "block"] \in Pumps
    BY <1>0, UpdatePump, Phases, Zenon
  <2>2. returned(FALSE, s) \in Pumps
    BY <1>0, Returned, Zenon
  <2>3. pump' \in Pumps /\ drained' \in BOOLEAN /\ s' = s /\ UNCHANGED <<taskVars, frames>>
    BY <1>3, <1>8, <2>1, <2>2, Zenon DEF turnEnds
  <2> QED
    BY <1>0, <1>1, <2>3
<1>9. CASE poll_reactor_nonblocking
  <2>1. PICK R \in SUBSET s.waiters, h \in Deadline \cup {0} :
          pump' = [pump EXCEPT !.phase = "events", !.readiness = R, !.horizon = h]
    BY <1>9, Zenon DEF poll_reactor_nonblocking
  <2>2. [pump EXCEPT !.phase = "events", !.readiness = R, !.horizon = h] \in Pumps
    <3>1. R \in SUBSET TaskId
      BY <1>0
    <3> QED
      BY <1>0, <3>1, UpdatePump, Phases, Zenon
  <2> QED
    BY <1>0, <1>1, <1>3, <1>9, <2>1, <2>2 DEF poll_reactor_nonblocking
<1>10. CASE poll_reactor
  <2>1. PICK R \in SUBSET s.waiters, h \in Deadline \cup {0} :
          pump' = [pump EXCEPT !.phase = "events", !.next = "return",
                               !.readiness = R, !.horizon = h]
    BY <1>10, Zenon DEF poll_reactor
  <2>2. [pump EXCEPT !.phase = "events", !.next = "return",
                     !.readiness = R, !.horizon = h] \in Pumps
    <3>1. R \in SUBSET TaskId
      BY <1>0
    <3> QED
      BY <1>0, <3>1, UpdatePump, Phases, Zenon
  <2>3. wellFormed(s')
    BY <1>0, <1>10, PruneStaleTimerHead DEF poll_reactor
  <2> QED
    BY <1>1, <1>3, <1>10, <2>1, <2>2, <2>3 DEF poll_reactor
<1>11. CASE wake_key
  <2>1. PICK t \in pump.readiness :
          s' = wakeKey(s, t) /\ pump' = [pump EXCEPT !.readiness = pump.readiness \ {t}]
    BY <1>11 DEF wake_key
  <2>2. wellFormed(s')
    BY <1>0, <2>1, WakeKey
  <2>3. [pump EXCEPT !.readiness = pump.readiness \ {t}] \in Pumps
    <3>1. pump.readiness \ {t} \in SUBSET TaskId
      BY <1>0
    <3> QED
      BY <1>0, <3>1, UpdatePump, Zenon
  <2> QED
    BY <1>1, <1>3, <1>11, <2>1, <2>2, <2>3 DEF wake_key
<1>12. CASE wake_expired_timers
  <2>1. PICK e \in s.timers : s' = expire(s, e)
    BY <1>12 DEF wake_expired_timers, earliest, expired
  <2>2. wellFormed(s')
    BY <1>0, <2>1, Expire
  <2> QED
    BY <1>0, <1>1, <1>3, <1>12, <2>2 DEF wake_expired_timers
<1>13. CASE pollDone
  <2>1. [pump EXCEPT !.phase = pump.next, !.horizon = 0] \in Pumps
    BY <1>0, UpdatePump, Zenon
  <2> QED
    BY <1>0, <1>1, <1>3, <1>13, <2>1 DEF pollDone
<1>14. CASE runOne
  <2>1. [pump EXCEPT !.phase = "return"] \in Pumps
    BY <1>0, UpdatePump, Phases, Zenon
  <2>2. CASE readyHits # {}
    <3>1. Min(readyHits) \in DOMAIN s.ready
      BY <1>0, <1>2, <2>2 DEF readyHits
    <3>2. activate(s.ready, Min(readyHits), FALSE, [pump EXCEPT !.phase = "return"])
      BY <1>14, <2>2, Zenon DEF runOne
    <3> QED
      BY <1>0, <2>1, <3>1, <3>2, Activate, Zenon
  <2>3. CASE readyHits = {}
    <3>1. /\ s' = nextActivation(s, FALSE) /\ pump' = [pump EXCEPT !.phase = "return"]
          /\ UNCHANGED <<taskVars, frames, drained>>
      BY <1>14, <2>3 DEF runOne
    <3>2. wellFormed(s')
      BY <1>0, <3>1, NextActivation, Zenon
    <3> QED
      BY <1>1, <1>3, <2>1, <3>1, <3>2
  <2> QED
    BY <2>2, <2>3
<1>15. CASE pumpReturns
  <2>1. returned(TRUE, s) \in Pumps
    BY <1>0, Returned, Zenon
  <2> QED
    BY <1>0, <1>1, <1>3, <1>15, <2>1 DEF pumpReturns
<1> QED
  BY <1>4, <1>5, <1>6, <1>7, <1>8, <1>9, <1>10, <1>11, <1>12, <1>13, <1>14, <1>15 DEF Pump

LEMMA StartKeeps ==
  ASSUME IInv, NEW mode \in {"drain", "once"}, startPump(mode)
  PROVE  IInv'
<1>1. s \in Schedulers
  BY DEF IInv, TypeOK
<1>2. firstTurn(mode, s) \in Pumps
  BY <1>1, FirstTurn
<1> QED
  BY <1>2, Zenon DEF startPump, IInv, TypeOK, wellFormed, taskVars

------------------------------------------------------------------------------
\* Every run of the event loop keeps the types of its state and the accounts
\* of the scheduler: queues, counters and timer heap agree with the tasks.
THEOREM EventLoopInvariant == Spec => []IInv
<1>1. Init => IInv
  <2> SUFFICES ASSUME Init PROVE IInv
    OBVIOUS
  <2>1. wellFormed(s)
    BY NewScheduler DEF Init
  <2>2. s \in Schedulers
    BY <2>1 DEF wellFormed
  <2>3. /\ coroutine \in [TaskId -> CoroutineState] /\ wait \in [TaskId -> WaitKind]
        /\ resolved \in [TaskId -> BOOLEAN] /\ armed \in [TaskId -> BOOLEAN]
        /\ cancelled_tasks \subseteq TaskId /\ pump = idlePump /\ drained \in BOOLEAN
    BY Zenon DEF Init, CoroutineState, WaitKind
  <2>4. frames \in Seq(Frame)
    BY DEF Init
  <2>5. TypeOK
    BY <2>2, <2>3, <2>4, IdlePump DEF TypeOK, Frame
  <2> QED
    BY <2>1, <2>5 DEF IInv
<1>2. IInv /\ [Next]_vars => IInv'
  <2> SUFFICES ASSUME IInv, [Next]_vars PROVE IInv'
    OBVIOUS
  <2>1. CASE Next
    BY <2>1, OperationsKeep, ArmKeeps, SliceEndsKeep, PumpKeeps, StartKeeps DEF Next
  <2>2. CASE UNCHANGED vars
    BY <2>2 DEF vars, IInv, TypeOK, wellFormed
  <2> QED
    BY <2>1, <2>2
<1> QED
  BY <1>1, <1>2, PTL DEF Spec

\* Type correctness of the event loop and its scheduler.
THEOREM EventLoopTypeOK == Spec => []TypeOK
<1>1. IInv => TypeOK
  BY DEF IInv
<1> QED
  BY <1>1, EventLoopInvariant, PTL

\* A live task is in the queue of its kind exactly once when it is marked
\* queued, and in no queue otherwise: no wake is lost by a popped entry.
THEOREM EventLoopQueuesConsistent == Spec => []QueuesConsistent
<1>1. IInv => QueuesConsistent
  BY DEF IInv, wellFormed, QueuesConsistent
<1> QED
  BY <1>1, EventLoopInvariant, PTL

\* referenced_tasks and live_timers count what they say they count, so is_idle
\* and has_wake_source end a drain only when they should.
THEOREM EventLoopCountersExact == Spec => []CountersExact
<1>1. IInv => CountersExact
  BY DEF IInv, wellFormed, CountersExact
<1> QED
  BY <1>1, EventLoopInvariant, PTL

\* The entry of an armed timer survives compaction, pruning and re-arming.
THEOREM EventLoopArmedTimersInHeap == Spec => []ArmedTimersInHeap
<1>1. IInv => ArmedTimersInHeap
  BY DEF IInv, wellFormed, ArmedTimersInHeap
<1> QED
  BY <1>1, EventLoopInvariant, PTL

\* The scheduler's queues, counters and timer heap agree in every reachable state
\* of the loop, for any number of tasks, deadlines and nested pumps.
THEOREM EventLoopSchedulerConsistent == Spec => []SchedulerConsistent
  BY EventLoopTypeOK, EventLoopQueuesConsistent, EventLoopCountersExact,
     EventLoopArmedTimersInHeap, PTL DEF SchedulerConsistent

------------------------------------------------------------------------------
(* The tasks.  Two programs lose a wake, by what the code does: one whose   *)
(* finalizers run between arm_readable and suspend, and one that parks on a *)
(* timer in a task that called Async\drain, when no task is current any     *)
(* more.  What depends on every wake being kept is proved for the other     *)
(* programs (KeepsWakes); the rest is proved for all.                       *)

LosesDescriptor == "finalizer" \in Features
LosesTimer == "nested" \in Features /\ "timer" \in Features
KeepsWakes == ~LosesDescriptor /\ ~LosesTimer

------------------------------------------------------------------------------
(* The inductive invariant.  A live task is in one of three conditions.     *)

\* Not started: queued, or armed on a timer or on a descriptor.
FreshOK(t) ==
  /\ coroutine[t] = "Fresh" /\ s.pending[t] = "start" /\ ~armed[t]
  /\ \/ s.queued[t] /\ s.timer_generation[t] = None /\ t \notin s.waiters
     \/ ~s.queued[t] /\ (s.timer_generation[t] # None <=> t \notin s.waiters)

\* Running: on the coroutine stack, with no wake at all, except that it may be
\* between arm_readable and suspend when it is the task whose code runs.
RunningOK(t) ==
  /\ coroutine[t] = "Running" /\ s.pending[t] = None /\ ~s.queued[t] /\ ~resolved[t]
  /\ s.timer_generation[t] = None
  /\ t \in s.waiters => armed[t]
  /\ armed[t] => /\ t = me /\ pump.phase = "code"
                 /\ t \in s.waiters \/ LosesDescriptor
  /\ \E i \in DOMAIN frames : frames[i].task = t

\* Queued with the wake that it got.
WokenOK(x, t) ==
  /\ x.queued[t] /\ x.pending[t] \in {"resume", "throw"}
  /\ x.timer_generation[t] = None /\ t \notin x.waiters

\* Parked at suspension point w, with the one wake of that point to come.
ParkedOK(x, t, w) ==
  LET timed == x.timer_generation[t] # None
      watched == t \in x.waiters
  IN /\ ~x.queued[t] /\ x.pending[t] = None
     /\ \/ w = "timer" /\ (timed \/ LosesTimer) /\ ~watched
        \/ w = "descriptor" /\ ~timed /\ watched
        \/ w = "armed" /\ ~timed /\ (watched \/ LosesDescriptor)
        \/ w = "suspension" /\ ~resolved[t] /\ ~timed /\ ~watched

SuspendedOK(t) ==
  /\ coroutine[t] = "Suspended"
  /\ wait[t] = "yield" => ~armed[t] \/ LosesDescriptor
  /\ WokenOK(s, t) \/ ParkedOK(s, t, wait[t])

TaskOK(t) == FreshOK(t) \/ RunningOK(t) \/ SuspendedOK(t)

TasksOK == \A t \in s.live : TaskOK(t)

\* The coroutine stack holds running tasks, each once.
FramesOK ==
  /\ \A i, j \in DOMAIN frames : frames[i].task = frames[j].task => i = j
  /\ \A i \in DOMAIN frames :
       frames[i].task \in s.live /\ coroutine[frames[i].task] = "Running"

\* The current task is the one on top; without nested pumps there is no other.
CurrentOK ==
  /\ s.current # None => s.current = me
  /\ "nested" \notin Features =>
       Len(frames) <= 1 /\ (frames # <<>> => pump.phase = "code" /\ s.current = me)

\* A pump that has run nothing still accounts for the whole ready queue, and a
\* pump below a task has run that task.
PumpOK ==
  /\ pump.next \in {"one", "return"}
  /\ pump.phase \in {"micro", "ready"} /\ ~pump.ran => Len(s.ready) <= pump.ready_count
  /\ pump.phase = "ready" => s.microtasks = <<>>

BelowOK(p) == p.next \in {"one", "return"} /\ (p.phase \in {"micro", "ready"} => p.ran)

JInv ==
  /\ TasksOK /\ FramesOK /\ CurrentOK /\ PumpOK /\ CancelledNeverParked
  /\ \A i \in DOMAIN frames : BelowOK(frames[i].pump)

------------------------------------------------------------------------------
(* Steps that leave a task alone.                                           *)

\* The step changes nothing of u's coroutine.
untouched(u) ==
  /\ coroutine'[u] = coroutine[u] /\ wait'[u] = wait[u]
  /\ resolved'[u] = resolved[u] /\ armed'[u] = armed[u]

LEMMA TaskTypes ==
  ASSUME IInv
  PROVE  /\ wellFormed(s) /\ s.live \subseteq TaskId /\ s.waiters \subseteq TaskId
         /\ s.queued \in [TaskId -> BOOLEAN] /\ s.current \in TaskId \cup {None}
         /\ s.pending \in [TaskId -> Activation \cup {None}]
         /\ s.timer_generation \in [TaskId -> Nat \cup {None}]
         /\ coroutine \in [TaskId -> CoroutineState] /\ wait \in [TaskId -> WaitKind]
         /\ resolved \in [TaskId -> BOOLEAN] /\ armed \in [TaskId -> BOOLEAN]
         /\ cancelled_tasks \subseteq TaskId /\ pump \in Pumps /\ frames \in Seq(Frame)
         /\ None \notin TaskId
BY SchedulerAssumption DEF IInv, TypeOK, wellFormed, Schedulers, Frame

LEMMA ReadyLength ==
  ASSUME IInv
  PROVE  Len(s.ready) \in Nat
BY SeqDomain DEF IInv, TypeOK, Schedulers

\* A task that the scheduler treats as before and whose coroutine is untouched
\* stays in its condition.
LEMMA OtherTask ==
  ASSUME NEW u \in s.live, TaskOK(u), alike(s', s, u), untouched(u),
         coroutine[u] = "Running" =>
           /\ armed[u] => u = me' /\ pump'.phase = "code"
           /\ \E i \in DOMAIN frames' : frames'[i].task = u
  PROVE  u \in s'.live /\ TaskOK(u)'
<1>1. /\ u \in s'.live
      /\ s'.pending[u] = s.pending[u] /\ s'.queued[u] = s.queued[u]
      /\ s'.timer_generation[u] = s.timer_generation[u]
      /\ u \in s'.waiters <=> u \in s.waiters
  BY DEF alike
<1>2. /\ coroutine'[u] = coroutine[u] /\ wait'[u] = wait[u]
      /\ resolved'[u] = resolved[u] /\ armed'[u] = armed[u]
  BY DEF untouched
<1>3. CASE FreshOK(u)
  <2>1. FreshOK(u)'
    BY <1>1, <1>2, <1>3, Zenon DEF FreshOK
  <2> QED
    BY <1>1, <2>1 DEF TaskOK
<1>4. CASE RunningOK(u)
  <2>1. RunningOK(u)'
    BY <1>1, <1>2, <1>4, Zenon DEF RunningOK
  <2> QED
    BY <1>1, <2>1 DEF TaskOK
<1>5. CASE SuspendedOK(u)
  <2>1. SuspendedOK(u)'
    BY <1>1, <1>2, <1>5, Zenon DEF SuspendedOK, WokenOK, ParkedOK
  <2> QED
    BY <1>1, <2>1 DEF TaskOK
<1> QED
  BY <1>3, <1>4, <1>5 DEF TaskOK

\* While a pump runs, or code that is free to call the loop, no running task is
\* between arm_readable and suspend.
LEMMA NotArmed ==
  ASSUME IInv, JInv, NEW u \in s.live, coroutine[u] = "Running",
         pump.phase # "code" \/ coding
  PROVE  ~armed[u] /\ u \notin s.waiters
<1>1. RunningOK(u)
  BY DEF JInv, TasksOK, TaskOK, FreshOK, SuspendedOK
<1>2. u # None
  BY TaskTypes
<1> QED
  BY <1>1, <1>2 DEF RunningOK, coding

\* A cancelled task that the step leaves alone still sees its cancellation.
LEMMA OtherCancelled ==
  ASSUME JInv, NEW u \in cancelled_tasks, alike(s', s, u), coroutine'[u] = coroutine[u]
  PROVE  /\ u \in s'.live
         /\ coroutine'[u] = "Running" \/ (coroutine'[u] = "Suspended" /\ s'.queued[u])
BY DEF JInv, CancelledNeverParked, alike

\* A step that changes the condition of task t alone: an operation of the
\* running code, or an event that the pump delivers.
LEMMA OneTask ==
  ASSUME IInv, IInv', JInv, NEW t \in TaskId,
         othersAlike(s', s, t), s'.current = s.current,
         \A u \in TaskId \ {t} : untouched(u),
         t \in s'.live => TaskOK(t)',
         t \in s.live /\ coroutine[t] = "Running" => t \in s'.live /\ coroutine'[t] = "Running",
         cancelled_tasks' \subseteq cancelled_tasks \cup {t},
         t \in cancelled_tasks' =>
           /\ t \in s'.live
           /\ coroutine'[t] = "Running" \/ (coroutine'[t] = "Suspended" /\ s'.queued[t]),
         frames' = frames,
         pump'.phase = pump.phase, pump'.next = pump.next,
         pump.phase \notin {"micro", "ready"}
  PROVE  JInv'
<1>0. s.live \subseteq TaskId /\ cancelled_tasks \subseteq TaskId
  BY TaskTypes
<1>1. me' = me
  BY DEF me, topFrame
<1>2. \A u \in TaskId \ {t} : alike(s', s, u)
  BY DEF othersAlike
<1>3. TasksOK'
  <2> SUFFICES ASSUME NEW u \in s'.live, u # t PROVE TaskOK(u)'
    BY DEF TasksOK
  <2>1. s'.live \subseteq TaskId
    BY DEF IInv, TypeOK, Schedulers
  <2>2. u \in TaskId \ {t}
    BY <2>1
  <2>3. alike(s', s, u) /\ untouched(u)
    BY <1>2, <2>2
  <2>4. u \in s.live
    BY <2>3 DEF alike
  <2>5. TaskOK(u)
    BY <2>4 DEF JInv, TasksOK
  <2>6. coroutine[u] = "Running" => RunningOK(u)
    BY <2>5 DEF TaskOK, FreshOK, SuspendedOK
  <2>7. coroutine[u] = "Running" =>
          /\ armed[u] => u = me' /\ pump'.phase = "code"
          /\ \E i \in DOMAIN frames' : frames'[i].task = u
    BY <1>1, <2>6 DEF RunningOK
  <2> QED
    BY <2>3, <2>4, <2>5, <2>7, OtherTask
<1>4. FramesOK'
  <2> SUFFICES ASSUME NEW i \in DOMAIN frames
               PROVE  frames[i].task \in s'.live /\ coroutine'[frames[i].task] = "Running"
    BY DEF FramesOK, JInv
  <2>1. frames[i].task \in s.live /\ coroutine[frames[i].task] = "Running"
    BY DEF FramesOK, JInv
  <2>2. CASE frames[i].task = t
    BY <2>1, <2>2
  <2>3. CASE frames[i].task # t
    BY <1>0, <1>2, <2>1, <2>3 DEF alike, untouched
  <2> QED
    BY <2>2, <2>3
<1>5. CurrentOK'
  BY <1>1 DEF CurrentOK, JInv
<1>6. PumpOK' /\ \A i \in DOMAIN frames' : BelowOK(frames'[i].pump)
  BY DEF PumpOK, JInv
<1>7. CancelledNeverParked'
  <2> SUFFICES ASSUME NEW u \in cancelled_tasks', u # t
               PROVE  /\ u \in s'.live
                      /\ \/ coroutine'[u] = "Running"
                         \/ coroutine'[u] = "Suspended" /\ s'.queued[u]
    BY DEF CancelledNeverParked
  <2>1. u \in cancelled_tasks /\ u \in TaskId \ {t}
    BY <1>0
  <2>2. alike(s', s, u) /\ coroutine'[u] = coroutine[u]
    BY <1>2, <2>1 DEF untouched
  <2> QED
    BY <2>1, <2>2, OtherCancelled
<1> QED
  BY <1>3, <1>4, <1>5, <1>6, <1>7 DEF JInv, BelowOK

------------------------------------------------------------------------------
(* Operations of the running code.                                          *)

\* An absent identifier is neither live nor cancelled.
LEMMA AbsentTask ==
  ASSUME JInv, NEW t, absent(s, t)
  PROVE  t \notin s.live /\ t \notin cancelled_tasks
BY DEF JInv, CancelledNeverParked, absent

\* A new task, queued or armed.
LEMMA StartedTask ==
  ASSUME IInv, IInv', JInv, NEW t \in TaskId, absent(s, t), coding, started(t),
         othersAlike(s', s, t), s'.current = s.current, s'.pending[t] = "start",
         \/ s'.queued[t] /\ s'.timer_generation[t] = None /\ t \notin s'.waiters
         \/ ~s'.queued[t] /\ (s'.timer_generation[t] # None <=> t \notin s'.waiters)
  PROVE  JInv'
<1>1. t \notin s.live /\ t \notin cancelled_tasks
  BY AbsentTask
<1>2. /\ coroutine'[t] = "Fresh" /\ armed'[t] = FALSE
      /\ \A u \in TaskId \ {t} : untouched(u)
      /\ cancelled_tasks' = cancelled_tasks /\ pump' = pump /\ frames' = frames
  BY TaskTypes DEF started, untouched
<1>3. TaskOK(t)'
  BY <1>2 DEF TaskOK, FreshOK
<1>4. pump.phase = "code"
  BY DEF coding
<1> QED
  BY <1>1, <1>2, <1>3, <1>4, OneTask

LEMMA SpawnsTask ==
  ASSUME IInv, IInv', JInv, NEW t \in TaskId,
         loop_defer(t) \/ loop_queue(t) \/ loop_on_fd(t) \/ \E d \in Deadline : loop_delay(t, d)
  PROVE  JInv'
<1>0. wellFormed(s)
  BY DEF IInv
<1>1. absent(s, t) /\ coding /\ started(t)
  BY Zenon DEF loop_defer, loop_queue, loop_on_fd, loop_delay
<1>2. ASSUME NEW micro \in BOOLEAN, s' = spawn(s, t, micro) PROVE JInv'
  <2>1. /\ othersAlike(s', s, t) /\ s'.current = s.current /\ s'.pending[t] = "start"
        /\ s'.queued[t] /\ s'.timer_generation[t] = None /\ t \notin s'.waiters
    BY <1>0, <1>1, <1>2, SpawnTasks
  <2> QED
    BY <1>1, <2>1, StartedTask
<1>3. CASE loop_defer(t)
  BY <1>2, <1>3, Zenon DEF loop_defer
<1>4. CASE loop_queue(t)
  BY <1>2, <1>4, Zenon DEF loop_queue
<1> DEFINE i == insertTask(s, t, FALSE)
<1>5. /\ wellFormed(i) /\ t \in i.live
      /\ othersAlike(i, s, t) /\ i.current = s.current /\ i.pending[t] = "start"
      /\ ~i.queued[t] /\ i.timer_generation[t] = None /\ t \notin i.waiters
  <2>1. wellFormed(i) /\ t \in i.live
    BY <1>0, <1>1, InsertTask, Zenon
  <2>2. LET r == insertTask(s, t, FALSE)
        IN /\ othersAlike(r, s, t) /\ r.live = s.live \cup {t} /\ r.waiters = s.waiters
           /\ r.current = s.current /\ r.pending[t] = "start" /\ ~r.queued[t]
           /\ r.timer_generation[t] = None /\ t \notin r.waiters
    BY <1>0, <1>1, InsertTaskTasks, Zenon
  <2> QED
    BY <2>1, <2>2, Zenon
<1>6. CASE loop_on_fd(t)
  <2>1. s' = armDescriptor(i, t)
    BY <1>6 DEF loop_on_fd
  <2> HIDE DEF i
  <2>2. /\ othersAlike(s', i, t) /\ s'.pending = i.pending /\ s'.queued = i.queued
        /\ s'.timer_generation = i.timer_generation /\ s'.waiters = i.waiters \cup {t}
        /\ s'.current = i.current
    BY <1>5, <2>1, ArmDescriptorTasks
  <2>3. othersAlike(s', s, t)
    BY <1>5, <2>2, AlikeTransitive
  <2>4. /\ s'.current = s.current /\ s'.pending[t] = "start"
        /\ ~s'.queued[t] /\ (s'.timer_generation[t] # None <=> t \notin s'.waiters)
    BY <1>5, <2>2
  <2> QED
    BY <1>1, <2>3, <2>4, StartedTask
<1>7. CASE \E d \in Deadline : loop_delay(t, d)
  <2>1. PICK d \in Deadline : s' = armTimer(i, t, d)
    BY <1>7, Zenon DEF loop_delay
  <2> HIDE DEF i
  <2>2. /\ othersAlike(s', i, t) /\ s'.waiters = i.waiters /\ s'.current = i.current
        /\ s'.pending[t] = i.pending[t] /\ s'.queued[t] = i.queued[t]
        /\ s'.timer_generation[t] # None
    BY <1>5, <2>1, ArmTimerTasks, Zenon
  <2>3. othersAlike(s', s, t)
    BY <1>5, <2>2, AlikeTransitive
  <2>4. /\ s'.current = s.current /\ s'.pending[t] = "start"
        /\ ~s'.queued[t] /\ (s'.timer_generation[t] # None <=> t \notin s'.waiters)
    BY <1>5, <2>2
  <2> QED
    BY <1>1, <2>3, <2>4, StartedTask
<1> QED
  BY <1>3, <1>4, <1>6, <1>7

\* A suspended task that is woken, or was queued before: whatever its
\* suspension point, it has that one wake.
LEMMA WokenTask ==
  ASSUME IInv, JInv, NEW t \in s.live, coroutine[t] = "Suspended",
         NEW a \in {"resume", "throw"}, NEW front \in BOOLEAN,
         s' = enqueue(s, t, a, front)
  PROVE  /\ othersAlike(s', s, t) /\ s'.live = s.live /\ s'.current = s.current
         /\ s'.queued[t] /\ s'.pending[t] \in {"resume", "throw"}
         /\ s'.timer_generation[t] = None /\ t \notin s'.waiters
         /\ wait[t] = "yield" => ~armed[t] \/ LosesDescriptor
<1>1. SuspendedOK(t)
  BY DEF JInv, TasksOK, TaskOK, FreshOK, RunningOK
<1>2. wellFormed(s) /\ a \in Activation
  BY DEF IInv, Activation
<1>3. /\ othersAlike(s', s, t) /\ s'.live = s.live /\ s'.current = s.current
      /\ s.queued[t] => s' = s
      /\ ~s.queued[t] => /\ s'.pending[t] = a /\ s'.queued[t]
                         /\ s'.timer_generation[t] = None /\ t \notin s'.waiters
  BY <1>2, EnqueueTasks
<1>4. CASE s.queued[t]
  BY <1>1, <1>3, <1>4, Zenon DEF SuspendedOK, WokenOK, ParkedOK
<1>5. CASE ~s.queued[t]
  BY <1>1, <1>3, <1>5 DEF SuspendedOK
<1> QED
  BY <1>4, <1>5

LEMMA ResolvesTask ==
  ASSUME IInv, IInv', JInv, NEW t \in TaskId, NEW a \in {"resume", "throw"},
         NEW front \in BOOLEAN, resolve(t, a, front)
  PROVE  JInv'
<1>1. /\ s' = enqueue(s, t, a, front) /\ coroutine[t] = "Suspended"
      /\ coroutine' = coroutine /\ wait' = wait /\ armed' = armed
      /\ cancelled_tasks' = cancelled_tasks /\ pump' = pump /\ frames' = frames
      /\ pump.phase = "code"
      /\ \A u \in TaskId \ {t} : resolved'[u] = resolved[u]
  BY TaskTypes DEF resolve, coding
<1>2. \A u \in TaskId \ {t} : untouched(u)
  BY <1>1 DEF untouched
<1>3. CASE t \notin s.live
  <2>1. s' = s
    BY <1>1, <1>3 DEF enqueue
  <2>2. othersAlike(s', s, t) /\ t \notin cancelled_tasks
    BY <1>3, <2>1 DEF othersAlike, alike, JInv, CancelledNeverParked
  <2> QED
    BY <1>1, <1>2, <1>3, <2>1, <2>2, OneTask
<1>4. CASE t \in s.live
  <2>1. /\ othersAlike(s', s, t) /\ s'.live = s.live /\ s'.current = s.current
        /\ s'.queued[t] /\ s'.pending[t] \in {"resume", "throw"}
        /\ s'.timer_generation[t] = None /\ t \notin s'.waiters
        /\ wait[t] = "yield" => ~armed[t] \/ LosesDescriptor
    BY <1>1, <1>4, WokenTask, Zenon
  <2>2. TaskOK(t)'
    BY <1>1, <2>1, Zenon DEF TaskOK, SuspendedOK, WokenOK, LosesDescriptor
  <2> QED
    BY <1>1, <1>2, <1>4, <2>1, <2>2, OneTask, Zenon
<1> QED
  BY <1>3, <1>4

LEMMA CancelsTask ==
  ASSUME IInv, IInv', JInv, NEW t \in TaskId, loop_cancel(t)
  PROVE  JInv'
<1> DEFINE d == disarm(s, t)
<1>1. /\ t \in s.live /\ coding /\ pump.phase = "code"
      /\ UNCHANGED <<coroutine, wait, resolved, armed, pump, frames, drained>>
      /\ \/ /\ coroutine[t] = "Fresh" /\ s' = removeTask(d, t)
            /\ cancelled_tasks' = cancelled_tasks
         \/ /\ coroutine[t] = "Suspended" /\ s' = enqueue(d, t, "throw", FALSE)
            /\ cancelled_tasks' = cancelled_tasks \cup {t}
         \/ /\ coroutine[t] = "Running" /\ s' = d
            /\ cancelled_tasks' = cancelled_tasks \cup {t}
  BY Zenon DEF loop_cancel, coding
<1>2. \A u \in TaskId \ {t} : untouched(u)
  BY <1>1 DEF untouched
<1>3. TaskOK(t)
  BY <1>1 DEF JInv, TasksOK
<1>4. /\ wellFormed(d) /\ othersAlike(d, s, t) /\ d.live = s.live
      /\ d.pending = s.pending /\ d.queued = s.queued
      /\ d.timer_generation = s.timer_generation /\ d.waiters = s.waiters \ {t}
      /\ d.current = s.current
  BY DisarmTasks, Zenon DEF IInv
<1> HIDE DEF d
<1>5. CASE coroutine[t] = "Fresh"
  <2>1. /\ s' = removeTask(d, t) /\ cancelled_tasks' = cancelled_tasks
    BY <1>1, <1>5, Zenon
  <2>2. othersAlike(s', d, t) /\ s'.live = d.live \ {t} /\ s'.current = d.current
    BY <1>4, <2>1, RemoveTaskTasks
  <2>3. othersAlike(s', s, t)
    BY <1>4, <2>2, AlikeTransitive
  <2>4. t \notin cancelled_tasks
    BY <1>5 DEF JInv, CancelledNeverParked
  <2>5. t \notin s'.live /\ s'.current = s.current
    BY <1>4, <2>2
  <2> QED
    BY <1>1, <1>2, <1>5, <2>1, <2>3, <2>4, <2>5, OneTask, Zenon
<1>6. CASE coroutine[t] = "Suspended"
  <2>1. s' = enqueue(d, t, "throw", FALSE) /\ cancelled_tasks' = cancelled_tasks \cup {t}
    BY <1>1, <1>6
  <2>2. /\ othersAlike(s', d, t) /\ s'.live = d.live /\ s'.current = d.current
        /\ d.queued[t] => s' = d
        /\ ~d.queued[t] => /\ s'.pending[t] = "throw" /\ s'.queued[t]
                           /\ s'.timer_generation[t] = None /\ t \notin s'.waiters
    <3>1. t \in d.live /\ wellFormed(d)
      BY <1>1, <1>4
    <3>2. woken(enqueue(d, t, "throw", FALSE), d, t, "throw")
      BY <3>1, WakeTasks, Zenon
    <3>3. woken(s', d, t, "throw")
      BY <2>1, <3>2, Zenon
    <3> QED
      BY <3>3, Zenon DEF woken
  <2>3. othersAlike(s', s, t)
    BY <1>4, <2>2, AlikeTransitive
  <2>4. SuspendedOK(t)
    BY <1>3, <1>6 DEF TaskOK, FreshOK, RunningOK
  <2>5. /\ s'.queued[t] /\ s'.pending[t] \in {"resume", "throw"}
        /\ s'.timer_generation[t] = None /\ t \notin s'.waiters
        /\ wait[t] = "yield" => ~armed[t] \/ LosesDescriptor
    <3>1. CASE s.queued[t]
      BY <1>4, <2>2, <2>4, <3>1, Zenon DEF SuspendedOK, WokenOK, ParkedOK
    <3>2. CASE ~s.queued[t]
      BY <1>4, <2>2, <2>4, <3>2 DEF SuspendedOK
    <3> QED
      BY <3>1, <3>2
  <2>6. TaskOK(t)'
    BY <1>1, <1>6, <2>5, Zenon DEF TaskOK, SuspendedOK, WokenOK, LosesDescriptor
  <2>7. t \in s'.live /\ s'.current = s.current
    BY <1>1, <1>4, <2>2
  <2> QED
    BY <1>1, <1>2, <1>6, <2>1, <2>3, <2>5, <2>6, <2>7, OneTask, Zenon
<1>7. CASE coroutine[t] = "Running"
  <2>1. s' = d /\ cancelled_tasks' = cancelled_tasks \cup {t}
    BY <1>1, <1>7
  <2>2. t \notin s.waiters /\ ~armed[t]
    BY <1>1, <1>7, NotArmed
  <2>3. RunningOK(t)
    BY <1>3, <1>7 DEF TaskOK, FreshOK, SuspendedOK
  <2>4. RunningOK(t)'
    BY <1>1, <1>4, <2>1, <2>2, <2>3 DEF RunningOK
  <2> QED
    BY <1>1, <1>2, <1>4, <1>7, <2>1, <2>4, OneTask DEF TaskOK
<1> QED
  BY <1>1, <1>5, <1>6, <1>7, Zenon

LEMMA UnreferencesTask ==
  ASSUME IInv, IInv', JInv, NEW t \in TaskId, loop_unreference(t)
  PROVE  JInv'
<1>1. /\ s' = unreference(s, t) /\ pump.phase = "code" /\ t \in s.live
      /\ UNCHANGED <<coroutine, wait, resolved, armed, cancelled_tasks, pump, frames>>
  BY DEF loop_unreference, coding, taskVars
<1>2. allAlike(s', s) /\ s'.current = s.current
  BY <1>1, UnreferenceTasks DEF IInv
<1>3. alike(s', s, t) /\ othersAlike(s', s, t) /\ untouched(t)
      /\ \A u \in TaskId \ {t} : untouched(u)
  BY <1>1, <1>2 DEF allAlike, othersAlike, untouched
<1>4. TaskOK(t) /\ me' = me
  BY <1>1 DEF JInv, TasksOK, me, topFrame
<1>5. coroutine[t] = "Running" => RunningOK(t)
  BY <1>4 DEF TaskOK, FreshOK, SuspendedOK
<1>6. t \in s'.live /\ TaskOK(t)'
  BY <1>1, <1>3, <1>4, <1>5, OtherTask DEF RunningOK
<1>7. t \in cancelled_tasks => /\ t \in s'.live
                               /\ \/ coroutine'[t] = "Running"
                                  \/ coroutine'[t] = "Suspended" /\ s'.queued[t]
  BY <1>1, <1>3, OtherCancelled
<1> QED
  BY <1>1, <1>2, <1>3, <1>6, <1>7, OneTask, Zenon

\* arm_readable: the running task is the current one, and arms itself.
LEMMA ArmsTask ==
  ASSUME IInv, IInv', JInv, loop_arm_fd
  PROVE  JInv'
<1> PICK t : t = s.current
  OBVIOUS
<1>1. /\ s' = armDescriptor(s, t) /\ t # None /\ inTask /\ pump.phase = "code"
      /\ armed' = [armed EXCEPT ![me] = TRUE]
      /\ UNCHANGED <<coroutine, wait, resolved, cancelled_tasks, pump, frames>>
  BY DEF loop_arm_fd, inTask
<1>2. t = me /\ t \in TaskId /\ me' = me
  BY <1>1, TaskTypes DEF JInv, CurrentOK, me, topFrame
<1>3. t \in s.live /\ coroutine[t] = "Running"
  <2>1. frames # <<>> /\ Len(frames) \in DOMAIN frames /\ frames[Len(frames)].task = me
    BY <1>1, InTask, TaskTypes, SeqEmpty, SeqDomain DEF me, topFrame
  <2> QED
    BY <1>2, <2>1 DEF JInv, FramesOK
<1>4. /\ othersAlike(s', s, t) /\ s'.live = s.live
      /\ s'.pending = s.pending /\ s'.queued = s.queued
      /\ s'.timer_generation = s.timer_generation /\ s'.waiters = s.waiters \cup {t}
      /\ s'.current = s.current
  BY <1>1, <1>2, ArmDescriptorTasks, Zenon DEF IInv
<1>5. RunningOK(t)
  BY <1>3 DEF JInv, TasksOK, TaskOK, FreshOK, SuspendedOK
<1>6. armed'[t] = TRUE /\ \A u \in TaskId \ {t} : untouched(u)
  BY <1>1, <1>2, TaskTypes DEF untouched
<1>7. RunningOK(t)'
  BY <1>1, <1>2, <1>3, <1>4, <1>5, <1>6 DEF RunningOK
<1> QED
  BY <1>1, <1>2, <1>3, <1>4, <1>6, <1>7, OneTask DEF TaskOK

LEMMA OperationsTasks ==
  ASSUME IInv, IInv', JInv, Operations
  PROVE  JInv'
BY SpawnsTask, ResolvesTask, CancelsTask, UnreferencesTask DEF Operations

------------------------------------------------------------------------------
(* The ends of a task's slice.                                              *)

\* What leaves the coroutine stack is the task that ran.
LEMMA FrontFrames ==
  ASSUME IInv, frames # <<>>
  PROVE  /\ Len(frames) \in DOMAIN frames /\ frames[Len(frames)].task = me
         /\ \A i \in DOMAIN framesBelow : /\ i \in DOMAIN frames /\ i # Len(frames)
                                            /\ framesBelow[i] = frames[i]
         /\ \A i \in DOMAIN frames : i # Len(frames) => i \in DOMAIN framesBelow
         /\ Len(frames) <= 1 => framesBelow = <<>>
<1>1. frames \in Seq(Frame) /\ Len(frames) \in Nat /\ DOMAIN frames = 1..Len(frames)
  BY TaskTypes, SeqDomain
<1>2. Len(frames) # 0
  BY <1>1, SeqEmpty
<1>3. Len(frames) \in DOMAIN frames /\ frames[Len(frames)].task = me
  BY <1>1, <1>2 DEF me, topFrame
<1>4. framesBelow = [i \in 1..(Len(frames) - 1) |-> frames[i]]
  BY <1>1, <1>2 DEF framesBelow
<1>5. DOMAIN framesBelow = 1..(Len(frames) - 1)
  BY <1>4
<1>6. \A i \in DOMAIN framesBelow : /\ i \in DOMAIN frames /\ i # Len(frames)
                                      /\ framesBelow[i] = frames[i]
  <2> TAKE i \in DOMAIN framesBelow
  <2>1. i \in 1..(Len(frames) - 1)
    BY <1>5
  <2>2. framesBelow[i] = frames[i]
    BY <1>4, <2>1
  <2> QED
    BY <1>1, <2>1, <2>2
<1>7. \A i \in DOMAIN frames : i # Len(frames) => i \in DOMAIN framesBelow
  BY <1>1, <1>5
<1>8. Len(frames) <= 1 => framesBelow = <<>>
  <2> SUFFICES ASSUME Len(frames) <= 1 PROVE framesBelow = <<>>
    OBVIOUS
  <2>1. Len(frames) - 1 = 0
    BY <1>1, <1>2
  <2>2. framesBelow \in Seq(Frame)
    BY TopFrame DEF IInv
  <2>3. Len(framesBelow) \in Nat /\ DOMAIN framesBelow = 1..Len(framesBelow)
    BY <2>2, SeqDomain
  <2>4. Len(framesBelow) = 0
    BY <1>5, <2>1, <2>3
  <2> QED
    BY <2>2, <2>4, SeqEmpty
<1> QED
  BY <1>3, <1>6, <1>7, <1>8

\* The pump that goes on has run the task that leaves.
LEMMA BackPump ==
  ASSUME IInv, JInv, frames # <<>>, NEW sched, back(sched)
  PROVE  /\ pump'.next \in {"one", "return"} /\ pump'.phase # "ready"
         /\ pump'.phase = "micro" => pump'.ran
         /\ frames' = framesBelow
<1> DEFINE p == topFrame.pump
<1> DEFINE n == Min({Len(sched.microtasks), MICROTASK_BATCH_SIZE})
<1>1. p \in Pumps
  BY TopFrame DEF IInv
<1>2. BelowOK(p)
  BY FrontFrames DEF JInv, topFrame
<1>3. pump' = (IF p.phase = "ready" THEN [p EXCEPT !.phase = "micro", !.batch = n] ELSE p)
      /\ frames' = framesBelow
  BY DEF back, loopTop
<1> HIDE DEF p, n
<1>4. CASE p.phase = "ready"
  <2> DEFINE r == [p EXCEPT !.phase = "micro", !.batch = n]
  <2>1. r.phase = "micro" /\ r.ran = p.ran /\ r.next = p.next
    BY <1>1 DEF Pumps
  <2> QED
    BY <1>2, <1>3, <1>4, <2>1 DEF BelowOK
<1>5. CASE p.phase # "ready"
  BY <1>2, <1>3, <1>5 DEF BelowOK
<1> QED
  BY <1>4, <1>5

\* The running task leaves the stack, suspended or terminated.
LEMMA SliceEndTask ==
  ASSUME IInv, IInv', JInv, inTask, NEW t, t = me,
         othersAlike(s', s, t), s'.current = None,
         \A u \in TaskId \ {t} : untouched(u),
         t \in s'.live => SuspendedOK(t)',
         cancelled_tasks' \subseteq cancelled_tasks,
         t \in cancelled_tasks' => t \in s'.live /\ coroutine'[t] = "Suspended" /\ s'.queued[t],
         frames' = framesBelow,
         pump'.next \in {"one", "return"}, pump'.phase # "ready",
         pump'.phase = "micro" => pump'.ran
  PROVE  JInv'
<1>0. s.live \subseteq TaskId /\ cancelled_tasks \subseteq TaskId /\ frames # <<>> /\ t \in TaskId
  BY TaskTypes, InTask, TopFrame DEF IInv
<1> DEFINE n == Len(frames)
<1>1. /\ n \in DOMAIN frames /\ frames[n].task = t
      /\ \A i \in DOMAIN frames' : i \in DOMAIN frames /\ i # n /\ frames'[i] = frames[i]
      /\ \A i \in DOMAIN frames : i # n => i \in DOMAIN frames'
      /\ n <= 1 => frames' = <<>>
  BY <1>0, FrontFrames
<1> HIDE DEF n
<1>2. \A u \in TaskId \ {t} : alike(s', s, u)
  BY DEF othersAlike
<1>3. TasksOK'
  <2> SUFFICES ASSUME NEW u \in s'.live, u # t PROVE TaskOK(u)'
    BY DEF TasksOK, TaskOK
  <2>1. s'.live \subseteq TaskId
    BY Zenon DEF IInv, TypeOK, Schedulers
  <2>2. u \in TaskId \ {t}
    BY <2>1
  <2>3. alike(s', s, u) /\ untouched(u)
    BY <1>2, <2>2
  <2>4. u \in s.live
    BY <2>3 DEF alike
  <2>5. TaskOK(u)
    BY <2>4 DEF JInv, TasksOK
  <2>6. ASSUME coroutine[u] = "Running"
        PROVE  ~armed[u] /\ \E i \in DOMAIN frames' : frames'[i].task = u
    <3>1. RunningOK(u)
      BY <2>5, <2>6 DEF TaskOK, FreshOK, SuspendedOK
    <3>2. PICK i \in DOMAIN frames : frames[i].task = u
      BY <3>1 DEF RunningOK
    <3>3. i # n
      BY <1>1, <3>2
    <3>4. i \in DOMAIN frames' /\ frames'[i].task = u
      BY <1>1, <3>2, <3>3
    <3>5. ~armed[u]
      BY <3>1 DEF RunningOK
    <3> QED
      BY <3>4, <3>5
  <2> QED
    BY <2>3, <2>4, <2>5, <2>6, OtherTask
<1>4. FramesOK'
  <2>1. \A i, j \in DOMAIN frames' : frames'[i].task = frames'[j].task => i = j
    BY <1>1 DEF JInv, FramesOK
  <2>2. ASSUME NEW i \in DOMAIN frames'
        PROVE  frames'[i].task \in s'.live /\ coroutine'[frames'[i].task] = "Running"
    <3> DEFINE u == frames[i].task
    <3>1. i \in DOMAIN frames /\ i # n /\ frames'[i].task = u
      BY <1>1
    <3>2. u \in s.live /\ coroutine[u] = "Running"
      BY <3>1, Zenon DEF JInv, FramesOK
    <3>3. u # t
      <4>1. \A k, l \in DOMAIN frames : frames[k].task = frames[l].task => k = l
        BY Zenon DEF JInv, FramesOK
      <4> QED
        BY <1>1, <3>1, <4>1
    <3>4. u \in TaskId \ {t}
      BY <1>0, <3>2, <3>3
    <3> HIDE DEF u
    <3>5. alike(s', s, u) /\ untouched(u)
      BY <1>2, <3>4
    <3> QED
      BY <3>1, <3>2, <3>5 DEF alike, untouched
  <2> QED
    BY <2>1, <2>2 DEF FramesOK
<1>5. CurrentOK'
  <2> SUFFICES ASSUME "nested" \notin Features
               PROVE  Len(frames') <= 1 /\ frames' = <<>>
    BY DEF CurrentOK
  <2>1. frames' = <<>>
    BY <1>1 DEF JInv, CurrentOK, n
  <2> QED
    BY <2>1
<1>6. PumpOK'
  BY DEF PumpOK
<1>7. \A i \in DOMAIN frames' : BelowOK(frames'[i].pump)
  BY <1>1 DEF JInv
<1>8. CancelledNeverParked'
  <2> SUFFICES ASSUME NEW u \in cancelled_tasks', u # t
               PROVE  /\ u \in s'.live
                      /\ \/ coroutine'[u] = "Running"
                         \/ coroutine'[u] = "Suspended" /\ s'.queued[u]
    BY DEF CancelledNeverParked
  <2>1. u \in cancelled_tasks /\ u \in TaskId \ {t}
    BY <1>0
  <2>2. alike(s', s, u) /\ coroutine'[u] = coroutine[u]
    BY <1>2, <2>1 DEF untouched
  <2> QED
    BY <2>1, <2>2, OtherCancelled
<1> QED
  BY <1>3, <1>4, <1>5, <1>6, <1>7, <1>8 DEF JInv, BelowOK

LEMMA RunningTask ==
  ASSUME IInv, JInv, inTask, NEW t, t = me
  PROVE  /\ t \in TaskId /\ t \in s.live /\ RunningOK(t) /\ frames # <<>>
         /\ s.current # None => s.current = t
         /\ "nested" \notin Features => s.current = t
<1>1. frames # <<>> /\ t \in TaskId
  BY InTask, TopFrame DEF IInv
<1>2. t \in s.live /\ coroutine[t] = "Running"
  BY <1>1, FrontFrames DEF JInv, FramesOK
<1>3. RunningOK(t)
  BY <1>2 DEF JInv, TasksOK, TaskOK, FreshOK, SuspendedOK
<1> QED
  BY <1>1, <1>2, <1>3 DEF JInv, CurrentOK

\* A woken task is queued, with the wake it had if it had one.
LEMMA WokenByCall ==
  ASSUME NEW x, wellFormed(x), NEW t, t \in x.live, WokenOK(x, t) \/ ~x.queued[t],
         NEW a \in {"resume", "throw"}
  PROVE  LET r == enqueue(x, t, a, FALSE)
         IN /\ othersAlike(r, x, t) /\ r.live = x.live /\ r.current = x.current
            /\ WokenOK(r, t)
<1> DEFINE r == enqueue(x, t, a, FALSE)
<1>1. woken(r, x, t, a)
  BY WakeTasks, Zenon
<1> HIDE DEF r
<1>2. WokenOK(r, t)
  BY <1>1, Zenon DEF WokenOK, woken
<1> QED
  BY <1>1, <1>2, Zenon DEF r, woken

\* suspend: a task leaves its slice with one wake to come, or is cancelled and
\* queued to see it.
LEMMA SuspendsTask ==
  ASSUME IInv, IInv', JInv, inTask, NEW t, t = me, NEW w, NEW sched, wellFormed(sched),
         othersAlike(sched, s, t), sched.live = s.live, suspend(w, sched),
         w = "yield" => ~armed[t] \/ LosesDescriptor,
         WokenOK(sched, t) \/ ParkedOK(sched, t, w)
  PROVE  JInv'
<1> DEFINE cleared == [sched EXCEPT !.current = None]
<1>1. t \in TaskId /\ t \in s.live /\ frames # <<>>
  BY RunningTask
<1>2. /\ s' = IF t \in cancelled_tasks THEN enqueue(cleared, t, "throw", FALSE) ELSE cleared
      /\ coroutine' = [coroutine EXCEPT ![t] = "Suspended"] /\ wait' = [wait EXCEPT ![t] = w]
      /\ back(s') /\ UNCHANGED <<resolved, armed, cancelled_tasks>>
  BY DEF suspend
<1>3. /\ wellFormed(cleared) /\ allAlike(cleared, sched) /\ cleared.current = None
      /\ cleared.live = sched.live /\ cleared.queued = sched.queued
      /\ cleared.pending = sched.pending /\ cleared.waiters = sched.waiters
      /\ cleared.timer_generation = sched.timer_generation
  BY Current, CurrentTasks
<1> HIDE DEF cleared
<1>4. othersAlike(cleared, s, t)
  <2>1. othersAlike(cleared, sched, t)
    BY <1>3 DEF othersAlike, allAlike
  <2> QED
    BY <2>1, AlikeTransitive
<1>5. /\ coroutine'[t] = "Suspended" /\ wait'[t] = w /\ armed'[t] = armed[t]
      /\ resolved'[t] = resolved[t]
      /\ \A u \in TaskId \ {t} : untouched(u)
  BY <1>1, <1>2, TaskTypes, Zenon DEF untouched
<1>6. /\ pump'.next \in {"one", "return"} /\ pump'.phase # "ready"
      /\ pump'.phase = "micro" => pump'.ran
      /\ frames' = framesBelow
  BY <1>1, <1>2, BackPump, Zenon
<1>7. CASE t \in cancelled_tasks
  <2>1. t \in cleared.live /\ wellFormed(cleared) /\ (WokenOK(cleared, t) \/ ~cleared.queued[t])
    BY <1>1, <1>3, Zenon DEF WokenOK, ParkedOK
  <2>2. s' = enqueue(cleared, t, "throw", FALSE)
    BY <1>2, <1>7, Zenon
  <2>3. LET r == enqueue(cleared, t, "throw", FALSE)
        IN /\ othersAlike(r, cleared, t) /\ r.live = cleared.live
           /\ r.current = cleared.current /\ WokenOK(r, t)
    BY <2>1, WokenByCall, Zenon
  <2>4. /\ othersAlike(s', cleared, t) /\ s'.live = cleared.live /\ s'.current = None
        /\ WokenOK(s', t)
    BY <1>3, <2>2, <2>3, Zenon
  <2>5. othersAlike(s', s, t)
    BY <1>4, <2>4, AlikeTransitive
  <2>6. SuspendedOK(t)'
    BY <1>5, <2>4, Zenon DEF SuspendedOK, WokenOK, LosesDescriptor
  <2>7. t \in s'.live /\ s'.queued[t]
    BY <1>1, <1>3, <2>4, Zenon DEF WokenOK
  <2> QED
    BY <1>2, <1>5, <1>6, <2>4, <2>5, <2>6, <2>7, SliceEndTask, Zenon
<1>8. CASE t \notin cancelled_tasks
  <2>1. s' = cleared
    BY <1>2, <1>8, Zenon
  <2>2. s'.queued[t] = sched.queued[t] /\ s'.pending[t] = sched.pending[t]
        /\ s'.timer_generation[t] = sched.timer_generation[t]
        /\ (t \in s'.waiters <=> t \in sched.waiters)
    BY <1>3, <2>1, Zenon
  <2>3. SuspendedOK(t)'
    BY <1>5, <2>2, Zenon DEF SuspendedOK, WokenOK, ParkedOK, LosesDescriptor, LosesTimer
  <2> QED
    BY <1>2, <1>3, <1>4, <1>5, <1>6, <1>8, <2>1, <2>3, SliceEndTask, Zenon
<1> QED
  BY <1>7, <1>8

\* A task that returns or throws is gone.
LEMMA FinishesTask ==
  ASSUME IInv, IInv', JInv, inTask, NEW t, t = me,
         s' = removeTask([s EXCEPT !.current = None], t),
         coroutine' = [coroutine EXCEPT ![t] = "Terminated"],
         cancelled_tasks' = cancelled_tasks \ {t},
         back(s') \/ (pump' = idlePump /\ frames' = framesBelow),
         UNCHANGED <<wait, resolved, armed>>
  PROVE  JInv'
<1> DEFINE cleared == [s EXCEPT !.current = None]
<1>1. t \in TaskId /\ t \in s.live /\ frames # <<>> /\ wellFormed(s)
  BY RunningTask DEF IInv
<1>2. wellFormed(cleared) /\ allAlike(cleared, s) /\ cleared.current = None
  <2>1. wellFormed(cleared)
    BY <1>1, Current
  <2>2. allAlike(cleared, s) /\ cleared.current = None
    BY <1>1, CurrentTasks
  <2> QED
    BY <2>1, <2>2
<1>3. s' = removeTask(cleared, t)
  OBVIOUS
<1> HIDE DEF cleared
<1>4. othersAlike(s', cleared, t) /\ s'.live = cleared.live \ {t} /\ s'.current = None
  <2>1. LET r == removeTask(cleared, t)
        IN /\ othersAlike(r, cleared, t) /\ r.live = cleared.live \ {t}
           /\ r.current = cleared.current
    BY <1>1, <1>2, RemoveTaskTasks
  <2> QED
    BY <1>2, <1>3, <2>1, Zenon
<1>5. othersAlike(s', s, t)
  <2>1. othersAlike(cleared, s, t)
    BY <1>2 DEF othersAlike, allAlike
  <2> QED
    BY <1>4, <2>1, AlikeTransitive
<1>6. \A u \in TaskId \ {t} : untouched(u)
  BY <1>1, TaskTypes DEF untouched
<1>7. /\ pump'.next \in {"one", "return"} /\ pump'.phase # "ready"
      /\ pump'.phase = "micro" => pump'.ran
      /\ frames' = framesBelow
  BY <1>1, BackPump DEF idlePump
<1> QED
  BY <1>4, <1>5, <1>6, <1>7, SliceEndTask

LEMMA SliceEndsTasks ==
  ASSUME IInv, IInv', JInv, SliceEnds
  PROVE  JInv'
<1> PICK t : t = me
  OBVIOUS
<1>1. inTask
  BY Zenon DEF SliceEnds, parkOnTimer, loop_park_on_fd, suspendArmed, suspendOnSuspension,
         yieldToScheduler, taskReturns, taskThrows
<1>2. /\ t \in TaskId /\ t \in s.live /\ RunningOK(t) /\ wellFormed(s) /\ t # None
      /\ s.current # None => s.current = t
      /\ "nested" \notin Features => s.current = t
  BY <1>1, RunningTask, TaskTypes
<1>3. /\ s.pending[t] = None /\ ~s.queued[t] /\ ~resolved[t] /\ s.timer_generation[t] = None
      /\ ~armed[t] => t \notin s.waiters
      /\ armed[t] => t \in s.waiters \/ LosesDescriptor
  BY <1>2 DEF RunningOK
<1>4. othersAlike(s, s, t)
  BY DEF othersAlike, alike
<1>5. CASE \E d \in Deadline : parkOnTimer(d)
  <2> PICK d \in Deadline : parkOnTimer(d)
    BY <1>5
  <2>1. ~armed[t] /\ "timer" \in Features
    BY DEF parkOnTimer
  <2>2. CASE s.current = None
    <3>1. suspend("timer", s)
      BY <2>2 DEF parkOnTimer
    <3>2. ParkedOK(s, t, "timer")
      BY <1>2, <1>3, <2>1, <2>2, Zenon DEF ParkedOK, LosesTimer
    <3> QED
      BY <1>1, <1>2, <1>4, <3>1, <3>2, SuspendsTask
  <2>3. CASE s.current # None
    <3> DEFINE sched == armTimer(s, t, d)
    <3>1. suspend("timer", sched)
      BY <1>2, <2>3 DEF parkOnTimer
    <3>2. wellFormed(sched)
      BY <1>2, ArmTimer
    <3>3. /\ othersAlike(sched, s, t) /\ sched.live = s.live /\ sched.waiters = s.waiters
          /\ sched.pending[t] = s.pending[t] /\ sched.queued[t] = s.queued[t]
          /\ sched.timer_generation[t] # None
      BY <1>2, ArmTimerTasks, Zenon
    <3> HIDE DEF sched
    <3>4. ParkedOK(sched, t, "timer")
      BY <1>3, <2>1, <3>3, Zenon DEF ParkedOK
    <3> QED
      BY <1>1, <1>2, <3>1, <3>2, <3>3, <3>4, SuspendsTask
  <2> QED
    BY <2>2, <2>3
<1>6. CASE loop_park_on_fd
  <2> DEFINE sched == armDescriptor(s, t)
  <2>1. suspend("descriptor", sched)
    BY <1>2, <1>6 DEF loop_park_on_fd
  <2>2. /\ wellFormed(sched) /\ othersAlike(sched, s, t) /\ sched.live = s.live
        /\ sched.pending = s.pending /\ sched.queued = s.queued
        /\ sched.timer_generation = s.timer_generation /\ sched.waiters = s.waiters \cup {t}
    BY <1>2, ArmDescriptorTasks
  <2> HIDE DEF sched
  <2>3. ParkedOK(sched, t, "descriptor")
    BY <1>3, <2>2, Zenon DEF ParkedOK
  <2> QED
    BY <1>1, <1>2, <2>1, <2>2, <2>3, SuspendsTask
<1>7. CASE suspendArmed
  <2>1. suspend("armed", s) /\ armed[t]
    BY <1>7 DEF suspendArmed
  <2>2. ParkedOK(s, t, "armed")
    BY <1>3, <2>1 DEF ParkedOK
  <2> QED
    BY <1>1, <1>2, <1>4, <2>1, <2>2, SuspendsTask, Zenon
<1>8. CASE suspendOnSuspension
  <2>1. suspend("suspension", s) /\ ~armed[t]
    BY <1>8 DEF suspendOnSuspension
  <2>2. ParkedOK(s, t, "suspension")
    BY <1>3, <2>1 DEF ParkedOK
  <2> QED
    BY <1>1, <1>2, <1>4, <2>1, <2>2, SuspendsTask
<1>9. CASE yieldToScheduler
  <2> DEFINE sched == enqueue(s, t, "resume", FALSE)
  <2>1. suspend("yield", sched) /\ (armed[t] => LosesDescriptor)
    BY <1>2, <1>9, Zenon DEF yieldToScheduler, LosesDescriptor
  <2>2. wellFormed(sched)
    BY <1>2, Enqueue, Zenon DEF Activation
  <2>3. othersAlike(sched, s, t) /\ sched.live = s.live /\ WokenOK(sched, t)
    BY <1>2, <1>3, WokenByCall, Zenon
  <2> HIDE DEF sched
  <2> QED
    BY <1>1, <1>2, <2>1, <2>2, <2>3, SuspendsTask
<1>10. CASE taskReturns
  BY <1>1, <1>10, FinishesTask, Zenon DEF taskReturns
<1>11. CASE taskThrows
  BY <1>1, <1>11, FinishesTask, Zenon DEF taskThrows
<1> QED
  BY <1>5, <1>6, <1>7, <1>8, <1>9, <1>10, <1>11 DEF SliceEnds

==============================================================================
