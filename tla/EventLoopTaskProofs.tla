------------------------- MODULE EventLoopTaskProofs -------------------------
(****************************************************************************)
(* What becomes of a task while the pump runs, and the theorems about the   *)
(* tasks: they hold for any set of tasks, any program (Features), any batch *)
(* size and any nesting of pumps.                                           *)
(****************************************************************************)
EXTENDS EventLoopProofs

------------------------------------------------------------------------------
(* The pump.                                                                *)

\* A step of the pump that leaves every task alone.
LEMMA PumpStep ==
  ASSUME IInv, IInv', JInv, allAlike(s', s), s'.current = s.current,
         UNCHANGED <<coroutine, wait, resolved, armed, cancelled_tasks, frames>>,
         pump.phase # "code" \/ coding,
         frames # <<>> => "nested" \in Features,
         PumpOK'
  PROVE  JInv'
<1>0. s.live \subseteq TaskId /\ cancelled_tasks \subseteq TaskId /\ me' = me
  BY TaskTypes DEF me, topFrame
<1>1. TasksOK'
  <2> SUFFICES ASSUME NEW u \in s'.live PROVE TaskOK(u)'
    BY DEF TasksOK
  <2>1. u \in TaskId
    BY Zenon DEF IInv, TypeOK, Schedulers
  <2>2. alike(s', s, u) /\ untouched(u)
    BY <2>1 DEF allAlike, untouched
  <2>3. u \in s.live
    BY <2>2 DEF alike
  <2>4. TaskOK(u)
    BY <2>3 DEF JInv, TasksOK
  <2>5. ASSUME coroutine[u] = "Running"
        PROVE  ~armed[u] /\ \E i \in DOMAIN frames' : frames'[i].task = u
    <3>1. RunningOK(u)
      BY <2>4, <2>5 DEF TaskOK, FreshOK, SuspendedOK
    <3>2. ~armed[u]
      BY <2>3, <2>5, NotArmed
    <3> QED
      BY <3>1, <3>2 DEF RunningOK
  <2> QED
    BY <2>2, <2>3, <2>4, <2>5, OtherTask
<1>2. FramesOK'
  BY <1>0 DEF JInv, FramesOK, allAlike, alike
<1>3. CurrentOK'
  BY <1>0 DEF JInv, CurrentOK
<1>4. \A i \in DOMAIN frames' : BelowOK(frames'[i].pump)
  BY DEF JInv
<1>5. CancelledNeverParked'
  <2> SUFFICES ASSUME NEW u \in cancelled_tasks
               PROVE  /\ u \in s'.live
                      /\ \/ coroutine'[u] = "Running"
                         \/ coroutine'[u] = "Suspended" /\ s'.queued[u]
    BY DEF CancelledNeverParked
  <2>1. alike(s', s, u) /\ coroutine'[u] = coroutine[u]
    BY <1>0 DEF allAlike
  <2> QED
    BY <2>1, OtherCancelled
<1> QED
  BY <1>1, <1>2, <1>3, <1>4, <1>5 DEF JInv, BelowOK

\* An event wakes a task that waits for it: one that was not started, or one that
\* is parked, and no other.
LEMMA EventTask ==
  ASSUME IInv, IInv', JInv, NEW t \in s.live, pump.phase = "events",
         s.timer_generation[t] # None \/ t \in s.waiters,
         othersAlike(s', s, t), s'.live = s.live, s'.current = s.current,
         s'.queued[t], s'.timer_generation[t] = None, t \notin s'.waiters,
         s.pending[t] = None => s'.pending[t] = "resume",
         s.pending[t] # None => s'.pending[t] = s.pending[t],
         UNCHANGED <<coroutine, wait, resolved, armed, cancelled_tasks, frames>>,
         pump'.phase = pump.phase, pump'.next = pump.next
  PROVE  JInv'
<1>1. TaskOK(t) /\ t \in TaskId /\ None \notin Activation
  BY TaskTypes, SchedulerAssumption, Zenon DEF JInv, TasksOK, Activation
<1>2. ~RunningOK(t)
  <2> SUFFICES ASSUME RunningOK(t) PROVE FALSE
    OBVIOUS
  <2>1. t \notin s.waiters
    BY NotArmed DEF RunningOK
  <2> QED
    BY <2>1, Zenon DEF RunningOK
<1>3. TaskOK(t)' /\ coroutine[t] # "Running"
  <2>1. CASE FreshOK(t)
    BY <1>1, <2>1, Zenon DEF FreshOK, TaskOK, Activation
  <2>2. CASE SuspendedOK(t)
    <3>1. ParkedOK(s, t, wait[t]) /\ coroutine[t] = "Suspended"
      BY <2>2, Zenon DEF SuspendedOK, WokenOK
    <3>2. WokenOK(s', t)
      BY <3>1, Zenon DEF ParkedOK, WokenOK
    <3>3. SuspendedOK(t)'
      BY <2>2, <3>2, Zenon DEF SuspendedOK, WokenOK, LosesDescriptor
    <3> QED
      BY <3>1, <3>3, Zenon DEF TaskOK
  <2> QED
    BY <1>1, <1>2, <2>1, <2>2, Zenon DEF TaskOK
<1>4. \A u \in TaskId \ {t} : untouched(u)
  BY DEF untouched
<1>5. t \in cancelled_tasks => coroutine[t] = "Suspended"
  BY <1>3 DEF JInv, CancelledNeverParked
<1> QED
  BY <1>1, <1>3, <1>4, <1>5, OneTask, Zenon

\* wake_key: what the reactor reported may have been disarmed since.
LEMMA WakesByKey ==
  ASSUME IInv, IInv', JInv, wake_key
  PROVE  JInv'
<1>1. PICK t \in pump.readiness :
        s' = wakeKey(s, t) /\ pump' = [pump EXCEPT !.readiness = pump.readiness \ {t}]
  BY DEF wake_key
<1>2. /\ pump.phase = "events" /\ pump'.phase = pump.phase /\ pump'.next = pump.next
      /\ UNCHANGED <<coroutine, wait, resolved, armed, cancelled_tasks, frames>>
      /\ t \in TaskId
  BY <1>1, TaskTypes DEF wake_key, taskVars, Pumps
<1>3. LET r == wakeKey(s, t)
      IN /\ othersAlike(r, s, t) /\ r.live = s.live /\ r.current = s.current
         /\ t \notin s.waiters => r = s
         /\ t \in s.waiters /\ t \in s.live =>
              /\ r.queued[t] /\ t \notin r.waiters
              /\ s.pending[t] = None => r.pending[t] = "resume" /\ r.timer_generation[t] = None
              /\ s.pending[t] # None => /\ r.pending[t] = s.pending[t]
                                        /\ r.timer_generation[t] = s.timer_generation[t]
  BY <1>2, TaskTypes, WakeKeyTasks, Zenon
<1>4. CASE t \in s.waiters /\ t \in s.live
  <2>1. TaskOK(t)
    BY <1>4 DEF JInv, TasksOK
  <2>2. s.pending[t] # None => s.timer_generation[t] = None
    BY <1>4, <2>1, Zenon DEF TaskOK, FreshOK, RunningOK, SuspendedOK, WokenOK, ParkedOK
  <2>3. /\ othersAlike(s', s, t) /\ s'.live = s.live /\ s'.current = s.current
        /\ s'.queued[t] /\ s'.timer_generation[t] = None /\ t \notin s'.waiters
        /\ s.pending[t] = None => s'.pending[t] = "resume"
        /\ s.pending[t] # None => s'.pending[t] = s.pending[t]
    BY <1>1, <1>3, <1>4, <2>2
  <2> QED
    BY <1>2, <1>4, <2>3, EventTask, Zenon
<1>5. CASE t \notin s.waiters
  <2>1. s' = s
    BY <1>1, <1>3, <1>5
  <2>2. allAlike(s', s)
    BY <2>1 DEF allAlike, alike
  <2>3. PumpOK'
    BY <1>2, <2>1 DEF JInv, PumpOK
  <2>4. frames # <<>> => "nested" \in Features
    BY <1>2 DEF JInv, CurrentOK
  <2> QED
    BY <1>2, <2>1, <2>2, <2>3, <2>4, PumpStep
<1>6. CASE t \notin s.live
  <2>1. /\ othersAlike(s', s, t) /\ s'.live = s.live /\ s'.current = s.current
    BY <1>1, <1>3
  <2>2. \A u \in TaskId \ {t} : untouched(u)
    BY <1>2 DEF untouched
  <2>3. t \notin cancelled_tasks
    BY <1>6 DEF JInv, CancelledNeverParked
  <2> QED
    BY <1>2, <1>6, <2>1, <2>2, <2>3, OneTask, Zenon
<1> QED
  BY <1>4, <1>5, <1>6

\* wake_expired_timers: an entry whose guard fails wakes nobody.
LEMMA WakesByTimer ==
  ASSUME IInv, IInv', JInv, wake_expired_timers
  PROVE  JInv'
<1>1. PICK e \in s.timers : s' = expire(s, e)
  BY DEF wake_expired_timers, earliest, expired
<1>2. /\ pump.phase = "events" /\ pump' = pump
      /\ UNCHANGED <<coroutine, wait, resolved, armed, cancelled_tasks, frames>>
  BY DEF wake_expired_timers, taskVars
<1> DEFINE t == e.task
<1>3. LET r == expire(s, e)
      IN /\ ~guards(s, e) => allAlike(r, s)
         /\ r.current = s.current
         /\ guards(s, e) =>
              /\ t \in s.live /\ s.timer_generation[t] # None
              /\ othersAlike(r, s, t) /\ r.live = s.live /\ r.queued[t]
              /\ r.waiters = s.waiters /\ r.timer_generation[t] = None
              /\ s.pending[t] = None => r.pending[t] = "resume"
              /\ s.pending[t] # None => r.pending[t] = s.pending[t]
  <2>1. wellFormed(s) /\ e \in s.timers
    BY <1>1, TaskTypes
  <2> QED
    BY <2>1, ExpireTasks, Zenon
<1> HIDE DEF t
<1>4. CASE guards(s, e)
  <2>1. t \in s.live /\ s.timer_generation[t] # None
    BY <1>3, <1>4, Zenon
  <2>2. TaskOK(t)
    BY <2>1 DEF JInv, TasksOK
  <2>3. t \notin s.waiters
    BY <2>1, <2>2, Zenon DEF TaskOK, FreshOK, RunningOK, SuspendedOK, WokenOK, ParkedOK
  <2>4. /\ othersAlike(s', s, t) /\ s'.live = s.live /\ s'.current = s.current
        /\ s'.queued[t] /\ s'.timer_generation[t] = None /\ t \notin s'.waiters
        /\ s.pending[t] = None => s'.pending[t] = "resume"
        /\ s.pending[t] # None => s'.pending[t] = s.pending[t]
    BY <1>1, <1>3, <1>4, <2>3, Zenon
  <2> QED
    BY <1>2, <2>1, <2>4, EventTask, Zenon
<1>5. CASE ~guards(s, e)
  <2>1. allAlike(s', s) /\ s'.current = s.current
    BY <1>1, <1>3, <1>5, Zenon
  <2>2. PumpOK'
    BY <1>2 DEF JInv, PumpOK
  <2>3. frames # <<>> => "nested" \in Features
    BY <1>2 DEF JInv, CurrentOK
  <2> QED
    BY <1>2, <2>1, <2>2, <2>3, PumpStep, Zenon
<1> QED
  BY <1>4, <1>5

\* The pump of a first turn accounts for the whole ready queue, and its other
\* updates keep what it accounts for.
LEMMA FirstTurnOK ==
  ASSUME NEW mode \in {"drain", "once"}, NEW x
  PROVE  LET p == firstTurn(mode, x)
         IN p.phase = "micro" /\ p.next = "return" /\ p.ready_count = Len(x.ready)
BY DEF firstTurn, loopTop, idlePump

\* The steps of the pump that run and wake nobody.
LEMMA QuietPumpTasks ==
  ASSUME IInv, IInv', JInv,
         \/ microtasksDone \/ skipReady \/ turnEnds \/ poll_reactor_nonblocking
         \/ poll_reactor \/ pollDone \/ pumpReturns \/ (runOne /\ readyHits = {})
  PROVE  JInv'
<1>0. wellFormed(s) /\ pump \in Pumps /\ PumpOK
  BY TaskTypes DEF JInv
<1>1. /\ pump.phase # "code"
      /\ UNCHANGED <<coroutine, wait, resolved, armed, cancelled_tasks, frames>>
  BY Zenon DEF microtasksDone, skipReady, turnEnds, poll_reactor_nonblocking, poll_reactor,
         pollDone, pumpReturns, runOne, taskVars
<1>2. frames # <<>> => "nested" \in Features
  BY <1>1 DEF JInv, CurrentOK
<1>3. allAlike(s, s)
  BY DEF allAlike, alike
<1> SUFFICES allAlike(s', s) /\ s'.current = s.current /\ PumpOK'
  BY <1>1, <1>2, PumpStep
<1>4. CASE microtasksDone
  <2>1. /\ pump.phase = "micro"
        /\ pump' = IF s'.microtasks # <<>> THEN [pump EXCEPT !.phase = "poll", !.next = "one"]
                   ELSE [pump EXCEPT !.phase = "ready"]
        /\ s' = s \/ (s' = nextActivation(s, TRUE) /\ microHits = {})
    BY <1>4, Zenon DEF microtasksDone
  <2>2. allAlike(s', s) /\ s'.current = s.current /\ s'.ready = s.ready
    <3>1. CASE s' = s
      BY <1>3, <3>1
    <3>2. CASE s' = nextActivation(s, TRUE) /\ microHits = {}
      <4>1. LET r == nextActivation(s, TRUE)
            IN allAlike(r, s) /\ r.current = s.current /\ r.ready = s.ready
        BY <1>0, <3>2, NextMicrotask, Zenon DEF microHits
      <4> QED
        BY <3>2, <4>1, Zenon
    <3> QED
      BY <2>1, <3>1, <3>2, Zenon
  <2>3. PumpOK'
    <3>1. CASE s'.microtasks # <<>>
      <4>1. pump'.phase = "poll" /\ pump'.next = "one"
        BY <1>0, <2>1, <3>1 DEF Pumps
      <4> QED
        BY <4>1 DEF PumpOK
    <3>2. CASE s'.microtasks = <<>>
      <4>1. /\ pump'.phase = "ready" /\ pump'.next = pump.next
            /\ pump'.ran = pump.ran /\ pump'.ready_count = pump.ready_count
        BY <1>0, <2>1, <3>2 DEF Pumps
      <4> QED
        BY <1>0, <2>1, <2>2, <3>2, <4>1 DEF PumpOK
    <3> QED
      BY <3>1, <3>2
  <2> QED
    BY <2>2, <2>3
<1>5. CASE skipReady
  <2> DEFINE p == [pump EXCEPT !.ready_count = pump.ready_count - 1]
  <2>1. pump.ready_count > 0 /\ readyHits = {} /\ s' = nextActivation(s, FALSE)
        /\ pump' = loopTop(p, s')
    BY <1>5 DEF skipReady
  <2>2. LET r == nextActivation(s, FALSE)
        IN allAlike(r, s) /\ r.current = s.current /\ r.ready = <<>>
    BY <1>0, <2>1, NextReady, Zenon DEF readyHits
  <2>3. allAlike(s', s) /\ s'.current = s.current /\ s'.ready = <<>>
    BY <2>1, <2>2, Zenon
  <2>4. p.next = pump.next /\ p.ready_count = pump.ready_count - 1
    BY <1>0 DEF Pumps
  <2>5. p \in Pumps
    BY <1>0, <2>1, UpdatePump DEF Pumps
  <2> HIDE DEF p
  <2>6. pump'.phase = "micro" /\ pump'.next = p.next /\ pump'.ready_count = p.ready_count
    BY <2>1, <2>5 DEF loopTop, Pumps
  <2>7. Len(s'.ready) <= pump'.ready_count
    <3>1. Len(s'.ready) = 0
      BY <2>3
    <3>2. pump.ready_count \in Nat /\ pump.ready_count > 0
      BY <1>0, <2>1 DEF Pumps
    <3>3. pump'.ready_count = pump.ready_count - 1
      BY <2>4, <2>6
    <3> QED
      BY <3>1, <3>2, <3>3
  <2> QED
    BY <1>0, <2>3, <2>4, <2>6, <2>7 DEF PumpOK
<1>6. CASE turnEnds
  <2>1. /\ s' = s
        /\ \/ pump' = [pump EXCEPT !.phase = "poll", !.next = "return"]
           \/ pump' = idlePump
           \/ pump' = [pump EXCEPT !.phase = "block"]
    BY <1>6 DEF turnEnds, returned
  <2>2. pump.next \in {"one", "return"}
    BY <1>0 DEF PumpOK
  <2>3. pump'.next \in {"one", "return"} /\ pump'.phase \in {"poll", "code", "block"}
    <3>1. CASE pump' = [pump EXCEPT !.phase = "poll", !.next = "return"]
      BY <1>0, <3>1 DEF Pumps
    <3>2. CASE pump' = idlePump
      BY <3>2 DEF idlePump
    <3>3. CASE pump' = [pump EXCEPT !.phase = "block"]
      BY <1>0, <2>2, <3>3 DEF Pumps
    <3> QED
      BY <2>1, <3>1, <3>2, <3>3
  <2> QED
    BY <1>3, <2>1, <2>3 DEF PumpOK
<1>7. CASE poll_reactor_nonblocking
  <2>1. s' = s /\ pump'.next = pump.next /\ pump'.phase = "events"
    BY <1>0, <1>7, Zenon DEF poll_reactor_nonblocking, Pumps
  <2> QED
    BY <1>0, <1>3, <2>1 DEF PumpOK
<1>8. CASE poll_reactor
  <2>1. s' = pruneStaleTimerHead(s) /\ pump'.next = "return" /\ pump'.phase = "events"
    BY <1>0, <1>8, Zenon DEF poll_reactor, Pumps
  <2>2. allAlike(s', s) /\ s'.current = s.current
    BY <1>0, <2>1, PruneTasks
  <2> QED
    BY <2>1, <2>2 DEF PumpOK
<1>9. CASE pollDone
  <2>1. s' = s /\ pump'.next = pump.next /\ pump'.phase = pump.next
    BY <1>0, <1>9 DEF pollDone, Pumps
  <2> QED
    BY <1>0, <1>3, <2>1 DEF PumpOK
<1>10. CASE pumpReturns
  <2>1. s' = s /\ (pump' = idlePump \/ pump' = firstTurn("drain", s))
    BY <1>10 DEF pumpReturns, returned
  <2>2. CASE pump' = idlePump
    BY <1>3, <2>1, <2>2, Zenon DEF PumpOK, idlePump
  <2>3. CASE pump' = firstTurn("drain", s)
    <3>1. /\ pump'.phase = "micro" /\ pump'.next = "return"
          /\ pump'.ready_count = Len(s'.ready)
      BY <2>1, <2>3, FirstTurnOK, Zenon
    <3>2. Len(s'.ready) \in Nat
      BY <1>0, <2>1, ReadyLength
    <3> QED
      BY <1>3, <2>1, <3>1, <3>2 DEF PumpOK
  <2> QED
    BY <2>1, <2>2, <2>3
<1>11. CASE runOne /\ readyHits = {}
  <2>1. s' = nextActivation(s, FALSE) /\ pump' = [pump EXCEPT !.phase = "return"]
    BY <1>11 DEF runOne
  <2>2. LET r == nextActivation(s, FALSE)
        IN allAlike(r, s) /\ r.current = s.current
    BY <1>0, <1>11, NextReady, Zenon DEF readyHits
  <2>3. allAlike(s', s) /\ s'.current = s.current
    BY <2>1, <2>2, Zenon
  <2>4. pump'.next = pump.next /\ pump'.phase = "return"
    BY <1>0, <2>1 DEF Pumps
  <2> QED
    BY <1>0, <2>3, <2>4 DEF PumpOK
<1> QED
  BY <1>4, <1>5, <1>6, <1>7, <1>8, <1>9, <1>10, <1>11

LEMMA StartsPumpTasks ==
  ASSUME IInv, IInv', JInv, NEW mode \in {"drain", "once"}, startPump(mode)
  PROVE  JInv'
<1>1. /\ s' = s /\ coding /\ pump' = firstTurn(mode, s)
      /\ UNCHANGED <<coroutine, wait, resolved, armed, cancelled_tasks, frames>>
      /\ frames # <<>> => "nested" \in Features
  BY DEF startPump, taskVars
<1>2. allAlike(s', s) /\ s'.current = s.current
  BY <1>1 DEF allAlike, alike
<1>3. pump'.phase = "micro" /\ pump'.next = "return" /\ pump'.ready_count = Len(s'.ready)
  BY <1>1, FirstTurnOK, Zenon
<1>4. Len(s'.ready) \in Nat
  BY <1>1, ReadyLength
<1>5. PumpOK'
  BY <1>3, <1>4 DEF PumpOK
<1> QED
  BY <1>1, <1>2, <1>5, PumpStep

\* The pump puts a frame on the coroutine stack.
LEMMA PushedFrame ==
  ASSUME IInv, NEW f, f \in Frame, frames' = Append(frames, f)
  PROVE  LET n == Len(frames) + 1
         IN /\ Len(frames') = n /\ n \in DOMAIN frames' /\ frames'[n] = f /\ me' = f.task
            /\ \A i \in DOMAIN frames : i \in DOMAIN frames' /\ i # n /\ frames'[i] = frames[i]
            /\ \A i \in DOMAIN frames' : i = n \/ i \in DOMAIN frames
            /\ frames = <<>> => Len(frames') = 1
<1> DEFINE n == Len(frames) + 1
<1>1. frames \in Seq(Frame) /\ Len(frames) \in Nat /\ DOMAIN frames = 1..Len(frames)
  BY TaskTypes, SeqDomain
<1>2. /\ frames' \in Seq(Frame) /\ Len(frames') = n
      /\ frames' # <<>> /\ frames'[n] = f
      /\ \A i \in 1..Len(frames) : frames'[i] = frames[i]
  BY <1>1, SeqAppend
<1>3. DOMAIN frames' = 1..n
  BY <1>2, SeqDomain
<1>4. me' = f.task
  BY <1>2 DEF me, topFrame
<1>5. \A i \in DOMAIN frames : i \in DOMAIN frames' /\ i # n /\ frames'[i] = frames[i]
  BY <1>1, <1>2, <1>3
<1>6. n \in DOMAIN frames' /\ \A i \in DOMAIN frames' : i = n \/ i \in DOMAIN frames
  BY <1>1, <1>3
<1>7. frames = <<>> => Len(frames') = 1
  BY <1>2
<1> QED
  BY <1>2, <1>4, <1>5, <1>6, <1>7

\* activate_task: the task that runs has used up its wake, and is on top.
LEMMA ActivatesTask ==
  ASSUME IInv, IInv', JInv, pump.phase # "code", NEW c, activated(s', s, c),
         NEW resume \in Pumps, BelowOK(resume),
         coroutine' = [coroutine EXCEPT ![c] = "Running"],
         wait' = [wait EXCEPT ![c] = "none"],
         resolved' = [resolved EXCEPT ![c] = FALSE],
         armed' = [armed EXCEPT ![c] = armed[c] /\ wait[c] = "yield" /\ s.pending[c] = "resume"],
         frames' = Append(frames, [task |-> c, pump |-> resume]),
         pump' = idlePump, cancelled_tasks' = cancelled_tasks
  PROVE  JInv'
<1> DEFINE f == [task |-> c, pump |-> resume]
           n == Len(frames) + 1
<1>1. /\ c \in s.live /\ s.queued[c] /\ othersAlike(s', s, c)
      /\ s'.live = s.live /\ s'.waiters = s.waiters /\ s'.current = c
      /\ s'.pending[c] = None /\ ~s'.queued[c]
      /\ s'.timer_generation[c] = s.timer_generation[c]
  BY Zenon DEF activated
<1>2. /\ c \in TaskId /\ s.live \subseteq TaskId /\ cancelled_tasks \subseteq TaskId
      /\ s.timer_generation[c] \in Nat \cup {None}
  BY <1>1, TaskTypes, Zenon
<1>3. f \in Frame /\ frames' = Append(frames, f) /\ f.task = c /\ f.pump = resume
  BY <1>2, Zenon DEF Frame
<1>4. /\ Len(frames') = n /\ n \in DOMAIN frames' /\ frames'[n] = f /\ me' = c
      /\ \A i \in DOMAIN frames : i \in DOMAIN frames' /\ i # n /\ frames'[i] = frames[i]
      /\ \A i \in DOMAIN frames' : i = n \/ i \in DOMAIN frames
      /\ frames = <<>> => Len(frames') = 1
  BY <1>3, PushedFrame, Zenon
<1> HIDE DEF f, n
<1>5. /\ coroutine'[c] = "Running" /\ resolved'[c] = FALSE
      /\ armed'[c] => armed[c] /\ wait[c] = "yield"
      /\ \A u \in TaskId \ {c} : untouched(u)
  BY <1>2, TaskTypes, Zenon DEF untouched
<1>6. pump'.phase = "code" /\ pump'.next = "return"
  BY Zenon DEF idlePump
<1>7. FreshOK(c) \/ (SuspendedOK(c) /\ WokenOK(s, c))
  BY <1>1, Zenon DEF JInv, TasksOK, TaskOK, RunningOK, SuspendedOK, ParkedOK
<1>8. /\ s.timer_generation[c] = None /\ c \notin s.waiters /\ coroutine[c] # "Running"
      /\ armed[c] /\ wait[c] = "yield" => LosesDescriptor
  BY <1>1, <1>7, Zenon DEF FreshOK, SuspendedOK, WokenOK
<1>9. RunningOK(c)'
  <2>1. \E i \in DOMAIN frames' : frames'[i].task = c
    BY <1>3, <1>4, Zenon
  <2>2. armed'[c] => LosesDescriptor
    BY <1>5, <1>8, Zenon
  <2>3. c \notin s'.waiters /\ s'.timer_generation[c] = None
    BY <1>1, <1>8, Zenon
  <2> QED
    BY <1>1, <1>4, <1>5, <1>6, <2>1, <2>2, <2>3, Zenon DEF RunningOK, LosesDescriptor
<1>10. TasksOK'
  <2> SUFFICES ASSUME NEW u \in s.live, u # c PROVE TaskOK(u)'
    BY <1>1, <1>9, Zenon DEF TasksOK, TaskOK
  <2>1. u \in TaskId \ {c}
    BY <1>2, Zenon
  <2>2. alike(s', s, u) /\ untouched(u)
    BY <1>1, <1>5, <2>1, Zenon DEF othersAlike
  <2>3. TaskOK(u)
    BY Zenon DEF JInv, TasksOK
  <2>4. ASSUME coroutine[u] = "Running"
        PROVE  ~armed[u] /\ \E i \in DOMAIN frames' : frames'[i].task = u
    <3>1. RunningOK(u)
      BY <2>3, <2>4, Zenon DEF TaskOK, FreshOK, SuspendedOK
    <3>2. PICK i \in DOMAIN frames : frames[i].task = u
      BY <3>1, Zenon DEF RunningOK
    <3>3. ~armed[u]
      BY <2>4, NotArmed, Zenon
    <3> QED
      BY <1>4, <3>2, <3>3, Zenon
  <2> QED
    BY <2>2, <2>3, <2>4, OtherTask, Zenon
<1>11. FramesOK'
  <2>1. \A i \in DOMAIN frames : /\ frames[i].task \in s.live /\ frames[i].task # c
                                 /\ coroutine[frames[i].task] = "Running"
    BY <1>8, Zenon DEF JInv, FramesOK
  <2>2. ASSUME NEW i \in DOMAIN frames', NEW j \in DOMAIN frames',
               frames'[i].task = frames'[j].task
        PROVE  i = j
    <3>1. CASE i = n /\ j # n
      BY <1>3, <1>4, <2>1, <2>2, <3>1, Zenon
    <3>2. CASE i # n /\ j = n
      BY <1>3, <1>4, <2>1, <2>2, <3>2, Zenon
    <3>3. CASE i # n /\ j # n
      <4>1. /\ i \in DOMAIN frames /\ frames'[i] = frames[i]
            /\ j \in DOMAIN frames /\ frames'[j] = frames[j]
        BY <1>4, <3>3, Zenon
      <4>2. frames[i].task = frames[j].task
        BY <2>2, <4>1, Zenon
      <4> QED
        BY <4>1, <4>2 DEF JInv, FramesOK
    <3> QED
      BY <3>1, <3>2, <3>3
  <2>3. ASSUME NEW i \in DOMAIN frames'
        PROVE  frames'[i].task \in s'.live /\ coroutine'[frames'[i].task] = "Running"
    <3>1. CASE i = n
      BY <1>1, <1>3, <1>4, <1>5, <3>1, Zenon
    <3>2. CASE i \in DOMAIN frames
      <4>1. frames[i].task \in TaskId \ {c}
        BY <1>2, <2>1, <3>2, Zenon
      <4>2. frames'[i] = frames[i]
        BY <1>4, <3>2, Zenon
      <4>3. coroutine'[frames[i].task] = "Running"
        BY <1>5, <2>1, <3>2, <4>1, Zenon DEF untouched
      <4> QED
        BY <1>1, <2>1, <3>2, <4>2, <4>3, Zenon
    <3> QED
      BY <1>4, <3>1, <3>2, Zenon
  <2> QED
    BY <2>2, <2>3, Zenon DEF FramesOK
<1>12. CurrentOK'
  <2>1. "nested" \notin Features => frames = <<>>
    BY Zenon DEF JInv, CurrentOK
  <2>2. "nested" \notin Features => Len(frames') = 1
    BY <1>4, <2>1, Zenon
  <2>3. Len(frames') = 1 => Len(frames') <= 1
    OBVIOUS
  <2> QED
    BY <1>1, <1>4, <1>6, <2>2, <2>3, Zenon DEF CurrentOK
<1>13. PumpOK'
  BY <1>6, Zenon DEF PumpOK
<1>14. \A i \in DOMAIN frames' : BelowOK(frames'[i].pump)
  BY <1>3, <1>4, Zenon DEF JInv
<1>15. CancelledNeverParked'
  <2> SUFFICES ASSUME NEW u \in cancelled_tasks, u # c
               PROVE  /\ u \in s'.live
                      /\ \/ coroutine'[u] = "Running"
                         \/ coroutine'[u] = "Suspended" /\ s'.queued[u]
    BY <1>1, <1>5, Zenon DEF CancelledNeverParked
  <2>1. u \in TaskId \ {c}
    BY <1>2, Zenon
  <2>2. alike(s', s, u) /\ coroutine'[u] = coroutine[u]
    BY <1>1, <1>5, <2>1, Zenon DEF othersAlike, untouched
  <2> QED
    BY <2>2, OtherCancelled, Zenon
<1> QED
  BY <1>10, <1>11, <1>12, <1>13, <1>14, <1>15, Zenon DEF JInv, BelowOK

LEMMA RunsTask ==
  ASSUME IInv, IInv', JInv,
         runMicrotask \/ runReady \/ (runOne /\ readyHits # {})
  PROVE  JInv'
<1>0. wellFormed(s) /\ pump \in Pumps /\ pump.next \in {"one", "return"}
  BY TaskTypes, Zenon DEF JInv, PumpOK
<1>1. CASE runMicrotask
  <2> DEFINE c == s.microtasks[Min(microHits)]
             resume == [pump EXCEPT !.batch = pump.batch - 1, !.ran = TRUE]
  <2>1. /\ pump.phase = "micro" /\ pump.batch > 0 /\ microHits # {}
        /\ activate(s.microtasks, Min(microHits), TRUE, resume)
    BY <1>1, Zenon DEF runMicrotask
  <2>2. pump.batch - 1 \in Nat
    BY <1>0, <2>1 DEF Pumps
  <2>3. resume \in Pumps /\ BelowOK(resume)
    BY <1>0, <2>2, UpdatePump, Zenon DEF BelowOK, Pumps
  <2>4. activated(nextActivation(s, TRUE), s, c)
    BY <1>0, <2>1, NextMicrotask, Zenon DEF microHits
  <2> HIDE DEF resume
  <2>5. activated(s', s, c)
    BY <2>1, <2>4, Zenon DEF activate
  <2> QED
    BY <2>1, <2>3, <2>5, ActivatesTask, Zenon DEF activate
<1>2. ASSUME readyHits # {}, pump.phase # "code", NEW resume \in Pumps, BelowOK(resume),
             activate(s.ready, Min(readyHits), FALSE, resume)
      PROVE  JInv'
  <2> DEFINE c == s.ready[Min(readyHits)]
  <2>1. activated(nextActivation(s, FALSE), s, c)
    BY <1>0, <1>2, NextReady, Zenon DEF readyHits
  <2>2. activated(s', s, c)
    BY <1>2, <2>1, Zenon DEF activate
  <2> QED
    BY <1>2, <2>2, ActivatesTask, Zenon DEF activate
<1>3. CASE runReady
  <2> DEFINE resume == [pump EXCEPT !.ready_count = pump.ready_count - 1, !.ran = TRUE]
  <2>1. /\ pump.phase = "ready" /\ pump.ready_count > 0 /\ readyHits # {}
        /\ activate(s.ready, Min(readyHits), FALSE, resume)
    BY <1>3, Zenon DEF runReady
  <2>2. pump.ready_count - 1 \in Nat
    BY <1>0, <2>1 DEF Pumps
  <2>3. resume \in Pumps /\ BelowOK(resume)
    BY <1>0, <2>2, UpdatePump, Zenon DEF BelowOK, Pumps
  <2> HIDE DEF resume
  <2> QED
    BY <1>2, <2>1, <2>3, Zenon
<1>4. CASE runOne /\ readyHits # {}
  <2> DEFINE resume == [pump EXCEPT !.phase = "return"]
  <2>1. pump.phase = "one" /\ activate(s.ready, Min(readyHits), FALSE, resume)
    BY <1>4, Zenon DEF runOne
  <2>2. resume \in Pumps /\ BelowOK(resume)
    BY <1>0, UpdatePump, Phases DEF BelowOK, Pumps
  <2> HIDE DEF resume
  <2> QED
    BY <1>2, <1>4, <2>1, <2>2, Zenon
<1> QED
  BY <1>1, <1>3, <1>4

LEMMA PumpTasks ==
  ASSUME IInv, IInv', JInv, Pump
  PROVE  JInv'
BY RunsTask, QuietPumpTasks, WakesByKey, WakesByTimer DEF Pump

------------------------------------------------------------------------------
(* The theorems.                                                            *)

LEMMA NextTasks ==
  ASSUME IInv, IInv', JInv, [Next]_vars
  PROVE  JInv'
<1>1. CASE Next
  BY <1>1, OperationsTasks, ArmsTask, SliceEndsTasks, PumpTasks, StartsPumpTasks DEF Next
<1>2. CASE UNCHANGED vars
  <2>1. me' = me
    BY <1>2, Zenon DEF vars, me, topFrame
  <2>2. TasksOK'
    <3> SUFFICES ASSUME NEW t \in s.live PROVE TaskOK(t)'
      BY <1>2 DEF vars, TasksOK
    <3>1. TaskOK(t)
      BY DEF JInv, TasksOK
    <3>2. FreshOK(t) => FreshOK(t)'
      BY <1>2 DEF vars, FreshOK
    <3>3. RunningOK(t) => RunningOK(t)'
      BY <1>2, <2>1 DEF vars, RunningOK
    <3>4. WokenOK(s, t) => WokenOK(s, t)'
      BY <1>2 DEF vars, WokenOK
    <3>5. LosesDescriptor' = LosesDescriptor /\ LosesTimer' = LosesTimer
      BY <1>2 DEF vars, LosesDescriptor, LosesTimer
    <3>6. ParkedOK(s, t, wait[t]) => ParkedOK(s, t, wait[t])'
      BY <1>2, <3>5 DEF vars, ParkedOK
    <3>7. SuspendedOK(t) => SuspendedOK(t)'
      BY <1>2, <3>4, <3>5, <3>6 DEF vars, SuspendedOK
    <3> QED
      BY <3>1, <3>2, <3>3, <3>7 DEF TaskOK
  <2>3. FramesOK' /\ CurrentOK' /\ PumpOK'
    BY <1>2, <2>1 DEF vars, JInv, FramesOK, CurrentOK, PumpOK
  <2>4. CancelledNeverParked' /\ \A i \in DOMAIN frames' : BelowOK(frames'[i].pump)
    BY <1>2 DEF vars, JInv, BelowOK, CancelledNeverParked
  <2> QED
    BY <2>2, <2>3, <2>4 DEF JInv
<1> QED
  BY <1>1, <1>2

\* Every run of the event loop keeps each live task in one of its conditions:
\* not started, running on the coroutine stack, or suspended with one wake.
THEOREM EventLoopTasks == Spec => []JInv
<1>1. Init => JInv
  <2> SUFFICES ASSUME Init PROVE JInv
    OBVIOUS
  <2>1. s.live = {} /\ s.current = None /\ cancelled_tasks = {} /\ frames = <<>>
    BY DEF Init, newScheduler
  <2>2. pump.next = "return" /\ pump.phase = "code"
    BY DEF Init, idlePump
  <2>3. Len(frames) <= 1 /\ DOMAIN frames = {}
    BY <2>1
  <2> QED
    BY <2>1, <2>2, <2>3 DEF JInv, TasksOK, FramesOK, CurrentOK, PumpOK, CancelledNeverParked
<1>2. IInv /\ IInv' /\ JInv /\ [Next]_vars => JInv'
  BY NextTasks
<1> QED
  BY <1>1, <1>2, EventLoopInvariant, PTL DEF Spec

\* A cancelled task is never left parked: it runs, or is queued to see the
\* cancellation, at every suspension point it reaches.
THEOREM EventLoopCancelledNeverParked == Spec => []CancelledNeverParked
<1>1. JInv => CancelledNeverParked
  BY DEF JInv
<1> QED
  BY <1>1, EventLoopTasks, PTL

\* A timer entry that passes the generation guard belongs to the wait its task
\* is in, or to a delayed task that has not started.
THEOREM EventLoopNoStaleTimer == Spec => []NoStaleTimer
<1>1. IInv /\ JInv => NoStaleTimer
  <2> SUFFICES ASSUME IInv, JInv, NEW e \in s.timers, guards(s, e)
               PROVE  \/ coroutine[e.task] = "Fresh" /\ ~s.queued[e.task]
                      \/ /\ coroutine[e.task] = "Suspended" /\ wait[e.task] = "timer"
                         /\ ~s.queued[e.task]
    BY DEF NoStaleTimer
  <2>1. e.generation \in Nat /\ None \notin Nat
    BY SchedulerAssumption, Zenon DEF IInv, TypeOK, Schedulers, TimerEntry
  <2>2. e.task \in s.live /\ s.timer_generation[e.task] # None
    BY <2>1 DEF guards
  <2>3. TaskOK(e.task)
    BY <2>2, Zenon DEF JInv, TasksOK
  <2> QED
    BY <2>2, <2>3, Zenon DEF TaskOK, FreshOK, RunningOK, SuspendedOK, WokenOK, ParkedOK
<1> QED
  BY <1>1, EventLoopInvariant, EventLoopTasks, PTL

\* The activation a task is queued with fits its coroutine, so activate_task
\* never starts a started coroutine or resumes one that is not suspended.
THEOREM EventLoopActivationFits == Spec => []ActivationFits
<1>1. IInv /\ JInv => ActivationFits
  <2> SUFFICES ASSUME IInv, JInv, NEW t \in s.live
               PROVE  /\ s.pending[t] = "start" <=> coroutine[t] = "Fresh"
                      /\ s.queued[t] => coroutine[t] \in {"Fresh", "Suspended"}
    BY DEF ActivationFits
  <2>1. TaskOK(t) /\ None # "start"
    BY SchedulerAssumption DEF JInv, TasksOK
  <2> QED
    BY <2>1, Zenon DEF TaskOK, FreshOK, RunningOK, SuspendedOK, WokenOK, ParkedOK
<1> QED
  BY <1>1, EventLoopInvariant, EventLoopTasks, PTL

\* In a program that keeps its wakes, a task that waits has its wake to come and
\* every wake finds its task in the state it is meant for.
THEOREM EventLoopWakesDelivered == KeepsWakes => (Spec => []WakesDelivered)
<1> SUFFICES ASSUME KeepsWakes PROVE Spec => []WakesDelivered
  OBVIOUS
<1>1. JInv => NoTaskStranded
  <2> SUFFICES ASSUME JInv, NEW t \in s.live
               PROVE  /\ coroutine[t] = "Fresh" => \/ s.queued[t] \/ s.timer_generation[t] # None
                                                   \/ t \in s.waiters
                      /\ coroutine[t] = "Suspended" =>
                           \/ s.queued[t]
                           \/ wait[t] = "timer" /\ s.timer_generation[t] # None
                           \/ wait[t] \in {"descriptor", "armed"} /\ t \in s.waiters
                           \/ wait[t] = "suspension" /\ ~resolved[t]
    BY Zenon DEF NoTaskStranded
  <2>1. TaskOK(t) /\ ~LosesDescriptor /\ ~LosesTimer
    BY Zenon DEF JInv, TasksOK, KeepsWakes
  <2> QED
    BY <2>1, Zenon DEF TaskOK, FreshOK, RunningOK, SuspendedOK, WokenOK, ParkedOK
<1>2. ActivationFits /\ NoTaskStranded => WakesDelivered
  BY DEF WakesDelivered
<1> QED
  BY <1>1, <1>2, EventLoopActivationFits, EventLoopTasks, PTL

\* Only the end of a turn that ran nothing reports that nothing is left.
LEMMA DrainedByTurnEnd ==
  ASSUME [Next]_vars, ~drained, drained'
  PROVE  /\ pump.phase = "ready" /\ pump.ready_count = 0 /\ ~pump.ran
         /\ isIdle(s) \/ ~hasWakeSource(s)
<1>1. ~ Operations
  BY Zenon DEF Operations, loop_defer, loop_queue, loop_on_fd, loop_delay, started, resolve,
         loop_cancel, loop_unreference
<1>2. ~ loop_arm_fd
  BY Zenon DEF loop_arm_fd
<1>3. ~ SliceEnds
  BY Zenon DEF SliceEnds, parkOnTimer, loop_park_on_fd, suspendArmed, suspendOnSuspension,
         yieldToScheduler, suspend, taskReturns, taskThrows
<1>4. ~ \E mode \in {"drain", "once"} : startPump(mode)
  BY DEF startPump
<1>5. UNCHANGED vars => drained' = drained
  BY DEF vars
<1>6. Pump
  BY <1>1, <1>2, <1>3, <1>4, <1>5, Zenon DEF Next
<1>7. ~ (runMicrotask \/ runReady \/ runOne)
  BY Zenon DEF runMicrotask, runReady, runOne, activate
<1>8. ~ (microtasksDone \/ skipReady \/ poll_reactor_nonblocking \/ poll_reactor
         \/ wake_key \/ wake_expired_timers \/ pollDone \/ pumpReturns)
  BY Zenon DEF microtasksDone, skipReady, poll_reactor_nonblocking, poll_reactor,
         wake_key, wake_expired_timers, pollDone, pumpReturns
<1>9. turnEnds
  BY <1>6, <1>7, <1>8 DEF Pump
<1> QED
  BY <1>9, Zenon DEF turnEnds

\* In a program that keeps its wakes, when the pump reports that nothing is left
\* no task is queued, and a referenced task runs below this pump or waits for a
\* suspension that only code outside the loop can resolve.
THEOREM EventLoopDrainedMeansStuck == KeepsWakes => (Spec => DrainedMeansStuck)
<1> SUFFICES ASSUME KeepsWakes PROVE Spec => DrainedMeansStuck
  OBVIOUS
<1> DEFINE Stuck == \A t \in s.live :
                      /\ ~s.queued[t]
                      /\ s.referenced[t] /\ ~isIdle(s) =>
                           \/ coroutine[t] = "Running"
                           \/ wait[t] = "suspension" /\ ~resolved[t]
<1>1. IInv /\ JInv /\ [Next]_vars => [~drained /\ drained' => Stuck]_vars
  <2> SUFFICES ASSUME IInv, JInv, [Next]_vars, ~drained, drained', NEW t \in s.live
               PROVE  /\ ~s.queued[t]
                      /\ ~isIdle(s) => \/ coroutine[t] = "Running"
                                       \/ wait[t] = "suspension" /\ ~resolved[t]
    OBVIOUS
  <2>1. /\ pump.phase = "ready" /\ pump.ready_count = 0 /\ ~pump.ran
        /\ isIdle(s) \/ ~hasWakeSource(s)
    BY DrainedByTurnEnd
  <2>2. wellFormed(s) /\ TaskOK(t) /\ PumpOK
    BY DEF IInv, JInv, TasksOK
  <2>3. s.microtasks = <<>> /\ s.ready = <<>>
    <3>1. s.ready \in Seq(TaskId) /\ Len(s.ready) \in Nat
      BY DEF IInv, TypeOK, Schedulers
    <3>2. s.microtasks = <<>> /\ Len(s.ready) <= pump.ready_count
      BY <2>1, <2>2, Zenon DEF PumpOK
    <3>3. Len(s.ready) = 0
      BY <2>1, <3>1, <3>2
    <3> QED
      BY <3>1, <3>2, <3>3, SeqEmpty
  <2>4. ~occurs(s.microtasks, t) /\ ~occurs(s.ready, t)
    BY <2>3 DEF occurs
  <2>5. ~s.queued[t]
    BY <2>2, <2>4, Zenon DEF wellFormed, wellQueued
  <2>6. ASSUME ~isIdle(s)
        PROVE  coroutine[t] = "Running" \/ (wait[t] = "suspension" /\ ~resolved[t])
    <3>1. s.live_timers = 0 /\ s.waiters = {}
      BY <2>1, <2>6 DEF hasWakeSource
    <3> DEFINE timed == {u \in s.live : s.timer_generation[u] # None}
    <3>2. IsFiniteSet(timed)
      <4>1. s.live \subseteq TaskId /\ IsFiniteSet(TaskId)
        BY TaskTypes, SchedulerAssumption, Zenon
      <4> QED
        BY <4>1, FS_Subset
    <3>3. Cardinality(timed) = 0
      BY <2>2, <3>1 DEF wellFormed, wellCounted
    <3>4. timed = {}
      BY <3>2, <3>3, FS_EmptySet
    <3>5. s.timer_generation[t] = None /\ t \notin s.waiters
      BY <3>1, <3>4
    <3> QED
      BY <2>2, <2>5, <3>5, Zenon
         DEF TaskOK, FreshOK, RunningOK, SuspendedOK, WokenOK, ParkedOK, KeepsWakes
  <2> QED
    BY <2>5, <2>6
<1> QED
  BY <1>1, EventLoopInvariant, EventLoopTasks, PTL DEF Spec, DrainedMeansStuck

==============================================================================
