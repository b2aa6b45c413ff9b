------------------------------ MODULE Scheduler ------------------------------
(****************************************************************************)
(* The task scheduler of the event loop: struct Scheduler and its methods   *)
(* in crates/loop/src/scheduler.rs.                                         *)
(*                                                                          *)
(* The methods take &mut self and call one another, so the struct is one    *)
(* record s and every method is an operator from the record before the call *)
(* to the record after it.  The fields of a Task are functions on TaskId;   *)
(* `live` is the key set of the tasks map.  A TaskId is never reused in the *)
(* code; here an identifier may come back once no queue, timer or waiter    *)
(* mentions it (see absent), which no method can tell from a fresh one.     *)
(*                                                                          *)
(* Abstractions.  A deadline is a number whose order is the order of the    *)
(* Instants.  The value of an activation is dropped; its kind is kept.      *)
(* `waiters` also stands for `registrations`: both maps get a key together  *)
(* in arm_descriptor and lose it together in disarm.  The unobserved errors *)
(* (record_error and its kin) share no state with the rest and are left     *)
(* out.                                                                     *)
(****************************************************************************)
EXTENDS Naturals, Sequences, FiniteSets, FiniteSetsExt

CONSTANTS
  TaskId,                      \* identifiers of tasks
  Deadline,                    \* instants a timer may be armed for
  None,                        \* Rust's None
  TIMER_COMPACTION_THRESHOLD   \* 1024 in the code

ASSUME SchedulerAssumption ==
  /\ IsFiniteSet(TaskId)
  /\ Deadline \subseteq Nat
  /\ None \notin Nat /\ None \notin TaskId /\ None \notin {"start", "resume", "throw"}
  /\ TIMER_COMPACTION_THRESHOLD \in Nat

Activation == {"start", "resume", "throw"}

\* Scheduler::new
newScheduler ==
  [live             |-> {},
   pending          |-> [t \in TaskId |-> None],
   queued           |-> [t \in TaskId |-> FALSE],
   microtask        |-> [t \in TaskId |-> FALSE],
   referenced       |-> [t \in TaskId |-> FALSE],
   ready_requested  |-> [t \in TaskId |-> FALSE],
   generation       |-> [t \in TaskId |-> 0],
   timer_generation |-> [t \in TaskId |-> None],
   referenced_tasks |-> 0,
   ready            |-> <<>>,
   microtasks       |-> <<>>,
   waiters          |-> {},
   timers           |-> {},
   live_timers      |-> 0,
   stale_timers     |-> 0,
   current          |-> None]

\* No queue, timer or descriptor mentions t: it can stand for a fresh TaskId.
absent(s, t) ==
  /\ t \notin s.live
  /\ \A i \in DOMAIN s.ready : s.ready[i] # t
  /\ \A i \in DOMAIN s.microtasks : s.microtasks[i] # t
  /\ \A e \in s.timers : e.task # t
  /\ t \notin s.waiters

\* insert_task, the common part of spawn, queue and spawn_armed
insertTask(s, t, micro) ==
  [s EXCEPT !.live = @ \cup {t},
            !.pending = [s.pending EXCEPT ![t] = "start"],
            !.queued = [s.queued EXCEPT ![t] = FALSE],
            !.microtask = [s.microtask EXCEPT ![t] = micro],
            !.referenced = [s.referenced EXCEPT ![t] = TRUE],
            !.ready_requested = [s.ready_requested EXCEPT ![t] = FALSE],
            !.generation = [s.generation EXCEPT ![t] = 0],
            !.timer_generation = [s.timer_generation EXCEPT ![t] = None],
            !.referenced_tasks = @ + 1]

push(q, t, front) == IF front THEN <<t>> \o q ELSE Append(q, t)

\* mark_queued_with_priority
markQueued(s, t, front) ==
  IF t \notin s.live THEN s
  ELSE IF s.queued[t] THEN [s EXCEPT !.ready_requested[t] = TRUE]
  ELSE [s EXCEPT !.ready_requested = [s.ready_requested EXCEPT ![t] = TRUE],
                 !.queued = [s.queued EXCEPT ![t] = TRUE],
                 !.microtasks = IF s.microtask[t] THEN push(@, t, front) ELSE @,
                 !.ready = IF s.microtask[t] THEN @ ELSE push(@, t, front)]

spawn(s, t, micro) == markQueued(insertTask(s, t, micro), t, FALSE)

------------------------------------------------------------------------------
\* The generation guard: the timer entry e may still fire.
guards(s, e) ==
  /\ e.task \in s.live
  /\ s.generation[e.task] = e.generation
  /\ s.timer_generation[e.task] = e.generation

compactTimersToNothing(s) ==
  IF \/ s.stale_timers < TIMER_COMPACTION_THRESHOLD
     \/ 2 * s.stale_timers < Cardinality(s.timers)
  THEN s
  ELSE [s EXCEPT !.timers = {}, !.stale_timers = 0]

compactTimers(s) ==
  IF \/ s.stale_timers < TIMER_COMPACTION_THRESHOLD
     \/ 2 * s.stale_timers < Cardinality(s.timers)
  THEN s
  ELSE [s EXCEPT !.timers = {e \in @ : guards(s, e)}, !.stale_timers = 0]

armTimer(s, t, deadline) ==
  IF t \notin s.live THEN s
  ELSE LET rearmed == s.timer_generation[t] # None
       IN compactTimers(
            [s EXCEPT !.timer_generation = [s.timer_generation EXCEPT ![t] = s.generation[t]],
                      !.stale_timers = IF rearmed THEN @ + 1 ELSE @,
                      !.live_timers = IF rearmed THEN @ ELSE @ + 1,
                      !.timers = @ \cup {[deadline |-> deadline, task |-> t,
                                          generation |-> s.generation[t]]}])

dropTimerKeepsCount(s, t) ==
  IF s.timer_generation[t] = None THEN s
  ELSE compactTimers([s EXCEPT !.timer_generation[t] = None,
                               !.stale_timers = @ + 1])

\* timer_generation.take() and its accounting, in enqueue, fire, remove_task
dropTimer(s, t) ==
  IF s.timer_generation[t] = None THEN s
  ELSE compactTimers([s EXCEPT !.timer_generation = [s.timer_generation EXCEPT ![t] = None],
                               !.live_timers = @ - 1,
                               !.stale_timers = @ + 1])

armDescriptor(s, t) == [s EXCEPT !.waiters = @ \cup {t}]

disarm(s, t) == [s EXCEPT !.waiters = @ \ {t}]

unreference(s, t) ==
  IF t \in s.live /\ s.referenced[t]
  THEN [s EXCEPT !.referenced = [s.referenced EXCEPT ![t] = FALSE],
                 !.referenced_tasks = @ - 1]
  ELSE s

removeTaskReferenced(s, t) ==
  IF t \notin s.live THEN disarm(s, t)
  ELSE LET d == dropTimer(disarm(s, t), t)
       IN [d EXCEPT !.live = @ \ {t},
                    !.pending = [d.pending EXCEPT ![t] = None],
                    !.referenced_tasks = @ - 1]

\* finish and cancel: disarm, then remove_task
removeTask(s, t) ==
  IF t \notin s.live THEN disarm(s, t)
  ELSE LET d == dropTimer(disarm(s, t), t)
       IN [d EXCEPT !.live = @ \ {t},
                    !.pending = [d.pending EXCEPT ![t] = None],
                    !.referenced_tasks = IF d.referenced[t] THEN @ - 1 ELSE @]

\* The part enqueue and fire share: a new activation, which makes timers of
\* earlier generations stale.
request(s, t, activation) ==
  dropTimer([s EXCEPT !.pending = [s.pending EXCEPT ![t] = activation],
                      !.generation = [s.generation EXCEPT ![t] = @ + 1]], t)

enqueueKeepsTimer(s, t, activation, front) ==
  IF t \notin s.live \/ s.queued[t] \/ s.ready_requested[t] THEN s
  ELSE markQueued(disarm([s EXCEPT !.pending[t] = activation], t), t, front)

\* enqueue_with_priority, behind wake, wake_front and wake_throw
enqueue(s, t, activation, front) ==
  IF t \notin s.live \/ s.queued[t] \/ s.ready_requested[t] THEN s
  ELSE markQueued(request(disarm(s, t), t, activation), t, front)

fireIdleOnly(s, t) ==
  IF t \in s.live /\ s.pending[t] = None
  THEN markQueued(request(s, t, "resume"), t, FALSE)
  ELSE s

\* fire: a timer or descriptor event
fire(s, t) ==
  markQueued(IF t \in s.live /\ s.pending[t] = None
             THEN request(s, t, "resume")
             ELSE s,
             t, FALSE)

wakeKey(s, t) == IF t \in s.waiters THEN fire(disarm(s, t), t) ELSE s

------------------------------------------------------------------------------
\* The order of the timer heap: (deadline, task, generation), with the
\* identifier order left open.
earliest(S) == {e \in S : \A f \in S : e.deadline <= f.deadline}

\* One round of the loop of wake_expired_timers, on the heap's top e.
expire(s, e) ==
  LET popped == [s EXCEPT !.timers = @ \ {e}]
  IN IF guards(s, e)
     THEN fire([popped EXCEPT
                  !.timer_generation = [s.timer_generation EXCEPT ![e.task] = None],
                  !.live_timers = @ - 1], e.task)
     ELSE [popped EXCEPT !.stale_timers = IF @ = 0 THEN 0 ELSE @ - 1]

\* prune_stale_timer_head: stale entries ahead of every live one go.
pruneStaleTimerHead(s) ==
  LET lively == {e \in s.timers : guards(s, e)}
      kept == {e \in s.timers : \E f \in lively : f.deadline <= e.deadline}
      pruned == Cardinality(s.timers) - Cardinality(kept)
  IN [s EXCEPT !.timers = kept,
               !.stale_timers = IF @ < pruned THEN 0 ELSE @ - pruned]

\* Entries of the queue q that next_queued_activation would activate.
runnable(s, q) ==
  {i \in DOMAIN q : /\ q[i] \in s.live
                    /\ s.ready_requested[q[i]]
                    /\ s.pending[q[i]] # None}

nextActivationKeepsQueued(s, micro) ==
  LET q == IF micro THEN s.microtasks ELSE s.ready
      hits == runnable(s, q)
      n == IF hits = {} THEN Len(q) ELSE Min(hits)
      rest == SubSeq(q, n + 1, Len(q))
      skipped == [s EXCEPT !.microtasks = IF micro THEN rest ELSE @,
                           !.ready = IF micro THEN @ ELSE rest]
  IN IF hits = {} THEN skipped
     ELSE [skipped EXCEPT !.pending[q[n]] = None, !.current = q[n]]

\* next_queued_activation: pop up to the first runnable entry, if any.
nextActivation(s, micro) ==
  LET q == IF micro THEN s.microtasks ELSE s.ready
      hits == runnable(s, q)
      n == IF hits = {} THEN Len(q) ELSE Min(hits)
      popped == {q[i] : i \in 1..n} \cap s.live
      rest == SubSeq(q, n + 1, Len(q))
      skipped == [s EXCEPT
                    !.microtasks = IF micro THEN rest ELSE @,
                    !.ready = IF micro THEN @ ELSE rest,
                    !.queued = [t \in TaskId |-> s.queued[t] /\ t \notin popped],
                    !.ready_requested =
                      [t \in TaskId |-> s.ready_requested[t] /\ t \notin popped]]
  IN IF hits = {} THEN skipped
     ELSE [skipped EXCEPT !.pending = [s.pending EXCEPT ![q[n]] = None],
                          !.current = q[n]]

hasTimer(s) == s.live_timers # 0

hasWakeSource(s) == s.live_timers # 0 \/ s.waiters # {}

isIdle(s) == s.referenced_tasks = 0

------------------------------------------------------------------------------
(* What the methods keep.                                                   *)

TimerEntry == [deadline : Deadline, task : TaskId, generation : Nat]

Schedulers ==
  [live             : SUBSET TaskId,
   pending          : [TaskId -> Activation \cup {None}],
   queued           : [TaskId -> BOOLEAN],
   microtask        : [TaskId -> BOOLEAN],
   referenced       : [TaskId -> BOOLEAN],
   ready_requested  : [TaskId -> BOOLEAN],
   generation       : [TaskId -> Nat],
   timer_generation : [TaskId -> Nat \cup {None}],
   referenced_tasks : Nat,
   ready            : Seq(TaskId),
   microtasks       : Seq(TaskId),
   waiters          : SUBSET TaskId,
   timers           : SUBSET TimerEntry,
   live_timers      : Nat,
   stale_timers     : Nat,
   current          : TaskId \cup {None}]

occurs(q, t) == \E i \in DOMAIN q : q[i] = t

distinct(q) == \A i, j \in DOMAIN q : q[i] = q[j] => i = j

wellQueued(s) ==
  /\ distinct(s.ready) /\ distinct(s.microtasks)
  /\ \A t \in s.live :
       /\ occurs(s.ready, t) <=> s.queued[t] /\ ~s.microtask[t]
       /\ occurs(s.microtasks, t) <=> s.queued[t] /\ s.microtask[t]
       /\ s.queued[t] <=> s.ready_requested[t]
       /\ s.queued[t] => s.pending[t] # None

wellCounted(s) ==
  /\ s.referenced_tasks = Cardinality({t \in s.live : s.referenced[t]})
  /\ s.live_timers = Cardinality({t \in s.live : s.timer_generation[t] # None})

wellTimed(s) ==
  \A t \in s.live :
    s.timer_generation[t] # None =>
      /\ s.timer_generation[t] = s.generation[t]
      /\ \E e \in s.timers : e.task = t /\ e.generation = s.generation[t]

==============================================================================
