--------------------------- MODULE SchedulerProofs ---------------------------
(****************************************************************************)
(* What every method of the Scheduler keeps, for every set of tasks, every  *)
(* set of deadlines and every compaction threshold.                         *)
(****************************************************************************)
EXTENDS Scheduler, FiniteSetTheorems, TLAPS

wellFormed(s) ==
  /\ s \in Schedulers
  /\ wellQueued(s)
  /\ wellCounted(s)
  /\ wellTimed(s)
  /\ IsFiniteSet(s.timers)

------------------------------------------------------------------------------
\* A nonempty set of naturals has a least element.
LEMMA MinExists ==
  ASSUME NEW T, T \subseteq Nat, T # {}
  PROVE  Min(T) \in T /\ \A y \in T : Min(T) <= y
<1> DEFINE R == OpToRel(<, Nat)
<1>1. IsWellFoundedOn(R, Nat)
  BY NatLessThanWellFounded, Zenon
<1>2. PICK x \in T : \A y \in T : ~ (<<y, x>> \in R)
  <2> HIDE DEF R
  <2> QED
    BY <1>1, WFMin, Zenon
<1>3. \A y \in T : ~ (y < x)
  BY <1>2, Zenon DEF OpToRel
<1>4. \A y \in T : x <= y
  BY <1>3
<1> QED
  BY <1>4, Zenon DEF Min

LEMMA TaskSetFinite ==
  ASSUME NEW S, S \subseteq TaskId
  PROVE  IsFiniteSet(S) /\ Cardinality(S) \in Nat
BY SchedulerAssumption, FS_Subset, FS_CardinalityType

LEMMA CountOneMore ==
  ASSUME NEW S, S \subseteq TaskId, NEW t \in TaskId, t \notin S
  PROVE  Cardinality(S \cup {t}) = Cardinality(S) + 1
BY TaskSetFinite, FS_AddElement

LEMMA CountOneLess ==
  ASSUME NEW S, S \subseteq TaskId, NEW t \in S
  PROVE  Cardinality(S \ {t}) = Cardinality(S) - 1 /\ Cardinality(S) \in Nat \ {0}
<1>1. Cardinality(S \ {t}) = Cardinality(S) - 1
  BY TaskSetFinite, FS_RemoveElement
<1>2. Cardinality(S \ {t}) \in Nat /\ Cardinality(S) \in Nat
  BY TaskSetFinite
<1> QED
  BY <1>1, <1>2

LEMMA SeqDomain ==
  ASSUME NEW S, NEW q \in Seq(S)
  PROVE  Len(q) \in Nat /\ DOMAIN q = 1..Len(q) /\ \A i \in 1..Len(q) : q[i] \in S
OBVIOUS

LEMMA SeqEmpty ==
  ASSUME NEW S
  PROVE  /\ <<>> \in Seq(S) /\ Len(<<>>) = 0
         /\ \A q \in Seq(S) : q # <<>> => Len(q) \in Nat \ {0}
OBVIOUS

LEMMA SeqAppend ==
  ASSUME NEW S, NEW q \in Seq(S), NEW x \in S
  PROVE  /\ Append(q, x) \in Seq(S) /\ Len(Append(q, x)) = Len(q) + 1
         /\ Append(q, x)[Len(q) + 1] = x
         /\ \A i \in 1..Len(q) : Append(q, x)[i] = q[i]
OBVIOUS

------------------------------------------------------------------------------
\* compact_timers drops only entries that cannot fire and changes nothing else.
LEMMA CompactTimers ==
  ASSUME NEW s \in Schedulers
  PROVE  \E T \in SUBSET s.timers, n \in Nat :
           /\ compactTimers(s) = [s EXCEPT !.timers = T, !.stale_timers = n]
           /\ \A e \in s.timers : guards(s, e) => e \in T
<1>1. CASE \/ s.stale_timers < TIMER_COMPACTION_THRESHOLD
           \/ 2 * s.stale_timers < Cardinality(s.timers)
  <2>1. compactTimers(s) = s
    BY <1>1 DEF compactTimers
  <2>2. s = [s EXCEPT !.timers = s.timers, !.stale_timers = s.stale_timers]
    BY Zenon DEF Schedulers
  <2>3. s.timers \in SUBSET s.timers /\ s.stale_timers \in Nat
    BY DEF Schedulers
  <2> QED
    BY <2>1, <2>2, <2>3, Zenon
<1>2. CASE ~(\/ s.stale_timers < TIMER_COMPACTION_THRESHOLD
             \/ 2 * s.stale_timers < Cardinality(s.timers))
  <2> DEFINE T == {e \in s.timers : guards(s, e)}
  <2>1. compactTimers(s) = [s EXCEPT !.timers = T, !.stale_timers = 0]
    BY <1>2 DEF compactTimers
  <2> QED
    BY <2>1, Zenon
<1> QED
  BY <1>1, <1>2, Zenon

------------------------------------------------------------------------------
\* A scheduler with one field replaced by a value of its type is a scheduler.
LEMMA Update ==
  ASSUME NEW s \in Schedulers
  PROVE  /\ \A v \in SUBSET TaskId : [s EXCEPT !.live = v] \in Schedulers
         /\ \A v \in [TaskId -> Activation \cup {None}] : [s EXCEPT !.pending = v] \in Schedulers
         /\ \A v \in [TaskId -> BOOLEAN] : [s EXCEPT !.queued = v] \in Schedulers
         /\ \A v \in [TaskId -> BOOLEAN] : [s EXCEPT !.microtask = v] \in Schedulers
         /\ \A v \in [TaskId -> BOOLEAN] : [s EXCEPT !.referenced = v] \in Schedulers
         /\ \A v \in [TaskId -> BOOLEAN] : [s EXCEPT !.ready_requested = v] \in Schedulers
         /\ \A v \in [TaskId -> Nat] : [s EXCEPT !.generation = v] \in Schedulers
         /\ \A v \in [TaskId -> Nat \cup {None}] : [s EXCEPT !.timer_generation = v] \in Schedulers
         /\ \A v \in Nat : [s EXCEPT !.referenced_tasks = v] \in Schedulers
         /\ \A v \in Seq(TaskId) : [s EXCEPT !.ready = v] \in Schedulers
         /\ \A v \in Seq(TaskId) : [s EXCEPT !.microtasks = v] \in Schedulers
         /\ \A v \in SUBSET TaskId : [s EXCEPT !.waiters = v] \in Schedulers
         /\ \A v \in SUBSET TimerEntry : [s EXCEPT !.timers = v] \in Schedulers
         /\ \A v \in Nat : [s EXCEPT !.live_timers = v] \in Schedulers
         /\ \A v \in Nat : [s EXCEPT !.stale_timers = v] \in Schedulers
         /\ \A v \in TaskId \cup {None} : [s EXCEPT !.current = v] \in Schedulers
BY Zenon DEF Schedulers

LEMMA InsertTask ==
  ASSUME NEW s, wellFormed(s), NEW t \in TaskId, absent(s, t), NEW micro \in BOOLEAN
  PROVE  LET r == insertTask(s, t, micro)
         IN wellFormed(r) /\ t \in r.live /\ r.pending[t] = "start" /\ r.timer_generation[t] = None
<1> DEFINE r == insertTask(s, t, micro)
<1> USE DEF wellFormed
<1>1. r \in Schedulers
  <2>1. /\ s.live \cup {t} \in SUBSET TaskId
        /\ [s.pending EXCEPT ![t] = "start"] \in [TaskId -> Activation \cup {None}]
        /\ [s.queued EXCEPT ![t] = FALSE] \in [TaskId -> BOOLEAN]
        /\ [s.microtask EXCEPT ![t] = micro] \in [TaskId -> BOOLEAN]
        /\ [s.referenced EXCEPT ![t] = TRUE] \in [TaskId -> BOOLEAN]
        /\ [s.ready_requested EXCEPT ![t] = FALSE] \in [TaskId -> BOOLEAN]
        /\ [s.generation EXCEPT ![t] = 0] \in [TaskId -> Nat]
        /\ [s.timer_generation EXCEPT ![t] = None] \in [TaskId -> Nat \cup {None}]
        /\ s.referenced_tasks + 1 \in Nat
    BY DEF Schedulers, Activation
  <2> DEFINE pending == [s.pending EXCEPT ![t] = "start"]
  <2> DEFINE queued == [s.queued EXCEPT ![t] = FALSE]
  <2> DEFINE microtask == [s.microtask EXCEPT ![t] = micro]
  <2> DEFINE referenced == [s.referenced EXCEPT ![t] = TRUE]
  <2> DEFINE requested == [s.ready_requested EXCEPT ![t] = FALSE]
  <2> DEFINE generation == [s.generation EXCEPT ![t] = 0]
  <2> DEFINE timer == [s.timer_generation EXCEPT ![t] = None]
  <2> DEFINE s1 == [s EXCEPT !.live = s.live \cup {t}, !.pending = pending, !.queued = queued]
  <2> DEFINE s2 == [s1 EXCEPT !.microtask = microtask, !.referenced = referenced,
                              !.ready_requested = requested]
  <2>2. r = [s2 EXCEPT !.generation = generation, !.timer_generation = timer,
                       !.referenced_tasks = s.referenced_tasks + 1]
    BY DEF insertTask, Schedulers
  <2> HIDE DEF pending, queued, microtask, referenced, requested, generation, timer, r
  <2>3. s1 \in Schedulers
    BY <2>1, Update, Zenon DEF pending, queued
  <2> HIDE DEF s1
  <2>4. s2 \in Schedulers
    BY <2>1, <2>3, Update, Zenon DEF microtask, referenced, requested
  <2> HIDE DEF s2
  <2> QED
    BY <2>1, <2>2, <2>4, Update, Zenon DEF generation, timer
<1>2. /\ r.live = s.live \cup {t} /\ t \notin s.live
      /\ r.ready = s.ready /\ r.microtasks = s.microtasks /\ r.timers = s.timers
      /\ r.pending[t] = "start" /\ r.queued[t] = FALSE /\ r.ready_requested[t] = FALSE
      /\ r.timer_generation[t] = None /\ r.referenced[t] = TRUE
      /\ r.referenced_tasks = s.referenced_tasks + 1 /\ r.live_timers = s.live_timers
      /\ \A u \in TaskId \ {t} :
           /\ r.pending[u] = s.pending[u] /\ r.queued[u] = s.queued[u]
           /\ r.microtask[u] = s.microtask[u] /\ r.referenced[u] = s.referenced[u]
           /\ r.ready_requested[u] = s.ready_requested[u]
           /\ r.generation[u] = s.generation[u]
           /\ r.timer_generation[u] = s.timer_generation[u]
  BY DEF Schedulers, insertTask, absent
<1>3. s.live \subseteq TaskId
  BY DEF Schedulers
<1> HIDE DEF r
<1>4. wellQueued(r)
  BY <1>2, <1>3 DEF wellQueued, distinct, occurs, absent
<1>5. wellCounted(r)
  <2>1. {u \in r.live : r.referenced[u]} = {u \in s.live : s.referenced[u]} \cup {t}
    BY <1>2, <1>3
  <2>2. {u \in r.live : r.timer_generation[u] # None}
          = {u \in s.live : s.timer_generation[u] # None}
    BY <1>2, <1>3
  <2>3. Cardinality({u \in s.live : s.referenced[u]} \cup {t})
          = Cardinality({u \in s.live : s.referenced[u]}) + 1
    BY <1>2, <1>3, CountOneMore
  <2>4. /\ s.referenced_tasks = Cardinality({u \in s.live : s.referenced[u]})
        /\ s.live_timers = Cardinality({u \in s.live : s.timer_generation[u] # None})
    BY DEF wellCounted
  <2>5. r.referenced_tasks = Cardinality({u \in r.live : r.referenced[u]})
    BY <1>2, <2>1, <2>3, <2>4, Zenon
  <2>6. r.live_timers = Cardinality({u \in r.live : r.timer_generation[u] # None})
    BY <1>2, <2>2, <2>4, Zenon
  <2> QED
    BY <2>5, <2>6, Zenon DEF wellCounted
<1>6. wellTimed(r)
  BY <1>2, <1>3 DEF wellTimed
<1> QED
  BY <1>1, <1>2, <1>4, <1>5, <1>6 DEF r

\* A queue keeps its other entries and gains t, in front or at the back.
LEMMA Push ==
  ASSUME NEW q \in Seq(TaskId), NEW t \in TaskId, NEW front \in BOOLEAN
  PROVE  /\ push(q, t, front) \in Seq(TaskId)
         /\ \A u : occurs(push(q, t, front), u) <=> occurs(q, u) \/ u = t
         /\ distinct(q) /\ ~occurs(q, t) => distinct(push(q, t, front))
<1>1. CASE front
  <2> DEFINE p == <<t>> \o q
  <2>1. /\ p \in Seq(TaskId) /\ Len(p) = Len(q) + 1
        /\ p[1] = t /\ \A i \in 1..Len(q) : p[i + 1] = q[i]
    OBVIOUS
  <2>2. push(q, t, front) = p
    BY <1>1 DEF push
  <2> HIDE DEF p
  <2>3. \A i \in 1..Len(p) : i = 1 \/ (i - 1 \in 1..Len(q) /\ p[i] = q[i - 1])
    <3> SUFFICES ASSUME NEW i \in 1..Len(p), i # 1
                 PROVE  i - 1 \in 1..Len(q) /\ p[i] = q[i - 1]
      OBVIOUS
    <3>1. i - 1 \in 1..Len(q) /\ (i - 1) + 1 = i
      BY <2>1
    <3> QED
      BY <2>1, <3>1
  <2>4. \A u : occurs(p, u) <=> occurs(q, u) \/ u = t
    <3>1. ASSUME NEW u, occurs(p, u) PROVE occurs(q, u) \/ u = t
      <4>1. PICK i \in 1..Len(p) : p[i] = u
        BY <2>1, <3>1 DEF occurs
      <4>2. CASE i = 1
        BY <2>1, <4>1, <4>2
      <4>3. CASE i # 1
        <5>1. i - 1 \in DOMAIN q /\ q[i - 1] = u
          BY <2>3, <4>1, <4>3
        <5> QED
          BY <5>1 DEF occurs
      <4> QED
        BY <4>2, <4>3
    <3>2. ASSUME NEW u, occurs(q, u) PROVE occurs(p, u)
      <4>1. PICK i \in 1..Len(q) : q[i] = u
        BY <3>2 DEF occurs
      <4>2. i + 1 \in 1..Len(p) /\ p[i + 1] = u
        BY <2>1, <4>1
      <4> QED
        BY <2>1, <4>2 DEF occurs
    <3>3. occurs(p, t)
      BY <2>1 DEF occurs
    <3> QED
      BY <3>1, <3>2, <3>3
  <2>5. distinct(q) /\ ~occurs(q, t) => distinct(p)
    <3> SUFFICES ASSUME distinct(q), ~occurs(q, t),
                        NEW i \in 1..Len(p), NEW j \in 1..Len(p), p[i] = p[j]
                 PROVE  i = j
      BY <2>1 DEF distinct
    <3>1. \A k \in 1..Len(q) : q[k] # t
      BY DEF occurs
    <3>2. \A k, l \in 1..Len(q) : q[k] = q[l] => k = l
      BY DEF distinct
    <3>3. CASE i = 1 \/ j = 1
      BY <2>1, <2>3, <3>1, <3>3, Zenon
    <3>4. CASE i # 1 /\ j # 1
      <4>1. i - 1 = j - 1
        BY <2>3, <3>2, <3>4, Zenon
      <4> QED
        BY <2>1, <4>1
    <3> QED
      BY <3>3, <3>4
  <2> QED
    BY <2>1, <2>2, <2>4, <2>5
<1>2. CASE ~front
  <2> DEFINE p == Append(q, t)
  <2>1. /\ p \in Seq(TaskId) /\ Len(p) = Len(q) + 1
        /\ p[Len(q) + 1] = t /\ \A i \in 1..Len(q) : p[i] = q[i]
    BY SeqAppend
  <2>2. push(q, t, front) = p
    BY <1>2 DEF push
  <2> HIDE DEF p
  <2>3. \A u : occurs(p, u) <=> occurs(q, u) \/ u = t
    BY <2>1 DEF occurs
  <2>4. distinct(q) /\ ~occurs(q, t) => distinct(p)
    BY <2>1 DEF distinct, occurs
  <2> QED
    BY <2>1, <2>2, <2>3, <2>4
<1> QED
  BY <1>1, <1>2

\* mark_queued puts a task with an activation in its queue.
LEMMA MarkQueued ==
  ASSUME NEW s, wellFormed(s), NEW t \in TaskId, t \in s.live => s.pending[t] # None,
         NEW front \in BOOLEAN
  PROVE  wellFormed(markQueued(s, t, front))
<1> DEFINE r == markQueued(s, t, front)
<1> USE DEF wellFormed
<1>1. CASE t \notin s.live
  BY <1>1 DEF markQueued
<1>2. CASE t \in s.live /\ s.queued[t]
  <2>1. s.ready_requested[t] = TRUE
    BY <1>2 DEF wellQueued, Schedulers
  <2>2. r = s
    BY <1>2, <2>1 DEF markQueued, Schedulers
  <2> QED
    BY <2>2
<1>3. CASE t \in s.live /\ ~s.queued[t]
  <2>1. /\ s.ready \in Seq(TaskId) /\ s.microtasks \in Seq(TaskId) /\ s.live \subseteq TaskId
        /\ s.microtask[t] \in BOOLEAN
    BY DEF Schedulers
  <2>2. push(s.ready, t, front) \in Seq(TaskId) /\ push(s.microtasks, t, front) \in Seq(TaskId)
    BY <2>1, Push
  <2>3. r = [s EXCEPT !.ready_requested = [s.ready_requested EXCEPT ![t] = TRUE],
                      !.queued = [s.queued EXCEPT ![t] = TRUE],
                      !.microtasks = IF s.microtask[t] THEN push(s.microtasks, t, front)
                                     ELSE s.microtasks,
                      !.ready = IF s.microtask[t] THEN s.ready ELSE push(s.ready, t, front)]
    BY <1>3 DEF markQueued
  <2>4. r \in Schedulers
    <3>1. /\ [s.ready_requested EXCEPT ![t] = TRUE] \in [TaskId -> BOOLEAN]
          /\ [s.queued EXCEPT ![t] = TRUE] \in [TaskId -> BOOLEAN]
      BY DEF Schedulers
    <3> DEFINE micro == IF s.microtask[t] THEN push(s.microtasks, t, front) ELSE s.microtasks
    <3> DEFINE ready == IF s.microtask[t] THEN s.ready ELSE push(s.ready, t, front)
    <3>2. micro \in Seq(TaskId) /\ ready \in Seq(TaskId)
      BY <2>1, <2>2
    <3>3. r = [s EXCEPT !.ready_requested = [s.ready_requested EXCEPT ![t] = TRUE],
                        !.queued = [s.queued EXCEPT ![t] = TRUE],
                        !.microtasks = micro, !.ready = ready]
      BY <2>3
    <3> HIDE DEF micro, ready, r
    <3> QED
      BY <3>1, <3>2, <3>3, Update, Zenon
  <2>5. /\ r.live = s.live /\ r.timers = s.timers
        /\ r.pending = s.pending /\ r.microtask = s.microtask /\ r.referenced = s.referenced
        /\ r.generation = s.generation /\ r.timer_generation = s.timer_generation
        /\ r.referenced_tasks = s.referenced_tasks /\ r.live_timers = s.live_timers
        /\ r.ready = (IF s.microtask[t] THEN s.ready ELSE push(s.ready, t, front))
        /\ r.microtasks = (IF s.microtask[t] THEN push(s.microtasks, t, front) ELSE s.microtasks)
        /\ r.queued[t] = TRUE /\ r.ready_requested[t] = TRUE
        /\ \A u \in TaskId \ {t} : /\ r.queued[u] = s.queued[u]
                                   /\ r.ready_requested[u] = s.ready_requested[u]
    BY <2>3 DEF Schedulers
  <2> HIDE DEF r
  <2>6. ~occurs(s.ready, t) /\ ~occurs(s.microtasks, t)
    BY <1>3 DEF wellQueued
  <2>7. wellQueued(r)
    <3>1. distinct(r.ready) /\ distinct(r.microtasks)
      BY <2>1, <2>5, <2>6, Push DEF wellQueued
    <3>2. /\ \A u : occurs(r.ready, u) <=> occurs(s.ready, u) \/ (u = t /\ ~s.microtask[t])
          /\ \A u : occurs(r.microtasks, u) <=> occurs(s.microtasks, u) \/ (u = t /\ s.microtask[t])
      <4>1. /\ \A u : occurs(push(s.ready, t, front), u) <=> occurs(s.ready, u) \/ u = t
            /\ \A u : occurs(push(s.microtasks, t, front), u) <=> occurs(s.microtasks, u) \/ u = t
        BY <2>1, Push
      <4>2. CASE s.microtask[t]
        <5>1. r.ready = s.ready /\ r.microtasks = push(s.microtasks, t, front)
          BY <2>5, <4>2
        <5> QED
          BY <4>1, <4>2, <5>1, Zenon
      <4>3. CASE ~s.microtask[t]
        <5>1. r.ready = push(s.ready, t, front) /\ r.microtasks = s.microtasks
          BY <2>5, <4>3
        <5> QED
          BY <4>1, <4>3, <5>1, Zenon
      <4> QED
        BY <4>2, <4>3
    <3> QED
      BY <1>3, <2>1, <2>5, <2>6, <3>1, <3>2 DEF wellQueued
  <2>8. wellCounted(r) /\ wellTimed(r)
    BY <2>5 DEF wellCounted, wellTimed
  <2> QED
    BY <2>4, <2>5, <2>7, <2>8 DEF r
<1> QED
  BY <1>1, <1>2, <1>3

------------------------------------------------------------------------------
timedApartFrom(s, t) ==
  \A u \in s.live \ {t} :
    s.timer_generation[u] # None =>
      /\ s.timer_generation[u] = s.generation[u]
      /\ \E e \in s.timers : e.task = u /\ e.generation = s.generation[u]

\* What a timer operation leaves alone.
sameTasks(r, s) ==
  /\ r.live = s.live /\ r.pending = s.pending /\ r.queued = s.queued
  /\ r.microtask = s.microtask /\ r.referenced = s.referenced
  /\ r.ready_requested = s.ready_requested /\ r.generation = s.generation
  /\ r.referenced_tasks = s.referenced_tasks
  /\ r.ready = s.ready /\ r.microtasks = s.microtasks
  /\ r.waiters = s.waiters /\ r.current = s.current

\* Compaction keeps well-formedness, whatever it finds stale.
LEMMA CompactKeeps ==
  ASSUME NEW s, wellFormed(s)
  PROVE  LET r == compactTimers(s)
         IN wellFormed(r) /\ sameTasks(r, s) /\ r.timer_generation = s.timer_generation
<1> USE DEF wellFormed
<1>1. PICK T \in SUBSET s.timers, n \in Nat :
         /\ compactTimers(s) = [s EXCEPT !.timers = T, !.stale_timers = n]
         /\ \A e \in s.timers : guards(s, e) => e \in T
  BY CompactTimers, Zenon
<1> DEFINE r == compactTimers(s)
<1>2. T \in SUBSET TimerEntry /\ IsFiniteSet(T)
  BY FS_Subset DEF Schedulers
<1>3. r \in Schedulers
  <2>1. [s EXCEPT !.timers = T, !.stale_timers = n] \in Schedulers
    BY <1>2, Update, Zenon
  <2> QED
    BY <1>1, <2>1
<1>4. /\ sameTasks(r, s) /\ r.timer_generation = s.timer_generation
      /\ r.live_timers = s.live_timers /\ r.timers = T
  BY <1>1 DEF Schedulers, sameTasks
<1> HIDE DEF r
<1>5. wellQueued(r) /\ wellCounted(r)
  BY <1>4 DEF wellQueued, wellCounted, sameTasks
<1>6. wellTimed(r)
  <2> SUFFICES ASSUME NEW u \in s.live, s.timer_generation[u] # None
               PROVE  /\ s.timer_generation[u] = s.generation[u]
                      /\ \E e \in T : e.task = u /\ e.generation = s.generation[u]
    BY <1>4 DEF wellTimed, sameTasks
  <2>1. PICK e \in s.timers : e.task = u /\ e.generation = s.generation[u]
    BY DEF wellTimed
  <2>2. s.timer_generation[u] = s.generation[u]
    BY DEF wellTimed
  <2>3. e \in T
    BY <1>1, <2>1, <2>2 DEF guards
  <2> QED
    BY <2>1, <2>2, <2>3
<1> QED
  BY <1>2, <1>3, <1>4, <1>5, <1>6 DEF r

\* Giving up t's timer restores the timer accounting, whatever t's timer was.
LEMMA DropTimer ==
  ASSUME NEW s \in Schedulers, NEW t \in s.live, wellQueued(s), wellCounted(s),
         timedApartFrom(s, t), IsFiniteSet(s.timers)
  PROVE  LET r == dropTimer(s, t)
         IN wellFormed(r) /\ sameTasks(r, s) /\ r.timer_generation[t] = None
<1>0. t \in TaskId /\ s.live \subseteq TaskId
  BY DEF Schedulers
<1>1. CASE s.timer_generation[t] = None
  <2>1. wellTimed(s)
    BY <1>1 DEF wellTimed, timedApartFrom
  <2> QED
    BY <1>1, <2>1 DEF dropTimer, wellFormed, sameTasks
<1>2. CASE s.timer_generation[t] # None
  <2> DEFINE d == [s EXCEPT !.timer_generation = [s.timer_generation EXCEPT ![t] = None],
                            !.live_timers = s.live_timers - 1,
                            !.stale_timers = s.stale_timers + 1]
  <2> DEFINE timed(x) == {u \in x.live : x.timer_generation[u] # None}
  <2>1. Cardinality(timed(s) \ {t}) = Cardinality(timed(s)) - 1 /\ s.live_timers - 1 \in Nat
    <3>1. timed(s) \subseteq TaskId /\ t \in timed(s)
      BY <1>0, <1>2
    <3> HIDE DEF timed
    <3>2. /\ Cardinality(timed(s) \ {t}) = Cardinality(timed(s)) - 1
          /\ Cardinality(timed(s)) \in Nat \ {0}
      BY <3>1, CountOneLess
    <3>3. s.live_timers = Cardinality(timed(s))
      BY DEF wellCounted, timed
    <3> QED
      BY <3>2, <3>3
  <2>2. /\ [s.timer_generation EXCEPT ![t] = None] \in [TaskId -> Nat \cup {None}]
        /\ s.stale_timers + 1 \in Nat
    BY DEF Schedulers
  <2>3. d \in Schedulers
    BY <2>1, <2>2, Update, Zenon
  <2>4. /\ sameTasks(d, s) /\ d.timers = s.timers /\ d.live_timers = s.live_timers - 1
        /\ d.timer_generation[t] = None
        /\ \A u \in TaskId \ {t} : d.timer_generation[u] = s.timer_generation[u]
    BY <1>0 DEF Schedulers, sameTasks
  <2>5. dropTimer(s, t) = compactTimers(d)
    BY <1>2 DEF dropTimer
  <2> HIDE DEF d
  <2>6. wellQueued(d)
    BY <2>4 DEF wellQueued, sameTasks
  <2>7. wellCounted(d)
    <3>1. timed(d) = timed(s) \ {t}
      BY <1>0, <2>4 DEF sameTasks
    <3>2. /\ s.live_timers = Cardinality(timed(s))
          /\ d.referenced_tasks = Cardinality({u \in d.live : d.referenced[u]})
      BY <2>4 DEF wellCounted, sameTasks
    <3>3. d.live_timers = Cardinality(timed(d))
      BY <2>1, <2>4, <3>1, <3>2
    <3> QED
      BY <3>2, <3>3 DEF wellCounted
  <2>8. wellTimed(d)
    BY <1>0, <2>4 DEF wellTimed, timedApartFrom, sameTasks
  <2>9. wellFormed(d)
    BY <2>3, <2>4, <2>6, <2>7, <2>8 DEF wellFormed
  <2> QED
    BY <2>4, <2>5, <2>9, CompactKeeps DEF sameTasks
<1> QED
  BY <1>1, <1>2

\* A new activation of an unqueued task, by enqueue or fire.
LEMMA Request ==
  ASSUME NEW s, wellFormed(s), NEW t \in s.live, ~s.queued[t], NEW a \in Activation
  PROVE  LET r == request(s, t, a)
         IN wellFormed(r) /\ r.live = s.live /\ r.pending[t] # None
<1> USE DEF wellFormed
<1> DEFINE d == [s EXCEPT !.pending = [s.pending EXCEPT ![t] = a],
                          !.generation = [s.generation EXCEPT ![t] = s.generation[t] + 1]]
<1>0. t \in TaskId /\ s.live \subseteq TaskId /\ a # None
  BY SchedulerAssumption DEF Schedulers, Activation
<1>1. d \in Schedulers
  <2>1. /\ [s.pending EXCEPT ![t] = a] \in [TaskId -> Activation \cup {None}]
        /\ [s.generation EXCEPT ![t] = s.generation[t] + 1] \in [TaskId -> Nat]
    BY <1>0 DEF Schedulers
  <2> QED
    BY <2>1, Update, Zenon
<1>2. /\ d.live = s.live /\ d.queued = s.queued /\ d.microtask = s.microtask
      /\ d.referenced = s.referenced /\ d.ready_requested = s.ready_requested
      /\ d.timer_generation = s.timer_generation /\ d.timers = s.timers
      /\ d.live_timers = s.live_timers /\ d.referenced_tasks = s.referenced_tasks
      /\ d.ready = s.ready /\ d.microtasks = s.microtasks
      /\ d.pending[t] = a
      /\ \A u \in TaskId \ {t} : d.pending[u] = s.pending[u] /\ d.generation[u] = s.generation[u]
  BY <1>0 DEF Schedulers
<1>3. request(s, t, a) = dropTimer(d, t)
  BY DEF request
<1> HIDE DEF d
<1>4. wellQueued(d) /\ wellCounted(d)
  BY <1>0, <1>2 DEF wellQueued, wellCounted
<1>5. timedApartFrom(d, t)
  BY <1>0, <1>2 DEF wellTimed, timedApartFrom
<1>6. LET r == dropTimer(d, t)
      IN wellFormed(r) /\ sameTasks(r, d)
  BY <1>1, <1>2, <1>4, <1>5, DropTimer
<1> QED
  BY <1>0, <1>2, <1>3, <1>6 DEF sameTasks

LEMMA Disarm ==
  ASSUME NEW s, wellFormed(s), NEW W \in SUBSET TaskId
  PROVE  LET r == [s EXCEPT !.waiters = W]
         IN /\ wellFormed(r) /\ r.live = s.live /\ r.queued = s.queued
            /\ r.pending = s.pending /\ r.timer_generation = s.timer_generation
<1> USE DEF wellFormed
<1> DEFINE r == [s EXCEPT !.waiters = W]
<1>1. r \in Schedulers
  BY Update, Zenon
<1>2. /\ r.live = s.live /\ r.queued = s.queued /\ r.microtask = s.microtask
      /\ r.referenced = s.referenced /\ r.ready_requested = s.ready_requested
      /\ r.timer_generation = s.timer_generation /\ r.timers = s.timers
      /\ r.live_timers = s.live_timers /\ r.referenced_tasks = s.referenced_tasks
      /\ r.ready = s.ready /\ r.microtasks = s.microtasks /\ r.pending = s.pending
      /\ r.generation = s.generation
  BY DEF Schedulers
<1> HIDE DEF r
<1>3. wellQueued(r) /\ wellCounted(r) /\ wellTimed(r)
  BY <1>2 DEF wellQueued, wellCounted, wellTimed
<1> QED
  BY <1>1, <1>2, <1>3 DEF r

\* wake, wake_front and wake_throw keep the scheduler well formed.
LEMMA Enqueue ==
  ASSUME NEW s, wellFormed(s), NEW t \in TaskId, NEW a \in Activation, NEW front \in BOOLEAN
  PROVE  wellFormed(enqueue(s, t, a, front))
<1>1. CASE t \notin s.live \/ s.queued[t] \/ s.ready_requested[t]
  BY <1>1 DEF enqueue
<1>2. CASE ~(t \notin s.live \/ s.queued[t] \/ s.ready_requested[t])
  <2> DEFINE d == disarm(s, t)
  <2>1. wellFormed(d) /\ d.live = s.live /\ d.queued = s.queued
    <3>1. s.waiters \ {t} \in SUBSET TaskId
      BY DEF wellFormed, Schedulers
    <3> QED
      BY <3>1, Disarm DEF disarm
  <2>2. enqueue(s, t, a, front) = markQueued(request(d, t, a), t, front)
    BY <1>2 DEF enqueue
  <2> HIDE DEF d
  <2>3. t \in d.live /\ ~d.queued[t]
    BY <1>2, <2>1
  <2>4. wellFormed(request(d, t, a)) /\ request(d, t, a).pending[t] # None
    BY <2>1, <2>3, Request
  <2> QED
    BY <2>2, <2>4, MarkQueued
<1> QED
  BY <1>1, <1>2

\* fire keeps the scheduler well formed: a task with an activation pending may
\* be outside the queues only when it parked and was armed before it ran.
LEMMA Fire ==
  ASSUME NEW s, wellFormed(s), NEW t \in TaskId
  PROVE  wellFormed(fire(s, t))
<1>1. CASE t \in s.live /\ s.pending[t] = None
  <2>1. ~s.queued[t]
    BY <1>1 DEF wellFormed, wellQueued
  <2>2. "resume" \in Activation
    BY DEF Activation
  <2>3. wellFormed(request(s, t, "resume")) /\ request(s, t, "resume").pending[t] # None
    BY <1>1, <2>1, <2>2, Request
  <2>4. fire(s, t) = markQueued(request(s, t, "resume"), t, FALSE)
    BY <1>1 DEF fire
  <2> QED
    BY <2>3, <2>4, MarkQueued, Zenon
<1>2. CASE ~(t \in s.live /\ s.pending[t] = None)
  <2>1. fire(s, t) = markQueued(s, t, FALSE)
    BY <1>2, Zenon DEF fire
  <2> QED
    BY <1>2, <2>1, MarkQueued, Zenon
<1> QED
  BY <1>1, <1>2

LEMMA WakeKey ==
  ASSUME NEW s, wellFormed(s), NEW t \in TaskId
  PROVE  wellFormed(wakeKey(s, t))
<1>1. s.waiters \ {t} \in SUBSET TaskId
  BY DEF wellFormed, Schedulers
<1>2. wellFormed(disarm(s, t))
  BY <1>1, Disarm DEF disarm
<1> QED
  BY <1>2, Fire DEF wakeKey

------------------------------------------------------------------------------
LEMMA NewScheduler ==
  wellFormed(newScheduler)
<1> DEFINE r == newScheduler
<1>1. r \in Schedulers
  BY SchedulerAssumption DEF newScheduler, Schedulers
<1>2. /\ r.live = {} /\ r.ready = <<>> /\ r.microtasks = <<>> /\ r.timers = {}
      /\ r.referenced_tasks = 0 /\ r.live_timers = 0
  BY DEF newScheduler
<1> HIDE DEF r
<1>3. Cardinality({}) = 0 /\ IsFiniteSet({})
  BY FS_EmptySet
<1>4. wellQueued(r)
  BY <1>2 DEF wellQueued, distinct
<1>5. wellCounted(r)
  <2>1. {t \in r.live : r.referenced[t]} = {} /\ {t \in r.live : r.timer_generation[t] # None} = {}
    BY <1>2
  <2> QED
    BY <1>2, <1>3, <2>1 DEF wellCounted
<1>6. wellTimed(r)
  BY <1>2 DEF wellTimed
<1> QED
  BY <1>1, <1>2, <1>3, <1>4, <1>5, <1>6 DEF r, wellFormed

\* clear_current and the activation of a task leave the accounts alone.
LEMMA Current ==
  ASSUME NEW s, wellFormed(s), NEW c \in TaskId \cup {None}
  PROVE  wellFormed([s EXCEPT !.current = c])
<1> USE DEF wellFormed
<1> DEFINE r == [s EXCEPT !.current = c]
<1>1. r \in Schedulers
  BY Update
<1>3. /\ r.live = s.live /\ r.queued = s.queued /\ r.microtask = s.microtask
      /\ r.referenced = s.referenced /\ r.ready_requested = s.ready_requested
      /\ r.timer_generation = s.timer_generation /\ r.timers = s.timers
      /\ r.live_timers = s.live_timers /\ r.referenced_tasks = s.referenced_tasks
      /\ r.ready = s.ready /\ r.microtasks = s.microtasks /\ r.pending = s.pending
      /\ r.generation = s.generation
  BY DEF Schedulers
<1> HIDE DEF r
<1>4. wellQueued(r) /\ wellCounted(r) /\ wellTimed(r)
  BY <1>3 DEF wellQueued, wellCounted, wellTimed
<1> QED
  BY <1>1, <1>3, <1>4 DEF r

LEMMA Unreference ==
  ASSUME NEW s, wellFormed(s), NEW t \in TaskId
  PROVE  wellFormed(unreference(s, t))
<1> USE DEF wellFormed
<1>1. CASE ~(t \in s.live /\ s.referenced[t])
  BY <1>1 DEF unreference
<1>2. CASE t \in s.live /\ s.referenced[t]
  <2> DEFINE r == [s EXCEPT !.referenced = [s.referenced EXCEPT ![t] = FALSE],
                            !.referenced_tasks = s.referenced_tasks - 1]
  <2> DEFINE held(x) == {u \in x.live : x.referenced[u]}
  <2>0. s.live \subseteq TaskId
    BY DEF Schedulers
  <2>1. Cardinality(held(s) \ {t}) = s.referenced_tasks - 1 /\ s.referenced_tasks - 1 \in Nat
    <3>1. held(s) \subseteq TaskId /\ t \in held(s) /\ s.referenced_tasks = Cardinality(held(s))
      BY <1>2, <2>0 DEF wellCounted
    <3> HIDE DEF held
    <3>2. /\ Cardinality(held(s) \ {t}) = Cardinality(held(s)) - 1
          /\ Cardinality(held(s)) \in Nat \ {0}
      BY <3>1, CountOneLess
    <3> QED
      BY <3>1, <3>2
  <2>2. r \in Schedulers
    <3>1. [s.referenced EXCEPT ![t] = FALSE] \in [TaskId -> BOOLEAN]
      BY DEF Schedulers
    <3> QED
      BY <2>1, <3>1, Update, Zenon
  <2>3. /\ r.live = s.live /\ r.queued = s.queued /\ r.microtask = s.microtask
        /\ r.ready_requested = s.ready_requested
        /\ r.timer_generation = s.timer_generation /\ r.timers = s.timers
        /\ r.live_timers = s.live_timers /\ r.referenced_tasks = s.referenced_tasks - 1
        /\ r.ready = s.ready /\ r.microtasks = s.microtasks /\ r.pending = s.pending
        /\ r.generation = s.generation
        /\ r.referenced[t] = FALSE
        /\ \A u \in TaskId \ {t} : r.referenced[u] = s.referenced[u]
    BY DEF Schedulers
  <2>4. unreference(s, t) = r
    BY <1>2 DEF unreference
  <2> HIDE DEF r
  <2>5. wellQueued(r) /\ wellTimed(r)
    BY <2>3 DEF wellQueued, wellTimed
  <2>6. wellCounted(r)
    <3>1. held(r) = held(s) \ {t}
      BY <2>0, <2>3
    <3>2. r.live_timers = Cardinality({u \in r.live : r.timer_generation[u] # None})
      BY <2>3 DEF wellCounted
    <3>3. r.referenced_tasks = Cardinality(held(r))
      BY <2>1, <2>3, <3>1
    <3> QED
      BY <3>2, <3>3 DEF wellCounted
  <2> QED
    BY <2>2, <2>3, <2>4, <2>5, <2>6
<1> QED
  BY <1>1, <1>2

\* finish and cancel: the accounts lose exactly the task's share.
LEMMA RemoveTask ==
  ASSUME NEW s, wellFormed(s), NEW t \in TaskId
  PROVE  wellFormed(removeTask(s, t))
<1> DEFINE w == disarm(s, t)
<1> DEFINE d == dropTimer(w, t)
<1>1. wellFormed(w) /\ w.live = s.live
  <2>1. s.waiters \ {t} \in SUBSET TaskId
    BY DEF wellFormed, Schedulers
  <2> QED
    BY <2>1, Disarm DEF disarm
<1>2. CASE t \notin s.live
  BY <1>1, <1>2 DEF removeTask
<1>3. CASE t \in s.live
  <2> DEFINE n == IF d.referenced[t] THEN d.referenced_tasks - 1 ELSE d.referenced_tasks
  <2> DEFINE r == [d EXCEPT !.live = d.live \ {t},
                            !.pending = [d.pending EXCEPT ![t] = None],
                            !.referenced_tasks = n]
  <2> DEFINE held(x) == {u \in x.live : x.referenced[u]}
  <2> DEFINE timed(x) == {u \in x.live : x.timer_generation[u] # None}
  <2>1. removeTask(s, t) = r
    BY <1>3 DEF removeTask
  <2> HIDE DEF w
  <2>2. wellFormed(d) /\ sameTasks(d, w) /\ d.timer_generation[t] = None
    <3>1. timedApartFrom(w, t)
      BY <1>1 DEF wellFormed, wellTimed, timedApartFrom
    <3> QED
      BY <1>1, <1>3, <3>1, DropTimer DEF wellFormed
  <2> HIDE DEF d
  <2>3. t \in d.live /\ d.live \subseteq TaskId /\ d.referenced \in [TaskId -> BOOLEAN]
    BY <1>1, <1>3, <2>2, Zenon DEF sameTasks, wellFormed, Schedulers
  <2>4. Cardinality(held(d) \ {t}) = n /\ n \in Nat
    <3>1. held(d) \subseteq TaskId /\ d.referenced_tasks = Cardinality(held(d))
      BY <2>2, <2>3 DEF wellFormed, wellCounted
    <3>2. CASE d.referenced[t]
      <4>1. t \in held(d)
        BY <2>3, <3>2
      <4> HIDE DEF held
      <4>2. /\ Cardinality(held(d) \ {t}) = Cardinality(held(d)) - 1
            /\ Cardinality(held(d)) \in Nat \ {0}
        BY <3>1, <4>1, CountOneLess
      <4> QED
        BY <3>1, <3>2, <4>2
    <3>3. CASE ~d.referenced[t]
      <4>1. held(d) \ {t} = held(d)
        BY <3>3
      <4> HIDE DEF held
      <4> QED
        BY <3>1, <3>3, <4>1, TaskSetFinite
    <3> QED
      BY <3>2, <3>3
  <2> HIDE DEF n
  <2>5. r \in Schedulers
    <3>1. d.live \ {t} \in SUBSET TaskId
      BY <2>3
    <3>2. [d.pending EXCEPT ![t] = None] \in [TaskId -> Activation \cup {None}]
      BY <2>2 DEF wellFormed, Schedulers
    <3> QED
      BY <2>2, <2>4, <3>1, <3>2, Update, Zenon DEF wellFormed
  <2>6. /\ r.live = d.live \ {t} /\ r.queued = d.queued /\ r.microtask = d.microtask
        /\ r.ready_requested = d.ready_requested
        /\ r.timer_generation = d.timer_generation /\ r.timers = d.timers
        /\ r.live_timers = d.live_timers /\ r.referenced_tasks = n
        /\ r.ready = d.ready /\ r.microtasks = d.microtasks
        /\ r.generation = d.generation /\ r.referenced = d.referenced
        /\ \A u \in TaskId \ {t} : r.pending[u] = d.pending[u]
    BY <2>2 DEF wellFormed, Schedulers
  <2> HIDE DEF r
  <2>7. wellQueued(r) /\ wellTimed(r)
    <3>1. wellQueued(r)
      BY <2>2, <2>3, <2>6 DEF wellFormed, wellQueued
    <3>2. wellTimed(r)
      BY <2>2, <2>3, <2>6 DEF wellFormed, wellTimed
    <3> QED
      BY <3>1, <3>2
  <2>8. wellCounted(r)
    <3>1. held(r) = held(d) \ {t} /\ timed(r) = timed(d)
      BY <2>2, <2>3, <2>6
    <3>2. d.live_timers = Cardinality(timed(d))
      BY <2>2 DEF wellFormed, wellCounted
    <3>3. r.referenced_tasks = Cardinality(held(r)) /\ r.live_timers = Cardinality(timed(r))
      BY <2>4, <2>6, <3>1, <3>2
    <3> QED
      BY <3>3 DEF wellCounted
  <2> QED
    BY <2>1, <2>2, <2>5, <2>6, <2>7, <2>8 DEF wellFormed
<1> QED
  BY <1>2, <1>3

\* arm_timer: the armed task gains an entry of its generation, and counts once.
LEMMA ArmTimer ==
  ASSUME NEW s, wellFormed(s), NEW t \in TaskId, NEW deadline \in Deadline
  PROVE  wellFormed(armTimer(s, t, deadline)) /\ armTimer(s, t, deadline).live = s.live
<1> USE DEF wellFormed
<1>1. CASE t \notin s.live
  BY <1>1 DEF armTimer
<1>2. CASE t \in s.live
  <2> DEFINE rearmed == s.timer_generation[t] # None
  <2> DEFINE stale == IF rearmed THEN s.stale_timers + 1 ELSE s.stale_timers
  <2> DEFINE count == IF rearmed THEN s.live_timers ELSE s.live_timers + 1
  <2> DEFINE e == [deadline |-> deadline, task |-> t, generation |-> s.generation[t]]
  <2> DEFINE r == [s EXCEPT !.timer_generation = [s.timer_generation EXCEPT ![t] = s.generation[t]],
                            !.stale_timers = stale,
                            !.live_timers = count,
                            !.timers = s.timers \cup {e}]
  <2> DEFINE timed(x) == {u \in x.live : x.timer_generation[u] # None}
  <2>0. s.live \subseteq TaskId /\ s.generation[t] \in Nat /\ s.generation[t] # None
    BY SchedulerAssumption DEF Schedulers
  <2>1. armTimer(s, t, deadline) = compactTimers(r)
    BY <1>2 DEF armTimer
  <2>2. /\ e \in TimerEntry /\ e.task = t /\ e.generation = s.generation[t]
    BY <2>0 DEF TimerEntry
  <2> HIDE DEF e
  <2>3. Cardinality(timed(s) \cup {t}) = count /\ count \in Nat
    <3>1. timed(s) \subseteq TaskId /\ s.live_timers = Cardinality(timed(s))
      BY <2>0 DEF wellCounted
    <3>2. t \in timed(s) <=> rearmed
      BY <1>2
    <3>3. CASE rearmed
      <4>1. timed(s) \cup {t} = timed(s)
        BY <3>2, <3>3
      <4> HIDE DEF timed
      <4> QED
        BY <3>1, <3>3, <4>1, TaskSetFinite
    <3>4. CASE ~rearmed
      <4> HIDE DEF timed
      <4> QED
        BY <3>1, <3>2, <3>4, TaskSetFinite, CountOneMore
    <3> QED
      BY <3>3, <3>4
  <2>4. stale \in Nat
    BY DEF Schedulers
  <2> HIDE DEF stale, count
  <2>5. r \in Schedulers
    <3>1. /\ [s.timer_generation EXCEPT ![t] = s.generation[t]] \in [TaskId -> Nat \cup {None}]
          /\ s.timers \cup {e} \in SUBSET TimerEntry
      BY <2>0, <2>2 DEF Schedulers
    <3> QED
      BY <2>3, <2>4, <3>1, Update, Zenon
  <2>6. /\ r.live = s.live /\ r.queued = s.queued /\ r.microtask = s.microtask
        /\ r.ready_requested = s.ready_requested /\ r.referenced = s.referenced
        /\ r.timers = s.timers \cup {e}
        /\ r.live_timers = count /\ r.referenced_tasks = s.referenced_tasks
        /\ r.ready = s.ready /\ r.microtasks = s.microtasks /\ r.pending = s.pending
        /\ r.generation = s.generation
        /\ r.timer_generation[t] = s.generation[t]
        /\ \A u \in TaskId \ {t} : r.timer_generation[u] = s.timer_generation[u]
    BY DEF Schedulers
  <2> HIDE DEF r
  <2>7. wellQueued(r)
    BY <2>6 DEF wellQueued
  <2>8. wellCounted(r)
    <3>1. timed(r) = timed(s) \cup {t}
      BY <1>2, <2>0, <2>6
    <3>2. r.referenced_tasks = Cardinality({u \in r.live : r.referenced[u]})
      BY <2>6 DEF wellCounted
    <3>3. r.live_timers = Cardinality(timed(r))
      BY <2>3, <2>6, <3>1
    <3> QED
      BY <3>2, <3>3 DEF wellCounted
  <2>9. wellTimed(r)
    <3> SUFFICES ASSUME NEW u \in s.live, r.timer_generation[u] # None
                 PROVE  /\ r.timer_generation[u] = s.generation[u]
                        /\ \E f \in s.timers \cup {e} : f.task = u /\ f.generation = s.generation[u]
      BY <2>6 DEF wellTimed
    <3>1. CASE u = t
      BY <2>2, <2>6, <3>1
    <3>2. CASE u # t
      BY <2>0, <2>6, <3>2 DEF wellTimed
    <3> QED
      BY <3>1, <3>2
  <2>10. IsFiniteSet(r.timers)
    BY <2>6, FS_AddElement
  <2>11. wellFormed(r)
    BY <2>5, <2>7, <2>8, <2>9, <2>10
  <2>12. LET q == compactTimers(r) IN wellFormed(q) /\ sameTasks(q, r)
    BY <2>11, CompactKeeps
  <2> QED
    BY <2>1, <2>6, <2>12 DEF sameTasks
<1> QED
  BY <1>1, <1>2

\* Entries that cannot fire leave the heap without consequence.
LEMMA FewerTimers ==
  ASSUME NEW s, wellFormed(s), NEW T \in SUBSET s.timers, NEW n \in Nat,
         \A e \in s.timers : guards(s, e) => e \in T
  PROVE  wellFormed([s EXCEPT !.timers = T, !.stale_timers = n])
<1> USE DEF wellFormed
<1> DEFINE r == [s EXCEPT !.timers = T, !.stale_timers = n]
<1>1. T \in SUBSET TimerEntry /\ IsFiniteSet(T)
  BY FS_Subset DEF Schedulers
<1>2. r \in Schedulers
  BY <1>1, Update, Zenon
<1>3. /\ sameTasks(r, s) /\ r.timers = T /\ r.timer_generation = s.timer_generation
      /\ r.live_timers = s.live_timers
  BY DEF Schedulers, sameTasks
<1> HIDE DEF r
<1>4. wellQueued(r) /\ wellCounted(r)
  BY <1>3 DEF wellQueued, wellCounted, sameTasks
<1>5. wellTimed(r)
  <2> SUFFICES ASSUME NEW u \in s.live, s.timer_generation[u] # None
               PROVE  /\ s.timer_generation[u] = s.generation[u]
                      /\ \E e \in T : e.task = u /\ e.generation = s.generation[u]
    BY <1>3 DEF wellTimed, sameTasks
  <2>1. PICK e \in s.timers : e.task = u /\ e.generation = s.generation[u]
    BY DEF wellTimed
  <2>2. s.timer_generation[u] = s.generation[u]
    BY DEF wellTimed
  <2>3. e \in T
    BY <2>1, <2>2 DEF guards
  <2> QED
    BY <2>1, <2>2, <2>3
<1> QED
  BY <1>1, <1>2, <1>3, <1>4, <1>5 DEF r

\* A live entry leaves the heap together with its count.
LEMMA PopLiveTimer ==
  ASSUME NEW s, wellFormed(s), NEW e \in s.timers, guards(s, e)
  PROVE  wellFormed([s EXCEPT !.timers = s.timers \ {e},
                              !.timer_generation = [s.timer_generation EXCEPT ![e.task] = None],
                              !.live_timers = s.live_timers - 1])
<1> USE DEF wellFormed
<1> DEFINE t == e.task
<1> DEFINE r == [s EXCEPT !.timers = s.timers \ {e},
                          !.timer_generation = [s.timer_generation EXCEPT ![t] = None],
                          !.live_timers = s.live_timers - 1]
<1> DEFINE timed(x) == {u \in x.live : x.timer_generation[u] # None}
<1>1. e \in TimerEntry /\ t \in TaskId /\ s.live \subseteq TaskId
  BY DEF Schedulers, TimerEntry
<1>2. t \in s.live /\ s.timer_generation[t] # None
  BY <1>1, SchedulerAssumption DEF guards, TimerEntry
<1>3. Cardinality(timed(s) \ {t}) = s.live_timers - 1 /\ s.live_timers - 1 \in Nat
  <2>1. timed(s) \subseteq TaskId /\ t \in timed(s) /\ s.live_timers = Cardinality(timed(s))
    BY <1>1, <1>2 DEF wellCounted
  <2> HIDE DEF timed
  <2>2. /\ Cardinality(timed(s) \ {t}) = Cardinality(timed(s)) - 1
        /\ Cardinality(timed(s)) \in Nat \ {0}
    BY <2>1, CountOneLess
  <2> QED
    BY <2>1, <2>2
<1>4. r \in Schedulers
  <2>1. /\ [s.timer_generation EXCEPT ![t] = None] \in [TaskId -> Nat \cup {None}]
        /\ s.timers \ {e} \in SUBSET TimerEntry
    BY Zenon DEF Schedulers
  <2> QED
    BY <1>3, <2>1, Update, Zenon
<1>5. /\ sameTasks(r, s) /\ r.timers = s.timers \ {e} /\ r.live_timers = s.live_timers - 1
      /\ r.timer_generation[t] = None
      /\ \A u \in TaskId \ {t} : r.timer_generation[u] = s.timer_generation[u]
  BY <1>1 DEF Schedulers, sameTasks
<1> HIDE DEF r
<1>6. wellQueued(r)
  BY <1>5 DEF wellQueued, sameTasks
<1>7. wellCounted(r)
  <2>1. timed(r) = timed(s) \ {t}
    BY <1>1, <1>5 DEF sameTasks
  <2>2. r.referenced_tasks = Cardinality({u \in r.live : r.referenced[u]})
    BY <1>5 DEF wellCounted, sameTasks
  <2>3. r.live_timers = Cardinality(timed(r))
    BY <1>3, <1>5, <2>1, Zenon
  <2> QED
    BY <2>2, <2>3 DEF wellCounted
<1>8. wellTimed(r)
  <2> SUFFICES ASSUME NEW u \in s.live, u # t, s.timer_generation[u] # None
               PROVE  /\ s.timer_generation[u] = s.generation[u]
                      /\ \E f \in s.timers \ {e} : f.task = u /\ f.generation = s.generation[u]
    BY <1>1, <1>5 DEF wellTimed, sameTasks
  <2> QED
    BY DEF wellTimed
<1>9. IsFiniteSet(r.timers)
  BY <1>5, FS_Subset
<1> QED
  BY <1>4, <1>6, <1>7, <1>8, <1>9 DEF r

\* wake_expired_timers pops a live entry together with its count, or a stale
\* one that no task relies on.
LEMMA Expire ==
  ASSUME NEW s, wellFormed(s), NEW e \in s.timers
  PROVE  wellFormed(expire(s, e))
<1>0. e \in TimerEntry /\ e.task \in TaskId /\ s.live \subseteq TaskId
  BY DEF wellFormed, Schedulers, TimerEntry
<1>1. CASE ~guards(s, e)
  <2> DEFINE n == IF s.stale_timers = 0 THEN 0 ELSE s.stale_timers - 1
  <2>1. n \in Nat
    BY DEF wellFormed, Schedulers
  <2>2. expire(s, e) = [s EXCEPT !.timers = s.timers \ {e}, !.stale_timers = n]
    BY <1>1 DEF expire, wellFormed, Schedulers
  <2> HIDE DEF n
  <2>3. \A f \in s.timers : guards(s, f) => f \in s.timers \ {e}
    BY <1>1
  <2>4. s.timers \ {e} \in SUBSET s.timers
    OBVIOUS
  <2>5. wellFormed([s EXCEPT !.timers = s.timers \ {e}, !.stale_timers = n])
    BY <2>1, <2>3, <2>4, FewerTimers, Zenon
  <2> QED
    BY <2>2, <2>5
<1>2. CASE guards(s, e)
  <2> DEFINE r == [s EXCEPT !.timers = s.timers \ {e},
                            !.timer_generation = [s.timer_generation EXCEPT ![e.task] = None],
                            !.live_timers = s.live_timers - 1]
  <2>1. expire(s, e) = fire(r, e.task)
    BY <1>2 DEF expire, wellFormed, Schedulers
  <2>2. wellFormed(r)
    BY <1>2, PopLiveTimer, Zenon
  <2> HIDE DEF r
  <2> QED
    BY <1>0, <2>1, <2>2, Fire
<1> QED
  BY <1>1, <1>2

LEMMA PruneStaleTimerHead ==
  ASSUME NEW s, wellFormed(s)
  PROVE  wellFormed(pruneStaleTimerHead(s))
<1> DEFINE lively == {e \in s.timers : guards(s, e)}
<1> DEFINE kept == {e \in s.timers : \E f \in lively : f.deadline <= e.deadline}
<1> DEFINE pruned == Cardinality(s.timers) - Cardinality(kept)
<1> DEFINE n == IF s.stale_timers < pruned THEN 0 ELSE s.stale_timers - pruned
<1>1. pruneStaleTimerHead(s) = [s EXCEPT !.timers = kept, !.stale_timers = n]
  BY DEF pruneStaleTimerHead
<1>2. \A e \in s.timers : e.deadline <= e.deadline
  <2>1. \A e \in s.timers : e.deadline \in Deadline
    BY DEF wellFormed, Schedulers, TimerEntry
  <2>2. \A d \in Deadline : d <= d
    BY SchedulerAssumption
  <2> QED
    BY <2>1, <2>2, Zenon
<1>3. kept \in SUBSET s.timers /\ \A e \in s.timers : guards(s, e) => e \in kept
  BY <1>2
<1> HIDE DEF kept
<1>4. pruned \in Int
  BY <1>3, FS_Subset, FS_CardinalityType DEF wellFormed
<1> HIDE DEF pruned
<1>5. n \in Nat
  BY <1>4 DEF wellFormed, Schedulers
<1> HIDE DEF n
<1>6. wellFormed([s EXCEPT !.timers = kept, !.stale_timers = n])
  BY <1>3, <1>5, FewerTimers, Zenon
<1> QED
  BY <1>1, <1>6

------------------------------------------------------------------------------
\* Popping n entries of a queue without repetitions.
LEMMA PopFront ==
  ASSUME NEW q \in Seq(TaskId), distinct(q), NEW n \in 0..Len(q)
  PROVE  LET rest == SubSeq(q, n + 1, Len(q))
         IN /\ rest \in Seq(TaskId) /\ distinct(rest)
            /\ \A u : occurs(rest, u) <=> occurs(q, u) /\ u \notin {q[i] : i \in 1..n}
<1> DEFINE rest == SubSeq(q, n + 1, Len(q))
<1>1. /\ rest \in Seq(TaskId) /\ Len(rest) = Len(q) - n
      /\ \A i \in 1..(Len(q) - n) : rest[i] = q[i + n]
  <2>1. rest \in Seq(TaskId)
    OBVIOUS
  <2>2. Len(rest) = Len(q) - n
    OBVIOUS
  <2>3. \A i \in 1..(Len(q) - n) : rest[i] = q[i + n]
    OBVIOUS
  <2> QED
    BY <2>1, <2>2, <2>3
<1> HIDE DEF rest
<1>2. \A i \in DOMAIN rest : i + n \in DOMAIN q /\ i + n > n /\ rest[i] = q[i + n]
  BY <1>1
<1>3. distinct(rest)
  <2> SUFFICES ASSUME NEW i \in DOMAIN rest, NEW j \in DOMAIN rest, rest[i] = rest[j]
               PROVE  i = j
    BY DEF distinct
  <2>1. i + n = j + n
    BY <1>2 DEF distinct
  <2> QED
    BY <1>1, <2>1
<1>4. ASSUME NEW u, occurs(rest, u) PROVE occurs(q, u) /\ u \notin {q[i] : i \in 1..n}
  <2>1. PICK i \in DOMAIN rest : rest[i] = u
    BY <1>4 DEF occurs
  <2>2. i + n \in DOMAIN q /\ i + n > n /\ q[i + n] = u
    BY <1>2, <2>1
  <2>3. ASSUME NEW j \in 1..n, q[j] = u PROVE FALSE
    <3>1. j \in DOMAIN q /\ j < i + n
      BY <2>2
    <3> QED
      BY <2>2, <2>3, <3>1 DEF distinct
  <2> QED
    BY <2>2, <2>3 DEF occurs
<1>5. ASSUME NEW u, occurs(q, u), u \notin {q[i] : i \in 1..n} PROVE occurs(rest, u)
  <2>1. PICK k \in DOMAIN q : q[k] = u
    BY <1>5 DEF occurs
  <2>2. k \in 1..Len(q) /\ k \notin 1..n
    BY <1>5, <2>1
  <2>3. k - n \in 1..(Len(q) - n) /\ (k - n) + n = k
    BY <2>2
  <2>4. rest[k - n] = u
    BY <1>1, <2>1, <2>3
  <2> QED
    BY <1>1, <2>3, <2>4 DEF occurs
<1> QED
  BY <1>1, <1>3, <1>4, <1>5, Zenon DEF rest

\* next_queued_activation leaves no popped entry marked queued and activates
\* only an entry it popped.
LEMMA NextActivation ==
  ASSUME NEW s, wellFormed(s), NEW micro \in BOOLEAN
  PROVE  wellFormed(nextActivation(s, micro))
<1> DEFINE q == IF micro THEN s.microtasks ELSE s.ready
<1> DEFINE hits == runnable(s, q)
<1> DEFINE n == IF hits = {} THEN Len(q) ELSE Min(hits)
<1> DEFINE popped == {q[i] : i \in 1..n} \cap s.live
<1> DEFINE rest == SubSeq(q, n + 1, Len(q))
<1> DEFINE micros == IF micro THEN rest ELSE s.microtasks
<1> DEFINE readys == IF micro THEN s.ready ELSE rest
<1> DEFINE queued == [t \in TaskId |-> s.queued[t] /\ t \notin popped]
<1> DEFINE requested == [t \in TaskId |-> s.ready_requested[t] /\ t \notin popped]
<1> DEFINE skipped == [s EXCEPT !.microtasks = micros, !.ready = readys,
                                !.queued = queued, !.ready_requested = requested]
<1> DEFINE pending == [s.pending EXCEPT ![q[n]] = None]
<1> DEFINE r == [skipped EXCEPT !.pending = pending, !.current = q[n]]
<1>1. nextActivation(s, micro) = IF hits = {} THEN skipped ELSE r
  BY DEF nextActivation
<1>2. /\ q \in Seq(TaskId) /\ s.ready \in Seq(TaskId) /\ s.microtasks \in Seq(TaskId)
      /\ s.live \subseteq TaskId
  BY DEF wellFormed, Schedulers
<1>3. distinct(q) /\ \A t \in s.live : occurs(q, t) <=> s.queued[t] /\ s.microtask[t] = micro
  <2>1. s.microtask \in [TaskId -> BOOLEAN]
    BY DEF wellFormed, Schedulers
  <2> QED
    BY <1>2, <2>1 DEF wellFormed, wellQueued
<1>4. n \in 0..Len(q) /\ (hits # {} => n \in 1..Len(q) /\ q[n] \in s.live)
  <2>1. CASE hits = {}
    BY <1>2, <2>1
  <2>2. CASE hits # {}
    <3> HIDE DEF q
    <3>1. hits \subseteq 1..Len(q) /\ \A i \in hits : q[i] \in s.live
      BY <1>2 DEF runnable
    <3>2. hits \subseteq Nat
      BY <3>1
    <3> HIDE DEF hits
    <3>3. Min(hits) \in hits
      BY <2>2, <3>2, MinExists, Zenon
    <3>4. n = Min(hits)
      BY <2>2
    <3>5. n \in 1..Len(q) /\ q[n] \in s.live
      BY <3>1, <3>3, <3>4, Zenon
    <3>6. n \in 0..Len(q)
      <4> HIDE DEF n
      <4> QED
        BY <1>2, <3>5
    <3> QED
      BY <3>5, <3>6
  <2> QED
    BY <2>1, <2>2
<1>5. /\ rest \in Seq(TaskId) /\ distinct(rest)
      /\ \A u : occurs(rest, u) <=> occurs(q, u) /\ u \notin {q[i] : i \in 1..n}
  <2> HIDE DEF q, n
  <2> QED
    BY <1>2, <1>3, <1>4, PopFront, Zenon
<1>6. /\ micros \in Seq(TaskId) /\ readys \in Seq(TaskId)
      /\ queued \in [TaskId -> BOOLEAN] /\ requested \in [TaskId -> BOOLEAN]
  <2> HIDE DEF rest, popped
  <2> QED
    BY <1>2, <1>5
<1>7. /\ \A t \in s.live : occurs(micros, t) <=> occurs(s.microtasks, t) /\ ~(micro /\ t \in popped)
      /\ \A t \in s.live : occurs(readys, t) <=> occurs(s.ready, t) /\ ~(~micro /\ t \in popped)
      /\ distinct(micros) /\ distinct(readys)
  <2>1. distinct(s.ready) /\ distinct(s.microtasks)
    BY DEF wellFormed, wellQueued
  <2>2. \A t \in s.live : occurs(rest, t) <=> occurs(q, t) /\ t \notin popped
    <3> HIDE DEF rest, q, n
    <3> QED
      BY <1>5
  <2> HIDE DEF rest, popped
  <2> QED
    BY <1>5, <2>1, <2>2
<1>8. \A t \in popped : s.queued[t] /\ s.microtask[t] = micro
  <2> SUFFICES ASSUME NEW t \in popped PROVE s.queued[t] /\ s.microtask[t] = micro
    OBVIOUS
  <2>1. PICK i \in 1..n : q[i] = t
    OBVIOUS
  <2>2. occurs(q, t) /\ t \in s.live
    <3> HIDE DEF q, n
    <3> QED
      BY <1>2, <1>4, <2>1 DEF occurs
  <2> QED
    BY <1>3, <2>2
<1>9. \A t \in TaskId : /\ queued[t] = (s.queued[t] /\ t \notin popped)
                        /\ requested[t] = (s.ready_requested[t] /\ t \notin popped)
  OBVIOUS
<1>10. hits # {} => q[n] \in popped
  BY <1>4
<1> HIDE DEF micros, readys, queued, requested, popped
<1>11. wellFormed(skipped)
  <2>1. skipped \in Schedulers
    BY <1>6, Update, Zenon DEF wellFormed
  <2>2. /\ skipped.live = s.live /\ skipped.timers = s.timers /\ skipped.pending = s.pending
        /\ skipped.microtask = s.microtask /\ skipped.referenced = s.referenced
        /\ skipped.generation = s.generation
        /\ skipped.timer_generation = s.timer_generation
        /\ skipped.referenced_tasks = s.referenced_tasks
        /\ skipped.live_timers = s.live_timers
        /\ skipped.ready = readys /\ skipped.microtasks = micros
        /\ skipped.queued = queued /\ skipped.ready_requested = requested
    BY DEF wellFormed, Schedulers
  <2> HIDE DEF skipped
  <2>3. wellCounted(skipped) /\ wellTimed(skipped) /\ IsFiniteSet(skipped.timers)
    BY <2>2 DEF wellFormed, wellCounted, wellTimed
  <2>4. wellQueued(skipped)
    <3> SUFFICES ASSUME NEW t \in s.live
                 PROVE  /\ occurs(readys, t) <=> queued[t] /\ ~s.microtask[t]
                        /\ occurs(micros, t) <=> queued[t] /\ s.microtask[t]
                        /\ queued[t] <=> requested[t]
                        /\ queued[t] => s.pending[t] # None
      BY <1>7, <2>2 DEF wellQueued
    <3>1. /\ occurs(s.ready, t) <=> s.queued[t] /\ ~s.microtask[t]
          /\ occurs(s.microtasks, t) <=> s.queued[t] /\ s.microtask[t]
          /\ s.queued[t] <=> s.ready_requested[t]
          /\ s.queued[t] => s.pending[t] # None
      BY DEF wellFormed, wellQueued
    <3>2. t \in TaskId /\ s.microtask[t] \in BOOLEAN /\ s.queued[t] \in BOOLEAN
          /\ s.ready_requested[t] \in BOOLEAN
      BY <1>2 DEF wellFormed, Schedulers
    <3>3. /\ occurs(micros, t) <=> occurs(s.microtasks, t) /\ ~(micro /\ t \in popped)
          /\ occurs(readys, t) <=> occurs(s.ready, t) /\ ~(~micro /\ t \in popped)
      BY <1>7
    <3>4. /\ queued[t] = (s.queued[t] /\ t \notin popped)
          /\ requested[t] = (s.ready_requested[t] /\ t \notin popped)
      BY <1>9, <3>2
    <3>5. t \in popped => s.queued[t] /\ s.microtask[t] = micro
      BY <1>8
    <3> QED
      BY <3>1, <3>2, <3>3, <3>4, <3>5, Zenon
  <2> QED
    BY <2>1, <2>3, <2>4 DEF wellFormed
<1>12. CASE hits = {}
  BY <1>1, <1>11, <1>12
<1>13. CASE hits # {}
  <2>1. skipped.queued[q[n]] = FALSE /\ skipped.live = s.live /\ skipped.pending = s.pending
    <3>1. skipped.queued = queued /\ skipped.live = s.live /\ skipped.pending = s.pending
      BY DEF wellFormed, Schedulers
    <3>2. q[n] \in TaskId /\ q[n] \in popped
      BY <1>2, <1>4, <1>10, <1>13
    <3> HIDE DEF skipped
    <3>3. queued[q[n]] = FALSE
      BY <1>9, <3>2, Zenon
    <3> QED
      BY <3>1, <3>3
  <2>2. q[n] \in TaskId
    BY <1>2, <1>4, <1>13
  <2> DEFINE c == q[n]
  <2> DEFINE p == [skipped EXCEPT !.pending = [skipped.pending EXCEPT ![c] = None]]
  <2>3. r = [p EXCEPT !.current = c]
    BY <2>1
  <2> HIDE DEF skipped, c
  <2>4. p \in Schedulers
    <3>1. [skipped.pending EXCEPT ![c] = None] \in [TaskId -> Activation \cup {None}]
      BY <1>11, Zenon DEF wellFormed, Schedulers
    <3> QED
      BY <1>11, <3>1, Update, Zenon DEF wellFormed
  <2>5. /\ p.live = skipped.live /\ p.timers = skipped.timers
        /\ p.queued = skipped.queued /\ p.ready_requested = skipped.ready_requested
        /\ p.microtask = skipped.microtask /\ p.referenced = skipped.referenced
        /\ p.generation = skipped.generation
        /\ p.timer_generation = skipped.timer_generation
        /\ p.referenced_tasks = skipped.referenced_tasks
        /\ p.live_timers = skipped.live_timers
        /\ p.ready = skipped.ready /\ p.microtasks = skipped.microtasks
        /\ \A u \in TaskId \ {c} : p.pending[u] = skipped.pending[u]
    BY <1>11 DEF wellFormed, Schedulers
  <2>6. skipped.queued[c] = FALSE /\ c \in TaskId
    BY <2>1, <2>2 DEF c
  <2> HIDE DEF p
  <2>7. wellCounted(p) /\ wellTimed(p) /\ IsFiniteSet(p.timers)
    <3>1. wellCounted(p)
      BY <1>11, <2>5 DEF wellFormed, wellCounted
    <3>2. wellTimed(p) /\ IsFiniteSet(p.timers)
      BY <1>11, <2>5 DEF wellFormed, wellTimed
    <3> QED
      BY <3>1, <3>2
  <2>8. wellQueued(p)
    <3>1. skipped.live \subseteq TaskId
      BY <1>11 DEF wellFormed, Schedulers
    <3> QED
      BY <1>11, <2>5, <2>6, <3>1 DEF wellFormed, wellQueued
  <2>9. wellFormed(p)
    BY <2>4, <2>7, <2>8 DEF wellFormed
  <2>10. wellFormed([p EXCEPT !.current = c])
    BY <2>6, <2>9, Current
  <2> QED
    BY <1>1, <1>13, <2>3, <2>10, Zenon
<1> QED
  BY <1>12, <1>13

------------------------------------------------------------------------------
(* What every method does to the task it is called for, and that it leaves  *)
(* the other tasks alone.                                                   *)

\* The schedulers r and s treat task u alike.
alike(r, s, u) ==
  /\ u \in r.live <=> u \in s.live
  /\ u \in s.live =>
       /\ r.pending[u] = s.pending[u] /\ r.queued[u] = s.queued[u]
       /\ r.timer_generation[u] = s.timer_generation[u]
       /\ u \in r.waiters <=> u \in s.waiters

othersAlike(r, s, t) == \A u \in TaskId \ {t} : alike(r, s, u)

allAlike(r, s) == \A u \in TaskId : alike(r, s, u)

LEMMA AlikeTransitive ==
  ASSUME NEW r, NEW d, NEW s, NEW t, othersAlike(r, d, t), othersAlike(d, s, t)
  PROVE  othersAlike(r, s, t)
<1> SUFFICES ASSUME NEW u \in TaskId \ {t} PROVE alike(r, s, u)
  BY DEF othersAlike
<1>1. alike(r, d, u) /\ alike(d, s, u)
  BY DEF othersAlike
<1> QED
  BY <1>1, Zenon DEF alike

LEMMA TypedTasks ==
  ASSUME NEW s, wellFormed(s)
  PROVE  /\ s.live \subseteq TaskId /\ s.waiters \subseteq TaskId
         /\ s.pending \in [TaskId -> Activation \cup {None}]
         /\ s.queued \in [TaskId -> BOOLEAN]
         /\ s.ready_requested \in [TaskId -> BOOLEAN]
         /\ s.generation \in [TaskId -> Nat]
         /\ s.timer_generation \in [TaskId -> Nat \cup {None}]
         /\ s.current \in TaskId \cup {None}
         /\ s.ready \in Seq(TaskId) /\ s.microtasks \in Seq(TaskId)
BY DEF wellFormed, Schedulers

LEMMA CompactTasks ==
  ASSUME NEW s \in Schedulers
  PROVE  LET r == compactTimers(s)
         IN sameTasks(r, s) /\ r.timer_generation = s.timer_generation
<1>1. PICK T \in SUBSET s.timers, n \in Nat :
        compactTimers(s) = [s EXCEPT !.timers = T, !.stale_timers = n]
  BY CompactTimers, Zenon
<1> QED
  BY <1>1 DEF sameTasks, Schedulers

\* An armed timer is counted.
LEMMA ArmedCounted ==
  ASSUME NEW s, wellFormed(s), NEW t \in s.live, s.timer_generation[t] # None
  PROVE  s.live_timers - 1 \in Nat
<1> DEFINE timed == {u \in s.live : s.timer_generation[u] # None}
<1>1. t \in timed /\ timed \subseteq TaskId
  BY TypedTasks
<1>2. s.live_timers = Cardinality(timed)
  BY DEF wellFormed, wellCounted
<1> HIDE DEF timed
<1>3. Cardinality(timed) \in Nat \ {0}
  BY <1>1, CountOneLess, Zenon
<1> QED
  BY <1>2, <1>3

LEMMA DropTimerTasks ==
  ASSUME NEW s \in Schedulers, NEW t \in s.live,
         s.timer_generation[t] # None => s.live_timers - 1 \in Nat
  PROVE  LET r == dropTimer(s, t)
         IN /\ sameTasks(r, s) /\ r.timer_generation[t] = None
            /\ \A u \in TaskId \ {t} : r.timer_generation[u] = s.timer_generation[u]
<1>0. t \in TaskId
  BY DEF Schedulers
<1>1. CASE s.timer_generation[t] = None
  BY <1>1 DEF dropTimer, sameTasks
<1>2. CASE s.timer_generation[t] # None
  <2> DEFINE d == [s EXCEPT !.timer_generation = [s.timer_generation EXCEPT ![t] = None],
                            !.live_timers = s.live_timers - 1,
                            !.stale_timers = s.stale_timers + 1]
  <2>1. /\ [s.timer_generation EXCEPT ![t] = None] \in [TaskId -> Nat \cup {None}]
        /\ s.stale_timers + 1 \in Nat
    BY DEF Schedulers
  <2>2. d \in Schedulers
    BY <1>2, <2>1, Update, Zenon
  <2>3. /\ sameTasks(d, s) /\ d.timer_generation[t] = None
        /\ \A u \in TaskId \ {t} : d.timer_generation[u] = s.timer_generation[u]
    BY <1>0 DEF Schedulers, sameTasks
  <2>4. dropTimer(s, t) = compactTimers(d)
    BY <1>2 DEF dropTimer
  <2> HIDE DEF d
  <2> QED
    BY <2>2, <2>3, <2>4, CompactTasks DEF sameTasks
<1> QED
  BY <1>1, <1>2

LEMMA RequestTasks ==
  ASSUME NEW s, wellFormed(s), NEW t \in s.live, NEW a \in Activation
  PROVE  LET r == request(s, t, a)
         IN /\ othersAlike(r, s, t) /\ r.live = s.live /\ r.queued = s.queued
            /\ r.ready_requested = s.ready_requested
            /\ r.waiters = s.waiters /\ r.current = s.current
            /\ r.pending[t] = a /\ r.timer_generation[t] = None
<1> DEFINE d == [s EXCEPT !.pending = [s.pending EXCEPT ![t] = a],
                          !.generation = [s.generation EXCEPT ![t] = s.generation[t] + 1]]
<1>0. t \in TaskId
  BY TypedTasks
<1>1. d \in Schedulers
  <2>1. /\ [s.pending EXCEPT ![t] = a] \in [TaskId -> Activation \cup {None}]
        /\ [s.generation EXCEPT ![t] = s.generation[t] + 1] \in [TaskId -> Nat]
    BY <1>0, TypedTasks
  <2> QED
    BY <2>1, Update, Zenon DEF wellFormed
<1>2. /\ d.live = s.live /\ d.queued = s.queued /\ d.ready_requested = s.ready_requested
      /\ d.waiters = s.waiters /\ d.current = s.current
      /\ d.timer_generation = s.timer_generation /\ d.live_timers = s.live_timers
      /\ d.pending[t] = a /\ \A u \in TaskId \ {t} : d.pending[u] = s.pending[u]
  BY <1>0 DEF wellFormed, Schedulers
<1>3. request(s, t, a) = dropTimer(d, t)
  BY DEF request
<1>4. s.timer_generation[t] # None => s.live_timers - 1 \in Nat
  BY ArmedCounted
<1> HIDE DEF d
<1>5. LET r == dropTimer(d, t)
      IN /\ sameTasks(r, d) /\ r.timer_generation[t] = None
         /\ \A u \in TaskId \ {t} : r.timer_generation[u] = d.timer_generation[u]
  BY <1>1, <1>2, <1>4, DropTimerTasks
<1> DEFINE r == dropTimer(d, t)
<1>6. /\ r.live = s.live /\ r.queued = s.queued /\ r.ready_requested = s.ready_requested
      /\ r.waiters = s.waiters /\ r.current = s.current
      /\ r.pending = d.pending /\ r.timer_generation[t] = None
      /\ \A u \in TaskId \ {t} : r.timer_generation[u] = s.timer_generation[u]
  BY <1>2, <1>5, Zenon DEF sameTasks
<1> HIDE DEF r
<1>7. othersAlike(r, s, t)
  BY <1>2, <1>6 DEF othersAlike, alike
<1> QED
  BY <1>2, <1>3, <1>6, <1>7 DEF r

LEMMA MarkQueuedTasks ==
  ASSUME NEW s, wellFormed(s), NEW t \in s.live, NEW front
  PROVE  LET r == markQueued(s, t, front)
         IN /\ othersAlike(r, s, t) /\ r.live = s.live /\ r.waiters = s.waiters
            /\ r.current = s.current /\ r.pending[t] = s.pending[t]
            /\ r.timer_generation[t] = s.timer_generation[t] /\ r.queued[t]
<1>0. t \in TaskId
  BY TypedTasks
<1>1. CASE s.queued[t]
  <2>1. markQueued(s, t, front) = s
    <3>1. s.ready_requested[t] = TRUE
      BY <1>1, TypedTasks DEF wellFormed, wellQueued
    <3> QED
      BY <1>1, <3>1 DEF markQueued, wellFormed, Schedulers
  <2> QED
    BY <1>1, <2>1 DEF othersAlike, alike
<1>2. CASE ~s.queued[t]
  <2> DEFINE micros == IF s.microtask[t] THEN push(s.microtasks, t, front) ELSE s.microtasks
  <2> DEFINE readys == IF s.microtask[t] THEN s.ready ELSE push(s.ready, t, front)
  <2> DEFINE r == [s EXCEPT !.ready_requested = [s.ready_requested EXCEPT ![t] = TRUE],
                            !.queued = [s.queued EXCEPT ![t] = TRUE],
                            !.microtasks = micros, !.ready = readys]
  <2>1. markQueued(s, t, front) = r
    BY <1>2 DEF markQueued
  <2> HIDE DEF micros, readys
  <2>2. /\ r.live = s.live /\ r.waiters = s.waiters /\ r.current = s.current
        /\ r.pending = s.pending /\ r.timer_generation = s.timer_generation
        /\ r.queued[t] /\ \A u \in TaskId \ {t} : r.queued[u] = s.queued[u]
    BY <1>0 DEF wellFormed, Schedulers
  <2> QED
    BY <2>1, <2>2 DEF othersAlike, alike
<1> QED
  BY <1>1, <1>2

LEMMA InsertTaskTasks ==
  ASSUME NEW s, wellFormed(s), NEW t \in TaskId, absent(s, t), NEW micro
  PROVE  LET r == insertTask(s, t, micro)
         IN /\ othersAlike(r, s, t) /\ r.live = s.live \cup {t} /\ r.waiters = s.waiters
            /\ r.current = s.current /\ r.pending[t] = "start" /\ ~r.queued[t]
            /\ r.timer_generation[t] = None /\ t \notin r.waiters
<1> DEFINE r == insertTask(s, t, micro)
<1>1. /\ r.live = s.live \cup {t} /\ r.waiters = s.waiters /\ r.current = s.current
      /\ r.pending[t] = "start" /\ r.queued[t] = FALSE /\ r.timer_generation[t] = None
      /\ \A u \in TaskId \ {t} :
           /\ r.pending[u] = s.pending[u] /\ r.queued[u] = s.queued[u]
           /\ r.timer_generation[u] = s.timer_generation[u]
  BY DEF wellFormed, Schedulers, insertTask
<1> HIDE DEF r
<1>2. othersAlike(r, s, t)
  BY <1>1 DEF othersAlike, alike
<1> QED
  BY <1>1, <1>2 DEF absent, r

\* spawn and queue
LEMMA SpawnTasks ==
  ASSUME NEW s, wellFormed(s), NEW t \in TaskId, absent(s, t), NEW micro \in BOOLEAN
  PROVE  LET r == spawn(s, t, micro)
         IN /\ othersAlike(r, s, t) /\ r.live = s.live \cup {t}
            /\ r.current = s.current /\ r.pending[t] = "start" /\ r.queued[t]
            /\ r.timer_generation[t] = None /\ t \notin r.waiters
<1> DEFINE d == insertTask(s, t, micro)
<1>1. /\ othersAlike(d, s, t) /\ d.live = s.live \cup {t} /\ d.waiters = s.waiters
      /\ d.current = s.current /\ d.pending[t] = "start" /\ d.timer_generation[t] = None
      /\ t \notin d.waiters
  BY InsertTaskTasks
<1>2. wellFormed(d) /\ t \in d.live
  BY InsertTask
<1> HIDE DEF d
<1>3. LET r == markQueued(d, t, FALSE)
      IN /\ othersAlike(r, d, t) /\ r.live = d.live /\ r.waiters = d.waiters
         /\ r.current = d.current /\ r.pending[t] = d.pending[t]
         /\ r.timer_generation[t] = d.timer_generation[t] /\ r.queued[t]
  BY <1>2, MarkQueuedTasks, Zenon
<1>4. spawn(s, t, micro) = markQueued(d, t, FALSE)
  BY DEF spawn, d
<1>5. othersAlike(markQueued(d, t, FALSE), s, t)
  BY <1>1, <1>3, AlikeTransitive, Zenon
<1> QED
  BY <1>1, <1>3, <1>4, <1>5, Zenon

LEMMA ArmTimerTasks ==
  ASSUME NEW s, wellFormed(s), NEW t \in s.live, NEW deadline \in Deadline
  PROVE  LET r == armTimer(s, t, deadline)
         IN /\ othersAlike(r, s, t) /\ r.live = s.live /\ r.waiters = s.waiters
            /\ r.current = s.current /\ r.pending[t] = s.pending[t]
            /\ r.queued[t] = s.queued[t] /\ r.timer_generation[t] # None
<1> DEFINE rearmed == s.timer_generation[t] # None
<1> DEFINE stale == IF rearmed THEN s.stale_timers + 1 ELSE s.stale_timers
<1> DEFINE count == IF rearmed THEN s.live_timers ELSE s.live_timers + 1
<1> DEFINE e == [deadline |-> deadline, task |-> t, generation |-> s.generation[t]]
<1> DEFINE d == [s EXCEPT !.timer_generation = [s.timer_generation EXCEPT ![t] = s.generation[t]],
                          !.stale_timers = stale, !.live_timers = count,
                          !.timers = s.timers \cup {e}]
<1>0. t \in TaskId /\ s.generation[t] \in Nat /\ s.generation[t] # None
  BY TypedTasks, SchedulerAssumption
<1>1. armTimer(s, t, deadline) = compactTimers(d)
  BY DEF armTimer
<1>2. e \in TimerEntry /\ stale \in Nat /\ count \in Nat
  BY <1>0 DEF TimerEntry, wellFormed, Schedulers
<1> HIDE DEF e, stale, count
<1>3. d \in Schedulers
  <2>1. /\ [s.timer_generation EXCEPT ![t] = s.generation[t]] \in [TaskId -> Nat \cup {None}]
        /\ s.timers \cup {e} \in SUBSET TimerEntry
    BY <1>0, <1>2 DEF wellFormed, Schedulers
  <2> QED
    BY <1>2, <2>1, Update, Zenon DEF wellFormed
<1>4. /\ d.live = s.live /\ d.queued = s.queued /\ d.pending = s.pending
      /\ d.waiters = s.waiters /\ d.current = s.current
      /\ d.timer_generation[t] = s.generation[t]
      /\ \A u \in TaskId \ {t} : d.timer_generation[u] = s.timer_generation[u]
  BY <1>0 DEF wellFormed, Schedulers
<1> HIDE DEF d
<1>5. LET r == compactTimers(d) IN sameTasks(r, d) /\ r.timer_generation = d.timer_generation
  BY <1>3, CompactTasks
<1> QED
  BY <1>0, <1>1, <1>4, <1>5 DEF sameTasks, othersAlike, alike

\* arm_descriptor and disarm
LEMMA WaitersTasks ==
  ASSUME NEW s, wellFormed(s), NEW W
  PROVE  LET r == [s EXCEPT !.waiters = W]
         IN /\ r.live = s.live /\ r.pending = s.pending /\ r.queued = s.queued
            /\ r.timer_generation = s.timer_generation /\ r.waiters = W
            /\ r.current = s.current /\ r.ready_requested = s.ready_requested
            /\ r.ready = s.ready /\ r.microtasks = s.microtasks
BY DEF wellFormed, Schedulers

LEMMA DisarmTasks ==
  ASSUME NEW s, wellFormed(s), NEW t \in TaskId
  PROVE  LET r == disarm(s, t)
         IN /\ wellFormed(r) /\ othersAlike(r, s, t) /\ r.live = s.live
            /\ r.pending = s.pending /\ r.queued = s.queued
            /\ r.timer_generation = s.timer_generation /\ r.waiters = s.waiters \ {t}
            /\ r.current = s.current /\ r.ready_requested = s.ready_requested
<1>1. s.waiters \ {t} \in SUBSET TaskId
  BY TypedTasks
<1>2. wellFormed(disarm(s, t))
  BY <1>1, Disarm DEF disarm
<1> QED
  BY <1>2, WaitersTasks DEF disarm, othersAlike, alike

LEMMA ArmDescriptorTasks ==
  ASSUME NEW s, wellFormed(s), NEW t \in TaskId
  PROVE  LET r == armDescriptor(s, t)
         IN /\ wellFormed(r) /\ othersAlike(r, s, t) /\ r.live = s.live
            /\ r.pending = s.pending /\ r.queued = s.queued
            /\ r.timer_generation = s.timer_generation /\ r.waiters = s.waiters \cup {t}
            /\ r.current = s.current
<1>1. s.waiters \cup {t} \in SUBSET TaskId
  BY TypedTasks
<1>2. wellFormed(armDescriptor(s, t))
  BY <1>1, Disarm DEF armDescriptor
<1> QED
  BY <1>2, WaitersTasks DEF armDescriptor, othersAlike, alike

\* wake, wake_front and wake_throw: a queued task keeps its wake.
LEMMA EnqueueTasks ==
  ASSUME NEW s, wellFormed(s), NEW t \in s.live, NEW a \in Activation, NEW front
  PROVE  LET r == enqueue(s, t, a, front)
         IN /\ othersAlike(r, s, t) /\ r.live = s.live /\ r.current = s.current
            /\ s.queued[t] => r = s
            /\ ~s.queued[t] => /\ r.pending[t] = a /\ r.queued[t]
                               /\ r.timer_generation[t] = None /\ t \notin r.waiters
<1>0. t \in TaskId
  BY TypedTasks
<1>1. CASE s.queued[t]
  BY <1>1 DEF enqueue, othersAlike, alike
<1>2. CASE ~s.queued[t]
  <2> DEFINE w == disarm(s, t)
  <2> DEFINE d == request(w, t, a)
  <2>1. ~s.ready_requested[t]
    BY <1>2 DEF wellFormed, wellQueued
  <2>2. enqueue(s, t, a, front) = markQueued(d, t, front)
    BY <1>2, <2>1 DEF enqueue
  <2>3. /\ wellFormed(w) /\ othersAlike(w, s, t) /\ w.live = s.live
        /\ w.waiters = s.waiters \ {t} /\ w.current = s.current /\ w.queued = s.queued
    BY <1>0, DisarmTasks
  <2> HIDE DEF w
  <2>4. /\ othersAlike(d, w, t) /\ d.live = w.live /\ d.waiters = w.waiters
        /\ d.current = w.current /\ d.pending[t] = a /\ d.timer_generation[t] = None
    BY <2>3, RequestTasks
  <2>5. wellFormed(d)
    BY <1>2, <2>3, Request
  <2> HIDE DEF d
  <2>6. LET r == markQueued(d, t, front)
        IN /\ othersAlike(r, d, t) /\ r.live = d.live /\ r.waiters = d.waiters
           /\ r.current = d.current /\ r.pending[t] = d.pending[t]
           /\ r.timer_generation[t] = d.timer_generation[t] /\ r.queued[t]
    BY <2>3, <2>4, <2>5, MarkQueuedTasks
  <2>7. othersAlike(markQueued(d, t, front), s, t)
    BY <2>3, <2>4, <2>6, AlikeTransitive
  <2> QED
    BY <1>2, <2>2, <2>3, <2>4, <2>6, <2>7
<1> QED
  BY <1>1, <1>2

\* From s to r, task t was woken with activation a, unless it was queued before.
woken(r, s, t, a) ==
  /\ othersAlike(r, s, t) /\ r.live = s.live /\ r.current = s.current
  /\ s.queued[t] => r = s
  /\ ~s.queued[t] => /\ r.pending[t] = a /\ r.queued[t]
                     /\ r.timer_generation[t] = None /\ t \notin r.waiters

\* A wake behind the other queued tasks, as wake and wake_throw give it.
LEMMA WakeTasks ==
  ASSUME NEW s, wellFormed(s), NEW t \in s.live, NEW a \in {"resume", "throw"}
  PROVE  woken(enqueue(s, t, a, FALSE), s, t, a)
<1> DEFINE r == enqueue(s, t, a, FALSE)
<1>1. a \in Activation
  BY DEF Activation
<1>2. /\ othersAlike(r, s, t) /\ r.live = s.live /\ r.current = s.current
      /\ s.queued[t] => r = s
      /\ ~s.queued[t] => /\ r.pending[t] = a /\ r.queued[t]
                         /\ r.timer_generation[t] = None /\ t \notin r.waiters
  BY <1>1, EnqueueTasks, Zenon
<1> HIDE DEF r
<1>3. woken(r, s, t, a)
  BY <1>2, Zenon DEF woken
<1> QED
  BY <1>3, Zenon DEF r

LEMMA FireTasks ==
  ASSUME NEW s, wellFormed(s), NEW t \in s.live
  PROVE  LET r == fire(s, t)
         IN /\ othersAlike(r, s, t) /\ r.live = s.live /\ r.waiters = s.waiters
            /\ r.current = s.current /\ r.queued[t]
            /\ s.pending[t] = None => r.pending[t] = "resume" /\ r.timer_generation[t] = None
            /\ s.pending[t] # None => /\ r.pending[t] = s.pending[t]
                                      /\ r.timer_generation[t] = s.timer_generation[t]
<1>1. CASE s.pending[t] = None
  <2> DEFINE d == request(s, t, "resume")
  <2>1. "resume" \in Activation /\ ~s.queued[t]
    BY <1>1 DEF Activation, wellFormed, wellQueued
  <2>2. wellFormed(d)
    BY <2>1, Request
  <2>3. /\ othersAlike(d, s, t) /\ d.live = s.live /\ d.waiters = s.waiters
        /\ d.current = s.current /\ d.pending[t] = "resume" /\ d.timer_generation[t] = None
    BY <2>1, RequestTasks
  <2>4. fire(s, t) = markQueued(d, t, FALSE)
    BY <1>1 DEF fire
  <2> HIDE DEF d
  <2>5. LET r == markQueued(d, t, FALSE)
        IN /\ othersAlike(r, d, t) /\ r.live = d.live /\ r.waiters = d.waiters
           /\ r.current = d.current /\ r.pending[t] = d.pending[t]
           /\ r.timer_generation[t] = d.timer_generation[t] /\ r.queued[t]
    BY <2>2, <2>3, MarkQueuedTasks, Zenon
  <2>6. othersAlike(markQueued(d, t, FALSE), s, t)
    BY <2>3, <2>5, AlikeTransitive, Zenon
  <2> QED
    BY <1>1, <2>3, <2>4, <2>5, <2>6, Zenon
<1>2. CASE s.pending[t] # None
  <2>1. fire(s, t) = markQueued(s, t, FALSE)
    BY <1>2 DEF fire
  <2>2. LET r == markQueued(s, t, FALSE)
        IN /\ othersAlike(r, s, t) /\ r.live = s.live /\ r.waiters = s.waiters
           /\ r.current = s.current /\ r.pending[t] = s.pending[t]
           /\ r.timer_generation[t] = s.timer_generation[t] /\ r.queued[t]
    BY MarkQueuedTasks, Zenon
  <2> QED
    BY <1>2, <2>1, <2>2, Zenon
<1> QED
  BY <1>1, <1>2

\* wake_key: an event for a descriptor that nobody watches any more is dropped.
LEMMA WakeKeyTasks ==
  ASSUME NEW s, wellFormed(s), NEW t \in TaskId
  PROVE  LET r == wakeKey(s, t)
         IN /\ othersAlike(r, s, t) /\ r.live = s.live /\ r.current = s.current
            /\ t \notin s.waiters => r = s
            /\ t \in s.waiters /\ t \in s.live =>
                 /\ r.queued[t] /\ t \notin r.waiters
                 /\ s.pending[t] = None => r.pending[t] = "resume" /\ r.timer_generation[t] = None
                 /\ s.pending[t] # None => /\ r.pending[t] = s.pending[t]
                                           /\ r.timer_generation[t] = s.timer_generation[t]
<1>1. CASE t \notin s.waiters
  BY <1>1 DEF wakeKey, othersAlike, alike
<1>2. CASE t \in s.waiters
  <2> DEFINE d == disarm(s, t)
  <2>1. wakeKey(s, t) = fire(d, t)
    BY <1>2 DEF wakeKey
  <2>2. /\ wellFormed(d) /\ othersAlike(d, s, t) /\ d.live = s.live
        /\ d.pending = s.pending /\ d.queued = s.queued
        /\ d.timer_generation = s.timer_generation /\ d.waiters = s.waiters \ {t}
        /\ d.current = s.current
    BY DisarmTasks
  <2> HIDE DEF d
  <2>3. CASE t \notin s.live
    <3>1. fire(d, t) = d
      BY <2>2, <2>3 DEF fire, markQueued
    <3> QED
      BY <1>2, <2>1, <2>2, <2>3, <3>1
  <2>4. CASE t \in s.live
    <3>1. LET r == fire(d, t)
          IN /\ othersAlike(r, d, t) /\ r.live = d.live /\ r.waiters = d.waiters
             /\ r.current = d.current /\ r.queued[t]
             /\ d.pending[t] = None => r.pending[t] = "resume" /\ r.timer_generation[t] = None
             /\ d.pending[t] # None => /\ r.pending[t] = d.pending[t]
                                       /\ r.timer_generation[t] = d.timer_generation[t]
      BY <2>2, <2>4, FireTasks
    <3>2. othersAlike(fire(d, t), s, t)
      BY <2>2, <3>1, AlikeTransitive
    <3> QED
      BY <1>2, <2>1, <2>2, <2>4, <3>1, <3>2
  <2> QED
    BY <2>3, <2>4
<1> QED
  BY <1>1, <1>2

\* wake_expired_timers: only an entry that passes the generation guard wakes.
LEMMA ExpireTasks ==
  ASSUME NEW s, wellFormed(s), NEW e \in s.timers
  PROVE  LET r == expire(s, e)
             t == e.task
         IN /\ ~guards(s, e) => allAlike(r, s)
            /\ r.current = s.current
            /\ guards(s, e) =>
                 /\ t \in s.live /\ s.timer_generation[t] # None
                 /\ othersAlike(r, s, t) /\ r.live = s.live
                 /\ r.queued[t] /\ r.waiters = s.waiters /\ r.timer_generation[t] = None
                 /\ s.pending[t] = None => r.pending[t] = "resume"
                 /\ s.pending[t] # None => r.pending[t] = s.pending[t]
<1>1. CASE ~guards(s, e)
  <2> DEFINE n == IF s.stale_timers = 0 THEN 0 ELSE s.stale_timers - 1
  <2>1. expire(s, e) = [s EXCEPT !.timers = s.timers \ {e}, !.stale_timers = n]
    BY <1>1 DEF expire, wellFormed, Schedulers
  <2> HIDE DEF n
  <2> QED
    BY <1>1, <2>1 DEF wellFormed, Schedulers, allAlike, alike
<1>2. CASE guards(s, e)
  <2> DEFINE t == e.task
  <2> DEFINE d == [s EXCEPT !.timers = s.timers \ {e},
                            !.timer_generation = [s.timer_generation EXCEPT ![t] = None],
                            !.live_timers = s.live_timers - 1]
  <2>1. expire(s, e) = fire(d, t)
    BY <1>2 DEF expire, wellFormed, Schedulers
  <2>2. t \in s.live /\ s.timer_generation[t] # None /\ t \in TaskId
    BY <1>2, SchedulerAssumption DEF guards, TimerEntry, wellFormed, Schedulers
  <2>3. wellFormed(d)
    BY <1>2, PopLiveTimer, Zenon
  <2>4. /\ d.live = s.live /\ d.pending = s.pending /\ d.queued = s.queued
        /\ d.waiters = s.waiters /\ d.current = s.current
        /\ d.timer_generation[t] = None
        /\ \A u \in TaskId \ {t} : d.timer_generation[u] = s.timer_generation[u]
    BY <2>2 DEF wellFormed, Schedulers
  <2> HIDE DEF d
  <2>5. othersAlike(d, s, t)
    BY <2>4 DEF othersAlike, alike
  <2> HIDE DEF t
  <2>6. LET r == fire(d, t)
        IN /\ othersAlike(r, d, t) /\ r.live = d.live /\ r.waiters = d.waiters
           /\ r.current = d.current /\ r.queued[t]
           /\ d.pending[t] = None => r.pending[t] = "resume" /\ r.timer_generation[t] = None
           /\ d.pending[t] # None => /\ r.pending[t] = d.pending[t]
                                     /\ r.timer_generation[t] = d.timer_generation[t]
    BY <2>2, <2>3, <2>4, FireTasks
  <2>7. othersAlike(fire(d, t), s, t)
    BY <2>5, <2>6, AlikeTransitive
  <2> QED
    BY <1>2, <2>1, <2>2, <2>4, <2>6, <2>7, Zenon DEF t
<1> QED
  BY <1>1, <1>2, Zenon

\* finish and cancel
LEMMA RemoveTaskTasks ==
  ASSUME NEW s, wellFormed(s), NEW t \in TaskId
  PROVE  LET r == removeTask(s, t)
         IN othersAlike(r, s, t) /\ r.live = s.live \ {t} /\ r.current = s.current
<1> DEFINE w == disarm(s, t)
<1> DEFINE d == dropTimer(w, t)
<1>1. /\ wellFormed(w) /\ othersAlike(w, s, t) /\ w.live = s.live /\ w.current = s.current
  BY DisarmTasks
<1>2. CASE t \notin s.live
  <2>1. removeTask(s, t) = w
    BY <1>2 DEF removeTask
  <2> HIDE DEF w
  <2> QED
    BY <1>1, <1>2, <2>1
<1>3. CASE t \in s.live
  <2> DEFINE n == IF d.referenced[t] THEN d.referenced_tasks - 1 ELSE d.referenced_tasks
  <2> DEFINE r == [d EXCEPT !.live = d.live \ {t},
                            !.pending = [d.pending EXCEPT ![t] = None],
                            !.referenced_tasks = n]
  <2>1. removeTask(s, t) = r
    BY <1>3 DEF removeTask
  <2> HIDE DEF w, n
  <2>2. /\ wellFormed(d) /\ sameTasks(d, w)
        /\ \A u \in TaskId \ {t} : d.timer_generation[u] = w.timer_generation[u]
    <3>1. timedApartFrom(w, t)
      BY <1>1 DEF wellFormed, wellTimed, timedApartFrom
    <3>2. w.timer_generation[t] # None => w.live_timers - 1 \in Nat
      BY <1>1, <1>3, ArmedCounted
    <3>3. /\ w \in Schedulers /\ t \in w.live /\ wellQueued(w) /\ wellCounted(w)
          /\ IsFiniteSet(w.timers)
      BY <1>1, <1>3 DEF wellFormed
    <3>4. wellFormed(d)
      BY <3>1, <3>3, DropTimer
    <3> QED
      BY <3>2, <3>3, <3>4, DropTimerTasks
  <2> HIDE DEF d
  <2>3. /\ r.live = d.live \ {t} /\ r.queued = d.queued /\ r.waiters = d.waiters
        /\ r.timer_generation = d.timer_generation /\ r.current = d.current
        /\ \A u \in TaskId \ {t} : r.pending[u] = d.pending[u]
    BY <2>2 DEF wellFormed, Schedulers
  <2> HIDE DEF r
  <2>4. othersAlike(r, w, t)
    BY <2>2, <2>3 DEF sameTasks, othersAlike, alike
  <2>5. othersAlike(r, s, t)
    BY <1>1, <2>4, AlikeTransitive
  <2> QED
    BY <1>1, <2>1, <2>2, <2>3, <2>5 DEF sameTasks
<1> QED
  BY <1>2, <1>3

LEMMA UnreferenceTasks ==
  ASSUME NEW s, wellFormed(s), NEW t \in TaskId
  PROVE  LET r == unreference(s, t) IN allAlike(r, s) /\ r.current = s.current
BY DEF unreference, allAlike, alike, wellFormed, Schedulers

LEMMA PruneTasks ==
  ASSUME NEW s, wellFormed(s)
  PROVE  LET r == pruneStaleTimerHead(s) IN allAlike(r, s) /\ r.current = s.current
<1>1. PICK T, n : pruneStaleTimerHead(s) = [s EXCEPT !.timers = T, !.stale_timers = n]
  BY Zenon DEF pruneStaleTimerHead
<1> QED
  BY <1>1 DEF allAlike, alike, wellFormed, Schedulers

LEMMA CurrentTasks ==
  ASSUME NEW s, wellFormed(s), NEW v
  PROVE  LET r == [s EXCEPT !.current = v]
         IN /\ allAlike(r, s) /\ r.current = v /\ r.live = s.live /\ r.queued = s.queued
            /\ r.pending = s.pending /\ r.waiters = s.waiters
            /\ r.timer_generation = s.timer_generation
BY DEF allAlike, alike, wellFormed, Schedulers

\* From s to r, next_queued_activation took task c.
activated(r, s, c) ==
  /\ c \in s.live /\ s.queued[c] /\ othersAlike(r, s, c)
  /\ r.live = s.live /\ r.waiters = s.waiters /\ r.current = c
  /\ r.pending[c] = None /\ ~r.queued[c]
  /\ r.timer_generation[c] = s.timer_generation[c]

\* next_queued_activation: without a task to activate it only empties the
\* queue; otherwise it takes one queued task out and makes it the current one.
LEMMA NextOfQueue ==
  ASSUME NEW s, wellFormed(s), NEW micro \in BOOLEAN,
         NEW q, q = IF micro THEN s.microtasks ELSE s.ready
  PROVE  LET r == nextActivation(s, micro)
         IN /\ IF micro THEN r.ready = s.ready ELSE r.microtasks = s.microtasks
            /\ runnable(s, q) = {} =>
                 /\ allAlike(r, s) /\ r.current = s.current
                 /\ (IF micro THEN r.microtasks ELSE r.ready) = <<>>
            /\ runnable(s, q) # {} => activated(r, s, q[Min(runnable(s, q))])
<1> DEFINE hits == runnable(s, q)
<1> DEFINE n == IF hits = {} THEN Len(q) ELSE Min(hits)
<1> DEFINE popped == {q[i] : i \in 1..n} \cap s.live
<1> DEFINE rest == SubSeq(q, n + 1, Len(q))
<1> DEFINE micros == IF micro THEN rest ELSE s.microtasks
<1> DEFINE readys == IF micro THEN s.ready ELSE rest
<1> DEFINE queued == [t \in TaskId |-> s.queued[t] /\ t \notin popped]
<1> DEFINE requested == [t \in TaskId |-> s.ready_requested[t] /\ t \notin popped]
<1> DEFINE skipped == [s EXCEPT !.microtasks = micros, !.ready = readys,
                                !.queued = queued, !.ready_requested = requested]
<1> DEFINE r == nextActivation(s, micro)
<1>1. r = IF hits = {} THEN skipped
          ELSE [skipped EXCEPT !.pending = [s.pending EXCEPT ![q[n]] = None], !.current = q[n]]
  BY DEF nextActivation
<1>2. q \in Seq(TaskId) /\ s.live \subseteq TaskId /\ Len(q) \in Nat
  BY TypedTasks
<1>3. \A t \in s.live : occurs(q, t) => s.queued[t] /\ s.ready_requested[t] /\ s.pending[t] # None
  BY TypedTasks DEF wellFormed, wellQueued
<1>4. distinct(q)
  BY DEF wellFormed, wellQueued
<1>5. \A i \in DOMAIN q : q[i] \in s.live => i \in hits
  BY <1>3 DEF runnable, occurs
<1>6. hits \subseteq 1..Len(q) /\ hits \subseteq Nat /\ DOMAIN q = 1..Len(q)
  BY <1>2 DEF runnable
<1>7. \A i \in hits : q[i] \in s.live /\ s.queued[q[i]]
  BY <1>3, <1>6 DEF runnable, occurs
<1> HIDE DEF hits
<1>8. hits # {} => n \in hits /\ n = Min(hits) /\ \A i \in hits : n <= i
  BY <1>6, MinExists, Zenon
<1>9. popped = IF hits = {} THEN {} ELSE {q[n]}
  <2>1. CASE hits = {}
    <3>1. n = Len(q)
      BY <2>1
    <3> QED
      BY <1>5, <1>6, <2>1, <3>1
  <2>2. CASE hits # {}
    <3>1. n \in hits /\ n \in 1..Len(q) /\ (\A i \in hits : n <= i) /\ q[n] \in s.live
      BY <1>6, <1>7, <1>8, <2>2, Zenon
    <3> HIDE DEF n
    <3>2. \A i \in 1..n : i \in DOMAIN q /\ i \in Nat /\ (n <= i => i = n) /\ n \in 1..n
      BY <1>2, <1>6, <3>1
    <3>3. \A i \in 1..n : q[i] \in s.live => i = n
      BY <1>5, <3>1, <3>2
    <3> QED
      BY <2>2, <3>1, <3>2, <3>3
  <2> QED
    BY <2>1, <2>2
<1>10. hits = {} => rest = <<>>
  <2> SUFFICES ASSUME hits = {} PROVE rest = <<>>
    OBVIOUS
  <2>1. n = Len(q)
    OBVIOUS
  <2>2. Len(q) + 1 > Len(q)
    BY <1>2
  <2> QED
    BY <1>2, <2>1, <2>2
<1>11. \A t \in TaskId : queued[t] = (s.queued[t] /\ t \notin popped)
  OBVIOUS
<1>12. \A t \in TaskId : s.queued[t] \in BOOLEAN
  BY TypedTasks
<1> HIDE DEF rest, popped, queued, requested
<1>13. /\ skipped.live = s.live /\ skipped.waiters = s.waiters /\ skipped.pending = s.pending
       /\ skipped.timer_generation = s.timer_generation /\ skipped.current = s.current
       /\ skipped.queued = queued /\ skipped.ready = readys /\ skipped.microtasks = micros
       /\ DOMAIN skipped = DOMAIN s
  BY DEF wellFormed, Schedulers
<1>14. {"pending", "current", "live", "waiters", "timer_generation", "queued", "ready",
        "microtasks"} \subseteq DOMAIN s
  BY DEF wellFormed, Schedulers
<1> HIDE DEF skipped, n
<1>15. CASE hits = {}
  <2>1. r = skipped
    BY <1>1, <1>15
  <2>2. allAlike(r, s)
    BY <1>9, <1>11, <1>12, <1>13, <1>15, <2>1 DEF allAlike, alike
  <2> HIDE DEF r
  <2> QED
    BY <1>10, <1>13, <1>15, <2>1, <2>2 DEF r, hits
<1>16. CASE hits # {}
  <2> DEFINE c == q[n]
  <2>1. r = [skipped EXCEPT !.pending = [s.pending EXCEPT ![c] = None], !.current = c]
    BY <1>1, <1>16
  <2>2. c \in s.live /\ s.queued[c] /\ c \in TaskId /\ c \in popped
    BY <1>2, <1>7, <1>8, <1>9, <1>16
  <2>3. popped = {c}
    BY <1>9, <1>16
  <2> HIDE DEF c, r
  <2>4. /\ r.live = s.live /\ r.waiters = s.waiters /\ r.queued = queued
        /\ r.timer_generation = s.timer_generation /\ r.current = c
        /\ r.ready = readys /\ r.microtasks = micros
        /\ r.pending = [s.pending EXCEPT ![c] = None]
    BY <1>13, <1>14, <2>1
  <2>5. r.pending[c] = None /\ \A u \in TaskId \ {c} : r.pending[u] = s.pending[u]
    BY <2>2, <2>4, TypedTasks
  <2>6. ~r.queued[c] /\ \A u \in TaskId \ {c} : r.queued[u] = s.queued[u]
    BY <1>11, <1>12, <2>2, <2>3, <2>4, Zenon
  <2>7. othersAlike(r, s, c)
    BY <2>4, <2>5, <2>6 DEF othersAlike, alike
  <2>8. c = q[Min(hits)]
    BY <1>8, <1>16 DEF c
  <2>9. activated(r, s, c)
    BY <2>2, <2>4, <2>5, <2>6, <2>7 DEF activated
  <2> QED
    BY <1>16, <2>4, <2>8, <2>9 DEF r, hits
<1> QED
  BY <1>15, <1>16

\* The next microtask, and the next of the other tasks.
LEMMA NextMicrotask ==
  ASSUME NEW s, wellFormed(s)
  PROVE  LET r == nextActivation(s, TRUE)
             hits == runnable(s, s.microtasks)
         IN /\ r.ready = s.ready
            /\ hits = {} => allAlike(r, s) /\ r.current = s.current /\ r.microtasks = <<>>
            /\ hits # {} => activated(r, s, s.microtasks[Min(hits)])
<1> DEFINE q == s.microtasks
<1>1. q = IF TRUE THEN s.microtasks ELSE s.ready
  OBVIOUS
<1> HIDE DEF q
<1>2. LET r == nextActivation(s, TRUE)
      IN /\ IF TRUE THEN r.ready = s.ready ELSE r.microtasks = s.microtasks
         /\ runnable(s, q) = {} =>
              /\ allAlike(r, s) /\ r.current = s.current
              /\ (IF TRUE THEN r.microtasks ELSE r.ready) = <<>>
         /\ runnable(s, q) # {} => activated(r, s, q[Min(runnable(s, q))])
  BY <1>1, NextOfQueue, Zenon
<1> QED
  BY <1>2, Zenon DEF q

LEMMA NextReady ==
  ASSUME NEW s, wellFormed(s)
  PROVE  LET r == nextActivation(s, FALSE)
             hits == runnable(s, s.ready)
         IN /\ r.microtasks = s.microtasks
            /\ hits = {} => allAlike(r, s) /\ r.current = s.current /\ r.ready = <<>>
            /\ hits # {} => activated(r, s, s.ready[Min(hits)])
<1> DEFINE q == s.ready
<1>1. q = IF FALSE THEN s.microtasks ELSE s.ready
  OBVIOUS
<1> HIDE DEF q
<1>2. LET r == nextActivation(s, FALSE)
      IN /\ IF FALSE THEN r.ready = s.ready ELSE r.microtasks = s.microtasks
         /\ runnable(s, q) = {} =>
              /\ allAlike(r, s) /\ r.current = s.current
              /\ (IF FALSE THEN r.microtasks ELSE r.ready) = <<>>
         /\ runnable(s, q) # {} => activated(r, s, q[Min(runnable(s, q))])
  BY <1>1, NextOfQueue, Zenon
<1> QED
  BY <1>2, Zenon DEF q

==============================================================================
