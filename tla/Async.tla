------------------------------- MODULE Async --------------------------------
(****************************************************************************)
(* Whim\Async: futures (lib/src/Async/_Private/FutureState.whim,            *)
(* FutureImpl.whim), sleep(), any() and first() (functions.whim,            *)
(* _Private/functions.whim, _Private/AnySelection.whim), WaitGroup.whim and *)
(* TaskGroup.whim, whose waits the tokens of Cancellation may end.          *)
(*                                                                          *)
(* A call is one wait of one task.  An action is the code between two       *)
(* suspension points: the call up to its suspend(), or what follows once    *)
(* its suspension is resolved; a callback queued with queue_task is an      *)
(* action of its own.  The order in which the loop runs ready tasks is left *)
(* open.                                                                    *)
(****************************************************************************)
EXTENDS Cancellation

CONSTANTS
  Deferreds,     \* futures completed by the program, or by spawn()
  Deriveds,      \* futures made by map, then, catch and always
  derivedFrom,   \* the future each of them comes from
  Winner,        \* the future an any() or first() call awaits
  Settlers,      \* the tasks any() and first() launch
  Callers,       \* the other calls
  Programs,      \* the programs considered: what each may do
  Main,          \* calls made outside a task, which pump the loop
  MaxGroup       \* bound on the work of a group

Futures == Deferreds \cup Deriveds \cup {Winner}

ASSUME AsyncAssumption ==
  /\ Calls = Settlers \cup Callers
  /\ Settlers \cap Callers = {}
  /\ Main \subseteq Callers
  /\ MaxGroup \in Nat
  /\ \A p \in Programs :
       /\ p.deferreds \subseteq Deferreds
       /\ p.uses \subseteq {"derive", "ignore", "group", "tasks", "signal", "timeout", "linked"}
       /\ \A c \in Callers : p.waits[c] \subseteq
            [kind : {"await", "sleep", "wait", "awaitAll", "any", "first"},
             on : Futures \cup {None}, token : Tokens \cup {None}]
       /\ \A c \in Settlers : p.waits[c] \subseteq
            [kind : {"settle"}, on : Futures \ {Winner}, token : {None}]

VARIABLES
  program,    \* the program that runs: the waits of its calls, what else it uses
  m,          \* the tokens and the suspensions (Cancellation)
  future,     \* each FutureState
  op,         \* the wait each call has started
  pc,         \* "idle", "waiting" or "done"
  result,     \* how the call ended
  group,      \* the WaitGroup
  tasks,      \* the TaskGroup
  selection,  \* the any() or first() in progress
  how,        \* the method that made each derived future, or None
  linked      \* "new", "alive" or "gone" for each linked token

vars == <<program, m, future, op, pc, result, group, tasks, selection, how, linked>>

\* state: complete, result and error; record: "no", "recorded" or "surfaced";
\* queued: subscribers whose callback is a queued task; taken: the callbacks
\* that invokeCallbacks found (a history variable).
pendingFuture ==
  [state |-> "pending", ignored |-> FALSE, callbacks |-> {}, queued |-> {},
   record |-> "no", taken |-> {}]

Init ==
  /\ program \in Programs
  /\ m = [cancelled |-> [k \in Tokens |-> "no"],
          callbacks |-> [k \in Tokens |-> {}],
          subscribed |-> [k \in Tokens |-> {}],
          armed |-> {}, due |-> {},
          kind |-> [c \in Calls |-> "none"],
          outcome |-> [c \in Calls |-> None],
          sleeping |-> {}, failed |-> {}]
  /\ future = [f \in Futures |-> pendingFuture]
  /\ op = [c \in Calls |-> None]
  /\ pc = [c \in Calls |-> "idle"]
  /\ result = [c \in Calls |-> None]
  /\ group = [count |-> 0, waiters |-> {}]
  /\ tasks = [pending |-> 0, errors |-> 0, waiters |-> {}]
  /\ selection = [mode |-> None, errors |-> 0, index |-> None]
  /\ how = [d \in Deriveds |-> None]
  /\ linked = [k \in Linkeds |-> "new"]

-----------------------------------------------------------------------------
\* FutureState, as operators from all futures to what a method leaves of them.

isComplete(F, f) == F[f].state # "pending"

observeNothing(F, f) == F

\* observe: forget the record, if the loop has not surfaced it yet
observe(F, f) == [F EXCEPT ![f].record = IF @ = "recorded" THEN "no" ELSE @]

\* FutureState::subscribe
subscribeTo(F, f, x) ==
  IF isComplete(F, f)
  THEN [observe(F, f) EXCEPT ![f].queued = @ \cup {x}]
  ELSE [F EXCEPT ![f].callbacks = @ \cup {x}]

unsubscribeLate(F, f, x) == F

unsubscribe(F, f, x) == [F EXCEPT ![f].callbacks = @ \ {x}]

completesUnrecorded(F, f, state) ==
  [F EXCEPT ![f] = [@ EXCEPT !.state = state, !.callbacks = {},
                             !.queued = F[f].callbacks, !.taken = F[f].callbacks]]

\* complete and error with invokeCallbacks: an error nobody subscribed to is
\* recorded as unhandled
completes(F, f, state) ==
  [F EXCEPT ![f] =
    [@ EXCEPT !.state = state, !.callbacks = {},
              !.queued = F[f].callbacks, !.taken = F[f].callbacks,
              !.record = IF state = "error" /\ F[f].callbacks = {} /\ ~F[f].ignored
                         THEN "recorded" ELSE "no"]]

-----------------------------------------------------------------------------
\* Where a wait ends.

settleAnyEagerly(r, F) ==
  /\ selection' = [selection EXCEPT !.errors = @ + (IF r = "error" THEN 1 ELSE 0)]
  /\ future' = IF isComplete(F, Winner) THEN F ELSE completes(F, Winner, r)

\* settle() of an any() and the loop body of a first(): one of the futures
\* has ended in r; F are the futures after that.
settleAny(r, F) ==
  LET errors == selection.errors + (IF r = "error" THEN 1 ELSE 0)
      wins == r = "value" /\ ~isComplete(F, Winner)
      fails == r = "error" /\ errors = Cardinality(Settlers) /\ ~isComplete(F, Winner)
  IN /\ selection' = [selection EXCEPT !.errors = errors]
     /\ future' = IF wins THEN completes(F, Winner, "value")
                  ELSE IF fails THEN completes(F, Winner, "error") ELSE F

settleFirst(o, r, F) ==
  LET wins == ~isComplete(F, Winner)
  IN /\ selection' = IF wins THEN [selection EXCEPT !.index = o.on] ELSE selection
     /\ future' = IF wins THEN completes(F, Winner, "value") ELSE F

\* What call c does with the value or the error r its wait gave it.
conclude(c, o, r, F) ==
  /\ pc' = [pc EXCEPT ![c] = "done"]
  /\ \/ /\ o.kind \in {"await", "sleep", "wait", "any"} \/ r = "cancelled"
        /\ result' = [result EXCEPT ![c] = r]
        /\ future' = F
        /\ UNCHANGED <<tasks, selection>>
     \/ /\ o.kind = "awaitAll" /\ r = "value"
        /\ result' = [result EXCEPT ![c] = IF tasks.errors > 0 THEN "error" ELSE r]
        /\ tasks' = [tasks EXCEPT !.errors = 0]
        /\ future' = F
        /\ UNCHANGED selection
     \/ /\ o.kind = "first" /\ r = "value"
        /\ result' = [result EXCEPT ![c] = F[selection.index].state]
        /\ future' = observe(F, selection.index)
        /\ UNCHANGED <<tasks, selection>>
     \/ /\ o.kind = "settle"
        /\ result' = [result EXCEPT ![c] = r]
        /\ IF selection.mode = "any" THEN settleAny(r, F) ELSE settleFirst(o, r, F)
        /\ UNCHANGED tasks

-----------------------------------------------------------------------------
\* The calls.

usable(k) == k \in Linkeds => linked[k] = "alive"

\* throwIfCancellationRequested of the token the call was given
checked(o) == IF o.token = None THEN m ELSE refresh(m, o.token)

\* The call returns without suspending.
immediate(o) ==
  CASE o.kind \in {"await", "settle"} -> isComplete(future, o.on)
    [] o.kind = "wait" -> group.count = 0
    [] o.kind = "awaitAll" -> tasks.pending = 0
    [] OTHER -> FALSE

\* The value or error an immediate return gives; getResult observes.
given(o) == IF o.on = None THEN "value" ELSE future[o.on].state

\* The call suspends: its timer, its registration with the token, its
\* subscription to the future or its place among the waiters of a group.
suspend(c, o, n) ==
  LET set == [n EXCEPT !.kind[c] = o.kind,
                       !.sleeping = IF o.kind = "sleep" THEN @ \cup {c} ELSE @]
  IN /\ m' = IF o.token = None THEN set ELSE register(set, o.token, c)
     /\ future' = IF o.on = None THEN future ELSE subscribeTo(future, o.on, c)
     /\ group' = IF o.kind = "wait" THEN [group EXCEPT !.waiters = @ \cup {c}] ELSE group
     /\ tasks' = IF o.kind = "awaitAll" THEN [tasks EXCEPT !.waiters = @ \cup {c}] ELSE tasks
     /\ selection' = IF o.kind \in {"any", "first"}
                     THEN [selection EXCEPT !.mode = o.kind] ELSE selection
     /\ pc' = [pc EXCEPT ![c] = "waiting"]
     /\ UNCHANGED result

\* A call of await, sleep, wait, awaitAll, any or first, up to its suspension;
\* a task that any or first has launched.
start(c, o) ==
  LET n == checked(o)
      cancelledNow == o.token # None /\ n.cancelled[o.token] # "no"
  IN /\ pc[c] = "idle" /\ o \in program.waits[c] /\ usable(o.token)
     /\ c \in Settlers => selection.mode # None
     /\ op' = [op EXCEPT ![c] = o]
     /\ \/ cancelledNow /\ m' = n /\ conclude(c, o, "cancelled", future) /\ UNCHANGED group
        \/ /\ ~cancelledNow /\ immediate(o)
           /\ m' = n /\ UNCHANGED group
           /\ conclude(c, o, given(o), IF o.on = None THEN future ELSE observe(future, o.on))
        \/ ~cancelledNow /\ ~immediate(o) /\ suspend(c, o, n)
     /\ UNCHANGED <<how, linked, program>>

\* The finally blocks of the waits.
released(c) ==
  LET awake == [m EXCEPT !.sleeping = @ \ {c}]
  IN IF op[c].token = None THEN awake ELSE unregister(awake, op[c].token, c)

left(c) == IF op[c].on = None THEN future ELSE unsubscribe(future, op[c].on, c)

\* A resolved call runs again.
finish(c) ==
  /\ pc[c] = "waiting" /\ m.outcome[c] # None
  /\ m' = released(c)
  /\ conclude(c, op[c], m.outcome[c], left(c))
  /\ UNCHANGED <<op, group, how, linked, program>>

\* The suspension of a call outside a task ends in the error of another task,
\* or because the loop drained; only the finally block runs.
interrupt(c) ==
  /\ c \in Main /\ pc[c] = "waiting"
  /\ m' = released(c)
  /\ future' = left(c)
  /\ pc' = [pc EXCEPT ![c] = "done"]
  /\ result' = [result EXCEPT ![c] = "interrupted"]
  /\ UNCHANGED <<op, group, tasks, selection, how, linked, program>>

calls == <<op, pc, result>>

\* The timer of sleep()
wakeSleeper(c) ==
  /\ c \in m.sleeping
  /\ m' = resolve([m EXCEPT !.sleeping = @ \ {c}], c, "value")
  /\ UNCHANGED <<future, calls, group, tasks, selection, how, linked, program>>

-----------------------------------------------------------------------------
\* The futures.

\* Deferred::complete and error, called by the program or at the end of a
\* spawned task; a second call throws and changes nothing
complete(f, state) ==
  /\ f \in program.deferreds /\ ~isComplete(future, f)
  /\ future' = completes(future, f, state)
  /\ UNCHANGED <<m, calls, group, tasks, selection, how, linked, program>>

ignore(f) ==
  /\ "ignore" \in program.uses
  /\ f \in program.deferreds /\ ~future[f].ignored
  /\ future' = [observe(future, f) EXCEPT ![f].ignored = TRUE]
  /\ UNCHANGED <<m, calls, group, tasks, selection, how, linked, program>>

\* map, then, catch and always
derive(d, method) ==
  /\ "derive" \in program.uses
  /\ how[d] = None
  /\ how' = [how EXCEPT ![d] = method]
  /\ future' = subscribeTo(future, derivedFrom[d], d)
  /\ UNCHANGED <<m, calls, group, tasks, selection, linked, program>>

\* How a derived future may end: the given function returns or throws.
ends(method, state) ==
  CASE method = "then" -> {"value", "error"}
    [] method = "map" -> IF state = "value" THEN {"value", "error"} ELSE {"error"}
    [] method = "catch" -> IF state = "value" THEN {"value"} ELSE {"value", "error"}
    [] method = "always" -> IF state = "value" THEN {"value", "error"} ELSE {"error"}

\* The callback that await subscribed: it unregisters from the token and
\* resolves the suspension unless something else has.
deliver(f, c) ==
  LET n == IF op[c].token = None THEN m ELSE unregister(m, op[c].token, c)
      gate == m.outcome[c] # None \/ pc[c] = "done"
  IN /\ c \in future[f].queued \cap Calls
     /\ m' = IF gate THEN n ELSE resolve(n, c, future[f].state)
     /\ future' = [future EXCEPT ![f].queued = @ \ {c}]
     /\ UNCHANGED <<calls, group, tasks, selection, how, linked, program>>

\* The callback that map, then, catch or always subscribed
transform(f, d) ==
  /\ d \in future[f].queued \cap Deriveds
  /\ \E state \in ends(how[d], future[f].state) :
       future' = completes([future EXCEPT ![f].queued = @ \ {d}], d, state)
  /\ UNCHANGED <<m, calls, group, tasks, selection, how, linked, program>>

\* The loop, about to end, surfaces an unobserved error.
take_pending_error(f) ==
  /\ future[f].record = "recorded"
  /\ future' = [future EXCEPT ![f].record = "surfaced"]
  /\ UNCHANGED <<m, calls, group, tasks, selection, how, linked, program>>

-----------------------------------------------------------------------------
\* The groups.

resumeOneWaiter(W) ==
  IF W = {} THEN m' = m
  ELSE m' = [m EXCEPT !.outcome[CHOOSE c \in W : TRUE] = IF @ = None THEN "value" ELSE @]
\* Resume the waiters that are still active.
resumeWaiters(W) ==
  m' = [m EXCEPT !.outcome = [c \in Calls |->
          IF c \in W /\ pc[c] = "waiting" /\ @[c] = None THEN "value" ELSE @[c]]]

add ==
  /\ "group" \in program.uses
  /\ group.count < MaxGroup
  /\ group' = [group EXCEPT !.count = @ + 1]
  /\ UNCHANGED <<m, future, calls, tasks, selection, how, linked, program>>

doneUnchecked ==
  /\ \/ group.count # 1 /\ group' = [group EXCEPT !.count = @ - 1] /\ UNCHANGED m
     \/ group.count = 1 /\ group' = [count |-> 0, waiters |-> {}] /\ resumeWaiters(group.waiters)
  /\ UNCHANGED <<future, calls, tasks, selection, how, linked, program>>

done ==
  /\ group.count > 0
  /\ \/ group.count > 1 /\ group' = [group EXCEPT !.count = @ - 1] /\ UNCHANGED m
     \/ group.count = 1 /\ group' = [count |-> 0, waiters |-> {}] /\ resumeWaiters(group.waiters)
  /\ UNCHANGED <<future, calls, tasks, selection, how, linked, program>>

defer ==
  /\ "tasks" \in program.uses
  /\ tasks.pending + tasks.errors < MaxGroup
  /\ tasks' = [tasks EXCEPT !.pending = @ + 1]
  /\ UNCHANGED <<m, future, calls, group, selection, how, linked, program>>

\* A task of the group returns, or throws: its error is kept.
endTask(thrown) ==
  LET errors == tasks.errors + (IF thrown THEN 1 ELSE 0)
  IN /\ tasks.pending > 0
     /\ \/ /\ tasks.pending > 1
           /\ tasks' = [tasks EXCEPT !.pending = @ - 1, !.errors = errors]
           /\ UNCHANGED m
        \/ /\ tasks.pending = 1
           /\ tasks' = [pending |-> 0, errors |-> errors, waiters |-> {}]
           /\ resumeWaiters(tasks.waiters)
     /\ UNCHANGED <<future, calls, group, selection, how, linked, program>>

-----------------------------------------------------------------------------
\* The tokens.

unshared == <<program, future, calls, group, tasks, selection, how>>

\* SignalCancellationToken::cancel
cancel(k) ==
  /\ "signal" \in program.uses
  /\ k \in Signals /\ m.cancelled[k] = "no"
  /\ m' = cancelAs(m, k, "signal")
  /\ UNCHANGED <<unshared, linked>>

\* Time passes the deadline of a timeout token.
elapse(k) ==
  /\ "timeout" \in program.uses
  /\ k \in Timeouts \ m.due
  /\ m' = [m EXCEPT !.due = @ \cup {k}]
  /\ UNCHANGED <<unshared, linked>>

\* cancelAtTimeout, called by the timer
expire(k) ==
  /\ k \in m.armed \cap m.due
  /\ m' = cancelAs(m, k, "timeout")
  /\ UNCHANGED <<unshared, linked>>

isCancellationRequested(k) ==
  /\ k \in Timeouts /\ refresh(m, k) # m
  /\ m' = refresh(m, k)
  /\ UNCHANGED <<unshared, linked>>

newLinked(k) ==
  /\ "linked" \in program.uses
  /\ linked[k] = "new"
  /\ m' = link(m, k)
  /\ linked' = [linked EXCEPT ![k] = "alive"]
  /\ UNCHANGED unshared

\* The last reference to a linked token is dropped.
dropLinked(k) ==
  /\ linked[k] = "alive"
  /\ \A c \in Calls : pc[c] = "waiting" => op[c].token # k
  /\ m' = destruct(m, k)
  /\ linked' = [linked EXCEPT ![k] = "gone"]
  /\ UNCHANGED unshared

-----------------------------------------------------------------------------
Next ==
  \/ \E c \in Calls : \/ \E o \in program.waits[c] : start(c, o)
                      \/ finish(c)
                      \/ interrupt(c)
                      \/ wakeSleeper(c)
  \/ \E f \in Futures : \/ complete(f, "value")
                        \/ complete(f, "error")
                        \/ ignore(f)
                        \/ \E c \in Calls : deliver(f, c)
                        \/ \E d \in Deriveds : transform(f, d)
                        \/ take_pending_error(f)
  \/ \E d \in Deriveds, method \in {"map", "then", "catch", "always"} : derive(d, method)
  \/ add
  \/ done
  \/ defer
  \/ \E thrown \in BOOLEAN : endTask(thrown)
  \/ \E k \in Tokens : cancel(k) \/ elapse(k) \/ expire(k) \/ isCancellationRequested(k)
  \/ \E k \in Linkeds : newLinked(k) \/ dropLinked(k)

Spec == Init /\ [][Next]_vars

-----------------------------------------------------------------------------
Outcomes == {None, "value", "error", "cancelled"}

\* Every variable holds a value of its kind, and only timeout tokens have a
\* deadline or a timer.
TypeOK ==
  /\ program \in Programs
  /\ m.cancelled \in [Tokens -> {"no", "signal", "timeout", "cancelled"}]
  /\ m.callbacks \in [Tokens -> SUBSET (Calls \cup Tokens)]
  /\ m.subscribed \in [Tokens -> SUBSET Tokens]
  /\ m.armed \subseteq Timeouts /\ m.due \subseteq Timeouts
  /\ m.outcome \in [Calls -> Outcomes]
  /\ m.sleeping \subseteq Calls /\ m.failed \subseteq Calls
  /\ \A f \in Futures :
       /\ future[f].state \in {"pending", "value", "error"}
       /\ future[f].record \in {"no", "recorded", "surfaced"}
       /\ future[f].callbacks \cup future[f].queued \cup future[f].taken
            \subseteq Calls \cup Deriveds
  /\ pc \in [Calls -> {"idle", "waiting", "done"}]
  /\ result \in [Calls -> Outcomes \cup {"interrupted"}]
  /\ group.count \in 0 .. MaxGroup /\ tasks.pending \in 0 .. MaxGroup
  /\ tasks.errors \in 0 .. MaxGroup
  /\ selection.errors \in 0 .. Cardinality(Settlers)

\* A timeout token runs a timer, and listens to its parent, exactly while
\* somebody is registered with it and it is not cancelled (register, arm,
\* unregister and disarm of TimeoutCancellationToken.whim): no timer keeps the
\* loop alive for nobody, and nobody waits for a timeout that was disarmed.
ArmedWhileObserved ==
  \A k \in Timeouts :
    /\ k \in m.armed <=> m.callbacks[k] # {} /\ m.cancelled[k] = "no"
    /\ m.subscribed[k] = IF k \in m.armed THEN followed(k) ELSE {}

\* Cancellation reaches everything that observes it before cancel() returns:
\* no call still sleeps whose token is cancelled, and no token that listens to
\* another is behind it (cancelFromSource and notify of the three tokens).
CancellationReaches ==
  /\ \A c \in Calls :
       pc[c] = "waiting" /\ m.outcome[c] = None /\ op[c].token # None
         => m.cancelled[op[c].token] = "no"
  /\ \A k \in Tokens :
       (k \in m.armed \/ (k \in Linkeds /\ linked[k] = "alive")) /\ m.cancelled[k] = "no"
         => \A p \in followed(k) : m.cancelled[p] = "no"

\* A call that has ended, however it ended, has left nothing behind: no
\* callback with a token or a future, no timer (the finally blocks of await,
\* sleep, wait and awaitAll); nor has a cancelled or destroyed linked token.
NothingLeftBehind ==
  /\ \A c \in Calls : pc[c] # "waiting" =>
       /\ c \notin m.sleeping
       /\ \A k \in Tokens : c \notin m.callbacks[k]
       /\ \A f \in Futures : c \notin future[f].callbacks
  /\ \A k \in Linkeds : linked[k] # "alive" \/ m.cancelled[k] # "no" =>
       \A p \in Tokens : k \notin m.callbacks[p]

\* Timers, callbacks and subscriptions are there exactly while somebody needs
\* them, however waits end and tokens are cancelled, linked and destroyed.
RegistrationsExact == TypeOK /\ ArmedWhileObserved /\ NothingLeftBehind

\* A call that sleeps on has something that will wake it: its future is
\* pending and holds its callback, or the callback is queued; its timer runs;
\* its group has unfinished work (subscribe, invokeCallbacks, done, defer).
WaitsHaveReason ==
  \A c \in Calls : pc[c] = "waiting" /\ m.outcome[c] = None =>
    CASE op[c].kind = "sleep" -> c \in m.sleeping
      [] op[c].kind = "wait" -> group.count > 0 /\ c \in group.waiters
      [] op[c].kind = "awaitAll" -> tasks.pending > 0 /\ c \in tasks.waiters
      [] OTHER -> \/ c \in future[op[c].on].queued
                  \/ c \in future[op[c].on].callbacks /\ ~isComplete(future, op[c].on)

\* cancel() reports the failure of a callback only for a sleep() whose timer
\* has fired while its task has not run yet: the other waits look at their
\* flag before they throw into a suspension that may be resolved.
OnlySleepFailsCancel == \A c \in m.failed : m.kind[c] = "sleep"

\* cancel() reaches every wait below the token, and fails in none but a sleep.
CancellationDelivered == CancellationReaches /\ OnlySleepFailsCancel

\* Somebody was given the error of f.
received(f) ==
  \/ \E c \in Calls : op[c] # None /\ op[c].on = f /\ "error" \in {m.outcome[c], result[c]}
  \/ \E d \in Deriveds : derivedFrom[d] = f /\ how[d] # None /\ isComplete(future, d)
  \/ selection.mode = "first" /\ selection.index = f

\* The call gave up its await before the outcome of the future reached it.
abandoned(c) == c \in Calls /\ (m.outcome[c] = "cancelled" \/ result[c] = "interrupted")

\* The error of a future is never dropped in silence: it was ignored, it is
\* recorded or surfaced as unhandled, somebody was given it or will be
\* (FutureState::error).  The one exception: every subscriber was an await
\* already cancelled or interrupted, whose finally block had not run yet when
\* the future failed or whose callback was still queued.
FailureIsReported ==
  \A f \in Futures : future[f].state = "error" =>
    \/ future[f].ignored
    \/ future[f].record # "no"
    \/ future[f].queued # {}
    \/ received(f)
    \/ future[f].taken # {} /\ \A x \in future[f].taken : abandoned(x)

\* An error stays recorded as unhandled only while nobody has observed it
\* (observe, called by getResult, subscribe and ignore).
RecordedMeansUnobserved ==
  \A f \in Futures : future[f].record = "recorded" =>
    ~future[f].ignored /\ ~received(f) /\ future[f].queued = {}

\* An error is reported as unhandled if nobody was given it, and only then.
FailuresSurface == FailureIsReported /\ RecordedMeansUnobserved

\* any() fails only when every future has failed and answers once they have
\* all ended; first() answers with a future that has ended.
SelectionAnswers ==
  /\ selection.mode = "any" /\ future[Winner].state = "error"
       => \A e \in Settlers : result[e] = "error"
  /\ selection.mode = "any" /\ future[Winner].state = "value"
       => \E e \in Settlers : result[e] = "value"
  /\ selection.mode # None /\ (\A e \in Settlers : pc[e] = "done")
       => isComplete(future, Winner)
  /\ selection.index # None => isComplete(future, selection.index)
=============================================================================
