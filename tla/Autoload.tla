------------------------------ MODULE Autoload ------------------------------
(****************************************************************************)
(* Loading of units and symbols (crates/runtime/src/vm/units.rs): load_unit *)
(* and run_autoload_chain, which let one owner load a file or a symbol at a *)
(* time and make the others wait for it, and wait_for_load, which refuses a *)
(* wait that would close a circle.                                          *)
(*                                                                          *)
(* An owner is a task, or the main program.  One owner runs at a time: the  *)
(* last of coroutine_stack, unless it is pumping the loop, in which case    *)
(* the loop may activate a task on top of it.  The autoloader is user code  *)
(* that may suspend, drain the loop, require the file of the symbol, throw  *)
(* and catch.                                                               *)
(*                                                                          *)
(* A load in progress is a frame of its owner: PendingLoad is the place of  *)
(* the frame together with its waiters.  Its outcome, set when the frame    *)
(* ends, is kept with those that wait for it (load_waits).                  *)
(****************************************************************************)
EXTENDS Naturals, Sequences, FiniteSets, SequencesExt

CONSTANTS
  Tasks,        \* the tasks, spawned by the main program
  Main,         \* the owner None of the code
  None,
  Scenarios,    \* the programs to try: what is in which file, who loads what
  MaxFaults     \* bound: cancellations and errors of the autoloader

Owners == Tasks \cup {Main}

(* A scenario has                                                           *)
(*   file      for every symbol the file that declares it                   *)
(*   needs     for every file the symbols its declarations name, in order   *)
(*   parents   those of them without which it cannot be declared            *)
(*   call      for every owner the call it makes, [kind, key, once]         *)
VARIABLES
  scenario,
  m,            \* the engine
  faults        \* cancellations and errors of the autoloader so far

vars == <<scenario, m, faults>>

Symbols == DOMAIN scenario.file
Files == DOMAIN scenario.needs
declaredBy(u) == {n \in Symbols : scenario.file[n] = u}

Init ==
  /\ scenario \in Scenarios
  /\ m = [symbols            |-> {},                               \* tables.symbols
          loaded_paths       |-> {},
          loading_paths      |-> [u \in Files |-> None],
          autoload_in_flight |-> [n \in Symbols |-> None],
          load_waits         |-> [o \in Owners |-> None],
          frames             |-> [o \in Owners |-> <<>>],          \* loads in progress
          at                 |-> [o \in Owners |-> IF o = Main THEN "run" ELSE "new"],
          woken              |-> [o \in Owners |-> o # Main],      \* queued, or resolved
          thrown             |-> [o \in Owners |-> FALSE],         \* an error is unwinding
          cancelled          |-> {},                               \* cancelled_tasks
          coroutine_stack    |-> <<Main>>,
          current            |-> None,                             \* scheduler.current
          result             |-> [o \in Owners |-> "none"],        \* of the owner's call
          refused            |-> FALSE,                            \* a wait was refused
          gaveUp             |-> FALSE]                            \* a wait drained the loop
  /\ faults = 0

------------------------------------------------------------------------------
(* Operators from the engine before to the engine after.                    *)

\* The owner suspends: a task returns to the loop, unless a pump of its own has
\* cleared the current task; then it pumps, as the main program does.
suspend(e, o, why) ==
  IF e.current # o THEN [e EXCEPT !.at[o] = why]
  ELSE [e EXCEPT !.at[o] = why, !.coroutine_stack = Front(@), !.current = None,
                 !.woken[o] = o \in e.cancelled, !.thrown[o] = o \in e.cancelled]

\* A call of the owner returns to the code below it.
returned(e, o) ==
  [e EXCEPT !.at[o] = "run",
            !.result[o] = IF e.frames[o] = <<>> THEN "ok" ELSE @]

raised(e, o) == [e EXCEPT !.at[o] = "run", !.thrown[o] = TRUE]

unresolved(w) == w # None /\ w.outcome = None

RECURSIVE closesCircleOfPast(_, _, _)
closesCircleOfPast(e, p, o) ==
  \/ p.owner = o
  \/ /\ e.load_waits[p.owner] # None
     /\ closesCircleOfPast(e, e.load_waits[p.owner], o)

\* The loop at the head of wait_for_load: following the waits from the owner of
\* the load p leads back to o.
RECURSIVE closesCircle(_, _, _)
closesCircle(e, p, o) ==
  \/ p.owner = o
  \/ /\ unresolved(e.load_waits[p.owner])
     /\ closesCircle(e, e.load_waits[p.owner], o)

\* wait_for_load, for the call that is to go on when the load p has ended
wait_for_load(e, o, p, call) ==
  IF closesCircle(e, p, o) THEN [returned(e, o) EXCEPT !.refused = TRUE]
  ELSE LET w == [e EXCEPT !.load_waits[o] = [owner |-> p.owner, depth |-> p.depth,
                                             outcome |-> None, call |-> call]]
       IN suspend(IF e.current # o THEN w
                  ELSE [w EXCEPT !.frames[p.owner][p.depth].waiters = @ \cup {o}],
                  o, "wait")

place(e, o) == [owner |-> o, depth |-> Len(e.frames[o]) + 1]

\* load_unit once no load of the file is in the way
loadHere(e, o, call) ==
  LET u == call.key
  IN IF call.once /\ u \in e.loaded_paths THEN returned(e, o)
     ELSE [e EXCEPT !.at[o] = "run",
                    !.loading_paths[u] = place(e, o),
                    !.frames[o] = Append(@, [kind |-> "unit", key |-> u, step |-> 0,
                                             needs |-> scenario.needs[u], waiters |-> {}])]

load_unit(e, o, call) ==
  IF e.loading_paths[call.key] # None
  THEN wait_for_load(e, o, e.loading_paths[call.key], call)
  ELSE loadHere(e, o, call)

autoloadAgain(e, o, call) ==
  LET n == call.key
  IN [e EXCEPT !.autoload_in_flight[n] = place(e, o),
               !.frames[o] = Append(@, [kind |-> "symbol", key |-> n, step |-> 0,
                                        needs |-> <<>>, waiters |-> {}])]

run_autoload_chain(e, o, call) ==
  LET n == call.key
  IN IF e.autoload_in_flight[n] # None
     THEN wait_for_load(e, o, e.autoload_in_flight[n], call)
     ELSE [e EXCEPT !.autoload_in_flight[n] = place(e, o),
                    !.frames[o] = Append(@, [kind |-> "symbol", key |-> n, step |-> 0,
                                             needs |-> <<>>, waiters |-> {}])]

symbolCall(n) == [kind |-> "symbol", key |-> n, once |-> TRUE]
fileCall(u, once) == [kind |-> "unit", key |-> u, once |-> once]

\* require! and require_once!, or the use of a name (resolve_function)
start(e, o, call) ==
  IF call.kind = "unit" THEN load_unit(e, o, call)
  ELSE IF call.key \in e.symbols THEN returned(e, o)
  ELSE run_autoload_chain(e, o, call)

\* The wait of o is over (the end of wait_for_load, and what follows it).
waited(e, o) ==
  LET w == e.load_waits[o]
      left == [e EXCEPT !.load_waits[o] = None, !.frames =
                 IF w.outcome = None THEN [@ EXCEPT ![w.owner][w.depth].waiters = @ \ {o}]
                 ELSE @]
  IN IF e.thrown[o] \/ w.outcome = "error" THEN raised(left, o)
     ELSE IF w.call.kind = "unit" THEN loadHere(left, o, w.call)
     ELSE returned(left, o)

finishSilently(e, o, outcome) ==
  [e EXCEPT !.load_waits = [w \in Owners |->
              IF unresolved(@[w]) /\ @[w].owner = o /\ @[w].depth = Len(e.frames[o])
              THEN [@[w] EXCEPT !.outcome = outcome] ELSE @[w]]]

\* finish_load of the load on top of o's frames: its outcome reaches all who
\* wait for it, and the loop is asked to resume the tasks among them (which has
\* no effect on a task that is queued already).
finish_load(e, o, outcome) ==
  [e EXCEPT !.load_waits = [w \in Owners |->
              IF unresolved(@[w]) /\ @[w].owner = o /\ @[w].depth = Len(e.frames[o])
              THEN [@[w] EXCEPT !.outcome = outcome] ELSE @[w]],
            !.woken = [w \in Owners |-> @[w] \/ w \in Last(e.frames[o]).waiters]]

\* The load on top of o's frames ends.
loadEnds(e, o, outcome) ==
  LET f == Last(e.frames[o])
      f1 == [finish_load(e, o, outcome) EXCEPT !.frames[o] = Front(@)]
      f2 == IF f.kind = "unit" THEN [f1 EXCEPT !.loading_paths[f.key] = None]
            ELSE [f1 EXCEPT !.autoload_in_flight[f.key] = None]
      f3 == IF f.kind = "unit" /\ outcome = "ok"
            THEN [f2 EXCEPT !.loaded_paths = @ \cup {f.key}] ELSE f2
  IN IF outcome = "ok" THEN returned(f3, o) ELSE raised(f3, o)

------------------------------------------------------------------------------
(* The running owner.                                                       *)

me == Last(m.coroutine_stack)
running == m.at[me] = "run" /\ ~m.thrown[me]
inFrame(kind) == m.frames[me] # <<>> /\ Last(m.frames[me]).kind = kind
frame == Last(m.frames[me])
stepTo(e, k) == [e EXCEPT !.frames[me][Len(e.frames[me])].step = k]

\* The owner's own code loads a symbol or requires a file.
ownerCalls ==
  /\ running /\ m.frames[me] = <<>> /\ m.result[me] = "none"
  /\ m' = start(m, me, scenario.call[me])
  /\ UNCHANGED <<scenario, faults>>

\* autoload_unit_dependencies: the next symbol the unit names
autoload_unit_dependencies ==
  /\ running /\ inFrame("unit") /\ frame.needs # <<>>
  /\ LET n == Head(frame.needs)
         e == [m EXCEPT !.frames[me][Len(m.frames[me])].needs = Tail(@)]
     IN m' = IF n \in m.symbols \cup declaredBy(frame.key) THEN e
             ELSE run_autoload_chain(e, me, symbolCall(n))
  /\ UNCHANGED <<scenario, faults>>

\* declare_compiled: fails if a name is taken or a parent is missing.
declare_compiled ==
  /\ running /\ inFrame("unit") /\ frame.needs = <<>>
  /\ LET names == declaredBy(frame.key)
     IN m' = IF names \cap m.symbols # {} \/ ~ scenario.parents[frame.key] \subseteq m.symbols
             THEN loadEnds(m, me, "error")
             ELSE loadEnds([m EXCEPT !.symbols = @ \cup names], me, "ok")
  /\ UNCHANGED <<scenario, faults>>

\* The autoloader's callback (call_callee_reentrant): it may suspend on a timer
\* or drain the loop, then requires the file of the symbol and returns.
callbackSuspends ==
  /\ running /\ inFrame("symbol") /\ frame.step = 0
  /\ m' = suspend(stepTo(m, 1), me, "sleep")
  /\ UNCHANGED <<scenario, faults>>

callbackDrains ==
  /\ running /\ inFrame("symbol") /\ frame.step = 0
  /\ m' = [stepTo(m, 1) EXCEPT !.at[me] = "drain"]
  /\ UNCHANGED <<scenario, faults>>

callbackRequires ==
  /\ running /\ inFrame("symbol") /\ frame.step < 2
  /\ m' = load_unit(stepTo(m, 2), me, fileCall(scenario.file[frame.key], TRUE))
  /\ UNCHANGED <<scenario, faults>>

callbackReturns ==
  /\ running /\ inFrame("symbol") /\ frame.step = 2
  /\ m' = loadEnds(m, me, "ok")
  /\ UNCHANGED <<scenario, faults>>

callbackThrows ==
  /\ running /\ inFrame("symbol") /\ frame.step < 2 /\ faults < MaxFaults
  /\ m' = loadEnds(m, me, "error")
  /\ faults' = faults + 1
  /\ UNCHANGED scenario

\* An error unwinds through a load, unless the callback catches it.
unwind ==
  /\ m.at[me] = "run" /\ m.thrown[me] /\ m.frames[me] # <<>>
  /\ m' = loadEnds([m EXCEPT !.thrown[me] = FALSE], me, "error")
  /\ UNCHANGED <<scenario, faults>>

callbackCatches ==
  /\ m.at[me] = "run" /\ m.thrown[me] /\ inFrame("symbol")
  /\ m' = stepTo([m EXCEPT !.thrown[me] = FALSE], 2)
  /\ UNCHANGED <<scenario, faults>>

ownerCatches ==
  /\ m.at[me] = "run" /\ m.thrown[me] /\ m.frames[me] = <<>>
  /\ m' = [m EXCEPT !.thrown[me] = FALSE, !.result[me] = "error"]
  /\ UNCHANGED <<scenario, faults>>

\* The task is done.
taskEnds ==
  /\ me # Main /\ running /\ m.frames[me] = <<>> /\ m.result[me] # "none"
  /\ m' = [m EXCEPT !.at[me] = "done", !.coroutine_stack = Front(@), !.current = None]
  /\ UNCHANGED <<scenario, faults>>

\* The task is done for, and its error leaves the pump that runs it.
taskThrows ==
  /\ me # Main /\ m.at[me] = "run" /\ m.thrown[me] /\ m.frames[me] = <<>>
  /\ LET below == Last(Front(m.coroutine_stack))
     IN m' = [m EXCEPT !.at[me] = "done", !.coroutine_stack = Front(@), !.current = None,
                       !.result[me] = "error",
                       !.thrown = [@ EXCEPT ![me] = FALSE, ![below] = me \notin m.cancelled]]
  /\ UNCHANGED <<scenario, faults>>

\* The main program ends in run_event_loop.
mainEnds ==
  /\ me = Main /\ running /\ m.frames[Main] = <<>> /\ m.result[Main] # "none"
  /\ m' = [m EXCEPT !.at[Main] = "drain"]
  /\ UNCHANGED <<scenario, faults>>

\* loop_cancel of a suspended task; a task that is queued keeps what it is
\* queued for, and throws at its next suspension.
loop_cancel(t) ==
  /\ running /\ (m.frames[me] = <<>> \/ inFrame("symbol"))
  /\ faults < MaxFaults
  /\ m.at[t] \in {"wait", "sleep"} /\ ~ Contains(m.coroutine_stack, t)
  /\ m' = [m EXCEPT !.cancelled = @ \cup {t}, !.woken[t] = TRUE,
                    !.thrown[t] = @ \/ ~m.woken[t]]
  /\ faults' = faults + 1
  /\ UNCHANGED scenario

------------------------------------------------------------------------------
(* The event loop, run by the owner that pumps.                             *)

pumping == m.at[me] \in {"wait", "sleep", "drain"}

\* A timer of the callback is due.
timerFires(o) ==
  /\ pumping /\ m.at[o] = "sleep" /\ ~m.woken[o]
  /\ m' = [m EXCEPT !.woken[o] = TRUE]
  /\ UNCHANGED <<scenario, faults>>

activate_task(t) ==
  /\ pumping /\ ~m.thrown[me]
  /\ m.woken[t] /\ ~ Contains(m.coroutine_stack, t)
  /\ LET e == [m EXCEPT !.coroutine_stack = Append(@, t), !.current = t, !.woken[t] = FALSE]
     IN m' = IF m.at[t] = "wait" THEN waited(e, t) ELSE [e EXCEPT !.at[t] = "run"]
  /\ UNCHANGED <<scenario, faults>>

\* loop_run_once and run_event_loop find nothing to run and nothing to wait for.
drained ==
  \A o \in Owners : m.at[o] = "sleep" \/ m.woken[o] =>
    m.woken[o] /\ Contains(m.coroutine_stack, o)

pumpEnds ==
  /\ pumping
  /\ \/ /\ m.at[me] = "wait"
        /\ m.thrown[me] \/ ~unresolved(m.load_waits[me])
        /\ m' = waited(m, me)
     \/ /\ m.at[me] = "wait"
        /\ ~m.thrown[me] /\ unresolved(m.load_waits[me]) /\ drained
        /\ m' = waited([m EXCEPT !.thrown[me] = TRUE, !.gaveUp = TRUE], me)
     \/ /\ m.at[me] = "sleep" /\ (m.woken[me] \/ m.thrown[me])
        /\ m' = [m EXCEPT !.at[me] = "run", !.woken[me] = FALSE]
     \/ /\ m.at[me] = "drain" /\ (drained \/ m.thrown[me])
        /\ m' = [m EXCEPT !.at[me] = IF m.frames[me] = <<>> THEN "done" ELSE "run"]
  /\ UNCHANGED <<scenario, faults>>

Code ==
  \/ ownerCalls \/ autoload_unit_dependencies \/ declare_compiled
  \/ callbackSuspends \/ callbackDrains \/ callbackRequires \/ callbackReturns
  \/ callbackThrows \/ unwind \/ callbackCatches \/ ownerCatches
  \/ taskEnds \/ taskThrows \/ mainEnds
  \/ \E t \in Tasks : loop_cancel(t)

Loop ==
  \/ \E o \in Owners : timerFires(o)
  \/ \E t \in Tasks : activate_task(t)
  \/ pumpEnds

Next == Code \/ Loop

Spec == Init /\ [][Next]_vars

\* User code goes on until it suspends, and the loop runs as long as it can.
FairSpec == Spec /\ WF_vars(Next)

------------------------------------------------------------------------------
Place == {None} \cup [owner : Owners, depth : Nat \ {0}]

\* Every variable has its type.
TypeOK ==
  /\ scenario \in Scenarios
  /\ faults \in 0 .. MaxFaults
  /\ m.symbols \subseteq Symbols /\ m.loaded_paths \subseteq Files
  /\ m.loading_paths \in [Files -> Place]
  /\ m.autoload_in_flight \in [Symbols -> Place]
  /\ m.at \in [Owners -> {"new", "run", "wait", "sleep", "drain", "done"}]
  /\ m.woken \in [Owners -> BOOLEAN] /\ m.thrown \in [Owners -> BOOLEAN]
  /\ m.cancelled \subseteq Tasks
  /\ m.current \in Tasks \cup {None}
  /\ m.result \in [Owners -> {"none", "ok", "error"}]

\* The loads in progress, as <<owner, depth>>.
loads == UNION {{<<o, d>> : d \in DOMAIN m.frames[o]} : o \in Owners}
load(l) == m.frames[l[1]][l[2]]

\* require_once! is used throughout.
requiredOnce == \A o \in Owners : scenario.call[o].once

\* No symbol is loaded twice at the same time, by one owner or by two, across
\* every suspension of the autoloader, and a load is announced in loading_paths
\* or autoload_in_flight exactly while it lasts.  The same goes for files, unless
\* one is required again: load_unit does not look at loading_paths a second time
\* after it waited, so that two calls that waited for one load both load the file.
OneLoadAtATime ==
  /\ \A k, l \in loads :
       /\ load(k).kind = load(l).kind /\ load(k).key = load(l).key
       /\ load(k).kind = "unit" => requiredOnce
       => k = l
  /\ requiredOnce => \A u \in Files : m.loading_paths[u] # None <=>
       \E l \in loads : load(l).kind = "unit" /\ load(l).key = u
  /\ \A n \in Symbols : m.autoload_in_flight[n] # None <=>
       \E l \in loads : load(l).kind = "symbol" /\ load(l).key = n

\* The engine's record of loads in progress is exact.
LoadsConsistent == TypeOK /\ OneLoadAtATime

\* The files can be put in an order in which each needs only earlier ones.
ordered ==
  \E rank \in [Files -> 1 .. Cardinality(Files)] :
    \A u \in Files : \A i \in DOMAIN scenario.needs[u] :
      LET v == scenario.file[scenario.needs[u][i]] IN v # u => rank[v] < rank[u]

\* However the loads of several owners interleave, files without circular needs
\* load: no wait is taken for a circle, no declaration fails, and a load that
\* returned has declared what was asked for.  (Unless a task was cancelled or an
\* autoloader threw, a file was required again, or a task pumped the loop in
\* wait_for_load on top of the load it waited for.)
OrderedLoadsSucceed ==
  ordered /\ faults = 0 /\ ~m.gaveUp /\ requiredOnce =>
    /\ ~m.refused
    /\ \A o \in Owners :
         /\ ~m.thrown[o] /\ m.result[o] # "error"
         /\ m.result[o] = "ok" =>
              scenario.call[o].key \in m.symbols \cup m.loaded_paths

\* Nobody waits for a load for ever, files that need each other, errors and
\* cancellations included: the program ends, and unless an error ended it every
\* task has.
EveryLoadEnds ==
  <>(m.at[Main] = "done" /\ (m.thrown[Main] \/ \A t \in Tasks : m.at[t] = "done"))

==============================================================================
