------------------------------- MODULE Heap -------------------------------
(***************************************************************************)
(* The reference-counted heap of the virtual machine and its cycle         *)
(* collector (crates/value/src/heap, gc.rs, object.rs, weak.rs): counts,   *)
(* the buffer of possible cycle roots, trial deletion, iterative teardown, *)
(* destructors, weak references and weak maps.                             *)
(*                                                                         *)
(* The heap runs on one thread and each of its operations returns before   *)
(* the program goes on, so an action is one operation of the program and   *)
(* everything the heap does in it: a count that falls to zero tears boxes  *)
(* down, a count that falls further may buffer a root, a full buffer       *)
(* collects, and a collection may tear down and notify.  These are         *)
(* operators on the record h, recursive as the code is.                    *)
(*                                                                         *)
(* A box is an object (with or without a destructor), a vec of one element *)
(* or a weak map of one entry together with the object that wraps it; any  *)
(* value that is not a counted reference is null.  held[b] counts the      *)
(* references to b outside the heap: registers, frames, statics, native    *)
(* code.  A destructor that runs holds its object in held; what it does    *)
(* are the program's other actions.                                        *)
(***************************************************************************)
EXTENDS Integers, Sequences, FiniteSets, SequencesExt, FiniteSetsExt

CONSTANTS
  Box,                      \* the addresses boxes are allocated at
  null,                     \* a value that is not a counted reference
  Scenarios,                \* the programs to try: the classes of their boxes
                            \* ([tag, slots]), the boxes weak references are
                            \* made to, the configured threshold, and the
                            \* bound `held` of references to one box outside
                            \* the heap
  TEARDOWN_DEPTH_LIMIT,
  DEFAULT_CYCLE_THRESHOLD,
  CYCLE_THRESHOLD_STEP,
  CYCLE_THRESHOLD_TRIGGER,
  ROOT_INDEX_MAX,
  MaxSlots                  \* bound: slots of one box

VARIABLES
  h,          \* the heap
  held,       \* references from outside the heap, per box
  scenario,   \* chosen once
  destructed, \* per box, how often its destructor was started
  exited      \* a destructor ended the program

vars == <<h, held, scenario, destructed, exited>>

Tags == {"Object", "FinalizableObject", "Vec", "WeakMap"}
Objects == {"Object", "FinalizableObject"}
Colors == {"Black", "Gray", "White", "Purple"}

layout == scenario.classes

Value == Box \cup {null}
Dependent == Box \cup {"Weak"}

(***************************************************************************)
(* Headers.                                                                *)
(***************************************************************************)
\* failed names the assertions of the code that did not hold: a count
\* decremented below zero (in a slot that is being replaced, or otherwise), a
\* stale root slot, a finalizable object torn down, or a freed box touched.
\* The model stops there, as a build with debug assertions does.
failing(x, what) == [x EXCEPT !.failed = @ \cup {what}]
belowZero(x) == failing(x, IF x.replacing THEN "replacedCount" ELSE "count")

increment(x, b) ==
  IF x.tag[b] = "free" THEN failing(x, "live") ELSE [x EXCEPT !.rc[b] = @ + 1]

decrement(x, b) ==
  IF x.tag[b] = "free" THEN failing(x, "live")
  ELSE IF x.rc[b] = 0 THEN belowZero(x) ELSE [x EXCEPT !.rc[b] = @ - 1]

children(x, b) == SelectSeq(x.slot[b], LAMBDA v : v # null)

\* How many edges lead from boxes of S to c.
edges(x, S, c) ==
  Cardinality({e \in S \X (1..MaxSlots) :
                 e[2] <= Len(x.slot[e[1]]) /\ x.slot[e[1]][e[2]] = c})

\* The boxes of W that S reaches without leaving W.
RECURSIVE reach(_, _, _)
reach(x, S, W) ==
  LET next == S \cup {c \in W : \E b \in S : c \in ToSet(x.slot[b])}
  IN  IF next = S THEN S ELSE reach(x, next, W)

hasWeakDependents(x) == \E b \in Box : x.registry[b] # {}

free(x, b) ==
  [x EXCEPT !.tag[b] = "free", !.rc[b] = 0, !.slot[b] = <<>>, !.key[b] = null,
            !.cyclePossible[b] = FALSE, !.color[b] = "Black",
            !.buffered[b] = FALSE, !.rootIndex[b] = 0,
            !.missed = @ \ {b}]

\* A fresh header and payload; the value of the first slot is the caller's.
allocate(x, b, v) ==
  [x EXCEPT !.tag[b] = layout[b].tag, !.rc[b] = 1,
            !.slot[b] = [i \in 1..layout[b].slots |-> IF i = 1 THEN v ELSE null],
            !.cyclePossible[b] = layout[b].tag = "FinalizableObject"]

(***************************************************************************)
(* Destructors and the root buffer.                                        *)
(***************************************************************************)
\* Mutant: the object stays finalizable.
schedule_finalizer_again(x, b) == [increment(x, b) EXCEPT !.pending = @ \cup {b}]

\* The destructor's object is kept by the list of pending finalizers and is
\* an ordinary object from then on.
schedule_finalizer(x, b) ==
  [increment(x, b) EXCEPT !.tag[b] = "Object", !.pending = @ \cup {b}]

\* Mutant: the root that takes the freed place keeps its old index.
remove_root_unmoved(x, b) ==
  LET slot == x.rootIndex[b] + 1
      last == Len(x.roots)
  IN  IF slot > last \/ x.roots[slot] # b THEN failing(x, "slot")
      ELSE [x EXCEPT !.roots = Front([x.roots EXCEPT ![slot] = x.roots[last]]),
                     !.buffered[b] = FALSE]

remove_root(x, b) ==
  LET slot == x.rootIndex[b] + 1
      last == Len(x.roots)
  IN  IF slot > last \/ x.roots[slot] # b THEN failing(x, "slot")
      ELSE [x EXCEPT
              !.roots = Front([x.roots EXCEPT ![slot] = x.roots[last]]),
              !.rootIndex = IF slot < last
                            THEN [@ EXCEPT ![x.roots[last]] = slot - 1] ELSE @,
              !.buffered[b] = FALSE]

unbuffer(x, b) == IF x.buffered[b] THEN remove_root(x, b) ELSE x

\* The operations that lead to each other, through one operator: <<operation>>,
\* <<operation, box>> or <<operation, box, mode>>.
RECURSIVE perform(_, _)
release(x, b) == perform(x, <<"release", b>>)

buffer_root(x, b) ==
  LET g == [x EXCEPT !.color[b] = "Purple", !.buffered[b] = TRUE,
                     !.rootIndex[b] = Len(x.roots), !.roots = Append(@, b),
                     !.missed = @ \ {b}]
  IN  IF Len(x.roots) > ROOT_INDEX_MAX THEN [x EXCEPT !.missed = @ \cup {b}]
      ELSE IF Len(g.roots) < g.threshold THEN g
      ELSE IF g.draining THEN [g EXCEPT !.postponed = TRUE]
      ELSE perform(g, <<"collect">>)

\* Mutant: a vec is never the start of a cycle.
mayBeCyclicObjects(x, b) ==
  x.tag[b] # "Vec" /\ (x.tag[b] \in Objects => x.cyclePossible[b])

\* A vec with nothing to lead back to it and an object that never took a
\* collectable value from a shared receiver are not candidates.
mayBeCyclic(x, b) ==
  CASE x.tag[b] = "Vec" -> x.slot[b] # <<null>>
    [] x.tag[b] \in Objects -> x.cyclePossible[b]
    [] OTHER -> TRUE

maybe_buffer_root(x, b) ==
  IF x.buffered[b] \/ ~mayBeCyclic(x, b) THEN x
  ELSE IF x.collecting THEN [x EXCEPT !.missed = @ \cup {b}]
  ELSE buffer_root(x, b)

(***************************************************************************)
(* Teardown.                                                               *)
(***************************************************************************)
\* The child of a box that is being torn down: at zero it is queued.
release_reference(x, b) ==
  LET g == decrement(x, b)
      u == unbuffer(g, b)
  IN  IF g.failed # {} THEN g
      ELSE IF g.rc[b] # 0 THEN maybe_buffer_root(g, b)
      ELSE IF g.tag[b] = "FinalizableObject" THEN schedule_finalizer(u, b)
      ELSE [u EXCEPT !.queue = Append(@, b)]

\* An object that was never a candidate is in no buffer.
release_object_value(x, b) ==
  LET g == decrement(x, b)
  IN  IF x.tag[b] \notin Objects THEN release(x, b)
      ELSE IF x.cyclePossible[b] THEN release_reference(x, b)
      ELSE IF g.rc[b] = 0 THEN [g EXCEPT !.queue = Append(@, b)] ELSE g

\* The collector has already subtracted the edges of a cycle's member.
releaseChild(x, c, tag, mode) ==
  CASE mode = "CycleMember" -> x
    [] mode = "Full" /\ tag = "Object" -> release_object_value(x, c)
    [] OTHER -> release(x, c)

\* Takes the values of b out of their slots one by one and releases each.
releaseSlots(x, b, mode) ==
  FoldLeft(LAMBDA y, i : IF y.slot[b][i] = null THEN y
                         ELSE releaseChild([y EXCEPT !.slot[b][i] = null], y.slot[b][i],
                                           x.tag[b], mode),
           x, [i \in DOMAIN x.slot[b] |-> i])

\* Mutant: weak dependents are not asked about.
shallowUnaware(x) == x.depth < TEARDOWN_DEPTH_LIMIT

shallow(x) == ~hasWeakDependents(x) /\ x.depth < TEARDOWN_DEPTH_LIMIT

teardown_shallow_object(x, b) ==
  LET g == releaseSlots([x EXCEPT !.depth = @ + 1], b, "Shallow")
  IN  free([g EXCEPT !.depth = x.depth], b)

drain_from(x, b) ==
  IF x.draining THEN [x EXCEPT !.queue = Append(@, b)]
  ELSE perform(perform([x EXCEPT !.draining = TRUE], <<"teardown", b, "Full">>),
               <<"finish_drain">>)

release_last_reference(x, b) ==
  LET g == unbuffer(x, b)
  IN  CASE g.tag[b] = "Object" /\ shallow(g) -> teardown_shallow_object(g, b)
        [] g.tag[b] = "FinalizableObject" -> schedule_finalizer(g, b)
        [] OTHER -> drain_from(g, b)

release_erased(x, b) ==
  LET g == decrement(x, b)
  IN  IF g.failed # {} THEN g
      ELSE IF g.rc[b] = 0 THEN release_last_reference(g, b)
      ELSE maybe_buffer_root(g, b)

notify_weak_dependents(x, b) ==
  LET notify(d, y) ==
        IF d = "Weak" THEN [y EXCEPT !.weak = null]
        ELSE IF y.collecting /\ y.buffered[d] THEN y
        ELSE IF y.key[d] # b THEN y
        ELSE releaseSlots([y EXCEPT !.key[d] = null], d, "Entry")
  IN  FoldSet(notify, [x EXCEPT !.registry[b] = {}], x.registry[b])

deregister(x, m) ==
  IF x.key[m] = null THEN x
  ELSE [x EXCEPT !.registry[x.key[m]] = @ \ {m}]

teardown_in_mode(x, b, mode) ==
  LET emptied(y) == free(releaseSlots(y, b, mode), b)
  IN  CASE x.tag[b] = "Object" /\ mode = "Full" /\ shallow(x) ->
             teardown_shallow_object(x, b)
        [] x.tag[b] = "Object" /\ ~(mode = "Full" /\ shallow(x)) ->
             emptied(notify_weak_dependents(x, b))
        [] x.tag[b] \in {"Vec", "WeakMap"} -> emptied(deregister(x, b))
        [] OTHER -> failing(x, "teardown")

finish_drain(x) ==
  LET g == [x EXCEPT !.draining = FALSE, !.postponed = FALSE]
  IN  IF x.failed # {} THEN x
      ELSE IF x.queue # <<>>
      THEN perform(perform([x EXCEPT !.queue = Front(@)],
                           <<"teardown", Last(x.queue), "Full">>),
                   <<"finish_drain">>)
      ELSE IF x.postponed THEN perform(g, <<"collect">>) ELSE g

(***************************************************************************)
(* The collector: trial deletion from the buffered roots.  The stacks of   *)
(* mark_gray, scan and scan_black are replaced by the sets of boxes they   *)
(* visit: each box is visited once, whatever the order.                    *)
(***************************************************************************)
colored(x, S, c) == [b \in Box |-> IF b \in S THEN c ELSE x.color[b]]

mark_gray(x, root) ==
  LET gray == reach(x, {root}, {b \in Box : x.color[b] # "Gray"})
  IN  IF \E c \in Box : edges(x, gray, c) > x.rc[c] THEN belowZero(x)
      ELSE [x EXCEPT !.color = colored(x, gray, "Gray"),
                     !.rc = [c \in Box |-> @[c] - edges(x, gray, c)]]

\* Keeps the roots that are still candidates; the others leave the buffer.
mark_roots(x) ==
  LET mark(a, root) ==
        IF a.heap.color[root] = "Purple" /\ a.heap.rc[root] > 0
        THEN [heap |-> mark_gray(a.heap, root), roots |-> Append(a.roots, root)]
        ELSE [a EXCEPT !.heap.buffered[root] = FALSE]
  IN  FoldLeft(mark, [heap  |-> [x EXCEPT !.collecting = TRUE, !.roots = <<>>],
                      roots |-> <<>>], x.roots)

scan_black(x, S) ==
  LET black == reach(x, S, {b \in Box : x.color[b] # "Black"})
  IN  [x EXCEPT !.color = colored(x, black, "Black"),
                !.rc = [c \in Box |-> @[c] + edges(x, black, c)]]

scan(x, root) ==
  LET gray  == {b \in Box : x.color[b] = "Gray"}
      white == reach(x, {root}, {b \in gray : x.rc[b] = 0})
      seen  == gray \cap ({root} \cup UNION {ToSet(x.slot[b]) : b \in white})
      alive == {b \in seen : x.rc[b] > 0}
  IN  IF root \notin gray THEN x
      ELSE IF root \in alive THEN scan_black(x, {root})
      ELSE scan_black([x EXCEPT !.color = colored(x, white, "White")], alive)

scan_roots(marked) ==
  [marked EXCEPT !.heap = FoldLeft(scan, @, marked.roots)]

\* Gathers the white boxes, in the order the stack gives.
RECURSIVE gather(_, _, _)
gather(x, stack, whites) ==
  IF stack = <<>> THEN [heap |-> x, whites |-> whites]
  ELSE LET b == Last(stack)
       IN  IF x.color[b] # "White" \/ x.buffered[b]
           THEN gather(x, Front(stack), whites)
           ELSE gather([x EXCEPT !.color[b] = "Black"],
                       Front(stack) \o children(x, b), Append(whites, b))

collect_roots(marked) ==
  FoldLeft(LAMBDA a, root :
             gather([a.heap EXCEPT !.buffered[root] = FALSE], <<root>>, a.whites),
           [heap |-> marked.heap, whites |-> <<>>], marked.roots)

\* Mutant: what is kept does not get its counts back.
retain_uncounted(found) ==
  LET x        == found.heap
      all      == ToSet(found.whites)
      finals   == {b \in all : x.tag[b] = "FinalizableObject"}
      retained == reach(x, finals, all)
  IN  [heap |-> FoldSet(LAMBDA b, y : schedule_finalizer(y, b), x, finals),
       whites |-> SelectSeq(found.whites, LAMBDA b : b \notin retained)]

\* Mutant: one destructor keeps everything that was found.
retain_everything(found) ==
  LET x        == found.heap
      finals   == {b \in ToSet(found.whites) : x.tag[b] = "FinalizableObject"}
      restored == [x EXCEPT !.rc = [c \in Box |-> @[c] + edges(x, ToSet(found.whites), c)]]
  IN  IF finals = {} THEN [heap |-> x, whites |-> found.whites]
      ELSE [heap |-> FoldSet(LAMBDA b, y : schedule_finalizer(y, b), restored, finals),
            whites |-> <<>>]

\* What a destructor of a garbage cycle can still see gets its counts back
\* and is kept; its destructors are scheduled.
retain_finalizable_subgraphs(found) ==
  LET x        == found.heap
      all      == ToSet(found.whites)
      finals   == {b \in all : x.tag[b] = "FinalizableObject"}
      retained == reach(x, finals, all)
      restored == [x EXCEPT !.rc = [c \in Box |-> @[c] + edges(x, retained, c)]]
  IN  [heap |-> FoldSet(LAMBDA b, y : schedule_finalizer(y, b), restored, finals),
       whites |-> SelectSeq(found.whites, LAMBDA b : b \notin retained)]

\* Mutant: the members of a cycle release their children once more.
free_whites_fully(kept) ==
  FoldLeft(LAMBDA y, b : perform(y, <<"teardown", b, "Full">>),
           [kept.heap EXCEPT !.buffered = [b \in Box |-> @[b] \/ b \in ToSet(kept.whites)]],
           kept.whites)

free_whites(kept) ==
  FoldLeft(LAMBDA y, b : perform(y, <<"teardown", b, "CycleMember">>),
           [kept.heap EXCEPT !.buffered = [b \in Box |-> @[b] \/ b \in ToSet(kept.whites)]],
           kept.whites)

drain_pending(x) ==
  IF x.draining THEN x ELSE perform([x EXCEPT !.draining = TRUE], <<"finish_drain">>)

sweep(kept) ==
  [heap  |-> [drain_pending(free_whites(kept)) EXCEPT !.collecting = FALSE],
   freed |-> Len(kept.whites)]

\* Answers the heap and the number of boxes freed.
collect(x) ==
  IF x.collecting THEN [heap |-> x, freed |-> 0]
  ELSE sweep(retain_finalizable_subgraphs(collect_roots(scan_roots(mark_roots(x)))))

\* Mutant: the threshold is lowered without a floor.
adaptedFreely(threshold, freed) ==
  IF freed < CYCLE_THRESHOLD_TRIGGER
  THEN Min({threshold + CYCLE_THRESHOLD_STEP, ROOT_INDEX_MAX})
  ELSE threshold - CYCLE_THRESHOLD_STEP

\* A collection that frees little raises the threshold, one that frees much
\* lowers it.
adapted(threshold, freed) ==
  IF freed < CYCLE_THRESHOLD_TRIGGER
  THEN Min({threshold + CYCLE_THRESHOLD_STEP, ROOT_INDEX_MAX})
  ELSE Max({threshold - CYCLE_THRESHOLD_STEP, DEFAULT_CYCLE_THRESHOLD})

adaptThreshold(c) == [c.heap EXCEPT !.threshold = adapted(@, c.freed)]
collect_cycles_automatically(x) == adaptThreshold(collect(x))

perform(x, call) ==
  CASE call[1] = "release"      -> release_erased(x, call[2])
    [] call[1] = "teardown"     -> teardown_in_mode(x, call[2], call[3])
    [] call[1] = "finish_drain" -> finish_drain(x)
    [] call[1] = "collect"      -> collect_cycles_automatically(x)

(***************************************************************************)
(* The program.                                                            *)
(***************************************************************************)
Init ==
  /\ scenario \in Scenarios
  /\ h = [rc            |-> [b \in Box |-> 0],
          tag           |-> [b \in Box |-> "free"],
          slot          |-> [b \in Box |-> <<>>],
          key           |-> [b \in Box |-> null],
          cyclePossible |-> [b \in Box |-> FALSE],
          color         |-> [b \in Box |-> "Black"],
          buffered      |-> [b \in Box |-> FALSE],
          rootIndex     |-> [b \in Box |-> 0],
          registry      |-> [b \in Box |-> {}],
          roots         |-> <<>>,
          queue         |-> <<>>,
          pending       |-> {},
          weak          |-> null,
          threshold     |-> scenario.threshold,
          depth         |-> 0,
          missed        |-> {},
          replacing     |-> FALSE,
          collecting    |-> FALSE,
          draining      |-> FALSE,
          postponed     |-> FALSE,
          failed        |-> {}]
  /\ held = [b \in Box |-> 0]
  /\ destructed = [b \in Box |-> 0]
  /\ exited = FALSE

running == ~exited /\ h.failed = {}
has(v) == v \in {null} \cup {b \in Box : held[b] > 0}
copied(x, v) == IF v = null THEN x ELSE increment(x, v)
dropped(x, v) == IF v = null THEN x ELSE release(x, v)
room(b) == held[b] < scenario.held
unaffected == UNCHANGED <<scenario, destructed, exited>>

\* A new box.  What its constructor or its literal puts into the first slot
\* is written without noting that the object may be part of a cycle.
create(b, v) ==
  /\ running /\ b \in DOMAIN layout /\ h.tag[b] = "free" /\ has(v)
  /\ layout[b].tag # "WeakMap" \/ v = null
  /\ h' = allocate(copied(h, v), b, v)
  /\ held' = [held EXCEPT ![b] = 1]
  /\ destructed' = [destructed EXCEPT ![b] = 0]
  /\ UNCHANGED <<scenario, exited>>

\* A register takes the value of a slot; a weak map is asked with the key.
read_slot(b, i) ==
  /\ running /\ held[b] > 0 /\ i \in DOMAIN h.slot[b]
  /\ h.slot[b][i] # null /\ room(h.slot[b][i])
  /\ h.tag[b] = "WeakMap" => held[h.key[b]] > 0
  /\ h' = increment(h, h.slot[b][i])
  /\ held' = [held EXCEPT ![h.slot[b][i]] = @ + 1]
  /\ unaffected

clone(b) ==
  /\ running /\ held[b] > 0 /\ room(b)
  /\ h' = increment(h, b)
  /\ held' = [held EXCEPT ![b] = @ + 1]
  /\ unaffected

drop(b) ==
  /\ h.failed = {} /\ held[b] > 0
  /\ held' = [held EXCEPT ![b] = @ - 1]
  /\ h' = release(h, b)
  /\ unaffected

\* Noted only for a receiver that something else refers to: a value that is
\* stored into the only reference cannot lead back to it yet.
note_cycle_capable_write(x, o, v, unique) ==
  IF v # null /\ ~unique THEN [x EXCEPT !.cyclePossible[o] = TRUE] ELSE x

write_slot(x, o, i, v, unique) ==
  dropped([note_cycle_capable_write(x, o, v, unique) EXCEPT !.slot[o][i] = v],
          x.slot[o][i])

\* The checked instruction holds the receiver while it writes.
PropertySet(o, i, v) ==
  /\ running /\ held[o] > 0 /\ h.tag[o] \in Objects
  /\ i \in DOMAIN h.slot[o] /\ has(v)
  /\ h' = release(write_slot(copied(increment(h, o), v), o, i, v,
                                    h.rc[o] = 1 /\ v # o), o)
  /\ UNCHANGED held /\ unaffected

\* The unchecked one does not; it moves the value or copies it.
PropertySetUnchecked(o, i, v) ==
  /\ running /\ held[o] > 0 /\ h.tag[o] \in Objects
  /\ i \in DOMAIN h.slot[o] /\ has(v)
  /\ \/ /\ h' = write_slot(copied(h, v), o, i, v, h.rc[o] = 1 /\ v # o)
        /\ UNCHANGED held
     \/ /\ v # null /\ held[v] > (IF v = o THEN 1 ELSE 0)
        /\ h' = write_slot(h, o, i, v, h.rc[o] = 1)
        /\ held' = [held EXCEPT ![v] = @ - 1]
  /\ unaffected


\* make_mut: the only reference to a vec is written in place, another one is
\* replaced by a copy at n.  The place that held it still does while the
\* reference it gives up is released.
separate(x, w, n) ==
  release(allocate(copied(x, x.slot[w][1]), n, x.slot[w][1]), w)

setElement(x, w, v) == dropped([x EXCEPT !.slot[w] = <<v>>], x.slot[w][1])

freshVec(x, n) == n \in DOMAIN layout /\ layout[n].tag = "Vec" /\ x.tag[n] = "free"

\* A vec in a register.
index_set(w, v) ==
  /\ running /\ held[w] > 0 /\ h.tag[w] = "Vec" /\ has(v)
  /\ LET x == copied(h, v)
     IN  \/ /\ x.rc[w] = 1
            /\ h' = setElement(x, w, v)
            /\ UNCHANGED held
         \/ \E n \in Box :
              /\ x.rc[w] > 1 /\ freshVec(x, n)
              /\ h' = setElement(separate(x, w, n), n, v)
              /\ held' = [held EXCEPT ![w] = @ - 1, ![n] = 1]
  /\ unaffected

\* A vec in a property, changed in its slot; nothing is noted.  The checked
\* instruction holds the receiver twice and lets one reference go first.
separateSlot(x, o, i, n) ==
  [separate([x EXCEPT !.replacing = TRUE], x.slot[o][i], n)
     EXCEPT !.replacing = FALSE, !.slot[o][i] = n]

set_property_index(o, i, v, checked) ==
  /\ running /\ held[o] > 0 /\ h.tag[o] \in Objects /\ has(v)
  /\ i \in DOMAIN h.slot[o] /\ h.slot[o][i] # null /\ h.tag[h.slot[o][i]] = "Vec"
  /\ LET w == h.slot[o][i]
         x == IF checked
              THEN release(copied(increment(increment(h, o), o), v), o)
              ELSE copied(h, v)
         done(y) == IF checked THEN release(y, o) ELSE y
     IN  \/ x.rc[w] = 1 /\ h' = done(setElement(x, w, v))
         \/ \E n \in Box :
              /\ x.rc[w] > 1 /\ freshVec(x, n)
              /\ h' = done(setElement(separateSlot(x, o, i, n), n, v))
  /\ UNCHANGED held /\ unaffected

weakReference(b) ==
  /\ running /\ held[b] > 0 /\ b \in scenario.weak /\ h.weak = null
  /\ h' = [h EXCEPT !.weak = b, !.registry[b] = @ \cup {"Weak"}]
  /\ UNCHANGED held /\ unaffected

dropWeakReference ==
  /\ h.failed = {} /\ h.weak # null
  /\ h' = [h EXCEPT !.weak = null, !.registry[h.weak] = @ \ {"Weak"}]
  /\ UNCHANGED held /\ unaffected

upgrade ==
  /\ running /\ h.weak # null /\ room(h.weak)
  /\ h' = increment(h, h.weak)
  /\ held' = [held EXCEPT ![h.weak] = @ + 1]
  /\ unaffected

\* One entry is the bound of the model.  A call holds its key and the storage
\* of the map until it returns.
weakMapSet(m, k, v) ==
  /\ running /\ held[m] > 0 /\ h.tag[m] = "WeakMap" /\ has(v)
  /\ held[k] > 0 /\ h.tag[k] \in Objects /\ h.key[m] \in {null, k}
  /\ LET x == copied(increment(increment(h, k), m), v)
         y == dropped([x EXCEPT !.slot[m] = <<v>>, !.key[m] = k,
                                !.registry[k] = @ \cup {m}], h.slot[m][1])
     IN  h' = release(release(y, m), k)
  /\ UNCHANGED held /\ unaffected

weakMapRemove(m, k) ==
  /\ running /\ held[m] > 0 /\ h.tag[m] = "WeakMap"
  /\ held[k] > 0 /\ h.key[m] = k
  /\ LET x == deregister(increment(increment(h, k), m), m)
         y == dropped([x EXCEPT !.slot[m] = <<null>>, !.key[m] = null], h.slot[m][1])
     IN  h' = release(release(y, m), k)
  /\ UNCHANGED held /\ unaffected

collect_cycles ==
  /\ h.failed = {}
  /\ h' = collect(h).heap
  /\ UNCHANGED held /\ unaffected

\* The reference of the list becomes the receiver of the call; pending
\* destructors of cycles found in a coroutine are tasks of their own, so the
\* order is open.
invoke_destructor(b) ==
  /\ running /\ b \in h.pending /\ room(b)
  /\ h' = [h EXCEPT !.pending = @ \ {b}]
  /\ held' = [held EXCEPT ![b] = @ + 1]
  /\ destructed' = [destructed EXCEPT ![b] = @ + 1]
  /\ UNCHANGED <<scenario, exited>>

\* A destructor ends the program: the destructors that are left are
\* abandoned.  From here on references are only dropped.
exit ==
  /\ running /\ \E b \in Box : destructed[b] > 0 /\ held[b] > 0
  /\ LET abandoned == [h EXCEPT !.pending = {},
                        !.tag = [b \in Box |-> IF @[b] = "FinalizableObject"
                                               THEN "Object" ELSE @[b]]]
     IN  h' = FoldSet(LAMBDA b, x : release(x, b), abandoned, h.pending)
  /\ exited' = TRUE
  /\ UNCHANGED <<held, scenario, destructed>>

schedule_shutdown_finalizers ==
  /\ running /\ \E b \in Box : h.tag[b] = "FinalizableObject"
  /\ h' = FoldSet(LAMBDA b, x : schedule_finalizer(unbuffer(x, b), b), h,
                  {b \in Box : h.tag[b] = "FinalizableObject"})
  /\ UNCHANGED held /\ unaffected

Next ==
  \/ \E b \in Box, v \in Value : create(b, v)
  \/ \E b \in Box, i \in 1..MaxSlots : read_slot(b, i)
  \/ \E b \in Box : clone(b) \/ drop(b)
  \/ \E o \in Box, i \in 1..MaxSlots, v \in Value :
       \/ PropertySet(o, i, v) \/ PropertySetUnchecked(o, i, v)
       \/ \E checked \in BOOLEAN : set_property_index(o, i, v, checked)
  \/ \E w \in Box, v \in Value : index_set(w, v)
  \/ \E b \in Box : weakReference(b)
  \/ dropWeakReference \/ upgrade
  \/ \E m, k \in Box, v \in Value : weakMapSet(m, k, v)
  \/ \E m, k \in Box : weakMapRemove(m, k)
  \/ collect_cycles
  \/ \E b \in Box : invoke_destructor(b)
  \/ exit
  \/ schedule_shutdown_finalizers

Spec == Init /\ [][Next]_vars

(***************************************************************************)
(* Properties.                                                             *)
(***************************************************************************)
live(x) == {b \in Box : x.tag[b] # "free"}
reachable == reach(h, {b \in Box : held[b] > 0} \cup h.pending, Box)
garbage == live(h) \ reachable
candidates == ToSet(h.roots)
intact == h.failed = {}

\* The type of the state, and a threshold that stays a number of roots.
TypeOK ==
  /\ \A b \in Box :
       /\ h.rc[b] \in Nat /\ h.tag[b] \in Tags \cup {"free"}
       /\ h.slot[b] \in Seq(Value) /\ h.key[b] \in Value
       /\ h.registry[b] \subseteq Dependent /\ h.color[b] \in Colors
  /\ h.roots \in Seq(Box) /\ h.pending \subseteq Box /\ h.weak \in Value
  /\ h.threshold \in Nat
  /\ held \in [Box -> 0..scenario.held] /\ destructed \in [Box -> Nat]
  /\ exited \in BOOLEAN /\ scenario \in Scenarios

\* Whatever an operation tore down, collected, resurrected or moved, the count
\* of a live box is the number of references there are to it: from registers
\* and native code, from slots of live boxes, and from the list of pending
\* finalizers (Header::increment, Header::decrement).
CountsExact ==
  intact => \A b \in live(h) :
    h.rc[b] = held[b] + edges(h, live(h), b) + (IF b \in h.pending THEN 1 ELSE 0)

\* Nothing refers to a freed box: no register, slot or pending destructor, and
\* no weak reference, weak map entry or registry entry either, since the
\* registry lists exactly the dependents there are (notify_weak_dependents,
\* deregister_weak_dependent).
NoDanglingReference ==
  intact =>
    /\ reachable \subseteq live(h)
    /\ UNION {ToSet(children(h, b)) : b \in live(h)} \subseteq live(h)
    /\ \A b \in Box : h.registry[b] = {m \in Box : h.key[m] = b}
                                      \cup (IF h.weak = b THEN {"Weak"} ELSE {})
    /\ \A b \in Box : h.registry[b] # {} => b \in live(h)

\* Between two operations the buffered boxes are exactly the roots, each
\* knows its place in the buffer and is purple, and no operation left a
\* trial colour, a queued box, a postponed collection or a raised flag
\* (remove_root, collect, finish_drain).
RootsConsistent ==
  intact =>
    /\ \A b \in Box : h.buffered[b] <=> b \in candidates
    /\ \A i \in DOMAIN h.roots : h.rootIndex[h.roots[i]] = i - 1
    /\ \A b \in candidates : h.color[b] = "Purple"
    /\ \A b \in Box : h.color[b] \in {"Black", "Purple"}
    /\ h.queue = <<>> /\ ~h.collecting /\ ~h.draining /\ ~h.postponed /\ h.depth = 0

\* After every operation, with all it tore down, collected and notified, counts,
\* references, weak registry and root buffer agree.
HeapSound == TypeOK /\ CountsExact /\ NoDanglingReference /\ RootsConsistent

\* No count is decremented below zero, no root slot is stale, no finalizable
\* object is torn down and no freed box is touched.  The one exception is a
\* collection that runs while separate gives up the vec of a property: the
\* slot still leads to it, so its count is one short.
NoAssertionFails == h.failed \subseteq {"replacedCount"}

\* Garbage that reference counting leaves behind stays within reach of a root,
\* so that the next collection finds it, with the exceptions the code makes:
\* objects whose references were written without noting that they may be part
\* of a cycle (unique or fresh receivers, vecs changed in place), and boxes
\* whose last decrement came during a collection or met a full buffer.
GarbageHasCandidate ==
  LET unnoted == {b \in live(h) : h.tag[b] = "Object" /\ ~h.cyclePossible[b]
                                  /\ children(h, b) # <<>>}
  IN  intact => garbage \subseteq reach(h, candidates \cup h.missed \cup unnoted, Box)

\* A collection started in any state frees all the garbage its roots lead to
\* that other garbage does not hold, except what a destructor can still see;
\* those destructors become pending, and no root is left (gc.rs collect).
CollectionFindsCycles ==
  LET after  == collect(h).heap
      lost   == garbage \ reach(h, candidates, Box)
      found  == garbage \ reach(h, lost, Box)
      finals == {b \in found : h.tag[b] = "FinalizableObject"}
  IN  intact => /\ live(after) \cap found = reach(h, finals, Box) \cap found
                /\ finals \subseteq after.pending
                /\ after.roots = <<>>

\* A destructor runs at most once, whether its object is resurrected, is in a
\* cycle or meets the shutdown, and an object with a destructor is freed only
\* after it has been started, unless another destructor ended the program
\* (schedule_finalizer, abandon_finalizers).
DestructorOnce ==
  [][\A b \in DOMAIN layout : layout[b].tag = "FinalizableObject" =>
       /\ destructed'[b] <= 1
       /\ b \in live(h) \ live(h') => destructed[b] = 1 \/ exited']_vars

=============================================================================
