------------------------------ MODULE Semaphore ------------------------------
(****************************************************************************)
(* Whim\Async\Semaphore (lib/src/Async/Semaphore.whim), also the engine of  *)
(* Whim\Async\Sequence (limit 1).  The event loop is cooperative: a task    *)
(* runs until it suspends, so each action below is the code between two     *)
(* suspension points.                                                       *)
(*                                                                          *)
(* An actor is one CALL of waitFor or waitForPending.  Each call owns at    *)
(* most one Waiter (its Suspension and its `active` flag), so a call stands *)
(* for its Waiter in the two ring buffers.  A call goes through             *)
(*                                                                          *)
(*   idle -> running -> done              the limit is not reached          *)
(*   idle -> pending -> resumed -> running -> done     a slot is inherited  *)
(*   idle -> pending -> thrown -> done    cancelled while it waits          *)
(*   idle -> waiting -> notified|thrown -> done        waitForPending       *)
(*   resumed -> leaked                    cut short, the slot is lost       *)
(*                                                                          *)
(* `resumed`, `notified` and `thrown` are the window between the waker's    *)
(* suspension->resume()/throw() and the moment the loop runs the waiter.    *)
(****************************************************************************)
EXTENDS Naturals, Sequences, FiniteSets

CONSTANTS
  Calls,             \* calls of waitFor and waitForPending
  MainCalls,         \* those made outside any task, by the main program
  concurrencyLimit   \* $concurrencyLimit

ASSUME SemaphoreAssumption ==
  /\ IsFiniteSet(Calls)
  /\ MainCalls \subseteq Calls
  /\ concurrencyLimit \in Nat \ {0}

VARIABLES
  ongoing,     \* $ongoing
  pending,     \* $pending, a queue of calls, stale (inactive) ones included
  waits,       \* $waits, a queue of calls, stale (inactive) ones included
  active,      \* Waiter::$active of each call
  pc,          \* where each call is
  cancelled    \* whether the cancellation token of a call is cancelled

vars == <<ongoing, pending, waits, active, pc, cancelled>>

States == {"idle", "pending", "waiting", "resumed", "notified", "thrown",
           "running", "leaked", "done"}

\* Calls that own a slot: running, woken with a slot of their own, or cut short
\* before they ran with it.
Holders == {c \in Calls : pc[c] \in {"running", "resumed", "leaked"}}

Init ==
  /\ ongoing = 0
  /\ pending = <<>>
  /\ waits = <<>>
  /\ active = [c \in Calls |-> FALSE]
  /\ pc = [c \in Calls |-> "idle"]
  /\ cancelled = [c \in Calls |-> FALSE]

------------------------------------------------------------------------------
\* The limit is checked with > instead of >=.
waitForOneMore(c) ==
  /\ pc[c] = "idle" /\ ~cancelled[c]
  /\ IF ongoing > concurrencyLimit
     THEN /\ pending' = Append(pending, c)
          /\ active' = [active EXCEPT ![c] = TRUE]
          /\ pc' = [pc EXCEPT ![c] = "pending"]
          /\ UNCHANGED ongoing
     ELSE /\ ongoing' = ongoing + 1
          /\ pc' = [pc EXCEPT ![c] = "running"]
          /\ UNCHANGED <<pending, active>>
  /\ UNCHANGED <<waits, cancelled>>

\* waitFor up to its first suspension point, or into the operation.
waitFor(c) ==
  /\ pc[c] = "idle"
  /\ IF cancelled[c]
     THEN /\ pc' = [pc EXCEPT ![c] = "done"]
          /\ UNCHANGED <<ongoing, pending, active>>
     ELSE IF ongoing >= concurrencyLimit
     THEN /\ pending' = Append(pending, c)
          /\ active' = [active EXCEPT ![c] = TRUE]
          /\ pc' = [pc EXCEPT ![c] = "pending"]
          /\ UNCHANGED ongoing
     ELSE /\ ongoing' = ongoing + 1
          /\ pc' = [pc EXCEPT ![c] = "running"]
          /\ UNCHANGED <<pending, active>>
  /\ UNCHANGED <<waits, cancelled>>

\* waitForPending up to its suspension point, or its early return.
waitForPending(c) ==
  /\ pc[c] = "idle"
  /\ IF ongoing < concurrencyLimit \/ cancelled[c]
     THEN /\ pc' = [pc EXCEPT ![c] = "done"]
          /\ UNCHANGED <<waits, active>>
     ELSE /\ waits' = Append(waits, c)
          /\ active' = [active EXCEPT ![c] = TRUE]
          /\ pc' = [pc EXCEPT ![c] = "waiting"]
  /\ UNCHANGED <<ongoing, pending, cancelled>>

\* The inherited slot is counted a second time.
resumeCounting(c) ==
  /\ \/ pc[c] = "resumed" /\ pc' = [pc EXCEPT ![c] = "running"] /\ ongoing' = ongoing + 1
     \/ pc[c] \in {"notified", "thrown"} /\ pc' = [pc EXCEPT ![c] = "done"] /\ UNCHANGED ongoing
  /\ active' = [active EXCEPT ![c] = FALSE]
  /\ UNCHANGED <<pending, waits, cancelled>>

\* The loop runs a woken waiter: after suspension->suspend() in either method.
\* The finally block clears `active`; an inherited slot is not counted again.
resume(c) ==
  /\ \/ pc[c] = "resumed" /\ pc' = [pc EXCEPT ![c] = "running"]
     \/ pc[c] \in {"notified", "thrown"} /\ pc' = [pc EXCEPT ![c] = "done"]
  /\ active' = [active EXCEPT ![c] = FALSE]
  /\ UNCHANGED <<ongoing, pending, waits, cancelled>>

\* Indices of q that hold a Waiter still active.
ActiveAt(q) == {i \in DOMAIN q : active[q[i]]}

\* The slot is given back while calls still wait for one.
releaseSlotToAll(c) ==
  LET woken == {waits[i] : i \in ActiveAt(waits)}
  IN /\ ongoing' = ongoing - 1
     /\ waits' = <<>>
     /\ active' = [d \in Calls |-> active[d] /\ d \notin woken]
     /\ pc' = [d \in Calls |-> IF d = c THEN "done"
                               ELSE IF d \in woken THEN "notified"
                               ELSE pc[d]]
     /\ UNCHANGED pending

\* The slot is given back twice: by the operation's error path and by finally.
releaseSlotTwice(c) ==
  /\ ongoing' = ongoing - 2
  /\ pc' = [pc EXCEPT ![c] = "done"]
  /\ UNCHANGED <<pending, waits, active>>

\* The slot goes to any waiter, not to the first.
releaseSlotToAny(c) ==
  \/ \E i \in ActiveAt(pending) :
       /\ pending' = SubSeq(pending, 1, i - 1) \o SubSeq(pending, i + 1, Len(pending))
       /\ active' = [active EXCEPT ![pending[i]] = FALSE]
       /\ pc' = [pc EXCEPT ![c] = "done", ![pending[i]] = "resumed"]
       /\ UNCHANGED <<ongoing, waits>>
  \/ ActiveAt(pending) = {} /\ releaseSlotToAll(c)

\* releaseSlot: hand the slot to the first active waiter, else give it back
\* and wake every call of waitForPending.
releaseSlot(c) ==
  \/ \E i \in ActiveAt(pending) :
       /\ \A j \in ActiveAt(pending) : i <= j
       /\ pending' = SubSeq(pending, i + 1, Len(pending))
       /\ active' = [active EXCEPT ![pending[i]] = FALSE]
       /\ pc' = [pc EXCEPT ![c] = "done", ![pending[i]] = "resumed"]
       /\ UNCHANGED <<ongoing, waits>>
  \/ LET woken == {waits[i] : i \in ActiveAt(waits)}
     IN /\ ActiveAt(pending) = {}
        /\ pending' = <<>>
        /\ ongoing' = ongoing - 1
        /\ waits' = <<>>
        /\ active' = [d \in Calls |-> active[d] /\ d \notin woken]
        /\ pc' = [d \in Calls |-> IF d = c THEN "done"
                                  ELSE IF d \in woken THEN "notified"
                                  ELSE pc[d]]

\* The operation returns or throws: waitFor's outer finally block.
finish(c) ==
  /\ pc[c] = "running"
  /\ releaseSlot(c)
  /\ UNCHANGED cancelled

\* Semaphore::cancel: every active pending waiter gets the error.
cancel ==
  LET struck == {pending[i] : i \in ActiveAt(pending)}
  IN /\ pending # <<>>
     /\ pending' = <<>>
     /\ active' = [c \in Calls |-> active[c] /\ c \notin struck]
     /\ pc' = [c \in Calls |-> IF c \in struck THEN "thrown" ELSE pc[c]]
     /\ UNCHANGED <<ongoing, waits, cancelled>>

\* The callback does not check `active`: a call already handed a slot is
\* thrown out of its wait and the slot is lost.
cancelTokenUngated(c) ==
  /\ ~cancelled[c]
  /\ cancelled' = [cancelled EXCEPT ![c] = TRUE]
  /\ active' = [active EXCEPT ![c] = FALSE]
  /\ pc' = [pc EXCEPT ![c] = IF @ \in {"pending", "waiting", "resumed"} THEN "thrown" ELSE @]
  /\ UNCHANGED <<ongoing, pending, waits>>

\* The token of a call is cancelled; the callback waitFor or waitForPending
\* registered runs at once and acts only on a Waiter that is still active.
cancelToken(c) ==
  /\ ~cancelled[c]
  /\ cancelled' = [cancelled EXCEPT ![c] = TRUE]
  /\ active' = [active EXCEPT ![c] = FALSE]
  /\ pc' = [pc EXCEPT ![c] = IF active[c] THEN "thrown" ELSE @]
  /\ UNCHANGED <<ongoing, pending, waits>>

\* A call made outside a task suspends by running the loop (Suspension::
\* suspend); an error that escapes the loop leaves the call through its finally
\* block, whatever the waker had stored for it: a slot is never given back.
interrupt(c) ==
  /\ c \in MainCalls
  /\ pc[c] \in {"pending", "waiting", "resumed", "notified", "thrown"}
  /\ active' = [active EXCEPT ![c] = FALSE]
  /\ pc' = [pc EXCEPT ![c] = IF @ = "resumed" THEN "leaked" ELSE "done"]
  /\ UNCHANGED <<ongoing, pending, waits, cancelled>>

Next ==
  \/ \E c \in Calls : waitFor(c) \/ waitForPending(c) \/ resume(c)
                      \/ finish(c) \/ cancelToken(c) \/ interrupt(c)
  \/ cancel

Spec == Init /\ [][Next]_vars

\* Operations end, and the loop runs every call it was asked to resume.
Fairness == \A c \in Calls : WF_vars(finish(c)) /\ WF_vars(resume(c))

FairSpec == Spec /\ Fairness

------------------------------------------------------------------------------
TypeOK ==
  /\ ongoing \in Nat
  /\ pending \in Seq(Calls)
  /\ waits \in Seq(Calls)
  /\ active \in [Calls -> BOOLEAN]
  /\ pc \in [Calls -> States]
  /\ cancelled \in [Calls -> BOOLEAN]

\* No slot is used twice, and none is lost but with a call that is cut short:
\* `ongoing` counts exactly the calls that run or were handed a slot by
\* releaseSlot.
SlotsAccounted == ongoing = Cardinality(Holders)

\* The calls that own a slot never exceed the limit.
WithinLimit == Cardinality(Holders) <= concurrencyLimit

\* The slots are all accounted for and never more than the limit, through every
\* hand-over, cancellation and interruption.
SlotsSound == TypeOK /\ SlotsAccounted /\ WithinLimit

\* A call waits only while every slot is taken: releaseSlot never frees a slot
\* that a call of waitFor is still waiting for, nor does one overtake it.
NoFreeSlotWhileWaiting ==
  (\E c \in Calls : pc[c] = "pending") => ongoing = concurrencyLimit

\* Every call that waits for a slot is handed one or learns of a cancellation,
\* as long as no slot is lost.
WaiterServed ==
  [](\A c \in Calls : pc[c] # "leaked") =>
    \A c \in Calls : (pc[c] = "pending") ~> (pc[c] \in {"running", "done"})

\* The calls that wait for a slot, and the order in which they came.
Waiting == {c \in Calls : pc[c] = "pending"}
Ahead ==
  {pair \in Calls \X Calls :
     \E i, j \in ActiveAt(pending) : i < j /\ pair = <<pending[i], pending[j]>>}

\* The semaphore is a first-come first-served limit on concurrent holders.
Limit == INSTANCE ConcurrencyLimit
           WITH holders <- Holders, waiting <- Waiting, ahead <- Ahead
ImplementsLimit == Limit!Spec

==============================================================================
