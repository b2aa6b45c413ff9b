---------------------------- MODULE Cancellation ----------------------------
(****************************************************************************)
(* The cancellation tokens of Whim\Async (lib/src/Async/                    *)
(* SignalCancellationToken.whim, TimeoutCancellationToken.whim and          *)
(* LinkedCancellationToken.whim) and the CallbackRegistry each of them      *)
(* owns.                                                                    *)
(*                                                                          *)
(* Cancelling runs the registered callbacks at once, and the callback of a  *)
(* token that follows another runs its own: the methods are operators from  *)
(* the memory m to the memory they leave.                                   *)
(*                                                                          *)
(*   m.cancelled[k]   "no", or the kind of k's exception                    *)
(*   m.callbacks[k]   the calls and tokens registered with k                *)
(*   m.subscribed[k]  the tokens k holds a subscription of                  *)
(*   m.armed          the timeout tokens with a timer ($watcher)            *)
(*   m.due            the timeout tokens whose deadline has passed          *)
(*   m.kind[c]        the operation call c waits in                         *)
(*   m.outcome[c]     how c's suspension was resolved, or None              *)
(*   m.sleeping       the calls whose delay_task is pending                 *)
(*   m.failed         the calls whose cancellation callback has thrown      *)
(*                                                                          *)
(* The identifiers of the registry are the registered objects: an           *)
(* identifier is never reused (the generation of its slot grows), and an    *)
(* object registers once with a token.  The order in which a registry runs  *)
(* its callbacks is left out, for what they do commutes.                    *)
(****************************************************************************)
EXTENDS Naturals, FiniteSets, FiniteSetsExt, TLC

CONSTANTS
  Calls,       \* calls that wait
  Signals,     \* SignalCancellationTokens
  Timeouts,    \* TimeoutCancellationTokens
  Linkeds,     \* LinkedCancellationTokens
  parent,      \* the parent of each timeout token, or None
  sources,     \* the tokens each linked token links
  None

Tokens == Signals \cup Timeouts \cup Linkeds

\* The tokens k follows: a token is created after the tokens it follows.
followed(k) ==
  CASE k \in Signals -> {}
    [] k \in Timeouts -> {parent[k]} \ {None}
    [] k \in Linkeds -> sources[k]

\* Suspension::throw and resume: a second resolution is an error.
resolve(m, c, how) ==
  IF m.outcome[c] = None
  THEN [m EXCEPT !.outcome[c] = how]
  ELSE [m EXCEPT !.failed = @ \cup {c}]

callUngated(m, c) ==
  resolve([m EXCEPT !.sleeping = @ \ {c}], c, "cancelled")

\* The callback a call registers: every one but that of sleep() looks at a
\* flag ($gate, $active) that the first resolution has set.
call(m, c) ==
  IF m.kind[c] = "sleep"
  THEN resolve([m EXCEPT !.sleeping = @ \ {c}], c, "cancelled")
  ELSE IF m.outcome[c] = None THEN resolve(m, c, "cancelled") ELSE m

unregisterKeepsTimer(m, k, x) == [m EXCEPT !.callbacks[k] = @ \ {x}]

RECURSIVE unregister(_, _, _)

\* unregister of x at k, and disarm once nobody observes a timeout token
unregister(m, k, x) ==
  LET left == [m EXCEPT !.callbacks[k] = @ \ {x}]
      disarms == k \in m.armed /\ left.callbacks[k] = {}
      disarmed == [left EXCEPT !.armed = @ \ {k}, !.subscribed[k] = {}]
  IN IF disarms
     THEN FoldSet(LAMBDA p, n : unregister(n, p, k), disarmed, m.subscribed[k])
     ELSE left

RECURSIVE cancelAs(_, _, _)

\* A registered callback runs: a call's, or the cancelFromSource of a token.
run(m, x) == IF x \in Calls THEN call(m, x) ELSE cancelAs(m, x, "cancelled")

\* cancel, cancelAtTimeout and cancelFromSource: mark the token, give up the
\* timer and the subscriptions, then run every callback
cancelAs(m, k, exception) ==
  IF m.cancelled[k] # "no" THEN m
  ELSE LET marked == [m EXCEPT !.cancelled[k] = exception, !.armed = @ \ {k},
                               !.subscribed[k] = {}]
           let_go == FoldSet(LAMBDA p, n : unregister(n, p, k), marked, m.subscribed[k])
           drained == [let_go EXCEPT !.callbacks[k] = {}]
       IN FoldSet(LAMBDA x, n : run(n, x), drained, let_go.callbacks[k])

RECURSIVE refresh(_, _)

\* refresh: a timeout token asks its parent, then the clock
refresh(m, k) ==
  IF k \notin Timeouts \/ m.cancelled[k] # "no" THEN m
  ELSE LET asked == FoldSet(LAMBDA p, n : refresh(n, p), m, followed(k))
       IN IF \E p \in followed(k) : asked.cancelled[p] # "no"
          THEN cancelAs(asked, k, "cancelled")
          ELSE IF k \in m.due THEN cancelAs(asked, k, "timeout") ELSE asked

RECURSIVE register(_, _, _)

\* The token k subscribes to a token it follows.
subscribe(m, k, p) ==
  LET registered == register(m, p, k)
  IN IF registered.cancelled[k] = "no"
     THEN [registered EXCEPT !.subscribed[k] = @ \cup {p}]
     ELSE registered

\* arm: start the timer and subscribe to the parent
arm(m, k) ==
  IF k \in m.armed THEN m
  ELSE FoldSet(LAMBDA p, n : subscribe(n, k, p), [m EXCEPT !.armed = @ \cup {k}], followed(k))

registerUnchecked(m, k, x) ==
  [(IF k \in Timeouts THEN arm(m, k) ELSE m) EXCEPT !.callbacks[k] = @ \cup {x}]

\* register: the callback of x runs at once if k is cancelled by now
register(m, k, x) ==
  LET fresh == refresh(m, k)
      ready == IF k \in Timeouts /\ fresh.cancelled[k] = "no" /\ fresh.callbacks[k] = {}
               THEN arm(fresh, k) ELSE fresh
  IN IF ready.cancelled[k] # "no" THEN run(ready, x)
     ELSE [ready EXCEPT !.callbacks[k] = @ \cup {x}]

\* LinkedCancellationToken::__construct and __destruct
link(m, k) ==
  FoldSet(LAMBDA p, n : IF n.cancelled[k] = "no" THEN subscribe(n, k, p) ELSE n,
          m, followed(k))

destruct(m, k) ==
  FoldSet(LAMBDA p, n : unregister(n, p, k), [m EXCEPT !.subscribed[k] = {}],
          m.subscribed[k])
=============================================================================
