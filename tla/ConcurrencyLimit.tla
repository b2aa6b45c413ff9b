-------------------------- MODULE ConcurrencyLimit --------------------------
(***************************************************************************)
(* What Whim\Async\Semaphore promises: at most concurrencyLimit holders,   *)
(* callers beyond the limit wait in order of arrival, a free slot goes to  *)
(* the one that came first, and a caller may give up only while it waits.  *)
(***************************************************************************)
EXTENDS Naturals, FiniteSets

CONSTANTS Calls, concurrencyLimit

VARIABLES
  holders,   \* calls that own a slot
  waiting,   \* calls that wait for one
  ahead      \* the order of their arrival: pairs of calls that wait

vars == <<holders, waiting, ahead>>

Init == holders = {} /\ waiting = {} /\ ahead = {}

Acquire(c) ==
  /\ c \notin holders /\ waiting = {} /\ Cardinality(holders) < concurrencyLimit
  /\ holders' = holders \cup {c}
  /\ UNCHANGED <<waiting, ahead>>

Join(c) ==
  /\ c \notin holders \cup waiting /\ Cardinality(holders) = concurrencyLimit
  /\ waiting' = waiting \cup {c}
  /\ ahead' = ahead \cup (waiting \X {c})
  /\ UNCHANGED holders

\* The calls of S no longer wait.
Leave(S) ==
  /\ waiting' = waiting \ S
  /\ ahead' = {pair \in ahead : pair[1] \notin S /\ pair[2] \notin S}

Release(c) ==
  /\ c \in holders
  /\ \/ waiting = {} /\ holders' = holders \ {c} /\ UNCHANGED <<waiting, ahead>>
     \/ \E first \in waiting :
          /\ \A d \in waiting : <<d, first>> \notin ahead
          /\ holders' = (holders \ {c}) \cup {first}
          /\ Leave({first})

GiveUp(S) == Leave(S) /\ UNCHANGED holders

Next ==
  \/ \E c \in Calls : Acquire(c) \/ Join(c) \/ Release(c)
  \/ \E S \in SUBSET waiting : GiveUp(S)

Spec == Init /\ [][Next]_vars

=============================================================================
