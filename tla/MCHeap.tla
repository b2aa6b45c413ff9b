------------------------------ MODULE MCHeap ------------------------------
(***************************************************************************)
(* The heap on three boxes, for the combinations of classes that its code  *)
(* treats differently.                                                     *)
(***************************************************************************)
EXTENDS Heap, TLC

CONSTANTS b1, b2, b3

Object(n) == [tag |-> "Object", slots |-> n]
Finalizable == [tag |-> "FinalizableObject", slots |-> 1]
Vec == [tag |-> "Vec", slots |-> 1]
WeakMap == [tag |-> "WeakMap", slots |-> 1]

\* Thresholds: 2 collects at the second root (and from then on at the first),
\* 3 is above what the buffer holds.
MCScenarios ==
  { [classes   |-> b1 :> Finalizable @@ b2 :> Finalizable,
     threshold |-> 2, weak |-> {}, held |-> 1],
    [classes   |-> b1 :> Object(2) @@ b2 :> Vec @@ b3 :> Vec,
     threshold |-> 2, weak |-> {}, held |-> 1],
    [classes   |-> b1 :> Object(1) @@ b2 :> WeakMap @@ b3 :> Object(1),
     threshold |-> 2, weak |-> {}, held |-> 1],
    [classes   |-> b1 :> Finalizable @@ b2 :> WeakMap,
     threshold |-> 2, weak |-> {b1}, held |-> 2],
    [classes   |-> b1 :> Object(2) @@ b2 :> Finalizable,
     threshold |-> 2, weak |-> {b1, b2}, held |-> 1],
    [classes   |-> b1 :> Object(2) @@ b2 :> Object(1),
     threshold |-> 3, weak |-> {}, held |-> 1] }

===========================================================================
