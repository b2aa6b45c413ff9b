------------------------- MODULE MCEventLoopNested -------------------------
(****************************************************************************)
(* Programs that drain the loop from inside it.  Two tasks do everything a  *)
(* task can do; with a third one (as many as it takes for microtasks to     *)
(* keep queueing one another) tasks only queue, run, cancel and throw.      *)
(****************************************************************************)
EXTENDS EventLoop

CONSTANT t3

\* Bound: a program that ever has a third task (a task is made referenced) has
\* no task that waits and no nested pump.
ThirdTaskBound ==
  \/ ~s.referenced[t3]
  \/ /\ frames # <<>> => Len(frames) = 1 /\ pump.phase = "code"
     /\ s.waiters = {}
     /\ \A t \in TaskId :
          coroutine[t] # "Suspended" /\ s.generation[t] = 0 /\ ~armed[t]

\* The bound cuts off no step of the pump and no return of a task, so Fairness
\* asks nothing of a behaviour that the bound forbids.
BoundedFairSpec == Init /\ [][Next /\ ThirdTaskBound']_vars /\ Fairness

============================================================================
