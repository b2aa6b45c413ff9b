------------------------------ MODULE MCAsync -------------------------------
EXTENDS Async

CONSTANTS f, g, d, w, c1, c2, e1, e2, q, s, t, l

MCparent == t :> s
MCsources == l :> {s, t}
MCderivedFrom == d :> f

Wait(kind, on, token) == [kind |-> kind, on |-> on, token |-> token]

none == [c \in Calls |-> {}]

\* Two calls that wait on the same things, ended by different tokens.
Cancelling ==
  [deferreds |-> {f}, uses |-> {"group", "tasks", "signal", "timeout", "linked"},
   waits |-> [none EXCEPT
     ![c1] = {Wait("await", f, l), Wait("sleep", None, t), Wait("wait", None, l)},
     ![c2] = {Wait("await", f, t), Wait("sleep", None, l), Wait("awaitAll", None, t),
             Wait("wait", None, t)}]]

\* A chain of futures, awaited in a task and outside one.
Chaining ==
  [deferreds |-> {f}, uses |-> {"derive", "ignore", "signal"},
   waits |-> [none EXCEPT
     ![c1] = {Wait("await", f, s)}, ![c2] = {Wait("await", d, s)},
     ![q] = {Wait("await", f, None), Wait("await", d, None)}]]

\* any() and first() over two futures, one of which another task awaits.
Selecting ==
  [deferreds |-> {f, g}, uses |-> {"ignore", "signal"},
   waits |-> [none EXCEPT
     ![q] = {Wait("any", w, None), Wait("first", w, None)}, ![c1] = {Wait("await", f, s)},
     ![e1] = {Wait("settle", f, None)}, ![e2] = {Wait("settle", g, None)}]]

MCPrograms == {Cancelling, Chaining, Selecting}
=============================================================================
