---------------------------- MODULE ConnectionPool ----------------------------
(****************************************************************************)
(* Whim\Database\ConnectionPool: PoolState (lib/src/Database/_Private/      *)
(* PoolState.whim) and the leases on its connections (module Lease).        *)
(*                                                                          *)
(* An actor is one CALL of ConnectionPool::connect together with the lease  *)
(* it obtains; each action is the code between two suspension points.       *)
(* Connecting, pinging and closing a connection all suspend (close waits    *)
(* for the database worker), so every one of them is a window in which the  *)
(* pool may be used, closed or cancelled.  A call opens at most one         *)
(* connection, which is named after it, and owns at most one Waiter at a    *)
(* time, so the call stands for it in $pending.                             *)
(*                                                                          *)
(*   idle -> leased | pinging | discarding | opening | waiting | done       *)
(*   waiting -> granted -> leased      a released connection was handed on  *)
(*   waiting -> retry -> (as idle)     a connection went, there is room     *)
(*   waiting -> thrown -> done         cancelled, timed out or pool closed  *)
(*   opening -> leased | rejecting | done                                   *)
(*   leased -> returning | done        the lease was released               *)
(*                                                                          *)
(* In pinging, discarding, rejecting and returning the call is suspended in *)
(* ping() or close() of the connection it holds.                            *)
(****************************************************************************)
EXTENDS Naturals, Sequences, FiniteSets, Lease

CONSTANTS
  Calls,                    \* calls of ConnectionPool::connect
  Cancellable,              \* those with a token that may be cancelled
  Busy,                     \* those that make results, statements, a transaction
  maximumConnections,       \* PoolConfiguration::$maximumConnections
  maximumIdleConnections,   \* PoolConfiguration::$maximumIdleConnections
  None

ASSUME ConnectionPoolAssumption ==
  /\ IsFiniteSet(Calls)
  /\ Cancellable \subseteq Calls
  /\ Busy \subseteq Calls
  /\ maximumConnections \in Nat \ {0}
  /\ maximumIdleConnections \in 0..maximumConnections
  /\ None \notin Calls

VARIABLES
  closed,            \* $closed
  openConnections,   \* $openConnections
  idle,              \* $idle, the connections at rest
  pending,           \* $pending, stale (inactive) waiters included
  active,            \* Waiter::$active of each call
  pc,                \* where each call is
  held,              \* the connection in the hands of each call
  lease,             \* the lease of each call
  cancelled,         \* calls whose token is cancelled
  closing            \* the connection close() is closing

poolVars == <<closed, openConnections, idle, pending, active, pc, held, closing>>
vars == <<poolVars, lease, cancelled>>

States == {"idle", "pinging", "opening", "waiting", "granted", "retry", "thrown",
           "leased", "discarding", "rejecting", "returning", "done"}

Init ==
  /\ closed = FALSE
  /\ openConnections = 0
  /\ idle = <<>>
  /\ pending = <<>>
  /\ active = [c \in Calls |-> FALSE]
  /\ pc = [c \in Calls |-> "idle"]
  /\ held = [c \in Calls |-> None]
  /\ lease = [c \in Calls |-> noLease]
  /\ cancelled = {}
  /\ closing = None

------------------------------------------------------------------------------
\* Indices of $pending that hold a Waiter still active.
ActiveAt == {i \in DOMAIN pending : active[pending[i]]}

\* takeWaiter finds the first active waiter; stale ones ahead of it go too.
takeWaiter(i) ==
  /\ i \in ActiveAt /\ \A j \in ActiveAt : i <= j
  /\ pending' = SubSeq(pending, i + 1, Len(pending))
  /\ active' = [active EXCEPT ![pending[i]] = FALSE]

\* takeWaiter finds none.
noWaiter == ActiveAt = {} /\ pending' = <<>> /\ UNCHANGED active

wakeNobody(after) == pc' = after /\ UNCHANGED <<pending, active>>

\* wakeForCapacity: the first waiter runs acquire's loop again.  `after` is pc
\* as the calling operation leaves it.
wakeForCapacity(after) ==
  IF closed THEN pc' = after /\ UNCHANGED <<pending, active>>
  ELSE \/ \E i \in DOMAIN pending :
            takeWaiter(i) /\ pc' = [after EXCEPT ![pending[i]] = "retry"]
       \/ noWaiter /\ pc' = after

\* The pool no longer asks whether it is closed.
releaseToClosed(c, reusable) ==
  /\ idle' = Append(idle, held[c])
  /\ pc' = [pc EXCEPT ![c] = "done"]
  /\ held' = [held EXCEPT ![c] = None]
  /\ UNCHANGED <<closed, openConnections, pending, active, closing>>

\* A waiter never gets the connection, which goes to rest.
releaseToIdle(c, reusable) ==
  /\ IF closed \/ ~reusable \/ Len(idle) >= maximumIdleConnections
     THEN pc' = [pc EXCEPT ![c] = "returning"] /\ UNCHANGED <<held, idle>>
     ELSE /\ idle' = Append(idle, held[c])
          /\ pc' = [pc EXCEPT ![c] = "done"]
          /\ held' = [held EXCEPT ![c] = None]
  /\ UNCHANGED <<closed, openConnections, pending, active, closing>>

\* PoolState::release of the connection c holds; `reusable` also stands for the
\* connection being neither closed, unusable nor past its lifetime.  discard
\* starts by closing the connection, which suspends.
releaseEntry(c, reusable) ==
  /\ \/ /\ closed \/ ~reusable
        /\ pc' = [pc EXCEPT ![c] = "returning"]
        /\ UNCHANGED <<idle, pending, active, held>>
     \/ /\ ~closed /\ reusable
        /\ \E i \in DOMAIN pending :
             /\ takeWaiter(i)
             /\ pc' = [pc EXCEPT ![c] = "done", ![pending[i]] = "granted"]
             /\ held' = [held EXCEPT ![c] = None, ![pending[i]] = held[c]]
        /\ UNCHANGED idle
     \/ /\ ~closed /\ reusable /\ noWaiter
        /\ IF Len(idle) >= maximumIdleConnections
           THEN pc' = [pc EXCEPT ![c] = "returning"] /\ UNCHANGED <<held, idle>>
           ELSE /\ idle' = Append(idle, held[c])
                /\ pc' = [pc EXCEPT ![c] = "done"]
                /\ held' = [held EXCEPT ![c] = None]
  /\ UNCHANGED <<closed, openConnections, closing>>

------------------------------------------------------------------------------
\* connect returns: the connection c holds is on lease.
checkOut(c) == lease' = [lease EXCEPT ![c] = newLease]

\* The connection is looked at and stays in $idle.
takeIdlePeeks(c, state) ==
  /\ idle # <<>>
  /\ held' = [held EXCEPT ![c] = idle[Len(idle)]]
  /\ IF state = "leased" THEN checkOut(c) ELSE UNCHANGED lease
  /\ UNCHANGED idle

\* One round of takeIdle: the connection used last is unfit and is discarded,
\* or must be pinged first, or is good to use.
takeIdle(c, state) ==
  /\ idle # <<>>
  /\ idle' = SubSeq(idle, 1, Len(idle) - 1)
  /\ held' = [held EXCEPT ![c] = idle[Len(idle)]]
  /\ \/ state \in {"discarding", "pinging"} /\ UNCHANGED lease
     \/ state = "leased" /\ checkOut(c)

\* The limit is not asked for.
acquireBeyond(c) ==
  /\ pc[c] \in {"idle", "retry"}
  /\ \/ \E state \in {"discarding", "pinging", "leased"} :
          takeIdle(c, state) /\ pc' = [pc EXCEPT ![c] = state] /\ UNCHANGED openConnections
     \/ /\ idle = <<>>
        /\ openConnections' = openConnections + 1
        /\ pc' = [pc EXCEPT ![c] = "opening"]
        /\ UNCHANGED <<idle, held, lease>>
  /\ UNCHANGED <<closed, pending, active, cancelled, closing>>

\* acquire from the top of its loop to its first suspension point.
acquire(c) ==
  /\ pc[c] \in {"idle", "retry"}
  /\ \/ /\ closed \/ c \in cancelled
        /\ pc' = [pc EXCEPT ![c] = "done"]
        /\ UNCHANGED <<openConnections, idle, pending, active, held, lease>>
     \/ /\ ~closed /\ c \notin cancelled
        /\ \E state \in {"discarding", "pinging", "leased"} :
             takeIdle(c, state) /\ pc' = [pc EXCEPT ![c] = state]
        /\ UNCHANGED <<openConnections, pending, active>>
     \/ /\ ~closed /\ c \notin cancelled /\ idle = <<>>
        /\ openConnections < maximumConnections
        /\ openConnections' = openConnections + 1
        /\ pc' = [pc EXCEPT ![c] = "opening"]
        /\ UNCHANGED <<idle, pending, active, held, lease>>
     \/ /\ ~closed /\ c \notin cancelled /\ idle = <<>>
        /\ openConnections >= maximumConnections
        /\ pending' = Append(pending, c)
        /\ active' = [active EXCEPT ![c] = TRUE]
        /\ pc' = [pc EXCEPT ![c] = "waiting"]
        /\ UNCHANGED <<openConnections, idle, held, lease>>
  /\ UNCHANGED <<closed, cancelled, closing>>

\* A connector that fails leaves its place taken.
openedOnly(c) ==
  /\ pc[c] = "opening"
  /\ \/ pc' = [pc EXCEPT ![c] = "done"] /\ UNCHANGED <<held, lease>>
     \/ /\ held' = [held EXCEPT ![c] = c]
        /\ pc' = [pc EXCEPT ![c] = "leased"]
        /\ checkOut(c)
  /\ UNCHANGED <<closed, openConnections, idle, pending, active, cancelled, closing>>

\* open: the connector fails, or the pool was closed while it connected, or the
\* connection is new.
opened(c) ==
  /\ pc[c] = "opening"
  /\ \/ /\ openConnections' = openConnections - 1
        /\ wakeForCapacity([pc EXCEPT ![c] = "done"])
        /\ UNCHANGED <<held, lease>>
     \/ /\ held' = [held EXCEPT ![c] = c]
        /\ pc' = [pc EXCEPT ![c] = IF closed THEN "rejecting" ELSE "leased"]
        /\ IF closed THEN UNCHANGED lease ELSE checkOut(c)
        /\ UNCHANGED <<openConnections, pending, active>>
  /\ UNCHANGED <<closed, idle, cancelled, closing>>

\* takeIdle after ping: the connection answers, is lost, or the call failed for
\* another reason (its token) and gives the connection back.
pinged(c) ==
  /\ pc[c] = "pinging"
  /\ \/ /\ pc' = [pc EXCEPT ![c] = "leased"]
        /\ checkOut(c)
        /\ UNCHANGED <<closed, openConnections, idle, pending, active, held, closing>>
     \/ /\ pc' = [pc EXCEPT ![c] = "discarding"]
        /\ UNCHANGED <<closed, openConnections, idle, pending, active, held, closing, lease>>
     \/ (\E reusable \in BOOLEAN : releaseEntry(c, reusable)) /\ UNCHANGED lease
  /\ UNCHANGED cancelled

\* The connection that replaces a discarded one is not counted.
discardedTwice(c) ==
  /\ pc[c] = "discarding" /\ idle = <<>>
  /\ held' = [held EXCEPT ![c] = None]
  /\ openConnections' = openConnections - 1
  /\ wakeForCapacity([pc EXCEPT ![c] = "opening"])
  /\ UNCHANGED <<closed, idle, lease, cancelled, closing>>

\* takeIdle after discard: the loop goes on with the next idle connection, or
\* acquire opens one.  The connection just discarded left room, so acquire
\* cannot get from here to wait.
discarded(c) ==
  /\ pc[c] = "discarding"
  /\ \/ \E state \in {"discarding", "pinging", "leased"} :
          /\ takeIdle(c, state)
          /\ openConnections' = openConnections - 1
          /\ wakeForCapacity([pc EXCEPT ![c] = state])
     \/ /\ idle = <<>>
        /\ held' = [held EXCEPT ![c] = None]
        /\ wakeForCapacity([pc EXCEPT ![c] = "opening"])
        /\ UNCHANGED <<openConnections, idle, lease>>
  /\ UNCHANGED <<closed, cancelled, closing>>

\* Nobody is told that a connection went.
returnedQuietly(c) ==
  /\ pc[c] \in {"rejecting", "returning"}
  /\ openConnections' = openConnections - 1
  /\ held' = [held EXCEPT ![c] = None]
  /\ pc' = [pc EXCEPT ![c] = "done"]
  /\ UNCHANGED <<closed, idle, pending, active, lease, cancelled, closing>>

\* The connection is closed: the rest of discard, or of open in a closed pool.
returned(c) ==
  /\ pc[c] \in {"rejecting", "returning"}
  /\ openConnections' = openConnections - 1
  /\ held' = [held EXCEPT ![c] = None]
  /\ IF pc[c] = "returning"
     THEN wakeForCapacity([pc EXCEPT ![c] = "done"])
     ELSE pc' = [pc EXCEPT ![c] = "done"] /\ UNCHANGED <<pending, active>>
  /\ UNCHANGED <<closed, idle, lease, cancelled, closing>>

\* wait returns the connection it was handed, or its error.
resume(c) ==
  /\ \/ pc[c] = "granted" /\ pc' = [pc EXCEPT ![c] = "leased"] /\ checkOut(c)
     \/ pc[c] = "thrown" /\ pc' = [pc EXCEPT ![c] = "done"] /\ UNCHANGED lease
  /\ UNCHANGED <<closed, openConnections, idle, pending, active, held, cancelled, closing>>

------------------------------------------------------------------------------
\* The callback wait registered: it acts only on a Waiter that is still active.
strike(c) ==
  /\ active' = [active EXCEPT ![c] = FALSE]
  /\ pc' = [pc EXCEPT ![c] = IF active[c] THEN "thrown" ELSE @]

cancelToken(c) ==
  /\ c \in Cancellable \ cancelled
  /\ cancelled' = cancelled \cup {c}
  /\ strike(c)
  /\ UNCHANGED <<closed, openConnections, idle, pending, held, closing, lease>>

\* acquisitionTimeout expires; the token that carries it belongs to one wait.
timeout(c) ==
  /\ active[c]
  /\ strike(c)
  /\ UNCHANGED <<closed, openConnections, idle, pending, held, closing, lease, cancelled>>

\* The loops of close: close the next idle connection, which suspends; when
\* none is left, reject the waiters.
closeNext ==
  IF idle # <<>>
  THEN /\ closing' = Head(idle)
       /\ idle' = Tail(idle)
       /\ UNCHANGED <<pending, active, pc>>
  ELSE LET struck == {pending[i] : i \in ActiveAt}
       IN /\ closing' = None
          /\ pending' = <<>>
          /\ active' = [c \in Calls |-> active[c] /\ c \notin struck]
          /\ pc' = [c \in Calls |-> IF c \in struck THEN "thrown" ELSE pc[c]]
          /\ UNCHANGED idle

close ==
  /\ ~closed
  /\ closed' = TRUE
  /\ closeNext
  /\ UNCHANGED <<openConnections, held, lease, cancelled>>

closeResumes ==
  /\ closing # None
  /\ openConnections' = openConnections - 1
  /\ closeNext
  /\ UNCHANGED <<closed, held, lease, cancelled>>

------------------------------------------------------------------------------
\* Handles made from the lease of c come and go; the one that releases the
\* lease puts the connection back.
setLease(c, l) ==
  /\ lease' = [lease EXCEPT ![c] = l]
  /\ IF l.released /\ ~lease[c].released
     THEN \E fit \in BOOLEAN : releaseEntry(c, l.reusable /\ fit)
     ELSE UNCHANGED poolVars
  /\ UNCHANGED cancelled

useLease(c) ==
  /\ c \in Busy
  /\ \/ canDerive(lease[c]) /\ setLease(c, derive(lease[c]))
     \/ canBegin(lease[c]) /\ setLease(c, begin(lease[c]))

endUse(c) ==
  \/ lease[c].derived > 0 /\ \E ok \in BOOLEAN : setLease(c, closeDerived(lease[c], ok))
  \/ canCommit(lease[c]) /\ setLease(c, commit(lease[c]))
  \/ lease[c].commits > 0 /\ \E ok \in BOOLEAN : setLease(c, committed(lease[c], ok))
  \/ ~lease[c].closed /\ setLease(c, closeConnection(lease[c]))

\* The loop runs call c, once the driver has answered it.
run(c) == opened(c) \/ pinged(c) \/ discarded(c) \/ returned(c) \/ resume(c)

Next ==
  \/ \E c \in Calls : \/ acquire(c) \/ run(c) \/ cancelToken(c) \/ timeout(c)
                      \/ useLease(c) \/ endUse(c)
  \/ close \/ closeResumes

Spec == Init /\ [][Next]_vars

\* Connecting, pinging and closing end, the loop runs what it was asked to run,
\* and whoever holds a lease ends every use it makes of it.
Fairness ==
  /\ WF_vars(closeResumes)
  /\ \A c \in Calls : /\ WF_vars(run(c) \/ (pc[c] = "retry" /\ acquire(c)))
                      /\ WF_vars(endUse(c))

FairSpec == Spec /\ Fairness

------------------------------------------------------------------------------
range(q) == {q[i] : i \in DOMAIN q}

TypeOK ==
  /\ closed \in BOOLEAN
  /\ openConnections \in Nat
  /\ idle \in Seq(Calls)
  /\ pending \in Seq(Calls)
  /\ active \in [Calls -> BOOLEAN]
  /\ pc \in [Calls -> States]
  /\ held \in [Calls -> Calls \cup {None}]
  /\ lease \in [Calls -> Leases]
  /\ cancelled \subseteq Calls
  /\ closing \in Calls \cup {None}

Holding == {c \in Calls : held[c] # None}
Opening == {c \in Calls : pc[c] = "opening"}

\* `openConnections` counts exactly the connections being opened, at rest, in
\* the hands of a call, or being closed, across every suspension in between.
ConnectionsCounted ==
  openConnections = Cardinality(Opening) + Cardinality(Holding) + Len(idle)
                      + (IF closing = None THEN 0 ELSE 1)

\* A connection is in one place only: no two calls share one, and none that is
\* in use rests in the pool.
ConnectionsExclusive ==
  /\ \A c, d \in Calls : held[c] # None /\ held[c] = held[d] => c = d
  /\ \A c \in Calls : held[c] \notin range(idle) /\ (held[c] # None => held[c] # closing)
  /\ \A i, j \in DOMAIN idle : idle[i] = idle[j] => i = j
  /\ closing \notin range(idle)

\* The limits of the configuration hold, even while connections are on their
\* way in or out.
WithinMaximum ==
  openConnections <= maximumConnections /\ Len(idle) <= maximumIdleConnections

\* The connections are counted, exclusive and within the limits, across every
\* suspension of acquire, release, discard and close.
ConnectionsSound ==
  TypeOK /\ ConnectionsCounted /\ ConnectionsExclusive /\ WithinMaximum

\* Nobody waits beside an idle connection, and nobody waits in a pool that has
\* been closed: acquire looked at `closed` before its first suspension only.
WaitersHaveReason ==
  (\E c \in Calls : active[c]) => idle = <<>> /\ (closed => closing # None)

\* While nobody's token is cancelled, a call waits only while the pool is full
\* or a woken call is about to use the room.
RoomIsUsed ==
  cancelled = {} /\ (\E c \in Calls : active[c])
    => openConnections = maximumConnections \/ \E c \in Calls : pc[c] = "retry"

\* Whoever waits has a reason to: no connection is at rest, the pool is not
\* closed, and without cancellations it is full.
WaitingIsJustified == WaitersHaveReason /\ RoomIsUsed

\* A connection that went back to the pool is used by no handle of its lease,
\* and a lease is out as long as there are handles, unless two calls that
\* overlapped have both closed its transaction: each of them released the lease.
ReturnedMeansUnused ==
  \A c \in Calls : lease[c].transaction # "again" =>
    (lease[c].released <=> handles(lease[c]) = 0)

\* Without cancellation every call that waits is served or rejected: there is
\* always a later moment at which nobody waits.
WaiterServed == [](cancelled = {}) => []<>(\A c \in Calls : ~active[c])

\* A closed pool ends with no connection open.
CloseDrains == closed ~> (openConnections = 0)

==============================================================================
