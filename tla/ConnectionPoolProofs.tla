------------------------ MODULE ConnectionPoolProofs ------------------------
(****************************************************************************)
(* Proofs about ConnectionPool: for every set of calls and every limit,     *)
(* `openConnections` counts the connections exactly, the limits hold and no *)
(* connection is in two places; a lease is released with its last handle;   *)
(* and whoever waits has a reason to.                                       *)
(****************************************************************************)
EXTENDS ConnectionPool, FiniteSetTheorems, TLAPS

\* The states in which a call has a connection in its hands.
HoldingStates == {"pinging", "granted", "leased", "discarding", "rejecting", "returning"}

\* The states from which a call may still open the connection named after it.
FreshStates == {"idle", "retry", "waiting", "opening", "discarding", "pinging"}

HeldWhere == \A c \in Calls : held[c] # None <=> pc[c] \in HoldingStates

ActiveWaits == \A c \in Calls : active[c] => pc[c] = "waiting"

LeasedOut ==
  \A c \in Calls : ~lease[c].released => pc[c] = "leased" /\ lease[c].references >= 1

OwnNameFree ==
  \A c \in Calls : pc[c] \in FreshStates =>
    c \notin range(idle) /\ closing # c /\ \A d \in Calls : held[d] # c

ClosingMeansClosed == closing # None => closed

\* The inductive invariant.  The count needs to know where connections are
\* held, and that nobody who is woken holds one; exclusiveness needs that the
\* name of a connection to be opened is free.
IInv ==
  /\ TypeOK /\ ConnectionsCounted /\ ConnectionsExclusive /\ WithinMaximum
  /\ HeldWhere /\ ActiveWaits /\ LeasedOut /\ OwnNameFree /\ ClosingMeansClosed

-----------------------------------------------------------------------------
Distinct(q) == \A i, j \in DOMAIN q : q[i] = q[j] => i = j

\* takeIdle pops the last element.
LEMMA LastTaken ==
  ASSUME NEW S, NEW q \in Seq(S), q # <<>>, Distinct(q)
  PROVE  /\ SubSeq(q, 1, Len(q) - 1) \in Seq(S)
         /\ Len(SubSeq(q, 1, Len(q) - 1)) = Len(q) - 1
         /\ q[Len(q)] \in range(q)
         /\ range(SubSeq(q, 1, Len(q) - 1)) = range(q) \ {q[Len(q)]}
         /\ Distinct(SubSeq(q, 1, Len(q) - 1))
<1> DEFINE r == SubSeq(q, 1, Len(q) - 1)
           x == q[Len(q)]
<1>1. Len(q) \in Nat /\ Len(q) > 0 /\ DOMAIN q = 1 .. Len(q)
  OBVIOUS
<1>2. r \in Seq(S) /\ Len(r) = Len(q) - 1
  BY <1>1
<1>3. \A i \in 1 .. Len(r) : r[i] = q[i]
  BY <1>1, <1>2
<1>4. DOMAIN r = 1 .. (Len(q) - 1)
  BY <1>2
<1> HIDE DEF r
<1>5. x \in range(q)
  BY <1>1 DEF range
<1>6. Distinct(r)
  BY <1>1, <1>2, <1>3, <1>4 DEF Distinct
<1>7. ASSUME NEW y \in range(r) PROVE y \in range(q) \ {x}
  <2>1. PICK i \in DOMAIN r : y = r[i]
    BY DEF range
  <2>2. i \in DOMAIN q /\ i # Len(q) /\ y = q[i]
    BY <1>1, <1>2, <1>3, <1>4, <2>1
  <2> QED
    BY <1>1, <2>2 DEF Distinct, range
<1>8. ASSUME NEW y \in range(q), y # x PROVE y \in range(r)
  <2>1. PICK i \in DOMAIN q : y = q[i]
    BY DEF range
  <2>2. i \in DOMAIN r /\ r[i] = q[i]
    BY <1>1, <1>2, <1>3, <1>4, <1>8, <2>1
  <2> QED
    BY <2>1, <2>2 DEF range
<1> QED
  BY <1>2, <1>5, <1>6, <1>7, <1>8 DEF r

\* close pops the first element.
LEMMA FirstTaken ==
  ASSUME NEW S, NEW q \in Seq(S), q # <<>>, Distinct(q)
  PROVE  /\ Tail(q) \in Seq(S) /\ Len(Tail(q)) = Len(q) - 1
         /\ Head(q) \in range(q) /\ range(Tail(q)) = range(q) \ {Head(q)}
         /\ Distinct(Tail(q))
<1> DEFINE r == Tail(q)
<1>1. Len(q) \in Nat /\ Len(q) > 0 /\ DOMAIN q = 1 .. Len(q) /\ Head(q) = q[1]
  OBVIOUS
<1>2. r \in Seq(S) /\ Len(r) = Len(q) - 1 /\ DOMAIN r = 1 .. (Len(q) - 1)
  BY <1>1
<1>3. \A i \in 1 .. (Len(q) - 1) : r[i] = q[i + 1]
  BY <1>1
<1> HIDE DEF r
<1>5. Head(q) \in range(q)
  BY <1>1 DEF range
<1>6. Distinct(r)
  <2> SUFFICES ASSUME NEW i \in DOMAIN r, NEW j \in DOMAIN r, r[i] = r[j] PROVE i = j
    BY DEF Distinct
  <2>1. i + 1 \in DOMAIN q /\ j + 1 \in DOMAIN q /\ q[i + 1] = q[j + 1]
    BY <1>1, <1>2, <1>3
  <2> QED
    BY <2>1, <1>1, <1>2 DEF Distinct
<1>7. ASSUME NEW y \in range(r) PROVE y \in range(q) \ {Head(q)}
  <2>1. PICK i \in DOMAIN r : y = r[i]
    BY DEF range
  <2>2. i + 1 \in DOMAIN q /\ i + 1 # 1 /\ y = q[i + 1]
    BY <1>1, <1>2, <1>3, <2>1
  <2> QED
    BY <1>1, <2>2 DEF Distinct, range
<1>8. ASSUME NEW y \in range(q), y # Head(q) PROVE y \in range(r)
  <2>1. PICK i \in DOMAIN q : y = q[i]
    BY DEF range
  <2>2. i - 1 \in DOMAIN r /\ r[i - 1] = q[i]
    BY <1>1, <1>2, <1>3, <1>8, <2>1
  <2> QED
    BY <2>1, <2>2 DEF range
<1> QED
  BY <1>2, <1>5, <1>6, <1>7, <1>8 DEF r

\* release appends a connection that is not there.
LEMMA Appended ==
  ASSUME NEW S, NEW q \in Seq(S), Distinct(q), NEW x \in S, x \notin range(q)
  PROVE  /\ Append(q, x) \in Seq(S) /\ Len(Append(q, x)) = Len(q) + 1
         /\ range(Append(q, x)) = range(q) \cup {x} /\ Distinct(Append(q, x))
<1> DEFINE r == Append(q, x)
<1>1. Len(q) \in Nat /\ DOMAIN q = 1 .. Len(q)
  OBVIOUS
<1>2. r \in Seq(S) /\ Len(r) = Len(q) + 1 /\ DOMAIN r = 1 .. (Len(q) + 1)
  BY <1>1
<1>3. r[Len(q) + 1] = x /\ \A i \in DOMAIN q : r[i] = q[i]
  BY <1>1
<1> HIDE DEF r
<1>4. \A i \in DOMAIN q : q[i] # x
  BY DEF range
<1>5. Distinct(r)
  BY <1>1, <1>2, <1>3, <1>4 DEF Distinct
<1>6. range(r) = range(q) \cup {x}
  BY <1>1, <1>2, <1>3 DEF range
<1> QED
  BY <1>2, <1>5, <1>6 DEF r

-----------------------------------------------------------------------------
\* Facts about the moves of pc that every action is made of.

\* p is `after`, but for waiters that were woken.
Follows(p, after) ==
  \A d \in Calls : p[d] = after[d] \/ (after[d] = "waiting" /\ p[d] \in {"retry", "thrown"})

LEMMA TakeWaiterEffect ==
  ASSUME TypeOK, ActiveWaits, NEW i \in DOMAIN pending, takeWaiter(i)
  PROVE  /\ pending[i] \in Calls /\ active[pending[i]] /\ pc[pending[i]] = "waiting"
         /\ pending' \in Seq(Calls) /\ active' \in [Calls -> BOOLEAN]
         /\ \A d \in Calls : active'[d] => active[d] /\ d # pending[i]
<1>1. i \in 1 .. Len(pending) /\ Len(pending) \in Nat /\ pending[i] \in Calls
  BY DEF TypeOK
<1>2. active[pending[i]] /\ pc[pending[i]] = "waiting"
  BY <1>1 DEF takeWaiter, ActiveAt, ActiveWaits
<1>3. pending' \in Seq(Calls)
  BY <1>1 DEF takeWaiter, TypeOK
<1>4. active' = [active EXCEPT ![pending[i]] = FALSE]
  BY DEF takeWaiter
<1>5. active' \in [Calls -> BOOLEAN] /\ \A d \in Calls : active'[d] => active[d] /\ d # pending[i]
  BY <1>1, <1>4 DEF TypeOK
<1> QED
  BY <1>1, <1>2, <1>3, <1>5

\* wakeForCapacity changes nothing but one waiter.
LEMMA WakeEffect ==
  ASSUME TypeOK, ActiveWaits, NEW after \in [Calls -> States],
         \A d \in Calls : active[d] => after[d] = "waiting",
         wakeForCapacity(after)
  PROVE  /\ pending' \in Seq(Calls) /\ active' \in [Calls -> BOOLEAN]
         /\ pc' \in [Calls -> States] /\ ActiveWaits' /\ Follows(pc', after)
<1>1. CASE pc' = after /\ UNCHANGED <<pending, active>>
  BY <1>1 DEF TypeOK, ActiveWaits, Follows
<1>2. CASE noWaiter /\ pc' = after
  <2>1. pending' = <<>> /\ active' = active
    BY <1>2 DEF noWaiter
  <2>2. pending' \in Seq(Calls)
    BY <2>1
  <2> QED
    BY <1>2, <2>1, <2>2 DEF TypeOK, ActiveWaits, Follows
<1>3. CASE \E i \in DOMAIN pending :
             takeWaiter(i) /\ pc' = [after EXCEPT ![pending[i]] = "retry"]
  <2>1. PICK i \in DOMAIN pending :
          takeWaiter(i) /\ pc' = [after EXCEPT ![pending[i]] = "retry"]
    BY <1>3, Zenon
  <2>2. /\ pending[i] \in Calls /\ active[pending[i]]
        /\ pending' \in Seq(Calls) /\ active' \in [Calls -> BOOLEAN]
        /\ \A d \in Calls : active'[d] => active[d] /\ d # pending[i]
    BY <2>1, TakeWaiterEffect
  <2>3. after[pending[i]] = "waiting"
    BY <2>2
  <2>4. pc' \in [Calls -> States] /\ Follows(pc', after)
    BY <2>1, <2>2, <2>3 DEF Follows, States
  <2>5. ActiveWaits'
    BY <2>1, <2>2 DEF ActiveWaits
  <2> QED
    BY <2>2, <2>4, <2>5
<1> QED
  BY <1>1, <1>2, <1>3 DEF wakeForCapacity

\* Being woken moves nobody in or out of these sets of states.
LEMMA FollowsRoles ==
  ASSUME NEW p, NEW after, Follows(p, after), NEW d \in Calls
  PROVE  /\ p[d] \in HoldingStates <=> after[d] \in HoldingStates
         /\ p[d] = "opening" <=> after[d] = "opening"
         /\ p[d] = "leased" <=> after[d] = "leased"
         /\ p[d] \in FreshStates => after[d] \in FreshStates
BY DEF Follows, HoldingStates, FreshStates

LEMMA OpeningMoves ==
  ASSUME TypeOK, NEW c \in Calls, NEW y \in States, Follows(pc', [pc EXCEPT ![c] = y])
  PROVE  Opening' = IF y = "opening" THEN Opening \cup {c} ELSE Opening \ {c}
<1> DEFINE after == [pc EXCEPT ![c] = y]
<1>1. \A d \in Calls : pc'[d] = "opening" <=> after[d] = "opening"
  BY FollowsRoles, Zenon
<1>2. after[c] = y /\ \A d \in Calls : d # c => after[d] = pc[d]
  BY DEF TypeOK
<1> QED
  BY <1>1, <1>2 DEF Opening

LEMMA HoldingMoves ==
  ASSUME TypeOK, NEW c \in Calls, NEW x, held' = [held EXCEPT ![c] = x]
  PROVE  Holding' = IF x # None THEN Holding \cup {c} ELSE Holding \ {c}
BY DEF Holding, TypeOK

LEMMA CardMoves ==
  ASSUME NEW S \in SUBSET Calls, NEW c \in Calls
  PROVE  /\ Cardinality(S) \in Nat
         /\ Cardinality(S \cup {c}) = Cardinality(S) + (IF c \in S THEN 0 ELSE 1)
         /\ Cardinality(S \ {c}) = Cardinality(S) - (IF c \in S THEN 1 ELSE 0)
<1>1. IsFiniteSet(S)
  BY FS_Subset, ConnectionPoolAssumption
<1>2. Cardinality(S) \in Nat
  BY <1>1, FS_CardinalityType
<1>3. Cardinality(S \cup {c}) = Cardinality(S) + (IF c \in S THEN 0 ELSE 1)
  BY <1>1, <1>2, FS_AddElement
<1>4. Cardinality(S \ {c}) = Cardinality(S) - (IF c \in S THEN 1 ELSE 0)
  <2>1. Cardinality(S \ {c}) = IF c \in S THEN Cardinality(S) - 1 ELSE Cardinality(S)
    BY <1>1, FS_RemoveElement
  <2> QED
    BY <1>2, <2>1
<1> QED
  BY <1>2, <1>3, <1>4

-----------------------------------------------------------------------------
\* One lemma per action: it preserves IInv.

LEMMA InitIInv == Init => IInv
<1> SUFFICES ASSUME Init PROVE IInv
  OBVIOUS
<1>1. /\ closed = FALSE /\ openConnections = 0 /\ idle = <<>> /\ pending = <<>>
      /\ active = [c \in Calls |-> FALSE] /\ pc = [c \in Calls |-> "idle"]
      /\ held = [c \in Calls |-> None] /\ lease = [c \in Calls |-> noLease]
      /\ cancelled = {} /\ closing = None
  BY DEF Init
<1>2. noLease \in Leases /\ noLease.released
  BY Zenon DEF noLease, newLease, Leases
<1>3. TypeOK
  <2>1. idle \in Seq(Calls) /\ pending \in Seq(Calls)
    BY <1>1
  <2>2. lease \in [Calls -> Leases]
    BY <1>1, <1>2
  <2>3. pc \in [Calls -> States] /\ held \in [Calls -> Calls \cup {None}]
    BY <1>1 DEF States
  <2>4. closed \in BOOLEAN /\ openConnections \in Nat /\ active \in [Calls -> BOOLEAN]
    BY <1>1, Zenon
  <2> QED
    BY <1>1, <2>1, <2>2, <2>3, <2>4 DEF TypeOK
<1>4. range(idle) = {} /\ Len(idle) = 0
  BY <1>1 DEF range
<1>5. Opening = {} /\ Holding = {}
  BY <1>1 DEF Opening, Holding
<1>6. ConnectionsCounted
  BY <1>1, <1>4, <1>5, FS_EmptySet DEF ConnectionsCounted
<1>7. ConnectionsExclusive
  BY <1>1, <1>4 DEF ConnectionsExclusive
<1>8. WithinMaximum
  BY <1>1, <1>4, ConnectionPoolAssumption DEF WithinMaximum
<1>9. HeldWhere /\ ActiveWaits /\ ClosingMeansClosed
  BY <1>1 DEF HeldWhere, ActiveWaits, ClosingMeansClosed, HoldingStates
<1>10. LeasedOut
  BY <1>1, <1>2 DEF LeasedOut
<1>11. OwnNameFree
  BY <1>1, <1>4, ConnectionPoolAssumption DEF OwnNameFree
<1> QED
  BY <1>3, <1>6, <1>7, <1>8, <1>9, <1>10, <1>11 DEF IInv

LeasedAfter(after) ==
  \A d \in Calls : ~(lease'[d]).released =>
     after[d] = "leased" /\ (lease'[d]).references >= 1

FreeAfter(after) ==
  \A d \in Calls : after[d] \in FreshStates =>
     d \notin range(idle') /\ closing' # d /\ \A e \in Calls : held'[e] # d

\* What a state needs for the connections in it, given how pc' came about.
LEMMA Places ==
  ASSUME TypeOK, TypeOK', NEW after, Follows(pc', after),
         \A d \in Calls : held'[d] # None <=> after[d] \in HoldingStates,
         LeasedAfter(after),
         FreeAfter(after)
  PROVE  HeldWhere' /\ LeasedOut' /\ OwnNameFree'
<1>1. HeldWhere'
  BY FollowsRoles DEF HeldWhere
<1>2. LeasedOut'
  BY FollowsRoles DEF LeasedOut, LeasedAfter
<1>3. OwnNameFree'
  <2> SUFFICES ASSUME NEW d \in Calls, pc'[d] \in FreshStates
               PROVE  d \notin range(idle') /\ closing' # d /\ \A e \in Calls : held'[e] # d
    BY DEF OwnNameFree, range
  <2>1. after[d] \in FreshStates
    BY FollowsRoles
  <2> QED
    BY <2>1 DEF FreeAfter
<1> QED
  BY <1>1, <1>2, <1>3

\* A call may go from state x to state y with no connection moving.
QuietMove(x, y) ==
  /\ x \in States /\ y \in States
  /\ x = "opening" <=> y = "opening"
  /\ y \in HoldingStates <=> x \in HoldingStates
  /\ y \in FreshStates => x \in FreshStates

\* A step that moves call c from one state to another and leaves every
\* connection where it is.
LEMMA QuietStep ==
  ASSUME IInv, NEW c \in Calls, NEW y \in States, QuietMove(pc[c], y),
         UNCHANGED <<closed, openConnections, idle, held, closing>>,
         pending' \in Seq(Calls), active' \in [Calls -> BOOLEAN],
         pc' \in [Calls -> States], ActiveWaits', Follows(pc', [pc EXCEPT ![c] = y]),
         lease' \in [Calls -> Leases], cancelled' \subseteq Calls,
         LeasedAfter([pc EXCEPT ![c] = y])
  PROVE  IInv'
<1> DEFINE after == [pc EXCEPT ![c] = y]
<1>1. TypeOK'
  BY DEF IInv, TypeOK
<1>2. after[c] = y /\ \A d \in Calls : d # c => after[d] = pc[d]
  BY DEF IInv, TypeOK
<1>3. HeldWhere' /\ LeasedOut' /\ OwnNameFree'
  <2>1. \A d \in Calls : held'[d] # None <=> after[d] \in HoldingStates
    BY <1>2 DEF IInv, HeldWhere, QuietMove
  <2>2. FreeAfter(after)
    BY <1>2 DEF IInv, OwnNameFree, QuietMove, FreeAfter
  <2> QED
    BY <1>1, <2>1, <2>2, Places, Zenon DEF IInv
<1>4. Opening' = Opening /\ Holding' = Holding
  <2>1. Opening' = IF y = "opening" THEN Opening \cup {c} ELSE Opening \ {c}
    BY OpeningMoves DEF IInv
  <2>2. c \in Opening <=> y = "opening"
    BY DEF Opening, QuietMove
  <2> QED
    BY <2>1, <2>2 DEF Holding
<1>5. ConnectionsCounted'
  BY <1>4 DEF IInv, ConnectionsCounted
<1>6. ConnectionsExclusive' /\ WithinMaximum' /\ ClosingMeansClosed'
  BY DEF IInv, ConnectionsExclusive, WithinMaximum, ClosingMeansClosed, range
<1> QED
  BY <1>1, <1>3, <1>5, <1>6 DEF IInv

LEMMA NewLease == newLease \in Leases /\ newLease.references = 1 /\ ~newLease.released
BY DEF newLease, Leases

LEMMA ResumeStep ==
  ASSUME IInv, NEW c \in Calls, resume(c)
  PROVE  IInv'
<1>1. UNCHANGED <<closed, openConnections, idle, pending, active, held, cancelled, closing>>
  BY DEF resume
<1>2. CASE pc[c] = "granted" /\ pc' = [pc EXCEPT ![c] = "leased"] /\ checkOut(c)
  <2>1. lease' = [lease EXCEPT ![c] = newLease]
    BY <1>2 DEF checkOut
  <2>2. lease' \in [Calls -> Leases] /\ pc' \in [Calls -> States] /\ ActiveWaits'
    BY <1>1, <1>2, <2>1, NewLease DEF IInv, TypeOK, ActiveWaits, States
  <2>3. LeasedAfter([pc EXCEPT ![c] = "leased"])
    BY <2>1, NewLease DEF IInv, TypeOK, LeasedOut, LeasedAfter
  <2>4. Follows(pc', [pc EXCEPT ![c] = "leased"])
    BY <1>2 DEF Follows
  <2>5. pending' \in Seq(Calls) /\ active' \in [Calls -> BOOLEAN] /\ cancelled' \subseteq Calls
    BY <1>1 DEF IInv, TypeOK
  <2>6. QuietMove(pc[c], "leased") /\ "leased" \in States
    BY <1>2 DEF QuietMove, HoldingStates, FreshStates, States
  <2> QED
    BY <1>1, <2>2, <2>3, <2>4, <2>5, <2>6, QuietStep
<1>3. CASE pc[c] = "thrown" /\ pc' = [pc EXCEPT ![c] = "done"] /\ UNCHANGED lease
  <2>1. lease' \in [Calls -> Leases] /\ pc' \in [Calls -> States] /\ ActiveWaits'
    BY <1>1, <1>3 DEF IInv, TypeOK, ActiveWaits, States
  <2>2. LeasedAfter([pc EXCEPT ![c] = "done"])
    BY <1>3 DEF IInv, TypeOK, LeasedOut, LeasedAfter
  <2>3. Follows(pc', [pc EXCEPT ![c] = "done"])
    BY <1>3 DEF Follows
  <2>4. pending' \in Seq(Calls) /\ active' \in [Calls -> BOOLEAN] /\ cancelled' \subseteq Calls
    BY <1>1 DEF IInv, TypeOK
  <2>5. QuietMove(pc[c], "done") /\ "done" \in States
    BY <1>3 DEF QuietMove, HoldingStates, FreshStates, States
  <2> QED
    BY <1>1, <2>1, <2>2, <2>3, <2>4, <2>5, QuietStep
<1> QED
  BY <1>2, <1>3 DEF resume

\* The callback of a token strikes the waiter of c, if it is active.
LEMMA StrikeStep ==
  ASSUME IInv, NEW c \in Calls, strike(c), cancelled' \subseteq Calls,
         UNCHANGED <<closed, openConnections, idle, pending, held, closing, lease>>
  PROVE  IInv'
<1> DEFINE y == IF active[c] THEN "thrown" ELSE pc[c]
<1>1. pc' = [pc EXCEPT ![c] = y] /\ active' = [active EXCEPT ![c] = FALSE]
  BY DEF strike
<1>2. QuietMove(pc[c], y) /\ y \in States
  <2>1. CASE active[c]
    BY <2>1 DEF IInv, ActiveWaits, QuietMove, HoldingStates, FreshStates, States
  <2>2. CASE ~active[c]
    BY <2>2 DEF IInv, TypeOK, QuietMove
  <2> QED
    BY <2>1, <2>2
<1>3. y = "leased" <=> pc[c] = "leased"
  BY DEF IInv, ActiveWaits
<1> HIDE DEF y
<1>4. pc' \in [Calls -> States] /\ active' \in [Calls -> BOOLEAN] /\ pending' \in Seq(Calls)
  BY <1>1, <1>2 DEF IInv, TypeOK
<1>5. ActiveWaits'
  BY <1>1 DEF IInv, TypeOK, ActiveWaits
<1>6. Follows(pc', [pc EXCEPT ![c] = y])
  BY <1>1 DEF Follows
<1>7. lease' \in [Calls -> Leases]
  BY DEF IInv, TypeOK
<1>8. LeasedAfter([pc EXCEPT ![c] = y])
  BY <1>3 DEF IInv, TypeOK, LeasedOut, LeasedAfter
<1> QED
  BY <1>2, <1>4, <1>5, <1>6, <1>7, <1>8, QuietStep

LEMMA CancelTokenStep ==
  ASSUME IInv, NEW c \in Calls, cancelToken(c)
  PROVE  IInv'
<1>1. cancelled' \subseteq Calls
  BY ConnectionPoolAssumption DEF cancelToken, IInv, TypeOK
<1> QED
  BY <1>1, StrikeStep DEF cancelToken

LEMMA TimeoutStep ==
  ASSUME IInv, NEW c \in Calls, timeout(c)
  PROVE  IInv'
<1>1. cancelled' \subseteq Calls
  BY DEF timeout, IInv, TypeOK
<1> QED
  BY <1>1, StrikeStep DEF timeout

-----------------------------------------------------------------------------
\* The name d is that of no connection.
FreeName(d) == d \notin range(idle) /\ closing # d /\ \A e \in Calls : held[e] # d

LEMMA IdleDistinct == ASSUME IInv PROVE Distinct(idle) /\ range(idle) \subseteq Calls /\ Len(idle) \in Nat
BY DEF IInv, TypeOK, ConnectionsExclusive, Distinct, range

\* The connection takeIdle pops goes to c.
LEMMA TakeIdleEffect ==
  ASSUME IInv, NEW c \in Calls, NEW state \in {"discarding", "pinging", "leased"},
         takeIdle(c, state), closing' = closing
  PROVE  /\ idle' \in Seq(Calls) /\ Len(idle) \in Nat /\ Len(idle) > 0
         /\ Len(idle') = Len(idle) - 1
         /\ held' \in [Calls -> Calls \cup {None}]
         /\ \E x \in Calls : held' = [held EXCEPT ![c] = x]
         /\ \A d \in Calls : FreeName(d) => FreeName(d)'
         /\ ConnectionsExclusive'
<1> DEFINE x == idle[Len(idle)]
<1>0. x = idle[Len(idle)]
  OBVIOUS
<1> HIDE DEF x
<1>1. /\ idle # <<>> /\ idle \in Seq(Calls) /\ Distinct(idle) /\ Len(idle) \in Nat
      /\ idle' = SubSeq(idle, 1, Len(idle) - 1) /\ held' = [held EXCEPT ![c] = x]
      /\ held \in [Calls -> Calls \cup {None}]
  BY <1>0, IdleDistinct DEF takeIdle, IInv, TypeOK
<1>2. /\ idle' \in Seq(Calls) /\ Len(idle') = Len(idle) - 1
      /\ x \in range(idle) /\ range(idle') = range(idle) \ {x} /\ Distinct(idle')
  <2> DEFINE r == SubSeq(idle, 1, Len(idle) - 1)
  <2>1. /\ r \in Seq(Calls) /\ Len(r) = Len(idle) - 1
        /\ x \in range(idle) /\ range(r) = range(idle) \ {x} /\ Distinct(r)
    BY <1>1, LastTaken DEF x
  <2>2. idle' = r
    BY <1>1
  <2> HIDE DEF r
  <2> QED
    BY <2>1, <2>2
<1>3. Len(idle) > 0
  BY <1>1
<1>4. x \in Calls /\ x # None
  BY <1>2, IdleDistinct, ConnectionPoolAssumption
<1>5. held'[c] = x /\ \A d \in Calls : d # c => held'[d] = held[d]
  BY <1>1
<1>6. /\ \A d \in Calls : held[d] # x
      /\ closing # x
  BY <1>2 DEF IInv, ConnectionsExclusive
<1>7. \A d \in Calls : FreeName(d) => FreeName(d)'
  BY <1>2, <1>5, Zenon DEF FreeName, range
<1>8. ConnectionsExclusive'
  <2>1. \A b, d \in Calls : held'[b] # None /\ held'[b] = held'[d] => b = d
    BY <1>5, <1>6 DEF IInv, ConnectionsExclusive
  <2>2. \A b \in Calls : held'[b] \notin range(idle') /\ (held'[b] # None => held'[b] # closing')
    BY <1>2, <1>5, <1>6 DEF IInv, ConnectionsExclusive
  <2>3. \A i, j \in DOMAIN idle' : idle'[i] = idle'[j] => i = j
    BY <1>2 DEF Distinct
  <2>4. closing' \notin range(idle')
    BY <1>2 DEF IInv, ConnectionsExclusive
  <2> QED
    BY <2>1, <2>2, <2>3, <2>4 DEF ConnectionsExclusive, range
<1>9. held' \in [Calls -> Calls \cup {None}]
  BY <1>1, <1>4
<1> QED
  BY <1>1, <1>2, <1>3, <1>4, <1>7, <1>8, <1>9, Zenon

\* A call that holds nothing, or whose connection has just been discarded,
\* takes an idle connection.
LEMMA TakeIdleStep ==
  ASSUME IInv, NEW c \in Calls, NEW state \in {"discarding", "pinging", "leased"},
         takeIdle(c, state), UNCHANGED <<closed, closing, cancelled>>,
         pc[c] \in {"idle", "retry", "discarding"},
         openConnections' = openConnections - (IF pc[c] = "discarding" THEN 1 ELSE 0),
         pending' \in Seq(Calls), active' \in [Calls -> BOOLEAN],
         pc' \in [Calls -> States], ActiveWaits', Follows(pc', [pc EXCEPT ![c] = state])
  PROVE  IInv'
<1> DEFINE after == [pc EXCEPT ![c] = state]
<1>1. /\ idle' \in Seq(Calls) /\ Len(idle) \in Nat /\ Len(idle) > 0
      /\ Len(idle') = Len(idle) - 1
      /\ held' \in [Calls -> Calls \cup {None}]
      /\ \E x \in Calls : held' = [held EXCEPT ![c] = x]
      /\ \A d \in Calls : FreeName(d) => FreeName(d)'
      /\ ConnectionsExclusive'
  BY TakeIdleEffect
<1>2. PICK x \in Calls : held' = [held EXCEPT ![c] = x]
  BY <1>1, Zenon
<1>3. x # None
  BY ConnectionPoolAssumption
<1>4. after[c] = state /\ \A d \in Calls : d # c => after[d] = pc[d]
  BY DEF IInv, TypeOK
<1>5. /\ lease' \in [Calls -> Leases]
      /\ LeasedAfter(after)
  <2>1. lease[c].released
    BY DEF IInv, LeasedOut
  <2>2. CASE state = "leased" /\ lease' = [lease EXCEPT ![c] = newLease]
    BY <1>4, <2>2, NewLease DEF IInv, TypeOK, LeasedOut, LeasedAfter
  <2>3. CASE UNCHANGED lease
    BY <1>4, <2>1, <2>3 DEF IInv, TypeOK, LeasedOut, LeasedAfter
  <2> QED
    BY <2>2, <2>3 DEF takeIdle, checkOut
<1>6. Opening' = Opening
  <2>1. Opening' = Opening \ {c}
    BY OpeningMoves, Zenon DEF IInv, States
  <2>2. c \notin Opening
    BY DEF Opening
  <2> QED
    BY <2>1, <2>2
<1>7. Holding' = Holding \cup {c} /\ (c \in Holding <=> pc[c] = "discarding")
  <2>1. Holding' = Holding \cup {c}
    BY <1>2, <1>3, HoldingMoves, Zenon DEF IInv
  <2>2. c \in Holding <=> pc[c] = "discarding"
    BY DEF Holding, IInv, HeldWhere, HoldingStates
  <2> QED
    BY <2>1, <2>2
<1>8. /\ Cardinality(Opening) \in Nat /\ Cardinality(Holding) \in Nat
      /\ Cardinality(Holding') = Cardinality(Holding) + (IF pc[c] = "discarding" THEN 0 ELSE 1)
      /\ (pc[c] = "discarding" => Cardinality(Holding) > 0)
  <2>1. Opening \in SUBSET Calls /\ Holding \in SUBSET Calls
    BY DEF Opening, Holding
  <2>2. Cardinality(Opening) \in Nat /\ Cardinality(Holding) \in Nat /\ Cardinality(Holding \ {c}) \in Nat
    BY <2>1, CardMoves, Zenon
  <2> QED
    BY <1>7, <2>1, <2>2, CardMoves
<1>9. ConnectionsCounted' /\ openConnections' \in Nat /\ openConnections' <= openConnections
  <2> DEFINE o == Cardinality(Opening)
             h == Cardinality(Holding)
             z == IF closing = None THEN 0 ELSE 1
  <2>1. openConnections = o + h + Len(idle) + z
    BY DEF IInv, ConnectionsCounted
  <2>2. openConnections \in Nat
    BY DEF IInv, TypeOK
  <2>3. z \in Nat
    OBVIOUS
  <2>4. o \in Nat /\ h \in Nat /\ Cardinality(Opening') = o
        /\ Cardinality(Holding') = h + (IF pc[c] = "discarding" THEN 0 ELSE 1)
        /\ (pc[c] = "discarding" => h > 0)
    BY <1>6, <1>8
  <2>5. (Cardinality(Opening))' = Cardinality(Opening') /\ (Cardinality(Holding))' = Cardinality(Holding')
        /\ (IF closing' = None THEN 0 ELSE 1) = z
    OBVIOUS
  <2> HIDE DEF o, h, z
  <2>6. openConnections' = Cardinality(Opening') + Cardinality(Holding') + Len(idle') + z
    BY <1>1, <2>1, <2>2, <2>3, <2>4
  <2>7. ConnectionsCounted'
    BY <2>5, <2>6 DEF ConnectionsCounted
  <2> QED
    BY <1>1, <2>1, <2>2, <2>3, <2>4, <2>7
<1>10. TypeOK'
  BY <1>1, <1>5, <1>9, Zenon DEF IInv, TypeOK
<1>11. HeldWhere' /\ LeasedOut' /\ OwnNameFree'
  <2>1. \A d \in Calls : held'[d] # None <=> after[d] \in HoldingStates
    BY <1>2, <1>3, <1>4 DEF IInv, TypeOK, HeldWhere, HoldingStates
  <2>2. \A d \in Calls : after[d] \in FreshStates => pc[d] \in FreshStates
    BY <1>4 DEF FreshStates
  <2>3. FreeAfter(after)
    BY <1>1, <2>2 DEF IInv, OwnNameFree, FreeName, FreeAfter
  <2> QED
    BY <1>5, <1>10, <2>1, <2>3, Places, Zenon DEF IInv
<1>12. WithinMaximum'
  BY <1>1, <1>9, ConnectionPoolAssumption DEF IInv, TypeOK, WithinMaximum
<1>13. ClosingMeansClosed'
  BY DEF IInv, ClosingMeansClosed
<1> QED
  BY <1>1, <1>9, <1>10, <1>11, <1>12, <1>13 DEF IInv

-----------------------------------------------------------------------------
One(b) == IF b THEN 1 ELSE 0

\* `openConnections` changes as it must when c moves to y with x in its hands.
CountsMove(c, y, x) ==
  openConnections' = openConnections + (One(y = "opening") - One(pc[c] = "opening"))
                      + (One(x # None) - One(held[c] # None)) + (Len(idle') - Len(idle))

\* A step of call c that moves c to state y with x in its hands and changes
\* `openConnections` by what that takes.
LEMMA MoveStep ==
  ASSUME IInv, NEW c \in Calls, NEW y \in States, NEW x \in Calls \cup {None},
         held' = [held EXCEPT ![c] = x], x # None <=> y \in HoldingStates,
         UNCHANGED <<closed, closing, cancelled>>, idle' \in Seq(Calls),
         pending' \in Seq(Calls), active' \in [Calls -> BOOLEAN],
         pc' \in [Calls -> States], ActiveWaits', Follows(pc', [pc EXCEPT ![c] = y]),
         lease' \in [Calls -> Leases],
         LeasedAfter([pc EXCEPT ![c] = y]),
         CountsMove(c, y, x),
         WithinMaximum', ConnectionsExclusive',
         FreeAfter([pc EXCEPT ![c] = y])
  PROVE  IInv'
<1> DEFINE after == [pc EXCEPT ![c] = y]
<1>1. after[c] = y /\ \A d \in Calls : d # c => after[d] = pc[d]
  BY DEF IInv, TypeOK
<1>2. Cardinality(Opening) \in Nat
      /\ Cardinality(Opening') = Cardinality(Opening) + (One(y = "opening") - One(pc[c] = "opening"))
      /\ Cardinality(Opening') \in Nat
  <2>1. Opening' = IF y = "opening" THEN Opening \cup {c} ELSE Opening \ {c}
    BY OpeningMoves DEF IInv
  <2>2. Opening \in SUBSET Calls /\ Opening' \in SUBSET Calls /\ (c \in Opening <=> pc[c] = "opening")
    BY DEF Opening
  <2>3. Cardinality(Opening) \in Nat /\ Cardinality(Opening') \in Nat
    BY <2>2, CardMoves, Zenon
  <2>4. Cardinality(Opening \cup {c}) = Cardinality(Opening) + (IF c \in Opening THEN 0 ELSE 1)
        /\ Cardinality(Opening \ {c}) = Cardinality(Opening) - (IF c \in Opening THEN 1 ELSE 0)
    BY <2>2, CardMoves, Zenon
  <2> QED
    BY <2>1, <2>2, <2>3, <2>4 DEF One
<1>3. Cardinality(Holding) \in Nat
      /\ Cardinality(Holding') = Cardinality(Holding) + (One(x # None) - One(held[c] # None))
      /\ Cardinality(Holding') \in Nat
  <2>0. held'[c] = x /\ \A d \in Calls : d # c => held'[d] = held[d]
    BY DEF IInv, TypeOK
  <2>1. Holding' = IF x # None THEN Holding \cup {c} ELSE Holding \ {c}
    BY <2>0 DEF Holding
  <2>2. Holding \in SUBSET Calls /\ Holding' \in SUBSET Calls /\ (c \in Holding <=> held[c] # None)
    BY DEF Holding
  <2>3. Cardinality(Holding) \in Nat /\ Cardinality(Holding') \in Nat
    BY <2>2, CardMoves, Zenon
  <2>4. Cardinality(Holding \cup {c}) = Cardinality(Holding) + (IF c \in Holding THEN 0 ELSE 1)
        /\ Cardinality(Holding \ {c}) = Cardinality(Holding) - (IF c \in Holding THEN 1 ELSE 0)
    BY <2>2, CardMoves, Zenon
  <2> QED
    BY <2>1, <2>2, <2>3, <2>4 DEF One
<1>4. ConnectionsCounted' /\ openConnections' \in Nat
  <2> DEFINE o == Cardinality(Opening)
             h == Cardinality(Holding)
             z == IF closing = None THEN 0 ELSE 1
             do == One(y = "opening") - One(pc[c] = "opening")
             dh == One(x # None) - One(held[c] # None)
  <2>1. openConnections = o + h + Len(idle) + z
    BY DEF IInv, ConnectionsCounted
  <2>2. z \in Nat /\ do \in Int /\ dh \in Int
    BY DEF One
  <2>3. Len(idle) \in Nat /\ Len(idle') \in Nat
    BY DEF IInv, TypeOK
  <2>4. openConnections' = openConnections + do + dh + (Len(idle') - Len(idle))
    BY DEF CountsMove
  <2>5. /\ o \in Nat /\ Cardinality(Opening') = o + do /\ Cardinality(Opening') \in Nat
        /\ h \in Nat /\ Cardinality(Holding') = h + dh /\ Cardinality(Holding') \in Nat
    BY <1>2, <1>3
  <2>6. (Cardinality(Opening))' = Cardinality(Opening') /\ (Cardinality(Holding))' = Cardinality(Holding')
        /\ (IF closing' = None THEN 0 ELSE 1) = z
    OBVIOUS
  <2> HIDE DEF o, h, z, do, dh
  <2>7. openConnections' = Cardinality(Opening') + Cardinality(Holding') + Len(idle') + z
    BY <2>1, <2>2, <2>3, <2>4, <2>5
  <2>8. openConnections' \in Nat
    BY <2>2, <2>3, <2>5, <2>7
  <2> QED
    BY <2>6, <2>7, <2>8 DEF ConnectionsCounted
<1>5. held' \in [Calls -> Calls \cup {None}]
  BY DEF IInv, TypeOK
<1>6. TypeOK'
  BY <1>4, <1>5 DEF IInv, TypeOK
<1>7. HeldWhere' /\ LeasedOut' /\ OwnNameFree'
  <2>1. \A d \in Calls : held'[d] # None <=> after[d] \in HoldingStates
    BY <1>1 DEF IInv, TypeOK, HeldWhere
  <2> QED
    BY <1>6, <2>1, Places, Zenon DEF IInv
<1>8. ClosingMeansClosed'
  BY DEF IInv, ClosingMeansClosed
<1> QED
  BY <1>4, <1>6, <1>7, <1>8 DEF IInv

\* A new lease, or none, for a call that had none.
LEMMA LeaseKept ==
  ASSUME IInv, NEW c \in Calls, NEW y \in States, pc[c] # "leased",
         \/ y = "leased" /\ checkOut(c)
         \/ UNCHANGED lease
  PROVE  /\ lease' \in [Calls -> Leases]
         /\ LeasedAfter([pc EXCEPT ![c] = y])
<1> DEFINE after == [pc EXCEPT ![c] = y]
<1>1. after[c] = y /\ \A d \in Calls : d # c => after[d] = pc[d]
  BY DEF IInv, TypeOK
<1>2. lease[c].released
  BY DEF IInv, LeasedOut
<1>3. CASE y = "leased" /\ lease' = [lease EXCEPT ![c] = newLease]
  BY <1>1, <1>3, NewLease DEF IInv, TypeOK, LeasedOut, LeasedAfter
<1>4. CASE UNCHANGED lease
  BY <1>1, <1>2, <1>4 DEF IInv, TypeOK, LeasedOut, LeasedAfter
<1> QED
  BY <1>3, <1>4 DEF checkOut

\* The names that stay free when c moves to y, which is no fresher than before,
\* and puts down what it held.
LEMMA NamesStayFree ==
  ASSUME IInv, NEW c \in Calls, NEW y \in States, y \in FreshStates => pc[c] \in FreshStates,
         UNCHANGED <<idle, closing>>,
         held' = [held EXCEPT ![c] = None] \/ UNCHANGED held
  PROVE  /\ FreeAfter([pc EXCEPT ![c] = y])
         /\ ConnectionsExclusive'
<1> DEFINE after == [pc EXCEPT ![c] = y]
<1>1. after[c] = y /\ \A d \in Calls : d # c => after[d] = pc[d]
  BY DEF IInv, TypeOK
<1>2. \A e \in Calls : held'[e] = held[e] \/ (e = c /\ held'[e] = None)
  BY DEF IInv, TypeOK
<1>3. \A d \in Calls : None # d
  BY ConnectionPoolAssumption
<1>4. FreeAfter(after)
  <2>1. \A d \in Calls : after[d] \in FreshStates => pc[d] \in FreshStates
    BY <1>1
  <2> QED
    BY <1>2, <1>3, <2>1 DEF IInv, OwnNameFree, FreeAfter
<1>5. ConnectionsExclusive'
  <2>1. \A b, d \in Calls : held'[b] # None /\ held'[b] = held'[d] => b = d
    BY <1>2 DEF IInv, ConnectionsExclusive
  <2>2. None \notin range(idle)
    BY <1>3, IdleDistinct
  <2>3. \A b \in Calls : held'[b] \notin range(idle') /\ (held'[b] # None => held'[b] # closing')
    BY <1>2, <2>2 DEF IInv, ConnectionsExclusive
  <2> QED
    BY <2>1, <2>3 DEF IInv, ConnectionsExclusive, range
<1> QED
  BY <1>4, <1>5

LEMMA AcquireStep ==
  ASSUME IInv, NEW c \in Calls, acquire(c)
  PROVE  IInv'
<1>1. pc[c] \in {"idle", "retry"} /\ UNCHANGED <<closed, cancelled, closing>> /\ held[c] = None
  BY DEF acquire, IInv, HeldWhere, HoldingStates
<1>2. cancelled' \subseteq Calls /\ pc[c] # "leased"
  BY <1>1 DEF IInv, TypeOK
<1>3. CASE /\ pc' = [pc EXCEPT ![c] = "done"]
           /\ UNCHANGED <<openConnections, idle, pending, active, held, lease>>
  <2>1. pc' \in [Calls -> States] /\ ActiveWaits' /\ "done" \in States
    BY <1>1, <1>3 DEF IInv, TypeOK, ActiveWaits, States
  <2>2. Follows(pc', [pc EXCEPT ![c] = "done"])
    BY <1>3 DEF Follows
  <2>3. pending' \in Seq(Calls) /\ active' \in [Calls -> BOOLEAN]
    BY <1>3 DEF IInv, TypeOK
  <2>4. QuietMove(pc[c], "done")
    BY <1>1 DEF QuietMove, HoldingStates, FreshStates, States
  <2>5. /\ lease' \in [Calls -> Leases]
        /\ LeasedAfter([pc EXCEPT ![c] = "done"])
    BY <1>2, <1>3, <2>1, LeaseKept, Zenon
  <2> QED
    BY <1>1, <1>2, <1>3, <2>1, <2>2, <2>3, <2>4, <2>5, QuietStep, Zenon
<1>4. CASE /\ \E state \in {"discarding", "pinging", "leased"} :
                takeIdle(c, state) /\ pc' = [pc EXCEPT ![c] = state]
           /\ UNCHANGED <<openConnections, pending, active>>
  <2>1. PICK state \in {"discarding", "pinging", "leased"} :
               takeIdle(c, state) /\ pc' = [pc EXCEPT ![c] = state]
    BY <1>4, Zenon
  <2>2. pc' \in [Calls -> States] /\ ActiveWaits' /\ Follows(pc', [pc EXCEPT ![c] = state])
    BY <1>1, <1>4, <2>1 DEF IInv, TypeOK, ActiveWaits, States, Follows
  <2>3. pending' \in Seq(Calls) /\ active' \in [Calls -> BOOLEAN]
    BY <1>4 DEF IInv, TypeOK
  <2>4. openConnections' = openConnections - (IF pc[c] = "discarding" THEN 1 ELSE 0)
    BY <1>1, <1>4 DEF IInv, TypeOK
  <2> QED
    BY <1>1, <2>1, <2>2, <2>3, <2>4, TakeIdleStep, Zenon
<1>5. CASE /\ idle = <<>>
           /\ openConnections < maximumConnections
           /\ openConnections' = openConnections + 1
           /\ pc' = [pc EXCEPT ![c] = "opening"]
           /\ UNCHANGED <<idle, pending, active, held, lease>>
  <2>1. pc' \in [Calls -> States] /\ ActiveWaits' /\ "opening" \in States
    BY <1>1, <1>5 DEF IInv, TypeOK, ActiveWaits, States
  <2>2. Follows(pc', [pc EXCEPT ![c] = "opening"])
    BY <1>5 DEF Follows
  <2>3. pending' \in Seq(Calls) /\ active' \in [Calls -> BOOLEAN] /\ idle' \in Seq(Calls)
    BY <1>5 DEF IInv, TypeOK
  <2>4. /\ lease' \in [Calls -> Leases]
        /\ LeasedAfter([pc EXCEPT ![c] = "opening"])
    BY <1>2, <1>5, <2>1, LeaseKept, Zenon
  <2>5. held' = [held EXCEPT ![c] = None] /\ ("opening" \in HoldingStates <=> None # None)
    BY <1>1, <1>5 DEF IInv, TypeOK, HoldingStates
  <2>6. /\ FreeAfter([pc EXCEPT ![c] = "opening"])
        /\ ConnectionsExclusive'
    <3>1. pc[c] \in FreshStates
      BY <1>1 DEF FreshStates
    <3> QED
      BY <1>1, <1>5, <2>1, <3>1, NamesStayFree, Zenon
  <2>7. WithinMaximum'
    BY <1>5, ConnectionPoolAssumption DEF IInv, TypeOK, WithinMaximum
  <2>8. CountsMove(c, "opening", None)
    BY <1>1, <1>5, <2>3 DEF One, IInv, TypeOK, CountsMove
  <2> QED
    BY <1>1, <2>1, <2>2, <2>3, <2>4, <2>5, <2>6, <2>7, <2>8, MoveStep, Zenon
<1>6. CASE /\ pending' = Append(pending, c)
           /\ active' = [active EXCEPT ![c] = TRUE]
           /\ pc' = [pc EXCEPT ![c] = "waiting"]
           /\ UNCHANGED <<openConnections, idle, held, lease>>
  <2>1. pc' \in [Calls -> States] /\ ActiveWaits' /\ "waiting" \in States
    BY <1>1, <1>6 DEF IInv, TypeOK, ActiveWaits, States
  <2>2. Follows(pc', [pc EXCEPT ![c] = "waiting"])
    BY <1>6 DEF Follows
  <2>3. pending' \in Seq(Calls) /\ active' \in [Calls -> BOOLEAN]
    BY <1>6 DEF IInv, TypeOK
  <2>4. QuietMove(pc[c], "waiting")
    BY <1>1 DEF QuietMove, HoldingStates, FreshStates, States
  <2>5. /\ lease' \in [Calls -> Leases]
        /\ LeasedAfter([pc EXCEPT ![c] = "waiting"])
    BY <1>2, <1>6, <2>1, LeaseKept, Zenon
  <2> QED
    BY <1>1, <1>2, <1>6, <2>1, <2>2, <2>3, <2>4, <2>5, QuietStep, Zenon
<1> QED
  BY <1>3, <1>4, <1>5, <1>6 DEF acquire

\* Call c moves, and a waiter may be woken for the room.
LEMMA Moves ==
  ASSUME IInv, NEW c \in Calls, NEW y \in States, pc[c] # "waiting",
         \/ wakeForCapacity([pc EXCEPT ![c] = y])
         \/ pc' = [pc EXCEPT ![c] = y] /\ UNCHANGED <<pending, active>>
  PROVE  /\ pending' \in Seq(Calls) /\ active' \in [Calls -> BOOLEAN]
         /\ pc' \in [Calls -> States] /\ ActiveWaits' /\ Follows(pc', [pc EXCEPT ![c] = y])
<1> DEFINE after == [pc EXCEPT ![c] = y]
<1>1. after \in [Calls -> States] /\ \A d \in Calls : active[d] => after[d] = "waiting"
  BY DEF IInv, TypeOK, ActiveWaits
<1>2. CASE wakeForCapacity(after)
  <2>1. TypeOK /\ ActiveWaits
    BY DEF IInv
  <2> HIDE DEF after
  <2>2. /\ pending' \in Seq(Calls) /\ active' \in [Calls -> BOOLEAN]
        /\ pc' \in [Calls -> States] /\ ActiveWaits' /\ Follows(pc', after)
    BY <1>1, <1>2, <2>1, WakeEffect
  <2> QED
    BY <2>2 DEF after
<1>3. CASE pc' = after /\ UNCHANGED <<pending, active>>
  BY <1>1, <1>3 DEF IInv, TypeOK, ActiveWaits, Follows
<1> QED
  BY <1>2, <1>3

\* A connection goes: the connector failed, or the connection was closed.
LEMMA GoneStep ==
  ASSUME IInv, NEW c \in Calls, pc[c] \in {"opening", "rejecting", "returning"},
         openConnections' = openConnections - 1, held' = [held EXCEPT ![c] = None],
         \/ wakeForCapacity([pc EXCEPT ![c] = "done"])
         \/ pc' = [pc EXCEPT ![c] = "done"] /\ UNCHANGED <<pending, active>>,
         UNCHANGED <<closed, idle, lease, cancelled, closing>>
  PROVE  IInv'
<1>1. "done" \in States /\ pc[c] # "waiting" /\ pc[c] # "leased"
  BY DEF States
<1>2. /\ pending' \in Seq(Calls) /\ active' \in [Calls -> BOOLEAN]
      /\ pc' \in [Calls -> States] /\ ActiveWaits' /\ Follows(pc', [pc EXCEPT ![c] = "done"])
  BY <1>1, Moves
<1>3. /\ lease' \in [Calls -> Leases]
      /\ LeasedAfter([pc EXCEPT ![c] = "done"])
  BY <1>1, LeaseKept
<1>4. /\ FreeAfter([pc EXCEPT ![c] = "done"])
      /\ ConnectionsExclusive'
  <2>1. ~("done" \in FreshStates)
    BY DEF FreshStates
  <2> QED
    BY <1>1, <2>1, NamesStayFree, Zenon
<1>5. WithinMaximum'
  BY ConnectionPoolAssumption DEF IInv, TypeOK, WithinMaximum
<1>6. held[c] # None <=> pc[c] # "opening"
  BY DEF IInv, HeldWhere, HoldingStates
<1>7. idle' \in Seq(Calls) /\ openConnections \in Nat /\ Len(idle) \in Nat /\ Len(idle') = Len(idle)
  BY DEF IInv, TypeOK
<1>8. CountsMove(c, "done", None)
  BY <1>6, <1>7 DEF One, CountsMove
<1>9. None # None <=> "done" \in HoldingStates
  BY DEF HoldingStates
<1> QED
  BY <1>1, <1>2, <1>3, <1>4, <1>5, <1>7, <1>8, <1>9, MoveStep, Zenon

LEMMA ReturnedStep ==
  ASSUME IInv, NEW c \in Calls, returned(c)
  PROVE  IInv'
BY GoneStep, Zenon DEF returned

LEMMA OpenedStep ==
  ASSUME IInv, NEW c \in Calls, opened(c)
  PROVE  IInv'
<1>1. pc[c] = "opening" /\ UNCHANGED <<closed, idle, cancelled, closing>> /\ held[c] = None
  BY DEF opened, IInv, HeldWhere, HoldingStates
<1>2. CASE /\ openConnections' = openConnections - 1
           /\ wakeForCapacity([pc EXCEPT ![c] = "done"])
           /\ UNCHANGED <<held, lease>>
  <2>1. held' = [held EXCEPT ![c] = None]
    BY <1>1, <1>2 DEF IInv, TypeOK
  <2> QED
    BY <1>1, <1>2, <2>1, GoneStep, Zenon
<1>3. CASE /\ held' = [held EXCEPT ![c] = c]
           /\ pc' = [pc EXCEPT ![c] = IF closed THEN "rejecting" ELSE "leased"]
           /\ IF closed THEN UNCHANGED lease ELSE checkOut(c)
           /\ UNCHANGED <<openConnections, pending, active>>
  <2> DEFINE y == IF closed THEN "rejecting" ELSE "leased"
  <2>1. /\ y \in States /\ y \in HoldingStates /\ ~(y \in FreshStates) /\ y # "opening"
        /\ pc' = [pc EXCEPT ![c] = y]
        /\ (y = "leased" /\ checkOut(c)) \/ UNCHANGED lease
    BY <1>3 DEF States, HoldingStates, FreshStates
  <2> HIDE DEF y
  <2>2. pc[c] # "waiting" /\ pc[c] # "leased" /\ c # None
    BY <1>1, ConnectionPoolAssumption
  <2>3. /\ pending' \in Seq(Calls) /\ active' \in [Calls -> BOOLEAN]
        /\ pc' \in [Calls -> States] /\ ActiveWaits' /\ Follows(pc', [pc EXCEPT ![c] = y])
    BY <1>3, <2>1, <2>2, Moves, Zenon
  <2>4. /\ lease' \in [Calls -> Leases]
        /\ LeasedAfter([pc EXCEPT ![c] = y])
    BY <2>1, <2>2, LeaseKept, Zenon
  <2>5. FreeName(c)
    BY <1>1 DEF IInv, OwnNameFree, FreshStates, FreeName
  <2>6. held'[c] = c /\ \A d \in Calls : d # c => held'[d] = held[d]
    BY <1>3 DEF IInv, TypeOK
  <2>7. FreeAfter([pc EXCEPT ![c] = y])
    <3>1. ASSUME NEW d \in Calls, ([pc EXCEPT ![c] = y])[d] \in FreshStates
          PROVE  d \notin range(idle') /\ closing' # d /\ \A e \in Calls : held'[e] # d
      <4>1. d # c /\ pc[d] \in FreshStates
        BY <2>1, <3>1 DEF IInv, TypeOK
      <4> QED
        BY <1>1, <2>6, <4>1 DEF IInv, OwnNameFree
    <3> QED
      BY <3>1 DEF FreeAfter
  <2>8. ConnectionsExclusive'
    <3>1. \A b, d \in Calls : held'[b] # None /\ held'[b] = held'[d] => b = d
      BY <2>5, <2>6 DEF IInv, ConnectionsExclusive, FreeName
    <3>2. \A b \in Calls : held'[b] \notin range(idle') /\ (held'[b] # None => held'[b] # closing')
      BY <1>1, <2>5, <2>6 DEF IInv, ConnectionsExclusive, FreeName
    <3> QED
      BY <1>1, <3>1, <3>2 DEF IInv, ConnectionsExclusive, range
  <2>9. WithinMaximum' /\ idle' \in Seq(Calls)
    BY <1>1, <1>3 DEF IInv, TypeOK, WithinMaximum
  <2>10. CountsMove(c, y, c)
    <3>1. openConnections \in Nat /\ Len(idle) \in Nat /\ Len(idle') = Len(idle)
      BY <1>1 DEF IInv, TypeOK
    <3> QED
      BY <1>1, <1>3, <2>1, <2>2, <3>1 DEF One, CountsMove
  <2>11. c \in Calls \cup {None} /\ (c # None <=> y \in HoldingStates)
    BY <2>1, <2>2
  <2> QED
    BY <1>1, <1>3, <2>1, <2>3, <2>4, <2>7, <2>8, <2>9, <2>10, <2>11, MoveStep, Zenon
<1> QED
  BY <1>2, <1>3 DEF opened

LEMMA DiscardedStep ==
  ASSUME IInv, NEW c \in Calls, discarded(c)
  PROVE  IInv'
<1>1. pc[c] = "discarding" /\ UNCHANGED <<closed, cancelled, closing>> /\ held[c] # None
  BY DEF discarded, IInv, HeldWhere, HoldingStates
<1>2. pc[c] # "waiting" /\ pc[c] # "leased"
  BY <1>1
<1>3. CASE \E state \in {"discarding", "pinging", "leased"} :
             /\ takeIdle(c, state)
             /\ openConnections' = openConnections - 1
             /\ wakeForCapacity([pc EXCEPT ![c] = state])
  <2>1. PICK state \in {"discarding", "pinging", "leased"} :
             /\ takeIdle(c, state)
             /\ openConnections' = openConnections - 1
             /\ wakeForCapacity([pc EXCEPT ![c] = state])
    BY <1>3, Zenon
  <2>2. state \in States
    BY DEF States
  <2>3. /\ pending' \in Seq(Calls) /\ active' \in [Calls -> BOOLEAN]
        /\ pc' \in [Calls -> States] /\ ActiveWaits' /\ Follows(pc', [pc EXCEPT ![c] = state])
    BY <1>2, <2>1, <2>2, Moves
  <2>4. openConnections' = openConnections - (IF pc[c] = "discarding" THEN 1 ELSE 0)
    BY <1>1, <2>1
  <2> QED
    BY <1>1, <2>1, <2>3, <2>4, TakeIdleStep, Zenon
<1>4. CASE /\ held' = [held EXCEPT ![c] = None]
           /\ wakeForCapacity([pc EXCEPT ![c] = "opening"])
           /\ UNCHANGED <<openConnections, idle, lease>>
  <2>1. "opening" \in States /\ pc[c] \in FreshStates
    BY <1>1 DEF States, FreshStates
  <2>2. /\ pending' \in Seq(Calls) /\ active' \in [Calls -> BOOLEAN]
        /\ pc' \in [Calls -> States] /\ ActiveWaits' /\ Follows(pc', [pc EXCEPT ![c] = "opening"])
    BY <1>2, <1>4, <2>1, Moves
  <2>3. /\ lease' \in [Calls -> Leases]
        /\ LeasedAfter([pc EXCEPT ![c] = "opening"])
    BY <1>2, <1>4, <2>1, LeaseKept
  <2>4. /\ FreeAfter([pc EXCEPT ![c] = "opening"])
        /\ ConnectionsExclusive'
    BY <1>1, <1>4, <2>1, NamesStayFree, Zenon
  <2>5. WithinMaximum' /\ idle' \in Seq(Calls)
    BY <1>4 DEF IInv, TypeOK, WithinMaximum
  <2>6. CountsMove(c, "opening", None)
    <3>1. openConnections \in Nat /\ Len(idle) \in Nat /\ Len(idle') = Len(idle)
      BY <1>4 DEF IInv, TypeOK
    <3> QED
      BY <1>1, <1>4, <3>1 DEF One, CountsMove
  <2>7. None # None <=> "opening" \in HoldingStates
    BY DEF HoldingStates
  <2> QED
    BY <1>1, <1>4, <2>1, <2>2, <2>3, <2>4, <2>5, <2>6, <2>7, MoveStep, Zenon
<1> QED
  BY <1>3, <1>4 DEF discarded

-----------------------------------------------------------------------------
\* The connection c held went to the waiter w.
LEMMA GrantStep ==
  ASSUME IInv, NEW c \in Calls, pc[c] \in {"pinging", "leased"},
         NEW i \in DOMAIN pending, takeWaiter(i),
         pc' = [pc EXCEPT ![c] = "done", ![pending[i]] = "granted"],
         held' = [held EXCEPT ![c] = None, ![pending[i]] = held[c]],
         UNCHANGED <<idle, closed, openConnections, closing, cancelled>>,
         lease' \in [Calls -> Leases], LeasedAfter([pc EXCEPT ![c] = "done"])
  PROVE  IInv'
<1> DEFINE w == pending[i]
<1>1. /\ w \in Calls /\ active[w] /\ pc[w] = "waiting"
      /\ pending' \in Seq(Calls) /\ active' \in [Calls -> BOOLEAN]
      /\ \A d \in Calls : active'[d] => active[d] /\ d # w
  BY TakeWaiterEffect DEF IInv
<1>2. /\ pc' = [pc EXCEPT ![c] = "done", ![w] = "granted"]
      /\ held' = [held EXCEPT ![c] = None, ![w] = held[c]]
  OBVIOUS
<1> HIDE DEF w
<1>3. w # c /\ held[c] # None /\ held[w] = None /\ held[c] \in Calls
  BY <1>1 DEF IInv, TypeOK, HeldWhere, HoldingStates
<1>4. /\ pc'[c] = "done" /\ pc'[w] = "granted"
      /\ \A d \in Calls : d # c /\ d # w => pc'[d] = pc[d]
  <2>1. pc \in [Calls -> States]
    BY DEF IInv, TypeOK
  <2> QED
    BY <1>1, <1>2, <1>3, <2>1
<1>5. /\ held'[c] = None /\ held'[w] = held[c]
      /\ \A d \in Calls : d # c /\ d # w => held'[d] = held[d]
  <2>1. held \in [Calls -> Calls \cup {None}]
    BY DEF IInv, TypeOK
  <2> QED
    BY <1>1, <1>2, <1>3, <2>1
<1>6. held' \in [Calls -> Calls \cup {None}] /\ pc' \in [Calls -> States]
  BY <1>1, <1>2, <1>3 DEF IInv, TypeOK, States
<1>7. TypeOK'
  BY <1>1, <1>6, Zenon DEF IInv, TypeOK
<1>8. ActiveWaits'
  BY <1>1, <1>4, Zenon DEF IInv, ActiveWaits
<1>9. HeldWhere' /\ LeasedOut' /\ OwnNameFree'
  <2>1. ASSUME NEW d \in Calls PROVE held'[d] # None <=> pc'[d] \in HoldingStates
    <3>1. held[d] # None <=> pc[d] \in HoldingStates
      BY DEF IInv, HeldWhere
    <3>2. CASE d = c
      BY <1>4, <1>5, <3>2 DEF HoldingStates
    <3>3. CASE d = w
      BY <1>3, <1>4, <1>5, <3>3 DEF HoldingStates
    <3>4. CASE d # c /\ d # w
      BY <1>4, <1>5, <3>1, <3>4, Zenon
    <3> QED
      BY <3>2, <3>3, <3>4
  <2>2. LeasedAfter(pc')
    BY <1>1, <1>3, <1>4 DEF LeasedAfter, IInv, TypeOK
  <2>3. FreeAfter(pc')
    <3>1. \A d \in Calls : pc'[d] \in FreshStates => pc[d] \in FreshStates
      BY <1>4, Zenon DEF FreshStates
    <3>2. \A d \in Calls : None # d
      BY ConnectionPoolAssumption
    <3> QED
      BY <1>5, <3>1, <3>2, Zenon DEF IInv, OwnNameFree, FreeAfter
  <2>4. Follows(pc', pc')
    BY DEF Follows
  <2> QED
    BY <1>7, <2>1, <2>2, <2>3, <2>4, Places, Zenon DEF IInv
<1>10. ConnectionsCounted'
  <2>1. Opening' = Opening
    BY <1>1, <1>4, Zenon DEF Opening
  <2>2. Holding' = (Holding \ {c}) \cup {w} /\ c \in Holding /\ w \notin Holding
    BY <1>1, <1>3, <1>5, Zenon DEF Holding
  <2>3. Holding \in SUBSET Calls /\ Holding \ {c} \in SUBSET Calls
    BY DEF Holding
  <2>4. /\ Cardinality(Holding) \in Nat
        /\ Cardinality(Holding \ {c}) = Cardinality(Holding) - 1
    BY <2>2, <2>3, CardMoves
  <2>5. Cardinality((Holding \ {c}) \cup {w}) = Cardinality(Holding \ {c}) + 1
    BY <1>1, <2>2, <2>3, CardMoves
  <2>6. Cardinality(Holding') = Cardinality(Holding)
    BY <2>2, <2>4, <2>5
  <2> QED
    BY <2>1, <2>6 DEF IInv, ConnectionsCounted
<1>11. ConnectionsExclusive'
  <2>1. ASSUME NEW b \in Calls, NEW d \in Calls, held'[b] # None, held'[b] = held'[d] PROVE b = d
    <3>1. \A e, g \in Calls : held[e] # None /\ held[e] = held[g] => e = g
      BY DEF IInv, ConnectionsExclusive
    <3>2. b # c /\ d # c
      BY <1>5, <2>1
    <3>3. CASE b = w
      BY <1>3, <1>5, <2>1, <3>1, <3>2, <3>3
    <3>4. CASE b # w
      BY <1>3, <1>5, <2>1, <3>1, <3>2, <3>4
    <3> QED
      BY <3>3, <3>4
  <2>2. None \notin range(idle)
    BY IdleDistinct, ConnectionPoolAssumption
  <2>3. ASSUME NEW b \in Calls
        PROVE  held'[b] \notin range(idle') /\ (held'[b] # None => held'[b] # closing')
    <3>1. /\ held[b] \notin range(idle) /\ (held[b] # None => held[b] # closing)
          /\ held[c] \notin range(idle) /\ held[c] # closing
      BY <1>3 DEF IInv, ConnectionsExclusive
    <3>2. held'[b] = None \/ held'[b] = held[c] \/ held'[b] = held[b]
      BY <1>5, Zenon
    <3>3. idle' = idle /\ closing' = closing
      OBVIOUS
    <3> QED
      BY <2>2, <3>1, <3>2, <3>3
  <2> QED
    BY <2>1, <2>3, Zenon DEF IInv, ConnectionsExclusive, range
<1>12. WithinMaximum' /\ ClosingMeansClosed'
  BY DEF IInv, WithinMaximum, ClosingMeansClosed
<1> QED
  BY <1>7, <1>8, <1>9, <1>10, <1>11, <1>12 DEF IInv

\* The connection c held goes to rest.
LEMMA RestStep ==
  ASSUME IInv, NEW c \in Calls, pc[c] \in {"pinging", "leased"},
         Len(idle) < maximumIdleConnections, idle' = Append(idle, held[c]),
         pc' = [pc EXCEPT ![c] = "done"], held' = [held EXCEPT ![c] = None],
         pending' = <<>>, UNCHANGED <<active, closed, openConnections, closing, cancelled>>,
         lease' \in [Calls -> Leases], LeasedAfter([pc EXCEPT ![c] = "done"])
  PROVE  IInv'
<1> DEFINE x == held[c]
<1>1. x \in Calls /\ x # None /\ x \notin range(idle) /\ x # closing
  BY DEF IInv, TypeOK, HeldWhere, HoldingStates, ConnectionsExclusive
<1>2. idle \in Seq(Calls) /\ Distinct(idle) /\ Len(idle) \in Nat /\ idle' = Append(idle, x)
  BY IdleDistinct DEF IInv, TypeOK
<1>3. x = held[c]
  OBVIOUS
<1> HIDE DEF x
<1>4. /\ idle' \in Seq(Calls) /\ Len(idle') = Len(idle) + 1
      /\ range(idle') = range(idle) \cup {x} /\ Distinct(idle')
  <2> DEFINE r == Append(idle, x)
  <2>1. r \in Seq(Calls) /\ Len(r) = Len(idle) + 1 /\ range(r) = range(idle) \cup {x} /\ Distinct(r)
    BY <1>1, <1>2, Appended
  <2>2. idle' = r
    BY <1>2
  <2> HIDE DEF r
  <2> QED
    BY <2>1, <2>2
<1>5. held'[c] = None /\ \A d \in Calls : d # c => held'[d] = held[d]
  BY DEF IInv, TypeOK
<1>6. \A d \in Calls : d # c => held[d] # x
  BY <1>1, <1>3 DEF IInv, ConnectionsExclusive
<1>7. \A d \in Calls : None # d
  BY ConnectionPoolAssumption
<1>8. FreeAfter([pc EXCEPT ![c] = "done"])
  <2>1. ASSUME NEW d \in Calls, ([pc EXCEPT ![c] = "done"])[d] \in FreshStates
        PROVE  d \notin range(idle') /\ closing' # d /\ \A e \in Calls : held'[e] # d
    <3>1. pc[d] \in FreshStates
      BY <2>1 DEF IInv, TypeOK, FreshStates
    <3>2. d \notin range(idle) /\ closing # d /\ \A e \in Calls : held[e] # d
      BY <3>1 DEF IInv, OwnNameFree
    <3> QED
      BY <1>3, <1>4, <1>5, <1>7, <3>2
  <2> QED
    BY <2>1 DEF FreeAfter
<1>9. ConnectionsExclusive'
  <2>1. \A b, d \in Calls : held'[b] # None /\ held'[b] = held'[d] => b = d
    BY <1>5 DEF IInv, ConnectionsExclusive
  <2>2. None \notin range(idle)
    BY IdleDistinct, <1>7
  <2>3. \A b \in Calls : held'[b] \notin range(idle') /\ (held'[b] # None => held'[b] # closing')
    BY <1>1, <1>4, <1>5, <1>6, <2>2 DEF IInv, ConnectionsExclusive
  <2>4. closing' \notin range(idle')
    BY <1>1, <1>4 DEF IInv, ConnectionsExclusive
  <2>5. \A i, j \in DOMAIN idle' : idle'[i] = idle'[j] => i = j
    BY <1>4 DEF Distinct
  <2> QED
    BY <2>1, <2>3, <2>4, <2>5, Zenon DEF ConnectionsExclusive, range
<1>10. WithinMaximum'
  BY <1>2, <1>4, ConnectionPoolAssumption DEF IInv, WithinMaximum
<1>11. CountsMove(c, "done", None)
  <2>1. openConnections \in Nat /\ openConnections' = openConnections /\ pc[c] # "opening" /\ held[c] # None
    BY <1>1, <1>3 DEF IInv, TypeOK
  <2> QED
    BY <1>2, <1>4, <2>1 DEF One, CountsMove
<1>12. /\ "done" \in States /\ pc' \in [Calls -> States] /\ ActiveWaits'
       /\ Follows(pc', [pc EXCEPT ![c] = "done"]) /\ active' \in [Calls -> BOOLEAN]
  BY DEF IInv, TypeOK, States, ActiveWaits, Follows
<1>13. pending' \in Seq(Calls)
  OBVIOUS
<1>14. None # None <=> "done" \in HoldingStates
  BY DEF HoldingStates
<1> QED
  BY <1>4, <1>8, <1>9, <1>10, <1>11, <1>12, <1>13, <1>14, MoveStep, Zenon

LEMMA ReleaseEntryStep ==
  ASSUME IInv, NEW c \in Calls, NEW reusable \in BOOLEAN, releaseEntry(c, reusable),
         pc[c] \in {"pinging", "leased"}, cancelled' = cancelled,
         lease' \in [Calls -> Leases], (lease'[c]).released,
         \A d \in Calls : d # c => lease'[d] = lease[d]
  PROVE  IInv'
<1>1. \A y \in States : LeasedAfter([pc EXCEPT ![c] = y])
  BY DEF LeasedAfter, IInv, TypeOK, LeasedOut
<1>2. UNCHANGED <<closed, openConnections, closing>> /\ "returning" \in States /\ "done" \in States
  BY DEF releaseEntry, States
<1>3. CASE /\ pc' = [pc EXCEPT ![c] = "returning"] /\ UNCHANGED <<idle, active, held>>
           /\ pending' = pending \/ pending' = <<>>
  <2>1. pc' \in [Calls -> States] /\ ActiveWaits' /\ active' \in [Calls -> BOOLEAN]
    BY <1>3 DEF IInv, TypeOK, ActiveWaits, States
  <2>2. Follows(pc', [pc EXCEPT ![c] = "returning"])
    BY <1>3 DEF Follows
  <2>3. pending' \in Seq(Calls)
    <3>1. CASE pending' = pending
      BY <3>1 DEF IInv, TypeOK
    <3>2. CASE pending' = <<>>
      BY <3>2
    <3> QED
      BY <1>3, <3>1, <3>2
  <2>4. QuietMove(pc[c], "returning")
    BY DEF QuietMove, HoldingStates, FreshStates, States
  <2>5. LeasedAfter([pc EXCEPT ![c] = "returning"]) /\ cancelled' \subseteq Calls
    BY <1>1, <1>2, Zenon DEF IInv, TypeOK
  <2> QED
    BY <1>2, <1>3, <2>1, <2>2, <2>3, <2>4, <2>5, QuietStep, Zenon DEF LeasedAfter
<1>4. CASE \E i \in DOMAIN pending :
             /\ takeWaiter(i)
             /\ pc' = [pc EXCEPT ![c] = "done", ![pending[i]] = "granted"]
             /\ held' = [held EXCEPT ![c] = None, ![pending[i]] = held[c]]
             /\ UNCHANGED idle
  <2>1. PICK i \in DOMAIN pending :
             /\ takeWaiter(i)
             /\ pc' = [pc EXCEPT ![c] = "done", ![pending[i]] = "granted"]
             /\ held' = [held EXCEPT ![c] = None, ![pending[i]] = held[c]]
             /\ UNCHANGED idle
    BY <1>4, Zenon
  <2>2. LeasedAfter([pc EXCEPT ![c] = "done"])
    BY <1>1, <1>2
  <2> QED
    BY <1>2, <2>1, <2>2, GrantStep, Zenon
<1>5. CASE /\ noWaiter /\ ~(Len(idle) >= maximumIdleConnections)
           /\ idle' = Append(idle, held[c])
           /\ pc' = [pc EXCEPT ![c] = "done"]
           /\ held' = [held EXCEPT ![c] = None]
  <2>1. Len(idle) < maximumIdleConnections
    BY <1>5, IdleDistinct, ConnectionPoolAssumption
  <2>2. LeasedAfter([pc EXCEPT ![c] = "done"]) /\ pending' = <<>> /\ active' = active
    BY <1>1, <1>2, <1>5, Zenon DEF noWaiter
  <2> QED
    BY <1>2, <1>5, <2>1, <2>2, RestStep, Zenon
<1> QED
  BY <1>3, <1>4, <1>5 DEF releaseEntry, noWaiter

LEMMA PingedStep ==
  ASSUME IInv, NEW c \in Calls, pinged(c)
  PROVE  IInv'
<1>1. pc[c] = "pinging" /\ cancelled' = cancelled /\ cancelled' \subseteq Calls
  BY DEF pinged, IInv, TypeOK
<1>2. pc[c] # "waiting" /\ pc[c] # "leased" /\ lease[c].released
  BY <1>1 DEF IInv, LeasedOut
<1>3. ASSUME NEW y \in {"leased", "discarding"}, pc' = [pc EXCEPT ![c] = y],
             (y = "leased" /\ checkOut(c)) \/ UNCHANGED lease,
             UNCHANGED <<closed, openConnections, idle, pending, active, held, closing>>
      PROVE  IInv'
  <2>1. y \in States /\ QuietMove(pc[c], y)
    BY <1>1 DEF States, QuietMove, HoldingStates, FreshStates
  <2>2. /\ pending' \in Seq(Calls) /\ active' \in [Calls -> BOOLEAN]
        /\ pc' \in [Calls -> States] /\ ActiveWaits' /\ Follows(pc', [pc EXCEPT ![c] = y])
    BY <1>2, <1>3, <2>1, Moves, Zenon
  <2>3. lease' \in [Calls -> Leases] /\ LeasedAfter([pc EXCEPT ![c] = y])
    BY <1>2, <1>3, <2>1, LeaseKept, Zenon
  <2> QED
    BY <1>1, <1>3, <2>1, <2>2, <2>3, QuietStep, Zenon
<1>4. CASE (\E reusable \in BOOLEAN : releaseEntry(c, reusable)) /\ UNCHANGED lease
  <2>1. PICK reusable \in BOOLEAN : releaseEntry(c, reusable)
    BY <1>4
  <2>2. lease' \in [Calls -> Leases] /\ (lease'[c]).released /\ \A d \in Calls : d # c => lease'[d] = lease[d]
    BY <1>2, <1>4 DEF IInv, TypeOK
  <2> QED
    BY <1>1, <2>1, <2>2, ReleaseEntryStep
<1> QED
  BY <1>3, <1>4 DEF pinged

-----------------------------------------------------------------------------
\* What an operation on a lease that is out leaves.
FitLease(l) == l \in Leases /\ (~l.released => l.references >= 1)
NextLease(l, m) == FitLease(m) /\ (l.released => m.released)

LEMMA ReleaseFits ==
  ASSUME NEW l, FitLease(l), NEW reusable \in BOOLEAN
  PROVE  NextLease(l, release(l, reusable))
<1>1. CASE l.released
  BY <1>1 DEF NextLease, release
<1>2. CASE ~l.released
  <2> DEFINE m == [l EXCEPT !.reusable = @ /\ reusable,
                            !.references = @ - 1,
                            !.released = l.references = 1]
  <2>1. release(l, reusable) = m
    BY <1>2 DEF release
  <2>2. l.references \in Nat /\ l.references >= 1 /\ (l.reusable /\ reusable) \in BOOLEAN
    BY <1>2 DEF FitLease, Leases
  <2>3. l.references - 1 \in Nat
    BY <2>2
  <2>4. m \in Leases
    BY <2>2, <2>3, Zenon DEF FitLease, Leases
  <2>5. ~m.released => m.references >= 1
    <3>1. m.released <=> l.references = 1
      BY <2>4, Zenon DEF FitLease, Leases
    <3>2. m.references = l.references - 1
      BY DEF FitLease, Leases
    <3> HIDE DEF m
    <3> QED
      BY <2>2, <3>1, <3>2
  <2> QED
    BY <1>2, <2>1, <2>4, <2>5 DEF NextLease, FitLease
<1> QED
  BY <1>1, <1>2

LEMMA RetainFits ==
  ASSUME NEW l \in Leases
  PROVE  FitLease(retain(l)) /\ retain(l).released = l.released
<1> DEFINE m == [l EXCEPT !.references = @ + 1]
<1>1. m \in Leases
  BY DEF Leases
<1>2. m.released = l.released
  BY DEF Leases
<1>3. m.references >= 1
  BY DEF Leases
<1> HIDE DEF m
<1> QED
  BY <1>1, <1>2, <1>3 DEF m, FitLease, retain

LEMMA LeaseOperations ==
  ASSUME NEW l, FitLease(l), NEW ok \in BOOLEAN
  PROVE  /\ NextLease(l, derive(l))
         /\ NextLease(l, begin(l))
         /\ l.derived > 0 => NextLease(l, closeDerived(l, ok))
         /\ NextLease(l, commit(l))
         /\ l.commits > 0 => NextLease(l, committed(l, ok))
         /\ NextLease(l, closeConnection(l))
<1>1. NextLease(l, derive(l))
  <2> DEFINE m == [l EXCEPT !.derived = @ + 1, !.made = @ + 1]
  <2>0. l.derived + 1 \in Nat /\ l.made + 1 \in Nat
    BY DEF FitLease, Leases
  <2>1. m \in Leases
    BY <2>0, Zenon DEF FitLease, Leases
  <2>2. m.released = l.released
    BY DEF FitLease, Leases
  <2>3. derive(l) = retain(m)
    BY DEF derive
  <2> HIDE DEF m
  <2> QED
    BY <2>1, <2>2, <2>3, RetainFits DEF NextLease
<1>2. NextLease(l, begin(l))
  <2> DEFINE m == [l EXCEPT !.transaction = "open"]
  <2>1. m \in Leases
    BY DEF FitLease, Leases
  <2>2. m.released = l.released
    BY DEF FitLease, Leases
  <2>3. begin(l) = retain(m)
    BY DEF begin
  <2> HIDE DEF m
  <2> QED
    BY <2>1, <2>2, <2>3, RetainFits DEF NextLease
<1>3. ASSUME l.derived > 0 PROVE NextLease(l, closeDerived(l, ok))
  <2> DEFINE m == [l EXCEPT !.derived = @ - 1]
  <2>1. FitLease(m) /\ m.released = l.released
    <3>1. m \in Leases
      BY <1>3 DEF FitLease, Leases
    <3>2. m.released = l.released /\ m.references = l.references
      BY DEF FitLease, Leases
    <3> HIDE DEF m
    <3> QED
      BY <3>1, <3>2 DEF FitLease
  <2>2. closeDerived(l, ok) = release(m, ok)
    BY DEF closeDerived
  <2> HIDE DEF m
  <2> QED
    BY <2>1, <2>2, ReleaseFits DEF NextLease
<1>4. NextLease(l, commit(l))
  <2> DEFINE m == [l EXCEPT !.commits = @ + 1]
  <2>1. m \in Leases
    BY DEF FitLease, Leases
  <2>2. m.released = l.released /\ m.references = l.references
    BY DEF FitLease, Leases
  <2>3. commit(l) = m
    BY DEF commit
  <2> HIDE DEF m
  <2> QED
    BY <2>1, <2>2, <2>3 DEF FitLease, NextLease
<1>5. ASSUME l.commits > 0 PROVE NextLease(l, committed(l, ok))
  <2> DEFINE to == IF l.transaction = "open" THEN "closed" ELSE "again"
             m == [l EXCEPT !.commits = l.commits - 1, !.transaction = to]
  <2>1. FitLease(m) /\ m.released = l.released
    <3>0. l.commits - 1 \in Nat /\ to \in {"none", "open", "closed", "again"}
      BY <1>5 DEF FitLease, Leases
    <3> HIDE DEF to
    <3>1. m \in Leases
      BY <3>0, Zenon DEF FitLease, Leases
    <3>2. m.released = l.released /\ m.references = l.references
      BY DEF FitLease, Leases
    <3> HIDE DEF m
    <3> QED
      BY <3>1, <3>2 DEF FitLease
  <2>2. committed(l, ok) = release(m, ok)
    BY DEF committed
  <2> HIDE DEF m
  <2> QED
    BY <2>1, <2>2, ReleaseFits DEF NextLease
<1>6. NextLease(l, closeConnection(l))
  <2> DEFINE m == [l EXCEPT !.closed = TRUE]
  <2>1. FitLease(m) /\ m.released = l.released
    <3>1. m \in Leases
      BY Zenon DEF FitLease, Leases
    <3>2. m.released = l.released /\ m.references = l.references
      BY DEF FitLease, Leases
    <3> HIDE DEF m
    <3> QED
      BY <3>1, <3>2 DEF FitLease
  <2>2. closeConnection(l) = release(m, TRUE)
    BY DEF closeConnection
  <2> HIDE DEF m
  <2> QED
    BY <2>1, <2>2, ReleaseFits, Zenon DEF NextLease
<1> QED
  BY <1>1, <1>2, <1>3, <1>4, <1>5, <1>6

LEMMA SetLeaseStep ==
  ASSUME IInv, NEW c \in Calls, NEW l, NextLease(lease[c], l), setLease(c, l)
  PROVE  IInv'
<1>1. lease' = [lease EXCEPT ![c] = l] /\ cancelled' = cancelled /\ l \in Leases
  BY DEF setLease, NextLease, FitLease
<1>2. /\ lease' \in [Calls -> Leases] /\ lease'[c] = l
      /\ \A d \in Calls : d # c => lease'[d] = lease[d]
  BY <1>1 DEF IInv, TypeOK
<1>3. CASE l.released /\ ~lease[c].released
  <2>1. PICK fit \in BOOLEAN : releaseEntry(c, l.reusable /\ fit)
    BY <1>3 DEF setLease
  <2>2. pc[c] \in {"pinging", "leased"} /\ (l.reusable /\ fit) \in BOOLEAN /\ (lease'[c]).released
    BY <1>2, <1>3 DEF IInv, LeasedOut
  <2> QED
    BY <1>1, <1>2, <2>1, <2>2, ReleaseEntryStep, Zenon
<1>4. CASE ~(l.released /\ ~lease[c].released)
  <2>1. UNCHANGED <<closed, openConnections, idle, pending, active, pc, held, closing>>
    BY <1>4 DEF setLease, poolVars
  <2>2. TypeOK'
    BY <1>1, <1>2, <2>1 DEF IInv, TypeOK
  <2>3. LeasedOut'
    <3>1. \A d \in Calls : ~(lease'[d]).released => pc[d] = "leased" /\ (lease'[d]).references >= 1
      BY <1>2, <1>4 DEF IInv, LeasedOut, NextLease, FitLease
    <3> QED
      BY <2>1, <3>1 DEF LeasedOut
  <2>4. ConnectionsCounted' /\ ConnectionsExclusive' /\ WithinMaximum'
    BY <2>1 DEF IInv, ConnectionsCounted, ConnectionsExclusive, WithinMaximum, Opening, Holding, range
  <2>5. HeldWhere' /\ ActiveWaits' /\ OwnNameFree' /\ ClosingMeansClosed'
    BY <2>1 DEF IInv, HeldWhere, ActiveWaits, OwnNameFree, ClosingMeansClosed, range
  <2> QED
    BY <2>2, <2>3, <2>4, <2>5 DEF IInv
<1> QED
  BY <1>3, <1>4

LEMMA UseStep ==
  ASSUME IInv, NEW c \in Calls, useLease(c) \/ endUse(c)
  PROVE  IInv'
<1> DEFINE l == lease[c]
<1>1. FitLease(l)
  BY DEF FitLease, IInv, TypeOK, LeasedOut
<1>2. \A ok \in BOOLEAN :
        /\ NextLease(l, derive(l))
        /\ NextLease(l, begin(l))
        /\ l.derived > 0 => NextLease(l, closeDerived(l, ok))
        /\ NextLease(l, commit(l))
        /\ l.commits > 0 => NextLease(l, committed(l, ok))
        /\ NextLease(l, closeConnection(l))
  BY <1>1, LeaseOperations
<1>3. \E m : NextLease(l, m) /\ setLease(c, m)
  BY <1>2, Zenon DEF useLease, endUse
<1> QED
  BY <1>3, SetLeaseStep

-----------------------------------------------------------------------------
\* close, before and after each of its suspensions.
LEMMA CloseNextStep ==
  ASSUME IInv, closeNext, closed' = TRUE, openConnections' = openConnections - One(closing # None),
         UNCHANGED <<held, lease, cancelled>>
  PROVE  IInv'
<1> DEFINE o == Cardinality(Opening)
           h == Cardinality(Holding)
<1>1. o \in Nat /\ h \in Nat
  <2>1. Opening \in SUBSET Calls /\ Holding \in SUBSET Calls
    BY DEF Opening, Holding
  <2> QED
    BY <2>1, CardMoves, FS_Subset, FS_CardinalityType, ConnectionPoolAssumption
<1>2. openConnections = o + h + Len(idle) + One(closing # None)
  BY DEF IInv, ConnectionsCounted, One
<1>3. One(closing # None) \in {0, 1} /\ Len(idle) \in Nat /\ openConnections \in Nat
  BY IdleDistinct DEF One, IInv, TypeOK
<1>4. Holding' = Holding
  BY DEF Holding
<1> HIDE DEF o, h
<1>5. CASE idle # <<>> /\ closing' = Head(idle) /\ idle' = Tail(idle) /\ UNCHANGED <<pending, active, pc>>
  <2> DEFINE x == Head(idle)
  <2>1. idle \in Seq(Calls) /\ Distinct(idle)
    BY IdleDistinct DEF IInv, TypeOK
  <2>2. /\ idle' \in Seq(Calls) /\ Len(idle') = Len(idle) - 1
        /\ x \in range(idle) /\ range(idle') = range(idle) \ {x} /\ Distinct(idle')
    <3> DEFINE r == Tail(idle)
    <3>1. /\ r \in Seq(Calls) /\ Len(r) = Len(idle) - 1
          /\ x \in range(idle) /\ range(r) = range(idle) \ {x} /\ Distinct(r)
      BY <1>5, <2>1, FirstTaken
    <3>2. idle' = r
      BY <1>5
    <3> HIDE DEF r, x
    <3> QED
      BY <3>1, <3>2
  <2>3. closing' = x
    BY <1>5
  <2> HIDE DEF x
  <2>4. x \in Calls /\ x # None
    BY <2>2, IdleDistinct, ConnectionPoolAssumption
  <2>5. Opening' = Opening
    BY <1>5 DEF Opening
  <2>6. openConnections' = o + h + Len(idle') + 1 /\ openConnections' \in Nat
        /\ openConnections' <= openConnections
    <3>1. Len(idle') \in Nat
      BY <2>2
    <3> QED
      BY <1>1, <1>2, <1>3, <2>2, <3>1
  <2>7. ConnectionsCounted'
    BY <1>4, <2>3, <2>4, <2>5, <2>6 DEF ConnectionsCounted, o, h
  <2>8. TypeOK'
    BY <1>5, <2>2, <2>3, <2>4, <2>6 DEF IInv, TypeOK
  <2>9. ConnectionsExclusive'
    <3>1. \A b, d \in Calls : held'[b] # None /\ held'[b] = held'[d] => b = d
      BY DEF IInv, ConnectionsExclusive
    <3>2. \A b \in Calls : held'[b] \notin range(idle') /\ (held'[b] # None => held'[b] # closing')
      BY <2>2, <2>3 DEF IInv, ConnectionsExclusive
    <3>3. \A i, j \in DOMAIN idle' : idle'[i] = idle'[j] => i = j
      BY <2>2 DEF Distinct
    <3> QED
      BY <2>2, <2>3, <3>1, <3>2, <3>3 DEF ConnectionsExclusive, range
  <2>10. WithinMaximum'
    BY <1>3, <2>2, <2>6, ConnectionPoolAssumption DEF IInv, WithinMaximum
  <2>11. HeldWhere' /\ LeasedOut' /\ OwnNameFree'
    <3>1. \A d \in Calls : held'[d] # None <=> pc[d] \in HoldingStates
      BY DEF IInv, HeldWhere
    <3>2. LeasedAfter(pc)
      BY DEF IInv, LeasedOut, LeasedAfter
    <3>3. FreeAfter(pc)
      BY <2>2, <2>3 DEF IInv, OwnNameFree, FreeAfter
    <3>4. Follows(pc', pc)
      BY <1>5 DEF Follows
    <3> QED
      BY <2>8, <3>1, <3>2, <3>3, <3>4, Places DEF IInv
  <2>12. ActiveWaits' /\ ClosingMeansClosed'
    BY <1>5 DEF IInv, ActiveWaits, ClosingMeansClosed
  <2> QED
    BY <2>7, <2>8, <2>9, <2>10, <2>11, <2>12 DEF IInv
<1>6. CASE ~(idle # <<>>)
  <2> DEFINE struck == {pending[i] : i \in ActiveAt}
  <2>1. /\ closing' = None /\ pending' = <<>> /\ idle' = idle
        /\ active' = [c \in Calls |-> active[c] /\ c \notin struck]
        /\ pc' = [c \in Calls |-> IF c \in struck THEN "thrown" ELSE pc[c]]
    BY <1>6 DEF closeNext
  <2>2. \A d \in Calls : d \in struck => active[d] /\ pc[d] = "waiting"
    BY DEF ActiveAt, IInv, ActiveWaits
  <2> HIDE DEF struck
  <2>3. pending' \in Seq(Calls)
    BY <2>1
  <2>4. active' \in [Calls -> BOOLEAN] /\ pc' \in [Calls -> States]
    BY <2>1 DEF IInv, TypeOK, States
  <2>5. Follows(pc', pc) /\ ActiveWaits'
    BY <2>1, <2>2, Zenon DEF Follows, IInv, ActiveWaits
  <2>6. Opening' = Opening
    BY <2>5, FollowsRoles DEF Opening
  <2>7. openConnections' = o + h + Len(idle') + 0 /\ openConnections' \in Nat
        /\ openConnections' <= openConnections
    BY <1>1, <1>2, <1>3, <2>1
  <2>8. ConnectionsCounted'
    BY <1>4, <2>1, <2>6, <2>7 DEF ConnectionsCounted, o, h
  <2>9. TypeOK'
    BY <2>1, <2>3, <2>4, <2>7 DEF IInv, TypeOK
  <2>10. ConnectionsExclusive'
    <3>1. None \notin range(idle)
      BY IdleDistinct, ConnectionPoolAssumption
    <3>2. idle' = idle /\ held' = held /\ closing' = None
      BY <2>1
    <3>3. \A b \in Calls : held'[b] \notin range(idle') /\ (held'[b] # None => held'[b] # closing')
      BY <3>2 DEF IInv, ConnectionsExclusive
    <3> QED
      BY <3>1, <3>2, <3>3 DEF IInv, ConnectionsExclusive, range
  <2>11. WithinMaximum'
    BY <1>3, <2>1, <2>7, ConnectionPoolAssumption DEF IInv, WithinMaximum
  <2>12. HeldWhere' /\ LeasedOut' /\ OwnNameFree'
    <3>1. \A d \in Calls : held'[d] # None <=> pc[d] \in HoldingStates
      BY DEF IInv, HeldWhere
    <3>2. LeasedAfter(pc)
      BY DEF IInv, LeasedOut, LeasedAfter
    <3>3. FreeAfter(pc)
      <4>1. \A d \in Calls : None # d
        BY ConnectionPoolAssumption
      <4> QED
        BY <2>1, <4>1 DEF IInv, OwnNameFree, FreeAfter
    <3> QED
      BY <2>5, <2>9, <3>1, <3>2, <3>3, Places DEF IInv
  <2>13. ClosingMeansClosed'
    BY <2>1 DEF ClosingMeansClosed
  <2> QED
    BY <2>5, <2>8, <2>9, <2>10, <2>11, <2>12, <2>13 DEF IInv
<1> QED
  BY <1>5, <1>6 DEF closeNext

LEMMA CloseSteps ==
  ASSUME IInv, close \/ closeResumes
  PROVE  IInv'
<1>1. CASE close
  <2>1. closing = None /\ openConnections' = openConnections - One(closing # None)
    BY <1>1 DEF close, IInv, TypeOK, ClosingMeansClosed, One
  <2> QED
    BY <1>1, <2>1, CloseNextStep DEF close
<1>2. CASE closeResumes
  <2>1. closed' = TRUE /\ openConnections' = openConnections - One(closing # None)
    BY <1>2 DEF closeResumes, IInv, TypeOK, ClosingMeansClosed, One
  <2> QED
    BY <1>2, <2>1, CloseNextStep DEF closeResumes
<1> QED
  BY <1>1, <1>2

LEMMA NextIInv == IInv /\ [Next]_vars => IInv'
<1> SUFFICES ASSUME IInv, [Next]_vars PROVE IInv'
  OBVIOUS
<1>1. CASE \E c \in Calls : acquire(c) \/ run(c) \/ cancelToken(c) \/ timeout(c) \/ useLease(c) \/ endUse(c)
  <2>1. PICK c \in Calls : acquire(c) \/ run(c) \/ cancelToken(c) \/ timeout(c) \/ useLease(c) \/ endUse(c)
    BY <1>1
  <2>2. CASE acquire(c)
    BY <2>2, AcquireStep
  <2>3. CASE run(c)
    BY <2>3, OpenedStep, PingedStep, DiscardedStep, ReturnedStep, ResumeStep DEF run
  <2>4. CASE cancelToken(c) \/ timeout(c)
    BY <2>4, CancelTokenStep, TimeoutStep
  <2>5. CASE useLease(c) \/ endUse(c)
    BY <2>5, UseStep
  <2> QED
    BY <2>1, <2>2, <2>3, <2>4, <2>5
<1>2. CASE close \/ closeResumes
  BY <1>2, CloseSteps
<1>3. CASE UNCHANGED vars
  <2>1. /\ UNCHANGED <<closed, openConnections, idle, pending, active, pc, held, closing>>
        /\ UNCHANGED <<lease, cancelled>>
    BY <1>3 DEF vars, poolVars
  <2>2. TypeOK'
    BY <2>1 DEF IInv, TypeOK
  <2>3. ConnectionsCounted' /\ ConnectionsExclusive' /\ WithinMaximum'
    BY <2>1, Zenon DEF IInv, ConnectionsCounted, ConnectionsExclusive, WithinMaximum, Opening,
       Holding, range
  <2>4. HeldWhere' /\ ActiveWaits' /\ LeasedOut'
    BY <2>1 DEF IInv, HeldWhere, ActiveWaits, LeasedOut
  <2>5. OwnNameFree' /\ ClosingMeansClosed'
    BY <2>1 DEF IInv, OwnNameFree, ClosingMeansClosed, range
  <2> QED
    BY <2>2, <2>3, <2>4, <2>5 DEF IInv
<1> QED
  BY <1>1, <1>2, <1>3 DEF Next

-----------------------------------------------------------------------------
\* IInv holds in every reachable state of a pool, whatever its limits, however
\* many calls there are and however often they are suspended in a driver call.
THEOREM ConnectionPoolInvariant == Spec => []IInv
<1>1. Init => IInv
  BY InitIInv
<1>2. IInv /\ [Next]_vars => IInv'
  BY NextIInv
<1> QED
  BY <1>1, <1>2, PTL DEF Spec

\* The fields of PoolState stay well typed; in particular the counter that
\* discard and closeConnection decrement never goes below zero.
THEOREM ConnectionPoolTypeOK == Spec => []TypeOK
<1>1. IInv => TypeOK
  BY DEF IInv
<1> QED
  BY <1>1, ConnectionPoolInvariant, PTL

\* `openConnections` counts exactly the connections being opened, at rest, in
\* use or being closed.
THEOREM ConnectionPoolCounted == Spec => []ConnectionsCounted
<1>1. IInv => ConnectionsCounted
  BY DEF IInv
<1> QED
  BY <1>1, ConnectionPoolInvariant, PTL

\* No connection is in the hands of two calls, or in use and at rest.
THEOREM ConnectionPoolExclusive == Spec => []ConnectionsExclusive
<1>1. IInv => ConnectionsExclusive
  BY DEF IInv
<1> QED
  BY <1>1, ConnectionPoolInvariant, PTL

\* maximumConnections and maximumIdleConnections are never exceeded.
THEOREM ConnectionPoolWithinMaximum == Spec => []WithinMaximum
<1>1. IInv => WithinMaximum
  BY DEF IInv
<1> QED
  BY <1>1, ConnectionPoolInvariant, PTL

\* The connections are counted, exclusive and within the limits in every
\* reachable state of a pool.
THEOREM ConnectionPoolSound == Spec => []ConnectionsSound
  BY ConnectionPoolTypeOK, ConnectionPoolCounted, ConnectionPoolExclusive,
     ConnectionPoolWithinMaximum, PTL DEF ConnectionsSound

-----------------------------------------------------------------------------
(* Leases.                                                                  *)

\* The references of a lease are the handles that may still use it, and it is
\* released with the last of them.
Balanced(l) ==
  l.transaction # "again" =>
    l.references = handles(l) /\ (l.released <=> l.references = 0)

\* Lease::release undoes one reference when m is l with one handle less.
LEMMA ReleaseBalances ==
  ASSUME NEW l \in Leases, Balanced(l), NEW m \in Leases, NEW reusable \in BOOLEAN,
         m.references = l.references, m.released = l.released,
         m.transaction # "again" => l.transaction # "again" /\ handles(l) = handles(m) + 1
  PROVE  Balanced(release(m, reusable))
<1>1. CASE m.transaction = "again"
  <2>1. release(m, reusable).transaction = "again"
    BY <1>1 DEF release, Leases
  <2> QED
    BY <2>1 DEF Balanced
<1>2. CASE m.transaction # "again"
  <2>1. handles(m) \in Nat
    BY DEF handles, Leases
  <2>2. l.references = handles(m) + 1 /\ ~l.released
    BY <1>2, <2>1 DEF Balanced
  <2>3. m.references = handles(m) + 1 /\ ~m.released
    BY <2>2
  <2> DEFINE r == [m EXCEPT !.reusable = m.reusable /\ reusable,
                            !.references = m.references - 1,
                            !.released = m.references = 1]
  <2>4. release(m, reusable) = r
    BY <2>3 DEF release
  <2>5. /\ r.references = m.references - 1
        /\ r.derived = m.derived /\ r.closed = m.closed /\ r.transaction = m.transaction
    BY DEF Leases
  <2>6. r.released <=> m.references = 1
    BY Zenon DEF Leases
  <2> HIDE DEF r
  <2>7. handles(r) = handles(m)
    BY <2>5 DEF handles
  <2>8. r.references = handles(r) /\ (m.references = 1 <=> r.references = 0)
    BY <2>1, <2>3, <2>5, <2>7
  <2> QED
    BY <2>4, <2>6, <2>8 DEF Balanced
<1> QED
  BY <1>1, <1>2

LEMMA RetainBalances ==
  ASSUME NEW l \in Leases, Balanced(l), ~l.released, NEW m \in Leases,
         m.references = l.references, m.released = l.released,
         m.transaction # "again" => l.transaction # "again" /\ handles(m) = handles(l) + 1
  PROVE  Balanced(retain(m))
<1> DEFINE r == [m EXCEPT !.references = m.references + 1]
<1>1. retain(m) = r
  BY DEF retain
<1>2. /\ r.references = m.references + 1 /\ r.released = m.released
      /\ r.derived = m.derived /\ r.closed = m.closed /\ r.transaction = m.transaction
  BY DEF Leases
<1> HIDE DEF r
<1>3. handles(r) = handles(m)
  BY <1>2 DEF handles
<1>4. m.transaction # "again" => r.references = handles(r)
  BY <1>2, <1>3 DEF Balanced
<1>5. ~r.released /\ r.references # 0
  BY <1>2 DEF Leases
<1> QED
  BY <1>1, <1>2, <1>4, <1>5 DEF Balanced

\* Every operation of Lease keeps the balance.
LEMMA LeaseBalances ==
  ASSUME NEW l \in Leases, Balanced(l), NEW ok \in BOOLEAN
  PROVE  /\ canDerive(l) => Balanced(derive(l))
         /\ canBegin(l) => Balanced(begin(l))
         /\ l.derived > 0 => Balanced(closeDerived(l, ok))
         /\ Balanced(commit(l))
         /\ l.commits > 0 => Balanced(committed(l, ok))
         /\ ~l.closed => Balanced(closeConnection(l))
<1>1. ASSUME canDerive(l) PROVE Balanced(derive(l))
  <2> DEFINE m == [l EXCEPT !.derived = l.derived + 1, !.made = l.made + 1]
  <2>0. l.derived + 1 \in Nat /\ l.made + 1 \in Nat
    BY DEF Leases
  <2>1. m \in Leases
    BY <2>0, Zenon DEF Leases
  <2>2. /\ m.references = l.references /\ m.released = l.released /\ m.closed = l.closed
        /\ m.transaction = l.transaction /\ m.derived = l.derived + 1
    BY DEF Leases
  <2>3. derive(l) = retain(m) /\ ~l.released
    BY <1>1 DEF derive, canDerive
  <2> HIDE DEF m
  <2>4. handles(m) = handles(l) + 1
    BY <2>2 DEF handles, Leases
  <2> QED
    BY <2>1, <2>2, <2>3, <2>4, RetainBalances
<1>2. ASSUME canBegin(l) PROVE Balanced(begin(l))
  <2> DEFINE m == [l EXCEPT !.transaction = "open"]
  <2>1. m \in Leases
    BY DEF Leases
  <2>2. /\ m.references = l.references /\ m.released = l.released /\ m.closed = l.closed
        /\ m.transaction = "open" /\ m.derived = l.derived
    BY DEF Leases
  <2>3. begin(l) = retain(m) /\ ~l.released /\ l.transaction = "none"
    BY <1>2 DEF begin, canBegin
  <2> HIDE DEF m
  <2>4. handles(m) = handles(l) + 1
    BY <2>2, <2>3 DEF handles, Leases
  <2> QED
    BY <2>1, <2>2, <2>3, <2>4, RetainBalances
<1>3. ASSUME l.derived > 0 PROVE Balanced(closeDerived(l, ok))
  <2> DEFINE m == [l EXCEPT !.derived = l.derived - 1]
  <2>1. m \in Leases
    BY <1>3 DEF Leases
  <2>2. /\ m.references = l.references /\ m.released = l.released /\ m.closed = l.closed
        /\ m.transaction = l.transaction /\ m.derived = l.derived - 1
    BY DEF Leases
  <2>3. closeDerived(l, ok) = release(m, ok)
    BY DEF closeDerived
  <2> HIDE DEF m
  <2>4. handles(l) = handles(m) + 1
    BY <1>3, <2>2 DEF handles, Leases
  <2> QED
    BY <2>1, <2>2, <2>3, <2>4, ReleaseBalances
<1>4. Balanced(commit(l))
  <2> DEFINE m == [l EXCEPT !.commits = l.commits + 1]
  <2>1. /\ m.references = l.references /\ m.released = l.released /\ m.closed = l.closed
        /\ m.transaction = l.transaction /\ m.derived = l.derived
    BY DEF Leases
  <2>2. commit(l) = m
    BY DEF commit
  <2> HIDE DEF m
  <2> QED
    BY <2>1, <2>2 DEF Balanced, handles
<1>5. ASSUME l.commits > 0 PROVE Balanced(committed(l, ok))
  <2> DEFINE to == IF l.transaction = "open" THEN "closed" ELSE "again"
             m == [l EXCEPT !.commits = l.commits - 1, !.transaction = to]
  <2>1. l.commits - 1 \in Nat /\ to \in {"none", "open", "closed", "again"}
    BY <1>5 DEF Leases
  <2>2. to # "again" => l.transaction = "open" /\ to = "closed"
    OBVIOUS
  <2>3. committed(l, ok) = release(m, ok)
    BY DEF committed
  <2> HIDE DEF to
  <2>4. m \in Leases
    BY <2>1, Zenon DEF Leases
  <2>5. /\ m.references = l.references /\ m.released = l.released /\ m.closed = l.closed
        /\ m.transaction = to /\ m.derived = l.derived
    BY DEF Leases
  <2> HIDE DEF m
  <2>6. to # "again" => handles(l) = handles(m) + 1
    BY <2>2, <2>5 DEF handles, Leases
  <2> QED
    BY <2>2, <2>3, <2>4, <2>5, <2>6, ReleaseBalances
<1>6. ASSUME ~l.closed PROVE Balanced(closeConnection(l))
  <2> DEFINE m == [l EXCEPT !.closed = TRUE]
  <2>1. m \in Leases
    BY Zenon DEF Leases
  <2>2. /\ m.references = l.references /\ m.released = l.released /\ m.closed
        /\ m.transaction = l.transaction /\ m.derived = l.derived
    BY DEF Leases
  <2>3. closeConnection(l) = release(m, TRUE)
    BY DEF closeConnection
  <2> HIDE DEF m
  <2>4. handles(l) = handles(m) + 1
    BY <1>6, <2>2 DEF handles, Leases
  <2> QED
    BY <2>1, <2>2, <2>3, <2>4, ReleaseBalances, Zenon
<1> QED
  BY <1>1, <1>2, <1>3, <1>4, <1>5, <1>6

LeasesBalanced == \A c \in Calls : Balanced(lease[c])

LEMMA NewBalanced == Balanced(newLease) /\ Balanced(noLease)
BY DEF Balanced, newLease, noLease, handles

\* Only one lease changes at a time: a new one is checked out, or one of the
\* operations of Lease is applied to it.
LEMMA NextLeasesBalanced ==
  ASSUME TypeOK, LeasesBalanced, [Next]_vars
  PROVE  LeasesBalanced'
<1>1. CASE UNCHANGED lease
  BY <1>1 DEF LeasesBalanced
<1>2. ASSUME NEW c \in Calls, NEW l, Balanced(l), lease' = [lease EXCEPT ![c] = l]
      PROVE  LeasesBalanced'
  BY <1>2 DEF LeasesBalanced, TypeOK
<1>3. ASSUME NEW c \in Calls, checkOut(c) PROVE LeasesBalanced'
  BY <1>2, <1>3, NewBalanced, Zenon DEF checkOut
<1>4. ASSUME NEW c \in Calls, useLease(c) \/ endUse(c) PROVE LeasesBalanced'
  <2> DEFINE l == lease[c]
  <2>1. l \in Leases /\ Balanced(l)
    BY DEF TypeOK, LeasesBalanced
  <2>2. \A ok \in BOOLEAN :
          /\ canDerive(l) => Balanced(derive(l))
          /\ canBegin(l) => Balanced(begin(l))
          /\ l.derived > 0 => Balanced(closeDerived(l, ok))
          /\ Balanced(commit(l))
          /\ l.commits > 0 => Balanced(committed(l, ok))
          /\ ~l.closed => Balanced(closeConnection(l))
    BY <2>1, LeaseBalances
  <2>3. \E m : Balanced(m) /\ setLease(c, m)
    BY <1>4, <2>2, Zenon DEF useLease, endUse
  <2> QED
    BY <1>2, <2>3, Zenon DEF setLease
<1>5. ASSUME NEW c \in Calls, acquire(c) PROVE LeasesBalanced'
  BY <1>1, <1>3, <1>5 DEF acquire, takeIdle
<1>6. ASSUME NEW c \in Calls, run(c) PROVE LeasesBalanced'
  <2>1. CASE opened(c)
    BY <1>1, <1>3, <2>1 DEF opened
  <2>2. CASE pinged(c)
    BY <1>1, <1>3, <2>2 DEF pinged
  <2>3. CASE discarded(c)
    BY <1>1, <1>3, <2>3 DEF discarded, takeIdle
  <2>4. CASE returned(c) \/ resume(c)
    BY <1>1, <1>3, <2>4 DEF returned, resume
  <2> QED
    BY <1>6, <2>1, <2>2, <2>3, <2>4 DEF run
<1>7. ASSUME NEW c \in Calls, cancelToken(c) \/ timeout(c) PROVE LeasesBalanced'
  BY <1>1, <1>7 DEF cancelToken, timeout
<1>8. CASE close \/ closeResumes
  BY <1>1, <1>8 DEF close, closeResumes
<1>9. CASE UNCHANGED vars
  BY <1>1, <1>9 DEF vars
<1> QED
  BY <1>4, <1>5, <1>6, <1>7, <1>8, <1>9 DEF Next

\* A connection goes back to the pool exactly when the last handle of its lease
\* is closed, unless overlapping calls have closed its transaction twice.
THEOREM ConnectionPoolReturnedMeansUnused == Spec => []ReturnedMeansUnused
<1>1. Init => LeasesBalanced
  BY NewBalanced DEF Init, LeasesBalanced
<1>2. TypeOK /\ LeasesBalanced /\ [Next]_vars => LeasesBalanced'
  BY NextLeasesBalanced
<1>3. LeasesBalanced => ReturnedMeansUnused
  BY DEF LeasesBalanced, Balanced, ReturnedMeansUnused
<1> QED
  BY <1>1, <1>2, <1>3, ConnectionPoolTypeOK, PTL DEF Spec

-----------------------------------------------------------------------------
(* Waiters.                                                                 *)

Retrying == {c \in Calls : pc[c] = "retry"}

NobodyWaits == \A c \in Calls : ~active[c]

\* takeWaiter can find every active Waiter.
ActiveQueued == \A c \in Calls : active[c] => \E i \in DOMAIN pending : pending[i] = c

\* Whatever the pool has room for, a woken call is on its way to take.
RoomSpokenFor ==
  cancelled = {} =>
    NobodyWaits \/ maximumConnections <= openConnections + Cardinality(Retrying)

\* The inductive invariant for those who wait: RoomIsUsed counts the calls that
\* were woken, since two connections may go before either call runs.
WInv ==
  /\ ActiveQueued
  /\ closed => NobodyWaits
  /\ idle # <<>> => NobodyWaits
  /\ RoomSpokenFor
  /\ \A c \in Calls : pc[c] = "rejecting" => closed

LEMMA RetryingCounted ==
  /\ Cardinality(Retrying) \in Nat /\ Cardinality(Retrying') \in Nat
  /\ Retrying \subseteq Retrying' => Cardinality(Retrying) <= Cardinality(Retrying')
<1>1. IsFiniteSet(Retrying) /\ IsFiniteSet(Retrying')
  BY FS_Subset, ConnectionPoolAssumption DEF Retrying
<1> QED
  BY <1>1, FS_CardinalityType, FS_Subset

\* The queue after takeWaiter still holds every Waiter that is active.
LEMMA TakeWaiterQueued ==
  ASSUME TypeOK, ActiveQueued, NEW i \in DOMAIN pending, takeWaiter(i)
  PROVE  ActiveQueued' /\ \A d \in Calls : active'[d] => active[d]
<1> DEFINE n == Len(pending)
           rest == SubSeq(pending, i + 1, n)
<1>1. i \in 1..n /\ n \in Nat /\ DOMAIN pending = 1..n /\ active \in [Calls -> BOOLEAN]
      /\ \A k \in 1..n : pending[k] \in Calls
  BY DEF TypeOK
<1>2. pending' = rest /\ active' = [active EXCEPT ![pending[i]] = FALSE]
  BY DEF takeWaiter
<1>3. /\ rest \in Seq(Calls)
      /\ Len(rest) = IF i + 1 <= n THEN n - (i + 1) + 1 ELSE 0
      /\ \A k \in 1..(n - (i + 1) + 1) : rest[k] = pending[i + 1 + k - 1]
  <2>1. i + 1 \in Int /\ n \in Int /\ \A k \in (i + 1)..n : pending[k] \in Calls
    BY <1>1
  <2> HIDE DEF n
  <2> QED
    BY <2>1
<1> HIDE DEF rest, n
<1>4. DOMAIN rest = 1..(n - i)
  BY <1>1, <1>3
<1>5. \A d \in Calls : active'[d] => active[d] /\ d # pending[i]
  BY <1>1, <1>2
<1>6. ASSUME NEW d \in Calls, active'[d]
      PROVE  \E k \in DOMAIN pending' : pending'[k] = d
  <2>1. PICK j \in DOMAIN pending : pending[j] = d
    BY <1>5, <1>6 DEF ActiveQueued
  <2>2. i <= j /\ i # j
    BY <1>5, <1>6, <2>1 DEF takeWaiter, ActiveAt
  <2>3. j - i \in 1..(n - i) /\ j - i \in 1..(n - (i + 1) + 1) /\ i + 1 + (j - i) - 1 = j
    <3>1. i \in 1..n /\ j \in 1..n /\ n \in Nat
      BY <1>1
    <3> QED
      BY <2>2, <3>1
  <2>4. rest[j - i] = pending[j]
    BY <1>3, <2>3, Zenon
  <2> QED
    BY <1>2, <1>4, <2>1, <2>3, <2>4
<1> QED
  BY <1>5, <1>6 DEF ActiveQueued

LEMMA NoWaiterNobody ==
  ASSUME TypeOK, ActiveQueued, ActiveAt = {}
  PROVE  NobodyWaits
BY DEF ActiveAt, ActiveQueued, NobodyWaits

\* A step after which nobody waits who did not wait before.
LEMMA NobodyNew ==
  ASSUME WInv, \A d \in Calls : active'[d] => active[d],
         closed' = closed \/ NobodyWaits', idle' = <<>> \/ idle # <<>> \/ NobodyWaits',
         ActiveQueued' \/ NobodyWaits' \/ UNCHANGED pending,
         \A c \in Calls : pc'[c] = "rejecting" => closed',
         RoomSpokenFor'
  PROVE  WInv'
<1>1. NobodyWaits => NobodyWaits'
  BY DEF NobodyWaits
<1>2. ActiveQueued'
  BY DEF WInv, ActiveQueued, NobodyWaits
<1>3. (closed => NobodyWaits)' /\ (idle # <<>> => NobodyWaits)'
  BY <1>1 DEF WInv
<1> QED
  BY <1>2, <1>3 DEF WInv

\* No room comes to be, and no woken call goes back to sleep.
LEMMA NoRoomMade ==
  ASSUME TypeOK, TypeOK', WInv, \A d \in Calls : active'[d] => active[d],
         NobodyWaits' \/ openConnections <= openConnections', cancelled \subseteq cancelled',
         NobodyWaits' \/ Retrying \subseteq Retrying'
  PROVE  RoomSpokenFor'
<1>1. NobodyWaits => NobodyWaits'
  BY DEF NobodyWaits
<1> SUFFICES ASSUME cancelled' = {}, ~NobodyWaits'
             PROVE  maximumConnections <= openConnections' + Cardinality(Retrying')
  BY DEF RoomSpokenFor
<1>2. maximumConnections <= openConnections + Cardinality(Retrying)
  BY <1>1 DEF WInv, RoomSpokenFor
<1>3. Cardinality(Retrying) <= Cardinality(Retrying') /\ openConnections <= openConnections'
      /\ Cardinality(Retrying) \in Nat /\ Cardinality(Retrying') \in Nat
  BY RetryingCounted
<1>4. openConnections \in Nat /\ openConnections' \in Nat /\ maximumConnections \in Nat
  BY ConnectionPoolAssumption DEF TypeOK
<1> QED
  BY <1>2, <1>3, <1>4

\* wakeForCapacity wakes a call for the place that a connection leaves.
LEMMA WakeUsesRoom ==
  ASSUME IInv, IInv', WInv, NEW c \in Calls, pc[c] # "retry", pc[c] # "waiting",
         NEW y \in States \ {"retry", "rejecting"},
         wakeForCapacity([pc EXCEPT ![c] = y]),
         openConnections' >= openConnections - 1,
         UNCHANGED <<closed, cancelled>>, idle' = <<>> \/ idle # <<>>
  PROVE  WInv'
<1> DEFINE after == [pc EXCEPT ![c] = y]
<1>1. after[c] = y /\ \A d \in Calls : d # c => after[d] = pc[d]
  BY DEF IInv, TypeOK
<1>2. \A d \in Calls : active[d] => after[d] = "waiting" /\ pc[d] = "waiting"
  BY <1>1 DEF IInv, ActiveWaits
<1>3. after \in [Calls -> States]
  BY DEF IInv, TypeOK
<1>4. CASE pc' = after /\ UNCHANGED <<pending, active>> /\ closed
  <2>1. NobodyWaits'
    BY <1>4 DEF WInv, NobodyWaits
  <2>2. RoomSpokenFor'
    BY <2>1 DEF RoomSpokenFor
  <2> QED
    BY <1>1, <1>4, <2>1, <2>2, NobodyNew, Zenon DEF WInv
<1>5. CASE noWaiter /\ pc' = after
  <2>1. NobodyWaits /\ active' = active
    BY <1>5, NoWaiterNobody DEF noWaiter, IInv, WInv
  <2>2. NobodyWaits'
    BY <2>1 DEF NobodyWaits
  <2>3. RoomSpokenFor'
    BY <2>2 DEF RoomSpokenFor
  <2> QED
    BY <1>1, <1>5, <2>1, <2>2, <2>3, NobodyNew DEF WInv
<1>6. ASSUME NEW i \in DOMAIN pending, takeWaiter(i), pc' = [after EXCEPT ![pending[i]] = "retry"]
      PROVE  WInv'
  <2> DEFINE w == pending[i]
  <2>1. w \in Calls /\ active[w] /\ pc[w] = "waiting"
    BY <1>6, TakeWaiterEffect DEF IInv
  <2>2. ActiveQueued' /\ \A d \in Calls : active'[d] => active[d]
    BY <1>6, TakeWaiterQueued DEF IInv, WInv
  <2>3. pc'[w] = "retry" /\ \A d \in Calls : d # w => pc'[d] = after[d]
    BY <1>3, <1>6, <2>1
  <2> HIDE DEF w, after
  <2>4. Retrying' = Retrying \cup {w} /\ w \notin Retrying
    BY <1>1, <2>1, <2>3, Zenon DEF Retrying
  <2>5. Cardinality(Retrying') = Cardinality(Retrying) + 1 /\ Cardinality(Retrying) \in Nat
    <3>1. Retrying \in SUBSET Calls
      BY DEF Retrying
    <3> QED
      BY <2>1, <2>4, <3>1, CardMoves, Zenon
  <2>6. RoomSpokenFor'
    <3> SUFFICES ASSUME cancelled = {}
                 PROVE  maximumConnections <= openConnections' + Cardinality(Retrying')
      BY DEF RoomSpokenFor
    <3>1. maximumConnections <= openConnections + Cardinality(Retrying)
      BY <2>1 DEF WInv, RoomSpokenFor, NobodyWaits
    <3>2. openConnections \in Nat /\ openConnections' \in Nat /\ maximumConnections \in Nat
      BY ConnectionPoolAssumption DEF IInv, TypeOK
    <3> QED
      BY <2>5, <3>1, <3>2
  <2>7. \A d \in Calls : pc'[d] = "rejecting" => closed'
    BY <1>1, <2>3 DEF WInv
  <2> QED
    BY <2>2, <2>6, <2>7, NobodyNew, Zenon
<1> QED
  BY <1>4, <1>5, <1>6 DEF wakeForCapacity

LEMMA AcquireWaits ==
  ASSUME IInv, IInv', WInv, NEW c \in Calls, acquire(c)
  PROVE  WInv'
<1>1. pc[c] \in {"idle", "retry"} /\ UNCHANGED <<closed, cancelled>>
  BY DEF acquire
<1>2. ASSUME NEW y \in States, y # "rejecting", pc' = [pc EXCEPT ![c] = y]
      PROVE  /\ Retrying \ {c} \subseteq Retrying'
             /\ \A d \in Calls : pc'[d] = "rejecting" => closed'
  BY <1>1, <1>2 DEF IInv, TypeOK, Retrying, WInv
<1>3. CASE (closed \/ c \in cancelled) /\ pc' = [pc EXCEPT ![c] = "done"]
           /\ UNCHANGED <<openConnections, idle, pending, active>>
  <2>1. "done" \in States
    BY DEF States
  <2>2. RoomSpokenFor'
    BY <1>1, <1>3 DEF RoomSpokenFor, WInv, NobodyWaits
  <2> QED
    BY <1>1, <1>2, <1>3, <2>1, <2>2, NobodyNew, Zenon
<1>4. ASSUME NEW state \in {"discarding", "pinging", "leased"},
             idle # <<>>, pc' = [pc EXCEPT ![c] = state],
             UNCHANGED <<openConnections, pending, active>>
      PROVE  WInv'
  <2>1. state \in States /\ state # "rejecting"
    BY DEF States
  <2>2. NobodyWaits'
    BY <1>4 DEF WInv, NobodyWaits
  <2>3. RoomSpokenFor'
    BY <2>2 DEF RoomSpokenFor
  <2> QED
    BY <1>1, <1>2, <1>4, <2>1, <2>2, <2>3, NobodyNew, Zenon
<1>5. CASE openConnections' = openConnections + 1 /\ pc' = [pc EXCEPT ![c] = "opening"]
           /\ UNCHANGED <<idle, pending, active>>
  <2>1. "opening" \in States
    BY DEF States
  <2>2. ASSUME cancelled = {}, ~NobodyWaits
        PROVE  maximumConnections <= openConnections' + Cardinality(Retrying')
    <3>1. maximumConnections <= openConnections + Cardinality(Retrying)
      BY <2>2 DEF WInv, RoomSpokenFor
    <3>2. Retrying' = Retrying \ {c}
      BY <1>5 DEF IInv, TypeOK, Retrying
    <3>3. Cardinality(Retrying') >= Cardinality(Retrying) - 1 /\ Cardinality(Retrying) \in Nat
      <4>1. Retrying \in SUBSET Calls
        BY DEF Retrying
      <4>2. /\ Cardinality(Retrying) \in Nat
            /\ Cardinality(Retrying \ {c}) = Cardinality(Retrying) - (IF c \in Retrying THEN 1 ELSE 0)
        BY <4>1, CardMoves, Zenon
      <4> QED
        BY <3>2, <4>2
    <3>4. openConnections \in Nat /\ maximumConnections \in Nat /\ Cardinality(Retrying') \in Nat
      BY RetryingCounted, ConnectionPoolAssumption DEF IInv, TypeOK
    <3> QED
      BY <1>5, <3>1, <3>3, <3>4
  <2>3. RoomSpokenFor'
    BY <1>1, <1>5, <2>2 DEF RoomSpokenFor, NobodyWaits
  <2> QED
    BY <1>1, <1>2, <1>5, <2>1, <2>3, NobodyNew, Zenon
<1>6. CASE /\ ~closed /\ idle = <<>> /\ openConnections >= maximumConnections
           /\ pending' = Append(pending, c) /\ active' = [active EXCEPT ![c] = TRUE]
           /\ pc' = [pc EXCEPT ![c] = "waiting"] /\ UNCHANGED <<openConnections, idle>>
  <2>1. ActiveQueued'
    <3>1. /\ Len(pending) \in Nat /\ DOMAIN pending = 1..Len(pending)
          /\ DOMAIN pending' = 1..(Len(pending) + 1) /\ pending'[Len(pending) + 1] = c
          /\ \A k \in 1..Len(pending) : pending'[k] = pending[k]
      BY <1>6 DEF IInv, TypeOK
    <3>2. \A d \in Calls : active'[d] => d = c \/ active[d]
      BY <1>6 DEF IInv, TypeOK
    <3>3. \A k \in 1..Len(pending) : k \in 1..(Len(pending) + 1)
      BY <3>1
    <3>4. Len(pending) + 1 \in 1..(Len(pending) + 1)
      BY <3>1
    <3> QED
      BY <3>1, <3>2, <3>3, <3>4 DEF WInv, ActiveQueued
  <2>2. ~closed' /\ idle' = <<>>
    BY <1>1, <1>6
  <2>3. RoomSpokenFor'
    <3>1. /\ openConnections' \in Nat /\ maximumConnections <= openConnections'
          /\ maximumConnections \in Nat /\ Cardinality(Retrying') \in Nat
      BY <1>6, RetryingCounted, ConnectionPoolAssumption, Zenon DEF IInv, TypeOK
    <3>2. maximumConnections <= openConnections' + Cardinality(Retrying')
      BY <3>1
    <3> QED
      BY <3>2 DEF RoomSpokenFor
  <2>4. \A d \in Calls : pc'[d] = "rejecting" => closed'
    BY <1>2, <1>6 DEF States
  <2> QED
    BY <2>1, <2>2, <2>3, <2>4 DEF WInv
<1> QED
  BY <1>3, <1>4, <1>5, <1>6 DEF acquire, takeIdle

\* PoolState::release hands the connection on, or lets it rest beside nobody.
LEMMA ReleaseEntryWaits ==
  ASSUME IInv, IInv', WInv, NEW c \in Calls, NEW reusable, releaseEntry(c, reusable),
         pc[c] \in {"pinging", "leased"}, UNCHANGED cancelled
  PROVE  WInv'
<1>1. UNCHANGED <<closed, openConnections, closing>>
  BY DEF releaseEntry
<1>2. openConnections <= openConnections' /\ cancelled \subseteq cancelled'
  BY <1>1 DEF IInv, TypeOK
<1>3. ASSUME NEW y \in {"returning", "done"}, pc' = [pc EXCEPT ![c] = y], UNCHANGED active,
             UNCHANGED <<pending, idle>> \/ NobodyWaits'
      PROVE  WInv'
  <2>1. Retrying \subseteq Retrying' /\ \A d \in Calls : pc'[d] = "rejecting" => closed'
    BY <1>1, <1>3, Zenon DEF IInv, TypeOK, Retrying, WInv
  <2>2. RoomSpokenFor'
    BY <1>2, <1>3, <2>1, NoRoomMade DEF IInv
  <2> QED
    BY <1>1, <1>3, <2>1, <2>2, NobodyNew
<1>4. CASE pc' = [pc EXCEPT ![c] = "returning"] /\ UNCHANGED <<idle, pending, active, held>>
  BY <1>3, <1>4
<1>5. CASE noWaiter
  <2>1. NobodyWaits /\ active' = active
    BY <1>5, NoWaiterNobody DEF noWaiter, IInv, WInv
  <2>2. NobodyWaits'
    BY <2>1 DEF NobodyWaits
  <2>3. CASE \E y \in {"returning", "done"} : pc' = [pc EXCEPT ![c] = y]
    BY <1>3, <2>1, <2>2, <2>3, Zenon
  <2>4. CASE \E i \in DOMAIN pending : takeWaiter(i)
    BY <1>5, <2>4 DEF takeWaiter, noWaiter
  <2> QED
    BY <1>5, <2>3, <2>4 DEF releaseEntry
<1>6. ASSUME NEW i \in DOMAIN pending, takeWaiter(i), UNCHANGED idle,
             pc' = [pc EXCEPT ![c] = "done", ![pending[i]] = "granted"]
      PROVE  WInv'
  <2> DEFINE w == pending[i]
  <2>1. w \in Calls /\ pc[w] = "waiting"
    BY <1>6, TakeWaiterEffect, Zenon DEF IInv
  <2>2. ActiveQueued' /\ \A d \in Calls : active'[d] => active[d]
    BY <1>6, TakeWaiterQueued DEF IInv, WInv
  <2>3. pc'[w] = "granted" /\ \A d \in Calls : d # w => pc'[d] = IF d = c THEN "done" ELSE pc[d]
    BY <1>6, <2>1, Zenon DEF IInv, TypeOK
  <2> HIDE DEF w
  <2>4. Retrying \subseteq Retrying' /\ \A d \in Calls : pc'[d] = "rejecting" => closed'
    BY <1>1, <2>1, <2>3 DEF Retrying, WInv
  <2>5. RoomSpokenFor'
    BY <1>2, <2>2, <2>4, NoRoomMade, Zenon DEF IInv
  <2> QED
    BY <1>1, <1>6, <2>2, <2>4, <2>5, NobodyNew, Zenon
<1> QED
  BY <1>4, <1>5, <1>6 DEF releaseEntry

\* A call that is neither waiting nor woken goes on by itself.
LEMMA AloneWaits ==
  ASSUME IInv, IInv', WInv, NEW c \in Calls, NEW y \in States, pc[c] # "retry",
         pc' = [pc EXCEPT ![c] = y], y = "rejecting" => closed,
         UNCHANGED <<closed, openConnections, idle, pending, active, cancelled>>
  PROVE  WInv'
<1>1. Retrying \subseteq Retrying' /\ \A d \in Calls : pc'[d] = "rejecting" => closed'
  BY DEF IInv, TypeOK, Retrying, WInv
<1>2. RoomSpokenFor'
  BY <1>1, NoRoomMade DEF IInv, TypeOK
<1> QED
  BY <1>1, <1>2, NobodyNew

LEMMA RunWaits ==
  ASSUME IInv, IInv', WInv, NEW c \in Calls, run(c)
  PROVE  WInv'
<1> USE DEF States
<1>0. openConnections \in Nat /\ openConnections' \in Nat
  BY DEF IInv, TypeOK
<1>1. CASE opened(c)
  <2>1. pc[c] = "opening" /\ UNCHANGED <<closed, idle, cancelled>>
    BY <1>1 DEF opened
  <2>2. CASE openConnections' = openConnections - 1 /\ wakeForCapacity([pc EXCEPT ![c] = "done"])
    <3>1. openConnections' >= openConnections - 1
      BY <1>0, <2>2
    <3> QED
      BY <2>1, <2>2, <3>1, WakeUsesRoom
  <2>3. CASE /\ pc' = [pc EXCEPT ![c] = IF closed THEN "rejecting" ELSE "leased"]
             /\ UNCHANGED <<openConnections, pending, active>>
    BY <2>1, <2>3, AloneWaits, Zenon
  <2> QED
    BY <1>1, <2>2, <2>3 DEF opened
<1>2. CASE pinged(c)
  <2>1. pc[c] = "pinging" /\ UNCHANGED cancelled
    BY <1>2 DEF pinged
  <2>2. CASE \E y \in {"leased", "discarding"} :
               /\ pc' = [pc EXCEPT ![c] = y]
               /\ UNCHANGED <<closed, openConnections, idle, pending, active>>
    BY <2>1, <2>2, AloneWaits, Zenon
  <2>3. CASE \E reusable \in BOOLEAN : releaseEntry(c, reusable)
    BY <2>1, <2>3, ReleaseEntryWaits
  <2> QED
    BY <1>2, <2>2, <2>3 DEF pinged
<1>3. CASE discarded(c)
  <2>1. pc[c] = "discarding" /\ UNCHANGED <<closed, cancelled>>
    BY <1>3 DEF discarded
  <2>2. ASSUME NEW state \in {"discarding", "pinging", "leased"}, takeIdle(c, state),
               openConnections' = openConnections - 1, wakeForCapacity([pc EXCEPT ![c] = state])
        PROVE  WInv'
    <3>1. openConnections' >= openConnections - 1 /\ idle # <<>>
      BY <1>0, <2>2 DEF takeIdle
    <3> QED
      BY <2>1, <2>2, <3>1, WakeUsesRoom
  <2>3. CASE wakeForCapacity([pc EXCEPT ![c] = "opening"]) /\ UNCHANGED <<openConnections, idle>>
    <3>1. openConnections' >= openConnections - 1 /\ (idle' = <<>> \/ idle # <<>>)
      BY <1>0, <2>3
    <3> QED
      BY <2>1, <2>3, <3>1, WakeUsesRoom
  <2> QED
    BY <1>3, <2>2, <2>3 DEF discarded
<1>4. CASE returned(c)
  <2>1. /\ pc[c] \in {"rejecting", "returning"} /\ openConnections' = openConnections - 1
        /\ UNCHANGED <<closed, idle, cancelled>>
    BY <1>4 DEF returned
  <2>2. CASE pc[c] = "returning" /\ wakeForCapacity([pc EXCEPT ![c] = "done"])
    <3>1. openConnections' >= openConnections - 1
      BY <1>0, <2>1
    <3> QED
      BY <2>1, <2>2, <3>1, WakeUsesRoom
  <2>3. CASE /\ pc[c] = "rejecting" /\ pc' = [pc EXCEPT ![c] = "done"]
             /\ UNCHANGED <<pending, active>>
    <3>1. NobodyWaits'
      BY <2>3 DEF WInv, NobodyWaits
    <3>2. RoomSpokenFor'
      BY <3>1 DEF RoomSpokenFor
    <3>3. \A d \in Calls : pc'[d] = "rejecting" => closed'
      BY <2>1, <2>3 DEF WInv, IInv, TypeOK
    <3> QED
      BY <2>1, <2>3, <3>1, <3>2, <3>3, NobodyNew
  <2> QED
    BY <1>4, <2>1, <2>2, <2>3 DEF returned
<1>5. CASE resume(c)
  <2>1. /\ pc[c] \in {"granted", "thrown"}
        /\ \E y \in {"leased", "done"} : pc' = [pc EXCEPT ![c] = y]
        /\ UNCHANGED <<closed, openConnections, idle, pending, active, cancelled>>
    BY <1>5 DEF resume
  <2> QED
    BY <2>1, AloneWaits, Zenon
<1> QED
  BY <1>1, <1>2, <1>3, <1>4, <1>5 DEF run

\* A waiter that is struck waits no more; nobody else is concerned.
LEMMA StrikeWaits ==
  ASSUME IInv, IInv', WInv, NEW c \in Calls, strike(c), cancelled \subseteq cancelled',
         UNCHANGED <<closed, openConnections, idle, pending>>
  PROVE  WInv'
<1>1. \A d \in Calls : active'[d] => active[d]
  BY DEF strike, IInv, TypeOK
<1>2. pc' = [pc EXCEPT ![c] = IF active[c] THEN "thrown" ELSE pc[c]]
  BY DEF strike
<1>3. Retrying \subseteq Retrying' /\ \A d \in Calls : pc'[d] = "rejecting" => closed'
  BY <1>2 DEF IInv, TypeOK, ActiveWaits, Retrying, WInv
<1>4. openConnections <= openConnections'
  BY DEF IInv, TypeOK
<1>5. RoomSpokenFor'
  BY <1>1, <1>3, <1>4, NoRoomMade, Zenon DEF IInv
<1> QED
  BY <1>1, <1>3, <1>5, NobodyNew

LEMMA UseWaits ==
  ASSUME IInv, IInv', WInv, NEW c \in Calls, useLease(c) \/ endUse(c)
  PROVE  WInv'
<1>1. PICK l : setLease(c, l)
  BY Zenon DEF useLease, endUse
<1>2. CASE l.released /\ ~lease[c].released
  <2>1. \E fit : releaseEntry(c, l.reusable /\ fit)
    BY <1>1, <1>2 DEF setLease
  <2>2. pc[c] = "leased" /\ UNCHANGED cancelled
    BY <1>1, <1>2, Zenon DEF setLease, IInv, LeasedOut
  <2> QED
    BY <2>1, <2>2, ReleaseEntryWaits
<1>3. CASE ~(l.released /\ ~lease[c].released)
  <2>1. UNCHANGED <<closed, openConnections, idle, pending, active, pc, cancelled>>
    BY <1>1, <1>3 DEF setLease, poolVars
  <2> QED
    BY <2>1, Zenon DEF WInv, ActiveQueued, NobodyWaits, RoomSpokenFor, Retrying
<1> QED
  BY <1>2, <1>3

\* close: before its first suspension nobody waits, or all are rejected.
LEMMA CloseWaits ==
  ASSUME IInv, IInv', WInv, closeNext, closed' = TRUE
  PROVE  WInv'
<1>1. CASE idle # <<>> /\ UNCHANGED <<pending, active, pc>>
  <2>1. NobodyWaits'
    BY <1>1 DEF WInv, NobodyWaits
  <2>2. RoomSpokenFor'
    BY <2>1 DEF RoomSpokenFor
  <2> QED
    BY <1>1, <2>1, <2>2, NobodyNew
<1>2. CASE LET struck == {pending[i] : i \in ActiveAt}
           IN /\ active' = [c \in Calls |-> active[c] /\ c \notin struck]
              /\ pc' = [c \in Calls |-> IF c \in struck THEN "thrown" ELSE pc[c]]
  <2>1. \A d \in Calls : active[d] => d \in {pending[i] : i \in ActiveAt}
    BY DEF ActiveAt, WInv, ActiveQueued
  <2>2. NobodyWaits'
    BY <1>2, <2>1, Zenon DEF NobodyWaits
  <2>3. RoomSpokenFor'
    BY <2>2 DEF RoomSpokenFor
  <2>4. \A d \in Calls : active'[d] => active[d]
    BY <2>2 DEF NobodyWaits
  <2> QED
    BY <2>2, <2>3, <2>4, NobodyNew
<1> QED
  BY <1>1, <1>2 DEF closeNext

LEMMA NextWInv ==
  ASSUME IInv, IInv', WInv, [Next]_vars
  PROVE  WInv'
<1>1. ASSUME NEW c \in Calls, cancelToken(c) \/ timeout(c) PROVE WInv'
  BY <1>1, StrikeWaits DEF cancelToken, timeout
<1>2. CASE close
  BY <1>2, CloseWaits DEF close
<1>3. CASE closeResumes
  <2>1. closed
    BY <1>3 DEF closeResumes, IInv, ClosingMeansClosed
  <2> QED
    BY <1>3, <2>1, CloseWaits DEF closeResumes
<1>4. CASE UNCHANGED vars
  BY <1>4, Zenon DEF vars, poolVars, WInv, ActiveQueued, NobodyWaits, RoomSpokenFor, Retrying
<1> QED
  BY <1>1, <1>2, <1>3, <1>4, AcquireWaits, RunWaits, UseWaits DEF Next

\* Whoever waits for a connection has a reason to: none rests in the pool, the
\* pool is not closed and, as long as no token is cancelled, it is full or a
\* call woken by wakeForCapacity is about to take the room.
THEOREM ConnectionPoolWaitingIsJustified == Spec => []WaitingIsJustified
<1>1. Init => WInv
  BY DEF Init, WInv, ActiveQueued, NobodyWaits, RoomSpokenFor
<1>2. IInv /\ IInv' /\ WInv /\ [Next]_vars => WInv'
  BY NextWInv
<1>3. IInv /\ WInv => WaitingIsJustified
  <2> SUFFICES ASSUME IInv, WInv PROVE WaitingIsJustified
    OBVIOUS
  <2>1. WaitersHaveReason
    BY DEF WInv, NobodyWaits, WaitersHaveReason
  <2>2. ASSUME cancelled = {}, ~NobodyWaits
        PROVE  openConnections = maximumConnections \/ Retrying # {}
    <3>1. maximumConnections <= openConnections + Cardinality(Retrying)
      BY <2>2 DEF WInv, RoomSpokenFor
    <3>2. openConnections <= maximumConnections /\ openConnections \in Nat /\ maximumConnections \in Nat
      BY ConnectionPoolAssumption DEF IInv, WithinMaximum, TypeOK
    <3>3. Retrying = {} => Cardinality(Retrying) = 0
      BY FS_EmptySet
    <3> QED
      BY <3>1, <3>2, <3>3
  <2> QED
    BY <2>1, <2>2 DEF NobodyWaits, Retrying, RoomIsUsed, WaitingIsJustified
<1> QED
  BY <1>1, <1>2, <1>3, ConnectionPoolInvariant, PTL DEF Spec

=============================================================================
