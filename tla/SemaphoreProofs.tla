--------------------------- MODULE SemaphoreProofs ---------------------------
(****************************************************************************)
(* Proofs about Semaphore, for every set of calls and every limit.          *)
(****************************************************************************)
EXTENDS Semaphore, FiniteSetTheorems, SequenceTheorems, TLAPS

\* A Waiter is active exactly while its call is suspended and not yet woken.
ActiveIsSuspended ==
  \A c \in Calls : active[c] <=> pc[c] \in {"pending", "waiting"}

\* A call that waits for a slot stands in `pending`, and no call standing
\* there waits for waitForPending.
PendingQueued ==
  /\ \A c \in Calls : pc[c] = "pending" => \E i \in DOMAIN pending : pending[i] = c
  /\ \A i \in DOMAIN pending : pc[pending[i]] # "waiting" /\ pc[pending[i]] # "idle"
  /\ \A i \in DOMAIN waits : pc[waits[i]] # "pending" /\ pc[waits[i]] # "idle"

\* The inductive invariant.
IInv ==
  /\ TypeOK
  /\ ActiveIsSuspended
  /\ PendingQueued
  /\ SlotsAccounted
  /\ WithinLimit
  /\ NoFreeSlotWhileWaiting

USE DEF States

------------------------------------------------------------------------------
\* A set of calls is finite, and its cardinality counts one call more or less.
LEMMA HoldersFinite ==
  ASSUME NEW S, S \subseteq Calls
  PROVE  IsFiniteSet(S) /\ Cardinality(S) \in Nat
BY SemaphoreAssumption, FS_Subset, FS_CardinalityType

LEMMA AddHolder ==
  ASSUME NEW S, S \subseteq Calls, NEW c \in Calls, c \notin S
  PROVE  Cardinality(S \cup {c}) = Cardinality(S) + 1
BY HoldersFinite, FS_AddElement

LEMMA RemoveHolder ==
  ASSUME NEW S, S \subseteq Calls, NEW c \in S
  PROVE  Cardinality(S \ {c}) = Cardinality(S) - 1
BY HoldersFinite, FS_RemoveElement

\* Init establishes the invariant.
LEMMA InitIInv == Init => IInv
<1> SUFFICES ASSUME Init PROVE IInv
  OBVIOUS
<1>1. TypeOK
  BY EmptySeq DEF Init, TypeOK
<1>2. Holders = {}
  BY DEF Init, Holders
<1>3. SlotsAccounted /\ WithinLimit
  BY <1>2, FS_EmptySet, SemaphoreAssumption DEF SlotsAccounted, WithinLimit, Init
<1> QED
  BY <1>1, <1>3 DEF IInv, Init, ActiveIsSuspended, PendingQueued, NoFreeSlotWhileWaiting

\* Every step keeps it, one lemma per operation.
LEMMA WaitForStep ==
  ASSUME IInv, NEW c \in Calls, waitFor(c)
  PROVE  IInv'
<1> USE DEF IInv, TypeOK
<1>1. CASE cancelled[c]
  <2>1. /\ pc' = [pc EXCEPT ![c] = "done"] /\ pc[c] = "idle"
        /\ UNCHANGED <<ongoing, pending, active, waits, cancelled>>
    BY <1>1 DEF waitFor
  <2>2. Holders' = Holders
    BY <2>1 DEF Holders
  <2> QED
    BY <2>1, <2>2 DEF ActiveIsSuspended, PendingQueued, WithinLimit, NoFreeSlotWhileWaiting,
                      SlotsAccounted
<1>2. CASE ~cancelled[c] /\ ongoing >= concurrencyLimit
  <2>1. /\ pc' = [pc EXCEPT ![c] = "pending"] /\ pc[c] = "idle"
        /\ pending' = Append(pending, c)
        /\ active' = [active EXCEPT ![c] = TRUE]
        /\ UNCHANGED <<ongoing, waits, cancelled>>
    BY <1>2 DEF waitFor
  <2>2. Holders' = Holders
    BY <2>1 DEF Holders
  <2>3. TypeOK'
    BY <2>1
  <2>4. ActiveIsSuspended'
    BY <2>1 DEF ActiveIsSuspended
  <2>5. PendingQueued'
    <3>1. /\ DOMAIN pending = 1..Len(pending) /\ DOMAIN pending' = 1..(Len(pending) + 1)
          /\ Len(pending) \in Nat /\ pending'[Len(pending) + 1] = c
          /\ \A i \in 1..Len(pending) : pending'[i] = pending[i]
      BY <2>1
    <3>2. \A d \in Calls : pc'[d] = "pending" => \E i \in DOMAIN pending' : pending'[i] = d
      <4> SUFFICES ASSUME NEW d \in Calls, pc'[d] = "pending"
                   PROVE  \E i \in DOMAIN pending' : pending'[i] = d
        OBVIOUS
      <4>1. CASE d = c
        BY <3>1, <4>1
      <4>2. CASE d # c
        <5>1. pc[d] = "pending"
          BY <2>1, <4>2
        <5>2. PICK i \in DOMAIN pending : pending[i] = d
          BY <5>1 DEF PendingQueued
        <5> QED
          BY <3>1, <5>2
      <4> QED
        BY <4>1, <4>2
    <3>3. \A i \in DOMAIN pending' : pc'[pending'[i]] # "waiting" /\ pc'[pending'[i]] # "idle"
      <4> SUFFICES ASSUME NEW i \in DOMAIN pending'
                   PROVE  pc'[pending'[i]] # "waiting" /\ pc'[pending'[i]] # "idle"
        OBVIOUS
      <4>1. CASE i = Len(pending) + 1
        BY <2>1, <3>1, <4>1
      <4>2. CASE i # Len(pending) + 1
        <5>1. i \in DOMAIN pending /\ pending'[i] = pending[i]
          BY <3>1, <4>2
        <5>2. pc[pending[i]] # "waiting" /\ pc[pending[i]] # "idle" /\ pending[i] \in Calls
          BY <5>1 DEF PendingQueued
        <5> QED
          BY <2>1, <5>1, <5>2
      <4> QED
        BY <4>1, <4>2
    <3>4. \A i \in DOMAIN waits' : pc'[waits'[i]] # "pending" /\ pc'[waits'[i]] # "idle"
      BY <2>1 DEF PendingQueued
    <3> QED
      BY <3>2, <3>3, <3>4 DEF PendingQueued
  <2>6. WithinLimit' /\ NoFreeSlotWhileWaiting' /\ SlotsAccounted'
    BY <1>2, <2>1, <2>2, SemaphoreAssumption DEF WithinLimit, NoFreeSlotWhileWaiting, SlotsAccounted
  <2> QED
    BY <2>3, <2>4, <2>5, <2>6
<1>3. CASE ~cancelled[c] /\ ~(ongoing >= concurrencyLimit)
  <2>1. /\ pc' = [pc EXCEPT ![c] = "running"] /\ pc[c] = "idle"
        /\ ongoing' = ongoing + 1
        /\ UNCHANGED <<pending, active, waits, cancelled>>
    BY <1>3 DEF waitFor
  <2>2. Holders' = Holders \cup {c} /\ c \notin Holders /\ Holders \subseteq Calls
    BY <2>1 DEF Holders
  <2>3. Cardinality(Holders') = Cardinality(Holders) + 1 /\ Cardinality(Holders) \in Nat
    BY <2>2, AddHolder, HoldersFinite
  <2>4. WithinLimit' /\ SlotsAccounted'
    BY <1>3, <2>1, <2>3, SemaphoreAssumption DEF WithinLimit, SlotsAccounted
  <2>5. ~ \E d \in Calls : pc[d] = "pending"
    BY <1>3, SemaphoreAssumption DEF NoFreeSlotWhileWaiting
  <2>6. NoFreeSlotWhileWaiting'
    BY <2>1, <2>5 DEF NoFreeSlotWhileWaiting
  <2> QED
    BY <2>1, <2>4, <2>6 DEF ActiveIsSuspended, PendingQueued
<1> QED
  BY <1>1, <1>2, <1>3

LEMMA WaitForPendingStep ==
  ASSUME IInv, NEW c \in Calls, waitForPending(c)
  PROVE  IInv'
<1> USE DEF IInv, TypeOK
<1>1. Holders' = Holders
  BY DEF Holders, waitForPending
<1>2. CASE ongoing < concurrencyLimit \/ cancelled[c]
  <2>1. /\ pc' = [pc EXCEPT ![c] = "done"] /\ pc[c] = "idle"
        /\ UNCHANGED <<ongoing, pending, active, waits, cancelled>>
    BY <1>2 DEF waitForPending
  <2> QED
    BY <1>1, <2>1 DEF ActiveIsSuspended, PendingQueued, WithinLimit, NoFreeSlotWhileWaiting,
                      SlotsAccounted
<1>3. CASE ~(ongoing < concurrencyLimit \/ cancelled[c])
  <2>1. /\ pc' = [pc EXCEPT ![c] = "waiting"] /\ pc[c] = "idle"
        /\ waits' = Append(waits, c)
        /\ active' = [active EXCEPT ![c] = TRUE]
        /\ UNCHANGED <<ongoing, pending, cancelled>>
    BY <1>3 DEF waitForPending
  <2>2. TypeOK'
    BY <2>1
  <2>3. ActiveIsSuspended'
    BY <2>1 DEF ActiveIsSuspended
  <2>4. PendingQueued'
    BY <2>1 DEF PendingQueued
  <2>5. WithinLimit' /\ NoFreeSlotWhileWaiting' /\ SlotsAccounted'
    BY <1>1, <2>1 DEF WithinLimit, NoFreeSlotWhileWaiting, SlotsAccounted
  <2> QED
    BY <2>2, <2>3, <2>4, <2>5
<1> QED
  BY <1>2, <1>3

LEMMA ResumeStep ==
  ASSUME IInv, NEW c \in Calls, resume(c)
  PROVE  IInv'
<1> USE DEF IInv, TypeOK
<1>1. Holders' = Holders
  BY DEF Holders, resume
<1>2. TypeOK'
  BY DEF resume
<1>3. ActiveIsSuspended'
  BY DEF resume, ActiveIsSuspended
<1>4. PendingQueued'
  BY DEF resume, PendingQueued
<1>5. WithinLimit' /\ NoFreeSlotWhileWaiting' /\ SlotsAccounted'
  BY <1>1 DEF resume, WithinLimit, NoFreeSlotWhileWaiting, SlotsAccounted
<1> QED
  BY <1>2, <1>3, <1>4, <1>5

\* releaseSlot hands the slot to the first active waiter: one holder leaves,
\* one enters.
LEMMA HandOverStep ==
  ASSUME IInv, NEW c \in Calls, pc[c] = "running",
         NEW i \in ActiveAt(pending),
         \A j \in ActiveAt(pending) : i <= j,
         pending' = SubSeq(pending, i + 1, Len(pending)),
         active' = [active EXCEPT ![pending[i]] = FALSE],
         pc' = [pc EXCEPT ![c] = "done", ![pending[i]] = "resumed"],
         UNCHANGED <<ongoing, waits, cancelled>>
  PROVE  IInv'
<1> USE DEF IInv, TypeOK
<1> DEFINE w == pending[i]
<1>1. /\ i \in 1..Len(pending) /\ w \in Calls /\ active[w]
      /\ pc[w] = "pending" /\ w # c
  BY DEF ActiveAt, ActiveIsSuspended, PendingQueued
<1>2. /\ pending' \in Seq(Calls) /\ Len(pending') = Len(pending) - i
      /\ \A k \in 1..Len(pending') : pending'[k] = pending[k + i]
  BY <1>1, SubSeqProperties
<1>3. TypeOK'
  BY <1>1, <1>2, Zenon
<1>4. ActiveIsSuspended'
  BY <1>1 DEF ActiveIsSuspended
<1>5. PendingQueued'
  <2>1. \A d \in Calls : pc'[d] = "pending" => \E k \in DOMAIN pending' : pending'[k] = d
    <3> SUFFICES ASSUME NEW d \in Calls, pc'[d] = "pending"
                 PROVE  \E k \in DOMAIN pending' : pending'[k] = d
      BY Zenon
    <3>1. pc[d] = "pending" /\ d # w /\ active[d]
      BY <1>1 DEF ActiveIsSuspended
    <3>2. PICK j \in DOMAIN pending : pending[j] = d
      BY <3>1 DEF PendingQueued
    <3>3. j \in ActiveAt(pending) /\ j # i /\ j \in 1..Len(pending)
      BY <3>1, <3>2 DEF ActiveAt
    <3>4. i < j
      BY <1>1, <3>3
    <3> DEFINE n == Len(pending)
    <3>5. Len(pending') = n - i /\ n \in Nat
      BY <1>2
    <3> HIDE DEF n, IInv, TypeOK
    <3>6. j - i \in 1..(n - i) /\ (j - i) + i = j
      BY <1>1, <3>3, <3>4, <3>5 DEF n
    <3>7. pending'[j - i] = d
      BY <1>2, <3>2, <3>6, <3>5, Zenon
    <3> QED
      BY <1>2, <3>6, <3>7, <3>5
  <2>2. \A k \in DOMAIN pending' : pc'[pending'[k]] # "waiting" /\ pc'[pending'[k]] # "idle"
    BY <1>1, <1>2 DEF PendingQueued
  <2>3. \A k \in DOMAIN waits' : pc'[waits'[k]] # "pending" /\ pc'[waits'[k]] # "idle"
    BY <1>1 DEF PendingQueued
  <2> QED
    BY <2>1, <2>2, <2>3, Zenon DEF PendingQueued
<1>6. WithinLimit' /\ SlotsAccounted'
  <2>1. /\ Holders' = (Holders \ {c}) \cup {w}
        /\ c \in Holders /\ w \notin Holders \ {c} /\ Holders \subseteq Calls
    BY <1>1 DEF Holders
  <2>2. Cardinality(Holders \ {c}) = Cardinality(Holders) - 1
    BY <2>1, RemoveHolder
  <2>3. Cardinality(Holders') = Cardinality(Holders \ {c}) + 1
    BY <1>1, <2>1, AddHolder, Zenon
  <2>4. Cardinality(Holders) \in Nat
    BY <2>1, HoldersFinite
  <2> QED
    BY <2>2, <2>3, <2>4 DEF WithinLimit, SlotsAccounted
<1>7. NoFreeSlotWhileWaiting'
  BY <1>1 DEF NoFreeSlotWhileWaiting
<1> QED
  BY <1>3, <1>4, <1>5, <1>6, <1>7

\* releaseSlot gives the slot back: no call was waiting for one.
LEMMA GiveBackStep ==
  ASSUME IInv, NEW c \in Calls, pc[c] = "running",
         NEW woken, woken = {waits[i] : i \in ActiveAt(waits)},
         ActiveAt(pending) = {},
         pending' = <<>>,
         ongoing' = ongoing - 1,
         waits' = <<>>,
         active' = [d \in Calls |-> active[d] /\ d \notin woken],
         pc' = [d \in Calls |-> IF d = c THEN "done"
                               ELSE IF d \in woken THEN "notified" ELSE pc[d]],
         UNCHANGED cancelled
  PROVE  IInv'
<1> USE DEF IInv, TypeOK
<1>1. \A d \in woken : d \in Calls /\ active[d] /\ pc[d] = "waiting"
  BY DEF ActiveAt, ActiveIsSuspended, PendingQueued
<1>2. \A d \in Calls : pc[d] # "pending"
  BY DEF ActiveAt, ActiveIsSuspended, PendingQueued
<1>3. Holders' = Holders \ {c} /\ c \in Holders /\ Holders \subseteq Calls
  BY <1>1 DEF Holders
<1>4. Cardinality(Holders') = Cardinality(Holders) - 1
  BY <1>3, RemoveHolder
<1>5. Cardinality(Holders) \in Nat /\ Cardinality(Holders') \in Nat
  BY <1>3, HoldersFinite
<1>6. WithinLimit' /\ ongoing' \in Nat /\ SlotsAccounted'
  BY <1>4, <1>5, SemaphoreAssumption DEF WithinLimit, SlotsAccounted
<1>7. TypeOK'
  BY <1>6, EmptySeq
<1>8. ActiveIsSuspended'
  BY <1>1 DEF ActiveIsSuspended
<1>9. PendingQueued' /\ NoFreeSlotWhileWaiting'
  BY <1>2 DEF PendingQueued, NoFreeSlotWhileWaiting
<1> QED
  BY <1>6, <1>7, <1>8, <1>9

LEMMA FinishStep ==
  ASSUME IInv, NEW c \in Calls, finish(c)
  PROVE  IInv'
BY HandOverStep, GiveBackStep, Zenon DEF finish, releaseSlot

LEMMA CancelStep ==
  ASSUME IInv, cancel
  PROVE  IInv'
<1> USE DEF IInv, TypeOK
<1> DEFINE struck == {pending[i] : i \in ActiveAt(pending)}
<1>1. \A d \in struck : d \in Calls /\ active[d] /\ pc[d] = "pending"
  BY DEF ActiveAt, ActiveIsSuspended, PendingQueued
<1>2. \A d \in Calls : pc[d] = "pending" => d \in struck
  BY DEF ActiveAt, ActiveIsSuspended, PendingQueued
<1> HIDE DEF struck
<1>3. /\ pending' = <<>>
      /\ active' = [c \in Calls |-> active[c] /\ c \notin struck]
      /\ pc' = [c \in Calls |-> IF c \in struck THEN "thrown" ELSE pc[c]]
      /\ UNCHANGED <<ongoing, waits, cancelled>>
  BY DEF cancel, struck
<1>4. Holders' = Holders
  BY <1>1, <1>3 DEF Holders
<1>5. TypeOK'
  BY <1>3, EmptySeq
<1>6. ActiveIsSuspended'
  BY <1>1, <1>3, Zenon DEF ActiveIsSuspended
<1>7. PendingQueued'
  BY <1>1, <1>2, <1>3 DEF PendingQueued
<1>8. WithinLimit' /\ NoFreeSlotWhileWaiting' /\ SlotsAccounted'
  BY <1>3, <1>4 DEF WithinLimit, NoFreeSlotWhileWaiting, SlotsAccounted
<1> QED
  BY <1>5, <1>6, <1>7, <1>8

LEMMA CancelTokenStep ==
  ASSUME IInv, NEW c \in Calls, cancelToken(c)
  PROVE  IInv'
<1> USE DEF IInv, TypeOK
<1>1. Holders' = Holders
  BY DEF Holders, cancelToken, ActiveIsSuspended
<1>2. TypeOK'
  BY DEF cancelToken
<1>3. ActiveIsSuspended'
  BY DEF cancelToken, ActiveIsSuspended
<1>4. PendingQueued'
  BY DEF cancelToken, PendingQueued
<1>5. WithinLimit' /\ NoFreeSlotWhileWaiting' /\ SlotsAccounted'
  BY <1>1 DEF cancelToken, WithinLimit, NoFreeSlotWhileWaiting, SlotsAccounted
<1> QED
  BY <1>2, <1>3, <1>4, <1>5

\* A call made outside a task may take its slot with it.
LEMMA InterruptStep ==
  ASSUME IInv, NEW c \in Calls, interrupt(c)
  PROVE  IInv'
<1> USE DEF IInv, TypeOK
<1>1. Holders' = Holders
  BY DEF Holders, interrupt
<1>2. SlotsAccounted' /\ WithinLimit'
  BY <1>1 DEF SlotsAccounted, WithinLimit, interrupt
<1>3. TypeOK'
  BY DEF interrupt
<1>4. ActiveIsSuspended' /\ PendingQueued' /\ NoFreeSlotWhileWaiting'
  BY DEF interrupt, ActiveIsSuspended, PendingQueued, NoFreeSlotWhileWaiting
<1> QED
  BY <1>2, <1>3, <1>4

\* The inductive step.
LEMMA NextIInv ==
  ASSUME IInv, [Next]_vars
  PROVE  IInv'
<1>1. CASE UNCHANGED vars
  BY <1>1 DEF vars, IInv, TypeOK, ActiveIsSuspended, PendingQueued, WithinLimit, Holders,
              NoFreeSlotWhileWaiting, SlotsAccounted
<1> QED
  BY <1>1, WaitForStep, WaitForPendingStep, ResumeStep, FinishStep, CancelStep,
     CancelTokenStep, InterruptStep DEF Next

------------------------------------------------------------------------------
\* TypeOK and the strengthened invariant hold in every reachable state.
THEOREM SemaphoreInvariant == Spec => []IInv
<1>1. IInv /\ [Next]_vars => IInv'
  BY NextIInv
<1> QED
  BY InitIInv, <1>1, PTL DEF Spec

\* Every variable keeps its type.
THEOREM SemaphoreTypeOK == Spec => []TypeOK
<1>1. IInv => TypeOK
  BY DEF IInv
<1> QED
  BY SemaphoreInvariant, <1>1, PTL

\* The calls that run never exceed the limit, calls made outside tasks
\* included.
THEOREM SemaphoreWithinLimit == Spec => []WithinLimit
<1>1. IInv => WithinLimit
  BY DEF IInv
<1> QED
  BY SemaphoreInvariant, <1>1, PTL

\* waitFor makes a call wait only while every slot is taken, and releaseSlot
\* frees no slot while a call waits.
THEOREM SemaphoreNoFreeSlotWhileWaiting == Spec => []NoFreeSlotWhileWaiting
<1>1. IInv => NoFreeSlotWhileWaiting
  BY DEF IInv
<1> QED
  BY SemaphoreInvariant, <1>1, PTL

\* `ongoing` counts the calls that own a slot: releaseSlot gives back or hands
\* on each slot once, calls made outside tasks included.
THEOREM SemaphoreSlotsAccounted == Spec => []SlotsAccounted
<1>1. IInv => SlotsAccounted
  BY DEF IInv
<1> QED
  BY SemaphoreInvariant, <1>1, PTL

\* The slots are accounted for and within the limit, for any finite set of calls
\* and any limit.
THEOREM SemaphoreSlotsSound == Spec => []SlotsSound
  BY SemaphoreTypeOK, SemaphoreSlotsAccounted, SemaphoreWithinLimit, PTL DEF SlotsSound

------------------------------------------------------------------------------
(* The refinement of ConcurrencyLimit.                                      *)

\* No call stands in `pending` twice: its stale Waiter stays there, but it
\* never waits again.
OnceInPending == \A i, j \in DOMAIN pending : pending[i] = pending[j] => i = j

\* What is left of `pending` after its first i entries.
LEMMA RestOfPending ==
  ASSUME TypeOK, NEW i \in DOMAIN pending
  PROVE  LET rest == SubSeq(pending, i + 1, Len(pending))
         IN  /\ rest \in Seq(Calls)
             /\ DOMAIN rest = 1..(Len(pending) - i)
             /\ \A k \in DOMAIN rest : k + i \in DOMAIN pending /\ rest[k] = pending[k + i]
             /\ \A j \in DOMAIN pending :
                  i < j => j - i \in DOMAIN rest /\ rest[j - i] = pending[j]
<1> DEFINE n == Len(pending)
           rest == SubSeq(pending, i + 1, n)
<1>1. i \in 1..n /\ n \in Nat /\ DOMAIN pending = 1..n
  BY DEF TypeOK
<1>2. /\ rest \in Seq(Calls) /\ Len(rest) = n - i
      /\ \A k \in 1..(n - i) : rest[k] = pending[k + i]
  <2>1. i + 1 \in Int /\ n \in Int /\ \A k \in (i + 1)..n : pending[k] \in Calls
    BY <1>1 DEF TypeOK
  <2> HIDE DEF n
  <2>2. /\ rest \in Seq(Calls)
        /\ Len(rest) = IF i + 1 <= n THEN n - (i + 1) + 1 ELSE 0
        /\ \A k \in 1..(n - (i + 1) + 1) : rest[k] = pending[i + 1 + k - 1]
    BY <2>1, SubSeqProperties
  <2> HIDE DEF rest
  <2>3. Len(rest) = n - i
    BY <1>1, <2>2
  <2>4. ASSUME NEW k \in 1..(n - i) PROVE rest[k] = pending[k + i]
    <3>1. k \in 1..(n - (i + 1) + 1) /\ i + 1 + k - 1 = k + i
      BY <1>1, <2>4
    <3> QED
      BY <2>2, <3>1, Zenon
  <2> QED
    BY <2>2, <2>3, <2>4
<1>3. DOMAIN rest = 1..(n - i)
  BY <1>2
<1> HIDE DEF rest, n
<1>4. \A k \in 1..(n - i) : k + i \in 1..n
  BY <1>1
<1>5. ASSUME NEW j \in 1..n, i < j
      PROVE  j - i \in 1..(n - i) /\ rest[j - i] = pending[j]
  <2>1. j - i \in 1..(n - i) /\ (j - i) + i = j
    BY <1>1, <1>5
  <2> QED
    BY <1>2, <2>1, Zenon
<1> QED
  BY <1>1, <1>2, <1>3, <1>4, <1>5 DEF rest, n

LEMMA NextOnceInPending ==
  ASSUME IInv, OnceInPending, [Next]_vars
  PROVE  OnceInPending'
<1>1. CASE pending' = pending
  BY <1>1 DEF OnceInPending
<1>2. CASE pending' = <<>>
  BY <1>2 DEF OnceInPending
<1>3. ASSUME NEW c \in Calls, pc[c] = "idle", pending' = Append(pending, c)
      PROVE  OnceInPending'
  <2>1. /\ pending \in Seq(Calls) /\ Len(pending) \in Nat
        /\ DOMAIN pending = 1..Len(pending) /\ DOMAIN pending' = 1..(Len(pending) + 1)
        /\ pending'[Len(pending) + 1] = c
        /\ \A k \in 1..Len(pending) : pending'[k] = pending[k]
    BY <1>3 DEF IInv, TypeOK
  <2>2. \A k \in 1..Len(pending) : pending[k] # c
    BY <1>3, <2>1 DEF IInv, PendingQueued
  <2> QED
    BY <2>1, <2>2 DEF OnceInPending
<1>4. ASSUME NEW i \in DOMAIN pending, pending' = SubSeq(pending, i + 1, Len(pending))
      PROVE  OnceInPending'
  <2> SUFFICES ASSUME NEW j \in DOMAIN pending', NEW k \in DOMAIN pending',
                      pending'[j] = pending'[k]
               PROVE  j = k
    BY DEF OnceInPending
  <2>1. /\ j + i \in DOMAIN pending /\ pending'[j] = pending[j + i]
        /\ k + i \in DOMAIN pending /\ pending'[k] = pending[k + i]
    BY <1>4, RestOfPending, Zenon DEF IInv
  <2>2. j + i = k + i
    BY <2>1, Zenon DEF OnceInPending
  <2>3. i \in Nat /\ j \in Nat /\ k \in Nat
    <3>1. i \in Nat /\ Len(pending) \in Nat
      BY DEF IInv, TypeOK
    <3>2. DOMAIN pending' = 1..(Len(pending) - i)
      BY <1>4, RestOfPending DEF IInv
    <3> QED
      BY <3>1, <3>2
  <2> QED
    BY <2>2, <2>3
<1>5. ASSUME NEW c \in Calls, releaseSlot(c)
      PROVE  OnceInPending'
  BY <1>2, <1>4, <1>5 DEF releaseSlot, ActiveAt
<1>6. ASSUME NEW c \in Calls, waitFor(c)
      PROVE  OnceInPending'
  BY <1>1, <1>3, <1>6 DEF waitFor
<1> QED
  BY <1>1, <1>2, <1>5, <1>6
     DEF Next, vars, waitForPending, resume, finish, cancelToken, interrupt, cancel

\* The calls that wait are those with an active Waiter in `pending`.
LEMMA WaitingIsActive ==
  ASSUME IInv
  PROVE  /\ \A i \in ActiveAt(pending) : i \in DOMAIN pending /\ pending[i] \in Waiting
         /\ \A c \in Waiting : \E i \in ActiveAt(pending) : pending[i] = c
         /\ Ahead \subseteq Waiting \X Waiting
<1>1. \A i \in ActiveAt(pending) : i \in DOMAIN pending /\ pending[i] \in Waiting
  BY DEF IInv, TypeOK, ActiveAt, ActiveIsSuspended, PendingQueued, Waiting
<1>2. \A c \in Waiting : \E i \in ActiveAt(pending) : pending[i] = c
  BY DEF IInv, TypeOK, ActiveAt, ActiveIsSuspended, PendingQueued, Waiting
<1> QED
  BY <1>1, <1>2 DEF Ahead

\* A step that leaves `pending` and the calls in it alone leaves the order.
LEMMA AheadUnchanged ==
  ASSUME IInv, pending' = pending, \A i \in DOMAIN pending : active'[pending[i]] = active[pending[i]]
  PROVE  Ahead' = Ahead
<1>1. ActiveAt(pending)' = ActiveAt(pending)
  BY DEF ActiveAt
<1> QED
  BY <1>1 DEF Ahead

\* waitFor: the call takes a slot that nobody waits for, joins the queue, or
\* leaves at once.
LEMMA WaitForRefines ==
  ASSUME IInv, NEW c \in Calls, waitFor(c)
  PROVE  [Limit!Next]_Limit!vars
<1> USE DEF IInv, TypeOK
<1>1. pc[c] = "idle" /\ c \notin Holders /\ c \notin Waiting
      /\ \A i \in DOMAIN pending : pending[i] # c
  BY DEF waitFor, Holders, Waiting, PendingQueued
<1>2. CASE cancelled[c]
  <2>1. pc' = [pc EXCEPT ![c] = "done"] /\ UNCHANGED <<pending, active>>
    BY <1>2 DEF waitFor
  <2>2. Holders' = Holders /\ Waiting' = Waiting
    BY <1>1, <2>1 DEF Holders, Waiting
  <2>3. Ahead' = Ahead
    BY <2>1, AheadUnchanged
  <2> QED
    BY <2>2, <2>3 DEF Limit!vars
<1>3. CASE ~cancelled[c] /\ ongoing >= concurrencyLimit
  <2>1. /\ pc' = [pc EXCEPT ![c] = "pending"]
        /\ pending' = Append(pending, c)
        /\ active' = [active EXCEPT ![c] = TRUE]
    BY <1>3 DEF waitFor
  <2>2. Holders' = Holders /\ Waiting' = Waiting \cup {c}
    BY <1>1, <2>1 DEF Holders, Waiting
  <2>3. Cardinality(Holders) = concurrencyLimit
    BY <1>3, SemaphoreAssumption DEF SlotsAccounted, WithinLimit
  <2> DEFINE n == Len(pending)
  <2>4. /\ n \in Nat /\ DOMAIN pending = 1..n /\ DOMAIN pending' = 1..(n + 1)
        /\ pending'[n + 1] = c /\ \A k \in 1..n : pending'[k] = pending[k]
        /\ \A k \in 1..n : pending[k] \in Calls
    BY <2>1
  <2> HIDE DEF n, IInv, TypeOK
  <2>5. ActiveAt(pending)' = ActiveAt(pending) \cup {n + 1}
    <3>1. active \in [Calls -> BOOLEAN]
      BY DEF IInv, TypeOK
    <3>2. \A k \in 1..n : active'[pending'[k]] = active[pending[k]]
      BY <1>1, <2>1, <2>4, <3>1, Zenon
    <3>3. active'[pending'[n + 1]]
      BY <2>1, <2>4, <3>1
    <3> QED
      BY <2>4, <3>2, <3>3 DEF ActiveAt
  <2>6. \A k \in ActiveAt(pending) : k \in 1..n
    BY <2>4 DEF ActiveAt
  <2>7. Ahead' = Ahead \cup (Waiting \X {c})
    <3>1. ASSUME NEW pair \in Ahead' PROVE pair \in Ahead \cup (Waiting \X {c})
      <4>1. PICK i \in ActiveAt(pending)', j \in ActiveAt(pending)' :
                   i < j /\ pair = <<pending'[i], pending'[j]>> /\ pair \in Calls \X Calls
        BY <3>1 DEF Ahead
      <4>2. i \in ActiveAt(pending)
        BY <2>4, <2>5, <2>6, <4>1
      <4>3. CASE j = n + 1
        BY <2>4, <2>6, <4>1, <4>2, <4>3, WaitingIsActive
      <4>4. CASE j # n + 1
        BY <2>4, <2>5, <2>6, <4>1, <4>2, <4>4 DEF Ahead
      <4> QED
        BY <4>3, <4>4
    <3>2. ASSUME NEW pair \in Ahead PROVE pair \in Ahead'
      <4>1. PICK i \in ActiveAt(pending), j \in ActiveAt(pending) :
                   i < j /\ pair = <<pending[i], pending[j]>> /\ pair \in Calls \X Calls
        BY <3>2 DEF Ahead
      <4> QED
        BY <2>4, <2>5, <2>6, <4>1 DEF Ahead
    <3>3. ASSUME NEW d \in Waiting PROVE <<d, c>> \in Ahead'
      <4>1. PICK i \in ActiveAt(pending) : pending[i] = d
        BY WaitingIsActive
      <4>2. i \in ActiveAt(pending)' /\ n + 1 \in ActiveAt(pending)' /\ i < n + 1
        BY <2>4, <2>5, <2>6, <4>1
      <4>3. <<d, c>> = <<pending'[i], pending'[n + 1]>> /\ <<d, c>> \in Calls \X Calls
        BY <2>4, <2>6, <4>1 DEF Waiting
      <4> QED
        BY <4>2, <4>3 DEF Ahead
    <3> QED
      BY <3>1, <3>2, <3>3
  <2>8. Limit!Join(c)
    BY <1>1, <2>2, <2>3, <2>7 DEF Limit!Join, Limit!Cardinality, Cardinality
  <2> QED
    BY <2>8 DEF Limit!Next
<1>4. CASE ~cancelled[c] /\ ~(ongoing >= concurrencyLimit)
  <2>1. pc' = [pc EXCEPT ![c] = "running"] /\ UNCHANGED <<pending, active>>
    BY <1>4 DEF waitFor
  <2>2. Waiting = {} /\ Cardinality(Holders) < concurrencyLimit
    BY <1>4, SemaphoreAssumption DEF NoFreeSlotWhileWaiting, Waiting, SlotsAccounted
  <2>3. Holders' = Holders \cup {c} /\ Waiting' = Waiting
    BY <1>1, <2>1 DEF Holders, Waiting
  <2>4. Ahead' = Ahead
    BY <2>1, AheadUnchanged
  <2>5. Limit!Acquire(c)
    BY <1>1, <2>2, <2>3, <2>4 DEF Limit!Acquire, Limit!Cardinality, Cardinality
  <2> QED
    BY <2>5 DEF Limit!Next
<1> QED
  BY <1>2, <1>3, <1>4

\* releaseSlot hands the slot to the one that came first.
LEMMA HandOverRefines ==
  ASSUME IInv, OnceInPending, NEW c \in Calls, pc[c] = "running",
         NEW i \in ActiveAt(pending),
         \A j \in ActiveAt(pending) : i <= j,
         pending' = SubSeq(pending, i + 1, Len(pending)),
         active' = [active EXCEPT ![pending[i]] = FALSE],
         pc' = [pc EXCEPT ![c] = "done", ![pending[i]] = "resumed"]
  PROVE  Limit!Release(c)
<1> DEFINE w == pending[i]
<1>1. /\ i \in DOMAIN pending /\ w \in Waiting /\ w \in Calls /\ pc[w] = "pending"
      /\ c \in Holders /\ w # c /\ pc \in [Calls -> States] /\ active \in [Calls -> BOOLEAN]
      /\ \A k \in DOMAIN pending : pending[k] \in Calls
  BY WaitingIsActive DEF Waiting, Holders, IInv, TypeOK
<1>2. /\ DOMAIN pending \subseteq Nat /\ DOMAIN pending' \subseteq Nat
      /\ \A k \in DOMAIN pending' : k + i \in DOMAIN pending /\ pending'[k] = pending[k + i]
      /\ \A j \in DOMAIN pending : i < j => j - i \in DOMAIN pending' /\ pending'[j - i] = pending[j]
  <2>1. DOMAIN pending \subseteq Nat /\ i \in Nat /\ Len(pending) \in Nat
    BY <1>1 DEF IInv, TypeOK
  <2>2. DOMAIN pending' = 1..(Len(pending) - i)
    BY <1>1, RestOfPending DEF IInv
  <2>3. DOMAIN pending' \subseteq Nat
    BY <2>1, <2>2
  <2> QED
    BY <1>1, <2>1, <2>3, RestOfPending DEF IInv
<1>3. Holders' = (Holders \ {c}) \cup {w} /\ Waiting' = Waiting \ {w}
  BY <1>1 DEF Holders, Waiting
<1>4. \A d \in Waiting : <<d, w>> \notin Ahead
  <2> SUFFICES ASSUME NEW d \in Waiting, NEW a \in ActiveAt(pending), NEW b \in ActiveAt(pending),
                      a < b, <<d, w>> = <<pending[a], pending[b]>>
               PROVE  FALSE
    BY DEF Ahead
  <2>1. b = i
    BY <1>1 DEF OnceInPending, ActiveAt
  <2>2. i <= a /\ a \in Nat /\ i \in Nat
    BY <1>1, <1>2 DEF ActiveAt
  <2> QED
    BY <2>1, <2>2
<1>5. \A j \in DOMAIN pending :
        j \in ActiveAt(pending) /\ pending[j] # w <=> i < j /\ j - i \in ActiveAt(pending)'
  <2> SUFFICES ASSUME NEW j \in DOMAIN pending
               PROVE  j \in ActiveAt(pending) /\ pending[j] # w
                        <=> i < j /\ j - i \in ActiveAt(pending)'
    OBVIOUS
  <2>1. j \in ActiveAt(pending) /\ pending[j] # w => i < j
    BY <1>1, <1>2
  <2>2. i < j => pending[j] # w
    BY <1>1, <1>2 DEF OnceInPending
  <2>3. i < j => (j - i \in ActiveAt(pending)' <=> active'[pending[j]])
    BY <1>2, Zenon DEF ActiveAt
  <2>4. pending[j] # w => active'[pending[j]] = active[pending[j]]
    BY <1>1
  <2> QED
    BY <2>1, <2>2, <2>3, <2>4 DEF ActiveAt
<1> HIDE DEF w
<1>6. Ahead' = {pair \in Ahead : pair[1] \notin {w} /\ pair[2] \notin {w}}
  <2>1. ASSUME NEW pair \in Ahead'
        PROVE  pair \in Ahead /\ pair[1] # w /\ pair[2] # w
    <3>1. PICK a \in ActiveAt(pending)', b \in ActiveAt(pending)' :
                 a < b /\ pair = <<pending'[a], pending'[b]>> /\ pair \in Calls \X Calls
      BY <2>1, Zenon DEF Ahead
    <3>2. a \in Nat /\ b \in Nat /\ i \in Nat /\ a > 0 /\ b > 0
      <4>1. a \in DOMAIN pending' /\ b \in DOMAIN pending'
        BY <3>1 DEF ActiveAt
      <4>2. DOMAIN pending' = 1..(Len(pending) - i) /\ Len(pending) \in Nat /\ i \in Nat
        BY <1>1, RestOfPending DEF IInv, TypeOK
      <4> QED
        BY <4>1, <4>2
    <3>3. /\ a + i \in DOMAIN pending /\ pending'[a] = pending[a + i]
          /\ b + i \in DOMAIN pending /\ pending'[b] = pending[b + i]
      BY <1>2, <3>1, Zenon DEF ActiveAt
    <3>4. i < a + i /\ (a + i) - i = a /\ i < b + i /\ (b + i) - i = b /\ a + i < b + i
      BY <3>1, <3>2
    <3>5. /\ a + i \in ActiveAt(pending) /\ pending[a + i] # w
          /\ b + i \in ActiveAt(pending) /\ pending[b + i] # w
      BY <1>5, <3>1, <3>3, <3>4
    <3> QED
      BY <3>1, <3>3, <3>4, <3>5, Zenon DEF Ahead
  <2>2. ASSUME NEW pair \in Ahead, pair[1] # w, pair[2] # w
        PROVE  pair \in Ahead'
    <3>1. PICK a \in ActiveAt(pending), b \in ActiveAt(pending) :
                 a < b /\ pair = <<pending[a], pending[b]>> /\ pair \in Calls \X Calls
      BY <2>2 DEF Ahead
    <3>2. a \in DOMAIN pending /\ b \in DOMAIN pending /\ pending[a] # w /\ pending[b] # w
      BY <2>2, <3>1 DEF ActiveAt
    <3>3. /\ i < a /\ a - i \in ActiveAt(pending)' /\ pending'[a - i] = pending[a]
          /\ i < b /\ b - i \in ActiveAt(pending)' /\ pending'[b - i] = pending[b]
      BY <1>2, <1>5, <3>1, <3>2, Zenon
    <3>4. a - i < b - i
      BY <1>1, <1>2, <3>1, <3>2
    <3> QED
      BY <3>1, <3>3, <3>4, Zenon DEF Ahead
  <2> QED
    BY <2>1, <2>2
<1> QED
  BY <1>1, <1>3, <1>4, <1>6 DEF Limit!Release, Limit!Leave

\* releaseSlot gives the slot back when nobody waits for one.
LEMMA GiveBackRefines ==
  ASSUME IInv, NEW c \in Calls, pc[c] = "running", ActiveAt(pending) = {}, pending' = <<>>,
         NEW woken, woken = {waits[i] : i \in ActiveAt(waits)},
         pc' = [d \in Calls |-> IF d = c THEN "done"
                                ELSE IF d \in woken THEN "notified"
                                ELSE pc[d]]
  PROVE  Limit!Release(c)
<1>1. \A d \in woken : pc[d] = "waiting"
  BY DEF IInv, TypeOK, ActiveAt, ActiveIsSuspended, PendingQueued
<1>2. Waiting = {} /\ Ahead = {}
  BY WaitingIsActive
<1>3. Waiting' = {}
  BY <1>1, <1>2 DEF Waiting
<1>4. Ahead' = {}
  BY DEF Ahead, ActiveAt
<1>5. c \in Holders /\ Holders' = Holders \ {c}
  BY <1>1 DEF Holders
<1> QED
  BY <1>2, <1>3, <1>4, <1>5 DEF Limit!Release

\* finish: the holder's slot goes to the first that waits, or is given back.
LEMMA FinishRefines ==
  ASSUME IInv, OnceInPending, NEW c \in Calls, finish(c)
  PROVE  Limit!Next
<1>1. Limit!Release(c)
  BY HandOverRefines, GiveBackRefines, Zenon DEF finish, releaseSlot
<1> QED
  BY <1>1 DEF Limit!Next

\* waitForPending never touches a slot or the order of those that wait.
LEMMA WaitForPendingRefines ==
  ASSUME IInv, NEW c \in Calls, waitForPending(c)
  PROVE  UNCHANGED Limit!vars
<1>1. pc[c] = "idle" /\ \A i \in DOMAIN pending : pending[i] # c /\ pending[i] \in Calls
  BY DEF waitForPending, IInv, TypeOK, PendingQueued
<1>2. pending' = pending
  BY DEF waitForPending
<1>3. \A i \in DOMAIN pending : active'[pending[i]] = active[pending[i]]
  BY <1>1 DEF waitForPending, IInv, TypeOK
<1>4. Holders' = Holders /\ Waiting' = Waiting
  BY <1>1 DEF waitForPending, Holders, Waiting, IInv, TypeOK
<1> QED
  BY <1>2, <1>3, <1>4, AheadUnchanged DEF Limit!vars

\* resume finds the slot already its own, or none.
LEMMA ResumeRefines ==
  ASSUME IInv, NEW c \in Calls, resume(c)
  PROVE  UNCHANGED Limit!vars
<1>1. pending' = pending /\ ~active[c] /\ active \in [Calls -> BOOLEAN]
  BY DEF resume, IInv, TypeOK, ActiveIsSuspended
<1>2. active' = active
  BY <1>1 DEF resume
<1>3. Holders' = Holders /\ Waiting' = Waiting
  BY DEF resume, Holders, Waiting, IInv, TypeOK
<1> QED
  BY <1>1, <1>2, <1>3, AheadUnchanged DEF Limit!vars

\* A Waiter whose call is cancelled or cut short stays in `pending` but no
\* longer counts.
LEMMA InactiveLeaves ==
  ASSUME IInv, NEW c \in Calls, pending' = pending, active' = [active EXCEPT ![c] = FALSE],
         Holders' = Holders, Waiting' = Waiting \ {c}
  PROVE  [Limit!Next]_Limit!vars
<1>1. /\ active \in [Calls -> BOOLEAN]
      /\ \A i \in DOMAIN pending : pending[i] \in Calls
  BY DEF IInv, TypeOK
<1>2. ActiveAt(pending)' = {i \in ActiveAt(pending) : pending[i] # c}
  BY <1>1 DEF ActiveAt
<1>3. Ahead' = {pair \in Ahead : pair[1] \notin {c} /\ pair[2] \notin {c}}
  <2>1. ASSUME NEW pair \in Ahead' PROVE pair \in Ahead /\ pair[1] # c /\ pair[2] # c
    BY <1>2, <2>1 DEF Ahead
  <2>2. ASSUME NEW pair \in Ahead, pair[1] # c, pair[2] # c PROVE pair \in Ahead'
    BY <1>2, <2>2 DEF Ahead
  <2> QED
    BY <2>1, <2>2
<1>4. CASE c \in Waiting
  <2>1. Limit!GiveUp({c}) /\ {c} \in SUBSET Waiting
    BY <1>3, <1>4 DEF Limit!GiveUp, Limit!Leave
  <2> QED
    BY <2>1 DEF Limit!Next
<1>5. CASE c \notin Waiting
  <2>1. \A pair \in Ahead : pair[1] # c /\ pair[2] # c
    BY <1>5, WaitingIsActive
  <2>2. Ahead' = Ahead /\ Waiting' = Waiting
    BY <1>3, <1>5, <2>1
  <2> QED
    BY <2>2 DEF Limit!vars
<1> QED
  BY <1>4, <1>5

LEMMA CancelTokenRefines ==
  ASSUME IInv, NEW c \in Calls, cancelToken(c)
  PROVE  [Limit!Next]_Limit!vars
<1>1. pending' = pending /\ active' = [active EXCEPT ![c] = FALSE]
  BY DEF cancelToken
<1>2. pc' = [pc EXCEPT ![c] = IF active[c] THEN "thrown" ELSE pc[c]]
  BY DEF cancelToken
<1>3. active[c] <=> pc[c] \in {"pending", "waiting"}
  BY DEF IInv, ActiveIsSuspended
<1>4. Holders' = Holders /\ Waiting' = Waiting \ {c}
  BY <1>2, <1>3 DEF Holders, Waiting, IInv, TypeOK
<1> QED
  BY <1>1, <1>4, InactiveLeaves, Zenon

LEMMA InterruptRefines ==
  ASSUME IInv, NEW c \in Calls, interrupt(c)
  PROVE  [Limit!Next]_Limit!vars
<1>1. pending' = pending /\ active' = [active EXCEPT ![c] = FALSE]
  BY DEF interrupt
<1>2. Holders' = Holders /\ Waiting' = Waiting \ {c}
  BY DEF interrupt, Holders, Waiting, IInv, TypeOK
<1> QED
  BY <1>1, <1>2, InactiveLeaves, Zenon

\* Semaphore::cancel: all that wait give up at once.
LEMMA CancelRefines ==
  ASSUME IInv, cancel
  PROVE  Limit!Next
<1>1. {pending[i] : i \in ActiveAt(pending)} = Waiting
  BY WaitingIsActive
<1>2. /\ pending' = <<>>
      /\ pc' = [c \in Calls |-> IF c \in Waiting THEN "thrown" ELSE pc[c]]
  BY <1>1 DEF cancel
<1>3. Holders' = Holders /\ Waiting' = {}
  BY <1>2 DEF Holders, Waiting
<1>4. Ahead' = {}
  BY <1>2 DEF Ahead, ActiveAt
<1>5. {pair \in Ahead : pair[1] \notin Waiting /\ pair[2] \notin Waiting} = {}
  BY WaitingIsActive
<1>6. Limit!GiveUp(Waiting)
  BY <1>3, <1>4, <1>5 DEF Limit!GiveUp, Limit!Leave
<1> QED
  BY <1>6 DEF Limit!Next

\* Every step of the semaphore is a step of the limit, or none.
LEMMA NextRefines ==
  ASSUME IInv, OnceInPending, [Next]_vars
  PROVE  [Limit!Next]_Limit!vars
<1>1. CASE UNCHANGED vars
  BY <1>1 DEF vars, Limit!vars, Holders, Waiting, Ahead, ActiveAt
<1>2. CASE \E c \in Calls : waitFor(c) \/ waitForPending(c) \/ resume(c)
                             \/ finish(c) \/ cancelToken(c) \/ interrupt(c)
  BY <1>2, WaitForRefines, WaitForPendingRefines, ResumeRefines, FinishRefines,
     CancelTokenRefines, InterruptRefines
<1>3. CASE cancel
  BY <1>3, CancelRefines
<1> QED
  BY <1>1, <1>2, <1>3 DEF Next

\* Semaphore implements ConcurrencyLimit: whatever the interleaving of
\* waitFor, waitForPending, the end of operations, cancellations and
\* interruptions, the slots go to the callers in order of arrival and never to
\* more than concurrencyLimit of them.
THEOREM SemaphoreImplementsLimit == Spec => ImplementsLimit
<1>1. Init => Limit!Init /\ OnceInPending
  BY DEF Init, Limit!Init, Holders, Waiting, Ahead, ActiveAt, OnceInPending
<1>2. IInv /\ OnceInPending /\ [Next]_vars => OnceInPending' /\ [Limit!Next]_Limit!vars
  BY NextOnceInPending, NextRefines
<1> QED
  BY <1>1, <1>2, SemaphoreInvariant, PTL DEF Spec, ImplementsLimit, Limit!Spec

==============================================================================
