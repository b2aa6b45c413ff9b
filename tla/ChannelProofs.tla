---------------------------- MODULE ChannelProofs ----------------------------
(****************************************************************************)
(* Proofs about Channel, for every set of calls and every capacity.         *)
(****************************************************************************)
EXTENDS Channel, FiniteSetTheorems, SequenceTheorems, TLAPS

\* A Waiter is active exactly while its call is suspended in wait.
ActiveIsWaiting == \A c \in Calls : active[c] <=> pc[c] = "waiting"

\* A suspended call stands in the queue of its direction.
Queued ==
  /\ \A c \in Sending : pc[c] = "waiting" => \E i \in DOMAIN sendWaiters : sendWaiters[i] = c
  /\ \A c \in Receiving :
       pc[c] = "waiting" => \E i \in DOMAIN receiveWaiters : receiveWaiters[i] = c

\* What the queues and flags need to stay consistent.
QInv == TypeOK /\ ActiveIsWaiting /\ Queued /\ CloseWakesAll

WokenReceivers == {c \in Receivers : pc[c] = "woken"}
WokenSenders == {c \in Senders : pc[c] = "woken"}

\* While a receiver waits, a resumed receiver is on its way for each value.
ValuesSpokenFor ==
  Undisturbed(Receiving, ReceivePeekers) /\ (\E c \in Receivers : pc[c] = "waiting")
    => Len(buffer) <= Cardinality(WokenReceivers)

\* While a sender waits, a resumed sender is on its way for each free place.
PlacesSpokenFor ==
  Undisturbed(Sending, SendPeekers) /\ (\E c \in Senders : pc[c] = "waiting")
    => capacity # None /\ capacity <= Len(buffer) + Cardinality(WokenSenders)

\* The inductive invariant.
IInv == QInv /\ ValuesSpokenFor /\ PlacesSpokenFor

USE DEF States

------------------------------------------------------------------------------
(* What a wake-up does.                                                     *)

\* wakeSender and wakeReceiver on the queue q of the calls Q: nobody who waits
\* loses its place in the queue, but the one that is resumed.
LEMMA WakeKeepsQueue ==
  ASSUME TypeOK, ActiveIsWaiting,
         NEW Q, Q \subseteq Calls, NEW q \in Seq(Q), NEW qNext,
         NEW after \in [Calls -> States],
         \A d \in Calls : after[d] = "waiting" <=> pc[d] = "waiting",
         wake(q, qNext, after)
  PROVE  /\ qNext \in Seq(Q)
         /\ active' \in [Calls -> BOOLEAN]
         /\ pc' \in [Calls -> States]
         /\ ActiveIsWaiting'
         /\ \A d \in Calls : pc'[d] = "waiting" => pc[d] = "waiting"
         /\ \A d \in Calls :
              pc'[d] = "waiting" /\ (\E j \in DOMAIN q : q[j] = d)
                => \E k \in DOMAIN qNext : qNext[k] = d
         /\ \/ \E w \in Q : pc[w] = "waiting" /\ pc' = [after EXCEPT ![w] = "woken"]
            \/ (\A j \in DOMAIN q : pc[q[j]] # "waiting") /\ pc' = after
<1>1. CASE \E i \in ActiveAt(q) :
             /\ \A j \in ActiveAt(q) : i <= j
             /\ qNext = SubSeq(q, i + 1, Len(q))
             /\ active' = [active EXCEPT ![q[i]] = FALSE]
             /\ pc' = [after EXCEPT ![q[i]] = "woken"]
  <2>1. PICK i \in ActiveAt(q) :
             /\ \A j \in ActiveAt(q) : i <= j
             /\ qNext = SubSeq(q, i + 1, Len(q))
             /\ active' = [active EXCEPT ![q[i]] = FALSE]
             /\ pc' = [after EXCEPT ![q[i]] = "woken"]
    BY <1>1, Zenon
  <2> DEFINE w == q[i]
             n == Len(q)
  <2>2. i \in 1..n /\ n \in Nat /\ w \in Q /\ w \in Calls /\ active[w] /\ pc[w] = "waiting"
    BY DEF ActiveAt, ActiveIsWaiting
  <2>3. /\ qNext \in Seq(Q) /\ Len(qNext) = n - i
        /\ \A k \in 1..(n - i) : qNext[k] = q[k + i]
    BY <2>1, <2>2, SubSeqProperties
  <2>4. active' \in [Calls -> BOOLEAN] /\ pc' \in [Calls -> States]
    BY <2>1, Zenon DEF TypeOK
  <2>5. \A d \in Calls : /\ active'[d] = (IF d = w THEN FALSE ELSE active[d])
                         /\ pc'[d] = (IF d = w THEN "woken" ELSE after[d])
    BY <2>1 DEF TypeOK
  <2> HIDE DEF w, n
  <2>6. ActiveIsWaiting'
    BY <2>5, Zenon DEF ActiveIsWaiting
  <2>7. \A d \in Calls : pc'[d] = "waiting" => pc[d] = "waiting" /\ d # w
    BY <2>5, Zenon
  <2>8. ASSUME NEW d \in Calls, pc'[d] = "waiting", NEW j \in DOMAIN q, q[j] = d
        PROVE  \E k \in DOMAIN qNext : qNext[k] = d
    <3>1. j \in 1..n /\ j \in ActiveAt(q)
      BY <2>7, <2>8 DEF ActiveAt, ActiveIsWaiting, n
    <3>2. j # i
      BY <2>7, <2>8 DEF w
    <3>3. i <= j
      BY <2>1, <3>1
    <3>4. j - i \in 1..(n - i) /\ (j - i) + i = j
      BY <2>2, <3>1, <3>2, <3>3
    <3>5. qNext[j - i] = d
      BY <2>3, <2>8, <3>4, Zenon
    <3>6. DOMAIN qNext = 1..(n - i)
      BY <2>3
    <3> QED
      BY <3>4, <3>5, <3>6
  <2> QED
    BY <2>1, <2>2, <2>3, <2>4, <2>6, <2>7, <2>8, Zenon DEF w
<1>2. CASE ActiveAt(q) = {} /\ qNext = <<>> /\ pc' = after /\ UNCHANGED active
  <2>1. \A j \in DOMAIN q : q[j] \in Calls /\ pc[q[j]] # "waiting"
    BY <1>2 DEF ActiveAt, ActiveIsWaiting
  <2> QED
    BY <1>2, <2>1, EmptySeq DEF TypeOK, ActiveIsWaiting
<1> QED
  BY <1>1, <1>2 DEF wake

\* The same for the two queues of a channel.
LEMMA WakeReceiverKeeps ==
  ASSUME QInv, NEW after \in [Calls -> States],
         \A d \in Calls : after[d] = "waiting" <=> pc[d] = "waiting",
         wakeReceiver(after)
  PROVE  /\ sendWaiters' \in Seq(Sending) /\ receiveWaiters' \in Seq(Receiving)
         /\ active' \in [Calls -> BOOLEAN] /\ pc' \in [Calls -> States]
         /\ ActiveIsWaiting' /\ Queued'
         /\ \A d \in Calls : pc'[d] = "waiting" => pc[d] = "waiting"
         /\ \/ \E w \in Receiving : pc[w] = "waiting" /\ pc' = [after EXCEPT ![w] = "woken"]
            \/ (\A d \in Receiving : pc[d] # "waiting") /\ pc' = after
<1>1. /\ TypeOK /\ ActiveIsWaiting /\ Queued
      /\ Receiving \subseteq Calls /\ Sending \subseteq Calls
      /\ receiveWaiters \in Seq(Receiving)
      /\ wake(receiveWaiters, receiveWaiters', after) /\ sendWaiters' = sendWaiters
  BY DEF QInv, TypeOK, Calls, Receiving, Sending, wakeReceiver
<1>2. /\ receiveWaiters' \in Seq(Receiving)
      /\ active' \in [Calls -> BOOLEAN]
      /\ pc' \in [Calls -> States]
      /\ ActiveIsWaiting'
      /\ \A d \in Calls : pc'[d] = "waiting" => pc[d] = "waiting"
      /\ \A d \in Calls :
           pc'[d] = "waiting" /\ (\E j \in DOMAIN receiveWaiters : receiveWaiters[j] = d)
             => \E k \in DOMAIN receiveWaiters' : receiveWaiters'[k] = d
      /\ \/ \E w \in Receiving : pc[w] = "waiting" /\ pc' = [after EXCEPT ![w] = "woken"]
         \/ /\ \A j \in DOMAIN receiveWaiters : pc[receiveWaiters[j]] # "waiting"
            /\ pc' = after
  BY <1>1, WakeKeepsQueue
<1>3. Queued'
  BY <1>1, <1>2 DEF Queued
<1> QED
  BY <1>1, <1>2, <1>3 DEF Queued, TypeOK

LEMMA WakeSenderKeeps ==
  ASSUME QInv, NEW after \in [Calls -> States],
         \A d \in Calls : after[d] = "waiting" <=> pc[d] = "waiting",
         wakeSender(after)
  PROVE  /\ sendWaiters' \in Seq(Sending) /\ receiveWaiters' \in Seq(Receiving)
         /\ active' \in [Calls -> BOOLEAN] /\ pc' \in [Calls -> States]
         /\ ActiveIsWaiting' /\ Queued'
         /\ \A d \in Calls : pc'[d] = "waiting" => pc[d] = "waiting"
         /\ \/ \E w \in Sending : pc[w] = "waiting" /\ pc' = [after EXCEPT ![w] = "woken"]
            \/ (\A d \in Sending : pc[d] # "waiting") /\ pc' = after
<1>1. /\ TypeOK /\ ActiveIsWaiting /\ Queued
      /\ Receiving \subseteq Calls /\ Sending \subseteq Calls
      /\ sendWaiters \in Seq(Sending)
      /\ wake(sendWaiters, sendWaiters', after) /\ receiveWaiters' = receiveWaiters
  BY DEF QInv, TypeOK, Calls, Receiving, Sending, wakeSender
<1>2. /\ sendWaiters' \in Seq(Sending)
      /\ active' \in [Calls -> BOOLEAN]
      /\ pc' \in [Calls -> States]
      /\ ActiveIsWaiting'
      /\ \A d \in Calls : pc'[d] = "waiting" => pc[d] = "waiting"
      /\ \A d \in Calls :
           pc'[d] = "waiting" /\ (\E j \in DOMAIN sendWaiters : sendWaiters[j] = d)
             => \E k \in DOMAIN sendWaiters' : sendWaiters'[k] = d
      /\ \/ \E w \in Sending : pc[w] = "waiting" /\ pc' = [after EXCEPT ![w] = "woken"]
         \/ /\ \A j \in DOMAIN sendWaiters : pc[sendWaiters[j]] # "waiting"
            /\ pc' = after
  BY <1>1, WakeKeepsQueue
<1>3. Queued'
  BY <1>1, <1>2 DEF Queued
<1> QED
  BY <1>1, <1>2, <1>3 DEF Queued, TypeOK

------------------------------------------------------------------------------
(* The queues, one lemma per code stretch.                                  *)

LEMMA InitQInv == Init => QInv
<1> SUFFICES ASSUME Init PROVE QInv
  OBVIOUS
<1>0. capacity # None => Len(buffer) <= capacity
  BY EmptySeq, ChannelAssumption DEF Init
<1>1. TypeOK
  BY <1>0, EmptySeq, Zenon DEF Init, TypeOK
<1>2. \A c \in Calls : pc[c] = "idle" /\ ~active[c]
  BY DEF Init
<1> QED
  BY <1>1, <1>2 DEF Init, QInv, ActiveIsWaiting, Queued, CloseWakesAll, Calls, Sending, Receiving

LEMMA LeaveQueues ==
  ASSUME QInv, NEW c \in Calls, pc[c] # "waiting", leave(c)
  PROVE  QInv'
<1>1. \A d \in Calls : pc'[d] = "waiting" <=> pc[d] = "waiting"
  BY DEF leave, QInv, TypeOK
<1> QED
  BY <1>1 DEF leave, QInv, TypeOK, ActiveIsWaiting, Queued, CloseWakesAll, Sending,
              Receiving, Calls

\* wait: the call goes to the end of its queue.
LEMMA WaitQueues ==
  ASSUME QInv, NEW c \in Calls, ~closed, wait(c)
  PROVE  QInv'
<1>1. /\ active' = [active EXCEPT ![c] = TRUE] /\ pc' = [pc EXCEPT ![c] = "waiting"]
      /\ UNCHANGED <<buffer, closed, cancelled>>
  BY DEF wait
<1>2. CASE c \in Sending
  <2>1. sendWaiters' = Append(sendWaiters, c) /\ receiveWaiters' = receiveWaiters
    BY <1>2 DEF wait
  <2>2. TypeOK'
    BY <1>1, <1>2, <2>1 DEF QInv, TypeOK
  <2>3. /\ sendWaiters \in Seq(Sending) /\ DOMAIN sendWaiters = 1..Len(sendWaiters)
        /\ DOMAIN sendWaiters' = 1..(Len(sendWaiters) + 1) /\ Len(sendWaiters) \in Nat
        /\ sendWaiters'[Len(sendWaiters) + 1] = c
        /\ \A i \in 1..Len(sendWaiters) : sendWaiters'[i] = sendWaiters[i]
    BY <1>2, <2>1 DEF QInv, TypeOK
  <2>4. \A d \in Sending :
          pc'[d] = "waiting" => \E i \in DOMAIN sendWaiters' : sendWaiters'[i] = d
    <3> SUFFICES ASSUME NEW d \in Sending, pc'[d] = "waiting"
                 PROVE  \E i \in DOMAIN sendWaiters' : sendWaiters'[i] = d
      OBVIOUS
    <3>1. CASE d = c
      BY <2>3, <3>1
    <3>2. CASE d # c
      <4>1. pc[d] = "waiting"
        BY <1>1, <3>2 DEF QInv, TypeOK, Calls, Sending
      <4>2. PICK i \in DOMAIN sendWaiters : sendWaiters[i] = d
        BY <4>1 DEF QInv, Queued
      <4> QED
        BY <2>3, <4>2
    <3> QED
      BY <3>1, <3>2
  <2>5. \A d \in Receiving :
          pc'[d] = "waiting" => \E i \in DOMAIN receiveWaiters' : receiveWaiters'[i] = d
    BY <1>1, <1>2, <2>1, ChannelAssumption DEF QInv, TypeOK, Queued, Calls, Receiving, Sending
  <2> QED
    BY <1>1, <2>2, <2>4, <2>5 DEF QInv, Queued, ActiveIsWaiting, CloseWakesAll, TypeOK
<1>3. CASE c \in Receiving
  <2>1. receiveWaiters' = Append(receiveWaiters, c) /\ sendWaiters' = sendWaiters
    BY <1>3, ChannelAssumption DEF wait
  <2>2. TypeOK'
    BY <1>1, <1>3, <2>1 DEF QInv, TypeOK
  <2>3. /\ receiveWaiters \in Seq(Receiving)
        /\ DOMAIN receiveWaiters = 1..Len(receiveWaiters)
        /\ DOMAIN receiveWaiters' = 1..(Len(receiveWaiters) + 1) /\ Len(receiveWaiters) \in Nat
        /\ receiveWaiters'[Len(receiveWaiters) + 1] = c
        /\ \A i \in 1..Len(receiveWaiters) : receiveWaiters'[i] = receiveWaiters[i]
    BY <1>3, <2>1 DEF QInv, TypeOK
  <2>4. \A d \in Receiving :
          pc'[d] = "waiting" => \E i \in DOMAIN receiveWaiters' : receiveWaiters'[i] = d
    <3> SUFFICES ASSUME NEW d \in Receiving, pc'[d] = "waiting"
                 PROVE  \E i \in DOMAIN receiveWaiters' : receiveWaiters'[i] = d
      OBVIOUS
    <3>1. CASE d = c
      BY <2>3, <3>1
    <3>2. CASE d # c
      <4>1. pc[d] = "waiting"
        BY <1>1, <3>2 DEF QInv, TypeOK, Calls, Receiving
      <4>2. PICK i \in DOMAIN receiveWaiters : receiveWaiters[i] = d
        BY <4>1 DEF QInv, Queued
      <4> QED
        BY <2>3, <4>2
    <3> QED
      BY <3>1, <3>2
  <2>5. \A d \in Sending :
          pc'[d] = "waiting" => \E i \in DOMAIN sendWaiters' : sendWaiters'[i] = d
    BY <1>1, <1>3, <2>1, ChannelAssumption DEF QInv, TypeOK, Queued, Calls, Receiving, Sending
  <2> QED
    BY <1>1, <2>2, <2>4, <2>5 DEF QInv, Queued, ActiveIsWaiting, CloseWakesAll, TypeOK
<1> QED
  BY <1>2, <1>3 DEF Calls, Sending, Receiving

\* A value is added and a receiver woken: send and trySend.
LEMMA PutQueues ==
  ASSUME QInv, ~closed, ~isFull,
         NEW v \in Calls \cup {Token}, buffer' = Append(buffer, v),
         NEW after \in [Calls -> States],
         \A d \in Calls : after[d] = "waiting" <=> pc[d] = "waiting",
         wakeReceiver(after),
         UNCHANGED <<closed, cancelled>>
  PROVE  QInv'
<1>1. /\ buffer' \in Seq(Calls \cup {Token}) /\ Len(buffer') = Len(buffer) + 1
      /\ Len(buffer) \in Nat
  BY DEF QInv, TypeOK
<1>2. capacity # None => Len(buffer') <= capacity
  BY <1>1, ChannelAssumption DEF isFull
<1>3. TypeOK'
  BY <1>1, <1>2, WakeReceiverKeeps, Zenon DEF QInv, TypeOK
<1> QED
  BY <1>3, WakeReceiverKeeps DEF QInv, CloseWakesAll

\* A value is taken and a sender woken: receive and tryReceive.
LEMMA TakeQueues ==
  ASSUME QInv, ~isEmpty, buffer' = Tail(buffer),
         NEW after \in [Calls -> States],
         \A d \in Calls : after[d] = "waiting" <=> pc[d] = "waiting",
         wakeSender(after),
         UNCHANGED <<closed, cancelled>>
  PROVE  QInv'
<1>1. /\ buffer' \in Seq(Calls \cup {Token}) /\ Len(buffer') = Len(buffer) - 1
      /\ Len(buffer) \in Nat
  BY DEF QInv, TypeOK, isEmpty
<1>2. capacity # None => Len(buffer') <= capacity
  BY <1>1, ChannelAssumption DEF QInv, TypeOK
<1>3. TypeOK'
  BY <1>1, <1>2, WakeSenderKeeps DEF QInv, TypeOK
<1>4. CloseWakesAll'
  BY WakeSenderKeeps DEF QInv, CloseWakesAll
<1> QED
  BY <1>3, <1>4, WakeSenderKeeps DEF QInv

\* close wakes exactly the calls that wait.
LEMMA CloseWakes ==
  ASSUME QInv, close
  PROVE  /\ closed' /\ UNCHANGED <<buffer, cancelled>>
         /\ sendWaiters' = <<>> /\ receiveWaiters' = <<>>
         /\ active' = [c \in Calls |-> FALSE]
         /\ pc' = [c \in Calls |-> IF pc[c] = "waiting" THEN "woken" ELSE pc[c]]
<1> DEFINE woken == {sendWaiters[i] : i \in ActiveAt(sendWaiters)}
                    \cup {receiveWaiters[i] : i \in ActiveAt(receiveWaiters)}
<1>1. \A c \in Calls : c \in woken => pc[c] = "waiting"
  BY DEF QInv, ActiveIsWaiting, ActiveAt
<1>2. \A c \in Calls : pc[c] = "waiting" => c \in woken
  <2> SUFFICES ASSUME NEW c \in Calls, pc[c] = "waiting" PROVE c \in woken
    OBVIOUS
  <2>1. active[c]
    BY DEF QInv, ActiveIsWaiting
  <2>2. CASE c \in Sending
    BY <2>1, <2>2 DEF QInv, Queued, ActiveAt
  <2>3. CASE c \in Receiving
    BY <2>1, <2>3 DEF QInv, Queued, ActiveAt
  <2> QED
    BY <2>2, <2>3 DEF Calls, Sending, Receiving
<1>3. /\ closed' = TRUE /\ sendWaiters' = <<>> /\ receiveWaiters' = <<>>
      /\ active' = [c \in Calls |-> active[c] /\ c \notin woken]
      /\ pc' = [c \in Calls |-> IF c \in woken THEN "woken" ELSE pc[c]]
      /\ UNCHANGED <<buffer, cancelled>>
  BY DEF close
<1> HIDE DEF woken
<1>4. \A c \in Calls : (active[c] /\ c \notin woken) = FALSE
  BY <1>2 DEF QInv, ActiveIsWaiting, TypeOK
<1>5. \A c \in Calls : (c \in woken) <=> pc[c] = "waiting"
  BY <1>1, <1>2
<1> QED
  BY <1>3, <1>4, <1>5, Zenon

LEMMA CloseQueues ==
  ASSUME QInv, close
  PROVE  QInv'
<1>1. TypeOK'
  BY CloseWakes, EmptySeq, Zenon DEF QInv, TypeOK
<1>2. \A c \in Calls : pc'[c] # "waiting" /\ ~active'[c]
  BY CloseWakes
<1> QED
  BY <1>1, <1>2 DEF QInv, ActiveIsWaiting, Queued, CloseWakesAll, Calls, Sending, Receiving

LEMMA CancelTokenQueues ==
  ASSUME QInv, NEW c \in Calls, cancelToken(c)
  PROVE  QInv'
<1>1. TypeOK'
  BY DEF cancelToken, QInv, TypeOK
<1>2. \A d \in Calls : pc'[d] = "waiting" <=> pc[d] = "waiting" /\ d # c
  BY DEF cancelToken, QInv, TypeOK, ActiveIsWaiting
<1> QED
  BY <1>1, <1>2 DEF cancelToken, QInv, TypeOK, ActiveIsWaiting, Queued, CloseWakesAll, Calls,
                    Sending, Receiving

LEMMA SendQueues ==
  ASSUME QInv, NEW c \in Calls, send(c)
  PROVE  QInv'
<1>1. c \in Senders /\ pc[c] \in {"idle", "woken"}
  BY DEF send, atTop
<1>2. CASE leave(c)
  BY <1>1, <1>2, LeaveQueues
<1>3. CASE /\ ~(c \in cancelled \/ closed) /\ ~isFull
           /\ buffer' = Append(buffer, c)
           /\ wakeReceiver([pc EXCEPT ![c] = "done"])
           /\ UNCHANGED <<closed, cancelled>>
  <2>1. /\ [pc EXCEPT ![c] = "done"] \in [Calls -> States]
        /\ \A d \in Calls : [pc EXCEPT ![c] = "done"][d] = "waiting" <=> pc[d] = "waiting"
    BY <1>1 DEF QInv, TypeOK
  <2> QED
    BY <1>3, <2>1, PutQueues, Zenon
<1>4. CASE ~(c \in cancelled \/ closed) /\ isFull /\ wait(c)
  BY <1>4, WaitQueues
<1> QED
  BY <1>2, <1>3, <1>4 DEF send

LEMMA ReceiveQueues ==
  ASSUME QInv, NEW c \in Calls, receive(c)
  PROVE  QInv'
<1>1. c \in Receivers /\ pc[c] \in {"idle", "woken"}
  BY DEF receive, atTop
<1>2. CASE leave(c)
  BY <1>1, <1>2, LeaveQueues
<1>3. CASE /\ c \notin cancelled /\ ~isEmpty
           /\ buffer' = Tail(buffer)
           /\ wakeSender([pc EXCEPT ![c] = "done"])
           /\ UNCHANGED <<closed, cancelled>>
  <2>1. /\ [pc EXCEPT ![c] = "done"] \in [Calls -> States]
        /\ \A d \in Calls : [pc EXCEPT ![c] = "done"][d] = "waiting" <=> pc[d] = "waiting"
    BY <1>1 DEF QInv, TypeOK
  <2> QED
    BY <1>3, <2>1, TakeQueues, Zenon
<1>4. CASE c \notin cancelled /\ isEmpty /\ ~closed /\ wait(c)
  BY <1>4, WaitQueues
<1> QED
  BY <1>2, <1>3, <1>4 DEF receive

\* Every step keeps the queues consistent.
LEMMA NextQInv ==
  ASSUME QInv, [Next]_vars
  PROVE  QInv'
<1>1. ASSUME NEW c \in Calls, waitUntilSendable(c) PROVE QInv'
  BY <1>1, LeaveQueues, WaitQueues DEF waitUntilSendable, atTop
<1>2. ASSUME NEW c \in Calls, waitUntilReceivable(c) PROVE QInv'
  BY <1>2, LeaveQueues, WaitQueues DEF waitUntilReceivable, atTop
<1>3. ASSUME NEW c \in Calls, throw(c) PROVE QInv'
  BY <1>3, LeaveQueues DEF throw
<1>4. CASE trySend
  BY <1>4, PutQueues, Zenon DEF trySend, QInv, TypeOK
<1>5. CASE tryReceive
  BY <1>5, TakeQueues DEF tryReceive, QInv, TypeOK
<1>6. CASE UNCHANGED vars
  BY <1>6 DEF vars, QInv, TypeOK, ActiveIsWaiting, Queued, CloseWakesAll
<1> QED
  BY <1>1, <1>2, <1>3, <1>4, <1>5, <1>6, SendQueues, ReceiveQueues, CloseQueues,
     CancelTokenQueues DEF Next, run

------------------------------------------------------------------------------
(* The wake-ups: a resumed call for each value and each place.              *)

LEMMA CallsFinite ==
  ASSUME NEW S, S \subseteq Calls
  PROVE  IsFiniteSet(S) /\ Cardinality(S) \in Nat
BY ChannelAssumption, FS_Subset, FS_CardinalityType

LEMMA OneMore ==
  ASSUME NEW S, S \subseteq Calls, NEW c \in Calls, c \notin S
  PROVE  Cardinality(S \cup {c}) = Cardinality(S) + 1
BY CallsFinite, FS_AddElement

LEMMA OneLess ==
  ASSUME NEW S, S \subseteq Calls, NEW c
  PROVE  Cardinality(S) <= Cardinality(S \ {c}) + 1
<1>1. CASE c \in S
  BY <1>1, CallsFinite, FS_RemoveElement
<1>2. CASE c \notin S
  <2>1. S \ {c} = S
    BY <1>2
  <2>2. Cardinality(S \ {c}) = Cardinality(S)
    BY <2>1
  <2>3. Cardinality(S) \in Nat
    BY CallsFinite
  <2> QED
    BY <2>2, <2>3
<1> QED
  BY <1>1, <1>2

\* A call that leaves: it was cancelled, or the channel is closed and nobody
\* waits, or it only looked, or it finds nothing that another could miss.
LEMMA LeaveWakes ==
  ASSUME IInv, NEW c \in Calls, pc[c] # "waiting", leave(c),
         \/ c \in cancelled \/ closed
         \/ c \in SendPeekers \/ c \in ReceivePeekers
         \/ pc[c] = "thrown"
  PROVE  ValuesSpokenFor' /\ PlacesSpokenFor'
<1>1. /\ pc' = [pc EXCEPT ![c] = "done"]
      /\ buffer' = buffer /\ cancelled' = cancelled /\ closed' = closed
      /\ pc \in [Calls -> States] /\ Len(buffer) \in Nat
  BY DEF leave, IInv, QInv, TypeOK
<1>2. \A d \in Calls : /\ pc'[d] = "idle" => pc[d] = "idle"
                       /\ pc'[d] = "waiting" => pc[d] = "waiting"
  BY <1>1
<1>3. /\ Senders \subseteq Calls /\ Receivers \subseteq Calls
      /\ SendPeekers \subseteq Sending /\ ReceivePeekers \subseteq Receiving
      /\ Sending \subseteq Calls /\ Receiving \subseteq Calls
  BY DEF Calls, Sending, Receiving
<1>4. ValuesSpokenFor'
  <2> SUFFICES ASSUME Undisturbed(Receiving, ReceivePeekers)',
                      NEW d \in Receivers, pc'[d] = "waiting"
               PROVE  Len(buffer') <= Cardinality(WokenReceivers')
    BY DEF ValuesSpokenFor
  <2>1. Undisturbed(Receiving, ReceivePeekers)
    BY <1>1, <1>2, <1>3 DEF Undisturbed
  <2>2. Len(buffer) <= Cardinality(WokenReceivers)
    BY <1>2, <1>3, <2>1 DEF IInv, ValuesSpokenFor
  <2>3. c \notin Receivers \/ pc[c] = "thrown"
    <3>1. ~closed
      BY <1>2, <1>3 DEF IInv, QInv, CloseWakesAll
    <3>2. c \in cancelled => c \notin Receivers
      BY <1>1 DEF Undisturbed, Receiving
    <3>3. c \notin ReceivePeekers
      BY <1>1 DEF Undisturbed
    <3>4. c \in SendPeekers => c \notin Receivers
      BY ChannelAssumption DEF Sending, Receiving
    <3> QED
      BY <3>1, <3>2, <3>3, <3>4
  <2>4. WokenReceivers' = WokenReceivers
    BY <1>1, <1>3, <2>3 DEF WokenReceivers
  <2> QED
    BY <1>1, <2>2, <2>4
<1>5. PlacesSpokenFor'
  <2> SUFFICES ASSUME Undisturbed(Sending, SendPeekers)',
                      NEW d \in Senders, pc'[d] = "waiting"
               PROVE  capacity # None /\ capacity <= Len(buffer') + Cardinality(WokenSenders')
    BY DEF PlacesSpokenFor
  <2>1. Undisturbed(Sending, SendPeekers)
    BY <1>1, <1>2, <1>3 DEF Undisturbed
  <2>2. capacity # None /\ capacity <= Len(buffer) + Cardinality(WokenSenders)
    BY <1>2, <1>3, <2>1 DEF IInv, PlacesSpokenFor
  <2>3. c \notin Senders \/ pc[c] = "thrown"
    <3>1. ~closed
      BY <1>2, <1>3 DEF IInv, QInv, CloseWakesAll
    <3>2. c \in cancelled => c \notin Senders
      BY <1>1 DEF Undisturbed, Sending
    <3>3. c \notin SendPeekers
      BY <1>1 DEF Undisturbed
    <3>4. c \in ReceivePeekers => c \notin Senders
      BY ChannelAssumption DEF Sending, Receiving
    <3> QED
      BY <3>1, <3>2, <3>3, <3>4
  <2>4. WokenSenders' = WokenSenders
    BY <1>1, <1>3, <2>3 DEF WokenSenders
  <2> QED
    BY <1>1, <2>2, <2>4
<1> QED
  BY <1>4, <1>5

\* A call that waits found the buffer full, or empty.
LEMMA WaitWakes ==
  ASSUME IInv, NEW c \in Calls, pc[c] # "waiting", wait(c),
         IF c \in Sending THEN isFull ELSE isEmpty
  PROVE  ValuesSpokenFor' /\ PlacesSpokenFor'
<1>1. /\ pc' = [pc EXCEPT ![c] = "waiting"]
      /\ buffer' = buffer /\ cancelled' = cancelled
      /\ pc \in [Calls -> States] /\ Len(buffer) \in Nat
  BY DEF wait, IInv, QInv, TypeOK
<1>2. /\ Senders \subseteq Calls /\ Receivers \subseteq Calls
      /\ SendPeekers \subseteq Sending /\ ReceivePeekers \subseteq Receiving
      /\ Sending \subseteq Calls /\ Receiving \subseteq Calls
  BY DEF Calls, Sending, Receiving
<1>3. Cardinality(WokenReceivers') \in Nat /\ Cardinality(WokenSenders') \in Nat
  BY <1>2, CallsFinite DEF WokenReceivers, WokenSenders
<1>4. CASE c \in Sending
  <2>1. capacity # None /\ capacity <= Len(buffer') + Cardinality(WokenSenders')
    BY <1>1, <1>3, <1>4, ChannelAssumption DEF isFull
  <2>2. c \notin Receivers /\ c \notin Receiving
    BY <1>4, ChannelAssumption DEF Receiving
  <2>3. WokenReceivers' = WokenReceivers
    BY <1>1, <1>2, <2>2 DEF WokenReceivers
  <2>4. ValuesSpokenFor'
    <3> SUFFICES ASSUME Undisturbed(Receiving, ReceivePeekers)',
                        NEW d \in Receivers, pc'[d] = "waiting"
                 PROVE  Len(buffer') <= Cardinality(WokenReceivers')
      BY DEF ValuesSpokenFor
    <3>1. Undisturbed(Receiving, ReceivePeekers) /\ pc[d] = "waiting"
      BY <1>1, <1>2, <2>2 DEF Undisturbed
    <3> QED
      BY <1>1, <2>3, <3>1 DEF IInv, ValuesSpokenFor
  <2> QED
    BY <2>1, <2>4 DEF PlacesSpokenFor
<1>5. CASE c \notin Sending
  <2>1. Len(buffer') = 0
    BY <1>1, <1>5, EmptySeq DEF isEmpty
  <2>2. c \notin Senders
    BY <1>5 DEF Sending
  <2>3. WokenSenders' = WokenSenders
    BY <1>1, <1>2, <2>2 DEF WokenSenders
  <2>4. PlacesSpokenFor'
    <3> SUFFICES ASSUME Undisturbed(Sending, SendPeekers)',
                        NEW d \in Senders, pc'[d] = "waiting"
                 PROVE  capacity # None /\ capacity <= Len(buffer') + Cardinality(WokenSenders')
      BY DEF PlacesSpokenFor
    <3>1. Undisturbed(Sending, SendPeekers) /\ pc[d] = "waiting"
      BY <1>1, <1>2, <1>5, <2>2 DEF Undisturbed
    <3> QED
      BY <1>1, <2>3, <3>1 DEF IInv, PlacesSpokenFor
  <2> QED
    BY <1>3, <2>1, <2>4 DEF ValuesSpokenFor
<1> QED
  BY <1>4, <1>5

\* A value is added: a receiver is woken for it if one waits, and the sender c
\* that added it, if one did, is no longer on its way.
LEMMA PutWakes ==
  ASSUME IInv, NEW v, buffer' = Append(buffer, v),
         NEW c \in Senders \cup {Token}, c # Token => pc[c] # "waiting",
         NEW after \in [Calls -> States],
         \A d \in Calls : after[d] = IF d = c THEN "done" ELSE pc[d],
         wakeReceiver(after),
         UNCHANGED cancelled
  PROVE  ValuesSpokenFor' /\ PlacesSpokenFor'
<1>1. /\ pc \in [Calls -> States] /\ Len(buffer) \in Nat /\ Len(buffer') = Len(buffer) + 1
  BY DEF IInv, QInv, TypeOK
<1>2. /\ Senders \subseteq Calls /\ Receivers \subseteq Calls
      /\ SendPeekers \subseteq Sending /\ ReceivePeekers \subseteq Receiving
      /\ Sending \subseteq Calls /\ Receiving \subseteq Calls
      /\ Token \notin Calls /\ Sending \cap Receiving = {}
      /\ Senders \subseteq Sending /\ Receiving = Receivers \cup ReceivePeekers
      /\ Receivers \cap ReceivePeekers = {}
  BY ChannelAssumption DEF Calls, Sending, Receiving
<1>3. /\ \A d \in Calls : pc'[d] = "waiting" => pc[d] = "waiting"
      /\ \/ \E w \in Receiving : pc[w] = "waiting" /\ pc' = [after EXCEPT ![w] = "woken"]
         \/ (\A d \in Receiving : pc[d] # "waiting") /\ pc' = after
  <2>1. \A d \in Calls : after[d] = "waiting" <=> pc[d] = "waiting"
    BY <1>2
  <2> QED
    BY <2>1, WakeReceiverKeeps DEF IInv
<1>4. \A d \in Sending : pc'[d] = IF d = c THEN "done" ELSE pc[d]
  BY <1>2, <1>3
<1>5. ValuesSpokenFor'
  <2> SUFFICES ASSUME Undisturbed(Receiving, ReceivePeekers)',
                      NEW d \in Receivers, pc'[d] = "waiting"
               PROVE  Len(buffer') <= Cardinality(WokenReceivers')
    BY DEF ValuesSpokenFor
  <2>1. PICK w \in Receiving : pc[w] = "waiting" /\ pc' = [after EXCEPT ![w] = "woken"]
    BY <1>2, <1>3
  <2>2. \A e \in Receiving : pc'[e] = IF e = w THEN "woken" ELSE pc[e]
    BY <1>2, <2>1
  <2>3. Undisturbed(Receiving, ReceivePeekers) /\ w \notin ReceivePeekers
    BY <1>2, <2>1, <2>2 DEF Undisturbed
  <2>4. Len(buffer) <= Cardinality(WokenReceivers)
    BY <1>2, <1>3, <2>3 DEF IInv, ValuesSpokenFor
  <2>5. WokenReceivers' = WokenReceivers \cup {w} /\ w \notin WokenReceivers
    BY <1>2, <2>1, <2>2, <2>3 DEF WokenReceivers
  <2>6. /\ Cardinality(WokenReceivers') = Cardinality(WokenReceivers) + 1
        /\ Cardinality(WokenReceivers) \in Nat
    BY <1>2, <2>5, OneMore, CallsFinite, Zenon DEF WokenReceivers
  <2> QED
    BY <1>1, <2>4, <2>6
<1>6. PlacesSpokenFor'
  <2> SUFFICES ASSUME Undisturbed(Sending, SendPeekers)',
                      NEW d \in Senders, pc'[d] = "waiting"
               PROVE  capacity # None /\ capacity <= Len(buffer') + Cardinality(WokenSenders')
    BY DEF PlacesSpokenFor
  <2>1. Undisturbed(Sending, SendPeekers)
    BY <1>2, <1>4 DEF Undisturbed
  <2>2. capacity # None /\ capacity <= Len(buffer) + Cardinality(WokenSenders)
    BY <1>2, <1>3, <2>1 DEF IInv, PlacesSpokenFor
  <2>3. WokenSenders' = WokenSenders \ {c}
    BY <1>2, <1>4 DEF WokenSenders
  <2>4. /\ Cardinality(WokenSenders) <= Cardinality(WokenSenders') + 1
        /\ Cardinality(WokenSenders) \in Nat /\ Cardinality(WokenSenders') \in Nat
    BY <1>2, <2>3, OneLess, CallsFinite, Zenon DEF WokenSenders
  <2>5. capacity \in Nat
    BY <2>2, ChannelAssumption
  <2> QED
    BY <1>1, <2>2, <2>4, <2>5
<1> QED
  BY <1>5, <1>6

\* A value is taken: a sender is woken for the place if one waits, and the
\* receiver c that took it, if one did, is no longer on its way.
LEMMA TakeWakes ==
  ASSUME IInv, ~isEmpty, buffer' = Tail(buffer),
         NEW c \in Receivers \cup {Token}, c # Token => pc[c] # "waiting",
         NEW after \in [Calls -> States],
         \A d \in Calls : after[d] = IF d = c THEN "done" ELSE pc[d],
         wakeSender(after),
         UNCHANGED cancelled
  PROVE  ValuesSpokenFor' /\ PlacesSpokenFor'
<1>1. /\ pc \in [Calls -> States] /\ Len(buffer) \in Nat /\ Len(buffer') = Len(buffer) - 1
  BY DEF IInv, QInv, TypeOK, isEmpty
<1>2. /\ Senders \subseteq Calls /\ Receivers \subseteq Calls
      /\ SendPeekers \subseteq Sending /\ ReceivePeekers \subseteq Receiving
      /\ Sending \subseteq Calls /\ Receiving \subseteq Calls
      /\ Token \notin Calls /\ Sending \cap Receiving = {}
      /\ Receivers \subseteq Receiving /\ Sending = Senders \cup SendPeekers
      /\ Senders \cap SendPeekers = {}
  BY ChannelAssumption DEF Calls, Sending, Receiving
<1>3. /\ \A d \in Calls : pc'[d] = "waiting" => pc[d] = "waiting"
      /\ \/ \E w \in Sending : pc[w] = "waiting" /\ pc' = [after EXCEPT ![w] = "woken"]
         \/ (\A d \in Sending : pc[d] # "waiting") /\ pc' = after
  <2>1. \A d \in Calls : after[d] = "waiting" <=> pc[d] = "waiting"
    BY <1>2
  <2> QED
    BY <2>1, WakeSenderKeeps DEF IInv
<1>4. \A d \in Receiving : pc'[d] = IF d = c THEN "done" ELSE pc[d]
  BY <1>2, <1>3
<1>5. PlacesSpokenFor'
  <2> SUFFICES ASSUME Undisturbed(Sending, SendPeekers)',
                      NEW d \in Senders, pc'[d] = "waiting"
               PROVE  capacity # None /\ capacity <= Len(buffer') + Cardinality(WokenSenders')
    BY DEF PlacesSpokenFor
  <2>1. PICK w \in Sending : pc[w] = "waiting" /\ pc' = [after EXCEPT ![w] = "woken"]
    BY <1>2, <1>3
  <2>2. \A e \in Sending : pc'[e] = IF e = w THEN "woken" ELSE pc[e]
    BY <1>2, <2>1
  <2>3. Undisturbed(Sending, SendPeekers) /\ w \notin SendPeekers
    BY <1>2, <2>1, <2>2 DEF Undisturbed
  <2>4. capacity # None /\ capacity <= Len(buffer) + Cardinality(WokenSenders)
    BY <1>2, <1>3, <2>3 DEF IInv, PlacesSpokenFor
  <2>5. WokenSenders' = WokenSenders \cup {w} /\ w \notin WokenSenders
    BY <1>2, <2>1, <2>2, <2>3 DEF WokenSenders
  <2>6. /\ Cardinality(WokenSenders') = Cardinality(WokenSenders) + 1
        /\ Cardinality(WokenSenders) \in Nat
    BY <1>2, <2>5, OneMore, CallsFinite, Zenon DEF WokenSenders
  <2>7. capacity \in Nat
    BY <2>4, ChannelAssumption
  <2> QED
    BY <1>1, <2>4, <2>6, <2>7
<1>6. ValuesSpokenFor'
  <2> SUFFICES ASSUME Undisturbed(Receiving, ReceivePeekers)',
                      NEW d \in Receivers, pc'[d] = "waiting"
               PROVE  Len(buffer') <= Cardinality(WokenReceivers')
    BY DEF ValuesSpokenFor
  <2>1. Undisturbed(Receiving, ReceivePeekers)
    BY <1>2, <1>4 DEF Undisturbed
  <2>2. Len(buffer) <= Cardinality(WokenReceivers)
    BY <1>2, <1>3, <2>1 DEF IInv, ValuesSpokenFor
  <2>3. WokenReceivers' = WokenReceivers \ {c}
    BY <1>2, <1>4 DEF WokenReceivers
  <2>4. /\ Cardinality(WokenReceivers) <= Cardinality(WokenReceivers') + 1
        /\ Cardinality(WokenReceivers) \in Nat /\ Cardinality(WokenReceivers') \in Nat
    BY <1>2, <2>3, OneLess, CallsFinite, Zenon DEF WokenReceivers
  <2> QED
    BY <1>1, <2>2, <2>4
<1> QED
  BY <1>5, <1>6

\* The token of c: the wake-ups of its direction may go astray from now on,
\* those of the other direction are as before.
LEMMA CancelTokenWakes ==
  ASSUME IInv, NEW c \in Calls, cancelToken(c)
  PROVE  ValuesSpokenFor' /\ PlacesSpokenFor'
<1>1. /\ pc' = [pc EXCEPT ![c] = IF active[c] THEN "thrown" ELSE @]
      /\ buffer' = buffer /\ cancelled' = cancelled \cup {c}
      /\ pc \in [Calls -> States]
  BY DEF cancelToken, IInv, QInv, TypeOK
<1>2. /\ Senders \subseteq Sending /\ Receivers \subseteq Receiving
      /\ SendPeekers \subseteq Sending /\ ReceivePeekers \subseteq Receiving
      /\ Sending \subseteq Calls /\ Receiving \subseteq Calls
  BY DEF Calls, Sending, Receiving
<1>3. ValuesSpokenFor'
  <2> SUFFICES ASSUME Undisturbed(Receiving, ReceivePeekers)',
                      NEW d \in Receivers, pc'[d] = "waiting"
               PROVE  Len(buffer') <= Cardinality(WokenReceivers')
    BY DEF ValuesSpokenFor
  <2>1. c \notin Receiving
    BY <1>1 DEF Undisturbed
  <2>2. \A e \in Receiving : pc'[e] = pc[e]
    BY <1>1, <1>2, <2>1
  <2>3. Undisturbed(Receiving, ReceivePeekers) /\ pc[d] = "waiting"
    BY <1>1, <1>2, <2>2 DEF Undisturbed
  <2>4. WokenReceivers' = WokenReceivers
    BY <1>2, <2>2 DEF WokenReceivers
  <2> QED
    BY <1>1, <2>3, <2>4 DEF IInv, ValuesSpokenFor
<1>4. PlacesSpokenFor'
  <2> SUFFICES ASSUME Undisturbed(Sending, SendPeekers)',
                      NEW d \in Senders, pc'[d] = "waiting"
               PROVE  capacity # None /\ capacity <= Len(buffer') + Cardinality(WokenSenders')
    BY DEF PlacesSpokenFor
  <2>1. c \notin Sending
    BY <1>1 DEF Undisturbed
  <2>2. \A e \in Sending : pc'[e] = pc[e]
    BY <1>1, <1>2, <2>1
  <2>3. Undisturbed(Sending, SendPeekers) /\ pc[d] = "waiting"
    BY <1>1, <1>2, <2>2 DEF Undisturbed
  <2>4. WokenSenders' = WokenSenders
    BY <1>2, <2>2 DEF WokenSenders
  <2> QED
    BY <1>1, <2>3, <2>4 DEF IInv, PlacesSpokenFor
<1> QED
  BY <1>3, <1>4

LEMMA SendWakes ==
  ASSUME IInv, NEW c \in Calls, send(c)
  PROVE  ValuesSpokenFor' /\ PlacesSpokenFor'
<1>1. c \in Senders /\ c \in Sending /\ pc[c] \in {"idle", "woken"} /\ pc \in [Calls -> States]
  BY DEF send, atTop, Sending, IInv, QInv, TypeOK
<1>2. CASE (c \in cancelled \/ closed) /\ leave(c)
  BY <1>1, <1>2, LeaveWakes
<1>3. CASE /\ buffer' = Append(buffer, c)
           /\ wakeReceiver([pc EXCEPT ![c] = "done"])
           /\ UNCHANGED <<closed, cancelled>>
  <2>1. /\ [pc EXCEPT ![c] = "done"] \in [Calls -> States]
        /\ \A d \in Calls : [pc EXCEPT ![c] = "done"][d] = IF d = c THEN "done" ELSE pc[d]
    BY <1>1
  <2> QED
    BY <1>1, <1>3, <2>1, PutWakes, Zenon
<1>4. CASE isFull /\ wait(c)
  BY <1>1, <1>4, WaitWakes
<1> QED
  BY <1>2, <1>3, <1>4 DEF send

LEMMA ReceiveWakes ==
  ASSUME IInv, NEW c \in Calls, receive(c)
  PROVE  ValuesSpokenFor' /\ PlacesSpokenFor'
<1>1. /\ c \in Receivers /\ c \notin Sending /\ pc[c] \in {"idle", "woken"}
      /\ pc \in [Calls -> States]
  BY ChannelAssumption DEF receive, atTop, Receiving, IInv, QInv, TypeOK
<1>2. CASE (c \in cancelled \/ (isEmpty /\ closed)) /\ leave(c)
  BY <1>1, <1>2, LeaveWakes
<1>3. CASE /\ ~isEmpty
           /\ buffer' = Tail(buffer)
           /\ wakeSender([pc EXCEPT ![c] = "done"])
           /\ UNCHANGED <<closed, cancelled>>
  <2>1. /\ [pc EXCEPT ![c] = "done"] \in [Calls -> States]
        /\ \A d \in Calls : [pc EXCEPT ![c] = "done"][d] = IF d = c THEN "done" ELSE pc[d]
    BY <1>1
  <2> QED
    BY <1>1, <1>3, <2>1, TakeWakes, Zenon
<1>4. CASE isEmpty /\ wait(c)
  BY <1>1, <1>4, WaitWakes
<1> QED
  BY <1>2, <1>3, <1>4 DEF receive

\* The inductive step.
LEMMA NextIInv ==
  ASSUME IInv, [Next]_vars
  PROVE  IInv'
<1>1. QInv'
  BY NextQInv DEF IInv
<1>2. /\ pc \in [Calls -> States] /\ Token \notin Calls
      /\ \A c \in SendPeekers : c \in Sending
      /\ \A c \in ReceivePeekers : c \notin Sending
  BY ChannelAssumption DEF IInv, QInv, TypeOK, Sending, Receiving
<1>3. ASSUME NEW c \in Calls, waitUntilSendable(c)
      PROVE  ValuesSpokenFor' /\ PlacesSpokenFor'
  BY <1>2, <1>3, LeaveWakes, WaitWakes DEF waitUntilSendable, atTop
<1>4. ASSUME NEW c \in Calls, waitUntilReceivable(c)
      PROVE  ValuesSpokenFor' /\ PlacesSpokenFor'
  BY <1>2, <1>4, LeaveWakes, WaitWakes DEF waitUntilReceivable, atTop
<1>5. ASSUME NEW c \in Calls, throw(c)
      PROVE  ValuesSpokenFor' /\ PlacesSpokenFor'
  BY <1>5, LeaveWakes DEF throw
<1>6. ASSUME trySend
      PROVE  ValuesSpokenFor' /\ PlacesSpokenFor'
  <2>1. \A d \in Calls : pc[d] = IF d = Token THEN "done" ELSE pc[d]
    BY <1>2
  <2> QED
    BY <1>2, <1>6, <2>1, PutWakes DEF trySend
<1>7. ASSUME tryReceive
      PROVE  ValuesSpokenFor' /\ PlacesSpokenFor'
  <2>1. \A d \in Calls : pc[d] = IF d = Token THEN "done" ELSE pc[d]
    BY <1>2
  <2> QED
    BY <1>2, <1>7, <2>1, TakeWakes DEF tryReceive
<1>8. ASSUME close
      PROVE  ValuesSpokenFor' /\ PlacesSpokenFor'
  <2>1. \A c \in Calls : pc'[c] # "waiting"
    BY <1>1, <1>8 DEF close, QInv, CloseWakesAll
  <2> QED
    BY <2>1 DEF ValuesSpokenFor, PlacesSpokenFor, Calls
<1>9. ASSUME UNCHANGED vars
      PROVE  ValuesSpokenFor' /\ PlacesSpokenFor'
  BY <1>9 DEF vars, IInv, ValuesSpokenFor, PlacesSpokenFor, WokenReceivers, WokenSenders,
              Undisturbed
<1> QED
  BY <1>1, <1>3, <1>4, <1>5, <1>6, <1>7, <1>8, <1>9, SendWakes, ReceiveWakes, CancelTokenWakes
     DEF IInv, Next, run

------------------------------------------------------------------------------
\* The queues, the flags and the counts of wake-ups hold in every reachable
\* state.
THEOREM ChannelInvariant == Spec => []IInv
<1>1. Init => IInv
  <2> SUFFICES ASSUME Init PROVE IInv
    OBVIOUS
  <2>1. \A c \in Calls : pc[c] # "waiting"
    BY DEF Init
  <2> QED
    BY <2>1, InitQInv DEF IInv, ValuesSpokenFor, PlacesSpokenFor, Calls
<1>2. IInv /\ [Next]_vars => IInv'
  BY NextIInv
<1> QED
  BY <1>1, <1>2, PTL DEF Spec

\* A call is suspended exactly while send, receive, close and the rest can still
\* find its Waiter, stale waiters of cancelled calls or not; the buffer never
\* exceeds the capacity; close leaves no call suspended.
THEOREM ChannelWaitersConsistent == Spec => []WaitersConsistent
<1>1. IInv => WaitersQueued
  <2> SUFFICES ASSUME IInv, NEW c \in Calls
               PROVE  pc[c] = "waiting" <=>
                        /\ active[c]
                        /\ LET q == IF c \in Sending THEN sendWaiters ELSE receiveWaiters
                           IN \E i \in DOMAIN q : q[i] = c
    BY DEF WaitersQueued
  <2>1. pc[c] = "waiting" <=> active[c]
    BY DEF IInv, QInv, ActiveIsWaiting
  <2>2. CASE c \in Sending
    BY <2>1, <2>2 DEF IInv, QInv, Queued
  <2>3. CASE c \notin Sending
    <3>1. c \in Receiving
      BY <2>3 DEF Calls, Sending, Receiving
    <3> QED
      BY <2>1, <2>3, <3>1 DEF IInv, QInv, Queued
  <2> QED
    BY <2>2, <2>3
<1>2. IInv => WaitersConsistent
  BY <1>1 DEF IInv, QInv, WaitersConsistent
<1> QED
  BY ChannelInvariant, <1>2, PTL

\* As long as every wake-up goes to a call that acts on it, no receiver waits
\* beside a value and no sender beside a place unless a resumed call is on its
\* way to it: send, trySend, receive and tryReceive lose no wake-up.
THEOREM ChannelEachWakeIsUsed == Spec => []EachWakeIsUsed
<1>1. IInv => EachValueWakesReceiver
  <2> SUFFICES ASSUME IInv, Undisturbed(Receiving, ReceivePeekers),
                      NEW c \in Receivers, pc[c] = "waiting", ~isEmpty
               PROVE  \E d \in Receivers : pc[d] = "woken"
    BY DEF EachValueWakesReceiver, NoReceiverMissesValue
  <2>1. Len(buffer) <= Cardinality(WokenReceivers)
    BY DEF IInv, ValuesSpokenFor
  <2>2. Len(buffer) \in Nat \ {0}
    BY EmptySeq DEF IInv, QInv, TypeOK, isEmpty
  <2>3. WokenReceivers # {}
    <3>1. WokenReceivers = {} => Cardinality(WokenReceivers) = 0
      BY FS_EmptySet, Zenon
    <3>2. Cardinality(WokenReceivers) # 0
      BY <2>1, <2>2
    <3> QED
      BY <3>1, <3>2
  <2> QED
    BY <2>3 DEF WokenReceivers
<1>2. IInv => EachPlaceWakesSender
  <2> SUFFICES ASSUME IInv, Undisturbed(Sending, SendPeekers),
                      NEW c \in Senders, pc[c] = "waiting", ~isFull
               PROVE  \E d \in Senders : pc[d] = "woken"
    BY DEF EachPlaceWakesSender
  <2>1. capacity # None /\ capacity <= Len(buffer) + Cardinality(WokenSenders)
    BY DEF IInv, PlacesSpokenFor
  <2>2. Len(buffer) \in Nat /\ capacity \in Nat /\ ~(Len(buffer) >= capacity)
    BY <2>1, ChannelAssumption DEF IInv, QInv, TypeOK, isFull
  <2>3. WokenSenders # {}
    <3>1. WokenSenders = {} => Cardinality(WokenSenders) = 0
      BY FS_EmptySet, Zenon
    <3>2. Cardinality(WokenSenders) # 0
      BY <2>1, <2>2
    <3> QED
      BY <3>1, <3>2
  <2> QED
    BY <2>3 DEF WokenSenders
<1>3. IInv => EachWakeIsUsed
  BY <1>1, <1>2 DEF EachWakeIsUsed
<1> QED
  BY ChannelInvariant, <1>3, PTL

==============================================================================
