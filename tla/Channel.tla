------------------------------- MODULE Channel -------------------------------
(****************************************************************************)
(* Whim\Channel: State (lib/src/Channel/_Private/State.whim), which the     *)
(* sender and receiver ends of a channel share.                             *)
(*                                                                          *)
(* An actor is one CALL of send, receive, waitUntilSendable or              *)
(* waitUntilReceivable; each of the four is a loop around wait, and each    *)
(* action is the code between two suspension points.  A call owns at most   *)
(* one Waiter at a time (wake and close pop it before the call can push     *)
(* another), so the call stands for it in the ring buffers.  A value is the *)
(* call that sent it; trySend sends Token.                                  *)
(*                                                                          *)
(*   idle -> ... -> done         the loop's condition held                  *)
(*   idle -> waiting -> woken -> ... the waiter was resumed                 *)
(*   waiting -> thrown -> done   the token was cancelled while waiting      *)
(****************************************************************************)
EXTENDS Naturals, Sequences, FiniteSets

CONSTANTS
  Senders, Receivers,     \* calls of send and receive
  SendPeekers,            \* calls of waitUntilSendable
  ReceivePeekers,         \* calls of waitUntilReceivable
  Cancellable,            \* calls whose cancellation token may be cancelled
  Token,                  \* the value trySend sends
  capacity,               \* $capacity, or None
  None

Calls == Senders \cup Receivers \cup SendPeekers \cup ReceivePeekers
Sending == Senders \cup SendPeekers
Receiving == Receivers \cup ReceivePeekers

ASSUME ChannelAssumption ==
  /\ IsFiniteSet(Calls)
  /\ Sending \cap Receiving = {}
  /\ Senders \cap SendPeekers = {} /\ Receivers \cap ReceivePeekers = {}
  /\ Cancellable \subseteq Calls
  /\ Token \notin Calls
  /\ capacity \in Nat \ {0} \/ capacity = None
  /\ None \notin Nat

VARIABLES
  buffer,           \* $buffer
  closed,           \* $closed
  sendWaiters,      \* $sendWaiters, stale (inactive) entries included
  receiveWaiters,   \* $receiveWaiters, stale (inactive) entries included
  active,           \* Waiter::$active of each call
  pc,               \* where each call is
  cancelled         \* calls whose token is cancelled

vars == <<buffer, closed, sendWaiters, receiveWaiters, active, pc, cancelled>>

States == {"idle", "waiting", "woken", "thrown", "done"}

Init ==
  /\ buffer = <<>>
  /\ closed = FALSE
  /\ sendWaiters = <<>>
  /\ receiveWaiters = <<>>
  /\ active = [c \in Calls |-> FALSE]
  /\ pc = [c \in Calls |-> "idle"]
  /\ cancelled = {}

isFullLate == capacity # None /\ Len(buffer) > capacity

isFull == capacity # None /\ Len(buffer) >= capacity
isEmpty == buffer = <<>>

------------------------------------------------------------------------------
\* Indices of q that hold a Waiter still active.
ActiveAt(q) == {i \in DOMAIN q : active[q[i]]}

\* wakeSender and wakeReceiver: drop stale waiters, resume the first active
\* one.  `after` is pc once the calling operation has returned.
wake(q, qNext, after) ==
  \/ \E i \in ActiveAt(q) :
       /\ \A j \in ActiveAt(q) : i <= j
       /\ qNext = SubSeq(q, i + 1, Len(q))
       /\ active' = [active EXCEPT ![q[i]] = FALSE]
       /\ pc' = [after EXCEPT ![q[i]] = "woken"]
  \/ /\ ActiveAt(q) = {}
     /\ qNext = <<>>
     /\ pc' = after
     /\ UNCHANGED active

wakeSender(after) == wake(sendWaiters, sendWaiters', after) /\ UNCHANGED receiveWaiters

wakeReceiver(after) == wake(receiveWaiters, receiveWaiters', after) /\ UNCHANGED sendWaiters

\* The call returns or throws without touching the channel.
leave(c) ==
  /\ pc' = [pc EXCEPT ![c] = "done"]
  /\ UNCHANGED <<buffer, closed, sendWaiters, receiveWaiters, active, cancelled>>

\* wait up to its suspension point
wait(c) ==
  /\ IF c \in Sending
     THEN sendWaiters' = Append(sendWaiters, c) /\ UNCHANGED receiveWaiters
     ELSE receiveWaiters' = Append(receiveWaiters, c) /\ UNCHANGED sendWaiters
  /\ active' = [active EXCEPT ![c] = TRUE]
  /\ pc' = [pc EXCEPT ![c] = "waiting"]
  /\ UNCHANGED <<buffer, closed, cancelled>>

\* The call is at the top of its loop: just called, or resumed from wait.
atTop(c) == pc[c] \in {"idle", "woken"}

send(c) ==
  /\ c \in Senders /\ atTop(c)
  /\ \/ (c \in cancelled \/ closed) /\ leave(c)
     \/ /\ ~(c \in cancelled \/ closed) /\ ~isFull
        /\ buffer' = Append(buffer, c)
        /\ wakeReceiver([pc EXCEPT ![c] = "done"])
        /\ UNCHANGED <<closed, cancelled>>
     \/ ~(c \in cancelled \/ closed) /\ isFull /\ wait(c)

waitUntilSendable(c) ==
  /\ c \in SendPeekers /\ atTop(c)
  /\ \/ (c \in cancelled \/ closed \/ ~isFull) /\ leave(c)
     \/ ~(c \in cancelled \/ closed) /\ isFull /\ wait(c)

receiveIgnoresClose(c) ==
  /\ c \in Receivers /\ atTop(c)
  /\ \/ c \in cancelled /\ leave(c)
     \/ /\ c \notin cancelled /\ ~isEmpty
        /\ buffer' = Tail(buffer)
        /\ wakeSender([pc EXCEPT ![c] = "done"])
        /\ UNCHANGED <<closed, cancelled>>
     \/ c \notin cancelled /\ isEmpty /\ wait(c)

receive(c) ==
  /\ c \in Receivers /\ atTop(c)
  /\ \/ (c \in cancelled \/ (isEmpty /\ closed)) /\ leave(c)
     \/ /\ c \notin cancelled /\ ~isEmpty
        /\ buffer' = Tail(buffer)
        /\ wakeSender([pc EXCEPT ![c] = "done"])
        /\ UNCHANGED <<closed, cancelled>>
     \/ c \notin cancelled /\ isEmpty /\ ~closed /\ wait(c)

waitUntilReceivable(c) ==
  /\ c \in ReceivePeekers /\ atTop(c)
  /\ \/ (c \in cancelled \/ ~isEmpty \/ closed) /\ leave(c)
     \/ c \notin cancelled /\ isEmpty /\ ~closed /\ wait(c)

\* wait ends with the error of the token.
throw(c) == pc[c] = "thrown" /\ leave(c)

trySendSilently ==
  /\ ~closed /\ ~isFull
  /\ buffer' = Append(buffer, Token)
  /\ UNCHANGED <<closed, sendWaiters, receiveWaiters, active, pc, cancelled>>

trySend ==
  /\ ~closed /\ ~isFull
  /\ buffer' = Append(buffer, Token)
  /\ wakeReceiver(pc)
  /\ UNCHANGED <<closed, cancelled>>

tryReceiveSilently ==
  /\ ~isEmpty
  /\ buffer' = Tail(buffer)
  /\ UNCHANGED <<closed, sendWaiters, receiveWaiters, active, pc, cancelled>>

tryReceive ==
  /\ ~isEmpty
  /\ buffer' = Tail(buffer)
  /\ wakeSender(pc)
  /\ UNCHANGED <<closed, cancelled>>

closeSendersOnly ==
  LET woken == {sendWaiters[i] : i \in ActiveAt(sendWaiters)}
  IN /\ ~closed
     /\ closed' = TRUE
     /\ sendWaiters' = <<>>
     /\ active' = [c \in Calls |-> active[c] /\ c \notin woken]
     /\ pc' = [c \in Calls |-> IF c \in woken THEN "woken" ELSE pc[c]]
     /\ UNCHANGED <<buffer, receiveWaiters, cancelled>>

close ==
  LET woken == {sendWaiters[i] : i \in ActiveAt(sendWaiters)}
               \cup {receiveWaiters[i] : i \in ActiveAt(receiveWaiters)}
  IN /\ ~closed
     /\ closed' = TRUE
     /\ sendWaiters' = <<>>
     /\ receiveWaiters' = <<>>
     /\ active' = [c \in Calls |-> active[c] /\ c \notin woken]
     /\ pc' = [c \in Calls |-> IF c \in woken THEN "woken" ELSE pc[c]]
     /\ UNCHANGED <<buffer, cancelled>>

cancelTokenKeepsActive(c) ==
  /\ c \in Cancellable \ cancelled
  /\ cancelled' = cancelled \cup {c}
  /\ pc' = [pc EXCEPT ![c] = IF active[c] THEN "thrown" ELSE @]
  /\ UNCHANGED <<buffer, closed, sendWaiters, receiveWaiters, active>>

\* The token of a call is cancelled; the callback wait registered runs at once
\* and acts only on a Waiter that is still active.
cancelToken(c) ==
  /\ c \in Cancellable \ cancelled
  /\ cancelled' = cancelled \cup {c}
  /\ active' = [active EXCEPT ![c] = FALSE]
  /\ pc' = [pc EXCEPT ![c] = IF active[c] THEN "thrown" ELSE @]
  /\ UNCHANGED <<buffer, closed, sendWaiters, receiveWaiters>>

\* The loop runs call c.
run(c) == send(c) \/ receive(c) \/ waitUntilSendable(c) \/ waitUntilReceivable(c) \/ throw(c)

Next ==
  \/ \E c \in Calls : run(c) \/ cancelToken(c)
  \/ trySend \/ tryReceive \/ close

Spec == Init /\ [][Next]_vars

\* The loop runs every call it was asked to resume; whether a call is made at
\* all is up to the program.
FairSpec == Spec /\ \A c \in Calls : WF_vars(pc[c] # "idle" /\ run(c))

------------------------------------------------------------------------------
TypeOK ==
  /\ buffer \in Seq(Calls \cup {Token})
  /\ capacity # None => Len(buffer) <= capacity
  /\ closed \in BOOLEAN
  /\ sendWaiters \in Seq(Sending)
  /\ receiveWaiters \in Seq(Receiving)
  /\ active \in [Calls -> BOOLEAN]
  /\ pc \in [Calls -> States]
  /\ cancelled \subseteq Calls

\* A call is suspended exactly while its Waiter can still be woken: it is
\* active and stands in the queue of its direction.
WaitersQueued ==
  \A c \in Calls :
    pc[c] = "waiting" <=>
      /\ active[c]
      /\ LET q == IF c \in Sending THEN sendWaiters ELSE receiveWaiters
         IN \E i \in DOMAIN q : q[i] = c

\* No call sleeps through close.
CloseWakesAll == closed => \A c \in Calls : pc[c] # "waiting"

\* The queues of waiters tell who is suspended, stale entries or not, and close
\* leaves nobody there.
WaitersConsistent == TypeOK /\ WaitersQueued /\ CloseWakesAll

\* "Receives a value, waiting until one is available": a receiver waits while
\* the buffer holds a value only if a resumed receiver is about to take it.
NoReceiverMissesValue ==
  (\E c \in Receivers : pc[c] = "waiting") /\ ~isEmpty
    => \E c \in Receivers : pc[c] = "woken"

\* No wake-up of the direction can be spent on a call that does not act on it:
\* none was cancelled, and no call that only looks has started.
Undisturbed(calls, peekers) ==
  /\ cancelled \cap calls = {}
  /\ \A c \in peekers : pc[c] = "idle"

\* send and trySend wake one receiver for each value: as long as every wake-up
\* goes to a receiver that takes its value, none waits beside a value that
\* nobody is about to take.
EachValueWakesReceiver == Undisturbed(Receiving, ReceivePeekers) => NoReceiverMissesValue

\* receive and tryReceive wake one sender for each place: as long as every
\* wake-up goes to a sender that uses it, none waits beside a free place that
\* nobody is about to use.
EachPlaceWakesSender ==
  Undisturbed(Sending, SendPeekers) /\ (\E c \in Senders : pc[c] = "waiting") /\ ~isFull
    => \E c \in Senders : pc[c] = "woken"

\* No wake of either direction is lost while every woken call acts on it.
EachWakeIsUsed == EachValueWakesReceiver /\ EachPlaceWakesSender

\* close ends every call, suspended or resumed and not yet run: senders with an
\* error, receivers with a value that was left or an error.
CloseEndsCalls ==
  \A c \in Calls : (closed /\ pc[c] \in {"waiting", "woken"}) ~> (pc[c] = "done")

\* As long as no wake-up is spent on another call, a receiver does not wait for
\* ever beside a value nobody takes.
ValueReachesReceiver ==
  []Undisturbed(Receiving, ReceivePeekers) =>
    \A c \in Receivers : (pc[c] = "waiting" /\ ~isEmpty) ~> (pc[c] # "waiting" \/ isEmpty)

==============================================================================
