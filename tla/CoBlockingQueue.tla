--------------------------- MODULE CoBlockingQueue ---------------------------
(***************************************************************************)
(* CoBlockingQueue (src/lib/cotask/CoBlockingQueue.h): a list of items and *)
(* two condition variables, pushCv for those who wait for room and takeCv  *)
(* for those who wait for an item.  A successful Push() notifies takeCv    *)
(* and a successful Take() notifies pushCv, but only after the coroutine   *)
(* has been resumed: between the test that moved the item and that         *)
(* notification the client is "granted", and others run.                   *)
(*                                                                         *)
(* One step is one operation on a condition variable, which its mutex      *)
(* makes atomic (CoConditionVariable models what is inside), but for one   *)
(* thing: a waiter that was taken off the list is called back without the  *)
(* mutex, and until then a timeout may still end its wait ("unsettled").   *)
(* Every client calls again and again.                                     *)
(***************************************************************************)
EXTENDS Naturals, Sequences, FiniteSets, SequencesExt

CONSTANTS
  Pushers, Takers, Closers,  \* those who call Push(), Take() and Close()
  TimedClients,              \* pushers and takers that wait with a timeout
  Background,                \* who is not on the foreground thread, which runs the timers
  MaxLength,
  Nothing, Closed            \* what a taker may have in hand, but for an item

Clients == Pushers \cup Takers

ASSUME QueueAssumption ==
  /\ MaxLength \in Nat \ {0}
  /\ IsFiniteSet(Pushers) /\ IsFiniteSet(Takers)
  /\ Pushers \cap Takers = {} /\ Closers \cap Clients = {}
  /\ TimedClients \subseteq Clients /\ Background \subseteq Clients \cup Closers
  /\ Nothing \notin Pushers /\ Closed \notin Pushers /\ Nothing # Closed

VARIABLES
  queue,         \* CoBlockingQueue::queue: an item is named after its pusher
  closed,        \* CoBlockingQueue::closed
  pushAwaiters,  \* pushCv.awaiters
  takeAwaiters,  \* takeCv.awaiters
  pc,            \* where each client is
  value,         \* Take()'s local: what the test took for each taker
  moved,         \* the clients for whom the test moved an item in this call
  closing,       \* the closers between the two halves of Close()
  destroyed,
  unsettled,     \* clients whose wait a test has ended, and a timeout still may
  raced          \* history: clients whose wait a timeout has ended after a test had

vars == <<queue, closed, pushAwaiters, takeAwaiters, pc, value, moved, closing, destroyed,
          unsettled, raced>>

Pc == {"idle", "waiting", "granted", "returned", "refused", "timedOut"}

TypeOK ==
  /\ queue \in Seq(Pushers) /\ Len(queue) <= MaxLength
  /\ closed \in BOOLEAN
  /\ pushAwaiters \in Seq(Pushers)
  /\ takeAwaiters \in Seq(Takers)
  /\ pc \in [Clients -> Pc]
  /\ value \in [Takers -> Pushers \cup {Nothing, Closed}]
  /\ moved \subseteq Clients
  /\ closing \subseteq Closers
  /\ destroyed \in BOOLEAN
  /\ unsettled \subseteq TimedClients /\ raced \subseteq TimedClients

Init ==
  /\ queue = <<>> /\ closed = FALSE
  /\ pushAwaiters = <<>> /\ takeAwaiters = <<>>
  /\ pc = [c \in Clients |-> "idle"]
  /\ value = [t \in Takers |-> Nothing]
  /\ moved = {} /\ closing = {}
  /\ destroyed = FALSE
  /\ unsettled = {} /\ raced = {}

-----------------------------------------------------------------------------
(* The conditionTests: "yes", "no" (wait), or "throw". *)

PushTestOneTooMany == CASE closed -> "throw"  \* a mutant: > for ==
                        [] ~closed /\ Len(queue) > MaxLength -> "no"
                        [] OTHER -> "yes"
PushTest == CASE closed -> "throw"
              [] ~closed /\ Len(queue) = MaxLength -> "no"
              [] OTHER -> "yes"
TakeTestClosedFirst == CASE closed -> "throw"  \* a mutant: the tests swapped
                         [] ~closed /\ queue = <<>> -> "no"
                         [] OTHER -> "yes"
TakeTest == CASE queue # <<>> -> "yes" [] queue = <<>> /\ closed -> "throw" [] OTHER -> "no"

\* Does Notify() find somebody whom it can call back?  The mutants notify only when the
\* queue has just become non-empty, or is no longer full.
WakesFirstTaker == takeAwaiters # <<>> /\ TakeTest # "no" /\ Len(queue) = 1
WakesTaker == takeAwaiters # <<>> /\ TakeTest # "no"
WakesFirstPusher == pushAwaiters # <<>> /\ PushTest # "no" /\ Len(queue) = MaxLength - 1
WakesPusher == pushAwaiters # <<>> /\ PushTest # "no"

\* How a wait ends whose test says `result`.  (In the mutant, `closed` is looked at once
\* more.)
EndedUnlessClosed(result) == IF result = "throw" \/ closed THEN "refused" ELSE "granted"
Ended(result) == IF result = "throw" THEN "refused" ELSE "granted"

\* p's test says yes: its item is in the queue.  t's does: it has the first one.
PushItem(p) == queue' = Append(queue, p) /\ moved' = moved \cup {p} /\ UNCHANGED value
TakeItem(t) == /\ queue' = Tail(queue) /\ moved' = moved \cup {t}
               /\ value' = [value EXCEPT ![t] = Head(queue)]
NoItem(c)   == /\ value' = IF c \in Takers THEN [value EXCEPT ![c] = Closed] ELSE value
               /\ UNCHANGED <<queue, moved>>

\* Of those that a notifier takes off a list: the timeout of a wait is on the foreground
\* thread.  It cannot come between the test and the callback if both are there too, and
\* the wait has begun there.
Unsettle(cs, byBackground) ==
  unsettled' = unsettled \cup {c \in cs \cap TimedClients : byBackground \/ c \in Background}

IsResumed(c) == c \notin unsettled

-----------------------------------------------------------------------------
(* Push() and Take(). *)

\* co_await pushCv.Wait(...) of Push().
Push(p) ==
  /\ pc[p] = "idle" /\ ~destroyed
  /\ \/ PushTest = "yes" /\ PushItem(p) /\ UNCHANGED pushAwaiters
     \/ PushTest = "throw" /\ NoItem(p) /\ UNCHANGED pushAwaiters
     \/ PushTest = "no" /\ pushAwaiters' = Append(pushAwaiters, p)
                        /\ UNCHANGED <<queue, moved, value>>
  /\ pc' = [pc EXCEPT ![p] = IF PushTest = "no" THEN "waiting" ELSE Ended(PushTest)]
  /\ UNCHANGED <<closed, takeAwaiters, closing, destroyed, unsettled, raced>>

\* Push() goes on: takeCv.Notify() tests the first taker, if there is one; Push() returns.
PushNotify(p) ==
  /\ pc[p] = "granted" /\ IsResumed(p)
  /\ IF WakesTaker
     THEN LET t == Head(takeAwaiters)
          IN  /\ takeAwaiters' = Tail(takeAwaiters)
              /\ Unsettle({t}, p \in Background)
              /\ pc' = [pc EXCEPT ![p] = "idle", ![t] = Ended(TakeTest)]
              /\ IF TakeTest = "yes"
                 THEN /\ queue' = Tail(queue) /\ moved' = (moved \cup {t}) \ {p}
                      /\ value' = [value EXCEPT ![t] = Head(queue)]
                 ELSE /\ UNCHANGED queue /\ moved' = moved \ {p}
                      /\ value' = [value EXCEPT ![t] = Closed]
     ELSE /\ pc' = [pc EXCEPT ![p] = "idle"] /\ moved' = moved \ {p}
          /\ UNCHANGED <<takeAwaiters, queue, value, unsettled>>
  /\ UNCHANGED <<closed, pushAwaiters, closing, destroyed, raced>>

\* co_await takeCv.Wait(...) of Take().
Take(t) ==
  /\ pc[t] = "idle" /\ ~destroyed
  /\ \/ TakeTest = "yes" /\ TakeItem(t) /\ UNCHANGED takeAwaiters
     \/ TakeTest = "throw" /\ NoItem(t) /\ UNCHANGED takeAwaiters
     \/ TakeTest = "no" /\ takeAwaiters' = Append(takeAwaiters, t)
                        /\ UNCHANGED <<queue, moved, value>>
  /\ pc' = [pc EXCEPT ![t] = IF TakeTest = "no" THEN "waiting" ELSE Ended(TakeTest)]
  /\ UNCHANGED <<closed, pushAwaiters, closing, destroyed, unsettled, raced>>

\* Take() goes on: pushCv.Notify() tests the first pusher; then Take() returns.
TakeNotify(t) ==
  /\ pc[t] = "granted" /\ IsResumed(t)
  /\ IF WakesPusher
     THEN LET p == Head(pushAwaiters)
          IN  /\ pushAwaiters' = Tail(pushAwaiters)
              /\ Unsettle({p}, t \in Background)
              /\ pc' = [pc EXCEPT ![t] = "returned", ![p] = Ended(PushTest)]
              /\ queue' = IF PushTest = "yes" THEN Append(queue, p) ELSE queue
              /\ moved' = moved \cup (IF PushTest = "yes" THEN {p} ELSE {})
     ELSE /\ pc' = [pc EXCEPT ![t] = "returned"]
          /\ UNCHANGED <<pushAwaiters, queue, moved, unsettled>>
  /\ UNCHANGED <<value, closed, takeAwaiters, closing, destroyed, raced>>

\* Take() has returned, or the exception of a wait has left Push() or Take(): the
\* caller goes its way with what it has.
Return(c) ==
  /\ pc[c] \in {"returned", "refused", "timedOut"} /\ IsResumed(c)
  /\ pc' = [pc EXCEPT ![c] = "idle"]
  /\ moved' = moved \ {c}
  /\ value' = IF c \in Takers THEN [value EXCEPT ![c] = Nothing] ELSE value
  /\ UNCHANGED <<queue, closed, pushAwaiters, takeAwaiters, closing, destroyed, unsettled,
                 raced>>

-----------------------------------------------------------------------------
(* Timeouts. *)

\* CancelExecute() finds the awaiter on its list and removes it.
RemoveAwaiter(list, c) == RemoveFirst(list, c)

\* The timer of a suspended client fires.
Timeout(c) ==
  /\ c \in TimedClients /\ pc[c] = "waiting"
  /\ pushAwaiters' = RemoveAwaiter(pushAwaiters, c)
  /\ takeAwaiters' = RemoveAwaiter(takeAwaiters, c)
  /\ pc' = [pc EXCEPT ![c] = "timedOut"]
  /\ UNCHANGED <<queue, closed, value, moved, closing, destroyed, unsettled, raced>>

\* A notifier has taken the client off the list, so that CancelExecute() finds it gone and
\* counts the wait as cancelled: the call times out, whatever the test has done.  (The
\* callback then finds a wait that is over, which ends the process, unless the timeout
\* had come while await_suspend() was still at work.)
TimeoutTooLate(c) ==
  /\ c \in unsettled
  /\ unsettled' = unsettled \ {c}
  /\ pc' = [pc EXCEPT ![c] = "timedOut"]
  /\ raced' = raced \cup {c}
  /\ UNCHANGED <<queue, closed, pushAwaiters, takeAwaiters, value, moved, closing, destroyed>>

\* Or the notifier calls it back in time.
Settle(c) ==
  /\ c \in unsettled
  /\ unsettled' = unsettled \ {c}
  /\ UNCHANGED <<queue, closed, pushAwaiters, takeAwaiters, pc, value, moved, closing,
                 destroyed, raced>>

-----------------------------------------------------------------------------
(* Close() and the destructor. *)

\* First half: `closed` is set under takeCv's mutex and every waiting taker is tested
\* in turn; it gets an item if there is one left, else the exception.
CloseTake(k) ==
  /\ k \notin closing /\ ~destroyed
  /\ closed' = TRUE
  /\ closing' = closing \cup {k}
  /\ LET n == IF Len(queue) < Len(takeAwaiters) THEN Len(queue) ELSE Len(takeAwaiters)
         place(t) == CHOOSE i \in DOMAIN takeAwaiters : takeAwaiters[i] = t
         waits(t) == t \in Takers /\ \E i \in DOMAIN takeAwaiters : takeAwaiters[i] = t
     IN  /\ queue' = SubSeq(queue, n + 1, Len(queue))
         /\ takeAwaiters' = <<>>
         /\ value' = [t \in Takers |-> CASE waits(t) /\ place(t) <= n -> queue[place(t)]
                                         [] waits(t) /\ place(t) > n -> Closed
                                         [] OTHER -> value[t]]
         /\ moved' = moved \cup {takeAwaiters[i] : i \in 1..n}
         /\ pc' = [c \in Clients |->
                     IF waits(c) THEN Ended(IF place(c) <= n THEN "yes" ELSE "throw")
                     ELSE pc[c]]
  /\ Unsettle({t \in Takers : pc[t] = "waiting"}, k \in Background)
  /\ UNCHANGED <<pushAwaiters, destroyed, raced>>

\* Second half: every waiting pusher's test throws.  (The mutant wakes nobody.)
ClosePushQuietly(k) ==
  /\ k \in closing
  /\ closing' = closing \ {k}
  /\ closed' = TRUE
  /\ UNCHANGED <<queue, pushAwaiters, takeAwaiters, pc, value, moved, destroyed, unsettled,
                 raced>>
ClosePush(k) ==
  /\ k \in closing
  /\ closing' = closing \ {k}
  /\ closed' = TRUE
  /\ LET waits(c) == \E i \in DOMAIN pushAwaiters : pushAwaiters[i] = c
     IN  /\ pc' = [c \in Clients |-> IF waits(c) THEN Ended("throw") ELSE pc[c]]
  /\ pushAwaiters' = <<>>
  /\ Unsettle({p \in Pushers : pc[p] = "waiting"}, k \in Background)
  /\ UNCHANGED <<queue, takeAwaiters, value, moved, destroyed, raced>>

\* The destructor deletes the items and, with the two variables, refuses whoever waits.
\* Its caller sees to it that nobody is in the middle of an operation.
Destroy ==
  /\ ~destroyed /\ closing = {}
  /\ \A c \in Clients : pc[c] \in {"idle", "waiting"}
  /\ destroyed' = TRUE /\ closed' = TRUE
  /\ queue' = <<>> /\ pushAwaiters' = <<>> /\ takeAwaiters' = <<>>
  /\ pc' = [c \in Clients |-> IF pc[c] = "waiting" THEN "refused" ELSE pc[c]]
  /\ value' = [t \in Takers |-> IF pc[t] = "waiting" THEN Closed ELSE value[t]]
  /\ Unsettle({c \in Clients : pc[c] = "waiting"}, FALSE)
  /\ UNCHANGED <<moved, closing, raced>>

Terminating == destroyed /\ (\A c \in Clients : pc[c] = "idle") /\ UNCHANGED vars

Next ==
  \/ \E p \in Pushers : Push(p) \/ PushNotify(p)
  \/ \E t \in Takers : Take(t) \/ TakeNotify(t)
  \/ \E c \in Clients : Return(c) \/ Timeout(c) \/ TimeoutTooLate(c) \/ Settle(c)
  \/ \E k \in Closers : CloseTake(k) \/ ClosePush(k)
  \/ Destroy
  \/ Terminating

Spec == Init /\ [][Next]_vars

\* Resumed coroutines run to the end of their operation, Close() to its second half, and
\* notifiers make their callbacks.
Fairness ==
  /\ \A p \in Pushers : WF_vars(PushNotify(p))
  /\ \A t \in Takers : WF_vars(TakeNotify(t))
  /\ \A k \in Closers : WF_vars(ClosePush(k))
  /\ \A c \in Clients : WF_vars(Settle(c))
FairSpec == Spec /\ Fairness

-----------------------------------------------------------------------------
(* Correctness. *)

PushersGranted == {p \in Pushers : pc[p] = "granted"}
TakersGranted  == {t \in Takers : pc[t] = "granted"}

\* Nobody waits for an item that is there, nor on a closed queue, unless a notification
\* for it is still to come: the items exceed by nothing the pushers that have yet to
\* notify takeCv, although newcomers take items past the waiting takers.  (A call that
\* timed out after its test had moved the item does not notify the other side.)
NoLostTakeNotify ==
  takeAwaiters # <<>> =>
    ~closed /\ (raced = {} => Len(queue) <= Cardinality(PushersGranted))

\* The same of those who wait for room; a closed queue has them only while Close() is
\* between its two halves.
NoLostPushNotify ==
  pushAwaiters # <<>> =>
    \/ closing # {}
    \/ ~closed /\ (raced = {} => MaxLength - Len(queue) <= Cardinality(TakersGranted))

\* Neither side waits for what the other has provided.
NoLostNotify == TypeOK /\ NoLostTakeNotify /\ NoLostPushNotify

\* "In the event of a timeout, the caller retains ownership" (CoBlockingQueue.h:57): a
\* Push() that failed has not put its item in the queue, a Take() that failed has not
\* taken one out of it.
CallerKeepsOwnership == \A c \in moved : pc[c] \in {"granted", "returned"}

\* It is so for a call that was refused, and for one that timed out unless a notifier had
\* already taken it off the list.
OwnershipIsClear == \A c \in moved : \/ pc[c] \in {"granted", "returned"}
                                     \/ pc[c] = "timedOut" /\ c \in raced

\* The queue is a bounded FIFO that nothing enters once closed.
Fifo == INSTANCE ClosableFifo WITH
          Producers <- Pushers, Consumers <- Takers,
          items <- queue, shut <- closed, got <- value
ImplementsFifo == Fifo!Spec

\* No one waits on a queue for what it has, for ever, as long as no call has timed out
\* after its test had moved the item.
QueueMoves ==
  /\ takeAwaiters # <<>> /\ queue # <<>> ~> takeAwaiters = <<>> \/ queue = <<>> \/ raced # {}
  /\ pushAwaiters # <<>> /\ Len(queue) < MaxLength
       ~> pushAwaiters = <<>> \/ Len(queue) = MaxLength \/ raced # {}
  /\ closed ~> takeAwaiters = <<>> /\ pushAwaiters = <<>>
=============================================================================
