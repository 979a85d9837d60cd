------------------------- MODULE CoConditionVariable -------------------------
(***************************************************************************)
(* CoConditionVariable (src/lib/CoEvent.cpp): coroutines (Waiters) call    *)
(* Wait(), threads or coroutines (Notifiers) call Notify(), NotifyAll() or *)
(* the destructor.  Wait() is a CoService, so every waiter runs the state  *)
(* machine of ServiceStates; Execute() puts it on the list of awaiters and *)
(* CancelExecute() takes it off.                                           *)
(*                                                                         *)
(* One step is what a thread does between two acquisitions of the          *)
(* condition variable's mutex (cvLock) or of serviceStateMutex (svcLock,   *)
(* one static mutex for all the waits), so that the windows between them   *)
(* are visible.  The locks have an explicit holder only where one is held  *)
(* while the other is acquired.                                            *)
(*                                                                         *)
(* The condition the waits test is a number of tokens, one of which a      *)
(* successful test consumes (the CoMutex's lock, an item of the queue),    *)
(* and a flag that makes the test throw (a closed queue).  Without tests   *)
(* the waits use the variable's own ready flag.                            *)
(***************************************************************************)
EXTENDS Naturals, SequencesExt, FiniteSets, ServiceStates

CONSTANTS
  Waiters,    \* coroutines that call Wait(), once each
  Notifiers,  \* callers of the other operations, once each
  Uses,       \* the ways in which programs use the variable
  Nobody      \* a free lock, an idle foreground thread

\* Which waiters there are; which run on a pool thread, which have a positive timeout and
\* which a negative one; which notifiers run on a thread of their own; whether the waits have
\* a conditionTest ("tokens") or not ("ready").
Use == [waits : SUBSET Waiters, pool : SUBSET Waiters, timed : SUBSET Waiters,
        past : SUBSET Waiters, background : SUBSET Notifiers, condition : {"tokens", "ready"}]

ASSUME WaitersAssumption ==
  /\ IsFiniteSet(Waiters) /\ IsFiniteSet(Notifiers)
  /\ Waiters \cap Notifiers = {} /\ Nobody \notin Waiters \cup Notifiers
  /\ Uses \subseteq Use
  /\ \A u \in Uses : u.timed \cap u.past = {}

VARIABLES
  serviceState, hasTimeout, exceptionPtr, timer, posted, outcome,  \* as in CoService
  execPc,     \* a waiter's home thread inside await_suspend()
  notifyPc,   \* a notifier's thread: "idle", "callback", "resume" or "done"
  callbacks,  \* a notifier's callbacks still to make: <<[waiter, fails], ...>>
  awaiters,   \* CoConditionVariable::awaiters
  ready,      \* CoConditionVariable::ready
  deleted,    \* the destructor has run
  use,        \* how this program uses the variable, one of Uses
  tokens,     \* the condition: tokens available
  closed,     \* the condition: test throws when there is no token
  consumed,   \* has a test taken a token for this waiter?
  cvLock,     \* holder of CoConditionVariable::mutex across steps
  svcLock,    \* holder of serviceStateMutex across steps
  fg,         \* who the foreground thread is busy with
  raced,      \* history: waits cancelled after a notifier had taken them off the list
  late        \* history: waits called back between their timeout and OnExecuted()

history     == <<raced, late>>
serviceVars == <<serviceState, hasTimeout, exceptionPtr, timer, posted, outcome, history>>
cvVars      == <<awaiters, ready, deleted, use, tokens, closed, consumed>>
vars == <<serviceVars, cvVars, execPc, notifyPc, callbacks, cvLock, svcLock, fg>>

ExecPc   == {"idle", "execute", "past", "complete", "fail", "executed", "cancel",
             "resume", "returned"}
NotifyPc == {"idle", "callback", "resume", "done"}
Timer    == {"none", "queued", "inFlight", "cancel", "resume", "gone"}

TypeOK ==
  /\ serviceState \in [Waiters -> ServiceState \cup {Terminated}]
  /\ hasTimeout \in [Waiters -> BOOLEAN]
  /\ exceptionPtr \in [Waiters -> BOOLEAN]
  /\ timer \in [Waiters -> Timer]
  /\ posted \in [Waiters -> Nat]
  /\ outcome \in [Waiters -> {"none", "value", "exception", "timeout"}]
  /\ execPc \in [Waiters -> ExecPc]
  /\ notifyPc \in [Notifiers -> NotifyPc]
  /\ callbacks \in [Notifiers -> Seq([waiter : Waiters, fails : BOOLEAN])]
  /\ awaiters \in Seq(Waiters)
  /\ ready \in BOOLEAN /\ deleted \in BOOLEAN /\ closed \in BOOLEAN
  /\ use \in Uses
  /\ tokens \in 0..Cardinality(Notifiers)
  /\ consumed \in [Waiters -> BOOLEAN]
  /\ cvLock \in Waiters \cup {Nobody}
  /\ svcLock \in Waiters \cup {Nobody}
  /\ fg \in Waiters \cup Notifiers \cup {Nobody}
  /\ raced \subseteq Waiters /\ late \subseteq Waiters

Init ==
  /\ serviceState = [w \in Waiters |-> "Idle"]
  /\ hasTimeout = [w \in Waiters |-> FALSE]
  /\ exceptionPtr = [w \in Waiters |-> FALSE]
  /\ timer = [w \in Waiters |-> "none"]
  /\ posted = [w \in Waiters |-> 0]
  /\ outcome = [w \in Waiters |-> "none"]
  /\ execPc = [w \in Waiters |-> "idle"]
  /\ notifyPc = [n \in Notifiers |-> "idle"]
  /\ callbacks = [n \in Notifiers |-> <<>>]
  /\ awaiters = <<>>
  /\ ready = FALSE /\ deleted = FALSE /\ closed = FALSE
  /\ use \in Uses /\ tokens = 0
  /\ consumed = [w \in Waiters |-> FALSE]
  /\ cvLock = Nobody /\ svcLock = Nobody /\ fg = Nobody
  /\ raced = {} /\ late = {}

PoolWaiters         == use.pool
TimedWaiters        == use.timed
PastWaiters         == use.past
BackgroundNotifiers == use.background
UseTokens           == use.condition = "tokens"

Awaits(w) == \E i \in 1..Len(awaiters) : awaiters[i] = w

-----------------------------------------------------------------------------
(* Threads, and the parts of the service that this module shares. *)

HomeIsFree(w)   == w \in PoolWaiters \/ fg = Nobody
EnterHome(w)    == fg' = IF w \in PoolWaiters THEN fg ELSE w
LeaveHome(w)    == fg' = IF w \in PoolWaiters THEN fg ELSE Nobody

Resume(w) ==
  /\ svcLock = Nobody
  /\ serviceState' = [serviceState EXCEPT ![w] = AfterResume(@)]
  /\ posted' = [posted EXCEPT ![w] = IF serviceState[w] = "Resuming" THEN @ + 1 ELSE @]
  /\ UNCHANGED <<hasTimeout, exceptionPtr, outcome, history>>

\* CancelTimeout() succeeds unless the dispatcher has taken the timer off its queue.
OnlyIfQueued(w) == timer[w] = "queued"  \* a mutant: no timeout is no success
TimeoutIsCancelled(w) == timer[w] \in {"none", "queued"}
TimerStays(w, called) == timer' = timer  \* a mutant: nothing is erased
CancelTimeout(w, called) ==
  timer' = [timer EXCEPT ![w] = IF called /\ @ = "queued" THEN "gone" ELSE @]

\* SetComplete() and SetException() of the callback, up to the end of OnResume().
\* The exception passed on, whether caught from a test or made by the destructor.
ExceptionDropped(w, fails) == exceptionPtr[w]  \* a mutant: SetComplete() in any case
HasException(w, fails) == exceptionPtr[w] \/ fails

AfterCallback(w) == AfterOnResume(serviceState[w], TimeoutIsCancelled(w))
Callback(w, fails) ==
  /\ svcLock = Nobody
  /\ serviceState' = [serviceState EXCEPT ![w] = AfterCallback(w)]
  /\ CancelTimeout(w, ResumeCancelsTimeout(serviceState[w]))
  /\ exceptionPtr' = [exceptionPtr EXCEPT ![w] = HasException(w, fails)]
  /\ hasTimeout' = [hasTimeout EXCEPT ![w] = @ /\ ~ResumeClearsTimeout(serviceState[w])]
  /\ late' = IF serviceState[w] = "ExecutingTimedOut" THEN late \cup {w} ELSE late
  /\ UNCHANGED <<posted, outcome, raced>>

\* CancelExecute() reads this_, without a lock, and is done if it is null: the wait
\* counts as cancelled.  But it is null because a notifier has taken the waiter off
\* the list, and will call it back.
CancelNeedsMutex(w) == Awaits(w)
Cancelled(w, called) ==
  raced' = IF called /\ ~Awaits(w) THEN raced \cup {w} ELSE raced

Without(w) == RemoveFirst(awaiters, w)

-----------------------------------------------------------------------------
(* Wait(): await_suspend() on the waiter's home thread. *)

AwaitSuspend(w) ==
  /\ w \in use.waits /\ serviceState[w] = "Idle" /\ ~deleted
  /\ HomeIsFree(w)
  /\ EnterHome(w)
  /\ serviceState' = [serviceState EXCEPT ![w] = "Executing"]
  /\ execPc' = [execPc EXCEPT ![w] = "execute"]
  /\ UNCHANGED <<hasTimeout, exceptionPtr, timer, posted, outcome, history, cvVars,
                 notifyPc, callbacks, cvLock, svcLock>>

\* What Execute() finds: the test's answer, or the ready flag.
OffByOne(available) ==  \* a mutant: >= for >
  CASE available >= 0 -> "yes" [] OTHER -> "no"
TestResult(available) ==
  CASE available > 0 -> "yes" [] available = 0 /\ closed -> "throw" [] OTHER -> "no"
ExecuteResult == IF UseTokens THEN TestResult(tokens)
                 ELSE IF ready THEN "yes" ELSE "no"

\* Execute() under the mutex, when the wait is over at once: the awaiter is added
\* and removed again.
ExecuteDone(w) ==
  /\ execPc[w] = "execute" /\ cvLock = Nobody /\ ~deleted
  /\ ExecuteResult # "no"
  /\ execPc' = [execPc EXCEPT ![w] = IF ExecuteResult = "yes" THEN "complete" ELSE "fail"]
  /\ ready' = FALSE
  /\ tokens' = IF ExecuteResult = "yes" /\ UseTokens THEN tokens - 1 ELSE tokens
  /\ consumed' = [consumed EXCEPT ![w] = ExecuteResult = "yes"]
  /\ UNCHANGED <<serviceVars, awaiters, deleted, use, closed, notifyPc, callbacks,
                 cvLock, svcLock, fg>>

\* ... and when it has to wait: RequestTimeout() is called with the mutex held, and
\* a negative timeout needs serviceStateMutex as well.
ExecuteWait(w) ==
  /\ execPc[w] = "execute" /\ cvLock = Nobody /\ ~deleted
  /\ ExecuteResult = "no"
  /\ awaiters' = Append(awaiters, w)
  /\ ready' = FALSE
  /\ IF w \in PastWaiters
     THEN cvLock' = w /\ execPc' = [execPc EXCEPT ![w] = "past"]
     ELSE UNCHANGED cvLock /\ execPc' = [execPc EXCEPT ![w] = "executed"]
  /\ timer' = [timer EXCEPT ![w] = IF w \in TimedWaiters THEN "queued" ELSE @]
  /\ UNCHANGED <<serviceState, hasTimeout, exceptionPtr, posted, outcome, history, deleted,
                 use, tokens, closed, consumed, notifyPc, callbacks, svcLock, fg>>

ExecutePastTimeout(w) ==
  /\ execPc[w] = "past" /\ svcLock = Nobody
  /\ serviceState' = [serviceState EXCEPT ![w] = AfterOnTimedOut(@, FALSE)]
  /\ hasTimeout' = [hasTimeout EXCEPT ![w] = @ \/ TimedOutMarksTimeout(serviceState[w])]
  /\ cvLock' = Nobody
  /\ execPc' = [execPc EXCEPT ![w] = "executed"]
  /\ UNCHANGED <<exceptionPtr, timer, posted, outcome, history, cvVars, notifyPc,
                 callbacks, svcLock, fg>>

\* Execute() calls back itself, the mutex released.
ExecuteCallback(w) ==
  /\ execPc[w] \in {"complete", "fail"}
  /\ Callback(w, execPc[w] = "fail")
  /\ execPc' = [execPc EXCEPT ![w] = "executed"]
  /\ UNCHANGED <<cvVars, notifyPc, callbacks, cvLock, svcLock, fg>>

\* OnExecuted(): in ExecutingTimedOut it calls CancelExecute(), with serviceStateMutex
\* held; the mutex of the condition variable is needed only if this_ is not null.
OnExecuted(w) ==
  /\ execPc[w] = "executed" /\ svcLock = Nobody
  /\ Cancelled(w, ExecutedCancelsResume(serviceState[w]))
  /\ IF ExecutedCancelsResume(serviceState[w]) /\ CancelNeedsMutex(w)
     THEN /\ svcLock' = w
          /\ execPc' = [execPc EXCEPT ![w] = "cancel"]
          /\ UNCHANGED <<serviceState, timer, fg>>
     ELSE LET next == AfterOnExecuted(serviceState[w], TimeoutIsCancelled(w), TRUE)
          IN  /\ serviceState' = [serviceState EXCEPT ![w] = next]
              /\ CancelTimeout(w, ExecutedCancelsTimeout(serviceState[w]))
              /\ UNCHANGED svcLock
              /\ IF next = "Resuming"
                 THEN execPc' = [execPc EXCEPT ![w] = "resume"] /\ UNCHANGED fg
                 ELSE execPc' = [execPc EXCEPT ![w] = "returned"] /\ LeaveHome(w)
  /\ UNCHANGED <<hasTimeout, exceptionPtr, posted, outcome, late, cvVars, notifyPc,
                 callbacks, cvLock>>

\* The second half of CancelExecute(): lock the mutex through this_, remove the
\* awaiter.  If a notifier has set this_ to null in the meantime, this_->mutex is a
\* null dereference.
CancelAwaiter(w, after) ==
  /\ svcLock = w /\ cvLock = Nobody
  /\ svcLock' = Nobody
  /\ awaiters' = Without(w)
  /\ Cancelled(w, TRUE)
  /\ serviceState' = [serviceState EXCEPT ![w] = IF Awaits(w) THEN after ELSE Terminated]
  /\ UNCHANGED <<hasTimeout, exceptionPtr, posted, outcome, late, ready, deleted, use,
                 tokens, closed, consumed, notifyPc, callbacks, cvLock, fg>>

ExecutedCancel(w) ==
  /\ execPc[w] = "cancel"
  /\ CancelAwaiter(w, AfterOnExecuted(serviceState[w], FALSE, TRUE))
  /\ execPc' = [execPc EXCEPT ![w] = "resume"]
  /\ UNCHANGED timer

ExecResume(w) ==
  /\ execPc[w] = "resume"
  /\ Resume(w)
  /\ execPc' = [execPc EXCEPT ![w] = "returned"]
  /\ LeaveHome(w)
  /\ UNCHANGED <<timer, cvVars, notifyPc, callbacks, cvLock, svcLock>>

-----------------------------------------------------------------------------
(* The waiter's timeout, run by the foreground thread. *)

PopTimer(w) ==
  /\ timer[w] = "queued" /\ fg = Nobody
  /\ fg' = w
  /\ timer' = [timer EXCEPT ![w] = "inFlight"]
  /\ UNCHANGED <<serviceState, hasTimeout, exceptionPtr, posted, outcome, history, execPc,
                 cvVars, notifyPc, callbacks, cvLock, svcLock>>

OnTimedOut(w) ==
  /\ timer[w] = "inFlight" /\ svcLock = Nobody
  /\ hasTimeout' = [hasTimeout EXCEPT ![w] = @ \/ TimedOutMarksTimeout(serviceState[w])]
  /\ Cancelled(w, TimedOutCancelsResume(serviceState[w]))
  /\ IF TimedOutCancelsResume(serviceState[w]) /\ CancelNeedsMutex(w)
     THEN /\ svcLock' = w
          /\ timer' = [timer EXCEPT ![w] = "cancel"]
          /\ UNCHANGED <<serviceState, fg>>
     ELSE LET next == AfterOnTimedOut(serviceState[w], TRUE)
          IN  /\ serviceState' = [serviceState EXCEPT ![w] = next]
              /\ UNCHANGED svcLock
              /\ IF next = "Resuming"
                 THEN timer' = [timer EXCEPT ![w] = "resume"] /\ UNCHANGED fg
                 ELSE timer' = [timer EXCEPT ![w] = "gone"] /\ fg' = Nobody
  /\ UNCHANGED <<exceptionPtr, posted, outcome, late, execPc, cvVars, notifyPc, callbacks,
                 cvLock>>

TimerCancel(w) ==
  /\ timer[w] = "cancel"
  /\ CancelAwaiter(w, AfterOnTimedOut(serviceState[w], TRUE))
  /\ timer' = [timer EXCEPT ![w] = "resume"]
  /\ UNCHANGED execPc

TimerResume(w) ==
  /\ timer[w] = "resume"
  /\ Resume(w)
  /\ timer' = [timer EXCEPT ![w] = "gone"]
  /\ fg' = Nobody
  /\ UNCHANGED <<execPc, cvVars, notifyPc, callbacks, cvLock, svcLock>>

\* The posted handle runs: await_resume(), and the awaiter is destroyed.
AwaitResume(w) ==
  /\ posted[w] > 0 /\ outcome[w] = "none" /\ HomeIsFree(w)
  /\ outcome' = [outcome EXCEPT ![w] = AwaitOutcome(exceptionPtr[w], hasTimeout[w])]
  /\ UNCHANGED <<serviceState, hasTimeout, exceptionPtr, timer, posted, history, execPc,
                 cvVars, notifyPc, callbacks, cvLock, svcLock, fg>>

-----------------------------------------------------------------------------
(* Notify(), NotifyAll() and the destructor: the awaiters are tested and taken *)
(* off the list under the mutex, their callbacks are made without it.          *)

CanNotify(n) == /\ notifyPc[n] = "idle" /\ ~deleted /\ cvLock = Nobody
                /\ n \in BackgroundNotifiers \/ fg = Nobody

\* What is left to do when n has released the mutex.  (In the mutant the callbacks are
\* left for later, and the foreground thread goes back to its dispatcher.)
CallBackLater(n, woken) ==
  /\ callbacks' = [callbacks EXCEPT ![n] = woken]
  /\ notifyPc' = [notifyPc EXCEPT ![n] = IF woken = <<>> THEN "done" ELSE "callback"]
  /\ UNCHANGED fg
CallBack(n, woken) ==
  /\ callbacks' = [callbacks EXCEPT ![n] = woken]
  /\ notifyPc' = [notifyPc EXCEPT ![n] = IF woken = <<>> THEN "done" ELSE "callback"]
  /\ fg' = IF n \in BackgroundNotifiers \/ woken = <<>> THEN fg ELSE n

\* Notify(action) with no awaiter: the ready flag is set, whatever the action.  (The
\* mutant has lost its guard.)
NotifyAnybody(n, added) ==
  /\ CanNotify(n)
  /\ tokens' = tokens + added
  /\ ready' = TRUE
  /\ CallBack(n, <<>>)
  /\ UNCHANGED <<serviceVars, awaiters, deleted, use, closed, consumed, execPc,
                 cvLock, svcLock>>
NotifyNobody(n, added) ==
  /\ CanNotify(n) /\ awaiters = <<>>
  /\ tokens' = tokens + added
  /\ ready' = TRUE
  /\ CallBack(n, <<>>)
  /\ UNCHANGED <<serviceVars, awaiters, deleted, use, closed, consumed, execPc,
                 cvLock, svcLock>>

\* Notify(action): the first awaiter, and no other, is tested.
TestedTooSoon(added) == IF UseTokens THEN TestResult(tokens) ELSE "yes"  \* a mutant
HeadResult(added) == IF UseTokens THEN TestResult(tokens + added) ELSE "yes"

NotErased == awaiters  \* a mutant: the head stays on the list
HeadErased == Tail(awaiters)

NotifyHead(n, added) ==
  /\ CanNotify(n) /\ awaiters # <<>>
  /\ HeadResult(added) # "no"
  /\ LET w == Head(awaiters) passes == HeadResult(added) = "yes"
     IN  /\ tokens' = tokens + added - (IF UseTokens /\ passes THEN 1 ELSE 0)
         /\ consumed' = [consumed EXCEPT ![w] = passes]
         /\ awaiters' = HeadErased
         /\ CallBack(n, <<[waiter |-> w, fails |-> ~passes]>>)
  /\ UNCHANGED <<serviceVars, ready, deleted, use, closed, execPc, cvLock, svcLock>>

NotifyInVain(n, added) ==
  /\ CanNotify(n) /\ awaiters # <<>>
  /\ HeadResult(added) = "no"
  /\ tokens' = tokens + added
  /\ CallBack(n, <<>>)
  /\ UNCHANGED <<serviceVars, awaiters, ready, deleted, use, closed, consumed,
                 execPc, cvLock, svcLock>>

Notify(n, added) == NotifyNobody(n, added) \/ NotifyHead(n, added) \/ NotifyInVain(n, added)

\* NotifyAll(action): every awaiter is tested, in order; the action adds a token or
\* closes the condition, and then the awaiters that get no token fail.
NotifyAll(n, added, closing) ==
  /\ CanNotify(n)
  /\ LET available == tokens + added
         pass  == IF UseTokens /\ available < Len(awaiters) THEN available ELSE Len(awaiters)
         gone  == IF closing THEN Len(awaiters) ELSE pass
     IN  /\ tokens' = available - (IF UseTokens THEN pass ELSE 0)
         /\ consumed' = [w \in Waiters |-> \/ consumed[w]
                                           \/ \E i \in 1..pass : awaiters[i] = w]
         /\ awaiters' = SubSeq(awaiters, gone + 1, Len(awaiters))
         /\ CallBack(n, [i \in 1..gone |-> [waiter |-> awaiters[i], fails |-> i > pass]])
  /\ closed' = (closed \/ closing)
  /\ UNCHANGED <<serviceVars, ready, deleted, use, execPc, cvLock, svcLock>>

\* The destructor.  Nobody may be inside another operation, or start one later; the
\* timeouts of the awaiters are not its caller's business.
Destroy(n) ==
  /\ CanNotify(n)
  /\ \A m \in Notifiers : notifyPc[m] \in {"idle", "done"}
  /\ \A w \in Waiters : execPc[w] \notin {"execute", "past"}
  /\ deleted' = TRUE
  /\ awaiters' = <<>>
  /\ CallBack(n, [i \in 1..Len(awaiters) |-> [waiter |-> awaiters[i], fails |-> TRUE]])
  /\ UNCHANGED <<serviceVars, ready, tokens, use, closed, consumed, execPc, cvLock,
                 svcLock>>

\* The callback of the first waiter still to be called back has been made.
CallbackMade(n) ==
  /\ callbacks' = [callbacks EXCEPT ![n] = Tail(@)]
  /\ IF Len(callbacks[n]) = 1
     THEN /\ notifyPc' = [notifyPc EXCEPT ![n] = "done"]
          /\ fg' = IF n \in BackgroundNotifiers THEN fg ELSE Nobody
     ELSE /\ notifyPc' = [notifyPc EXCEPT ![n] = "callback"]
          /\ UNCHANGED fg

NotifierCallback(n) ==
  /\ notifyPc[n] = "callback"
  /\ LET first == Head(callbacks[n])
     IN  /\ Callback(first.waiter, first.fails)
         /\ IF AfterCallback(first.waiter) = "Resuming"
            THEN /\ notifyPc' = [notifyPc EXCEPT ![n] = "resume"]
                 /\ UNCHANGED <<callbacks, fg>>
            ELSE CallbackMade(n)
  /\ UNCHANGED <<execPc, cvVars, cvLock, svcLock>>

NotifierResume(n) ==
  /\ notifyPc[n] = "resume"
  /\ Resume(Head(callbacks[n]).waiter)
  /\ CallbackMade(n)
  /\ UNCHANGED <<timer, execPc, cvVars, cvLock, svcLock>>

-----------------------------------------------------------------------------
\* throwInvalidState() and a null dereference end the process.
IsRunning == \A w \in Waiters : serviceState[w] # Terminated

\* Every notifier is done, and every wait is over, or has no timeout and was left on
\* the list, or was not started before the variable was destroyed.
IsDone ==
  /\ \A n \in Notifiers : notifyPc[n] = "done" \/ (notifyPc[n] = "idle" /\ deleted)
  /\ \A w \in use.waits : \/ outcome[w] # "none"
                          \/ Awaits(w) /\ w \notin TimedWaiters \cup PastWaiters
                          \/ deleted /\ serviceState[w] = "Idle"

Terminating == (IsRunning => IsDone) /\ UNCHANGED vars

HomeStep(w)  == \/ ExecuteDone(w) \/ ExecuteWait(w) \/ ExecutePastTimeout(w)
                \/ ExecuteCallback(w) \/ OnExecuted(w) \/ ExecutedCancel(w) \/ ExecResume(w)
TimerStep(w) == PopTimer(w) \/ OnTimedOut(w) \/ TimerCancel(w) \/ TimerResume(w)
Operation(n) == \/ \E added \in IF UseTokens THEN 0..1 ELSE {0} : Notify(n, added)
                \/ NotifyAll(n, 0, UseTokens)
                \/ UseTokens /\ NotifyAll(n, 1, FALSE)
                \/ Destroy(n)
NotifierStep(n) == NotifierCallback(n) \/ NotifierResume(n)

Next ==
  \/ /\ IsRunning
     /\ \/ \E w \in Waiters : AwaitSuspend(w) \/ HomeStep(w) \/ TimerStep(w) \/ AwaitResume(w)
        \/ \E n \in Notifiers : Operation(n) \/ NotifierStep(n)
  \/ Terminating

Spec == Init /\ [][Next]_vars

\* Threads go on with what they have started, due timers and posted handles are run;
\* nobody has to call an operation.
Fairness ==
  /\ \A w \in Waiters : /\ WF_vars(IsRunning /\ HomeStep(w))
                        /\ WF_vars(IsRunning /\ TimerStep(w))
                        /\ WF_vars(IsRunning /\ AwaitResume(w))
  /\ \A n \in Notifiers : WF_vars(IsRunning /\ NotifierStep(n))

FairSpec == Spec /\ Fairness

-----------------------------------------------------------------------------
(* Correctness. *)

\* No operation of a wait's state machine comes at a time it does not expect, and
\* no null this_ is dereferenced: either ends the process.
NoInvalidState == IsRunning

\* Once a coroutine is posted for resumption (and may destroy its awaiter), nobody
\* still has it on a list, in a timer queue or in a callback to be made.
NoUseAfterResume ==
  \A w \in Waiters : posted[w] > 0 =>
    /\ posted[w] = 1 /\ execPc[w] = "returned" /\ timer[w] \in {"none", "gone"}
    /\ ~Awaits(w)
    /\ \A n \in Notifiers : \A i \in 1..Len(callbacks[n]) : callbacks[n][i].waiter # w

\* A timeout and a notification meet only in a program that has waits with timeouts,
\* and notifiers or waiters on other threads than the foreground's.
RacesNeedThreads ==
  raced \cup late # {} => /\ TimedWaiters \cup PastWaiters # {}
                          /\ PoolWaiters \cup BackgroundNotifiers # {}

\* A wait that is suspended would not have had to be: as soon as the mutex is free,
\* nobody is on the list while a token, the ready flag or the closed flag is there.
NoLostWakeup == awaiters # <<>> => ~ready /\ tokens = 0 /\ ~closed /\ ~deleted

\* The token a test took for a waiter (under the mutex, maybe on another thread) is
\* that waiter's: its Wait() returns, it neither times out nor throws.
TokenIsNotLost(w) == consumed[w] => outcome[w] \in {"none", "value"} \/ w \in late
NoTokenIsLost == \A w \in Waiters : TokenIsNotLost(w)

\* Conversely Wait() only returns normally with a token, or the ready flag.
NoSpuriousWakeup == \A w \in Waiters : outcome[w] = "value" => consumed[w]

\* A wait is resumed once, by a state machine in a state it expects, until
\* CancelExecute() takes one for cancelled that a notifier will call back; and that
\* happens across threads only.
ResumedOnce == RacesNeedThreads /\ (raced = {} => NoInvalidState /\ NoUseAfterResume)

\* Notifications are neither lost, nor swallowed, nor made up, as long as no wait is
\* cancelled that a notifier will call back; what a test took for a wait is lost only
\* if the wait had timed out and Execute() not yet returned.
Wakeups ==
  raced = {} => TypeOK /\ NoLostWakeup /\ NoTokenIsLost /\ NoSpuriousWakeup

\* No thread that has the condition variable's mutex (and waits for serviceStateMutex)
\* meets one that has serviceStateMutex (and waits for the condition variable's).
NoLockCycle == cvLock = Nobody \/ svcLock = Nobody

\* A wait with a timeout ends, and so does one that was given a token.
WaitEnds ==
  \A w \in Waiters :
    (Awaits(w) /\ w \in TimedWaiters) \/ consumed[w] ~> outcome[w] # "none" \/ raced # {}
=============================================================================
