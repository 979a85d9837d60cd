------------------------------ MODULE CoService ------------------------------
(***************************************************************************)
(* co_await on a CoService (src/lib/cotask/CoService.h): each element of   *)
(* Services is one awaited service object.  Its await_suspend() runs       *)
(* Execute() on its home thread, the foreground thread or a thread of the  *)
(* pool; the implementation hands the callback to a worker; a timeout may  *)
(* be requested, which the foreground dispatcher runs.  Whatever the       *)
(* order, the coroutine must be resumed exactly once, and nothing may      *)
(* touch the service object afterwards (it lives in the coroutine frame).  *)
(*                                                                         *)
(* One step is one critical section of serviceStateMutex, or one action of *)
(* the implementation.  The implementation is any one that honours the     *)
(* contract of the header: CancelExecute() returns true and never calls    *)
(* back, or returns false and does call back.                              *)
(***************************************************************************)
EXTENDS Naturals, ServiceStates

CONSTANTS
  Services,      \* the service objects
  Pool,          \* those whose home is a pool thread; the others' is the foreground
  PastTimeouts,  \* those whose Execute() may request a negative timeout
  NoService      \* the foreground thread is idle

ASSUME ServicesAssumption ==
  /\ Pool \subseteq Services
  /\ PastTimeouts \subseteq Services
  /\ NoService \notin Services

VARIABLES
  serviceState,      \* CoServiceBase::serviceState
  hasTimeout,        \* CoServiceBase::hasTimeout
  exceptionPtr,      \* is CoServiceBase::exceptionPtr set?
  timeoutRequested,  \* CoServiceBase::timeoutRequested
  value,             \* TypedCoServiceBase::value: "unset" or "stored"
  execPc,            \* the home thread inside await_suspend()
  workPc,            \* the implementation's work and its callback
  timer,             \* the timeout function in the dispatcher's timer queue
  posted,            \* how often the coroutine handle was posted
  outcome,           \* what co_await delivered to the coroutine
  fg                 \* the service the foreground thread is busy with

serviceVars == <<serviceState, hasTimeout, exceptionPtr, timeoutRequested, value,
                 execPc, workPc, timer, posted, outcome, fg>>

ExecPc == {"idle", "execute", "flag", "resume", "returned"}
\* "claimed": past the point where the work can be cancelled.
\* "stored": SetResult/SetException has stored, OnResume is next.
WorkPc == {"none", "pending", "claimed", "stored", "resume", "done", "cancelled"}
Timer  == {"none", "queued", "inFlight", "resume", "gone"}

ServiceTypeOK ==
  /\ serviceState \in [Services -> ServiceState \cup {Terminated}]
  /\ hasTimeout \in [Services -> BOOLEAN]
  /\ exceptionPtr \in [Services -> BOOLEAN]
  /\ timeoutRequested \in [Services -> BOOLEAN]
  /\ value \in [Services -> {"unset", "stored"}]
  /\ execPc \in [Services -> ExecPc]
  /\ workPc \in [Services -> WorkPc]
  /\ timer \in [Services -> Timer]
  /\ posted \in [Services -> Nat]
  /\ outcome \in [Services -> {"none", "value", "exception", "timeout"}]
  /\ fg \in Services \cup {NoService}

ServiceInit ==
  /\ serviceState = [s \in Services |-> "Idle"]
  /\ hasTimeout = [s \in Services |-> FALSE]
  /\ exceptionPtr = [s \in Services |-> FALSE]
  /\ timeoutRequested = [s \in Services |-> FALSE]
  /\ value = [s \in Services |-> "unset"]
  /\ execPc = [s \in Services |-> "idle"]
  /\ workPc = [s \in Services |-> "none"]
  /\ timer = [s \in Services |-> "none"]
  /\ posted = [s \in Services |-> 0]
  /\ outcome = [s \in Services |-> "none"]
  /\ fg = NoService

-----------------------------------------------------------------------------
(* The calls made under serviceStateMutex. *)

\* A mutant of CancelTimeout: a timer in flight counts as cancelled.
AlwaysCancelled(s, called, cancelled) ==
  LET queued == timeoutRequested[s] /\ timer[s] = "queued"
  IN  /\ cancelled = called
      /\ timer' = [timer EXCEPT ![s] = IF called /\ queued THEN "gone" ELSE @]
      /\ timeoutRequested' = [timeoutRequested EXCEPT ![s] = @ /\ ~called]

\* CancelTimeout(): TRUE iff no timeout was requested, or the timer was still in
\* the queue and is now erased.  Nothing happens unless it is called.
CancelTimeout(s, called, cancelled) ==
  LET queued == timeoutRequested[s] /\ timer[s] = "queued"
  IN  IF called
      THEN /\ cancelled = (queued \/ ~timeoutRequested[s])
           /\ timer' = [timer EXCEPT ![s] = IF queued THEN "gone" ELSE @]
           /\ timeoutRequested' = [timeoutRequested EXCEPT ![s] = FALSE]
      ELSE /\ cancelled = FALSE
           /\ UNCHANGED <<timer, timeoutRequested>>

\* A mutant of CancelExecute: work whose callback is on its way counts as cancelled.
AnythingGoes(s, called, cancelled) ==
  /\ cancelled = called
  /\ workPc' = [workPc EXCEPT ![s] = IF called /\ @ = "pending" THEN "cancelled" ELSE @]

\* CancelExecute() of the implementation, under the contract of the header
\* ("return false only if the call is in flight and can't be cancelled"): pending
\* work is dropped or found to be in flight.
CancelExecute(s, called, cancelled) ==
  IF called
  THEN \/ /\ workPc[s] = "pending"
          /\ workPc' = [workPc EXCEPT ![s] = IF cancelled THEN "cancelled"
                                             ELSE "claimed"]
       \/ /\ workPc[s] # "pending"
          /\ cancelled = (workPc[s] \in {"none", "cancelled", "done"})
          /\ UNCHANGED workPc
  ELSE cancelled = FALSE /\ UNCHANGED workPc

\* Resume(): checks the state, posts the handle to the home dispatcher.
Resume(s) ==
  /\ serviceState' = [serviceState EXCEPT ![s] = AfterResume(@)]
  /\ posted' = [posted EXCEPT ![s] = IF serviceState[s] = "Resuming" THEN @ + 1 ELSE @]

-----------------------------------------------------------------------------
(* The home thread: await_suspend(). *)

HomeIsFree(s) == s \in Pool \/ fg = NoService
EnterHome(s)  == fg' = IF s \in Pool THEN fg ELSE s
LeaveHome(s)  == fg' = IF s \in Pool THEN fg ELSE NoService

\* await_suspend() up to the call of Execute().
AwaitSuspend(s) ==
  /\ serviceState[s] = "Idle"
  /\ HomeIsFree(s)
  /\ EnterHome(s)
  /\ serviceState' = [serviceState EXCEPT ![s] = "Executing"]
  /\ execPc' = [execPc EXCEPT ![s] = "execute"]
  /\ UNCHANGED <<hasTimeout, exceptionPtr, timeoutRequested, value, workPc, timer,
                 posted, outcome>>

\* Execute() hands the callback to whatever will do the work.
StartWork(s) ==
  /\ execPc[s] = "execute"
  /\ workPc[s] = "none"
  /\ workPc' = [workPc EXCEPT ![s] = "pending"]
  /\ UNCHANGED <<serviceState, hasTimeout, exceptionPtr, timeoutRequested, value,
                 execPc, timer, posted, outcome, fg>>

\* OnRequestTimeout(timeout > 0), called at most once by Execute(): checks the
\* state, posts the timer function.  (0ms asks for nothing.)
RequestTimeout(s) ==
  /\ execPc[s] = "execute"
  /\ timer[s] = "none"
  /\ serviceState[s] \in {"Executing", "ExecutingResumed"}
  /\ timer' = [timer EXCEPT ![s] = "queued"]
  /\ execPc' = [execPc EXCEPT ![s] = "flag"]
  /\ UNCHANGED <<serviceState, hasTimeout, exceptionPtr, timeoutRequested, value,
                 workPc, posted, outcome, fg>>

\* ... and only then, without the mutex, sets timeoutRequested.
FlagTimeout(s) ==
  /\ execPc[s] = "flag"
  /\ timeoutRequested' = [timeoutRequested EXCEPT ![s] = TRUE]
  /\ execPc' = [execPc EXCEPT ![s] = "execute"]
  /\ UNCHANGED <<serviceState, hasTimeout, exceptionPtr, value, workPc, timer,
                 posted, outcome, fg>>

\* OnRequestTimeout(timeout < 0): OnTimedOut() is called on the spot.
RequestPastTimeout(s) ==
  /\ s \in PastTimeouts
  /\ execPc[s] = "execute"
  /\ timer[s] = "none"
  /\ serviceState[s] \in {"Executing", "ExecutingResumed"}
  /\ timer' = [timer EXCEPT ![s] = "gone"]
  /\ serviceState' = [serviceState EXCEPT ![s] = AfterOnTimedOut(@, FALSE)]
  /\ hasTimeout' = [hasTimeout EXCEPT ![s] = @ \/ TimedOutMarksTimeout(serviceState[s])]
  /\ UNCHANGED <<exceptionPtr, timeoutRequested, value, execPc, workPc, posted,
                 outcome, fg>>

\* Execute() has returned: OnExecuted().  The coroutine may now be resumed by any
\* thread; await_suspend() returns unless this thread goes on to Resume().
OnExecuted(s) ==
  /\ execPc[s] = "execute"
  /\ workPc[s] # "none"
  /\ \E timeoutCancelled, resumeCancelled \in BOOLEAN :
       LET next == AfterOnExecuted(serviceState[s], timeoutCancelled, resumeCancelled)
       IN  /\ CancelTimeout(s, ExecutedCancelsTimeout(serviceState[s]), timeoutCancelled)
           /\ CancelExecute(s, ExecutedCancelsResume(serviceState[s]), resumeCancelled)
           /\ serviceState' = [serviceState EXCEPT ![s] = next]
           /\ IF next = "Resuming"
              THEN execPc' = [execPc EXCEPT ![s] = "resume"] /\ UNCHANGED fg
              ELSE execPc' = [execPc EXCEPT ![s] = "returned"] /\ LeaveHome(s)
  /\ UNCHANGED <<hasTimeout, exceptionPtr, value, posted, outcome>>

ExecResume(s) ==
  /\ execPc[s] = "resume"
  /\ Resume(s)
  /\ execPc' = [execPc EXCEPT ![s] = "returned"]
  /\ LeaveHome(s)
  /\ UNCHANGED <<hasTimeout, exceptionPtr, timeoutRequested, value, workPc, timer, outcome>>

-----------------------------------------------------------------------------
(* The implementation's work: it may complete on any thread, at any time. *)

\* The work is done and its callback can no longer be stopped.
ClaimResult(s) ==
  /\ workPc[s] = "pending"
  /\ workPc' = [workPc EXCEPT ![s] = "claimed"]
  /\ UNCHANGED <<serviceState, hasTimeout, exceptionPtr, timeoutRequested, value,
                 execPc, timer, posted, outcome, fg>>

\* SetResult(value): the parameter shadows the member, so the assignment
\* `value = std::move(value)` leaves the member as it was.
SetResult(s) ==
  /\ workPc[s] = "claimed"
  /\ workPc' = [workPc EXCEPT ![s] = "stored"]
  /\ value' = value
  /\ UNCHANGED <<serviceState, hasTimeout, exceptionPtr, timeoutRequested, execPc,
                 timer, posted, outcome, fg>>

\* SetException(): stores the exception, outside the mutex.
SetException(s) ==
  /\ workPc[s] = "claimed"
  /\ workPc' = [workPc EXCEPT ![s] = "stored"]
  /\ exceptionPtr' = [exceptionPtr EXCEPT ![s] = TRUE]
  /\ UNCHANGED <<serviceState, hasTimeout, timeoutRequested, value, execPc, timer,
                 posted, outcome, fg>>

OnResume(s) ==
  /\ workPc[s] = "stored"
  /\ \E timeoutCancelled \in BOOLEAN :
       LET next == AfterOnResume(serviceState[s], timeoutCancelled)
       IN  /\ CancelTimeout(s, ResumeCancelsTimeout(serviceState[s]), timeoutCancelled)
           /\ serviceState' = [serviceState EXCEPT ![s] = next]
           /\ workPc' = [workPc EXCEPT ![s] = IF next = "Resuming" THEN "resume"
                                              ELSE "done"]
  /\ hasTimeout' = [hasTimeout EXCEPT ![s] = @ /\ ~ResumeClearsTimeout(serviceState[s])]
  /\ UNCHANGED <<exceptionPtr, value, execPc, posted, outcome, fg>>

WorkResume(s) ==
  /\ workPc[s] = "resume"
  /\ Resume(s)
  /\ workPc' = [workPc EXCEPT ![s] = "done"]
  /\ UNCHANGED <<hasTimeout, exceptionPtr, timeoutRequested, value, execPc, timer,
                 outcome, fg>>

-----------------------------------------------------------------------------
(* The timeout: a delayed function, run by the foreground thread. *)

\* PumpTimerMessages() takes the function off the queue and releases its mutex:
\* from here on CancelDelayedFunction() no longer finds it.
PopTimer(s) ==
  /\ timer[s] = "queued"
  /\ fg = NoService
  /\ fg' = s
  /\ timer' = [timer EXCEPT ![s] = "inFlight"]
  /\ UNCHANGED <<serviceState, hasTimeout, exceptionPtr, timeoutRequested, value,
                 execPc, workPc, posted, outcome>>

OnTimedOut(s) ==
  /\ timer[s] = "inFlight"
  /\ \E resumeCancelled \in BOOLEAN :
       LET next == AfterOnTimedOut(serviceState[s], resumeCancelled)
       IN  /\ CancelExecute(s, TimedOutCancelsResume(serviceState[s]), resumeCancelled)
           /\ serviceState' = [serviceState EXCEPT ![s] = next]
           /\ IF next = "Resuming"
              THEN timer' = [timer EXCEPT ![s] = "resume"] /\ UNCHANGED fg
              ELSE timer' = [timer EXCEPT ![s] = "gone"] /\ fg' = NoService
  /\ hasTimeout' = [hasTimeout EXCEPT ![s] = @ \/ TimedOutMarksTimeout(serviceState[s])]
  /\ UNCHANGED <<exceptionPtr, timeoutRequested, value, execPc, posted, outcome>>

TimerResume(s) ==
  /\ timer[s] = "resume"
  /\ Resume(s)
  /\ timer' = [timer EXCEPT ![s] = "gone"]
  /\ fg' = NoService
  /\ UNCHANGED <<hasTimeout, exceptionPtr, timeoutRequested, value, execPc, workPc, outcome>>

-----------------------------------------------------------------------------
\* The home dispatcher runs the posted handle: await_resume(), and the service
\* object goes out of scope.
AwaitResume(s) ==
  /\ posted[s] > 0
  /\ outcome[s] = "none"
  /\ HomeIsFree(s)
  /\ outcome' = [outcome EXCEPT ![s] = AwaitOutcome(exceptionPtr[s], hasTimeout[s])]
  /\ UNCHANGED <<serviceState, hasTimeout, exceptionPtr, timeoutRequested, value,
                 execPc, workPc, timer, posted, fg>>

\* Every co_await has returned.
ServiceTerminating ==
  /\ \A s \in Services : outcome[s] # "none"
  /\ UNCHANGED serviceVars

HomeStep(s)  == \/ AwaitSuspend(s) \/ StartWork(s) \/ RequestTimeout(s)
                \/ FlagTimeout(s) \/ RequestPastTimeout(s) \/ OnExecuted(s)
                \/ ExecResume(s)
Callback(s)  == SetResult(s) \/ SetException(s) \/ OnResume(s) \/ WorkResume(s)
TimerStep(s) == PopTimer(s) \/ OnTimedOut(s) \/ TimerResume(s)

ServiceNext ==
  \/ \E s \in Services : \/ HomeStep(s) \/ ClaimResult(s) \/ Callback(s)
                         \/ TimerStep(s) \/ AwaitResume(s)
  \/ ServiceTerminating

ServiceSpec == ServiceInit /\ [][ServiceNext]_serviceVars

\* The home thread goes on with what it started, the dispatcher runs due timers
\* and posted handles, a callback under way completes.  Nothing makes the work
\* itself complete (no fairness of ClaimResult), nor the program await.
ServiceFairness ==
  \A s \in Services :
    /\ WF_serviceVars(OnExecuted(s) \/ ExecResume(s) \/ FlagTimeout(s))
    /\ WF_serviceVars(StartWork(s))
    /\ WF_serviceVars(Callback(s))
    /\ WF_serviceVars(TimerStep(s))
    /\ WF_serviceVars(AwaitResume(s))

ServiceFairSpec == ServiceSpec /\ ServiceFairness

-----------------------------------------------------------------------------
(* Correctness. *)

\* No interleaving of Execute(), callback and timeout brings an entry point of
\* the state machine to a state it does not expect (throwInvalidState, which ends
\* the process).
NoInvalidState == \A s \in Services : serviceState[s] # Terminated

\* Once the handle is posted the coroutine may destroy the service object: by then
\* it was posted exactly once, the home thread is out of await_suspend(), no timer
\* function is queued or running, and the work is cancelled or its callback over.
NoUseAfterResume ==
  \A s \in Services :
    posted[s] > 0 => /\ posted[s] = 1
                     /\ execPc[s] = "returned"
                     /\ timer[s] \in {"none", "gone"}
                     /\ workPc[s] \in {"done", "cancelled"}

\* await_resume() tells the truth: an exception the callback reported is always
\* rethrown, a value needs a completed callback, a timeout needs a timer that ran.
OutcomeIsReal ==
  \A s \in Services :
    /\ outcome[s] = "value" => workPc[s] = "done" /\ ~exceptionPtr[s]
    /\ outcome[s] = "timeout" => timer[s] = "gone" /\ ~exceptionPtr[s]
    /\ outcome[s] # "none" /\ exceptionPtr[s] => outcome[s] = "exception"

\* A result that was reported is not discarded for a timeout.
ReportedResultWins(s) == outcome[s] = "timeout" => workPc[s] = "cancelled"

\* It holds of services awaited on the foreground thread with no negative timeout:
\* there the timer cannot fire before Execute() is over.
ForegroundResultWins == \A s \in Services \ (Pool \cup PastTimeouts) : ReportedResultWins(s)

\* What no interleaving of a wait's three parties may break.
ServiceSafe == NoInvalidState /\ NoUseAfterResume /\ OutcomeIsReal /\ ForegroundResultWins

\* co_await of a typed service returns the value passed to SetResult()
\* (CoService.h:129).
ResultIsStored == \A s \in Services : outcome[s] = "value" => value[s] = "stored"

\* A wait that asked for a timeout, and one whose work completed, ends.
WaitEnds ==
  \A s \in Services :
    timer[s] # "none" \/ workPc[s] = "claimed" ~> outcome[s] # "none"

-----------------------------------------------------------------------------
(* Why: what each state of the machine says of the three parties.  The       *)
(* conjunction is inductive; CoService_proofs derives the properties from it. *)

InExecute(s)     == execPc[s] \in {"execute", "flag"}
WorkIsOut(s)     == workPc[s] \in {"none", "pending", "claimed", "stored"}
\* timeoutRequested lags behind the timer while the home thread is in between.
TimerIsOut(s)    == /\ timer[s] \in {"none", "queued", "inFlight"}
                    /\ execPc[s] = "flag" => timer[s] # "none"
                    /\ timeoutRequested[s] => timer[s] # "none"
                    /\ timer[s] # "none" => timeoutRequested[s] \/ execPc[s] = "flag"

Phase(s) ==
  CASE serviceState[s] = "Idle" ->
         execPc[s] = "idle" /\ workPc[s] = "none" /\ timer[s] = "none" /\ ~timeoutRequested[s]
    [] serviceState[s] = "Executing" ->
         InExecute(s) /\ WorkIsOut(s) /\ TimerIsOut(s)
    [] serviceState[s] = "ExecutingTimedOut" ->
         InExecute(s) /\ WorkIsOut(s) /\ timer[s] = "gone"
    [] serviceState[s] = "ExecutingResumed" ->
         InExecute(s) /\ workPc[s] = "done" /\ TimerIsOut(s)
    [] serviceState[s] = "ExecutingTimedOutAndResumed" ->
         InExecute(s) /\ workPc[s] = "done" /\ timer[s] = "gone"
    [] serviceState[s] = "Executed" ->
         execPc[s] = "returned" /\ WorkIsOut(s) /\ workPc[s] # "none" /\ TimerIsOut(s)
    [] serviceState[s] = "ResumedTimeoutInFlight" ->
         execPc[s] = "returned" /\ workPc[s] = "done" /\ timer[s] = "inFlight"
    [] serviceState[s] = "TimedOutResumeInFlight" ->
         execPc[s] = "returned" /\ workPc[s] \in {"claimed", "stored"} /\ timer[s] = "gone"
    [] serviceState[s] = "Resuming" ->
         \/ /\ execPc[s] = "resume"
            /\ workPc[s] \in {"done", "cancelled"} /\ timer[s] \in {"none", "gone"}
         \/ /\ workPc[s] = "resume"
            /\ execPc[s] = "returned" /\ timer[s] \in {"none", "gone"}
         \/ /\ timer[s] = "resume"
            /\ execPc[s] = "returned" /\ workPc[s] \in {"done", "cancelled"}
    [] serviceState[s] = "Resumed" ->
         /\ execPc[s] = "returned"
         /\ workPc[s] \in {"done", "cancelled"}
         /\ timer[s] \in {"none", "gone"}
    [] OTHER -> FALSE

Marks(s) ==
  /\ posted[s] = IF serviceState[s] = "Resumed" THEN 1 ELSE 0
  /\ posted[s] = 0 => outcome[s] = "none"
  /\ workPc[s] = "cancelled" \/ serviceState[s] = "ExecutingTimedOut" => hasTimeout[s]
  /\ hasTimeout[s] => timer[s] \in {"resume", "gone"}
  /\ exceptionPtr[s] => workPc[s] \in {"stored", "resume", "done"}
  /\ outcome[s] # "none" => outcome[s] = AwaitOutcome(exceptionPtr[s], hasTimeout[s])

\* The foreground thread does one thing at a time: while it is in await_suspend()
\* of a service it runs no timer, so OnTimedOut never finds that service Executing.
ForegroundIsSerial(s) ==
  /\ timer[s] \in {"inFlight", "resume"} => fg = s
  /\ s \notin Pool => /\ InExecute(s) \/ execPc[s] = "resume" => fg = s
                      /\ timer[s] \in {"inFlight", "resume"} => execPc[s] = "returned"
  /\ s \notin Pool \cup PastTimeouts =>
       /\ serviceState[s] \notin {"ExecutingTimedOut", "ExecutingTimedOutAndResumed"}
       /\ hasTimeout[s] => \/ workPc[s] = "cancelled"
                           \/ serviceState[s] = "TimedOutResumeInFlight"

AllServicesInv == \A s \in Services : Phase(s) /\ Marks(s) /\ ForegroundIsSerial(s)
=============================================================================
