---------------------------- MODULE ServiceStates ----------------------------
(***************************************************************************)
(* The state machine of CoServiceBase (src/lib/cotask/CoService.h), as     *)
(* pure operators: what each of its four entry points makes of the current *)
(* ServiceState, given the answers of the two cancel calls it may make.    *)
(* CoService wraps every co_await on native code; it must sort out a race  *)
(* between three parties: the thread that runs Execute(), the result       *)
(* callback, and the timeout callback.                                     *)
(***************************************************************************)

\* enum class ServiceState; ResumedCancellingTimeout is declared by the code
\* and never used.
ServiceState == {"Idle", "Executing", "ExecutingTimedOut", "ExecutingResumed",
                 "ExecutingTimedOutAndResumed", "Executed",
                 "ResumedTimeoutInFlight", "TimedOutResumeInFlight",
                 "Resuming", "Resumed"}

\* Where throwInvalidState() leads: it terminates the process.
Terminated == "Terminated"

\* OnResume: the result callback.  The timeout is cancelled from Executed only.
ResumeCancelsTimeout(state) == state = "Executed"
AfterOnResume(state, timeoutCancelled) ==
  CASE state = "Executing"              -> "ExecutingResumed"
    [] state = "ExecutingTimedOut"      -> "ExecutingTimedOutAndResumed"
    [] state = "Executed"               -> IF timeoutCancelled THEN "Resuming"
                                           ELSE "ResumedTimeoutInFlight"
    [] state = "TimedOutResumeInFlight" -> "Resuming"
    [] OTHER                            -> Terminated
\* A resume that the timeout could not cancel wins over the timeout.
NeverClears(state) == FALSE  \* a mutant
ResumeClearsTimeout(state) == state = "TimedOutResumeInFlight"

\* OnExecuted: Execute() has returned.
ExecutedLeavesTimeout(state) == FALSE  \* a mutant
ExecutedCancelsTimeout(state) == state = "ExecutingResumed"
ExecutedCancelsResume(state)  == state = "ExecutingTimedOut"
AfterOnExecuted(state, timeoutCancelled, resumeCancelled) ==
  CASE state = "Executing"         -> "Executed"
    [] state = "ExecutingTimedOut" -> IF resumeCancelled THEN "Resuming"
                                      ELSE "TimedOutResumeInFlight"
    [] state = "ExecutingResumed"  -> IF timeoutCancelled THEN "Resuming"
                                      ELSE "ResumedTimeoutInFlight"
    [] state = "ExecutingTimedOutAndResumed" -> "Resuming"
    [] OTHER                       -> Terminated

\* OnTimedOut: the timer callback.
TimedOutLeavesWork(state) == FALSE  \* a mutant
TimedOutCancelsResume(state) == state = "Executed"
TimedOutMarksTimeout(state)  == state \in {"Executing", "Executed"}
AfterOnTimedOut(state, resumeCancelled) ==
  CASE state = "Executing"              -> "ExecutingTimedOut"
    [] state = "ExecutingResumed"       -> "ExecutingTimedOutAndResumed"
    [] state = "Executed"               -> IF resumeCancelled THEN "Resuming"
                                           ELSE "TimedOutResumeInFlight"
    [] state = "ResumedTimeoutInFlight" -> "Resuming"
    [] OTHER                            -> Terminated

\* Resume(): posts the suspended handle, once.
AfterResume(state) == IF state = "Resuming" THEN "Resumed" ELSE Terminated

\* What await_resume() does, in its order of tests: rethrow, time out, return.
\* (hasError is set whenever exceptionPtr or hasTimeout is, so it adds nothing;
\* nothing sets `cancelled`.)
TimeoutFirst(hasException, hasTimeout) ==  \* a mutant: the tests swapped
  CASE hasTimeout -> "timeout"
    [] ~hasTimeout /\ hasException -> "exception"
    [] OTHER -> "value"
AwaitOutcome(hasException, hasTimeout) ==
  CASE hasException -> "exception"
    [] ~hasException /\ hasTimeout -> "timeout"
    [] OTHER -> "value"
=============================================================================
