----------------------------- MODULE CoDispatcher -----------------------------
(***************************************************************************)
(* The foreground CoDispatcher (src/lib/CoTask.cpp): a queue of coroutine  *)
(* handles, a queue of delayed coroutines and a list of delayed functions, *)
(* which the foreground thread runs one at a time; any thread posts to     *)
(* them, and then wakes the foreground thread up.                          *)
(*                                                                         *)
(* A posting call is two steps: the change, under schedulerMutex, and      *)
(* PumpMessageNotifyOne(), under pumpMessageMutex; the foreground thread's *)
(* decision to sleep is one step, under pumpMessageMutex.  What the        *)
(* foreground thread runs is a program's choice: MessageLoop(), one call   *)
(* of PumpMessages(timeout), or one of SleepUntil(time).                   *)
(*                                                                         *)
(* The clock counts up to MaxTime; a sleep ends there at the latest.       *)
(***************************************************************************)
EXTENDS Integers, SequencesExt

CONSTANTS
  Handles,          \* coroutines that are posted
  Delayed,          \* coroutines that are posted with a delay
  Functions,        \* functions that are posted with a delay, and may be cancelled
  Posters,          \* background threads
  ForegroundThread, \* the foreground thread
  Programs,         \* [driver, work]: what the foreground thread runs, and what is posted
  Delays,           \* the delays used
  IdleSleep,        \* how long it sleeps when there is no timer (1000ms)
  Timeout,          \* of PumpMessages(timeout) and SleepUntil(time)
  MaxTime

Work   == Handles \cup Delayed \cup Functions
Timers == Delayed \cup Functions

ASSUME DispatcherAssumption ==
  /\ Handles \cap Timers = {} /\ Delayed \cap Functions = {}
  /\ ForegroundThread \notin Posters
  /\ Programs \subseteq [driver : {"MessageLoop", "PumpMessages", "SleepUntil"},
                          work : SUBSET Work]
  /\ Delays \subseteq Nat
  /\ IdleSleep \in Nat \ {0} /\ Timeout \in Nat /\ MaxTime \in Nat

VARIABLES
  queue,                \* posted handles
  coroutineTimerQueue,  \* a priority queue: ties are popped in any order
  functionTimerQueue,   \* a list, ordered by time
  time,                 \* when each timer is due
  messagePosted, quit,
  notifying,            \* threads about to call PumpMessageNotifyOne()
  now,                  \* the clock
  program,              \* one of Programs
  posted, ran,          \* history: what has been posted, how often each thing ran
  answer,               \* history: what CancelDelayedFunction() said of a function
  fg                    \* the foreground thread

posting == <<queue, coroutineTimerQueue, functionTimerQueue, time, posted>>
dispatcherVars == <<posting, messagePosted, quit, notifying, now, program, ran, answer, fg>>

Phase == {"pump", "timers", "queue", "handler", "returned", "quit?", "wait", "asleep",
          "ended", "timedOut"}

DispatcherTypeOK ==
  /\ queue \in Seq(Handles) /\ functionTimerQueue \in Seq(Functions)
  /\ coroutineTimerQueue \subseteq Delayed
  /\ time \in [Timers -> Nat]
  /\ messagePosted \in BOOLEAN /\ quit \in BOOLEAN
  /\ notifying \subseteq Posters \cup {ForegroundThread}
  /\ now \in 0..MaxTime /\ program \in Programs
  /\ posted \subseteq Work /\ ran \in [Work -> 0..1]
  /\ answer \in [Functions -> {"none", "cancelled", "tooLate"}]
  /\ fg \in [phase : Phase,           \* where it is
             back : Phase,            \* where a handler returns to
             call : {"first", "second"}, \* which call of PumpMessages() it is in
             start : 0..MaxTime,      \* PumpMessages()'s `now`, 0 elsewhere
             any : BOOLEAN,           \* PumpMessages()'s processedAny
             message : BOOLEAN,       \* PumpMessages()'s processedMessage
             wakeAt : Nat,            \* when its sleep is over
             notified : BOOLEAN]      \* its condition variable has been notified

DispatcherInit ==
  /\ queue = <<>> /\ coroutineTimerQueue = {} /\ functionTimerQueue = <<>>
  /\ time = [t \in Timers |-> 0]
  /\ messagePosted = FALSE /\ quit = FALSE /\ notifying = {} /\ now = 0
  /\ posted = {} /\ ran = [w \in Work |-> 0]
  /\ answer = [f \in Functions |-> "none"]
  /\ program \in Programs
  /\ fg = [phase |-> IF program.driver = "SleepUntil" THEN "wait" ELSE "pump",
           back |-> "pump", call |-> "first", start |-> 0, any |-> FALSE, message |-> FALSE,
           wakeAt |-> 0, notified |-> FALSE]

-----------------------------------------------------------------------------
(* The calls of other threads, and of what the foreground thread runs. *)

Callers == Posters \cup (IF fg.phase = "handler" THEN {ForegroundThread} ELSE {})

CanCall(a) == a \in Callers /\ a \notin notifying
Forgets(a) == UNCHANGED notifying  \* a mutant: nobody is woken up
Calls(a)   == notifying' = notifying \cup {a}

Post(a, h) ==
  /\ CanCall(a) /\ h \in program.work \ posted
  /\ queue' = Append(queue, h)
  /\ posted' = posted \cup {h}
  /\ Calls(a)
  /\ UNCHANGED <<coroutineTimerQueue, functionTimerQueue, time, messagePosted, quit, now,
                 program, ran, answer, fg>>

PostDelayed(a, c, delay) ==
  /\ CanCall(a) /\ c \in program.work \ posted
  /\ time' = [time EXCEPT ![c] = now + delay]
  /\ coroutineTimerQueue' = coroutineTimerQueue \cup {c}
  /\ posted' = posted \cup {c}
  /\ Calls(a)
  /\ UNCHANGED <<queue, functionTimerQueue, messagePosted, quit, now, program, ran,
                 answer, fg>>

\* The new entry goes before the first one that is due later, else to the end.
Place(list, due) == Min({i \in DOMAIN list : due < time[list[i]]} \cup {Len(list) + 1})

PostDelayedFunction(a, f, delay) ==
  /\ CanCall(a) /\ f \in program.work \ posted
  /\ time' = [time EXCEPT ![f] = now + delay]
  /\ functionTimerQueue' =
       InsertAt(functionTimerQueue, Place(functionTimerQueue, now + delay), f)
  /\ posted' = posted \cup {f}
  /\ Calls(a)
  /\ UNCHANGED <<queue, coroutineTimerQueue, messagePosted, quit, now, program, ran,
                 answer, fg>>

\* The mutants erase nothing, and all that is due at that time.
NothingErased(f) == functionTimerQueue
TimeErased(f) == SelectSeq(functionTimerQueue, LAMBDA g : time[g] # time[f])
FunctionsWithout(f) == RemoveFirst(functionTimerQueue, f)

\* Found in the list and erased, or not found.  Nobody is woken up.
CancelDelayedFunction(a, f) ==
  /\ CanCall(a) /\ f \in posted /\ answer[f] = "none"
  /\ answer' = [answer EXCEPT ![f] = IF f \in Range(functionTimerQueue) THEN "cancelled"
                                     ELSE "tooLate"]
  /\ functionTimerQueue' = FunctionsWithout(f)
  /\ UNCHANGED <<queue, coroutineTimerQueue, time, posted, messagePosted, quit, notifying,
                 now, program, ran, fg>>

PostQuit(a) ==
  /\ CanCall(a) /\ ~quit /\ program.driver = "MessageLoop" /\ fg.phase # "ended"
  /\ quit' = TRUE
  /\ Calls(a)
  /\ UNCHANGED <<posting, messagePosted, now, program, ran, answer, fg>>

\* The flag stays for a foreground thread that is not asleep.
PostsMessage(a) == messagePosted' = TRUE

PumpMessageNotifyOne(a) ==
  /\ a \in notifying
  /\ notifying' = notifying \ {a}
  /\ PostsMessage(a)
  /\ fg' = [fg EXCEPT !.notified = @ \/ fg.phase = "asleep"]
  /\ UNCHANGED <<posting, quit, now, program, ran, answer>>

-----------------------------------------------------------------------------
(* PumpMessages(): timers that were due when it began, then the queue, until the *)
(* queue was empty.                                                              *)

FgUnchanged == UNCHANGED <<messagePosted, quit, notifying, now, program, answer>>

PumpBegins ==
  /\ fg.phase = "pump"
  /\ fg' = [fg EXCEPT !.phase = "timers", !.start = now, !.any = FALSE, !.message = FALSE]
  /\ UNCHANGED <<posting, ran>> /\ FgUnchanged

\* What PumpTimerMessages(start) runs, in the order of its tests: the first function if
\* no coroutine is due before it; else the first coroutine, which in the presence of
\* functions has to be due before `start`, not at it.
FirstFunction == Head(functionTimerQueue)
CoroutinesLater == \A c \in coroutineTimerQueue : time[FirstFunction] < time[c]  \* a mutant
CoroutinesNotBefore == \A c \in coroutineTimerQueue : time[FirstFunction] <= time[c]
FunctionIsDue ==
  /\ functionTimerQueue # <<>>
  /\ time[FirstFunction] <= fg.start
  /\ CoroutinesNotBefore
FunctionsIgnored(c) == TRUE  \* a mutant: the two queues are not compared
NoFunctionBefore(c) ==
  functionTimerQueue # <<>> => time[c] < time[FirstFunction] /\ time[c] < fg.start
CoroutineIsDue(c) ==
  /\ c \in coroutineTimerQueue
  /\ \A d \in coroutineTimerQueue : time[c] <= time[d]
  /\ time[c] <= fg.start
  /\ NoFunctionBefore(c)

Runs(w) == /\ fg' = [fg EXCEPT !.phase = "handler", !.back = fg.phase, !.any = TRUE,
                               !.message = w \in Handles]
           /\ ran' = [ran EXCEPT ![w] = @ + 1]

RunFunction ==
  /\ fg.phase = "timers" /\ FunctionIsDue
  /\ Runs(FirstFunction)
  /\ functionTimerQueue' = Tail(functionTimerQueue)
  /\ UNCHANGED <<queue, coroutineTimerQueue, time, posted>> /\ FgUnchanged

NotPopped(c) == coroutineTimerQueue  \* a mutant
Popped(c) == coroutineTimerQueue \ {c}

RunCoroutine(c) ==
  /\ fg.phase = "timers" /\ CoroutineIsDue(c)
  /\ Runs(c)
  /\ coroutineTimerQueue' = Popped(c)
  /\ UNCHANGED <<queue, functionTimerQueue, time, posted>> /\ FgUnchanged

TimersDone ==
  /\ fg.phase = "timers" /\ ~FunctionIsDue /\ \A c \in Delayed : ~CoroutineIsDue(c)
  /\ fg' = [fg EXCEPT !.phase = "queue", !.message = FALSE]
  /\ UNCHANGED <<posting, ran>> /\ FgUnchanged

RunHandle ==
  /\ fg.phase = "queue" /\ queue # <<>>
  /\ Runs(Head(queue))
  /\ queue' = Tail(queue)
  /\ UNCHANGED <<coroutineTimerQueue, functionTimerQueue, time, posted>> /\ FgUnchanged

\* The coroutine or function that was run has made its calls and gives control back.
HandlerReturns ==
  /\ fg.phase = "handler" /\ ForegroundThread \notin notifying
  /\ fg' = [fg EXCEPT !.phase = fg.back, !.back = "pump"]
  /\ UNCHANGED <<posting, ran>> /\ FgUnchanged

\* Once more if a message was run, else back to the caller.
QueueDone ==
  /\ fg.phase = "queue" /\ queue = <<>>
  /\ fg' = IF fg.message THEN [fg EXCEPT !.phase = "timers"]
            ELSE [fg EXCEPT !.phase = "returned", !.start = 0]
  /\ UNCHANGED <<posting, ran>> /\ FgUnchanged

-----------------------------------------------------------------------------
(* Sleeping. *)

NextTimers == {time[t] : t \in coroutineTimerQueue \cup Range(functionTimerQueue)}
AtMost(t) == IF t < MaxTime THEN t ELSE MaxTime

Sleeps(until) ==
  /\ fg' = [fg EXCEPT !.phase = "asleep", !.notified = FALSE,
                      !.wakeAt = AtMost(IF until > now THEN until ELSE now + 1)]

\* PumpMessageWaitOne(): a message posted since the last time is reason not to sleep, and
\* so is a timer that is overdue.
PumpMessageWaitOne ==
  /\ program.driver = "MessageLoop" /\ fg.phase = "wait"
  /\ \/ /\ messagePosted
        /\ messagePosted' = FALSE
        /\ fg' = [fg EXCEPT !.phase = "pump"]
     \/ /\ ~messagePosted
        /\ UNCHANGED messagePosted
        /\ \/ /\ \E t \in NextTimers : t < now
              /\ fg' = [fg EXCEPT !.phase = "pump"]
           \/ /\ \A t \in NextTimers : t >= now
              /\ Sleeps(IF NextTimers = {} THEN now + IdleSleep ELSE Min(NextTimers))
  /\ UNCHANGED <<posting, quit, notifying, now, program, ran, answer>>

Wakes ==
  /\ fg.phase = "asleep"
  /\ fg' = [fg EXCEPT !.phase = "pump", !.notified = FALSE, !.wakeAt = 0]
  /\ UNCHANGED <<posting, ran>> /\ FgUnchanged

\* The wait of PumpMessages(timeout), which throws at the end, and that of
\* SleepUntil(time), which returns.  Neither looks at messagePosted.
PumpMessagesWait ==
  /\ program.driver # "MessageLoop" /\ fg.phase = "wait"
  /\ IF now >= Timeout
     THEN /\ fg' = [fg EXCEPT !.phase = IF program.driver = "SleepUntil" THEN "ended"
                                        ELSE "timedOut"]
     ELSE Sleeps(Min(NextTimers \cup {Timeout}))
  /\ UNCHANGED <<posting, messagePosted, quit, notifying, now, program, ran, answer>>

-----------------------------------------------------------------------------
(* The drivers. *)

\* MessageLoop() calls PumpMessages(true): PumpMessages() and, if it did nothing,
\* PumpMessageWaitOne() and PumpMessages() again.
LoopReturned ==
  /\ program.driver = "MessageLoop" /\ fg.phase = "returned"
  /\ fg' = IF fg.call = "first" /\ ~fg.any
           THEN [fg EXCEPT !.phase = "wait", !.call = "second"]
           ELSE [fg EXCEPT !.phase = "quit?", !.call = "first", !.any = FALSE]
  /\ UNCHANGED <<posting, ran>> /\ FgUnchanged

\* ... then it looks at `quit`, and waits (again).
QuitsIfTold == quit /\ messagePosted  \* a mutant
Quits == quit

LoopQuits ==
  /\ fg.phase = "quit?"
  /\ fg' = [fg EXCEPT !.phase = IF Quits THEN "ended" ELSE "wait"]
  /\ quit' = (quit /\ ~Quits)
  /\ UNCHANGED <<posting, messagePosted, notifying, now, program, ran, answer>>

\* PumpMessages(timeout) returns as soon as something was run.
\* SleepUntil(time) goes on in any case.
PumpedMessage == fg.message  \* a mutant: timers do not count
PumpedAny == fg.any /\ program.driver = "PumpMessages"

PumpReturned ==
  /\ program.driver # "MessageLoop" /\ fg.phase = "returned"
  /\ fg' = [fg EXCEPT !.phase = IF PumpedAny THEN "ended" ELSE "wait"]
  /\ UNCHANGED <<posting, ran>> /\ FgUnchanged

Tick ==
  /\ now < MaxTime
  /\ now' = now + 1
  /\ UNCHANGED <<posting, messagePosted, quit, notifying, program, ran, answer,
                 fg>>

Over == fg.phase \in {"ended", "timedOut"}
Terminating == Over /\ UNCHANGED dispatcherVars

Operation(a) ==
  \/ \E h \in Handles : Post(a, h)
  \/ \E c \in Delayed, delay \in Delays : PostDelayed(a, c, delay)
  \/ \E f \in Functions : \/ \E delay \in Delays : PostDelayedFunction(a, f, delay)
                          \/ CancelDelayedFunction(a, f)
  \/ PostQuit(a)

Pump == \/ PumpBegins \/ RunFunction \/ (\E c \in Delayed : RunCoroutine(c)) \/ TimersDone
        \/ RunHandle \/ HandlerReturns \/ QueueDone
Drive == LoopReturned \/ LoopQuits \/ PumpReturned \/ PumpMessageWaitOne \/ PumpMessagesWait

DispatcherNext ==
  \/ \E a \in Posters \cup {ForegroundThread} : Operation(a) \/ PumpMessageNotifyOne(a)
  \/ Pump \/ Drive \/ Wakes
  \/ Tick \/ Terminating

DispatcherSpec == DispatcherInit /\ [][DispatcherNext]_dispatcherVars

\* Time passes, the foreground thread runs unless it is asleep, and no sleep outlasts its
\* end or a notification.
Fairness ==
  /\ WF_dispatcherVars(Tick)
  /\ WF_dispatcherVars(Pump \/ Drive)
  /\ WF_dispatcherVars(Wakes /\ (fg.notified \/ now >= fg.wakeAt))
  /\ \A a \in Posters \cup {ForegroundThread} : WF_dispatcherVars(PumpMessageNotifyOne(a))
DispatcherFairSpec == DispatcherSpec /\ Fairness

-----------------------------------------------------------------------------
(* Correctness. *)

SleepsUntold == fg.phase = "asleep" /\ ~fg.notified /\ notifying = {}

\* When MessageLoop() sleeps there is nothing to do before it wakes up, unless somebody is
\* about to wake it up: no posted handle, no timer due more than a millisecond earlier.
\* (The other drivers do not look at messagePosted first, and may sleep over a message.)
SleepsOnlyIfIdle ==
  program.driver = "MessageLoop" /\ SleepsUntold =>
    /\ queue = <<>>
    /\ \A t \in NextTimers : fg.wakeAt <= t + 1

\* What CancelDelayedFunction() says is true: a cancelled function never runs, one that
\* was too late to cancel has been run (CoService relies on both).
CancelTellsTheTruth ==
  \A f \in Functions : /\ answer[f] = "cancelled" => ran[f] = 0
                       /\ answer[f] = "tooLate" => ran[f] = 1

\* Nothing posted is dropped, or kept: it is in its queue until it is run or cancelled.
NothingIsLost ==
  \A w \in posted :
    LET queued == w \in Range(queue) \cup coroutineTimerQueue \cup Range(functionTimerQueue)
    IN  queued <=> ran[w] = 0 /\ (w \in Functions => answer[w] # "cancelled")

\* Timers are run in the order of their times, over both queues, and none too early.
TimersInOrder ==
  [][\A t \in Timers : ran'[t] # ran[t] =>
       /\ time[t] <= now
       /\ \A u \in coroutineTimerQueue \cup Range(functionTimerQueue) : time[t] <= time[u]
    ]_dispatcherVars

\* PumpMessages(timeout) runs something or throws, and throws only if it ran nothing and
\* the time is up (CoTask.h:133-136).
PumpsOrThrows ==
  program.driver = "PumpMessages" =>
    /\ fg.phase = "timedOut" => now >= Timeout /\ \A w \in Work : ran[w] = 0
    /\ fg.phase = "ended" => \E w \in Work : ran[w] = 1

\* What is posted is in a queue until it is run or truly cancelled; who drives the queues
\* neither sleeps on them nor gives up on them.
NothingIsMislaid == DispatcherTypeOK /\ NothingIsLost /\ CancelTellsTheTruth
PumpsTruly == SleepsOnlyIfIdle /\ PumpsOrThrows

\* What is posted is run, unless the loop ends, the function is cancelled or the clock
\* stops before the timer is due.
EverythingRuns ==
  \A w \in Work : w \in posted ~> \/ ran[w] = 1 \/ Over
                                  \/ w \in Functions /\ answer[w] = "cancelled"
                                  \/ w \in Timers /\ time[w] >= MaxTime

\* PostQuit() ends the loop, and PumpMessages(timeout) and SleepUntil(time) end.
DriverEnds == quit \/ program.driver # "MessageLoop" ~> Over

\* Both the work and its drivers come to their ends.
EverythingEnds == EverythingRuns /\ DriverEnds
=============================================================================
