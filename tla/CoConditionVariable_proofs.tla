---------------------- MODULE CoConditionVariable_proofs ----------------------
(***************************************************************************)
(* What is proved of CoConditionVariable, for any waiters, notifiers and   *)
(* uses: until CancelExecute() takes a wait for cancelled that a notifier  *)
(* will call back (raced), a wait is resumed once, no notification is lost *)
(* or made up, and a token only if a notification came between the timeout *)
(* of its wait and OnExecuted() (late).  With one thread, or without       *)
(* timeouts, neither of the two happens.                                   *)
(*                                                                         *)
(* Whoever an operation finds on the list is suspended and has no result   *)
(* (Phase), and is with one notifier once it was taken (CallbacksAreTrue). *)
(* The five operations differ in how many they take and how many of these  *)
(* have had a successful test (Takes), and are treated as one.             *)
(***************************************************************************)
EXTENDS CoConditionVariable, ListLemmas, FiniteSetTheorems

(* The inductive invariant. *)

\* Is a callback to be made to w, or has it been made by one who will resume it?
Due(w) == \E n \in Notifiers : \E i \in DOMAIN callbacks[n] :
            callbacks[n][i].waiter = w /\ (i = 1 => notifyPc[n] # "resume")
Taken(w) == \E n \in Notifiers : notifyPc[n] = "resume" /\ callbacks[n][1].waiter = w

\* A waiter is on the list once, or in one callback.
CallbacksAreTrue ==
  /\ IsInjective(awaiters)
  /\ \A n \in Notifiers : callbacks[n] # <<>> <=> notifyPc[n] \in {"callback", "resume"}
  /\ \A m, n \in Notifiers : \A i \in DOMAIN callbacks[m], j \in DOMAIN callbacks[n] :
       callbacks[m][i].waiter = callbacks[n][j].waiter => m = n /\ i = j
  /\ \A n \in Notifiers : \A i \in DOMAIN callbacks[n] :
       /\ ~Awaits(callbacks[n][i].waiter)
       /\ callbacks[n][i].fails = ~consumed[callbacks[n][i].waiter]

\* Where a wait is: its state, its home thread, its timer and who has it.
Suspends(w) == \/ serviceState[w] \in {"Executed", "ExecutingTimedOut"}
               \/ serviceState[w] = "Executing" /\ execPc[w] = "executed"
HasResult == {"ExecutingResumed", "ExecutingTimedOutAndResumed", "ResumedTimeoutInFlight",
              "Resuming", "Resumed"}
ExecOf(state) ==
  CASE state = "Idle"              -> {"idle"}
    [] state = "Executing"         -> {"execute", "complete", "fail", "past", "executed"}
    [] state = "ExecutingTimedOut" -> {"executed", "cancel"}
    [] state \in {"ExecutingResumed", "ExecutingTimedOutAndResumed"} -> {"executed"}
    [] state = "Resuming"          -> {"resume", "returned"}
    [] OTHER                       -> {"returned"}
TimerOf(state) ==
  CASE state = "Idle"              -> {"none"}
    [] state \in {"Executing", "ExecutingResumed"} -> {"none", "queued", "inFlight"}
    [] state = "Executed"          -> {"none", "queued", "inFlight", "cancel"}
    [] state = "ResumedTimeoutInFlight" -> {"inFlight"}
    [] state = "Resuming"          -> {"none", "gone", "resume"}
    [] OTHER                       -> {"none", "gone"}
Phase(w) ==
  /\ serviceState[w] \in HasResult \cup {"Idle", "Executing", "ExecutingTimedOut", "Executed"}
  /\ execPc[w] \in ExecOf(serviceState[w])
  /\ timer[w] \in TimerOf(serviceState[w])
  /\ posted[w] = IF serviceState[w] = "Resumed" THEN 1 ELSE 0
  /\ execPc[w] = "past" => Awaits(w) /\ ~Due(w)
  /\ Suspends(w) => (Awaits(w) <=> ~Due(w))
  /\ execPc[w] # "past" /\ ~Suspends(w) => ~Awaits(w) /\ ~Due(w)
  /\ Taken(w) <=> /\ serviceState[w] = "Resuming" /\ execPc[w] = "returned"
                  /\ timer[w] # "resume"
  /\ timer[w] = "resume" => execPc[w] = "returned"
  /\ execPc[w] \in {"execute", "complete", "fail", "past"} => timer[w] = "none"
  /\ timer[w] = "inFlight" /\ execPc[w] # "returned" => w \in use.pool
  /\ timer[w] # "none" => w \in use.timed
  /\ execPc[w] = "past" => w \in use.past
  /\ hasTimeout[w] => w \in use.timed \cup use.past

\* What it will return with.
Data(w) ==
  /\ exceptionPtr[w] => serviceState[w] \in HasResult
  /\ hasTimeout[w] <=> \/ serviceState[w] = "ExecutingTimedOut" \/ timer[w] = "cancel"
                       \/ /\ hasTimeout[w]
                          /\ serviceState[w] \in {"ExecutingTimedOutAndResumed", "Resuming",
                                                  "Resumed"}
  /\ serviceState[w] \in HasResult => exceptionPtr[w] \/ hasTimeout[w] \/ consumed[w]
  /\ consumed[w] => /\ ~Awaits(w) /\ serviceState[w] # "Idle" /\ ~exceptionPtr[w]
                    /\ execPc[w] \notin {"execute", "fail"}
                    /\ hasTimeout[w] => Due(w) \/ w \in late
  /\ execPc[w] = "complete" => consumed[w]
  /\ outcome[w] # "none" =>
       posted[w] > 0 /\ outcome[w] = AwaitOutcome(exceptionPtr[w], hasTimeout[w])

\* Whose the foreground thread and the locks are.
WaiterHolds(w) ==
  /\ w \notin use.pool /\ execPc[w] \notin {"idle", "returned"} => fg = w
  /\ timer[w] \in {"inFlight", "cancel", "resume"} => fg = w
  /\ execPc[w] = "past" <=> cvLock = w
  /\ execPc[w] = "cancel" \/ timer[w] = "cancel" <=> svcLock = w
NotifierHolds(n) ==
  n \notin use.background /\ notifyPc[n] \in {"callback", "resume"} => fg = n
Threads == /\ \A w \in Waiters : WaiterHolds(w)
           /\ \A n \in Notifiers : NotifierHolds(n)

\* A notifier adds one token, once; without a test there are none.
TokensAreCounted ==
  /\ tokens =< Cardinality({n \in Notifiers : notifyPc[n] # "idle"})
  /\ UseTokens \/ (tokens = 0 /\ ~closed)

IInv ==
  /\ TypeOK /\ CallbacksAreTrue /\ Threads /\ TokensAreCounted /\ NoLostWakeup
  /\ \A w \in Waiters : Phase(w) /\ Data(w)

Inv == RacesNeedThreads /\ (raced = {} => IInv)
-----------------------------------------------------------------------------
(* What the steps keep. *)

\* A step of somebody else leaves v's wait, and who has v, alone.
Same(v) ==
  /\ serviceState'[v] = serviceState[v] /\ execPc'[v] = execPc[v]
  /\ timer'[v] = timer[v] /\ posted'[v] = posted[v] /\ outcome'[v] = outcome[v]
  /\ exceptionPtr'[v] = exceptionPtr[v] /\ hasTimeout'[v] = hasTimeout[v]
  /\ consumed'[v] = consumed[v] /\ (v \in late => v \in late')
  /\ Awaits(v)' <=> Awaits(v)
  /\ Due(v)' <=> Due(v)
  /\ Taken(v)' <=> Taken(v)

LEMMA SameKeeps ==
  ASSUME NEW v \in Waiters, use' = use, Same(v), Phase(v), Data(v)
  PROVE  Phase(v)' /\ Data(v)'
<1>1. Phase(v)'
  BY DEF Same, Phase, Suspends
<1>2. Data(v)'
  BY DEF Same, Data
<1> QED BY <1>1, <1>2

LEMMA AwaitsIsRange ==
  ASSUME awaiters \in Seq(Waiters)
  PROVE  \A v : Awaits(v) <=> v \in Range(awaiters)
  BY DEF Awaits, Range

LEMMA AwaitsIsRangeNext ==
  ASSUME awaiters' \in Seq(Waiters)
  PROVE  \A v : Awaits(v)' <=> v \in Range(awaiters')
  BY DEF Awaits, Range

\* What a notifier's list of callbacks consists of.
Pending == [waiter : Waiters, fails : BOOLEAN]

LEMMA PendingTypes ==
  ASSUME TypeOK, NEW n \in Notifiers
  PROVE  /\ callbacks[n] \in Seq(Pending)
         /\ \A i \in DOMAIN callbacks[n] : /\ callbacks[n][i] \in Pending
                                           /\ callbacks[n][i].waiter \in Waiters
                                           /\ callbacks[n][i].fails \in BOOLEAN
<1>1. callbacks[n] \in Seq(Pending)
  BY DEF TypeOK, Pending
<1>2. \A i \in DOMAIN callbacks[n] : callbacks[n][i] \in Pending
  BY <1>1
<1>3. \A p \in Pending : p.waiter \in Waiters /\ p.fails \in BOOLEAN
  BY DEF Pending
<1> QED BY <1>1, <1>2, <1>3

\* Who has a callback to be made, has the waiter.
LEMMA CalledBackIsHeld ==
  ASSUME CallbacksAreTrue, NEW n \in Notifiers, NEW i \in DOMAIN callbacks[n],
         NEW v, callbacks[n][i].waiter = v
  PROVE  /\ Due(v) \/ Taken(v)
         /\ notifyPc[n] # "resume" => Due(v)
         /\ ~Awaits(v) /\ callbacks[n][i].fails = ~consumed[v]
<1>1. ~Due(v) => i = 1 /\ notifyPc[n] = "resume"
  BY DEF Due
<1> QED BY <1>1 DEF Taken, CallbacksAreTrue

\* A step that does nothing to the lists, and nothing to a test of one who is called
\* back.
LEMMA ListsKept ==
  ASSUME TypeOK, CallbacksAreTrue, UNCHANGED <<awaiters, callbacks, notifyPc>>,
         \A v \in Waiters : Due(v) \/ Taken(v) => consumed'[v] = consumed[v]
  PROVE  /\ \A v \in Waiters : /\ Awaits(v)' <=> Awaits(v)
                               /\ Due(v)' <=> Due(v)
                               /\ Taken(v)' <=> Taken(v)
         /\ CallbacksAreTrue'
<1>1. \A v \in Waiters : /\ Awaits(v)' <=> Awaits(v)
                         /\ Due(v)' <=> Due(v)
                         /\ Taken(v)' <=> Taken(v)
  BY DEF Awaits, Due, Taken
<1>2. ASSUME NEW n \in Notifiers, NEW i \in DOMAIN callbacks[n]
      PROVE  /\ ~Awaits(callbacks[n][i].waiter)'
             /\ callbacks[n][i].fails = ~consumed'[callbacks[n][i].waiter]
  <2> DEFINE v == callbacks[n][i].waiter
  <2>1. v \in Waiters
    BY PendingTypes
  <2>2. /\ Due(v) \/ Taken(v)
        /\ ~Awaits(v) /\ callbacks[n][i].fails = ~consumed[v]
    BY CalledBackIsHeld
  <2> QED BY <1>1, <2>1, <2>2
<1>3. CallbacksAreTrue'
  BY <1>2 DEF CallbacksAreTrue
<1> QED BY <1>1, <1>3
\* What is needed of a step of w's, and what it gives.
LEMMA OneMoves ==
  ASSUME IInv, NEW w \in Waiters, use' = use,
         \A v \in Waiters \ {w} : Same(v),
         Phase(w)', Data(w)',
         TypeOK', CallbacksAreTrue', Threads', TokensAreCounted', NoLostWakeup'
  PROVE  IInv'
<1>1. ASSUME NEW v \in Waiters PROVE Phase(v)' /\ Data(v)'
  <2>1. CASE v = w
    BY <2>1
  <2>2. CASE v # w
    <3>1. Phase(v) /\ Data(v) /\ Same(v)
      BY <2>2 DEF IInv
    <3> QED BY <3>1, SameKeeps
  <2> QED BY <2>1, <2>2
<1> QED BY <1>1 DEF IInv

\* A step that changes nothing of the condition variable's.
LEMMA CvKept ==
  ASSUME IInv, UNCHANGED <<cvVars, callbacks, notifyPc>>
  PROVE  /\ \A v \in Waiters : /\ Awaits(v)' <=> Awaits(v)
                               /\ Due(v)' <=> Due(v)
                               /\ Taken(v)' <=> Taken(v)
         /\ CallbacksAreTrue' /\ TokensAreCounted' /\ NoLostWakeup'
<1>1. /\ \A v \in Waiters : /\ Awaits(v)' <=> Awaits(v)
                            /\ Due(v)' <=> Due(v)
                            /\ Taken(v)' <=> Taken(v)
      /\ CallbacksAreTrue'
  BY ListsKept DEF IInv, cvVars
<1>2. TokensAreCounted'
  BY DEF IInv, cvVars, TokensAreCounted, UseTokens
<1>3. NoLostWakeup'
  BY DEF IInv, cvVars, NoLostWakeup
<1> QED BY <1>1, <1>2, <1>3

\* A step of w's that takes or frees the foreground thread, or a lock.
LEMMA WaiterTakes ==
  ASSUME IInv, NEW w \in Waiters, use' = use, notifyPc' = notifyPc,
         \A v \in Waiters \ {w} : Same(v),
         fg' = fg \/ fg \in {Nobody, w},
         \A v \in Waiters \ {w} : /\ cvLock' = v <=> cvLock = v
                                  /\ svcLock' = v <=> svcLock = v,
         WaiterHolds(w)'
  PROVE  Threads'
<1>1. ASSUME NEW v \in Waiters \ {w} PROVE WaiterHolds(v)'
  <2>1. WaiterHolds(v) /\ v # Nobody /\ v # w
    BY WaitersAssumption DEF IInv, Threads
  <2>2. /\ use' = use /\ execPc'[v] = execPc[v] /\ timer'[v] = timer[v]
        /\ cvLock' = v <=> cvLock = v
        /\ svcLock' = v <=> svcLock = v
    BY DEF Same
  <2>3. fg = v => fg' = v
    BY <2>1
  <2> QED BY <2>1, <2>2, <2>3 DEF WaiterHolds
<1>2. ASSUME NEW n \in Notifiers PROVE NotifierHolds(n)'
  <2>1. NotifierHolds(n) /\ n # Nobody /\ n # w
    BY WaitersAssumption DEF IInv, Threads
  <2> QED BY <2>1 DEF NotifierHolds
<1> QED BY <1>1, <1>2 DEF Threads

LEMMA AwaitSuspendKeeps ==
  ASSUME IInv, raced' = {}, NEW w \in Waiters, AwaitSuspend(w)
  PROVE  IInv'
<1>1. TypeOK
  BY DEF IInv
<1>2. /\ serviceState[w] = "Idle" /\ (w \in use.pool \/ fg = Nobody)
      /\ fg' = IF w \in use.pool THEN fg ELSE w
      /\ serviceState' = [serviceState EXCEPT ![w] = "Executing"]
      /\ execPc' = [execPc EXCEPT ![w] = "execute"]
      /\ UNCHANGED <<hasTimeout, exceptionPtr, timer, posted, outcome, late, cvVars, notifyPc,
                     callbacks, cvLock, svcLock>>
  BY DEF AwaitSuspend, HomeIsFree, EnterHome, PoolWaiters, history
<1>3. TypeOK'
  BY <1>1, <1>2 DEF TypeOK, ServiceState, ExecPc, cvVars
<1>4. /\ \A v \in Waiters : /\ Awaits(v)' <=> Awaits(v)
                            /\ Due(v)' <=> Due(v)
                            /\ Taken(v)' <=> Taken(v)
      /\ CallbacksAreTrue' /\ TokensAreCounted' /\ NoLostWakeup' /\ use' = use
  BY <1>2, CvKept DEF cvVars
<1>5. \A v \in Waiters \ {w} : Same(v)
  BY <1>1, <1>2, <1>4 DEF Same, TypeOK, cvVars
<1>6. Phase(w) /\ Data(w)
  BY DEF IInv
<1>7. execPc'[w] = "execute" /\ serviceState'[w] = "Executing"
  BY <1>1, <1>2 DEF TypeOK
<1>8. Phase(w)'
  BY <1>2, <1>4, <1>6, <1>7 DEF Phase, Suspends, ExecOf, TimerOf, HasResult
<1>9. Data(w)'
  BY <1>2, <1>4, <1>6, <1>7 DEF Data, HasResult, Phase, HasResult, TimerOf, cvVars
<1>10. Threads'
  <2>1. WaiterHolds(w) /\ timer'[w] = timer[w]
    BY <1>2 DEF IInv, Threads
  <2>2. /\ w \in use.pool \/ fg' = w
        /\ execPc[w] \notin {"past", "cancel"} /\ execPc'[w] \notin {"past", "cancel"}
    BY <1>2, <1>6, <1>7 DEF Phase, ExecOf
  <2>3. WaiterHolds(w)'
    BY <1>2, <1>4, <2>1, <2>2 DEF WaiterHolds
  <2> QED BY <1>2, <1>4, <1>5, <2>3, WaiterTakes
<1> QED BY <1>3, <1>4, <1>5, <1>8, <1>9, <1>10, OneMoves
LEMMA ExecuteDoneKeeps ==
  ASSUME IInv, raced' = {}, NEW w \in Waiters, ExecuteDone(w)
  PROVE  IInv'
<1>1. TypeOK /\ Phase(w) /\ Data(w) /\ WaiterHolds(w)
  BY DEF IInv, Threads
<1> DEFINE yes == ExecuteResult = "yes"
<1>2. /\ execPc[w] = "execute" /\ ExecuteResult # "no"
      /\ execPc' = [execPc EXCEPT ![w] = IF yes THEN "complete" ELSE "fail"]
      /\ ready' = FALSE
      /\ tokens' = IF yes /\ UseTokens THEN tokens - 1 ELSE tokens
      /\ consumed' = [consumed EXCEPT ![w] = yes]
      /\ UNCHANGED <<serviceVars, late, awaiters, deleted, use, closed, notifyPc, callbacks,
                     cvLock, svcLock, fg>>
  BY DEF ExecuteDone, serviceVars, history
<1>3. yes \in BOOLEAN /\ (yes /\ UseTokens => tokens > 0)
  BY DEF ExecuteResult, TestResult
<1>4. awaiters = <<>>
  BY <1>2 DEF IInv, NoLostWakeup, ExecuteResult, TestResult, TokensAreCounted
<1>5. tokens \in Nat /\ tokens' \in Nat /\ tokens' =< tokens
  <2>1. tokens \in Nat
    BY <1>1, WaitersAssumption, FS_CardinalityType DEF TypeOK
  <2> QED BY <1>2, <1>3, <2>1
<1> HIDE DEF yes
<1>6. execPc'[w] = (IF yes THEN "complete" ELSE "fail") /\ consumed'[w] = yes
  BY <1>1, <1>2 DEF TypeOK
<1>7. /\ serviceState[w] = "Executing" /\ ~Suspends(w)
      /\ ~Awaits(w) /\ ~Due(w) /\ ~Taken(w)
  BY <1>1, <1>2 DEF Phase, ExecOf, Suspends
<1>8. TypeOK'
  <2>1. tokens' \in 0 .. Cardinality(Notifiers)
    BY <1>1, <1>5, WaitersAssumption, FS_CardinalityType DEF TypeOK
  <2> QED BY <1>1, <1>2, <1>3, <2>1 DEF TypeOK, ExecPc, serviceVars, history
<1>9. \A v \in Waiters \ {w} : consumed'[v] = consumed[v] /\ execPc'[v] = execPc[v]
  BY <1>1, <1>2 DEF TypeOK
<1>10. /\ \A v \in Waiters : /\ Awaits(v)' <=> Awaits(v)
                             /\ Due(v)' <=> Due(v)
                             /\ Taken(v)' <=> Taken(v)
       /\ CallbacksAreTrue'
  <2>1. \A v \in Waiters : Due(v) \/ Taken(v) => consumed'[v] = consumed[v]
    BY <1>7, <1>9
  <2> QED BY <1>1, <1>2, <2>1, ListsKept DEF IInv
<1>11. \A v \in Waiters \ {w} : Same(v)
  BY <1>2, <1>9, <1>10 DEF Same, serviceVars, history
<1>12. Phase(w)'
  BY <1>1, <1>2, <1>6, <1>7, <1>10 DEF Phase, Suspends, ExecOf, TimerOf, HasResult, serviceVars, history
<1>13. Data(w)'
  <2>1. timer[w] = "none"
    BY <1>1, <1>2 DEF Phase
  <2>2. ~hasTimeout[w] /\ ~exceptionPtr[w] /\ outcome[w] = "none"
    BY <1>1, <1>7, <2>1 DEF Data, Phase, HasResult
  <2> QED BY <1>2, <1>3, <1>6, <1>7, <1>10, <2>1, <2>2 DEF Data, HasResult, serviceVars, history
<1>14. Threads'
  <2>1. WaiterHolds(w)'
    BY <1>1, <1>2, <1>6 DEF WaiterHolds, serviceVars, history
  <2> QED BY <1>2, <1>11, <2>1, WaiterTakes
<1>15. TokensAreCounted'
  <2>1. tokens =< Cardinality({n \in Notifiers : notifyPc[n] # "idle"})
    BY DEF IInv, TokensAreCounted
  <2>2. Cardinality({n \in Notifiers : notifyPc[n] # "idle"}) \in Nat
    BY WaitersAssumption, FS_Subset, FS_CardinalityType
  <2>3. tokens' =< Cardinality({n \in Notifiers : notifyPc'[n] # "idle"})
    BY <1>2, <1>5, <2>1, <2>2
  <2>4. UseTokens' \/ (tokens' = 0 /\ ~closed')
    BY <1>2 DEF IInv, TokensAreCounted, UseTokens
  <2> QED BY <2>3, <2>4 DEF TokensAreCounted
<1>16. NoLostWakeup'
  BY <1>2, <1>4 DEF NoLostWakeup
<1> QED BY <1>2, <1>8, <1>10, <1>11, <1>12, <1>13, <1>14, <1>15, <1>16, OneMoves

LEMMA ExecutePastTimeoutKeeps ==
  ASSUME IInv, raced' = {}, NEW w \in Waiters, ExecutePastTimeout(w)
  PROVE  IInv'
<1>1. TypeOK /\ Phase(w) /\ Data(w) /\ WaiterHolds(w)
  BY DEF IInv, Threads
<1>2. /\ execPc[w] = "past" /\ serviceState[w] = "Executing"
      /\ UNCHANGED <<exceptionPtr, timer, posted, outcome, late, cvVars, notifyPc, callbacks,
                     svcLock, fg>>
      /\ cvLock' = Nobody
      /\ execPc' = [execPc EXCEPT ![w] = "executed"]
  BY <1>1 DEF ExecutePastTimeout, Phase, ExecOf, HasResult, history
<1>3. /\ serviceState' = [serviceState EXCEPT ![w] = "ExecutingTimedOut"]
      /\ hasTimeout' = [hasTimeout EXCEPT ![w] = TRUE]
  BY <1>1, <1>2 DEF ExecutePastTimeout, AfterOnTimedOut, TimedOutMarksTimeout
<1>4. TypeOK'
  BY <1>1, <1>2, <1>3 DEF TypeOK, ServiceState, ExecPc, cvVars
<1>5. /\ \A v \in Waiters : /\ Awaits(v)' <=> Awaits(v)
                            /\ Due(v)' <=> Due(v)
                            /\ Taken(v)' <=> Taken(v)
      /\ CallbacksAreTrue' /\ TokensAreCounted' /\ NoLostWakeup' /\ use' = use
  BY <1>2, CvKept DEF cvVars
<1>6. \A v \in Waiters \ {w} : Same(v)
  BY <1>1, <1>2, <1>3, <1>5 DEF Same, TypeOK, cvVars
<1>7. /\ execPc'[w] = "executed" /\ serviceState'[w] = "ExecutingTimedOut"
      /\ hasTimeout'[w] = TRUE
  BY <1>1, <1>2, <1>3 DEF TypeOK
<1>8. Phase(w)'
  BY <1>1, <1>2, <1>5, <1>7 DEF Phase, Suspends, ExecOf, TimerOf, HasResult
<1>9. Data(w)'
  BY <1>1, <1>2, <1>5, <1>7 DEF Phase, HasResult, Data, cvVars
<1>10. Threads'
  <2>1. cvLock = w /\ w # Nobody /\ \A v \in Waiters : v # Nobody
    BY <1>1, <1>2, WaitersAssumption DEF WaiterHolds
  <2>2. WaiterHolds(w)'
    BY <1>1, <1>2, <1>5, <1>7, <2>1 DEF WaiterHolds
  <2> QED BY <1>2, <1>5, <1>6, <2>1, <2>2, WaiterTakes
<1> QED BY <1>4, <1>5, <1>6, <1>8, <1>9, <1>10, OneMoves

LEMMA ExecuteCallbackKeeps ==
  ASSUME IInv, raced' = {}, NEW w \in Waiters, ExecuteCallback(w)
  PROVE  IInv'
<1>1. TypeOK /\ Phase(w) /\ Data(w) /\ WaiterHolds(w)
  BY DEF IInv, Threads
<1>2. /\ execPc[w] \in {"complete", "fail"} /\ serviceState[w] = "Executing"
      /\ ~Suspends(w) /\ posted[w] = 0
      /\ execPc' = [execPc EXCEPT ![w] = "executed"]
      /\ UNCHANGED <<posted, outcome, late, cvVars, notifyPc, callbacks, cvLock, svcLock, fg>>
  BY <1>1 DEF ExecuteCallback, Callback, Phase, ExecOf, Suspends, HasResult
<1>3. serviceState' = [serviceState EXCEPT ![w] = "ExecutingResumed"]
  BY <1>2 DEF ExecuteCallback, Callback, AfterCallback, AfterOnResume
<1>4. timer' = timer
  BY <1>1, <1>2 DEF ExecuteCallback, Callback, CancelTimeout, ResumeCancelsTimeout, TypeOK
<1> DEFINE throws == exceptionPtr[w] \/ execPc[w] = "fail"
<1>5. exceptionPtr' = [exceptionPtr EXCEPT ![w] = throws]
  BY DEF ExecuteCallback, Callback, HasException
<1>6. hasTimeout' = hasTimeout
  BY <1>1, <1>2 DEF ExecuteCallback, Callback, ResumeClearsTimeout, TypeOK
<1>7. throws \in BOOLEAN /\ (throws <=> exceptionPtr[w] \/ execPc[w] = "fail")
  BY <1>1 DEF TypeOK
<1> HIDE DEF throws
<1>8. TypeOK'
  BY <1>1, <1>2, <1>3, <1>4, <1>5, <1>6, <1>7 DEF TypeOK, ServiceState, ExecPc, cvVars
<1>9. /\ \A v \in Waiters : /\ Awaits(v)' <=> Awaits(v)
                            /\ Due(v)' <=> Due(v)
                            /\ Taken(v)' <=> Taken(v)
      /\ CallbacksAreTrue' /\ TokensAreCounted' /\ NoLostWakeup' /\ use' = use
  BY <1>2, CvKept DEF cvVars
<1>10. \A v \in Waiters \ {w} : Same(v)
  BY <1>1, <1>2, <1>3, <1>4, <1>5, <1>6, <1>9 DEF Same, TypeOK, cvVars
<1>11. /\ execPc'[w] = "executed" /\ serviceState'[w] = "ExecutingResumed"
       /\ exceptionPtr'[w] = throws
  BY <1>1, <1>2, <1>3, <1>5 DEF TypeOK
<1>12. Phase(w)'
  BY <1>1, <1>2, <1>4, <1>6, <1>9, <1>11 DEF Phase, Suspends, ExecOf, TimerOf, HasResult
<1>13. Data(w)'
  BY <1>1, <1>2, <1>4, <1>6, <1>7, <1>9, <1>11 DEF Data, HasResult, cvVars
<1>14. Threads'
  <2>1. WaiterHolds(w)'
    BY <1>1, <1>2, <1>4, <1>9, <1>11 DEF WaiterHolds
  <2> QED BY <1>2, <1>9, <1>10, <2>1, WaiterTakes
<1> QED BY <1>8, <1>9, <1>10, <1>12, <1>13, <1>14, OneMoves
LEMMA OnExecutedKeeps ==
  ASSUME IInv, raced' = {}, NEW w \in Waiters, OnExecuted(w)
  PROVE  IInv'
<1>1. TypeOK /\ Phase(w) /\ Data(w) /\ WaiterHolds(w)
  BY DEF IInv, Threads
<1>2. /\ execPc[w] = "executed" /\ svcLock = Nobody /\ posted[w] = 0
      /\ serviceState[w] \in {"Executing", "ExecutingTimedOut", "ExecutingResumed",
                              "ExecutingTimedOutAndResumed"}
      /\ UNCHANGED <<hasTimeout, exceptionPtr, posted, outcome, late, cvVars, notifyPc,
                     callbacks, cvLock>>
  BY <1>1 DEF OnExecuted, Phase, ExecOf, HasResult
<1>3. /\ \A v \in Waiters : /\ Awaits(v)' <=> Awaits(v)
                            /\ Due(v)' <=> Due(v)
                            /\ Taken(v)' <=> Taken(v)
      /\ CallbacksAreTrue' /\ TokensAreCounted' /\ NoLostWakeup' /\ use' = use
  BY <1>2, CvKept DEF cvVars
<1>4. w # Nobody /\ \A v \in Waiters : v # Nobody
  BY WaitersAssumption
<1>5. CASE serviceState[w] = "ExecutingTimedOut"
  <2>1. Awaits(w) /\ Suspends(w)
    BY <1>5 DEF OnExecuted, Cancelled, ExecutedCancelsResume, Suspends
  <2>2. /\ svcLock' = w /\ execPc' = [execPc EXCEPT ![w] = "cancel"]
        /\ UNCHANGED <<serviceState, timer, fg>>
    BY <1>5, <2>1 DEF OnExecuted, ExecutedCancelsResume, CancelNeedsMutex
  <2>3. TypeOK' /\ execPc'[w] = "cancel"
    BY <1>1, <1>2, <2>2 DEF TypeOK, ExecPc, cvVars
  <2>4. \A v \in Waiters \ {w} : Same(v)
    BY <1>1, <1>2, <1>3, <2>2 DEF Same, TypeOK, cvVars
  <2>5. Phase(w)'
    BY <1>1, <1>2, <1>3, <1>5, <2>1, <2>2, <2>3 DEF Phase, Suspends, ExecOf, TimerOf, HasResult
  <2>6. Data(w)'
    BY <1>1, <1>2, <1>3, <1>5, <2>2, <2>3 DEF Data, HasResult, cvVars
  <2>7. Threads'
    <3>1. WaiterHolds(w)'
      BY <1>1, <1>2, <1>3, <2>1, <2>2, <2>3 DEF WaiterHolds
    <3> QED BY <1>2, <1>3, <1>4, <2>2, <2>4, <3>1, WaiterTakes
  <2> QED BY <1>3, <2>3, <2>4, <2>5, <2>6, <2>7, OneMoves
<1>6. CASE serviceState[w] = "Executing" \/ (serviceState[w] = "ExecutingResumed" /\ timer[w] = "inFlight")
  <2> DEFINE next == IF serviceState[w] = "Executing" THEN "Executed" ELSE "ResumedTimeoutInFlight"
  <2>1. /\ serviceState' = [serviceState EXCEPT ![w] = next]
        /\ execPc' = [execPc EXCEPT ![w] = "returned"]
        /\ fg' = IF w \in use.pool THEN fg ELSE Nobody
        /\ svcLock' = svcLock
    BY <1>2, <1>6 DEF OnExecuted, ExecutedCancelsResume, AfterOnExecuted, LeaveHome,
                      PoolWaiters, TimeoutIsCancelled
  <2>2. timer' = timer
    BY <1>1, <1>2, <1>6 DEF OnExecuted, ExecutedCancelsResume, ExecutedCancelsTimeout,
                            CancelTimeout, TypeOK
  <2>3. TypeOK' /\ execPc'[w] = "returned" /\ serviceState'[w] = next
    BY <1>1, <1>2, <2>1, <2>2 DEF TypeOK, ExecPc, ServiceState, cvVars
  <2>4. \A v \in Waiters \ {w} : Same(v)
    BY <1>1, <1>2, <1>3, <2>1, <2>2 DEF Same, TypeOK, cvVars
  <2>5. Suspends(w) <=> serviceState[w] = "Executing"
    BY <1>2, <1>6 DEF Suspends
  <2>6. Phase(w)'
    BY <1>1, <1>2, <1>3, <1>6, <2>2, <2>3, <2>5 DEF Phase, Suspends, ExecOf, TimerOf, HasResult
  <2>7. Data(w)'
    BY <1>1, <1>2, <1>3, <1>6, <2>2, <2>3 DEF Data, Phase, TimerOf, HasResult, cvVars
  <2>8. Threads'
    <3>1. timer[w] \notin {"cancel", "resume"} /\ (timer[w] = "inFlight" => w \in use.pool)
      BY <1>1, <1>2, <1>6 DEF Phase, TimerOf
    <3>2. WaiterHolds(w)'
      BY <1>1, <1>2, <1>3, <2>1, <2>2, <2>3, <3>1 DEF WaiterHolds
    <3>3. fg' = fg \/ fg \in {Nobody, w}
      BY <1>1, <1>2, <2>1 DEF WaiterHolds
    <3> QED BY <1>2, <1>3, <1>4, <2>1, <2>4, <3>2, <3>3, WaiterTakes
  <2> QED BY <1>3, <2>3, <2>4, <2>6, <2>7, <2>8, OneMoves
<1>7. CASE \/ serviceState[w] = "ExecutingTimedOutAndResumed"
           \/ serviceState[w] = "ExecutingResumed" /\ timer[w] # "inFlight"
  <2>1. timer[w] \in {"none", "queued", "gone"} /\ ~Suspends(w)
    BY <1>1, <1>2, <1>7 DEF Phase, Suspends, TimerOf
  <2>2. /\ serviceState' = [serviceState EXCEPT ![w] = "Resuming"]
        /\ execPc' = [execPc EXCEPT ![w] = "resume"]
        /\ fg' = fg /\ svcLock' = svcLock
    <3>1. serviceState[w] = "ExecutingResumed" => TimeoutIsCancelled(w)
      BY <1>1, <1>7 DEF Phase, TimerOf, TimeoutIsCancelled
    <3> QED BY <1>2, <1>7, <3>1 DEF OnExecuted, ExecutedCancelsResume, AfterOnExecuted
  <2>3. /\ timer' \in [Waiters -> Timer] /\ timer'[w] \in {"none", "gone"}
        /\ timer[w] = "none" => timer'[w] = "none"
        /\ \A v \in Waiters \ {w} : timer'[v] = timer[v]
    <3>1. CASE serviceState[w] = "ExecutingResumed"
      <4>1. timer[w] \in {"none", "queued"}
        BY <1>1, <1>7, <3>1 DEF Phase, TimerOf
      <4>2. timer' = [timer EXCEPT ![w] = IF timer[w] = "queued" THEN "gone" ELSE @]
        BY <3>1 DEF OnExecuted, ExecutedCancelsResume, ExecutedCancelsTimeout, CancelTimeout
      <4> QED BY <1>1, <4>1, <4>2 DEF TypeOK, Timer
    <3>2. CASE serviceState[w] = "ExecutingTimedOutAndResumed"
      <4>1. timer[w] \in {"none", "gone"}
        BY <1>1, <3>2 DEF Phase, TimerOf
      <4>2. timer' = timer
        BY <1>1, <3>2 DEF OnExecuted, ExecutedCancelsResume, ExecutedCancelsTimeout,
                          CancelTimeout, TypeOK
      <4> QED BY <1>1, <4>1, <4>2 DEF TypeOK
    <3> QED BY <1>7, <3>1, <3>2
  <2>4. TypeOK' /\ execPc'[w] = "resume" /\ serviceState'[w] = "Resuming"
    BY <1>1, <1>2, <2>2, <2>3 DEF TypeOK, ExecPc, ServiceState, cvVars
  <2>5. \A v \in Waiters \ {w} : Same(v)
    BY <1>1, <1>2, <1>3, <2>2, <2>3 DEF Same, TypeOK, cvVars
  <2>6. Phase(w)'
    BY <1>1, <1>2, <1>3, <1>7, <2>1, <2>3, <2>4 DEF Phase, Suspends, ExecOf, TimerOf, HasResult
  <2>7. Data(w)'
    BY <1>1, <1>2, <1>3, <1>7, <2>1, <2>3, <2>4 DEF Data, HasResult, cvVars
  <2>8. Threads'
    <3>1. WaiterHolds(w)'
      BY <1>1, <1>2, <1>3, <2>1, <2>2, <2>3, <2>4 DEF WaiterHolds
    <3> QED BY <1>2, <1>3, <2>2, <2>5, <3>1, WaiterTakes
  <2> QED BY <1>3, <2>4, <2>5, <2>6, <2>7, <2>8, OneMoves
<1> QED BY <1>2, <1>5, <1>6, <1>7

LEMMA ExecResumeKeeps ==
  ASSUME IInv, raced' = {}, NEW w \in Waiters, ExecResume(w)
  PROVE  IInv'
<1>1. TypeOK /\ Phase(w) /\ Data(w) /\ WaiterHolds(w)
  BY DEF IInv, Threads
<1>2. /\ execPc[w] = "resume" /\ serviceState[w] = "Resuming" /\ posted[w] = 0
      /\ timer[w] \in {"none", "gone"} /\ ~Suspends(w)
  BY <1>1 DEF ExecResume, Phase, ExecOf, Suspends, TimerOf, HasResult
<1>3. /\ serviceState' = [serviceState EXCEPT ![w] = "Resumed"]
      /\ posted' = [posted EXCEPT ![w] = 1]
      /\ execPc' = [execPc EXCEPT ![w] = "returned"]
      /\ fg' = IF w \in use.pool THEN fg ELSE Nobody
      /\ UNCHANGED <<hasTimeout, exceptionPtr, outcome, late, timer, cvVars, notifyPc, callbacks,
                     cvLock, svcLock>>
  <2>1. posted' = [posted EXCEPT ![w] = posted[w] + 1]
    BY <1>1, <1>2 DEF ExecResume, Resume, TypeOK
  <2> QED BY <1>2, <2>1 DEF ExecResume, Resume, AfterResume, LeaveHome, PoolWaiters, history
<1>4. /\ \A v \in Waiters : /\ Awaits(v)' <=> Awaits(v)
                            /\ Due(v)' <=> Due(v)
                            /\ Taken(v)' <=> Taken(v)
      /\ CallbacksAreTrue' /\ TokensAreCounted' /\ NoLostWakeup' /\ use' = use
  BY <1>3, CvKept DEF cvVars
<1>5. /\ TypeOK' /\ execPc'[w] = "returned" /\ serviceState'[w] = "Resumed"
      /\ posted'[w] = 1
  BY <1>1, <1>3 DEF TypeOK, ExecPc, ServiceState, cvVars
<1>6. \A v \in Waiters \ {w} : Same(v)
  BY <1>1, <1>3, <1>4 DEF Same, TypeOK, cvVars
<1>7. Phase(w)'
  BY <1>1, <1>2, <1>3, <1>4, <1>5 DEF Phase, Suspends, ExecOf, TimerOf, HasResult
<1>8. Data(w)'
  BY <1>1, <1>2, <1>3, <1>4, <1>5 DEF Data, HasResult, cvVars
<1>9. Threads'
  <2>1. WaiterHolds(w)'
    BY <1>1, <1>2, <1>3, <1>4, <1>5 DEF WaiterHolds
  <2>2. fg' = fg \/ fg \in {Nobody, w}
    BY <1>1, <1>2, <1>3 DEF WaiterHolds
  <2> QED BY <1>3, <1>4, <1>6, <2>1, <2>2, WaiterTakes
<1> QED BY <1>4, <1>5, <1>6, <1>7, <1>8, <1>9, OneMoves
LEMMA PopTimerKeeps ==
  ASSUME IInv, raced' = {}, NEW w \in Waiters, PopTimer(w)
  PROVE  IInv'
<1>1. TypeOK /\ Phase(w) /\ Data(w) /\ WaiterHolds(w)
  BY DEF IInv, Threads
<1>2. /\ timer[w] = "queued" /\ fg = Nobody /\ fg' = w
      /\ timer' = [timer EXCEPT ![w] = "inFlight"]
      /\ UNCHANGED <<serviceState, hasTimeout, exceptionPtr, posted, outcome, late, execPc, cvVars,
                     notifyPc, callbacks, cvLock, svcLock>>
  BY DEF PopTimer, history
<1>3. /\ execPc[w] # "returned" => w \in use.pool
      /\ serviceState[w] \in {"Executing", "ExecutingResumed", "Executed"}
  BY <1>1, <1>2, WaitersAssumption DEF WaiterHolds, Phase, ExecOf, TimerOf, HasResult
<1>4. /\ \A v \in Waiters : /\ Awaits(v)' <=> Awaits(v)
                            /\ Due(v)' <=> Due(v)
                            /\ Taken(v)' <=> Taken(v)
      /\ CallbacksAreTrue' /\ TokensAreCounted' /\ NoLostWakeup' /\ use' = use
  BY <1>2, CvKept DEF cvVars
<1>5. TypeOK' /\ timer'[w] = "inFlight"
  BY <1>1, <1>2 DEF TypeOK, Timer, cvVars
<1>6. \A v \in Waiters \ {w} : Same(v)
  BY <1>1, <1>2, <1>4 DEF Same, TypeOK, cvVars
<1>7. Phase(w)'
  BY <1>1, <1>2, <1>3, <1>4, <1>5 DEF Phase, Suspends, ExecOf, TimerOf, HasResult
<1>8. Data(w)'
  BY <1>1, <1>2, <1>3, <1>4, <1>5 DEF Data, HasResult, cvVars
<1>9. Threads'
  <2>1. WaiterHolds(w)'
    BY <1>1, <1>2, <1>3, <1>4, <1>5 DEF WaiterHolds
  <2> QED BY <1>2, <1>4, <1>6, <2>1, WaiterTakes
<1> QED BY <1>4, <1>5, <1>6, <1>7, <1>8, <1>9, OneMoves

LEMMA OnTimedOutKeeps ==
  ASSUME IInv, raced' = {}, NEW w \in Waiters, OnTimedOut(w)
  PROVE  IInv'
<1>1. TypeOK /\ Phase(w) /\ Data(w) /\ WaiterHolds(w)
  BY DEF IInv, Threads
<1>2. /\ timer[w] = "inFlight" /\ svcLock = Nobody /\ fg = w /\ posted[w] = 0
      /\ serviceState[w] \in {"Executing", "ExecutingResumed", "Executed",
                              "ResumedTimeoutInFlight"}
      /\ UNCHANGED <<exceptionPtr, posted, outcome, late, execPc, cvVars, notifyPc,
                     callbacks, cvLock>>
  BY <1>1 DEF OnTimedOut, Phase, TimerOf, HasResult, WaiterHolds
<1>3. /\ \A v \in Waiters : /\ Awaits(v)' <=> Awaits(v)
                            /\ Due(v)' <=> Due(v)
                            /\ Taken(v)' <=> Taken(v)
      /\ CallbacksAreTrue' /\ TokensAreCounted' /\ NoLostWakeup' /\ use' = use
  BY <1>2, CvKept DEF cvVars
<1>4. w # Nobody /\ \A v \in Waiters : v # Nobody
  BY WaitersAssumption
<1>5. CASE serviceState[w] = "Executed"
  <2>1. Awaits(w) /\ execPc[w] = "returned" /\ Suspends(w)
    BY <1>1, <1>5 DEF OnTimedOut, Cancelled, TimedOutCancelsResume, Phase, ExecOf, Suspends
  <2>2. /\ hasTimeout' = [hasTimeout EXCEPT ![w] = TRUE]
        /\ timer' = [timer EXCEPT ![w] = "cancel"]
        /\ svcLock' = w
        /\ UNCHANGED <<serviceState, fg>>
    BY <1>1, <1>5, <2>1 DEF OnTimedOut, TimedOutMarksTimeout, TimedOutCancelsResume,
                            CancelNeedsMutex
  <2>3. TypeOK' /\ timer'[w] = "cancel" /\ hasTimeout'[w] = TRUE
    BY <1>1, <1>2, <2>2 DEF TypeOK, Timer, cvVars
  <2>4. \A v \in Waiters \ {w} : Same(v)
    BY <1>1, <1>2, <1>3, <2>2 DEF Same, TypeOK, cvVars
  <2>5. Phase(w)'
    BY <1>1, <1>2, <1>3, <1>5, <2>1, <2>2, <2>3 DEF Phase, Suspends, ExecOf, TimerOf, HasResult
  <2>6. Data(w)'
    <3>1. ~consumed[w] /\ ~exceptionPtr[w] /\ outcome[w] = "none"
      BY <1>1, <1>2, <1>5, <2>1 DEF Data, HasResult
    <3> QED BY <1>2, <1>5, <2>1, <2>2, <2>3, <3>1 DEF Data, HasResult, cvVars
  <2>7. Threads'
    <3>1. WaiterHolds(w)'
      BY <1>1, <1>2, <1>3, <2>1, <2>2, <2>3 DEF WaiterHolds
    <3> QED BY <1>2, <1>3, <1>4, <2>2, <2>4, <3>1, WaiterTakes
  <2> QED BY <1>3, <2>3, <2>4, <2>5, <2>6, <2>7, OneMoves
<1>6. CASE serviceState[w] # "Executed"
  <2> DEFINE next == CASE serviceState[w] = "Executing"        -> "ExecutingTimedOut"
                       [] serviceState[w] = "ExecutingResumed" -> "ExecutingTimedOutAndResumed"
                       [] OTHER                                -> "Resuming"
             late2 == IF next = "Resuming" THEN "resume" ELSE "gone"
  <2>1. /\ AfterOnTimedOut(serviceState[w], TRUE) = next
        /\ ~TimedOutCancelsResume(serviceState[w])
    BY <1>2, <1>6 DEF AfterOnTimedOut, TimedOutCancelsResume
  <2>2. /\ serviceState' = [serviceState EXCEPT ![w] = next]
        /\ timer' = [timer EXCEPT ![w] = late2]
        /\ fg' = IF next = "Resuming" THEN fg ELSE Nobody
        /\ svcLock' = svcLock
    BY <2>1 DEF OnTimedOut
  <2>3. hasTimeout' = [hasTimeout EXCEPT ![w] = hasTimeout[w] \/ serviceState[w] = "Executing"]
    BY <1>2, <1>6 DEF OnTimedOut, TimedOutMarksTimeout
  <2>4. /\ TypeOK' /\ timer'[w] = late2 /\ serviceState'[w] = next
        /\ hasTimeout'[w] = (hasTimeout[w] \/ serviceState[w] = "Executing")
    <3>1. late2 \in Timer /\ next \in ServiceState /\ fg' \in Waiters \cup Notifiers \cup {Nobody}
      BY <1>1, <1>2, <1>6, <2>2 DEF Timer, ServiceState, TypeOK
    <3>2. hasTimeout' \in [Waiters -> BOOLEAN]
      BY <1>1, <2>3 DEF TypeOK
    <3> HIDE DEF next, late2
    <3> QED BY <1>1, <1>2, <2>2, <2>3, <3>1, <3>2 DEF TypeOK, cvVars
  <2>5. \A v \in Waiters \ {w} : Same(v)
    BY <1>1, <1>2, <1>3, <2>2, <2>3 DEF Same, TypeOK, cvVars
  <2>6. /\ w \in use.timed
        /\ serviceState[w] # "ResumedTimeoutInFlight" => execPc[w] = "executed"
        /\ serviceState[w] = "ResumedTimeoutInFlight" => execPc[w] = "returned" /\ ~Suspends(w)
        /\ serviceState[w] = "Executing" => Suspends(w)
    BY <1>1, <1>2, <1>6 DEF Phase, ExecOf, HasResult, Suspends
  <2>7. Phase(w)'
    BY <1>1, <1>2, <1>3, <1>6, <2>4, <2>6 DEF Phase, Suspends, ExecOf, TimerOf, HasResult
  <2>8. Data(w)'
    <3>1. ~hasTimeout[w] /\ outcome[w] = "none"
      BY <1>1, <1>2, <1>6 DEF Data
    <3>2. serviceState[w] = "Executing" => ~exceptionPtr[w] /\ (consumed[w] => Due(w))
      BY <1>1, <1>2, <2>6 DEF Data, Phase, HasResult
    <3> QED BY <1>1, <1>2, <1>3, <1>6, <2>4, <3>1, <3>2 DEF Data, HasResult, cvVars
  <2>9. Threads'
    <3>1. w \in use.pool \/ execPc[w] = "returned"
      BY <1>1, <1>2 DEF Phase
    <3>2. WaiterHolds(w)'
      BY <1>1, <1>2, <1>3, <1>6, <2>2, <2>4, <2>6, <3>1 DEF WaiterHolds
    <3> QED BY <1>2, <1>3, <1>4, <2>2, <2>5, <3>2, WaiterTakes
  <2> QED BY <1>3, <2>4, <2>5, <2>7, <2>8, <2>9, OneMoves
<1> QED BY <1>5, <1>6

LEMMA TimerResumeKeeps ==
  ASSUME IInv, raced' = {}, NEW w \in Waiters, TimerResume(w)
  PROVE  IInv'
<1>1. TypeOK /\ Phase(w) /\ Data(w) /\ WaiterHolds(w)
  BY DEF IInv, Threads
<1>2. /\ timer[w] = "resume" /\ serviceState[w] = "Resuming" /\ posted[w] = 0
      /\ execPc[w] = "returned" /\ ~Suspends(w) /\ ~Taken(w)
  BY <1>1 DEF TimerResume, Phase, Suspends, TimerOf, HasResult
<1>3. /\ serviceState' = [serviceState EXCEPT ![w] = "Resumed"]
      /\ posted' = [posted EXCEPT ![w] = 1]
      /\ timer' = [timer EXCEPT ![w] = "gone"]
      /\ fg' = Nobody
      /\ UNCHANGED <<hasTimeout, exceptionPtr, outcome, late, execPc, cvVars, notifyPc, callbacks,
                     cvLock, svcLock>>
  <2>1. posted' = [posted EXCEPT ![w] = posted[w] + 1]
    BY <1>1, <1>2 DEF TimerResume, Resume, TypeOK
  <2> QED BY <1>2, <2>1 DEF TimerResume, Resume, AfterResume, history
<1>4. /\ \A v \in Waiters : /\ Awaits(v)' <=> Awaits(v)
                            /\ Due(v)' <=> Due(v)
                            /\ Taken(v)' <=> Taken(v)
      /\ CallbacksAreTrue' /\ TokensAreCounted' /\ NoLostWakeup' /\ use' = use
  BY <1>3, CvKept DEF cvVars
<1>5. /\ TypeOK' /\ timer'[w] = "gone" /\ serviceState'[w] = "Resumed"
      /\ posted'[w] = 1
  BY <1>1, <1>3 DEF TypeOK, Timer, ServiceState, cvVars
<1>6. \A v \in Waiters \ {w} : Same(v)
  BY <1>1, <1>3, <1>4 DEF Same, TypeOK, cvVars
<1>7. Phase(w)'
  BY <1>1, <1>2, <1>3, <1>4, <1>5 DEF Phase, Suspends, ExecOf, TimerOf, HasResult
<1>8. Data(w)'
  BY <1>1, <1>2, <1>3, <1>4, <1>5 DEF Data, HasResult, cvVars
<1>9. Threads'
  <2>1. WaiterHolds(w)' /\ fg = w
    BY <1>1, <1>2, <1>3, <1>4, <1>5 DEF WaiterHolds
  <2> QED BY <1>3, <1>4, <1>6, <2>1, WaiterTakes
<1> QED BY <1>4, <1>5, <1>6, <1>7, <1>8, <1>9, OneMoves

LEMMA AwaitResumeKeeps ==
  ASSUME IInv, raced' = {}, NEW w \in Waiters, AwaitResume(w)
  PROVE  IInv'
<1>1. TypeOK /\ Phase(w) /\ Data(w) /\ WaiterHolds(w)
  BY DEF IInv, Threads
<1>2. /\ posted[w] > 0
      /\ outcome' = [outcome EXCEPT ![w] = AwaitOutcome(exceptionPtr[w], hasTimeout[w])]
      /\ UNCHANGED <<serviceState, hasTimeout, exceptionPtr, timer, posted, late, execPc, cvVars,
                     notifyPc, callbacks, cvLock, svcLock, fg>>
  BY DEF AwaitResume, history
<1>3. AwaitOutcome(exceptionPtr[w], hasTimeout[w]) \in {"value", "exception", "timeout"}
  BY <1>1 DEF AwaitOutcome, TypeOK
<1>4. /\ \A v \in Waiters : /\ Awaits(v)' <=> Awaits(v)
                            /\ Due(v)' <=> Due(v)
                            /\ Taken(v)' <=> Taken(v)
      /\ CallbacksAreTrue' /\ TokensAreCounted' /\ NoLostWakeup' /\ use' = use
  BY <1>2, CvKept DEF cvVars
<1>5. TypeOK' /\ outcome'[w] = AwaitOutcome(exceptionPtr[w], hasTimeout[w])
  BY <1>1, <1>2, <1>3 DEF TypeOK, cvVars
<1>6. \A v \in Waiters \ {w} : Same(v)
  BY <1>1, <1>2, <1>4 DEF Same, TypeOK, cvVars
<1>7. Phase(w)'
  BY <1>1, <1>2, <1>4 DEF Phase, Suspends, ExecOf, TimerOf, HasResult
<1>8. Data(w)'
  BY <1>1, <1>2, <1>4, <1>5 DEF Data, HasResult, cvVars
<1>9. Threads'
  <2>1. WaiterHolds(w)'
    BY <1>1, <1>2, <1>4 DEF WaiterHolds
  <2> QED BY <1>2, <1>4, <1>6, <2>1, WaiterTakes
<1> QED BY <1>4, <1>5, <1>6, <1>7, <1>8, <1>9, OneMoves
\* Whether callbacks are made, or to be made, is not a matter of the list of awaiters.
LEMMA CallbacksKept ==
  ASSUME UNCHANGED <<callbacks, notifyPc>>
  PROVE  \A v \in Waiters : (Due(v)' <=> Due(v)) /\ (Taken(v)' <=> Taken(v))
  BY DEF Due, Taken

LEMMA ExecuteWaitKeeps ==
  ASSUME IInv, raced' = {}, NEW w \in Waiters, ExecuteWait(w)
  PROVE  IInv'
<1>1. TypeOK /\ Phase(w) /\ Data(w) /\ WaiterHolds(w) /\ CallbacksAreTrue
  BY DEF IInv, Threads
<1>2. /\ execPc[w] = "execute" /\ cvLock = Nobody /\ ~deleted /\ ExecuteResult = "no"
      /\ awaiters' = Append(awaiters, w) /\ ready' = FALSE
      /\ timer' = [timer EXCEPT ![w] = IF w \in use.timed THEN "queued" ELSE @]
      /\ UNCHANGED <<serviceState, hasTimeout, exceptionPtr, posted, outcome, late, deleted,
                     use, tokens, closed, consumed, notifyPc, callbacks, svcLock, fg>>
  BY DEF ExecuteWait, TimedWaiters, history
<1> DEFINE pc == IF w \in use.past THEN "past" ELSE "executed"
<1>3. execPc' = [execPc EXCEPT ![w] = pc] /\ cvLock' = IF w \in use.past THEN w ELSE Nobody
  BY <1>2 DEF ExecuteWait, PastWaiters
<1>4. pc \in {"past", "executed"} /\ (pc = "past" <=> w \in use.past)
  OBVIOUS
<1> HIDE DEF pc
<1>5. /\ serviceState[w] = "Executing" /\ ~Suspends(w) /\ posted[w] = 0
      /\ ~Awaits(w) /\ ~Due(w) /\ ~Taken(w) /\ timer[w] = "none" /\ ~consumed[w]
  BY <1>1, <1>2 DEF Phase, HasResult, Data, ExecOf, Suspends, TypeOK, Timer
<1>6. w \in use.past => w \notin use.timed
  BY <1>1, WaitersAssumption DEF TypeOK
<1>7. execPc'[w] = pc /\ timer'[w] = IF w \in use.timed THEN "queued" ELSE "none"
  BY <1>1, <1>2, <1>3, <1>5 DEF TypeOK
<1>8. /\ awaiters' \in Seq(Waiters) /\ IsInjective(awaiters')
      /\ \A v : Awaits(v)' <=> Awaits(v) \/ v = w
  <2>1. awaiters \in Seq(Waiters) /\ IsInjective(awaiters)
    BY <1>1 DEF TypeOK, CallbacksAreTrue
  <2>2. w \notin Range(awaiters)
    BY <1>5, <2>1, AwaitsIsRange
  <2>3. /\ awaiters' \in Seq(Waiters) /\ IsInjective(awaiters')
        /\ Range(awaiters') = Range(awaiters) \cup {w}
    BY <1>2, <2>1, <2>2, ListWith
  <2> QED BY <2>1, <2>3, AwaitsIsRange, AwaitsIsRangeNext
<1>9. \A v \in Waiters : (Due(v)' <=> Due(v)) /\ (Taken(v)' <=> Taken(v))
  BY <1>2, CallbacksKept
<1>10. TypeOK'
  <2>1. cvLock' \in Waiters \cup {Nobody} /\ ready' \in BOOLEAN
    BY <1>2, <1>3
  <2>2. execPc' \in [Waiters -> ExecPc] /\ timer' \in [Waiters -> Timer]
    BY <1>1, <1>2, <1>3, <1>4 DEF TypeOK, ExecPc, Timer
  <2> QED BY <1>1, <1>2, <1>8, <2>1, <2>2 DEF TypeOK
<1>11. \A v \in Waiters \ {w} : Same(v)
  BY <1>1, <1>2, <1>3, <1>8, <1>9 DEF Same, TypeOK
<1>12. Phase(w)'
  BY <1>1, <1>2, <1>4, <1>5, <1>6, <1>7, <1>8, <1>9 DEF Phase, Suspends, ExecOf, TimerOf, HasResult
<1>13. Data(w)'
  BY <1>1, <1>2, <1>4, <1>5, <1>7, <1>8 DEF Data, HasResult
<1>14. CallbacksAreTrue'
  <2>1. ASSUME NEW n \in Notifiers, NEW i \in DOMAIN callbacks[n]
        PROVE  ~Awaits(callbacks[n][i].waiter)'
    <3>1. callbacks[n][i].waiter # w /\ ~Awaits(callbacks[n][i].waiter)
      BY <1>1, <1>5, CalledBackIsHeld
    <3> QED BY <1>2, <1>8, <3>1
  <2> QED BY <1>1, <1>2, <1>8, <2>1 DEF CallbacksAreTrue
<1>15. Threads'
  <2>1. WaiterHolds(w)' /\ \A v \in Waiters : v # Nobody
    BY <1>1, <1>2, <1>3, <1>4, <1>5, <1>7, WaitersAssumption DEF WaiterHolds
  <2> QED BY <1>2, <1>3, <1>11, <2>1, WaiterTakes
<1>16. TokensAreCounted'
  BY <1>2 DEF IInv, TokensAreCounted, UseTokens
<1>17. NoLostWakeup'
  <2>1. tokens = 0 /\ ~closed
    <3>1. CASE UseTokens
      <4>1. tokens \in Nat
        BY <1>1, WaitersAssumption, FS_CardinalityType DEF TypeOK
      <4> QED BY <1>2, <3>1, <4>1 DEF ExecuteResult, TestResult
    <3>2. CASE ~UseTokens
      BY <3>2 DEF IInv, TokensAreCounted
    <3> QED BY <3>1, <3>2
  <2> QED BY <1>2, <2>1 DEF NoLostWakeup
<1> QED BY <1>2, <1>10, <1>11, <1>12, <1>13, <1>14, <1>15, <1>16, <1>17, OneMoves

\* CancelExecute() of a waiter that is on the list.
LEMMA AwaiterIsTakenOff ==
  ASSUME IInv, NEW w \in Waiters, Awaits(w), awaiters' = Without(w),
         UNCHANGED <<ready, deleted, use, tokens, closed, consumed, notifyPc, callbacks>>
  PROVE  /\ awaiters' \in Seq(Waiters)
         /\ \A v \in Waiters : /\ Awaits(v)' <=> Awaits(v) /\ v # w
                               /\ Due(v)' <=> Due(v)
                               /\ Taken(v)' <=> Taken(v)
         /\ CallbacksAreTrue' /\ TokensAreCounted' /\ NoLostWakeup'
<1>1. TypeOK /\ CallbacksAreTrue
  BY DEF IInv
<1>2. awaiters \in Seq(Waiters) /\ IsInjective(awaiters) /\ w \in Range(awaiters)
  BY <1>1, AwaitsIsRange DEF TypeOK, CallbacksAreTrue
<1>3. /\ awaiters' \in Seq(Waiters) /\ IsInjective(awaiters')
      /\ Range(awaiters') = Range(awaiters) \ {w}
  BY <1>2, ListWithout DEF Without
<1>4. \A v : Awaits(v)' <=> Awaits(v) /\ v # w
  BY <1>2, <1>3, AwaitsIsRange, AwaitsIsRangeNext
<1>5. \A v \in Waiters : (Due(v)' <=> Due(v)) /\ (Taken(v)' <=> Taken(v))
  BY CallbacksKept
<1>6. CallbacksAreTrue'
  <2>1. ASSUME NEW n \in Notifiers, NEW i \in DOMAIN callbacks[n]
        PROVE  ~Awaits(callbacks[n][i].waiter)'
    BY <1>1, <1>4, CalledBackIsHeld
  <2> QED BY <1>1, <1>3, <2>1 DEF CallbacksAreTrue
<1>7. TokensAreCounted'
  BY DEF IInv, TokensAreCounted, UseTokens
<1>8. NoLostWakeup'
  <2>1. awaiters # <<>>
    BY <1>2, EmptyList
  <2> QED BY <2>1 DEF IInv, NoLostWakeup
<1> QED BY <1>3, <1>4, <1>5, <1>6, <1>7, <1>8

LEMMA ExecutedCancelKeeps ==
  ASSUME IInv, raced' = {}, NEW w \in Waiters, ExecutedCancel(w)
  PROVE  IInv'
<1>1. TypeOK /\ Phase(w) /\ Data(w) /\ WaiterHolds(w)
  BY DEF IInv, Threads
<1>2. /\ execPc[w] = "cancel" /\ serviceState[w] = "ExecutingTimedOut" /\ Awaits(w)
      /\ ~Due(w) /\ ~Taken(w) /\ posted[w] = 0 /\ timer[w] \in {"none", "gone"}
  <2>1. execPc[w] = "cancel" /\ Awaits(w)
    BY DEF ExecutedCancel, CancelAwaiter, Cancelled
  <2>2. serviceState[w] = "ExecutingTimedOut"
    BY <1>1, <2>1 DEF Phase, ExecOf, HasResult
  <2> QED BY <1>1, <2>1, <2>2 DEF Phase, TimerOf, Suspends
<1>3. /\ svcLock = w /\ svcLock' = Nobody /\ awaiters' = Without(w)
      /\ serviceState' = [serviceState EXCEPT ![w] = "Resuming"]
      /\ execPc' = [execPc EXCEPT ![w] = "resume"]
      /\ UNCHANGED <<hasTimeout, exceptionPtr, timer, posted, outcome, late, ready, deleted, use,
                     tokens, closed, consumed, notifyPc, callbacks, cvLock, fg>>
  BY <1>2 DEF ExecutedCancel, CancelAwaiter, AfterOnExecuted
<1>4. /\ awaiters' \in Seq(Waiters)
      /\ \A v \in Waiters : /\ Awaits(v)' <=> Awaits(v) /\ v # w
                            /\ Due(v)' <=> Due(v)
                            /\ Taken(v)' <=> Taken(v)
      /\ CallbacksAreTrue' /\ TokensAreCounted' /\ NoLostWakeup'
  BY <1>2, <1>3, AwaiterIsTakenOff
<1>5. TypeOK' /\ execPc'[w] = "resume" /\ serviceState'[w] = "Resuming"
  BY <1>1, <1>3, <1>4 DEF TypeOK, ExecPc, ServiceState
<1>6. \A v \in Waiters \ {w} : Same(v)
  BY <1>1, <1>3, <1>4 DEF Same, TypeOK
<1>7. Phase(w)'
  BY <1>1, <1>2, <1>3, <1>4, <1>5 DEF Phase, Suspends, ExecOf, TimerOf, HasResult
<1>8. Data(w)'
  BY <1>1, <1>2, <1>3, <1>4, <1>5 DEF Data, HasResult
<1>9. Threads'
  <2>1. WaiterHolds(w)' /\ \A v \in Waiters : v # Nobody
    BY <1>1, <1>2, <1>3, <1>5, WaitersAssumption DEF WaiterHolds
  <2> QED BY <1>3, <1>6, <2>1, WaiterTakes
<1> QED BY <1>3, <1>4, <1>5, <1>6, <1>7, <1>8, <1>9, OneMoves

LEMMA TimerCancelKeeps ==
  ASSUME IInv, raced' = {}, NEW w \in Waiters, TimerCancel(w)
  PROVE  IInv'
<1>1. TypeOK /\ Phase(w) /\ Data(w) /\ WaiterHolds(w)
  BY DEF IInv, Threads
<1>2. /\ timer[w] = "cancel" /\ serviceState[w] = "Executed" /\ Awaits(w)
      /\ execPc[w] = "returned" /\ ~Due(w) /\ ~Taken(w) /\ posted[w] = 0
  <2>1. timer[w] = "cancel" /\ Awaits(w)
    BY DEF TimerCancel, CancelAwaiter, Cancelled
  <2>2. serviceState[w] = "Executed"
    BY <1>1, <2>1 DEF Phase, TimerOf, HasResult
  <2> QED BY <1>1, <2>1, <2>2 DEF Phase, ExecOf, Suspends
<1>3. /\ svcLock = w /\ svcLock' = Nobody /\ awaiters' = Without(w)
      /\ serviceState' = [serviceState EXCEPT ![w] = "Resuming"]
      /\ timer' = [timer EXCEPT ![w] = "resume"]
      /\ UNCHANGED <<hasTimeout, exceptionPtr, execPc, posted, outcome, late, ready, deleted, use,
                     tokens, closed, consumed, notifyPc, callbacks, cvLock, fg>>
  BY <1>2 DEF TimerCancel, CancelAwaiter, AfterOnTimedOut
<1>4. /\ awaiters' \in Seq(Waiters)
      /\ \A v \in Waiters : /\ Awaits(v)' <=> Awaits(v) /\ v # w
                            /\ Due(v)' <=> Due(v)
                            /\ Taken(v)' <=> Taken(v)
      /\ CallbacksAreTrue' /\ TokensAreCounted' /\ NoLostWakeup'
  BY <1>2, <1>3, AwaiterIsTakenOff
<1>5. TypeOK' /\ timer'[w] = "resume" /\ serviceState'[w] = "Resuming"
  BY <1>1, <1>3, <1>4 DEF TypeOK, Timer, ServiceState
<1>6. \A v \in Waiters \ {w} : Same(v)
  BY <1>1, <1>3, <1>4 DEF Same, TypeOK
<1>7. Phase(w)'
  BY <1>1, <1>2, <1>3, <1>4, <1>5 DEF Phase, Suspends, ExecOf, TimerOf, HasResult
<1>8. Data(w)'
  BY <1>1, <1>2, <1>3, <1>4, <1>5 DEF Data, HasResult
<1>9. Threads'
  <2>1. WaiterHolds(w)' /\ \A v \in Waiters : v # Nobody
    BY <1>1, <1>2, <1>3, <1>5, WaitersAssumption DEF WaiterHolds
  <2> QED BY <1>3, <1>6, <2>1, WaiterTakes
<1> QED BY <1>3, <1>4, <1>5, <1>6, <1>7, <1>8, <1>9, OneMoves
-----------------------------------------------------------------------------
(* The operations of the notifiers. *)

\* They all take the first k awaiters off the list, to call them back; the tests of
\* the first p of those were successful.
Takes(n, k, p) ==
  /\ CanNotify(n)
  /\ k \in 0 .. Len(awaiters) /\ p \in 0 .. k
  /\ awaiters' = SubSeq(awaiters, k + 1, Len(awaiters))
  /\ callbacks' = [callbacks EXCEPT ![n] =
                     [i \in 1 .. k |-> [waiter |-> awaiters[i], fails |-> i > p]]]
  /\ notifyPc' = [notifyPc EXCEPT ![n] = IF k = 0 THEN "done" ELSE "callback"]
  /\ fg' = IF n \in use.background \/ k = 0 THEN fg ELSE n
  /\ consumed' = [v \in Waiters |-> consumed[v] \/ \E i \in 1 .. p : awaiters[i] = v]
  /\ UNCHANGED <<serviceVars, use, execPc, cvLock, svcLock>>

\* What else they do is to the condition, and to the flags.
Changes ==
  /\ ready' \in BOOLEAN /\ deleted' \in BOOLEAN /\ closed' \in BOOLEAN
  /\ tokens' \in Nat /\ tokens' =< tokens + 1
  /\ UseTokens \/ (tokens' = 0 /\ ~closed')
  /\ NoLostWakeup'

\* The awaiters an operation finds are suspended, and nobody is about to resume them.
LEMMA AwaitersAreSuspended ==
  ASSUME IInv, NEW n \in Notifiers, CanNotify(n), NEW v \in Waiters, Awaits(v)
  PROVE  /\ Suspends(v) /\ ~Due(v) /\ ~Taken(v) /\ execPc[v] # "past"
         /\ ~consumed[v] /\ ~exceptionPtr[v] /\ posted[v] = 0 /\ outcome[v] = "none"
<1>1. TypeOK /\ Phase(v) /\ Data(v) /\ WaiterHolds(v) /\ v # Nobody
  BY WaitersAssumption DEF IInv, Threads
<1>2. execPc[v] # "past"
  BY <1>1 DEF CanNotify, WaiterHolds
<1>3. Suspends(v) /\ ~Due(v)
  BY <1>1, <1>2 DEF Phase
<1>4. serviceState[v] \notin HasResult /\ posted[v] = 0
  BY <1>1, <1>3 DEF Phase, Suspends, HasResult
<1>5. ~Taken(v)
  BY <1>1, <1>4 DEF Phase, HasResult
<1>6. ~consumed[v] /\ ~exceptionPtr[v] /\ outcome[v] = "none"
  BY <1>1, <1>4 DEF Data
<1> QED BY <1>2, <1>3, <1>4, <1>5, <1>6
\* Who is taken, and who stays on the list.
LEMMA TakenOrLeft ==
  ASSUME NEW k \in 0 .. Len(awaiters), awaiters \in Seq(Waiters), IsInjective(awaiters),
         awaiters' = SubSeq(awaiters, k + 1, Len(awaiters))
  PROVE  /\ awaiters' \in Seq(Waiters) /\ IsInjective(awaiters')
         /\ \A v : Awaits(v)' <=> Awaits(v) /\ ~ \E i \in 1 .. k : awaiters[i] = v
         /\ k = Len(awaiters) => awaiters' = <<>>
<1> DEFINE s == awaiters
           t == SubSeq(s, k + 1, Len(s))
<1>1. Len(s) \in Nat /\ k \in Nat /\ k =< Len(s) /\ DOMAIN s = 1 .. Len(s)
      /\ \A i \in 1 .. Len(s) : s[i] \in Waiters
  OBVIOUS
<1>2. /\ t \in Seq(Waiters) /\ Len(t) = Len(s) - k
      /\ \A j \in 1 .. Len(s) - k : t[j] = s[k + j]
  <2>1. k + 1 \in Int /\ Len(s) \in Int /\ \A i \in k + 1 .. Len(s) : s[i] \in Waiters
    BY <1>1
  <2>2. /\ t \in Seq(Waiters)
        /\ Len(t) = IF k + 1 <= Len(s) THEN Len(s) - (k + 1) + 1 ELSE 0
        /\ \A j \in 1 .. Len(s) - (k + 1) + 1 : t[j] = s[(k + 1) + j - 1]
    BY <2>1, SubSeqProperties
  <2>3. \A j \in 1 .. Len(s) - k : j \in 1 .. Len(s) - (k + 1) + 1 /\ (k + 1) + j - 1 = k + j
    BY <1>1
  <2> HIDE DEF t
  <2>4. Len(t) = Len(s) - k
    <3>1. CASE k + 1 <= Len(s)
      BY <1>1, <2>2, <3>1
    <3>2. CASE ~(k + 1 <= Len(s))
      <4>1. k = Len(s)
        <5>1. \A l \in Nat : k =< l /\ ~(k + 1 <= l) => k = l
          BY <1>1
        <5> QED BY <1>1, <3>2, <5>1
      <4>2. Len(t) = 0
        BY <2>2, <3>2
      <4> QED BY <1>1, <4>1, <4>2
    <3> QED BY <3>1, <3>2
  <2>5. ASSUME NEW j \in 1 .. Len(s) - k PROVE t[j] = s[k + j]
    <3>1. t[j] = s[(k + 1) + j - 1] /\ (k + 1) + j - 1 = k + j
      BY <2>2, <2>3
    <3> QED BY <3>1
  <2> QED BY <2>2, <2>4, <2>5
<1> HIDE DEF t
<1>3. DOMAIN t = 1 .. Len(s) - k
  BY <1>2
<1>4. IsInjective(t)
  <2>1. \A j \in 1 .. Len(s) - k : k + j \in 1 .. Len(s)
    BY <1>1
  <2>2. ASSUME NEW i \in 1 .. Len(s) - k, NEW j \in 1 .. Len(s) - k, t[i] = t[j]
        PROVE  i = j
    <3>1. s[k + i] = s[k + j] /\ k + i \in DOMAIN s /\ k + j \in DOMAIN s
      BY <1>1, <1>2, <2>1, <2>2
    <3>2. k + i = k + j
      BY <3>1 DEF IsInjective
    <3> QED BY <1>1, <3>2
  <2> QED BY <1>3, <2>2 DEF IsInjective
<1>5. ASSUME NEW v
      PROVE  (\E j \in 1 .. Len(t) : t[j] = v)
               <=> Awaits(v) /\ ~ \E i \in 1 .. k : awaiters[i] = v
  <2>1. ASSUME NEW j \in 1 .. Len(t), t[j] = v
        PROVE  Awaits(v) /\ ~ \E i \in 1 .. k : awaiters[i] = v
    <3>1. s[k + j] = v /\ k + j \in 1 .. Len(s) /\ k + j \notin 1 .. k
      BY <1>1, <1>2, <2>1
    <3> QED BY <1>1, <3>1 DEF Awaits, IsInjective
  <2>2. ASSUME NEW i \in 1 .. Len(s), s[i] = v, i \notin 1 .. k
        PROVE  \E j \in 1 .. Len(t) : t[j] = v
    <3>1. i - k \in 1 .. Len(t) /\ k + (i - k) = i
      BY <1>1, <1>2, <2>2
    <3> QED BY <1>2, <2>2, <3>1
  <2> QED BY <2>1, <2>2 DEF Awaits
<1>6. k = Len(s) => t = <<>>
  BY <1>2
<1> QED BY <1>2, <1>4, <1>5, <1>6 DEF t, Awaits
\* The callbacks of the notifier that has taken them, and of the others.
LEMMA CallbacksTaken ==
  ASSUME TypeOK, CallbacksAreTrue, NEW n \in Notifiers, notifyPc[n] = "idle",
         NEW k \in 0 .. Len(awaiters), NEW p \in 0 .. k,
         callbacks' = [callbacks EXCEPT ![n] =
                        [i \in 1 .. k |-> [waiter |-> awaiters[i], fails |-> i > p]]],
         notifyPc' = [notifyPc EXCEPT ![n] = IF k = 0 THEN "done" ELSE "callback"]
  PROVE  /\ callbacks' \in [Notifiers -> Seq(Pending)] /\ callbacks[n] = <<>>
         /\ DOMAIN callbacks'[n] = 1 .. k
         /\ \A i \in 1 .. k : /\ callbacks'[n][i].waiter = awaiters[i]
                              /\ callbacks'[n][i].fails = (i > p)
         /\ callbacks'[n] = <<>> <=> k = 0
         /\ notifyPc' \in [Notifiers -> NotifyPc]
         /\ notifyPc'[n] = IF k = 0 THEN "done" ELSE "callback"
         /\ \A m \in Notifiers \ {n} : callbacks'[m] = callbacks[m] /\ notifyPc'[m] = notifyPc[m]
<1> DEFINE F == [i \in 1 .. k |-> [waiter |-> awaiters[i], fails |-> i > p]]
<1>1. k \in Nat /\ \A i \in 1 .. k : awaiters[i] \in Waiters /\ i \in Int /\ p \in Int
  BY DEF TypeOK
<1>2. \A i \in 1 .. k : [waiter |-> awaiters[i], fails |-> i > p] \in Pending
  BY <1>1 DEF Pending
<1>3. F \in Seq(Pending) /\ Len(F) = k /\ DOMAIN F = 1 .. k
  BY <1>1, <1>2
<1>4. \A i \in 1 .. k : F[i].waiter = awaiters[i] /\ F[i].fails = (i > p)
  OBVIOUS
<1>5. F = <<>> <=> k = 0
  BY <1>1, <1>3
<1> HIDE DEF F
<1>6. callbacks \in [Notifiers -> Seq(Pending)] /\ callbacks' = [callbacks EXCEPT ![n] = F]
  BY DEF TypeOK, Pending, F
<1>7. /\ callbacks' \in [Notifiers -> Seq(Pending)] /\ callbacks'[n] = F
      /\ \A m \in Notifiers \ {n} : callbacks'[m] = callbacks[m]
  BY <1>3, <1>6
<1>8. callbacks[n] = <<>>
  BY DEF CallbacksAreTrue
<1>9. /\ notifyPc' \in [Notifiers -> NotifyPc]
      /\ notifyPc'[n] = IF k = 0 THEN "done" ELSE "callback"
      /\ \A m \in Notifiers \ {n} : notifyPc'[m] = notifyPc[m]
  BY DEF TypeOK, NotifyPc
<1> QED BY <1>3, <1>4, <1>5, <1>7, <1>8, <1>9

LEMMA TakesKeeps ==
  ASSUME IInv, raced' = {}, NEW n \in Notifiers, NEW k, NEW p, Takes(n, k, p), Changes
  PROVE  IInv'
<1> DEFINE Taking(v) == \E i \in 1 .. k : awaiters[i] = v
<1>1. TypeOK /\ CallbacksAreTrue /\ Threads /\ TokensAreCounted
  BY DEF IInv
<1>2. /\ CanNotify(n) /\ notifyPc[n] = "idle" /\ k \in 0 .. Len(awaiters) /\ p \in 0 .. k
      /\ awaiters' = SubSeq(awaiters, k + 1, Len(awaiters))
      /\ fg' = IF n \in use.background \/ k = 0 THEN fg ELSE n
      /\ n \in use.background \/ fg = Nobody
      /\ consumed' = [v \in Waiters |-> consumed[v] \/ \E i \in 1 .. p : awaiters[i] = v]
      /\ UNCHANGED <<serviceVars, use, execPc, cvLock, svcLock>>
  BY DEF Takes, CanNotify, BackgroundNotifiers
<1>3. /\ callbacks' \in [Notifiers -> Seq(Pending)] /\ callbacks[n] = <<>>
      /\ DOMAIN callbacks'[n] = 1 .. k
      /\ \A i \in 1 .. k : /\ callbacks'[n][i].waiter = awaiters[i]
                           /\ callbacks'[n][i].fails = (i > p)
      /\ callbacks'[n] = <<>> <=> k = 0
      /\ notifyPc' \in [Notifiers -> NotifyPc]
      /\ notifyPc'[n] = IF k = 0 THEN "done" ELSE "callback"
      /\ \A m \in Notifiers \ {n} : callbacks'[m] = callbacks[m] /\ notifyPc'[m] = notifyPc[m]
  BY <1>1, <1>2, CallbacksTaken DEF Takes
<1>4. /\ awaiters \in Seq(Waiters) /\ awaiters' \in Seq(Waiters)
      /\ IsInjective(awaiters) /\ IsInjective(awaiters')
      /\ \A v : Awaits(v)' <=> Awaits(v) /\ ~Taking(v)
  BY <1>1, <1>2, TakenOrLeft DEF TypeOK, CallbacksAreTrue
<1>5. \A i \in 1 .. k : awaiters[i] \in Waiters /\ Awaits(awaiters[i])
  BY <1>2, <1>4 DEF Awaits
<1>6. ASSUME NEW v \in Waiters
      PROVE  (Due(v)' <=> Due(v) \/ Taking(v)) /\ (Taken(v)' <=> Taken(v))
  <2>1. Due(v) => Due(v)'
    <3> SUFFICES ASSUME NEW m \in Notifiers, NEW i \in DOMAIN callbacks[m],
                        callbacks[m][i].waiter = v, i = 1 => notifyPc[m] # "resume"
                 PROVE  Due(v)'
      BY DEF Due
    <3>1. m # n
      BY <1>3
    <3> QED BY <1>3, <3>1 DEF Due
  <2>2. Taking(v) => Due(v)'
    <3>1. k # 0 => notifyPc'[n] # "resume"
      BY <1>3
    <3> QED BY <1>2, <1>3, <3>1 DEF Due
  <2>3. Due(v)' => Due(v) \/ Taking(v)
    <3> SUFFICES ASSUME NEW m \in Notifiers, NEW i \in DOMAIN callbacks'[m],
                        callbacks'[m][i].waiter = v, i = 1 => notifyPc'[m] # "resume"
                 PROVE  Due(v) \/ Taking(v)
      BY DEF Due
    <3>1. CASE m = n
      BY <1>3, <3>1
    <3>2. CASE m # n
      BY <1>3, <3>2 DEF Due
    <3> QED BY <3>1, <3>2
  <2>4. Taken(v)' <=> Taken(v)
    BY <1>2, <1>3 DEF Taken
  <2> QED BY <2>1, <2>2, <2>3, <2>4
<1>7. \A v \in Waiters : consumed'[v] = (consumed[v] \/ \E i \in 1 .. p : awaiters[i] = v)
  BY <1>2
<1>8. ASSUME NEW v \in Waiters, ~Taking(v) PROVE consumed'[v] = consumed[v]
  <2>1. ~ \E i \in 1 .. p : awaiters[i] = v
    BY <1>2, <1>8
  <2>2. consumed[v] \in BOOLEAN
    BY <1>1 DEF TypeOK
  <2> QED BY <1>7, <2>1, <2>2
<1> HIDE DEF Taking
<1> DEFINE held == {m \in Notifiers : notifyPc[m] # "idle"}
<1>9. held' = held \cup {n} /\ n \notin held
  BY <1>2, <1>3
<1>10. /\ tokens' \in Nat /\ tokens' =< Cardinality(held')
       /\ held' \in SUBSET Notifiers
  <2>1. IsFiniteSet(held) /\ Cardinality(held') = Cardinality(held) + 1
    BY <1>9, WaitersAssumption, FS_Subset, FS_AddElement
  <2>2. Cardinality(held) \in Nat /\ tokens =< Cardinality(held) /\ tokens \in Nat
    BY <1>1, <2>1, WaitersAssumption, FS_CardinalityType DEF TokensAreCounted, TypeOK
  <2> QED BY <1>9, <2>1, <2>2 DEF Changes
<1>11. TypeOK'
  <2>1. consumed' \in [Waiters -> BOOLEAN]
    BY <1>2
  <2>2. fg' \in Waiters \cup Notifiers \cup {Nobody}
    BY <1>1, <1>2 DEF TypeOK
  <2>3. tokens' \in 0 .. Cardinality(Notifiers)
    <3>1. Cardinality(held') =< Cardinality(Notifiers)
      BY <1>10, WaitersAssumption, FS_Subset
    <3>2. IsFiniteSet(held') /\ IsFiniteSet(Notifiers)
      BY <1>10, WaitersAssumption, FS_Subset
    <3>3. Cardinality(held') \in Nat /\ Cardinality(Notifiers) \in Nat
      BY <3>2, FS_CardinalityType
    <3> HIDE DEF held
    <3> QED BY <1>10, <3>1, <3>3
  <2> QED BY <1>1, <1>2, <1>3, <1>4, <2>1, <2>2, <2>3 DEF TypeOK, Changes, serviceVars, history, Pending
<1>12. ASSUME NEW v \in Waiters PROVE Phase(v)' /\ Data(v)'
  <2>1. Phase(v) /\ Data(v)
    BY DEF IInv
  <2>2. CASE Taking(v)
    <3>1. Awaits(v) /\ ~Awaits(v)' /\ Due(v)' /\ v \in Waiters
      BY <1>4, <1>5, <1>6, <2>2 DEF Taking
    <3>2. /\ Suspends(v) /\ ~Taken(v)
          /\ execPc[v] # "past" /\ ~exceptionPtr[v] /\ posted[v] = 0 /\ outcome[v] = "none"
      BY <1>2, <3>1, AwaitersAreSuspended
    <3>3. serviceState[v] \in {"Executing", "ExecutingTimedOut", "Executed"}
      BY <3>2 DEF Suspends
    <3>4. Phase(v)'
      BY <1>2, <1>6, <2>1, <3>1, <3>2 DEF Phase, Suspends, ExecOf, TimerOf, HasResult, serviceVars, history
    <3>5. Data(v)'
      BY <1>2, <2>1, <3>1, <3>2, <3>3 DEF Data, Suspends, ExecOf, Phase, HasResult, serviceVars, history
    <3> QED BY <3>4, <3>5
  <2>3. CASE ~Taking(v)
    <3>1. Same(v)
      BY <1>2, <1>4, <1>6, <1>8, <2>3 DEF Same, serviceVars, history
    <3> QED BY <1>2, <2>1, <3>1, SameKeeps
  <2> QED BY <2>2, <2>3
<1>13. CallbacksAreTrue'
  <2>1. \A m \in Notifiers : callbacks'[m] # <<>> <=> notifyPc'[m] \in {"callback", "resume"}
    BY <1>1, <1>2, <1>3 DEF CallbacksAreTrue
  <2>2. ASSUME NEW m \in Notifiers \ {n}, NEW i \in DOMAIN callbacks[m], NEW v,
               callbacks[m][i].waiter = v
        PROVE  /\ ~Taking(v) /\ ~Awaits(v)'
               /\ callbacks'[m][i].fails = ~consumed'[v]
    <3>1. ~Awaits(v) /\ callbacks[m][i].fails = ~consumed[v]
      BY <1>1, <2>2, CalledBackIsHeld
    <3>2. v \in Waiters
      BY <1>1, <2>2, PendingTypes
    <3>3. ~Taking(v)
      BY <1>5, <3>1 DEF Taking
    <3> QED BY <1>3, <1>4, <1>8, <3>1, <3>2, <3>3
  <2>3. ASSUME NEW i \in 1 .. k, NEW v, v = awaiters[i]
        PROVE  /\ Taking(v) /\ ~Awaits(v)'
               /\ callbacks'[n][i].fails = ~consumed'[v]
    <3>1. v \in Waiters /\ Awaits(v) /\ Taking(v)
      BY <1>5, <2>3 DEF Taking
    <3>2. consumed[v] \in BOOLEAN /\ ~consumed[v]
      BY <1>1, <1>2, <3>1, AwaitersAreSuspended DEF TypeOK
    <3>3. (\E j \in 1 .. p : awaiters[j] = v) <=> ~(i > p)
      BY <1>2, <1>4, <2>3 DEF IsInjective
    <3>4. consumed'[v] = ~(i > p)
      BY <1>7, <3>1, <3>2, <3>3
    <3>5. callbacks'[n][i].fails = (i > p)
      BY <1>3
    <3> DEFINE beyond == i > p
    <3>6. beyond \in BOOLEAN
      BY <1>2
    <3>7. callbacks'[n][i].fails = beyond /\ consumed'[v] = ~beyond
      BY <3>4, <3>5
    <3> HIDE DEF beyond
    <3>8. callbacks'[n][i].fails = ~consumed'[v]
      BY <3>6, <3>7
    <3> QED BY <1>4, <3>1, <3>8
  <2>4. ASSUME NEW m \in Notifiers, NEW i \in DOMAIN callbacks'[m], NEW v,
               callbacks'[m][i].waiter = v
        PROVE  /\ ~Awaits(v)' /\ callbacks'[m][i].fails = ~consumed'[v]
               /\ m = n <=> Taking(v)
               /\ m = n => i \in 1 .. k /\ awaiters[i] = v
               /\ m # n => i \in DOMAIN callbacks[m] /\ callbacks[m][i].waiter = v
    <3>1. CASE m = n
      BY <1>3, <2>3, <2>4, <3>1
    <3>2. CASE m # n
      BY <1>3, <2>2, <2>4, <3>2
    <3> QED BY <3>1, <3>2
  <2>5. ASSUME NEW m \in Notifiers, NEW l \in Notifiers,
               NEW i \in DOMAIN callbacks'[m], NEW j \in DOMAIN callbacks'[l],
               callbacks'[m][i].waiter = callbacks'[l][j].waiter
        PROVE  m = l /\ i = j
    <3>1. PICK v : callbacks'[m][i].waiter = v /\ callbacks'[l][j].waiter = v
      BY <2>5
    <3>2. m = n <=> l = n
      BY <2>4, <3>1
    <3>3. CASE m = n
      <4>1. i \in 1 .. k /\ j \in 1 .. k /\ awaiters[i] = v /\ awaiters[j] = v
        BY <2>4, <3>1, <3>2, <3>3
      <4>2. i \in DOMAIN awaiters /\ j \in DOMAIN awaiters
        BY <1>2, <1>4, <4>1
      <4> QED BY <1>4, <3>2, <3>3, <4>1, <4>2 DEF IsInjective
    <3>4. CASE m # n
      <4>1. /\ i \in DOMAIN callbacks[m] /\ j \in DOMAIN callbacks[l]
            /\ callbacks[m][i].waiter = callbacks[l][j].waiter
        BY <2>4, <3>1, <3>2, <3>4
      <4> QED BY <1>1, <4>1 DEF CallbacksAreTrue
    <3> QED BY <3>3, <3>4
  <2> QED BY <1>4, <2>1, <2>4, <2>5 DEF CallbacksAreTrue
<1>14. Threads'
  <2>1. fg' = fg \/ (fg = Nobody /\ fg' = n)
    BY <1>2
  <2>2. ASSUME NEW v \in Waiters PROVE WaiterHolds(v)'
    <3>1. WaiterHolds(v) /\ v # Nobody
      BY <1>1, WaitersAssumption DEF Threads
    <3> QED BY <1>2, <2>1, <3>1 DEF WaiterHolds, serviceVars, history
  <2>3. ASSUME NEW m \in Notifiers PROVE NotifierHolds(m)'
    <3>1. NotifierHolds(m) /\ m # Nobody
      BY <1>1, WaitersAssumption DEF Threads
    <3>2. CASE m = n
      BY <1>2, <1>3, <3>2 DEF NotifierHolds
    <3>3. CASE m # n
      BY <1>2, <1>3, <2>1, <3>1, <3>3 DEF NotifierHolds
    <3> QED BY <3>2, <3>3
  <2> QED BY <2>2, <2>3 DEF Threads
<1>15. TokensAreCounted'
  BY <1>2, <1>10 DEF TokensAreCounted, Changes, UseTokens
<1> QED BY <1>11, <1>12, <1>13, <1>14, <1>15 DEF IInv, Changes
\* Nobody is taken: the list, the tests and what there is to call back.
LEMMA NobodyTaken ==
  ASSUME TypeOK, NEW n \in Notifiers, CanNotify(n), CallBack(n, <<>>),
         awaiters' = awaiters, consumed' = consumed,
         UNCHANGED <<serviceVars, use, execPc, cvLock, svcLock>>
  PROVE  Takes(n, 0, 0)
<1>1. awaiters \in Seq(Waiters) /\ consumed \in [Waiters -> BOOLEAN]
  BY DEF TypeOK
<1>2. awaiters' = SubSeq(awaiters, 0 + 1, Len(awaiters)) /\ 0 \in 0 .. Len(awaiters)
  BY <1>1
<1>3. [i \in 1 .. 0 |-> [waiter |-> awaiters[i], fails |-> i > 0]] = <<>>
  OBVIOUS
<1>4. consumed' = [v \in Waiters |-> consumed[v] \/ \E i \in 1 .. 0 : awaiters[i] = v]
  <2>1. \A v \in Waiters : consumed[v] = (consumed[v] \/ \E i \in 1 .. 0 : awaiters[i] = v)
    BY <1>1
  <2> QED BY <1>1, <2>1
<1>5. 0 \in 0 .. 0
  OBVIOUS
<1> QED BY <1>2, <1>3, <1>4, <1>5 DEF Takes, CallBack, BackgroundNotifiers

\* The tokens, and how many an operation of this use may add.
LEMMA TokenTypes ==
  ASSUME IInv
  PROVE  /\ tokens \in Nat /\ (UseTokens \/ (tokens = 0 /\ ~closed))
         /\ (awaiters # <<>> => ~ready /\ tokens = 0 /\ ~closed /\ ~deleted)
         /\ ready \in BOOLEAN /\ deleted \in BOOLEAN /\ closed \in BOOLEAN
  BY WaitersAssumption, FS_CardinalityType DEF IInv, TypeOK, TokensAreCounted, NoLostWakeup

LEMMA NotifyNobodyKeeps ==
  ASSUME IInv, raced' = {}, NEW n \in Notifiers,
         NEW added \in IF UseTokens THEN 0 .. 1 ELSE {0}, NotifyNobody(n, added)
  PROVE  IInv'
<1>1. Takes(n, 0, 0)
  BY NobodyTaken DEF NotifyNobody, IInv
<1>2. Changes
  BY TokenTypes DEF NotifyNobody, Changes, NoLostWakeup
<1> QED BY <1>1, <1>2, TakesKeeps

LEMMA NotifyInVainKeeps ==
  ASSUME IInv, raced' = {}, NEW n \in Notifiers,
         NEW added \in IF UseTokens THEN 0 .. 1 ELSE {0}, NotifyInVain(n, added)
  PROVE  IInv'
<1>1. Takes(n, 0, 0)
  BY NobodyTaken DEF NotifyInVain, IInv
<1>2. UseTokens /\ tokens + added = 0
  BY TokenTypes DEF NotifyInVain, HeadResult, TestResult
<1>3. Changes
  BY <1>2, TokenTypes DEF NotifyInVain, Changes, NoLostWakeup
<1> QED BY <1>1, <1>3, TakesKeeps

LEMMA NotifyHeadKeeps ==
  ASSUME IInv, raced' = {}, NEW n \in Notifiers,
         NEW added \in IF UseTokens THEN 0 .. 1 ELSE {0}, NotifyHead(n, added)
  PROVE  IInv'
<1> DEFINE w == Head(awaiters)
           F == [i \in 1 .. 1 |-> [waiter |-> awaiters[i], fails |-> i > 1]]
<1>1. /\ CanNotify(n) /\ awaiters # <<>> /\ HeadResult(added) # "no"
      /\ UNCHANGED <<serviceVars, ready, deleted, use, closed, execPc, cvLock, svcLock>>
  BY DEF NotifyHead
<1>2. awaiters \in Seq(Waiters) /\ consumed \in [Waiters -> BOOLEAN]
  BY DEF IInv, TypeOK
<1>3. tokens = 0 /\ ~closed /\ ~ready /\ ~deleted /\ added \in {0, 1}
  BY <1>1, TokenTypes
<1>4. HeadResult(added) = "yes" /\ (UseTokens => added = 1) /\ (~UseTokens => added = 0)
  BY <1>1, <1>3 DEF HeadResult, TestResult
<1>5. /\ tokens' = 0 /\ consumed' = [consumed EXCEPT ![w] = TRUE] /\ awaiters' = Tail(awaiters)
      /\ CallBack(n, <<[waiter |-> w, fails |-> FALSE]>>)
  <2> DEFINE passes == HeadResult(added) = "yes"
  <2>1. /\ tokens' = tokens + added - (IF UseTokens /\ passes THEN 1 ELSE 0)
        /\ consumed' = [consumed EXCEPT ![w] = passes]
        /\ awaiters' = Tail(awaiters)
        /\ CallBack(n, <<[waiter |-> w, fails |-> ~passes]>>)
    BY DEF NotifyHead, HeadErased
  <2>2. passes = TRUE /\ (~passes) = FALSE
    BY <1>4
  <2> HIDE DEF passes
  <2>3. tokens' = 0
    BY <1>3, <1>4, <2>1, <2>2
  <2> QED BY <2>1, <2>2, <2>3
<1>6. /\ w \in Waiters /\ w = awaiters[1] /\ Len(awaiters) \in Nat /\ 1 \in 0 .. Len(awaiters)
      /\ Tail(awaiters) = SubSeq(awaiters, 1 + 1, Len(awaiters))
  BY <1>1, <1>2
<1>7. F = <<[waiter |-> w, fails |-> FALSE]>>
  <2> DEFINE G == <<[waiter |-> w, fails |-> FALSE]>>
  <2>1. [waiter |-> w, fails |-> FALSE] \in Pending
    BY <1>6 DEF Pending
  <2>2. ASSUME NEW i \in 1 .. 1
        PROVE  [waiter |-> awaiters[i], fails |-> i > 1] = [waiter |-> w, fails |-> FALSE]
    <3>1. i = 1 /\ (i > 1) = FALSE
      OBVIOUS
    <3> QED BY <1>6, <3>1
  <2>3. F \in Seq(Pending) /\ Len(F) = 1 /\ F[1] = [waiter |-> w, fails |-> FALSE]
    BY <2>1, <2>2
  <2>4. G \in Seq(Pending) /\ Len(G) = 1 /\ G[1] = [waiter |-> w, fails |-> FALSE]
    BY <2>1
  <2> HIDE DEF F, G
  <2>5. ASSUME NEW i \in 1 .. Len(F) PROVE F[i] = G[i]
    <3>1. i = 1
      BY <2>3
    <3> QED BY <2>3, <2>4, <3>1
  <2>6. F = G
    BY <2>3, <2>4, <2>5, SeqEqual
  <2> QED BY <2>6 DEF G
<1>8. consumed' = [v \in Waiters |-> consumed[v] \/ \E i \in 1 .. 1 : awaiters[i] = v]
  <2>1. \A v \in Waiters : (\E i \in 1 .. 1 : awaiters[i] = v) <=> v = w
    BY <1>6
  <2>2. ASSUME NEW v \in Waiters
        PROVE  consumed'[v] = (consumed[v] \/ \E i \in 1 .. 1 : awaiters[i] = v)
    <3>1. CASE v = w
      BY <1>2, <1>5, <1>6, <2>1, <3>1
    <3>2. CASE v # w
      BY <1>2, <1>5, <1>6, <2>1, <3>2
    <3> QED BY <3>1, <3>2
  <2>3. consumed' \in [Waiters -> BOOLEAN]
    BY <1>2, <1>5, <1>6
  <2> QED BY <2>2, <2>3
<1> HIDE DEF F
<1>9. Takes(n, 1, 1)
  <2>1. /\ callbacks' = [callbacks EXCEPT ![n] = F]
        /\ notifyPc' = [notifyPc EXCEPT ![n] = "callback"]
        /\ fg' = IF n \in use.background THEN fg ELSE n
    BY <1>5, <1>7 DEF CallBack, BackgroundNotifiers
  <2>2. /\ awaiters' = SubSeq(awaiters, 1 + 1, Len(awaiters))
        /\ 1 \in 0 .. Len(awaiters) /\ 1 \in 0 .. 1 /\ 1 # 0
    BY <1>5, <1>6
  <2> QED BY <1>1, <1>8, <2>1, <2>2 DEF Takes, F
<1>10. Changes
  BY <1>1, <1>3, <1>5, TokenTypes DEF Changes, NoLostWakeup
<1> QED BY <1>9, <1>10, TakesKeeps

LEMMA NotifyAllKeeps ==
  ASSUME IInv, raced' = {}, NEW n \in Notifiers, NEW added \in {0, 1}, NEW closing \in BOOLEAN,
         added = 1 \/ closing => UseTokens,
         NotifyAll(n, added, closing)
  PROVE  IInv'
<1> DEFINE available == tokens + added
           pass == IF UseTokens /\ available < Len(awaiters) THEN available ELSE Len(awaiters)
           gone == IF closing THEN Len(awaiters) ELSE pass
           F == [i \in 1 .. gone |-> [waiter |-> awaiters[i], fails |-> i > pass]]
<1>1. /\ CanNotify(n)
      /\ tokens' = available - (IF UseTokens THEN pass ELSE 0)
      /\ consumed' = [v \in Waiters |-> consumed[v] \/ \E i \in 1 .. pass : awaiters[i] = v]
      /\ awaiters' = SubSeq(awaiters, gone + 1, Len(awaiters))
      /\ CallBack(n, F)
      /\ closed' = (closed \/ closing)
      /\ UNCHANGED <<serviceVars, ready, deleted, use, execPc, cvLock, svcLock>>
  BY DEF NotifyAll
<1>2. awaiters \in Seq(Waiters) /\ Len(awaiters) \in Nat /\ (awaiters # <<>> <=> Len(awaiters) # 0)
  BY DEF IInv, TypeOK
<1>3. /\ available \in Nat /\ (~UseTokens => available = 0 /\ ~closing)
      /\ (awaiters # <<>> => tokens = 0 /\ ~closed /\ ~ready /\ ~deleted)
  BY TokenTypes
<1>4. pass \in 0 .. Len(awaiters) /\ gone \in 0 .. Len(awaiters) /\ pass \in 0 .. gone
  BY <1>2, <1>3
<1>5. F = <<>> <=> gone = 0
  <2> HIDE DEF pass, gone
  <2> QED BY <1>4
<1>6. Takes(n, gone, pass)
  <2> HIDE DEF pass, gone, F, available
  <2>1. /\ callbacks' = [callbacks EXCEPT ![n] = F]
        /\ notifyPc' = [notifyPc EXCEPT ![n] = IF gone = 0 THEN "done" ELSE "callback"]
        /\ fg' = IF n \in use.background \/ gone = 0 THEN fg ELSE n
    BY <1>1, <1>5 DEF CallBack, BackgroundNotifiers
  <2> QED BY <1>1, <1>4, <2>1 DEF Takes, F
<1>7. Changes
  <2>1. awaiters' # <<>> => gone # Len(awaiters)
    <3> HIDE DEF gone
    <3> QED BY <1>1, <1>2
  <2>2. /\ tokens' \in Nat /\ tokens' =< tokens + 1
        /\ gone # Len(awaiters) => tokens' = 0 /\ ~closing /\ awaiters # <<>>
        /\ UseTokens \/ tokens' = 0
    BY <1>1, <1>2, <1>3, TokenTypes
  <2> QED BY <1>1, <1>3, <2>1, <2>2, TokenTypes DEF Changes, NoLostWakeup
<1> QED BY <1>6, <1>7, TakesKeeps

LEMMA DestroyKeeps ==
  ASSUME IInv, raced' = {}, NEW n \in Notifiers, Destroy(n)
  PROVE  IInv'
<1> DEFINE k == Len(awaiters)
           F == [i \in 1 .. k |-> [waiter |-> awaiters[i], fails |-> TRUE]]
<1>1. /\ CanNotify(n) /\ deleted' = TRUE /\ awaiters' = <<>> /\ CallBack(n, F)
      /\ UNCHANGED <<serviceVars, ready, tokens, use, closed, consumed, execPc, cvLock, svcLock>>
  BY DEF Destroy
<1>2. /\ awaiters \in Seq(Waiters) /\ k \in Nat /\ consumed \in [Waiters -> BOOLEAN]
      /\ <<>> = SubSeq(awaiters, k + 1, Len(awaiters)) /\ k \in 0 .. Len(awaiters)
      /\ 0 \in 0 .. k
  BY DEF IInv, TypeOK
<1> HIDE DEF k
<1>3. F = <<>> <=> k = 0
  <2>1. k = 0 => F = <<>>
    OBVIOUS
  <2>2. k # 0 => 1 \in DOMAIN F
    BY <1>2
  <2> QED BY <2>1, <2>2
<1>4. F = [i \in 1 .. k |-> [waiter |-> awaiters[i], fails |-> i > 0]]
  <2>1. \A i \in 1 .. k : (i > 0) = TRUE
    BY <1>2
  <2> QED BY <2>1
<1>5. consumed' = [v \in Waiters |-> consumed[v] \/ \E i \in 1 .. 0 : awaiters[i] = v]
  <2>1. \A v \in Waiters : consumed[v] = (consumed[v] \/ \E i \in 1 .. 0 : awaiters[i] = v)
    BY <1>2
  <2> QED BY <1>1, <1>2, <2>1
<1>6. Takes(n, k, 0)
  <2> HIDE DEF F
  <2>1. /\ callbacks' = [callbacks EXCEPT ![n] = F]
        /\ notifyPc' = [notifyPc EXCEPT ![n] = IF k = 0 THEN "done" ELSE "callback"]
        /\ fg' = IF n \in use.background \/ k = 0 THEN fg ELSE n
    BY <1>1, <1>3 DEF CallBack, BackgroundNotifiers
  <2> QED BY <1>1, <1>2, <1>4, <1>5, <2>1 DEF Takes
<1>7. Changes
  BY <1>1, TokenTypes DEF Changes, NoLostWakeup
<1> QED BY <1>6, <1>7, TakesKeeps
-----------------------------------------------------------------------------
(* The callbacks. *)

\* The first callback of a notifier: its waiter is in no other one.
LEMMA FirstCallback ==
  ASSUME TypeOK, CallbacksAreTrue, NEW n \in Notifiers, notifyPc[n] \in {"callback", "resume"}
  PROVE  /\ callbacks[n] \in Seq(Pending) /\ callbacks[n] # <<>> /\ 1 \in DOMAIN callbacks[n]
         /\ Head(callbacks[n]) = callbacks[n][1]
         /\ callbacks[n][1].waiter \in Waiters /\ callbacks[n][1].fails \in BOOLEAN
         /\ \A m \in Notifiers : \A i \in DOMAIN callbacks[m] :
              callbacks[m][i].waiter = callbacks[n][1].waiter => m = n /\ i = 1
<1>1. callbacks[n] # <<>> /\ callbacks[n] \in Seq(Pending)
  BY PendingTypes DEF CallbacksAreTrue
<1>2. 1 \in DOMAIN callbacks[n] /\ Head(callbacks[n]) = callbacks[n][1]
  BY <1>1
<1>3. callbacks[n][1].waiter \in Waiters /\ callbacks[n][1].fails \in BOOLEAN
  BY <1>2, PendingTypes
<1> QED BY <1>1, <1>2, <1>3 DEF CallbacksAreTrue

\* It has been made, and the waiter is to be resumed.
LEMMA CallbackIsTaken ==
  ASSUME TypeOK, CallbacksAreTrue, NEW n \in Notifiers, notifyPc[n] = "callback",
         notifyPc' = [notifyPc EXCEPT ![n] = "resume"],
         UNCHANGED <<callbacks, awaiters, consumed>>,
         NEW w, w = callbacks[n][1].waiter
  PROVE  /\ \A v \in Waiters \ {w} : (Due(v)' <=> Due(v)) /\ (Taken(v)' <=> Taken(v))
         /\ ~Due(w)' /\ Taken(w)'
         /\ CallbacksAreTrue'
<1>1. /\ 1 \in DOMAIN callbacks[n]
      /\ \A m \in Notifiers : \A i \in DOMAIN callbacks[m] :
           callbacks[m][i].waiter = w => m = n /\ i = 1
  BY FirstCallback
<1>2. notifyPc'[n] = "resume" /\ \A m \in Notifiers \ {n} : notifyPc'[m] = notifyPc[m]
  BY DEF TypeOK
<1>3. ASSUME NEW v \in Waiters \ {w}
      PROVE  (Due(v)' <=> Due(v)) /\ (Taken(v)' <=> Taken(v))
  <2>1. ASSUME NEW m \in Notifiers, NEW i \in DOMAIN callbacks[m], callbacks[m][i].waiter = v
        PROVE  m # n \/ i # 1
    BY <2>1
  <2>2. \A m \in Notifiers : \A i \in DOMAIN callbacks[m] : callbacks[m][i].waiter = v =>
          ((i = 1 => notifyPc'[m] # "resume") <=> (i = 1 => notifyPc[m] # "resume"))
    BY <1>2, <2>1
  <2>3. Due(v)' <=> Due(v)
    BY <2>2 DEF Due
  <2>4. Taken(v)' <=> Taken(v)
    BY <1>2 DEF Taken
  <2> QED BY <2>3, <2>4
<1>4. ~Due(w)' /\ Taken(w)'
  BY <1>1, <1>2 DEF Due, Taken
<1>5. CallbacksAreTrue'
  <2>1. \A m \in Notifiers : callbacks'[m] # <<>> <=> notifyPc'[m] \in {"callback", "resume"}
    BY <1>2 DEF CallbacksAreTrue
  <2>2. \A v : Awaits(v)' <=> Awaits(v)
    BY DEF Awaits
  <2> QED BY <2>1, <2>2 DEF CallbacksAreTrue
<1> QED BY <1>3, <1>4, <1>5

\* It has been made, and is done with: the notifier goes on to its next.
LEMMA CallbackIsDone ==
  ASSUME TypeOK, CallbacksAreTrue, NEW n \in Notifiers,
         notifyPc[n] \in {"callback", "resume"}, CallbackMade(n), UNCHANGED <<awaiters, consumed>>,
         NEW w, w = callbacks[n][1].waiter
  PROVE  /\ callbacks' \in [Notifiers -> Seq(Pending)] /\ notifyPc' \in [Notifiers -> NotifyPc]
         /\ \A v \in Waiters \ {w} : (Due(v)' <=> Due(v)) /\ (Taken(v)' <=> Taken(v))
         /\ ~Due(w)' /\ ~Taken(w)'
         /\ CallbacksAreTrue'
<1> DEFINE s == callbacks[n]
           t == Tail(s)
<1>1. /\ s \in Seq(Pending) /\ s # <<>> /\ 1 \in DOMAIN s /\ Len(s) \in Nat
      /\ \A m \in Notifiers : \A i \in DOMAIN callbacks[m] :
           callbacks[m][i].waiter = w => m = n /\ i = 1
  BY FirstCallback
<1>2. /\ t \in Seq(Pending) /\ (t # <<>> <=> Len(s) # 1)
      /\ \A i \in DOMAIN t : i + 1 \in DOMAIN s /\ i + 1 # 1 /\ t[i] = s[i + 1]
      /\ \A i \in DOMAIN s : i # 1 => i - 1 \in DOMAIN t /\ t[i - 1] = s[i]
  <2>1. /\ t \in Seq(Pending) /\ Len(t) = Len(s) - 1
        /\ \A i \in 1 .. Len(t) : t[i] = s[i + 1]
    BY <1>1, HeadTailProperties
  <2> HIDE DEF s, t
  <2>2. DOMAIN t = 1 .. Len(s) - 1 /\ DOMAIN s = 1 .. Len(s) /\ Len(s) # 0
    BY <1>1, <2>1
  <2>3. t # <<>> <=> Len(s) # 1
    BY <1>1, <2>1, <2>2
  <2>4. \A i \in DOMAIN t : i + 1 \in DOMAIN s /\ i + 1 # 1 /\ t[i] = s[i + 1]
    BY <1>1, <2>1, <2>2
  <2>5. ASSUME NEW i \in DOMAIN s, i # 1 PROVE i - 1 \in DOMAIN t /\ t[i - 1] = s[i]
    <3>1. i - 1 \in DOMAIN t /\ (i - 1) + 1 = i
      BY <1>1, <2>2, <2>5
    <3> QED BY <2>4, <3>1
  <2> QED BY <2>1, <2>3, <2>4, <2>5
<1>3. /\ callbacks' = [callbacks EXCEPT ![n] = t]
      /\ notifyPc' = [notifyPc EXCEPT ![n] = IF Len(s) = 1 THEN "done" ELSE "callback"]
  BY DEF CallbackMade
<1> HIDE DEF t
<1>4. /\ callbacks' \in [Notifiers -> Seq(Pending)] /\ callbacks'[n] = t
      /\ \A m \in Notifiers \ {n} : callbacks'[m] = callbacks[m]
  BY <1>2, <1>3 DEF TypeOK, Pending
<1>5. /\ notifyPc' \in [Notifiers -> NotifyPc]
      /\ notifyPc'[n] = IF Len(s) = 1 THEN "done" ELSE "callback"
      /\ \A m \in Notifiers \ {n} : notifyPc'[m] = notifyPc[m]
  BY <1>3 DEF TypeOK, NotifyPc
<1>6. \A i \in DOMAIN t : t[i].waiter # w
  BY <1>1, <1>2
<1>7. ASSUME NEW v \in Waiters \ {w} PROVE Due(v)' <=> Due(v)
  <2>1. ASSUME NEW m \in Notifiers, NEW i \in DOMAIN callbacks'[m],
               callbacks'[m][i].waiter = v, i = 1 => notifyPc'[m] # "resume"
        PROVE  Due(v)
    <3>1. CASE m = n
      <4>1. i + 1 \in DOMAIN s /\ i + 1 # 1 /\ s[i + 1].waiter = v
        BY <1>2, <1>4, <2>1, <3>1
      <4> QED BY <4>1 DEF Due
    <3>2. CASE m # n
      BY <1>4, <1>5, <2>1, <3>2 DEF Due
    <3> QED BY <3>1, <3>2
  <2>2. ASSUME NEW m \in Notifiers, NEW i \in DOMAIN callbacks[m],
               callbacks[m][i].waiter = v, i = 1 => notifyPc[m] # "resume"
        PROVE  Due(v)'
    <3>1. CASE m = n
      <4>1. i # 1
        BY <2>2, <3>1
      <4>2. i - 1 \in DOMAIN t /\ t[i - 1].waiter = v
        BY <1>2, <2>2, <3>1, <4>1
      <4> QED BY <1>4, <1>5, <4>2 DEF Due
    <3>2. CASE m # n
      BY <1>4, <1>5, <2>2, <3>2 DEF Due
    <3> QED BY <3>1, <3>2
  <2> QED BY <2>1, <2>2 DEF Due
<1>8. ASSUME NEW v \in Waiters \ {w} PROVE Taken(v)' <=> Taken(v)
  BY <1>4, <1>5 DEF Taken
<1>9. ASSUME NEW m \in Notifiers, NEW i \in DOMAIN callbacks'[m] PROVE callbacks'[m][i].waiter # w
  <2>1. CASE m = n
    BY <1>4, <1>6, <2>1
  <2>2. CASE m # n
    BY <1>1, <1>4, <2>2
  <2> QED BY <2>1, <2>2
<1>10. ~Due(w)'
  BY <1>9 DEF Due
<1>11. \A m \in Notifiers : callbacks'[m] # <<>> <=> notifyPc'[m] \in {"callback", "resume"}
  BY <1>2, <1>4, <1>5 DEF CallbacksAreTrue
<1>12. ~Taken(w)'
  <2>1. \A m \in Notifiers : notifyPc'[m] = "resume" => 1 \in DOMAIN callbacks'[m]
    BY <1>4, <1>11
  <2> QED BY <1>9, <2>1 DEF Taken
<1>13. CallbacksAreTrue'
  <2>1. ASSUME NEW m \in Notifiers, NEW i \in DOMAIN callbacks'[m]
        PROVE  \E j \in DOMAIN callbacks[m] :
                 callbacks'[m][i] = callbacks[m][j] /\ (IF m = n THEN j = i + 1 ELSE j = i)
    BY <1>2, <1>4
  <2>2. \A v : Awaits(v)' <=> Awaits(v)
    BY DEF Awaits
  <2>3. ASSUME NEW m \in Notifiers, NEW i \in DOMAIN callbacks'[m], NEW v,
               callbacks'[m][i].waiter = v
        PROVE  ~Awaits(v)' /\ callbacks'[m][i].fails = ~consumed'[v]
    BY <2>1, <2>2, <2>3, CalledBackIsHeld
  <2>4. ASSUME NEW m \in Notifiers, NEW l \in Notifiers,
               NEW i \in DOMAIN callbacks'[m], NEW j \in DOMAIN callbacks'[l],
               callbacks'[m][i].waiter = callbacks'[l][j].waiter
        PROVE  m = l /\ i = j
    <3>1. PICK a \in DOMAIN callbacks[m] :
            callbacks'[m][i] = callbacks[m][a] /\ (IF m = n THEN a = i + 1 ELSE a = i)
      BY <2>1
    <3>2. PICK b \in DOMAIN callbacks[l] :
            callbacks'[l][j] = callbacks[l][b] /\ (IF l = n THEN b = j + 1 ELSE b = j)
      BY <2>1
    <3>3. m = l /\ a = b
      BY <2>4, <3>1, <3>2 DEF CallbacksAreTrue
    <3>4. callbacks'[m] \in Seq(Pending) /\ callbacks'[l] \in Seq(Pending)
      BY <1>4
    <3>5. i \in Int /\ j \in Int
      BY <3>4
    <3> QED BY <3>1, <3>2, <3>3, <3>5
  <2>5. IsInjective(awaiters')
    BY DEF CallbacksAreTrue
  <2> QED BY <1>11, <2>3, <2>4, <2>5 DEF CallbacksAreTrue
<1> QED BY <1>4, <1>5, <1>7, <1>8, <1>10, <1>12, <1>13
\* A notifier's callback, or its resumption, takes or frees nothing but its thread.
LEMMA NotifierGoesOn ==
  ASSUME IInv, NEW n \in Notifiers, notifyPc[n] \in {"callback", "resume"},
         use' = use, execPc' = execPc, UNCHANGED <<cvLock, svcLock>>,
         \A v \in Waiters : timer'[v] = timer[v] \/ (timer[v] = "queued" /\ timer'[v] = "gone"),
         \A m \in Notifiers \ {n} : notifyPc'[m] = notifyPc[m],
         \/ fg' = fg
         \/ /\ n \notin use.background /\ fg' = Nobody
            /\ notifyPc'[n] \notin {"callback", "resume"}
  PROVE  Threads'
<1>1. NotifierHolds(n) /\ n # Nobody
  BY WaitersAssumption DEF IInv, Threads
<1>2. fg' = fg \/ (fg = n /\ fg' = Nobody)
  BY <1>1 DEF NotifierHolds
<1>3. ASSUME NEW v \in Waiters PROVE WaiterHolds(v)'
  <2>1. WaiterHolds(v) /\ v # n /\ v # Nobody
    BY WaitersAssumption DEF IInv, Threads
  <2>2. timer'[v] = timer[v] \/ (timer[v] = "queued" /\ timer'[v] = "gone")
    OBVIOUS
  <2> QED BY <1>2, <2>1, <2>2 DEF WaiterHolds
<1>4. ASSUME NEW m \in Notifiers PROVE NotifierHolds(m)'
  <2>1. NotifierHolds(m) /\ m # Nobody
    BY WaitersAssumption DEF IInv, Threads
  <2>2. CASE m = n
    BY <1>1, <2>2 DEF NotifierHolds
  <2>3. CASE m # n
    BY <1>2, <2>1, <2>3 DEF NotifierHolds
  <2> QED BY <2>2, <2>3
<1> QED BY <1>3, <1>4 DEF Threads

\* ... and changes nothing of the condition.
LEMMA ConditionKept ==
  ASSUME IInv, NEW n \in Notifiers, notifyPc[n] \in {"callback", "resume"}, UNCHANGED cvVars,
         notifyPc'[n] # "idle", \A m \in Notifiers \ {n} : notifyPc'[m] = notifyPc[m]
  PROVE  TokensAreCounted' /\ NoLostWakeup'
<1>1. {m \in Notifiers : notifyPc'[m] # "idle"} = {m \in Notifiers : notifyPc[m] # "idle"}
  OBVIOUS
<1>2. TokensAreCounted'
  BY <1>1 DEF IInv, cvVars, TokensAreCounted, UseTokens
<1>3. NoLostWakeup'
  BY DEF IInv, cvVars, NoLostWakeup
<1> QED BY <1>2, <1>3

LEMMA NotifierResumeKeeps ==
  ASSUME IInv, raced' = {}, NEW n \in Notifiers, NotifierResume(n)
  PROVE  IInv'
<1>1. TypeOK /\ CallbacksAreTrue /\ notifyPc[n] = "resume"
  BY DEF IInv, NotifierResume
<1>2. PICK w \in Waiters : w = callbacks[n][1].waiter /\ Head(callbacks[n]).waiter = w
  BY <1>1, FirstCallback
<1>3. Phase(w) /\ Data(w) /\ Taken(w)
  BY <1>1, <1>2 DEF IInv, Taken
<1>4. /\ serviceState[w] = "Resuming" /\ posted[w] = 0 /\ execPc[w] = "returned"
      /\ timer[w] \in {"none", "gone"} /\ ~Suspends(w) /\ ~Awaits(w)
  BY <1>1, <1>2, <1>3 DEF Phase, Suspends, TimerOf, TypeOK, Timer
<1>5. /\ serviceState' = [serviceState EXCEPT ![w] = "Resumed"]
      /\ posted' = [posted EXCEPT ![w] = 1]
      /\ UNCHANGED <<hasTimeout, exceptionPtr, outcome, late, timer, execPc, cvVars, cvLock, svcLock>>
      /\ CallbackMade(n)
  <2>1. Resume(w) /\ CallbackMade(n) /\ UNCHANGED <<timer, execPc, cvVars, cvLock, svcLock>>
    BY <1>2 DEF NotifierResume
  <2>2. posted' = [posted EXCEPT ![w] = posted[w] + 1]
    BY <1>1, <1>4, <2>1 DEF Resume, TypeOK
  <2> QED BY <1>4, <2>1, <2>2 DEF Resume, AfterResume, history
<1>6. /\ callbacks' \in [Notifiers -> Seq(Pending)] /\ notifyPc' \in [Notifiers -> NotifyPc]
      /\ \A v \in Waiters \ {w} : (Due(v)' <=> Due(v)) /\ (Taken(v)' <=> Taken(v))
      /\ ~Due(w)' /\ ~Taken(w)'
      /\ CallbacksAreTrue'
  BY <1>1, <1>2, <1>5, CallbackIsDone DEF cvVars
<1>7. /\ notifyPc'[n] \in {"callback", "done"}
      /\ \A m \in Notifiers \ {n} : notifyPc'[m] = notifyPc[m]
      /\ \/ fg' = fg
         \/ n \notin use.background /\ fg' = Nobody /\ notifyPc'[n] = "done"
  BY <1>1, <1>5 DEF CallbackMade, TypeOK, BackgroundNotifiers
<1>8. TypeOK'
  <2>1. fg' \in Waiters \cup Notifiers \cup {Nobody}
    BY <1>1, <1>7 DEF TypeOK
  <2> QED BY <1>1, <1>5, <1>6, <2>1 DEF TypeOK, ServiceState, cvVars, Pending
<1>9. \A v \in Waiters : Awaits(v)' <=> Awaits(v)
  BY <1>5 DEF Awaits, cvVars
<1>10. \A v \in Waiters \ {w} : Same(v)
  BY <1>1, <1>5, <1>6, <1>9 DEF Same, TypeOK, cvVars
<1>11. serviceState'[w] = "Resumed" /\ posted'[w] = 1
  BY <1>1, <1>2, <1>5 DEF TypeOK
<1>12. Phase(w)'
  BY <1>2, <1>3, <1>4, <1>5, <1>6, <1>9, <1>11 DEF Phase, Suspends, ExecOf, TimerOf, HasResult, cvVars
<1>13. Data(w)'
  <2>1. /\ outcome[w] = "none"
        /\ exceptionPtr[w] \/ hasTimeout[w] \/ consumed[w]
        /\ consumed[w] => ~exceptionPtr[w] /\ (hasTimeout[w] => w \in late)
    BY <1>3, <1>4 DEF Data, Phase, HasResult
  <2> QED BY <1>4, <1>5, <1>9, <1>11, <2>1 DEF Data, HasResult, cvVars
<1>14. Threads'
  BY <1>1, <1>5, <1>7, NotifierGoesOn DEF cvVars
<1>15. TokensAreCounted' /\ NoLostWakeup'
  BY <1>1, <1>5, <1>7, ConditionKept
<1> QED BY <1>2, <1>5, <1>6, <1>8, <1>10, <1>12, <1>13, <1>14, <1>15, OneMoves DEF cvVars
LEMMA NotifierCallbackKeeps ==
  ASSUME IInv, raced' = {}, NEW n \in Notifiers, NotifierCallback(n)
  PROVE  IInv'
<1>1. TypeOK /\ CallbacksAreTrue /\ notifyPc[n] = "callback"
  BY DEF IInv, NotifierCallback
<1>2. PICK w \in Waiters, fails \in BOOLEAN :
        /\ w = callbacks[n][1].waiter /\ fails = callbacks[n][1].fails
        /\ Head(callbacks[n]).waiter = w /\ Head(callbacks[n]).fails = fails
  BY <1>1, FirstCallback
<1>3. Phase(w) /\ Data(w) /\ WaiterHolds(w) /\ Due(w) /\ fails = ~consumed[w] /\ consumed[w] \in BOOLEAN
  <2>1. 1 \in DOMAIN callbacks[n]
    BY <1>1, FirstCallback
  <2>2. Due(w) /\ callbacks[n][1].fails = ~consumed[w]
    BY <1>1, <1>2, <2>1, CalledBackIsHeld
  <2> QED BY <1>1, <1>2, <2>2 DEF IInv, Threads, TypeOK
<1>4. Callback(w, fails) /\ svcLock = Nobody /\ w # Nobody
  BY <1>2, WaitersAssumption DEF NotifierCallback, Callback
<1>5. /\ Suspends(w) /\ ~Awaits(w) /\ posted[w] = 0 /\ execPc[w] # "cancel"
      /\ timer[w] # "cancel" /\ ~exceptionPtr[w]
      /\ serviceState[w] \in {"Executing", "ExecutingTimedOut", "Executed"}
  BY <1>1, <1>3, <1>4 DEF Phase, HasResult, Data, Suspends, WaiterHolds
<1>6. ~Taken(w)
  BY <1>3, <1>5 DEF Phase
<1> DEFINE throws == exceptionPtr[w] \/ fails
<1>7. /\ exceptionPtr' = [exceptionPtr EXCEPT ![w] = throws]
      /\ UNCHANGED <<posted, outcome, execPc, cvVars, cvLock, svcLock>>
  BY <1>4 DEF Callback, HasException, NotifierCallback
<1>8. throws \in BOOLEAN /\ (throws <=> ~consumed[w])
  BY <1>1, <1>3, <1>5 DEF TypeOK
<1>9. exceptionPtr' \in [Waiters -> BOOLEAN] /\ exceptionPtr'[w] = ~consumed[w]
  BY <1>1, <1>3, <1>7, <1>8 DEF TypeOK
<1> HIDE DEF throws
<1>10. hasTimeout' = hasTimeout
  <2>1. hasTimeout' = [hasTimeout EXCEPT ![w] = hasTimeout[w] /\ TRUE]
    BY <1>4, <1>5 DEF Callback, ResumeClearsTimeout
  <2> QED BY <1>1, <2>1 DEF TypeOK
<1>11. /\ late' \subseteq Waiters /\ late \subseteq late'
       /\ serviceState[w] = "ExecutingTimedOut" => w \in late'
  BY <1>1, <1>4 DEF Callback, TypeOK
<1>12. \A v \in Waiters : Awaits(v)' <=> Awaits(v)
  BY <1>7 DEF Awaits, cvVars
<1>13. CASE serviceState[w] = "Executed" /\ timer[w] # "inFlight"
  <2>1. execPc[w] = "returned" /\ timer[w] \in {"none", "queued"}
    BY <1>3, <1>5, <1>13 DEF Phase, ExecOf, TimerOf
  <2>2. /\ AfterCallback(w) = "Resuming"
        /\ serviceState' = [serviceState EXCEPT ![w] = "Resuming"]
    BY <1>4, <1>13, <2>1 DEF AfterCallback, AfterOnResume, TimeoutIsCancelled, Callback
  <2>3. /\ timer' \in [Waiters -> Timer] /\ timer'[w] \in {"none", "gone"}
        /\ timer[w] = "none" => timer'[w] = "none"
        /\ \A v \in Waiters \ {w} : timer'[v] = timer[v]
        /\ timer[w] = "queued" => timer'[w] = "gone"
    BY <1>1, <1>4, <1>13, <2>1 DEF Callback, CancelTimeout, ResumeCancelsTimeout, TypeOK, Timer
  <2>4. notifyPc' = [notifyPc EXCEPT ![n] = "resume"] /\ UNCHANGED <<callbacks, fg>>
    BY <1>2, <2>2 DEF NotifierCallback
  <2>5. /\ \A v \in Waiters \ {w} : (Due(v)' <=> Due(v)) /\ (Taken(v)' <=> Taken(v))
        /\ ~Due(w)' /\ Taken(w)'
        /\ CallbacksAreTrue'
    BY <1>1, <1>2, <1>7, <2>4, CallbackIsTaken DEF cvVars
  <2>6. /\ TypeOK' /\ serviceState'[w] = "Resuming" /\ notifyPc'[n] = "resume"
        /\ \A m \in Notifiers \ {n} : notifyPc'[m] = notifyPc[m]
    BY <1>1, <1>4, <1>7, <1>9, <1>10, <1>11, <2>2, <2>3, <2>4
       DEF TypeOK, Callback, ServiceState, NotifyPc, cvVars
  <2>7. \A v \in Waiters \ {w} : Same(v)
    BY <1>1, <1>7, <1>10, <1>11, <1>12, <2>2, <2>3, <2>5 DEF Same, TypeOK, cvVars
  <2>8. Phase(w)'
    BY <1>3, <1>5, <1>7, <1>10, <1>12, <1>13, <2>1, <2>3, <2>5, <2>6
       DEF Phase, Suspends, ExecOf, TimerOf, HasResult, cvVars
  <2>9. Data(w)'
    <3>1. ~hasTimeout[w] /\ outcome[w] = "none" /\ execPc'[w] = "returned"
      BY <1>3, <1>5, <1>7, <1>13, <2>1 DEF Data
    <3> QED BY <1>7, <1>9, <1>10, <1>12, <1>5, <2>3, <2>6, <3>1 DEF Data, HasResult, cvVars
  <2>10. Threads'
    <3>1. \A v \in Waiters : timer'[v] = timer[v] \/ (timer[v] = "queued" /\ timer'[v] = "gone")
      BY <2>1, <2>3
    <3> QED BY <1>1, <1>7, <2>4, <2>6, <3>1, NotifierGoesOn DEF cvVars
  <2>11. TokensAreCounted' /\ NoLostWakeup'
    BY <1>1, <1>7, <2>6, ConditionKept
  <2> QED BY <1>7, <2>5, <2>6, <2>7, <2>8, <2>9, <2>10, <2>11, OneMoves DEF cvVars
<1>14. CASE serviceState[w] # "Executed" \/ timer[w] = "inFlight"
  <2> DEFINE next == CASE serviceState[w] = "Executing"         -> "ExecutingResumed"
                       [] serviceState[w] = "ExecutingTimedOut" -> "ExecutingTimedOutAndResumed"
                       [] OTHER                                 -> "ResumedTimeoutInFlight"
  <2>1. /\ AfterCallback(w) = next
        /\ serviceState' = [serviceState EXCEPT ![w] = next]
    BY <1>4, <1>5, <1>14 DEF AfterCallback, AfterOnResume, TimeoutIsCancelled, Callback
  <2>2. timer' = timer
    <3>1. \/ ~ResumeCancelsTimeout(serviceState[w])
          \/ timer[w] # "queued"
      BY <1>5, <1>14 DEF ResumeCancelsTimeout
    <3> QED BY <1>1, <1>4, <3>1 DEF Callback, CancelTimeout, TypeOK
  <2>3. next # "Resuming"
    OBVIOUS
  <2>4. CallbackMade(n)
    BY <1>2, <2>1, <2>3 DEF NotifierCallback
  <2>5. /\ callbacks' \in [Notifiers -> Seq(Pending)] /\ notifyPc' \in [Notifiers -> NotifyPc]
        /\ \A v \in Waiters \ {w} : (Due(v)' <=> Due(v)) /\ (Taken(v)' <=> Taken(v))
        /\ ~Due(w)' /\ ~Taken(w)'
        /\ CallbacksAreTrue'
    BY <1>1, <1>2, <1>7, <2>4, CallbackIsDone DEF cvVars
  <2>6. /\ notifyPc'[n] \in {"callback", "done"}
        /\ \A m \in Notifiers \ {n} : notifyPc'[m] = notifyPc[m]
        /\ \/ fg' = fg
           \/ n \notin use.background /\ fg' = Nobody /\ notifyPc'[n] = "done"
    BY <1>1, <2>4 DEF CallbackMade, TypeOK, BackgroundNotifiers
  <2>7. next \in ServiceState
    BY DEF ServiceState
  <2>8. TypeOK' /\ serviceState'[w] = next
    <3>1. fg' \in Waiters \cup Notifiers \cup {Nobody}
      BY <1>1, <2>6 DEF TypeOK
    <3>2. raced' \subseteq Waiters
      OBVIOUS
    <3> HIDE DEF next
    <3> QED BY <1>1, <1>7, <1>9, <1>10, <1>11, <2>1, <2>2, <2>5, <2>7, <3>1, <3>2
            DEF TypeOK, cvVars, Pending
  <2>9. \A v \in Waiters \ {w} : Same(v)
    <3> HIDE DEF next
    <3> QED BY <1>1, <1>7, <1>10, <1>11, <1>12, <2>1, <2>2, <2>5 DEF Same, TypeOK, cvVars
  <2>10. Phase(w)'
    <3>1. execPc[w] = IF serviceState[w] = "Executed" THEN "returned" ELSE "executed"
      BY <1>3, <1>5 DEF Phase, ExecOf, Suspends
    <3> QED BY <1>3, <1>5, <1>7, <1>10, <1>12, <1>14, <2>2, <2>5, <2>8, <3>1
            DEF Phase, Suspends, ExecOf, TimerOf, HasResult, cvVars
  <2>11. Data(w)'
    <3>1. /\ outcome[w] = "none" /\ execPc'[w] \in {"executed", "returned"}
          /\ hasTimeout[w] <=> serviceState[w] = "ExecutingTimedOut"
      BY <1>3, <1>5, <1>7 DEF Data, Phase, ExecOf, Suspends
    <3>2. consumed[w] /\ hasTimeout[w] => w \in late'
      BY <1>11, <3>1
    <3>3. next \in HasResult /\ (next = "ExecutingTimedOutAndResumed" <=> hasTimeout[w])
      BY <1>5, <3>1 DEF HasResult
    <3>4. timer'[w] # "cancel" /\ ~Awaits(w)'
      BY <1>5, <1>12, <2>2
    <3>5. next \notin {"Idle", "ExecutingTimedOut", "Resuming", "Resumed"}
      OBVIOUS
    <3> HIDE DEF next
    <3> QED BY <1>7, <1>9, <1>10, <2>8, <3>1, <3>2, <3>3, <3>4, <3>5 DEF Data, cvVars
  <2>12. Threads'
    BY <1>1, <1>7, <2>2, <2>6, NotifierGoesOn DEF cvVars
  <2>13. TokensAreCounted' /\ NoLostWakeup'
    BY <1>1, <1>7, <2>6, ConditionKept
  <2> QED BY <1>7, <2>5, <2>8, <2>9, <2>10, <2>11, <2>12, <2>13, OneMoves DEF cvVars
<1> QED BY <1>13, <1>14
-----------------------------------------------------------------------------
(* The theorems. *)

LEMMA InitHolds == Init => IInv
<1> SUFFICES ASSUME Init PROVE IInv
  OBVIOUS
<1> USE DEF Init
<1>1. TypeOK
  <2>1. <<>> \in Seq(Waiters) /\ <<>> \in Seq([waiter : Waiters, fails : BOOLEAN])
    OBVIOUS
  <2>2. 0 \in 0 .. Cardinality(Notifiers)
    BY WaitersAssumption, FS_CardinalityType
  <2> QED BY <2>1, <2>2 DEF TypeOK, ServiceState, ExecPc, NotifyPc, Timer
<1>2. \A w : ~Awaits(w)
  BY DEF Awaits
<1>3. \A n \in Notifiers : callbacks[n] = <<>> /\ notifyPc[n] = "idle" /\ DOMAIN callbacks[n] = {}
  OBVIOUS
<1>4. CallbacksAreTrue
  BY <1>3, EmptyList DEF CallbacksAreTrue
<1>5. \A w : ~Due(w) /\ ~Taken(w)
  BY <1>3 DEF Due, Taken
<1>6. Threads
  BY WaitersAssumption DEF Threads, WaiterHolds, NotifierHolds
<1>7. TokensAreCounted
  <2>1. {n \in Notifiers : notifyPc[n] # "idle"} = {}
    OBVIOUS
  <2>2. Cardinality({}) = 0
    BY FS_EmptySet
  <2> HIDE DEF Init
  <2>3. tokens = 0 /\ ~closed
    BY DEF Init
  <2> QED BY <2>1, <2>2, <2>3 DEF TokensAreCounted
<1>8. NoLostWakeup
  BY DEF NoLostWakeup
<1>9. ASSUME NEW w \in Waiters PROVE Phase(w) /\ Data(w)
  <2>1. Phase(w)
    BY <1>2, <1>5 DEF Phase, Suspends, ExecOf, TimerOf, HasResult
  <2>2. Data(w)
    BY DEF Data, HasResult
  <2> QED BY <2>1, <2>2
<1> QED BY <1>1, <1>4, <1>6, <1>7, <1>8, <1>9 DEF IInv

LEMMA StutterKeeps ==
  ASSUME IInv, UNCHANGED vars
  PROVE  IInv'
<1>1. /\ UNCHANGED <<cvVars, callbacks, notifyPc>> /\ use' = use
      /\ UNCHANGED <<serviceVars, execPc, cvLock, svcLock, fg>>
  BY DEF vars, cvVars
<1>2. /\ \A v \in Waiters : /\ Awaits(v)' <=> Awaits(v)
                            /\ Due(v)' <=> Due(v)
                            /\ Taken(v)' <=> Taken(v)
      /\ CallbacksAreTrue' /\ TokensAreCounted' /\ NoLostWakeup'
  BY <1>1, CvKept
<1>3. \A v \in Waiters : Same(v)
  BY <1>1, <1>2 DEF Same, serviceVars, history, cvVars
<1>4. \A v \in Waiters : Phase(v)' /\ Data(v)'
  BY <1>1, <1>3, SameKeeps DEF IInv
<1>5. TypeOK'
  BY <1>1 DEF IInv, TypeOK, serviceVars, history, cvVars
<1>6. Threads'
  BY <1>1 DEF IInv, Threads, WaiterHolds, NotifierHolds, serviceVars
<1> QED BY <1>2, <1>4, <1>5, <1>6 DEF IInv

\* A step of a running process, as long as no wait has been cancelled that will be
\* called back.
LEMMA RunKeeps ==
  ASSUME IInv, Next, raced' = {}
  PROVE  IInv'
<1>1. ASSUME NEW w \in Waiters, HomeStep(w) PROVE IInv'
  BY <1>1, ExecuteDoneKeeps, ExecuteWaitKeeps, ExecutePastTimeoutKeeps, ExecuteCallbackKeeps,
     OnExecutedKeeps, ExecutedCancelKeeps, ExecResumeKeeps DEF HomeStep
<1>2. ASSUME NEW w \in Waiters, TimerStep(w) PROVE IInv'
  BY <1>2, PopTimerKeeps, OnTimedOutKeeps, TimerCancelKeeps, TimerResumeKeeps DEF TimerStep
<1>3. ASSUME NEW w \in Waiters, AwaitSuspend(w) \/ AwaitResume(w) PROVE IInv'
  BY <1>3, AwaitSuspendKeeps, AwaitResumeKeeps
<1>4. ASSUME NEW n \in Notifiers, Operation(n) PROVE IInv'
  <2>1. ASSUME NEW added \in IF UseTokens THEN 0 .. 1 ELSE {0}, Notify(n, added) PROVE IInv'
    BY <2>1, NotifyNobodyKeeps, NotifyHeadKeeps, NotifyInVainKeeps DEF Notify
  <2>2. CASE NotifyAll(n, 0, UseTokens)
    <3>1. PICK closing \in BOOLEAN : closing = UseTokens
      BY DEF UseTokens
    <3>2. NotifyAll(n, 0, closing)
      BY <2>2, <3>1 DEF NotifyAll
    <3> QED BY <3>1, <3>2, NotifyAllKeeps
  <2>3. CASE UseTokens /\ NotifyAll(n, 1, FALSE)
    BY <2>3, NotifyAllKeeps
  <2>4. CASE Destroy(n)
    BY <2>4, DestroyKeeps
  <2> QED BY <1>4, <2>1, <2>2, <2>3, <2>4 DEF Operation
<1>5. ASSUME NEW n \in Notifiers, NotifierStep(n) PROVE IInv'
  BY <1>5, NotifierCallbackKeeps, NotifierResumeKeeps DEF NotifierStep
<1>6. ASSUME UNCHANGED vars PROVE IInv'
  BY <1>6, StutterKeeps
<1> QED BY <1>1, <1>2, <1>3, <1>4, <1>5, <1>6 DEF Next, Terminating

\* raced only grows, and raced and late grow only where a thread meets a timeout.
LEMMA RacesGrow == Next => raced \subseteq raced' /\ late \subseteq late' /\ use' = use
<1>1. UNCHANGED serviceVars => raced \subseteq raced' /\ late \subseteq late'
  BY DEF serviceVars, history
<1>2. ASSUME NEW w \in Waiters, HomeStep(w) \/ TimerStep(w) \/ AwaitSuspend(w) \/ AwaitResume(w)
      PROVE  raced \subseteq raced' /\ late \subseteq late' /\ use' = use
  BY <1>1, <1>2 DEF HomeStep, TimerStep, AwaitSuspend, AwaitResume, ExecuteDone, ExecuteWait,
       ExecutePastTimeout, ExecuteCallback, OnExecuted, ExecutedCancel, ExecResume, PopTimer,
       OnTimedOut, TimerCancel, TimerResume, CancelAwaiter, Cancelled, Callback, Resume,
       history, cvVars
<1>3. ASSUME NEW n \in Notifiers, Operation(n) \/ NotifierStep(n)
      PROVE  raced \subseteq raced' /\ late \subseteq late' /\ use' = use
  BY <1>1, <1>3 DEF Operation, NotifierStep, Notify, NotifyNobody, NotifyHead, NotifyInVain,
       NotifyAll, Destroy, NotifierCallback, NotifierResume, Callback, Resume, history, cvVars
<1>4. UNCHANGED vars => raced \subseteq raced' /\ late \subseteq late' /\ use' = use
  BY DEF vars, serviceVars, history, cvVars
<1> QED BY <1>2, <1>3, <1>4 DEF Next, Terminating

\* Who is called back is with a notifier; if the wait's timeout is being handled, or
\* its Execute() is just returning, one of the two is not on the foreground thread.
LEMMA TwoThreads ==
  ASSUME IInv, NEW w \in Waiters, Due(w),
         \/ execPc[w] \in {"executed", "cancel"}
         \/ timer[w] \in {"inFlight", "cancel"}
  PROVE  PoolWaiters \cup BackgroundNotifiers # {}
<1>1. PICK n \in Notifiers : callbacks[n] # <<>>
  BY PendingTypes DEF Due, IInv
<1>2. NotifierHolds(n) /\ WaiterHolds(w) /\ notifyPc[n] \in {"callback", "resume"} /\ w # n
  BY <1>1, WaitersAssumption DEF IInv, CallbacksAreTrue, Threads
<1> QED BY <1>2 DEF NotifierHolds, WaiterHolds, PoolWaiters, BackgroundNotifiers

LEMMA RacesStay ==
  ASSUME IInv, RacesNeedThreads, Next
  PROVE  RacesNeedThreads'
<1>1. use' = use
  BY RacesGrow
<1> DEFINE Racing(w) == /\ Due(w) /\ (timer[w] # "none" \/ hasTimeout[w])
                        /\ \/ execPc[w] \in {"executed", "cancel"}
                           \/ timer[w] \in {"inFlight", "cancel"}
<1>2. ASSUME NEW w \in Waiters, Racing(w) PROVE RacesNeedThreads'
  <2>1. PoolWaiters \cup BackgroundNotifiers # {}
    BY <1>2, TwoThreads
  <2>2. w \in use.timed \cup use.past
    BY <1>2 DEF IInv, Phase
  <2> QED BY <1>1, <2>1, <2>2
          DEF RacesNeedThreads, TimedWaiters, PastWaiters, PoolWaiters, BackgroundNotifiers
<1>3. UNCHANGED history => RacesNeedThreads'
  BY <1>1 DEF RacesNeedThreads, history, TimedWaiters, PastWaiters, PoolWaiters,
              BackgroundNotifiers
<1>4. ASSUME NEW w \in Waiters, ~Awaits(w), Suspends(w), execPc[w] # "past" PROVE Due(w)
  BY <1>4 DEF IInv, Phase
<1>5. ASSUME NEW w \in Waiters, OnExecuted(w) PROVE RacesNeedThreads'
  <2>1. Phase(w) /\ Data(w) /\ TypeOK
    BY DEF IInv
  <2>2. CASE serviceState[w] = "ExecutingTimedOut" /\ ~Awaits(w)
    <3>1. Racing(w)
      BY <1>4, <1>5, <2>1, <2>2 DEF OnExecuted, Suspends, Data
    <3> QED BY <1>2, <3>1
  <2>3. CASE ~(serviceState[w] = "ExecutingTimedOut" /\ ~Awaits(w))
    BY <1>3, <1>5, <2>3 DEF OnExecuted, Cancelled, ExecutedCancelsResume, history
  <2> QED BY <2>2, <2>3
<1>6. ASSUME NEW w \in Waiters, OnTimedOut(w) PROVE RacesNeedThreads'
  <2>1. Phase(w) /\ timer[w] = "inFlight"
    BY <1>6 DEF IInv, OnTimedOut
  <2>2. CASE serviceState[w] = "Executed" /\ ~Awaits(w)
    <3>1. Racing(w)
      BY <1>4, <2>1, <2>2 DEF Suspends, Phase, ExecOf
    <3> QED BY <1>2, <3>1
  <2>3. CASE ~(serviceState[w] = "Executed" /\ ~Awaits(w))
    BY <1>3, <1>6, <2>3 DEF OnTimedOut, Cancelled, TimedOutCancelsResume, history
  <2> QED BY <2>2, <2>3
<1>7. ASSUME NEW w \in Waiters, ExecutedCancel(w) PROVE RacesNeedThreads'
  <2>1. Phase(w) /\ Data(w) /\ execPc[w] = "cancel"
    BY <1>7 DEF IInv, ExecutedCancel
  <2>2. CASE ~Awaits(w)
    <3>1. serviceState[w] = "ExecutingTimedOut"
      BY <2>1 DEF Phase, ExecOf, HasResult
    <3>2. Racing(w)
      BY <1>4, <2>1, <2>2, <3>1 DEF Suspends, Data
    <3> QED BY <1>2, <3>2
  <2>3. CASE Awaits(w)
    BY <1>3, <1>7, <2>3 DEF ExecutedCancel, CancelAwaiter, Cancelled, history
  <2> QED BY <2>2, <2>3
<1>8. ASSUME NEW w \in Waiters, TimerCancel(w) PROVE RacesNeedThreads'
  <2>1. Phase(w) /\ timer[w] = "cancel"
    BY <1>8 DEF IInv, TimerCancel
  <2>2. CASE ~Awaits(w)
    <3>1. serviceState[w] = "Executed" /\ execPc[w] = "returned"
      BY <2>1 DEF Phase, ExecOf, TimerOf, HasResult
    <3>2. Racing(w)
      BY <1>4, <2>1, <2>2, <3>1 DEF Suspends
    <3> QED BY <1>2, <3>2
  <2>3. CASE Awaits(w)
    BY <1>3, <1>8, <2>3 DEF TimerCancel, CancelAwaiter, Cancelled, history
  <2> QED BY <2>2, <2>3
<1>9. ASSUME NEW n \in Notifiers, NotifierCallback(n) PROVE RacesNeedThreads'
  <2>1. /\ TypeOK /\ CallbacksAreTrue /\ notifyPc[n] = "callback"
    BY <1>9 DEF IInv, NotifierCallback
  <2>2. PICK w \in Waiters :
          w = callbacks[n][1].waiter /\ Head(callbacks[n]).waiter = w /\ 1 \in DOMAIN callbacks[n]
    BY <2>1, FirstCallback
  <2>3. Due(w) /\ Phase(w) /\ Data(w)
    BY <2>1, <2>2, CalledBackIsHeld DEF IInv
  <2>4. CASE serviceState[w] = "ExecutingTimedOut"
    <3>1. Racing(w)
      BY <2>3, <2>4 DEF Phase, ExecOf, Data
    <3> QED BY <1>2, <3>1
  <2>5. CASE serviceState[w] # "ExecutingTimedOut"
    BY <1>3, <1>9, <2>2, <2>5 DEF NotifierCallback, Callback, history
  <2> QED BY <2>4, <2>5
<1>10. ASSUME NEW w \in Waiters, ExecuteCallback(w) PROVE RacesNeedThreads'
  <2>1. serviceState[w] # "ExecutingTimedOut"
    BY <1>10 DEF ExecuteCallback, IInv, Phase, ExecOf
  <2> QED BY <1>3, <1>10, <2>1 DEF ExecuteCallback, Callback, history
<1>11. ASSUME NEW w \in Waiters,
              HomeStep(w) \/ TimerStep(w) \/ AwaitSuspend(w) \/ AwaitResume(w)
       PROVE  RacesNeedThreads'
  <2>1. CASE \/ AwaitSuspend(w) \/ AwaitResume(w) \/ ExecuteDone(w) \/ ExecuteWait(w)
             \/ ExecutePastTimeout(w) \/ ExecResume(w) \/ PopTimer(w) \/ TimerResume(w)
    BY <1>3, <2>1 DEF AwaitSuspend, AwaitResume, ExecuteDone, ExecuteWait,
         ExecutePastTimeout, ExecResume, PopTimer, TimerResume, Resume, serviceVars, history
  <2> QED BY <1>5, <1>6, <1>7, <1>8, <1>10, <1>11, <2>1 DEF HomeStep, TimerStep
<1>12. ASSUME NEW n \in Notifiers, Operation(n) \/ NotifierStep(n) PROVE RacesNeedThreads'
  <2>1. CASE Operation(n) \/ NotifierResume(n)
    BY <1>3, <2>1 DEF Operation, Notify, NotifyNobody, NotifyHead, NotifyInVain, NotifyAll,
         Destroy, NotifierResume, Resume, serviceVars, history
  <2> QED BY <1>9, <1>12, <2>1 DEF NotifierStep
<1>13. UNCHANGED vars => RacesNeedThreads'
  BY <1>3 DEF vars, serviceVars, history
<1> QED BY <1>11, <1>12, <1>13 DEF Next, Terminating

LEMMA NextKeeps ==
  ASSUME Inv, [Next]_vars
  PROVE  Inv'
<1>1. CASE Next
  <2>1. raced \subseteq raced' /\ late \subseteq late' /\ use' = use
    BY <1>1, RacesGrow
  <2>2. CASE raced = {}
    <3>1. IInv /\ RacesNeedThreads
      BY <2>2 DEF Inv
    <3>2. RacesNeedThreads' /\ (raced' = {} => IInv')
      BY <1>1, <3>1, RacesStay, RunKeeps
    <3> QED BY <3>2 DEF Inv
  <2>3. CASE raced # {}
    <3>1. raced' # {}
      BY <2>1, <2>3
    <3>2. RacesNeedThreads'
      BY <2>1, <2>3 DEF Inv, RacesNeedThreads, TimedWaiters, PastWaiters, PoolWaiters,
                        BackgroundNotifiers
    <3> QED BY <3>1, <3>2 DEF Inv
  <2> QED BY <2>2, <2>3
<1>2. CASE UNCHANGED vars
  <2>1. raced' = raced /\ late' = late /\ use' = use
    BY <1>2 DEF vars, serviceVars, history, cvVars
  <2>2. RacesNeedThreads'
    BY <2>1 DEF Inv, RacesNeedThreads, TimedWaiters, PastWaiters, PoolWaiters,
                BackgroundNotifiers
  <2>3. raced' = {} => IInv'
    BY <1>2, <2>1, StutterKeeps DEF Inv
  <2> QED BY <2>2, <2>3 DEF Inv
<1> QED BY <1>1, <1>2

\* The strengthened invariant holds of every reachable state until a race is lost, and
\* no race is lost without a timeout and another thread.
THEOREM Invariance == Spec => []Inv
<1>1. Init => Inv
  BY InitHolds DEF Init, Inv, RacesNeedThreads
<1>2. Inv /\ [Next]_vars => Inv'
  BY NextKeeps
<1> QED BY <1>1, <1>2, PTL DEF Spec

\* A wait is resumed once, by a state machine in a state it expects, and by then nobody
\* has its awaiter any more: on the list, in a timer or in a callback.
THEOREM ResumptionIsLast == Spec => []ResumedOnce
<1>1. Inv => ResumedOnce
  <2> SUFFICES ASSUME Inv, raced = {} PROVE NoInvalidState /\ NoUseAfterResume
    BY DEF ResumedOnce, Inv
  <2> IInv
    BY DEF Inv
  <2>1. ASSUME NEW w \in Waiters PROVE serviceState[w] # Terminated
    BY DEF IInv, Phase, HasResult, Terminated
  <2>2. ASSUME NEW w \in Waiters, posted[w] > 0
        PROVE  /\ posted[w] = 1 /\ execPc[w] = "returned" /\ timer[w] \in {"none", "gone"}
               /\ ~Awaits(w)
               /\ \A n \in Notifiers : \A i \in 1 .. Len(callbacks[n]) :
                    callbacks[n][i].waiter # w
    <3>1. TypeOK /\ Phase(w) /\ CallbacksAreTrue
      BY DEF IInv
    <3>2. serviceState[w] = "Resumed" /\ posted[w] = 1 /\ execPc[w] = "returned"
      BY <2>2, <3>1 DEF Phase, ExecOf
    <3>3. ~Awaits(w) /\ ~Due(w) /\ ~Taken(w) /\ timer[w] \in {"none", "gone"}
      BY <3>1, <3>2 DEF Phase, Suspends, TimerOf
    <3>4. ASSUME NEW n \in Notifiers, NEW i \in 1 .. Len(callbacks[n])
          PROVE  callbacks[n][i].waiter # w
      <4>1. i \in DOMAIN callbacks[n]
        BY <3>1, PendingTypes
      <4> QED BY <3>1, <3>3, <4>1, CalledBackIsHeld
    <3> QED BY <3>2, <3>3, <3>4
  <2> QED BY <2>1, <2>2 DEF NoInvalidState, IsRunning, NoUseAfterResume
<1> QED BY <1>1, Invariance, PTL

\* Nobody is left waiting for what is there, a token taken for a waiter is returned to
\* it, and nobody returns normally without one.
THEOREM NotificationsAreKept == Spec => []Wakeups
<1>1. Inv => Wakeups
  <2> SUFFICES ASSUME Inv, raced = {}
               PROVE  TypeOK /\ NoLostWakeup /\ NoTokenIsLost /\ NoSpuriousWakeup
    BY DEF Wakeups
  <2> IInv
    BY DEF Inv
  <2>1. ASSUME NEW w \in Waiters
        PROVE  TokenIsNotLost(w) /\ (outcome[w] = "value" => consumed[w])
    <3>1. TypeOK /\ Phase(w) /\ Data(w)
      BY DEF IInv
    <3>2. CASE outcome[w] = "none"
      BY <3>2 DEF TokenIsNotLost
    <3>3. CASE outcome[w] # "none"
      <4>1. /\ serviceState[w] = "Resumed"
            /\ outcome[w] = AwaitOutcome(exceptionPtr[w], hasTimeout[w])
            /\ exceptionPtr[w] \/ hasTimeout[w] \/ consumed[w]
            /\ consumed[w] => ~exceptionPtr[w] /\ (hasTimeout[w] => w \in late)
        BY <3>1, <3>3 DEF Phase, Suspends, HasResult, ExecOf, Data
      <4> QED BY <3>1, <4>1 DEF AwaitOutcome, TokenIsNotLost
    <3> QED BY <3>2, <3>3
  <2> QED BY <2>1 DEF IInv, NoTokenIsLost, NoSpuriousWakeup
<1> QED BY <1>1, Invariance, PTL
=============================================================================
