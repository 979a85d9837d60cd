------------------------ MODULE MutexAndService_proofs ------------------------
(***************************************************************************)
(* The proofs about CoMutex, a lock that coroutines await, and CoService,  *)
(* the state machine of every such wait.                                   *)
(***************************************************************************)
EXTENDS CoMutex, CoService, SequenceTheorems, TLAPS

-----------------------------------------------------------------------------
(***************************************************************************)
(* CoMutex is a mutex, and a FIFO one, for any set of clients.             *)
(* MutualExclusion is not inductive alone: Unlock() grants the lock to the *)
(* head of the awaiters, so one must know that whoever is on that list is  *)
(* suspended and is on it once, and that the list is empty when the mutex  *)
(* is free.                                                                *)
(***************************************************************************)

\* What holds of a destroyed mutex.
NothingLeft == deleted => /\ awaiters = <<>>
                          /\ \A c \in Clients : pc[c] \in {"idle", "closed", "ended"}
\* Only destruction closes.
OnlyThenClosed == \A c \in Clients : pc[c] = "closed" => deleted

MutexInv == /\ MutexTypeOK
            /\ MutualExclusion
            /\ NoStrandedAwaiter
            /\ AwaitersAreSuspended
            /\ NothingLeft
            /\ OnlyThenClosed

\* Entries of a list with one more element, or with one less in front.
LEMMA AppendEntries ==
  ASSUME NEW S, NEW s \in Seq(S), NEW e \in S
  PROVE  /\ Append(s, e) \in Seq(S) /\ Append(s, e) # <<>>
         /\ DOMAIN Append(s, e) = DOMAIN s \cup {Len(s) + 1}
         /\ Len(s) + 1 \notin DOMAIN s
         /\ \A i \in DOMAIN s : Append(s, e)[i] = s[i]
         /\ Append(s, e)[Len(s) + 1] = e
  OBVIOUS

LEMMA TailEntries ==
  ASSUME NEW S, NEW s \in Seq(S), s # <<>>
  PROVE  /\ Tail(s) \in Seq(S) /\ Head(s) \in S /\ Head(s) = s[1] /\ 1 \in DOMAIN s
         /\ DOMAIN Tail(s) = {i \in Nat : i + 1 \in DOMAIN s /\ i # 0}
         /\ \A i \in DOMAIN Tail(s) : Tail(s)[i] = s[i + 1]
         /\ \A i \in DOMAIN s : i = 1 \/ (i - 1 \in DOMAIN Tail(s) /\ s[i] = Tail(s)[i - 1])
  OBVIOUS

\* The strengthened invariant holds of every reachable state.
THEOREM MutexInvariance == MutexSpec => []MutexInv
<1>1. MutexInit => MutexInv
  <2> SUFFICES ASSUME MutexInit PROVE MutexInv
    OBVIOUS
  <2> USE DEF MutexInit
  <2>1. MutexTypeOK
    <3>1. <<>> \in Seq(Clients)
      OBVIOUS
    <3> QED BY <3>1 DEF MutexTypeOK, Pc
  <2>2. MutualExclusion
    BY DEF MutualExclusion, Owns
  <2>3. AwaitersAreSuspended
    BY DEF AwaitersAreSuspended
  <2>4. NoStrandedAwaiter /\ NothingLeft /\ OnlyThenClosed
    BY DEF NoStrandedAwaiter, NothingLeft, OnlyThenClosed
  <2> QED BY <2>1, <2>2, <2>3, <2>4 DEF MutexInv
<1>2. MutexInv /\ [MutexNext]_mutexVars => MutexInv'
  <2> SUFFICES ASSUME MutexInv, [MutexNext]_mutexVars PROVE MutexInv'
    OBVIOUS
  <2> USE DEF MutexInv, MutexTypeOK, Pc, Owns, TestSucceeds, AddAwaiter, HandsOver, OnlyThenClosed
  <2>1. ASSUME NEW c \in Clients, CoLock(c) PROVE MutexInv'
    <3>1. CASE ~locked
      <4>1. /\ awaiters = <<>> /\ awaiters' = <<>>
            /\ locked' = TRUE /\ pc' = [pc EXCEPT ![c] = "granted"]
            /\ ~deleted /\ deleted' = deleted /\ touched' = touched
        BY <2>1, <3>1 DEF CoLock, NoStrandedAwaiter
      <4>2. \A d \in Clients : ~Owns(d)
        BY <4>1, <3>1 DEF MutualExclusion
      <4> QED BY <2>1, <3>1, <4>1, <4>2 DEF CoLock, MutualExclusion, NoStrandedAwaiter,
                 AwaitersAreSuspended, NothingLeft
    <3>2. CASE locked
      <4>1. /\ awaiters' = Append(awaiters, c) /\ locked' = locked
            /\ pc[c] = "idle" /\ pc' = [pc EXCEPT ![c] = "waiting"]
            /\ ~deleted /\ deleted' = deleted /\ touched' = touched
        BY <2>1, <3>2 DEF CoLock
      <4>2. MutexTypeOK' /\ MutualExclusion' /\ NoStrandedAwaiter' /\ NothingLeft' /\ OnlyThenClosed'
        BY <4>1, <3>2, AppendEntries DEF MutualExclusion, NoStrandedAwaiter, NothingLeft
      <4>3. \A d \in Clients : pc'[d] = "waiting" <=> pc[d] = "waiting" \/ d = c
        BY <4>1
      <4>4. /\ DOMAIN awaiters' = DOMAIN awaiters \cup {Len(awaiters) + 1}
            /\ \A i \in DOMAIN awaiters : awaiters'[i] = awaiters[i]
            /\ awaiters'[Len(awaiters) + 1] = c
        BY <4>1, AppendEntries
      <4>5. \A i \in DOMAIN awaiters : awaiters[i] # c
        BY <4>1 DEF AwaitersAreSuspended
      <4>6. AwaitersAreSuspended'
        <5>1. \A d \in Clients :
                pc'[d] = "waiting" <=> \E i \in DOMAIN awaiters' : awaiters'[i] = d
          BY <4>3, <4>4 DEF AwaitersAreSuspended
        <5>2. \A i, j \in DOMAIN awaiters' : awaiters'[i] = awaiters'[j] => i = j
          BY <4>4, <4>5 DEF AwaitersAreSuspended
        <5> QED BY <5>1, <5>2 DEF AwaitersAreSuspended
      <4> QED BY <4>2, <4>6
    <3> QED BY <3>1, <3>2
  <2>2. ASSUME NEW c \in Clients, Resumed(c) PROVE MutexInv'
    BY <2>2 DEF Resumed, MutualExclusion, NoStrandedAwaiter, AwaitersAreSuspended, NothingLeft
  <2>3. ASSUME NEW c \in Clients, Unlock(c) PROVE MutexInv'
    <3>1. Owns(c) /\ ~deleted /\ deleted' = deleted /\ touched' = touched
      BY <2>3 DEF Unlock
    <3>2. \A d \in Clients : Owns(d) => d = c
      BY <3>1 DEF MutualExclusion
    <3>3. CASE awaiters = <<>>
      <4>1. /\ locked' = FALSE /\ awaiters' = <<>> /\ pc[c] # "waiting"
            /\ pc' = [pc EXCEPT ![c] = "idle"]
        BY <2>3, <3>3 DEF Unlock
      <4>2. MutexTypeOK'
        <5>1. <<>> \in Seq(Clients)
          OBVIOUS
        <5> QED BY <5>1, <4>1, <3>1
      <4>6. NoStrandedAwaiter' /\ NothingLeft' /\ OnlyThenClosed'
        BY <4>1, <3>1 DEF NoStrandedAwaiter, NothingLeft
      <4>3. MutualExclusion'
        BY <4>1, <3>2 DEF MutualExclusion
      <4>4. \A d \in Clients : pc'[d] = "waiting" <=> pc[d] = "waiting"
        BY <4>1
      <4>5. AwaitersAreSuspended'
        BY <4>1, <4>4, <3>3 DEF AwaitersAreSuspended
      <4> QED BY <4>2, <4>3, <4>5, <4>6
    <3>4. CASE awaiters # <<>>
      <4> DEFINE h == Head(awaiters)
      <4>1. /\ locked' = TRUE /\ awaiters' = Tail(awaiters)
            /\ pc' = [pc EXCEPT ![c] = "idle", ![h] = "granted"]
        BY <2>3, <3>4 DEF Unlock
      <4>2. h \in Clients /\ pc[h] = "waiting" /\ h # c
        BY <3>4, <3>1, TailEntries DEF AwaitersAreSuspended
      <4>3. MutexTypeOK'
        BY <3>1, <4>1, <4>2, <3>4, TailEntries
      <4>4. MutualExclusion' /\ NoStrandedAwaiter' /\ NothingLeft' /\ OnlyThenClosed'
        BY <3>1, <3>2, <4>1, <4>2 DEF MutualExclusion, NoStrandedAwaiter, NothingLeft
      <4>5. \A i \in DOMAIN awaiters' : awaiters'[i] = awaiters[i + 1] /\ i + 1 \in DOMAIN awaiters
        BY <4>1, <3>4, TailEntries
      <4>6. \A i \in DOMAIN awaiters' : awaiters'[i] # h
        <5>1. h = awaiters[1] /\ 1 \in DOMAIN awaiters
          BY <3>4, TailEntries
        <5>2. \A i \in DOMAIN awaiters' : i \in Nat /\ i # 0
          BY <4>1, <3>4, TailEntries
        <5>3. \A i \in DOMAIN awaiters' : i + 1 # 1
          BY <5>2
        <5> QED BY <4>5, <5>1, <5>3 DEF AwaitersAreSuspended
      <4>7. \A d \in Clients : pc'[d] = "waiting" <=> pc[d] = "waiting" /\ d # h
        BY <4>1, <4>2, <3>1
      <4>8. AwaitersAreSuspended'
        <5>1. \A d \in Clients :
                (\E i \in DOMAIN awaiters' : awaiters'[i] = d) => pc[d] = "waiting" /\ d # h
          BY <4>5, <4>6 DEF AwaitersAreSuspended
        <5>2. ASSUME NEW d \in Clients, pc[d] = "waiting", d # h
              PROVE  \E i \in DOMAIN awaiters' : awaiters'[i] = d
          <6>1. PICK i \in DOMAIN awaiters : awaiters[i] = d
            BY <5>2 DEF AwaitersAreSuspended
          <6>2. i # 1
            BY <6>1, <5>2, <3>4, TailEntries
          <6> QED BY <6>1, <6>2, <4>1, <3>4, TailEntries
        <5>3. ASSUME NEW i \in DOMAIN awaiters', NEW j \in DOMAIN awaiters',
                     awaiters'[i] = awaiters'[j]
              PROVE  i = j
          <6>1. i + 1 = j + 1
            BY <4>5, <5>3 DEF AwaitersAreSuspended
          <6>2. i \in Nat /\ j \in Nat
            BY <4>1, <3>4, TailEntries
          <6> QED BY <6>1, <6>2
        <5>4. \A d \in Clients :
                pc'[d] = "waiting" <=> \E i \in DOMAIN awaiters' : awaiters'[i] = d
          BY <5>1, <5>2, <4>7
        <5> QED BY <5>3, <5>4 DEF AwaitersAreSuspended
      <4> QED BY <4>3, <4>4, <4>8
    <3> QED BY <3>3, <3>4
  <2>4. ASSUME NEW c \in Clients, Unwind(c) PROVE MutexInv'
    BY <2>4 DEF Unwind, MutualExclusion, NoStrandedAwaiter, AwaitersAreSuspended, NothingLeft
  <2>5. CASE Destroy
    BY <2>5 DEF Destroy, MutualExclusion, NoStrandedAwaiter, AwaitersAreSuspended, NothingLeft
  <2>6. CASE UNCHANGED mutexVars
    BY <2>6 DEF mutexVars, MutualExclusion, NoStrandedAwaiter, AwaitersAreSuspended, NothingLeft
  <2> QED BY <2>1, <2>2, <2>3, <2>4, <2>5, <2>6 DEF MutexNext, MutexTerminating
<1> QED BY <1>1, <1>2, PTL DEF MutexSpec

-----------------------------------------------------------------------------
\* Types are kept.
THEOREM MutexTypeCorrect == MutexSpec => []MutexTypeOK
<1>1. MutexInv => MutexTypeOK
  BY DEF MutexInv
<1> QED BY <1>1, MutexInvariance, PTL

\* CoLockGuard's block is entered by one client at a time.
THEOREM Exclusion == MutexSpec => []MutualExclusion
<1>1. MutexInv => MutualExclusion
  BY DEF MutexInv
<1> QED BY <1>1, MutexInvariance, PTL

\* No client is left on the list of a free mutex: the wake-up of Unlock() is never lost.
THEOREM NobodyIsStranded == MutexSpec => [](NoStrandedAwaiter /\ AwaitersAreSuspended)
<1>1. MutexInv => NoStrandedAwaiter /\ AwaitersAreSuspended
  BY DEF MutexInv
<1> QED BY <1>1, MutexInvariance, PTL

\* The two together.
THEOREM MutexSafety == MutexSpec => []MutexSafe
  BY Exclusion, NobodyIsStranded, PTL DEF MutexSafe

-----------------------------------------------------------------------------
\* The owner of the mutex is the client that CHOOSE finds.
LEMMA OwnerIsUnique ==
  ASSUME MutualExclusion, NEW c \in Clients, Owns(c)
  PROVE  owner = c
  BY DEF MutualExclusion, owner

\* CoMutex hands the lock over in the order in which it was asked for.
THEOREM Refinement == MutexSpec => ImplementsFifoLock
<1>1. MutexInit => FL!Init
  BY DEF MutexInit, FL!Init
<1>2. MutexInv /\ MutexInv' /\ [MutexNext]_mutexVars => [FL!Next]_(FL!lockVars)
  <2> DEFINE line == IF locked /\ ~deleted THEN <<owner>> \o awaiters ELSE <<>>
  <2> SUFFICES ASSUME MutexInv, MutexInv', [MutexNext]_mutexVars
               PROVE  \/ line' = line /\ deleted' = deleted
                      \/ FL!Next
    BY DEF FL!lockVars
  <2> USE DEF MutexInv, MutexTypeOK, Owns, TestSucceeds, AddAwaiter, HandsOver
  <2>1. ASSUME NEW c \in Clients, CoLock(c) PROVE FL!Request(c)
    <3>1. ~deleted /\ ~deleted' /\ pc[c] = "idle"
      BY <2>1 DEF CoLock
    <3>2. CASE ~locked
      <4>1. line = <<>> /\ awaiters' = <<>> /\ locked' /\ pc'[c] = "granted"
        BY <2>1, <3>2 DEF CoLock, NoStrandedAwaiter
      <4>2. owner' = c
        BY <4>1, OwnerIsUnique DEF MutualExclusion, owner
      <4>3. line' = <<c>>
        BY <4>1, <4>2, <3>1
      <4> QED BY <4>1, <4>3, <3>1 DEF FL!Request, FL!InLine
    <3>3. CASE locked
      <4>1. /\ locked' /\ awaiters' = Append(awaiters, c)
            /\ \A d \in Clients : Owns(d)' <=> Owns(d)
        BY <2>1, <3>3 DEF CoLock
      <4>2. PICK o \in Clients : Owns(o)
        BY <3>1, <3>3 DEF MutualExclusion
      <4>3. owner = o /\ owner' = o
        BY <4>1, <4>2 DEF MutualExclusion, owner
      <4>4. line = <<o>> \o awaiters /\ line' = <<o>> \o Append(awaiters, c)
        BY <3>1, <3>3, <4>1, <4>3
      <4>5. line' = Append(line, c)
        BY <4>4, <4>2
      <4>6. \A i \in DOMAIN line : line[i] # c
        <5>1. o # c
          BY <4>2, <3>1
        <5>2. \A i \in DOMAIN awaiters : awaiters[i] # c
          BY <3>1 DEF AwaitersAreSuspended
        <5> QED BY <5>1, <5>2, <4>4, <4>2
      <4> QED BY <4>5, <4>6, <3>1 DEF FL!Request, FL!InLine
    <3> QED BY <3>2, <3>3
  <2>2. ASSUME NEW c \in Clients, Resumed(c) PROVE line' = line /\ deleted' = deleted
    <3>1. /\ locked' = locked /\ deleted' = deleted /\ awaiters' = awaiters
          /\ Owns(c) /\ Owns(c)'
      BY <2>2 DEF Resumed
    <3>2. owner = c /\ owner' = c
      BY <3>1 DEF MutualExclusion, owner
    <3> QED BY <3>1, <3>2
  <2>3. ASSUME NEW c \in Clients, Unlock(c) PROVE FL!Release(c)
    <3>1. ~deleted /\ ~deleted' /\ Owns(c)
      BY <2>3 DEF Unlock
    <3>2. owner = c /\ locked
      BY <3>1 DEF MutualExclusion, owner
    <3>3. line = <<c>> \o awaiters
      BY <3>1, <3>2
    <3>4. Head(line) = c /\ Tail(line) = awaiters /\ line # <<>>
      BY <3>3
    <3>5. line' = awaiters
      <4>1. CASE awaiters = <<>>
        BY <2>3, <4>1 DEF Unlock
      <4>2. CASE awaiters # <<>>
        <5>1. /\ locked' /\ awaiters' = Tail(awaiters)
              /\ pc'[Head(awaiters)] = "granted" /\ Head(awaiters) \in Clients
          BY <2>3, <4>2, TailEntries DEF Unlock
        <5>2. owner' = Head(awaiters)
          BY <5>1 DEF MutualExclusion, owner
        <5> QED BY <5>1, <5>2, <3>1, <4>2
      <4> QED BY <4>1, <4>2
    <3> QED BY <3>1, <3>4, <3>5 DEF FL!Release
  <2>4. ASSUME NEW c \in Clients, Unwind(c) PROVE line' = line /\ deleted' = deleted
    <3>1. deleted /\ deleted'
      BY <2>4 DEF Unwind, OnlyThenClosed
    <3> QED BY <3>1
  <2>5. CASE Destroy
    BY <2>5 DEF Destroy, FL!Next, FL!Destroy
  <2>6. CASE UNCHANGED mutexVars
    BY <2>6 DEF mutexVars, owner
  <2> QED BY <2>1, <2>2, <2>3, <2>4, <2>5, <2>6 DEF MutexNext, MutexTerminating, FL!Next
<1> QED BY <1>1, <1>2, MutexInvariance, PTL DEF MutexSpec, FL!Spec, ImplementsFifoLock

-----------------------------------------------------------------------------
(***************************************************************************)
(* Proofs of the safety properties of CoService, for any set of services   *)
(* and any assignment of homes.  The argument is AllServicesInv of          *)
(* CoService: what each ServiceState says of the home thread, the work and *)
(* the timer.  Types are proved first, then it is shown inductive, action  *)
(* by action, separately for the service that moves and for the others,    *)
(* which an action can disturb through the foreground thread only.         *)
(***************************************************************************)

\* The entry points of the state machine lead to a ServiceState or to termination.
LEMMA AfterTypes ==
  ASSUME NEW state, NEW a, NEW b
  PROVE  /\ AfterOnExecuted(state, a, b) \in ServiceState \cup {Terminated}
         /\ AfterOnResume(state, a) \in ServiceState \cup {Terminated}
         /\ AfterOnTimedOut(state, a) \in ServiceState \cup {Terminated}
         /\ AfterResume(state) \in ServiceState \cup {Terminated}
<1>1. AfterOnExecuted(state, a, b) \in ServiceState \cup {Terminated}
  BY DEF AfterOnExecuted, ServiceState, Terminated
<1>2. AfterOnResume(state, a) \in ServiceState \cup {Terminated}
  BY DEF AfterOnResume, ServiceState, Terminated
<1>3. AfterOnTimedOut(state, a) \in ServiceState \cup {Terminated}
  BY DEF AfterOnTimedOut, ServiceState, Terminated
<1>4. AfterResume(state) \in ServiceState \cup {Terminated}
  BY DEF AfterResume, ServiceState, Terminated
<1> QED BY <1>1, <1>2, <1>3, <1>4

\* The two cancel calls keep the types of what they change.
LEMMA CancelTypes ==
  ASSUME ServiceTypeOK, NEW s \in Services, NEW called, NEW cancelled \in BOOLEAN
  PROVE  /\ CancelTimeout(s, called, cancelled) =>
              /\ timer' \in [Services -> Timer]
              /\ timeoutRequested' \in [Services -> BOOLEAN]
         /\ CancelExecute(s, called, cancelled) => workPc' \in [Services -> WorkPc]
<1>1. CancelTimeout(s, called, cancelled) =>
        timer' \in [Services -> Timer] /\ timeoutRequested' \in [Services -> BOOLEAN]
  BY DEF CancelTimeout, ServiceTypeOK, Timer
<1>2. CancelExecute(s, called, cancelled) => workPc' \in [Services -> WorkPc]
  BY DEF CancelExecute, ServiceTypeOK, WorkPc
<1> QED BY <1>1, <1>2

\* Resume() moves on in the state machine and posts the handle at most once.
LEMMA ResumeTypes ==
  ASSUME ServiceTypeOK, NEW s \in Services, Resume(s)
  PROVE  /\ serviceState' \in [Services -> ServiceState \cup {Terminated}]
         /\ posted' \in [Services -> Nat]
<1>1. AfterResume(serviceState[s]) \in ServiceState \cup {Terminated}
  BY AfterTypes
<1>2. serviceState' \in [Services -> ServiceState \cup {Terminated}]
  BY <1>1 DEF Resume, ServiceTypeOK
<1>3. posted' \in [Services -> Nat]
  BY DEF Resume, ServiceTypeOK
<1> QED BY <1>2, <1>3

\* Every variable keeps its type: no action leaves the declared states.
THEOREM ServiceTypeCorrect == ServiceSpec => []ServiceTypeOK
<1>1. ServiceInit => ServiceTypeOK
  BY ServicesAssumption DEF ServiceInit, ServiceTypeOK, ServiceState, ExecPc, WorkPc, Timer
<1>2. ServiceTypeOK /\ [ServiceNext]_serviceVars => ServiceTypeOK'
  <2> SUFFICES ASSUME ServiceTypeOK, [ServiceNext]_serviceVars PROVE ServiceTypeOK'
    OBVIOUS
  <2> USE DEF ServiceTypeOK, ExecPc, WorkPc, Timer
  <2>1. CASE UNCHANGED serviceVars
    BY <2>1 DEF serviceVars
  <2>2. ASSUME NEW s \in Services, HomeStep(s) PROVE ServiceTypeOK'
      <3>1. CASE AwaitSuspend(s)
      BY <3>1 DEF AwaitSuspend, HomeIsFree, EnterHome, ServiceState
      <3>2. CASE StartWork(s)
        BY <3>2 DEF StartWork
      <3>3. CASE RequestTimeout(s)
        BY <3>3 DEF RequestTimeout
      <3>4. CASE FlagTimeout(s)
        BY <3>4 DEF FlagTimeout
      <3>5. CASE RequestPastTimeout(s)
      BY <3>5, AfterTypes DEF RequestPastTimeout
      <3>6. CASE OnExecuted(s)
      <4>1. PICK tc \in BOOLEAN, rc \in BOOLEAN :
              LET next == AfterOnExecuted(serviceState[s], tc, rc)
              IN  /\ CancelTimeout(s, ExecutedCancelsTimeout(serviceState[s]), tc)
                  /\ CancelExecute(s, ExecutedCancelsResume(serviceState[s]), rc)
                  /\ serviceState' = [serviceState EXCEPT ![s] = next]
                  /\ IF next = "Resuming"
                     THEN execPc' = [execPc EXCEPT ![s] = "resume"] /\ UNCHANGED fg
                     ELSE execPc' = [execPc EXCEPT ![s] = "returned"] /\ LeaveHome(s)
        BY <3>6 DEF OnExecuted
      <4>2. serviceState' \in [Services -> ServiceState \cup {Terminated}]
        BY <4>1, AfterTypes
      <4>3. /\ timer' \in [Services -> Timer] /\ timeoutRequested' \in [Services -> BOOLEAN]
            /\ workPc' \in [Services -> WorkPc]
        BY <4>1, CancelTypes DEF ExecutedCancelsTimeout, ExecutedCancelsResume
      <4>4. execPc' \in [Services -> ExecPc] /\ fg' \in Services \cup {NoService}
        BY <4>1 DEF LeaveHome
      <4> QED BY <3>6, <4>2, <4>3, <4>4 DEF OnExecuted
      <3>7. CASE ExecResume(s)
        BY <3>7, ResumeTypes DEF ExecResume, LeaveHome
      <3> QED BY <2>2, <3>1, <3>2, <3>3, <3>4, <3>5, <3>6, <3>7 DEF HomeStep
  <2>3. ASSUME NEW s \in Services, ClaimResult(s) PROVE ServiceTypeOK'
    BY <2>3 DEF ClaimResult
  <2>4. ASSUME NEW s \in Services, Callback(s) PROVE ServiceTypeOK'
      <3>1. CASE SetResult(s)
        BY <3>1 DEF SetResult
      <3>2. CASE SetException(s)
        BY <3>2 DEF SetException
      <3>3. CASE OnResume(s)
      <4>1. PICK tc \in BOOLEAN :
              LET next == AfterOnResume(serviceState[s], tc)
              IN  /\ CancelTimeout(s, ResumeCancelsTimeout(serviceState[s]), tc)
                  /\ serviceState' = [serviceState EXCEPT ![s] = next]
                  /\ workPc' = [workPc EXCEPT ![s] = IF next = "Resuming" THEN "resume"
                                                     ELSE "done"]
        BY <3>3 DEF OnResume
      <4>2. serviceState' \in [Services -> ServiceState \cup {Terminated}]
        BY <4>1, AfterTypes
      <4>3. timer' \in [Services -> Timer] /\ timeoutRequested' \in [Services -> BOOLEAN]
        BY <4>1, CancelTypes DEF ResumeCancelsTimeout, ResumeClearsTimeout
      <4>4. workPc' \in [Services -> WorkPc]
        BY <4>1
      <4> QED BY <3>3, <4>2, <4>3, <4>4 DEF OnResume
      <3>4. CASE WorkResume(s)
        BY <3>4, ResumeTypes DEF WorkResume
      <3> QED BY <2>4, <3>1, <3>2, <3>3, <3>4 DEF Callback
  <2>5. ASSUME NEW s \in Services, TimerStep(s) PROVE ServiceTypeOK'
      <3>1. CASE PopTimer(s)
        BY <3>1 DEF PopTimer
      <3>2. CASE OnTimedOut(s)
      <4>1. PICK rc \in BOOLEAN :
              LET next == AfterOnTimedOut(serviceState[s], rc)
              IN  /\ CancelExecute(s, TimedOutCancelsResume(serviceState[s]), rc)
                  /\ serviceState' = [serviceState EXCEPT ![s] = next]
                  /\ IF next = "Resuming"
                     THEN timer' = [timer EXCEPT ![s] = "resume"] /\ UNCHANGED fg
                     ELSE timer' = [timer EXCEPT ![s] = "gone"] /\ fg' = NoService
        BY <3>2 DEF OnTimedOut
      <4>2. serviceState' \in [Services -> ServiceState \cup {Terminated}]
        BY <4>1, AfterTypes
      <4>3. workPc' \in [Services -> WorkPc]
        BY <4>1, CancelTypes DEF TimedOutCancelsResume
      <4>4. timer' \in [Services -> Timer] /\ fg' \in Services \cup {NoService}
        BY <4>1
      <4>5. hasTimeout' \in [Services -> BOOLEAN]
        BY <3>2 DEF OnTimedOut, TimedOutMarksTimeout
      <4> QED BY <3>2, <4>2, <4>3, <4>4, <4>5 DEF OnTimedOut
      <3>3. CASE TimerResume(s)
        BY <3>3, ResumeTypes DEF TimerResume
      <3> QED BY <2>5, <3>1, <3>2, <3>3 DEF TimerStep
  <2>6. ASSUME NEW s \in Services, AwaitResume(s) PROVE ServiceTypeOK'
    BY <2>6 DEF AwaitResume, AwaitOutcome
  <2>7. CASE ServiceTerminating
    BY <2>7 DEF ServiceTerminating, serviceVars
  <2> QED BY <2>1, <2>2, <2>3, <2>4, <2>5, <2>6, <2>7 DEF ServiceNext
<1> QED BY <1>1, <1>2, PTL DEF ServiceSpec

-----------------------------------------------------------------------------
ServiceInv(t) == Phase(t) /\ Marks(t) /\ ForegroundIsSerial(t)

\* An action of another service leaves a service's invariant alone: the two share
\* the foreground thread only, and an action never takes it from its holder.
LEMMA OthersKeepInv ==
  ASSUME NEW t \in Services, ServiceInv(t),
         serviceState'[t] = serviceState[t],
         hasTimeout'[t] = hasTimeout[t],
         exceptionPtr'[t] = exceptionPtr[t],
         timeoutRequested'[t] = timeoutRequested[t],
         execPc'[t] = execPc[t],
         workPc'[t] = workPc[t],
         timer'[t] = timer[t],
         posted'[t] = posted[t],
         outcome'[t] = outcome[t],
         fg = t => fg' = t
  PROVE  ServiceInv(t)'
<1>1. Phase(t)'
  BY DEF ServiceInv, Phase, InExecute, WorkIsOut, TimerIsOut
<1>2. Marks(t)'
  BY DEF ServiceInv, Marks, AwaitOutcome
<1>3. ForegroundIsSerial(t)'
  BY DEF ServiceInv, ForegroundIsSerial, InExecute
<1> QED BY <1>1, <1>2, <1>3 DEF ServiceInv

\* A step of one service keeps that service's own invariant.
LEMMA AwaitSuspendKeepsInv ==
  ASSUME ServiceTypeOK, ServiceTypeOK', NEW s \in Services, ServiceInv(s), AwaitSuspend(s)
  PROVE  ServiceInv(s)'
<1> USE DEF ServiceInv, ServiceTypeOK, AwaitSuspend, HomeIsFree, EnterHome
<1>1. Phase(s)'
  BY DEF Phase, InExecute, WorkIsOut, TimerIsOut
<1>2. Marks(s)'
  BY DEF Phase, Marks, InExecute, WorkIsOut, TimerIsOut
<1>3. ForegroundIsSerial(s)'
  BY ServicesAssumption DEF Phase, ForegroundIsSerial, InExecute, WorkIsOut, TimerIsOut, Marks
<1> QED BY <1>1, <1>2, <1>3

\* Handing the work out happens inside Execute(), before any callback.
LEMMA StartWorkKeepsInv ==
  ASSUME ServiceTypeOK, ServiceTypeOK', NEW s \in Services, ServiceInv(s), StartWork(s)
  PROVE  ServiceInv(s)'
<1> USE DEF ServiceInv, ServiceTypeOK, StartWork
<1>1. Phase(s)'
  BY DEF Phase, InExecute, WorkIsOut, TimerIsOut
<1>2. Marks(s)'
  BY DEF Phase, Marks, InExecute, WorkIsOut, TimerIsOut
<1>3. ForegroundIsSerial(s)'
  BY ServicesAssumption DEF Phase, ForegroundIsSerial, InExecute, WorkIsOut, TimerIsOut, Marks
<1> QED BY <1>1, <1>2, <1>3

\* The timer is queued while the home thread is still inside Execute().
LEMMA RequestTimeoutKeepsInv ==
  ASSUME ServiceTypeOK, ServiceTypeOK', NEW s \in Services, ServiceInv(s), RequestTimeout(s)
  PROVE  ServiceInv(s)'
<1> USE DEF ServiceInv, ServiceTypeOK, RequestTimeout
<1>1. Phase(s)'
  BY DEF Phase, InExecute, WorkIsOut, TimerIsOut
<1>2. Marks(s)'
  BY DEF Phase, Marks, InExecute, WorkIsOut, TimerIsOut
<1>3. ForegroundIsSerial(s)'
  BY ServicesAssumption DEF Phase, ForegroundIsSerial, InExecute, WorkIsOut, TimerIsOut, Marks
<1> QED BY <1>1, <1>2, <1>3

\* Until timeoutRequested is set the home thread cannot leave Execute().
LEMMA FlagTimeoutKeepsInv ==
  ASSUME ServiceTypeOK, ServiceTypeOK', NEW s \in Services, ServiceInv(s), FlagTimeout(s)
  PROVE  ServiceInv(s)'
<1> USE DEF ServiceInv, ServiceTypeOK, FlagTimeout
<1>1. Phase(s)'
  BY DEF Phase, InExecute, WorkIsOut, TimerIsOut
<1>2. Marks(s)'
  BY DEF Phase, Marks, InExecute, WorkIsOut, TimerIsOut
<1>3. ForegroundIsSerial(s)'
  BY ServicesAssumption DEF Phase, ForegroundIsSerial, InExecute, WorkIsOut, TimerIsOut, Marks
<1> QED BY <1>1, <1>2, <1>3

\* A negative timeout leaves no timer behind.
LEMMA RequestPastTimeoutKeepsInv ==
  ASSUME ServiceTypeOK, ServiceTypeOK', NEW s \in Services, ServiceInv(s), RequestPastTimeout(s)
  PROVE  ServiceInv(s)'
<1> USE DEF ServiceInv, ServiceTypeOK, RequestPastTimeout, AfterOnTimedOut, TimedOutMarksTimeout
<1>1. Phase(s)'
  BY DEF Phase, InExecute, WorkIsOut, TimerIsOut
<1>2. Marks(s)'
  BY DEF Phase, Marks, InExecute, WorkIsOut, TimerIsOut
<1>3. ForegroundIsSerial(s)'
  BY ServicesAssumption DEF Phase, ForegroundIsSerial, InExecute, WorkIsOut, TimerIsOut, Marks
<1> QED BY <1>1, <1>2, <1>3

\* OnExecuted() ends in Resuming only when neither the timer nor the work is still out.
LEMMA OnExecutedKeepsInv ==
  ASSUME ServiceTypeOK, ServiceTypeOK', NEW s \in Services, ServiceInv(s), OnExecuted(s)
  PROVE  ServiceInv(s)'
<1> USE DEF ServiceInv, ServiceTypeOK, OnExecuted, CancelTimeout, CancelExecute, ExecutedCancelsTimeout, ExecutedCancelsResume, AfterOnExecuted, LeaveHome, Terminated
<1>1. Phase(s)'
  BY DEF Phase, InExecute, WorkIsOut, TimerIsOut
<1>2. Marks(s)'
  <2>1. PICK tc \in BOOLEAN, rc \in BOOLEAN :
          /\ CancelTimeout(s, ExecutedCancelsTimeout(serviceState[s]), tc)
          /\ CancelExecute(s, ExecutedCancelsResume(serviceState[s]), rc)
          /\ serviceState'[s] = AfterOnExecuted(serviceState[s], tc, rc)
    OBVIOUS
  <2>2. /\ serviceState[s] # "Resumed" /\ serviceState'[s] # "Resumed"
        /\ posted'[s] = posted[s] /\ outcome'[s] = outcome[s]
    BY <2>1 DEF Phase
  <2>3. timer[s] \in {"resume", "gone"} => timer'[s] = timer[s]
    BY <2>1
  <2>4. workPc'[s] = workPc[s] \/ workPc[s] \in {"pending"}
    BY <2>1
  <2>5. workPc'[s] = "cancelled" => hasTimeout'[s]
    BY <2>1, <2>4 DEF Marks
  <2>6. serviceState'[s] # "ExecutingTimedOut"
    BY <2>1
  <2> QED BY <2>1, <2>2, <2>3, <2>4, <2>5, <2>6 DEF Marks
<1>3. ForegroundIsSerial(s)'
  BY ServicesAssumption DEF Phase, ForegroundIsSerial, InExecute, WorkIsOut, TimerIsOut, Marks
<1> QED BY <1>1, <1>2, <1>3

\* The home thread posts from Resuming, where it is the only party left.
LEMMA ExecResumeKeepsInv ==
  ASSUME ServiceTypeOK, ServiceTypeOK', NEW s \in Services, ServiceInv(s), ExecResume(s)
  PROVE  ServiceInv(s)'
<1> USE DEF ServiceInv, ServiceTypeOK, ExecResume, Resume, AfterResume, LeaveHome
<1>1. Phase(s)'
  BY DEF Phase, InExecute, WorkIsOut, TimerIsOut
<1>2. Marks(s)'
  BY DEF Phase, Marks, InExecute, WorkIsOut, TimerIsOut
<1>3. ForegroundIsSerial(s)'
  BY ServicesAssumption DEF Phase, ForegroundIsSerial, InExecute, WorkIsOut, TimerIsOut, Marks
<1> QED BY <1>1, <1>2, <1>3

\* Claimed work is still out: no state of the machine changes.
LEMMA ClaimResultKeepsInv ==
  ASSUME ServiceTypeOK, ServiceTypeOK', NEW s \in Services, ServiceInv(s), ClaimResult(s)
  PROVE  ServiceInv(s)'
<1> USE DEF ServiceInv, ServiceTypeOK, ClaimResult
<1>1. Phase(s)'
  BY DEF Phase, InExecute, WorkIsOut, TimerIsOut
<1>2. Marks(s)'
  BY DEF Phase, Marks, InExecute, WorkIsOut, TimerIsOut
<1>3. ForegroundIsSerial(s)'
  BY ServicesAssumption DEF Phase, ForegroundIsSerial, InExecute, WorkIsOut, TimerIsOut, Marks
<1> QED BY <1>1, <1>2, <1>3

\* A stored result is still to be reported.
LEMMA SetResultKeepsInv ==
  ASSUME ServiceTypeOK, ServiceTypeOK', NEW s \in Services, ServiceInv(s), SetResult(s)
  PROVE  ServiceInv(s)'
<1> USE DEF ServiceInv, ServiceTypeOK, SetResult
<1>1. Phase(s)'
  BY DEF Phase, InExecute, WorkIsOut, TimerIsOut
<1>2. Marks(s)'
  BY DEF Phase, Marks, InExecute, WorkIsOut, TimerIsOut
<1>3. ForegroundIsSerial(s)'
  BY ServicesAssumption DEF Phase, ForegroundIsSerial, InExecute, WorkIsOut, TimerIsOut, Marks
<1> QED BY <1>1, <1>2, <1>3

\* A stored exception is still to be reported.
LEMMA SetExceptionKeepsInv ==
  ASSUME ServiceTypeOK, ServiceTypeOK', NEW s \in Services, ServiceInv(s), SetException(s)
  PROVE  ServiceInv(s)'
<1> USE DEF ServiceInv, ServiceTypeOK, SetException
<1>1. Phase(s)'
  BY DEF Phase, InExecute, WorkIsOut, TimerIsOut
<1>2. Marks(s)'
  BY DEF Phase, Marks, InExecute, WorkIsOut, TimerIsOut
<1>3. ForegroundIsSerial(s)'
  BY ServicesAssumption DEF Phase, ForegroundIsSerial, InExecute, WorkIsOut, TimerIsOut, Marks
<1> QED BY <1>1, <1>2, <1>3

\* OnResume() ends in Resuming only when the home thread is back and the timer is gone.
LEMMA OnResumeKeepsInv ==
  ASSUME ServiceTypeOK, ServiceTypeOK', NEW s \in Services, ServiceInv(s), OnResume(s)
  PROVE  ServiceInv(s)'
<1> USE DEF ServiceInv, ServiceTypeOK, OnResume, CancelTimeout, ResumeCancelsTimeout, ResumeClearsTimeout, AfterOnResume, Terminated
<1>1. Phase(s)'
  BY DEF Phase, InExecute, WorkIsOut, TimerIsOut
<1>2. Marks(s)'
  <2>1. PICK tc \in BOOLEAN :
          /\ CancelTimeout(s, ResumeCancelsTimeout(serviceState[s]), tc)
          /\ serviceState'[s] = AfterOnResume(serviceState[s], tc)
          /\ workPc'[s] = IF AfterOnResume(serviceState[s], tc) = "Resuming"
                          THEN "resume" ELSE "done"
    OBVIOUS
  <2>2. /\ serviceState[s] # "Resumed" /\ serviceState'[s] # "Resumed"
        /\ posted'[s] = posted[s] /\ outcome'[s] = outcome[s]
    BY <2>1 DEF Phase
  <2>3. timer[s] \in {"resume", "gone"} => timer'[s] = timer[s]
    BY <2>1
  <2> QED BY <2>1, <2>2, <2>3 DEF Marks
<1>3. ForegroundIsSerial(s)'
  BY ServicesAssumption DEF Phase, ForegroundIsSerial, InExecute, WorkIsOut, TimerIsOut, Marks
<1> QED BY <1>1, <1>2, <1>3

\* The callback posts from Resuming, where it is the only party left.
LEMMA WorkResumeKeepsInv ==
  ASSUME ServiceTypeOK, ServiceTypeOK', NEW s \in Services, ServiceInv(s), WorkResume(s)
  PROVE  ServiceInv(s)'
<1> USE DEF ServiceInv, ServiceTypeOK, WorkResume, Resume, AfterResume
<1>1. Phase(s)'
  BY DEF Phase, InExecute, WorkIsOut, TimerIsOut
<1>2. Marks(s)'
  BY DEF Phase, Marks, InExecute, WorkIsOut, TimerIsOut
<1>3. ForegroundIsSerial(s)'
  BY ServicesAssumption DEF Phase, ForegroundIsSerial, InExecute, WorkIsOut, TimerIsOut, Marks
<1> QED BY <1>1, <1>2, <1>3

\* The foreground thread takes a timer only when it is not busy with a service.
LEMMA PopTimerKeepsInv ==
  ASSUME ServiceTypeOK, ServiceTypeOK', NEW s \in Services, ServiceInv(s), PopTimer(s)
  PROVE  ServiceInv(s)'
<1> USE DEF ServiceInv, ServiceTypeOK, PopTimer
<1>1. Phase(s)'
  BY DEF Phase, InExecute, WorkIsOut, TimerIsOut
<1>2. Marks(s)'
  BY DEF Phase, Marks, InExecute, WorkIsOut, TimerIsOut
<1>3. ForegroundIsSerial(s)'
  BY ServicesAssumption DEF Phase, ForegroundIsSerial, InExecute, WorkIsOut, TimerIsOut, Marks
<1> QED BY <1>1, <1>2, <1>3

\* OnTimedOut() ends in Resuming only when the home thread is back and the work is over.
LEMMA OnTimedOutKeepsInv ==
  ASSUME ServiceTypeOK, ServiceTypeOK', NEW s \in Services, ServiceInv(s), OnTimedOut(s)
  PROVE  ServiceInv(s)'
<1> USE DEF ServiceInv, ServiceTypeOK, OnTimedOut, CancelExecute, TimedOutCancelsResume, AfterOnTimedOut, TimedOutMarksTimeout, Terminated
<1>1. Phase(s)'
  BY DEF Phase, InExecute, WorkIsOut, TimerIsOut
<1>2. Marks(s)'
  <2>1. PICK rc \in BOOLEAN :
          /\ CancelExecute(s, TimedOutCancelsResume(serviceState[s]), rc)
          /\ serviceState'[s] = AfterOnTimedOut(serviceState[s], rc)
          /\ timer'[s] \in {"resume", "gone"}
    OBVIOUS
  <2>2. /\ serviceState[s] # "Resumed" /\ serviceState'[s] # "Resumed"
        /\ posted'[s] = posted[s] /\ outcome'[s] = outcome[s]
    BY <2>1 DEF Phase
  <2>3. workPc'[s] = workPc[s] \/ serviceState[s] = "Executed"
    BY <2>1
  <2>4. workPc'[s] = workPc[s] \/ workPc[s] = "pending"
    BY <2>1
  <2>5. serviceState'[s] = "ExecutingTimedOut" => serviceState[s] = "Executing"
    BY <2>1
  <2>6. /\ hasTimeout[s] => hasTimeout'[s]
        /\ serviceState[s] \in {"Executing", "Executed"} => hasTimeout'[s]
    OBVIOUS
  <2> QED BY <2>1, <2>2, <2>3, <2>4, <2>5, <2>6 DEF Marks
<1>3. ForegroundIsSerial(s)'
  BY ServicesAssumption DEF Phase, ForegroundIsSerial, InExecute, WorkIsOut, TimerIsOut, Marks
<1> QED BY <1>1, <1>2, <1>3

\* The timer function posts from Resuming, where it is the only party left.
LEMMA TimerResumeKeepsInv ==
  ASSUME ServiceTypeOK, ServiceTypeOK', NEW s \in Services, ServiceInv(s), TimerResume(s)
  PROVE  ServiceInv(s)'
<1> USE DEF ServiceInv, ServiceTypeOK, TimerResume, Resume, AfterResume
<1>1. Phase(s)'
  BY DEF Phase, InExecute, WorkIsOut, TimerIsOut
<1>2. Marks(s)'
  BY DEF Phase, Marks, InExecute, WorkIsOut, TimerIsOut
<1>3. ForegroundIsSerial(s)'
  BY ServicesAssumption DEF Phase, ForegroundIsSerial, InExecute, WorkIsOut, TimerIsOut, Marks
<1> QED BY <1>1, <1>2, <1>3

\* The coroutine that runs again was posted once.
LEMMA AwaitResumeKeepsInv ==
  ASSUME ServiceTypeOK, ServiceTypeOK', NEW s \in Services, ServiceInv(s), AwaitResume(s)
  PROVE  ServiceInv(s)'
<1> USE DEF ServiceInv, ServiceTypeOK, AwaitResume, HomeIsFree
<1>1. Phase(s)'
  BY DEF Phase, InExecute, WorkIsOut, TimerIsOut
<1>2. Marks(s)'
  BY DEF Phase, Marks, InExecute, WorkIsOut, TimerIsOut
<1>3. ForegroundIsSerial(s)'
  BY ServicesAssumption DEF Phase, ForegroundIsSerial, InExecute, WorkIsOut, TimerIsOut, Marks
<1> QED BY <1>1, <1>2, <1>3

-----------------------------------------------------------------------------
\* A step of service s leaves the variables of the other services alone, and takes
\* the foreground thread from no other service.
LEMMA StepIsLocal ==
  ASSUME ServiceTypeOK, NEW s \in Services, ServiceInv(s), NEW t \in Services, t # s,
         HomeStep(s) \/ ClaimResult(s) \/ Callback(s) \/ TimerStep(s) \/ AwaitResume(s)
  PROVE  /\ serviceState'[t] = serviceState[t]
         /\ hasTimeout'[t] = hasTimeout[t]
         /\ exceptionPtr'[t] = exceptionPtr[t]
         /\ timeoutRequested'[t] = timeoutRequested[t]
         /\ execPc'[t] = execPc[t]
         /\ workPc'[t] = workPc[t]
         /\ timer'[t] = timer[t]
         /\ posted'[t] = posted[t]
         /\ outcome'[t] = outcome[t]
         /\ fg = t => fg' = t
<1> USE ServicesAssumption DEF ServiceTypeOK
<1> DEFINE Others == /\ serviceState'[t] = serviceState[t]
                     /\ hasTimeout'[t] = hasTimeout[t]
                     /\ exceptionPtr'[t] = exceptionPtr[t]
                     /\ timeoutRequested'[t] = timeoutRequested[t]
                     /\ execPc'[t] = execPc[t]
                     /\ workPc'[t] = workPc[t]
                     /\ timer'[t] = timer[t]
                     /\ posted'[t] = posted[t]
                     /\ outcome'[t] = outcome[t]
                     /\ fg = t => fg' = t
<1>1. ASSUME AwaitSuspend(s) PROVE Others
  BY <1>1 DEF AwaitSuspend, HomeIsFree, EnterHome
<1>2. ASSUME StartWork(s) PROVE Others
  BY <1>2 DEF StartWork
<1>3. ASSUME RequestTimeout(s) PROVE Others
  BY <1>3 DEF RequestTimeout
<1>4. ASSUME FlagTimeout(s) PROVE Others
  BY <1>4 DEF FlagTimeout
<1>5. ASSUME RequestPastTimeout(s) PROVE Others
  BY <1>5 DEF RequestPastTimeout
<1>6. ASSUME OnExecuted(s) PROVE Others
  BY <1>6 DEF OnExecuted, CancelTimeout, CancelExecute, LeaveHome, ServiceInv, ForegroundIsSerial, InExecute
<1>7. ASSUME ExecResume(s) PROVE Others
  BY <1>7 DEF ExecResume, Resume, LeaveHome, ServiceInv, ForegroundIsSerial
<1>8. ASSUME ClaimResult(s) PROVE Others
  BY <1>8 DEF ClaimResult
<1>9. ASSUME SetResult(s) PROVE Others
  BY <1>9 DEF SetResult
<1>10. ASSUME SetException(s) PROVE Others
  BY <1>10 DEF SetException
<1>11. ASSUME OnResume(s) PROVE Others
  BY <1>11 DEF OnResume, CancelTimeout
<1>12. ASSUME WorkResume(s) PROVE Others
  BY <1>12 DEF WorkResume, Resume
<1>13. ASSUME PopTimer(s) PROVE Others
  BY <1>13 DEF PopTimer
<1>14. ASSUME OnTimedOut(s) PROVE Others
  BY <1>14 DEF OnTimedOut, CancelExecute, ServiceInv, ForegroundIsSerial
<1>15. ASSUME TimerResume(s) PROVE Others
  BY <1>15 DEF TimerResume, Resume, ServiceInv, ForegroundIsSerial
<1>16. ASSUME AwaitResume(s) PROVE Others
  BY <1>16 DEF AwaitResume
<1> QED BY <1>1, <1>2, <1>3, <1>4, <1>5, <1>6, <1>7, <1>8, <1>9, <1>10, <1>11, <1>12, <1>13, <1>14, <1>15, <1>16 DEF HomeStep, Callback, TimerStep

\* The invariant of CoService holds in every reachable state.
THEOREM ServiceInvariance == ServiceSpec => []AllServicesInv
<1>1. ServiceInit => AllServicesInv
  BY DEF ServiceInit, AllServicesInv, Phase, Marks, ForegroundIsSerial, InExecute, AwaitOutcome
<1>2. ServiceTypeOK /\ ServiceTypeOK' /\ AllServicesInv /\ [ServiceNext]_serviceVars => AllServicesInv'
  <2> SUFFICES ASSUME ServiceTypeOK, ServiceTypeOK', AllServicesInv, [ServiceNext]_serviceVars PROVE AllServicesInv'
    OBVIOUS
  <2>1. CASE UNCHANGED serviceVars
    BY <2>1 DEF serviceVars, AllServicesInv, Phase, Marks, ForegroundIsSerial, InExecute, WorkIsOut,
                TimerIsOut, AwaitOutcome
  <2>2. ASSUME NEW s \in Services,
               HomeStep(s) \/ ClaimResult(s) \/ Callback(s) \/ TimerStep(s) \/ AwaitResume(s)
        PROVE  AllServicesInv'
    <3>1. ServiceInv(s)
      BY DEF AllServicesInv, ServiceInv
    <3>2. ServiceInv(s)'
      BY <2>2, <3>1, AwaitSuspendKeepsInv,
         StartWorkKeepsInv,
         RequestTimeoutKeepsInv,
         FlagTimeoutKeepsInv,
         RequestPastTimeoutKeepsInv,
         OnExecutedKeepsInv,
         ExecResumeKeepsInv,
         ClaimResultKeepsInv,
         SetResultKeepsInv,
         SetExceptionKeepsInv,
         OnResumeKeepsInv,
         WorkResumeKeepsInv,
         PopTimerKeepsInv,
         OnTimedOutKeepsInv,
         TimerResumeKeepsInv,
         AwaitResumeKeepsInv
         DEF HomeStep, Callback, TimerStep
    <3>3. ASSUME NEW t \in Services, t # s PROVE ServiceInv(t)'
      BY <2>2, <3>1, <3>3, StepIsLocal, OthersKeepInv DEF AllServicesInv, ServiceInv
    <3> QED BY <3>2, <3>3 DEF AllServicesInv, ServiceInv
  <2>3. CASE ServiceTerminating
    BY <2>1, <2>3 DEF ServiceTerminating
  <2> QED BY <2>1, <2>2, <2>3 DEF ServiceNext
<1> QED BY <1>1, <1>2, ServiceTypeCorrect, PTL DEF ServiceSpec

-----------------------------------------------------------------------------
\* The entry points of the state machine are only ever called in states they
\* expect: throwInvalidState() does not end the process.
THEOREM NeverInvalidState == ServiceSpec => []NoInvalidState
<1>1. AllServicesInv => NoInvalidState
  BY DEF AllServicesInv, Phase, NoInvalidState, Terminated
<1> QED BY <1>1, ServiceInvariance, PTL

\* When the handle is posted, once, every party is done with the service object.
THEOREM NeverUsedAfterResume == ServiceSpec => []NoUseAfterResume
<1>1. AllServicesInv => NoUseAfterResume
  BY DEF AllServicesInv, Phase, Marks, NoUseAfterResume
<1> QED BY <1>1, ServiceInvariance, PTL

\* co_await reports a value, an exception or a timeout only if there was one, and
\* never swallows an exception.
THEOREM OutcomesAreReal == ServiceSpec => []OutcomeIsReal
<1>1. ServiceTypeOK /\ AllServicesInv => OutcomeIsReal
  <2> SUFFICES ASSUME ServiceTypeOK, AllServicesInv, NEW s \in Services, outcome[s] # "none"
               PROVE  /\ outcome[s] = "value" => workPc[s] = "done" /\ ~exceptionPtr[s]
                      /\ outcome[s] = "timeout" => timer[s] = "gone" /\ ~exceptionPtr[s]
                      /\ exceptionPtr[s] => outcome[s] = "exception"
    BY DEF OutcomeIsReal
  <2>1. /\ serviceState[s] = "Resumed"
        /\ outcome[s] = AwaitOutcome(exceptionPtr[s], hasTimeout[s])
    BY DEF AllServicesInv, Marks
  <2>2. workPc[s] \in {"done", "cancelled"} /\ timer[s] \in {"none", "gone"}
    BY <2>1 DEF AllServicesInv, Phase
  <2>3. /\ workPc[s] = "cancelled" => hasTimeout[s]
        /\ hasTimeout[s] => timer[s] = "gone"
    BY <2>2 DEF AllServicesInv, Marks
  <2> QED BY <2>1, <2>2, <2>3 DEF AwaitOutcome, ServiceTypeOK
<1> QED BY <1>1, ServiceTypeCorrect, ServiceInvariance, PTL

\* On the foreground a reported result is never traded for a timeout.
THEOREM ForegroundResultsWin == ServiceSpec => []ForegroundResultWins
<1>1. ServiceTypeOK /\ AllServicesInv => ForegroundResultWins
  <2> SUFFICES ASSUME ServiceTypeOK, AllServicesInv, NEW s \in Services \ (Pool \cup PastTimeouts),
                      outcome[s] = "timeout"
               PROVE  workPc[s] = "cancelled"
    BY DEF ForegroundResultWins, ReportedResultWins
  <2>1. serviceState[s] = "Resumed" /\ hasTimeout[s]
    BY DEF AllServicesInv, Marks, AwaitOutcome, ServiceTypeOK
  <2> QED BY <2>1 DEF AllServicesInv, ForegroundIsSerial
<1> QED BY <1>1, ServiceTypeCorrect, ServiceInvariance, PTL

\* The four together: what no interleaving of a wait's three parties may break.
THEOREM ServiceSafety == ServiceSpec => []ServiceSafe
  BY NeverInvalidState, NeverUsedAfterResume, OutcomesAreReal, ForegroundResultsWin, PTL DEF ServiceSafe
=============================================================================
