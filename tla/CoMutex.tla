-------------------------------- MODULE CoMutex --------------------------------
(***************************************************************************)
(* CoMutex and CoLockGuard (src/lib/CoEvent.cpp, src/lib/cotask/CoEvent.h):*)
(* coroutines (Clients) that repeatedly run                                *)
(*       { CoLockGuard lock; co_await lock.CoLock(mutex); ... }            *)
(* CoLock() is a Wait() without timeout on the mutex's condition variable, *)
(* Unlock() a Notify(): the operations on the variable are single steps    *)
(* here (CoConditionVariable shows that such waits end exactly when their  *)
(* test succeeds).  Between the test that gives a client the lock, made by *)
(* the thread that unlocks, and the moment its coroutine runs again, the   *)
(* client is "granted".                                                    *)
(***************************************************************************)
EXTENDS Naturals, Sequences

CONSTANT Clients

VARIABLES
  locked,     \* CoMutex::locked
  awaiters,   \* cv.awaiters
  deleted,    \* the mutex has been destroyed
  pc,         \* where each client is
  touched     \* the clients that used the mutex after being told it is gone

mutexVars == <<locked, awaiters, deleted, pc, touched>>

Pc == {"idle", "waiting", "granted", "critical", "closed", "ended"}

MutexTypeOK ==
  /\ locked \in BOOLEAN
  /\ awaiters \in Seq(Clients)
  /\ deleted \in BOOLEAN
  /\ pc \in [Clients -> Pc]
  /\ touched \subseteq Clients

MutexInit ==
  /\ locked = FALSE
  /\ awaiters = <<>>
  /\ deleted = FALSE
  /\ pc = [c \in Clients |-> "idle"]
  /\ touched = {}

-----------------------------------------------------------------------------
\* The conditionTest of CoLock(): takes the lock if it is free.
AlwaysSucceeds(isLocked) == TRUE  \* a mutant: the test is forgotten
TestSucceeds(isLocked) == ~isLocked

\* AddAwaiter(): who comes last is last.
AddInFront(c) == <<c>> \o awaiters  \* a mutant: a stack of awaiters
AddAwaiter(c) == Append(awaiters, c)

\* Notify() after `locked` was cleared: is there an awaiter whose test succeeds?
HandsNothingOver == FALSE  \* a mutant: Unlock() without Notify()
HandsOver == awaiters # <<>> /\ TestSucceeds(FALSE)

\* CoLockGuard::CoLock(): the guard's pMutex is set, then Execute() runs the test.
CoLock(c) ==
  /\ pc[c] = "idle" /\ ~deleted
  /\ IF TestSucceeds(locked)
     THEN /\ locked' = TRUE
          /\ pc' = [pc EXCEPT ![c] = "granted"]
          /\ UNCHANGED awaiters
     ELSE /\ awaiters' = AddAwaiter(c)
          /\ pc' = [pc EXCEPT ![c] = "waiting"]
          /\ UNCHANGED locked
  /\ UNCHANGED <<deleted, touched>>

\* The client's dispatcher resumes the coroutine.
Resumed(c) ==
  /\ pc[c] = "granted"
  /\ pc' = [pc EXCEPT ![c] = "critical"]
  /\ UNCHANGED <<locked, awaiters, deleted, touched>>

\* ~CoLockGuard, Unlock(): Notify() with an action that clears `locked`, then tests
\* the first awaiter, who finds the mutex unlocked and locks it.
Unlock(c) ==
  /\ pc[c] = "critical" /\ ~deleted
  /\ IF HandsOver
     THEN /\ locked' = TRUE
          /\ awaiters' = Tail(awaiters)
          /\ pc' = [pc EXCEPT ![c] = "idle", ![Head(awaiters)] = "granted"]
     ELSE /\ locked' = FALSE
          /\ pc' = [pc EXCEPT ![c] = "idle"]
          /\ UNCHANGED awaiters
  /\ UNCHANGED <<deleted, touched>>

\* The mutex is destroyed while somebody holds it, with its condition variable: every
\* awaiter gets a CoIoClosedException.  The holder, or whoever is about to be it, goes
\* down with the mutex: its coroutine does not come back.
Destroy ==
  /\ ~deleted /\ locked
  /\ deleted' = TRUE
  /\ awaiters' = <<>>
  /\ pc' = [c \in Clients |-> CASE pc[c] = "waiting" -> "closed"
                                [] pc[c] \in {"granted", "critical"} -> "ended"
                                [] OTHER -> pc[c]]
  /\ UNCHANGED <<locked, touched>>

\* The exception leaves CoLock(), the guard is destroyed: pMutex was set before the
\* lock was asked for, so ~CoLockGuard calls Unlock().
Unwind(c) ==
  /\ pc[c] = "closed"
  /\ pc' = [pc EXCEPT ![c] = "ended"]
  /\ touched' = touched \cup {c}
  /\ UNCHANGED <<locked, awaiters, deleted>>

MutexTerminating ==
  /\ deleted /\ \A c \in Clients : pc[c] \in {"idle", "ended"}
  /\ UNCHANGED mutexVars

MutexNext ==
  \/ \E c \in Clients : CoLock(c) \/ Resumed(c) \/ Unlock(c) \/ Unwind(c)
  \/ Destroy
  \/ MutexTerminating

MutexSpec == MutexInit /\ [][MutexNext]_mutexVars

\* Coroutines that were resumed run, and leave their critical sections.
MutexFairness == \A c \in Clients : WF_mutexVars(Resumed(c) \/ Unlock(c) \/ Unwind(c))
MutexFairSpec == MutexSpec /\ MutexFairness

-----------------------------------------------------------------------------
(* Correctness. *)

Owns(c) == pc[c] \in {"granted", "critical"}

\* At most one client is inside the guarded block, or about to be, and the `locked`
\* flag says whether there is one, although the flag is set on a client's behalf by
\* another client's Unlock().
MutualExclusion ==
  /\ \A c, d \in Clients : Owns(c) /\ Owns(d) => c = d
  /\ ~deleted => (locked <=> \E c \in Clients : Owns(c))

\* Nobody waits for a mutex that is free, nor for one that has been destroyed.
NoStrandedAwaiter == awaiters # <<>> => locked /\ ~deleted

\* The list of awaiters is the set of suspended clients, each of them once.
AwaitersAreSuspended ==
  /\ \A c \in Clients : pc[c] = "waiting" <=> \E i \in DOMAIN awaiters : awaiters[i] = c
  /\ \A i, j \in DOMAIN awaiters : awaiters[i] = awaiters[j] => i = j

\* The lock is somebody's and is handed on.
MutexSafe == MutualExclusion /\ NoStrandedAwaiter

\* "after receiving a CoCloseException, the CoConditionVariable must not be accessed
\* again" (CoEvent.h:86-87).
NoAccessAfterClose == touched = {}

\* CoMutex is a FIFO lock: the owner followed by the awaiters is the line.
owner == CHOOSE c \in Clients : Owns(c)
FL == INSTANCE FifoLock WITH
        line <- IF locked /\ ~deleted THEN <<owner>> \o awaiters ELSE <<>>,
        void <- deleted
ImplementsFifoLock == FL!Spec

\* No client waits for ever, as long as each one leaves its critical section.
EveryWaitEnds == \A c \in Clients : pc[c] = "waiting" ~> pc[c] \in {"critical", "ended"}
=============================================================================
