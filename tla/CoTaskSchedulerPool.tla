------------------------- MODULE CoTaskSchedulerPool -------------------------
(***************************************************************************)
(* CoTaskSchedulerPool (src/lib/CoTaskSchedulerPool.cpp): threads that     *)
(* take coroutine handles from one queue and resume them.  Everybody may   *)
(* Post(); the foreground thread resizes the pool, deletes the threads     *)
(* that have terminated and, in the end, destroys the pool.                *)
(*                                                                         *)
(* One step is one critical section of schedulerMutex, or what a thread    *)
(* does between two of them.  ScavengeDeadThreads() takes another mutex,   *)
(* so it is two steps and other threads run in between; what their         *)
(* push_back() does to its loop and to its resize(0) are actions of their  *)
(* own.  Once the foreground deletes a thread again, or reads a vector     *)
(* that was reallocated under it, it is "lost": the model stops there.     *)
(*                                                                         *)
(* A thread object that was deleted may be created again and a handle that *)
(* was taken posted again.  Only calls of Resize() are counted, up to      *)
(* MaxResizes.                                                             *)
(***************************************************************************)
EXTENDS Integers, Sequences, FiniteSets

CONSTANTS
  Threads,       \* thread objects
  PooledHandles, \* coroutine handles
  Sizes,         \* arguments of Resize()
  InitialSize,   \* the number of processors less one, at least 1
  MaxResizes     \* the bound on calls of Resize()

ASSUME PoolAssumption ==
  /\ IsFiniteSet(Threads)
  /\ Sizes \subseteq Nat \ {0}
  /\ InitialSize \in Sizes
  /\ InitialSize <= Cardinality(Threads)
  /\ MaxResizes \in Nat

VARIABLES
  pc,           \* where each thread is
  deadThreads,  \* threads that left the pool and are to be deleted
  handleQueue,
  desiredSize,
  threadSize,
  terminating,
  poolFg,       \* what the foreground thread does with the pool
  scavenged,    \* the dead threads ScavengeDeadThreads() goes through
  undead,       \* those of deadThreads that were deleted and are still on it
  resizes       \* calls of Resize() so far

queues == <<handleQueue, deadThreads, scavenged, undead>>
sizes  == <<desiredSize, threadSize, terminating, resizes>>
poolVars   == <<pc, queues, sizes, poolFg>>

\* "ready" is a thread about to look around in getOne(), whether it enters or was
\* woken up; "terminating" one that threw TerminateException there; "exiting" one that
\* has only to remove its dispatcher.
Pc == {"unborn", "ready", "waiting", "running", "terminating", "exiting", "exited"}
Fg == {"idle", "scavenging", "destroying", "waiting", "destroyed", "lost"}

PoolTypeOK ==
  /\ pc \in [Threads -> Pc]
  /\ deadThreads \subseteq Threads
  /\ handleQueue \in Seq(PooledHandles)
  /\ desiredSize \in Nat /\ threadSize \in Nat
  /\ terminating \in BOOLEAN
  /\ poolFg \in Fg
  /\ scavenged \subseteq Threads /\ undead \subseteq Threads
  /\ resizes \in 0..MaxResizes

At(where) == {t \in Threads : pc[t] \in where}
Awake  == At({"ready"})
Asleep == At({"waiting"})
Live   == At({"ready", "waiting", "running"})

\* CoTaskSchedulerPool::threads
threads == At({"ready", "waiting", "running", "terminating"})

PoolInit ==
  /\ \E initial \in SUBSET Threads :
       /\ Cardinality(initial) = InitialSize
       /\ pc = [t \in Threads |-> IF t \in initial THEN "ready" ELSE "unborn"]
  /\ deadThreads = {} /\ scavenged = {} /\ undead = {}
  /\ handleQueue = <<>>
  /\ desiredSize = InitialSize /\ threadSize = InitialSize
  /\ terminating = FALSE /\ poolFg = "idle" /\ resizes = 0

-----------------------------------------------------------------------------
(* The threads. *)

\* notify_one(), with nobody to wake if nobody waits.
NotifyNobody  == pc' = pc  \* a mutant: as if a thread were sure to look
NotifyOne ==
  \/ Asleep = {} /\ pc' = pc
  \/ \E t \in Asleep : pc' = [pc EXCEPT ![t] = "ready"]

\* notify_all().
OneAwakened ==  \* a mutant: notify_one()
  IF Asleep = {} THEN pc
  ELSE [pc EXCEPT ![CHOOSE t \in Threads : pc[t] = "waiting"] = "ready"]
Awakened == [t \in Threads |-> IF pc[t] = "waiting" THEN "ready" ELSE pc[t]]

\* Somebody other than the pool's idle threads: the foreground, a coroutine that the
\* pool runs, the callback of another thread while the pool is there.
PostToPool(h) ==
  /\ poolFg = "idle" \/ (poolFg \notin {"destroyed", "lost"} /\ At({"running"}) # {})
  /\ \A i \in 1..Len(handleQueue) : handleQueue[i] # h
  /\ handleQueue' = Append(handleQueue, h)
  /\ NotifyOne
  /\ UNCHANGED <<deadThreads, scavenged, undead, sizes, poolFg>>

TooManyOrEqual == terminating \/ desiredSize <= threadSize  \* a mutant: one too many goes
MustTerminate == terminating \/ desiredSize < threadSize

\* getOne() throws TerminateException.
Terminate(t) ==
  /\ pc[t] = "ready" /\ MustTerminate
  /\ threadSize' = threadSize - 1
  /\ pc' = [pc EXCEPT ![t] = "terminating"]
  /\ UNCHANGED <<queues, desiredSize, terminating, resizes, poolFg>>

\* getOne() returns a handle, which ThreadProc() resumes.
TakeHandle(t) ==
  /\ pc[t] = "ready" /\ ~MustTerminate
  /\ handleQueue # <<>>
  /\ handleQueue' = Tail(handleQueue)
  /\ pc' = [pc EXCEPT ![t] = "running"]
  /\ UNCHANGED <<deadThreads, scavenged, undead, sizes, poolFg>>

WaitForWork(t) ==
  /\ pc[t] = "ready" /\ ~MustTerminate
  /\ handleQueue = <<>>
  /\ pc' = [pc EXCEPT ![t] = "waiting"]
  /\ UNCHANGED <<queues, sizes, poolFg>>

\* readyToRun.wait() may return by itself.
SpuriousWakeup(t) ==
  /\ pc[t] = "waiting" /\ poolFg # "lost"
  /\ pc' = [pc EXCEPT ![t] = "ready"]
  /\ UNCHANGED <<queues, sizes, poolFg>>

\* resume() returns: the coroutine has ended or suspended itself again.
ResumeReturns(t) ==
  /\ pc[t] = "running"
  /\ pc' = [pc EXCEPT ![t] = "ready"]
  /\ UNCHANGED <<queues, sizes, poolFg>>

\* The destroyer waits on threadTerminatedCv for this.
NotNotified == poolFg  \* a mutant
Notified == IF poolFg = "waiting" THEN "destroying" ELSE poolFg

OnThreadTerminated(t) ==
  /\ pc[t] = "terminating"
  /\ pc' = [pc EXCEPT ![t] = "exiting"]
  /\ deadThreads' = deadThreads \cup {t}
  /\ poolFg' = Notified
  /\ UNCHANGED <<handleQueue, scavenged, undead, sizes>>

\* RemoveThreadDispatcher(), the end of ThreadProc().
ThreadExits(t) ==
  /\ pc[t] = "exiting"
  /\ pc' = [pc EXCEPT ![t] = "exited"]
  /\ UNCHANGED <<queues, sizes, poolFg>>

-----------------------------------------------------------------------------
(* The foreground thread. *)

\* The jthread of an object that is deleted is joined.
CanDelete(dead) == \A t \in dead : pc[t] = "exited"
Deleted(dead) == [t \in Threads |-> IF t \in dead THEN "unborn" ELSE pc[t]]

\* How many threads Resize() creates: it goes by the length of `threads`.
Missing(size) == IF size > Cardinality(threads) THEN size - Cardinality(threads) ELSE 0

SizeAfterResize(size) == threadSize + Missing(size)

\* The bounds: MaxResizes, and that there are thread objects left to create.
Resize(size) ==
  /\ poolFg = "idle"
  /\ resizes < MaxResizes /\ resizes' = resizes + 1
  /\ desiredSize' = size
  /\ threadSize' = SizeAfterResize(size)
  /\ \E new \in SUBSET At({"unborn"}) :
       /\ Cardinality(new) = Missing(size)
       /\ pc' = [t \in Threads |-> IF t \in new THEN "ready" ELSE Awakened[t]]
  /\ UNCHANGED <<queues, terminating, poolFg>>

ScavengeBegins ==
  /\ poolFg = "idle" /\ deadThreads # {} /\ undead = {}
  /\ scavenged' = deadThreads /\ poolFg' = "scavenging"
  /\ UNCHANGED <<pc, handleQueue, deadThreads, undead, sizes>>

\* deadThreads.resize(0) also drops the threads that were added since the loop began: they
\* are never deleted.
ScavengeEnds ==
  /\ poolFg = "scavenging" /\ CanDelete(scavenged)
  /\ pc' = Deleted(scavenged)
  /\ deadThreads' = {}
  /\ scavenged' = {} /\ poolFg' = "idle"
  /\ UNCHANGED <<handleQueue, undead, sizes>>

\* push_back() reads where the vector ends, resize(0) empties it, push_back() writes the
\* new end: the threads that were just deleted are on it again.
PushMeetsResize(t) ==
  /\ pc[t] = "terminating" /\ poolFg = "scavenging" /\ CanDelete(scavenged)
  /\ pc' = [Deleted(scavenged) EXCEPT ![t] = "exiting"]
  /\ deadThreads' = deadThreads \cup {t}
  /\ undead' = scavenged
  /\ scavenged' = {} /\ poolFg' = "idle"
  /\ UNCHANGED <<handleQueue, sizes>>

\* push_back() moves the vector, and the loop goes on in the memory that it was in.
PushMovesVector(t) ==
  /\ pc[t] = "terminating" /\ poolFg = "scavenging"
  /\ pc' = [pc EXCEPT ![t] = "exiting"]
  /\ deadThreads' = deadThreads \cup {t}
  /\ poolFg' = "lost"
  /\ UNCHANGED <<handleQueue, scavenged, undead, sizes>>

\* The next loop deletes them again, or, where a new thread has the memory, waits for a
\* thread that nobody has told to go.
ScavengeAgain ==
  /\ poolFg = "idle" /\ undead # {}
  /\ poolFg' = "lost"
  /\ UNCHANGED <<pc, queues, sizes>>

DestroyBegins ==
  /\ poolFg = "idle" /\ poolFg' = "destroying"
  /\ terminating' = TRUE /\ desiredSize' = 0
  /\ pc' = Awakened
  /\ UNCHANGED <<queues, threadSize, resizes>>

NoneCounted == threadSize = 0  \* a mutant: counts those that have thrown as gone
AllGone == threads = {}

\* One turn of the loop of DestroyAllThreads(), up to the wait.
DestroyTurn ==
  /\ poolFg = "destroying" /\ undead = {} /\ CanDelete(deadThreads)
  /\ pc' = Deleted(deadThreads) /\ deadThreads' = {}
  /\ poolFg' = IF AllGone THEN "destroyed" ELSE "waiting"
  /\ UNCHANGED <<handleQueue, scavenged, undead, sizes>>

DestroyAgain ==
  /\ poolFg = "destroying" /\ undead # {}
  /\ poolFg' = "lost"
  /\ UNCHANGED <<pc, queues, sizes>>

SpuriousTurn ==
  /\ poolFg = "waiting" /\ poolFg' = "destroying"
  /\ UNCHANGED <<pc, queues, sizes>>

-----------------------------------------------------------------------------
GetOne(t) == Terminate(t) \/ TakeHandle(t) \/ WaitForWork(t)
ThreadStep(t) ==
  /\ poolFg # "lost"
  /\ GetOne(t) \/ ResumeReturns(t) \/ OnThreadTerminated(t) \/ ThreadExits(t)

PoolNext ==
  \/ \E h \in PooledHandles : PostToPool(h)
  \/ \E t \in Threads : \/ ThreadStep(t) \/ SpuriousWakeup(t)
                       \/ PushMeetsResize(t) \/ PushMovesVector(t)
  \/ \E size \in Sizes : Resize(size)
  \/ ScavengeBegins \/ ScavengeEnds \/ ScavengeAgain
  \/ DestroyBegins \/ DestroyTurn \/ DestroyAgain \/ SpuriousTurn

PoolSpec == PoolInit /\ [][PoolNext]_poolVars

\* Threads run, coroutines return to their threads, the foreground gets on with what it
\* has begun.  Nobody has to post, to resize or to destroy.
PoolFairSpec ==
  /\ PoolSpec
  /\ \A t \in Threads : WF_poolVars(ThreadStep(t))
  /\ WF_poolVars(ScavengeEnds) /\ WF_poolVars(DestroyTurn \/ DestroyAgain)

-----------------------------------------------------------------------------
(* Properties. *)

\* threadSize counts the threads that have not decided to terminate: the ones that are on
\* the list although they are not counted are those on their way to OnThreadTerminated().
CountsAgree == threadSize = Cardinality(Live)

\* While a thread sleeps in getOne(), there is a thread about to look for every handle in
\* the queue: no notification of Post() is lost or spent on a thread that goes away.
NobodySleepsOnWork ==
  Asleep # {} => Len(handleQueue) <= Cardinality(Awake)

\* No thread sleeps through a reduction of the pool or its destruction.
NobodySleepsThroughResize ==
  Asleep # {} => ~terminating /\ threadSize <= desiredSize

\* Whatever the order of resizings and terminations, a live thread remains for what will be
\* posted: the size never falls below the smallest that was asked for.
SomeoneRemains ==
  ~terminating => \E size \in Sizes : size <= desiredSize /\ size <= threadSize

\* DestroyAllThreads() returns, and the pool's memory goes, only when no thread will
\* touch the pool again.
NothingUsesTheDead == poolFg = "destroyed" => threads = {}

\* A thread's object is deleted, and its thread joined, only off the list, and once but for
\* the undead: the others are exiting or gone, neither deleted nor alive again.
TheDeadStayDead == (deadThreads \cup scavenged) \ undead \subseteq At({"exiting", "exited"})

\* The snapshot of ScavengeDeadThreads() is gone when it returns.
ScavengesAlone == poolFg \notin {"scavenging", "lost"} => scavenged = {}

\* ScavengeDeadThreads() begins with a list that nobody undead is on.
ScavengesTheDead == poolFg = "scavenging" => undead = {}

\* The inductive invariant: what the others rest on.
PoolInv == /\ PoolTypeOK
           /\ CountsAgree
           /\ NobodySleepsOnWork
           /\ NobodySleepsThroughResize
           /\ SomeoneRemains
           /\ NothingUsesTheDead
           /\ TheDeadStayDead
           /\ ScavengesAlone
           /\ ScavengesTheDead

\* What was posted is taken by a thread, unless the pool is destroyed or lost.
HandlesRun ==
  \A h \in PooledHandles :
    (\E i \in 1..Len(handleQueue) : handleQueue[i] = h)
      ~> (terminating \/ poolFg = "lost" \/ \A i \in 1..Len(handleQueue) : handleQueue[i] # h)

\* DestroyAllThreads() ends, unless it has a thread to delete again.
DestroyEnds == terminating ~> poolFg = "destroyed" \/ (undead # {} /\ poolFg = "lost")

\* SetThreadPoolSize(5) makes GetThreadPoolSize() 5 (CoTaskTest.cpp asserts it): when all
\* have noticed the resizing, the list has the length that was asked for.  It has not, if
\* the pool was growing while threads were on their way out.
SizeIsReached ==
  ~terminating /\ At({"ready", "running", "terminating"}) = {} =>
    Cardinality(threads) = desiredSize

\* PumpMessages() is "for the dead threads to be reclaimed" (CoTaskTest.cpp): who was deleted
\* is off the list.
ReclaimedOnce == deadThreads \cap At({"unborn"}) = {}
=============================================================================
