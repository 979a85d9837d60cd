-------------------------- MODULE Scheduling_proofs --------------------------
(***************************************************************************)
(* The proofs about what runs coroutines: the thread pool and the ring in  *)
(* which it keeps its handles, the coroutines' calls and awaits, and the   *)
(* foreground dispatcher.                                                  *)
(***************************************************************************)
EXTENDS CoTaskSchedulerPool, CoTask, CoDispatcher, ListLemmas,
        FiniteSetTheorems

-----------------------------------------------------------------------------
(***************************************************************************)
(* The safety of the thread pool, for any number of threads and handles,   *)
(* any sizes and any number of resizings.  The arguments are countings:    *)
(* each action moves at most one thread between the sets Awake, Asleep and *)
(* Live, except Resize() and the destruction, which wake everybody up.     *)
(***************************************************************************)

\* Sets of threads are finite, and so counted by naturals.
LEMMA Counted ==
  ASSUME NEW S \in SUBSET Threads
  PROVE  IsFiniteSet(S) /\ Cardinality(S) \in Nat
  BY PoolAssumption, FS_Subset, FS_CardinalityType

LEMMA Sets ==
  /\ Awake \subseteq Threads /\ Asleep \subseteq Threads
  /\ Live \subseteq Threads /\ threads \subseteq Threads
  /\ Awake \cap Asleep = {} /\ Awake \subseteq Live /\ Live \subseteq threads
  BY DEF Awake, Asleep, Live, threads, At

\* A step that leaves the pool's sizes and its queue, sleepers and live threads alone.
Quiet == /\ UNCHANGED <<handleQueue, sizes>>
         /\ Asleep' = Asleep /\ Awake' = Awake /\ Live' = Live

LEMMA QuietStep ==
  ASSUME PoolInv, Quiet
  PROVE  CountsAgree' /\ NobodySleepsOnWork' /\ NobodySleepsThroughResize' /\ SomeoneRemains'
  BY DEF PoolInv, Quiet, sizes, CountsAgree, NobodySleepsOnWork, NobodySleepsThroughResize,
         SomeoneRemains

\* One thread more is about to look, and the queue is at most one handle longer and only if
\* the thread was asleep: notify_one(), a spurious wakeup, a coroutine that returns.
LEMMA OneMoreLooks ==
  ASSUME PoolInv, NEW t \in Threads, t \notin Awake, t \in Live,
         pc' = [pc EXCEPT ![t] = "ready"], UNCHANGED sizes,
         handleQueue' \in Seq(PooledHandles), Len(handleQueue') <= Len(handleQueue) + 1
  PROVE  CountsAgree' /\ NobodySleepsOnWork' /\ NobodySleepsThroughResize' /\ SomeoneRemains'
<1> USE DEF PoolInv, PoolTypeOK
<1>1. Awake' = Awake \cup {t} /\ Live' = Live /\ Asleep' = Asleep \ {t}
  BY DEF Awake, Asleep, Live, At
<1>2. Cardinality(Awake') = Cardinality(Awake) + 1 /\ Cardinality(Awake) \in Nat
  BY <1>1, Sets, Counted, FS_AddElement
<1>3. Len(handleQueue) \in Nat /\ Len(handleQueue') \in Nat
  OBVIOUS
<1>4. Asleep' # {} => Asleep # {}
  BY <1>1
<1>5. NobodySleepsOnWork'
  BY <1>2, <1>3, <1>4 DEF NobodySleepsOnWork
<1> QED BY <1>1, <1>4, <1>5 DEF sizes, CountsAgree, NobodySleepsThroughResize, SomeoneRemains

\* The invariant holds of every reachable state.
THEOREM PoolInvariance == PoolSpec => []PoolInv
<1>1. PoolInit => PoolInv
  <2> SUFFICES ASSUME PoolInit PROVE PoolInv
    OBVIOUS
  <2> USE DEF PoolInit
  <2>1. PICK initial \in SUBSET Threads :
          /\ Cardinality(initial) = InitialSize
          /\ pc = [t \in Threads |-> IF t \in initial THEN "ready" ELSE "unborn"]
    OBVIOUS
  <2>2. Live = initial /\ Asleep = {}
    BY <2>1 DEF Live, Asleep, At
  <2>3. InitialSize \in Nat /\ InitialSize \in Sizes
    BY PoolAssumption
  <2>4. <<>> \in Seq(PooledHandles) /\ 0 \in 0..MaxResizes
    BY PoolAssumption
  <2>5. PoolTypeOK
    BY <2>1, <2>3, <2>4 DEF PoolTypeOK, Pc, Fg
  <2> QED BY <2>1, <2>2, <2>3, <2>5 DEF PoolInv, ScavengesAlone, CountsAgree, NobodySleepsOnWork,
         NobodySleepsThroughResize, SomeoneRemains, NothingUsesTheDead, TheDeadStayDead, ScavengesTheDead
<1>2. PoolInv /\ [PoolNext]_poolVars => PoolInv'
  <2> SUFFICES ASSUME PoolInv, [PoolNext]_poolVars PROVE PoolInv'
    OBVIOUS
  <2> USE DEF PoolInv, PoolTypeOK, Pc, Fg, ScavengesAlone, ScavengesTheDead
  <2>1. ASSUME NEW h \in PooledHandles, PostToPool(h) PROVE PoolInv'
    <3>1. /\ handleQueue' \in Seq(PooledHandles) /\ Len(handleQueue') = Len(handleQueue) + 1
          /\ UNCHANGED <<deadThreads, scavenged, undead, sizes, poolFg>> /\ NotifyOne
      BY <2>1 DEF PostToPool
    <3>2. CASE Asleep = {} /\ pc' = pc
      <4>1. Asleep' = {} /\ Live' = Live /\ threads' = threads
        BY <3>2 DEF Asleep, Live, threads, At
      <4> QED BY <3>1, <3>2, <4>1 DEF sizes, CountsAgree, NobodySleepsOnWork,
             NobodySleepsThroughResize, SomeoneRemains, NothingUsesTheDead, TheDeadStayDead, At
    <3>3. ASSUME NEW t \in Asleep, pc' = [pc EXCEPT ![t] = "ready"] PROVE PoolInv'
      <4>1. t \in Threads /\ t \notin Awake /\ t \in Live /\ threads' = threads
        BY <3>3 DEF Asleep, Awake, Live, threads, At
      <4>2. CountsAgree' /\ NobodySleepsOnWork' /\ NobodySleepsThroughResize' /\ SomeoneRemains'
        <5>1. UNCHANGED sizes /\ Len(handleQueue') <= Len(handleQueue) + 1
          BY <3>1
        <5>2. PoolInv
          OBVIOUS
        <5> HIDE DEF PoolInv, PoolTypeOK
        <5> QED BY <3>1, <3>3, <4>1, <5>1, <5>2, OneMoreLooks
      <4>3. TheDeadStayDead'
        BY <3>1, <3>3, <4>1 DEF TheDeadStayDead, At, Asleep
      <4>4. PoolTypeOK' /\ NothingUsesTheDead' /\ ScavengesAlone' /\ ScavengesTheDead'
        BY <3>1, <3>3, <4>1 DEF sizes, NothingUsesTheDead
      <4> QED BY <4>2, <4>3, <4>4
    <3> QED BY <3>1, <3>2, <3>3 DEF NotifyOne
  <2>2. ASSUME NEW t \in Threads, Terminate(t) PROVE PoolInv'
    <3>1. /\ pc[t] = "ready" /\ MustTerminate /\ threadSize' = threadSize - 1
          /\ pc' = [pc EXCEPT ![t] = "terminating"]
          /\ UNCHANGED <<queues, desiredSize, terminating, resizes, poolFg>>
      BY <2>2 DEF Terminate
    <3>2. Live' = Live \ {t} /\ t \in Live /\ Asleep' = Asleep /\ threads' = threads
      BY <3>1 DEF Live, Asleep, threads, At
    <3>3. Cardinality(Live') = Cardinality(Live) - 1 /\ Live' \in SUBSET Threads
      BY <3>2, Sets, Counted, FS_RemoveElement
    <3>4. CountsAgree' /\ threadSize' \in Nat
      BY <3>1, <3>3, Counted DEF CountsAgree
    <3>5. Asleep' = {}
      BY <3>1, <3>2 DEF NobodySleepsThroughResize, MustTerminate
    <3>6. SomeoneRemains'
      BY <3>1, PoolAssumption DEF SomeoneRemains, MustTerminate
    <3>7. TheDeadStayDead'
      BY <3>1 DEF TheDeadStayDead, At, queues
    <3> QED BY <3>1, <3>2, <3>4, <3>5, <3>6, <3>7 DEF queues, NobodySleepsOnWork,
           NobodySleepsThroughResize, NothingUsesTheDead
  <2>3. ASSUME NEW t \in Threads, TakeHandle(t) PROVE PoolInv'
    <3>1. /\ pc[t] = "ready" /\ handleQueue # <<>> /\ handleQueue' = Tail(handleQueue)
          /\ pc' = [pc EXCEPT ![t] = "running"]
          /\ UNCHANGED <<deadThreads, scavenged, undead, sizes, poolFg>>
      BY <2>3 DEF TakeHandle
    <3>2. handleQueue' \in Seq(PooledHandles) /\ Len(handleQueue') = Len(handleQueue) - 1
      BY <3>1
    <3>3. /\ Awake' = Awake \ {t} /\ t \in Awake /\ Live' = Live
          /\ Asleep' = Asleep /\ threads' = threads
      BY <3>1 DEF Awake, Live, Asleep, threads, At
    <3>4. Cardinality(Awake') = Cardinality(Awake) - 1 /\ Cardinality(Awake) \in Nat
      BY <3>3, Sets, Counted, FS_RemoveElement
    <3>5. NobodySleepsOnWork'
      BY <3>2, <3>3, <3>4 DEF NobodySleepsOnWork
    <3>6. TheDeadStayDead'
      BY <3>1 DEF TheDeadStayDead, At
    <3> QED BY <3>1, <3>2, <3>3, <3>5, <3>6 DEF sizes, CountsAgree, NobodySleepsThroughResize,
           SomeoneRemains, NothingUsesTheDead
  <2>4. ASSUME NEW t \in Threads, WaitForWork(t) PROVE PoolInv'
    <3>1. /\ pc[t] = "ready" /\ ~MustTerminate /\ handleQueue = <<>>
          /\ pc' = [pc EXCEPT ![t] = "waiting"] /\ UNCHANGED <<queues, sizes, poolFg>>
      BY <2>4 DEF WaitForWork
    <3>2. Live' = Live /\ threads' = threads /\ Awake' \subseteq Threads
      BY <3>1 DEF Awake, Live, threads, At
    <3>3. NobodySleepsOnWork'
      BY <3>1, <3>2, Counted DEF NobodySleepsOnWork, queues
    <3>4. NobodySleepsThroughResize'
      BY <3>1 DEF NobodySleepsThroughResize, MustTerminate, sizes
    <3>5. TheDeadStayDead'
      BY <3>1 DEF TheDeadStayDead, At, queues
    <3> QED BY <3>1, <3>2, <3>3, <3>4, <3>5 DEF sizes, queues, CountsAgree, SomeoneRemains,
           NothingUsesTheDead
  <2>5. ASSUME NEW t \in Threads, SpuriousWakeup(t) \/ ResumeReturns(t) PROVE PoolInv'
    <3>1. /\ pc[t] \in {"waiting", "running"} /\ pc' = [pc EXCEPT ![t] = "ready"]
          /\ UNCHANGED <<queues, sizes, poolFg>>
      BY <2>5 DEF SpuriousWakeup, ResumeReturns
    <3>2. t \notin Awake /\ t \in Live /\ threads' = threads
      BY <3>1 DEF Awake, Live, threads, At
    <3>3. CountsAgree' /\ NobodySleepsOnWork' /\ NobodySleepsThroughResize' /\ SomeoneRemains'
      <4>1. UNCHANGED sizes /\ handleQueue' = handleQueue
        BY <3>1 DEF queues
      <4>2. handleQueue' \in Seq(PooledHandles) /\ Len(handleQueue') <= Len(handleQueue) + 1
        BY <4>1
      <4>3. PoolInv
        OBVIOUS
      <4> HIDE DEF PoolInv, PoolTypeOK
      <4> QED BY <3>1, <3>2, <4>1, <4>2, <4>3, OneMoreLooks
    <3>4. TheDeadStayDead'
      BY <3>1 DEF TheDeadStayDead, At, queues
    <3> QED BY <3>1, <3>2, <3>3, <3>4 DEF sizes, queues, NothingUsesTheDead
  <2>6. ASSUME NEW t \in Threads, OnThreadTerminated(t) PROVE PoolInv'
    <3>1. /\ pc[t] = "terminating" /\ pc' = [pc EXCEPT ![t] = "exiting"]
          /\ deadThreads' = deadThreads \cup {t} /\ poolFg' = Notified
          /\ UNCHANGED <<handleQueue, scavenged, undead, sizes>>
      BY <2>6 DEF OnThreadTerminated
    <3>2. threads' \subseteq threads /\ Quiet
      BY <3>1 DEF threads, Quiet, Awake, Asleep, Live, At
    <3>3. TheDeadStayDead'
      BY <3>1 DEF TheDeadStayDead, At
    <3>4. NothingUsesTheDead'
      BY <3>1, <3>2 DEF NothingUsesTheDead, Notified
    <3>5. PoolTypeOK' /\ ScavengesAlone' /\ ScavengesTheDead'
      BY <3>1 DEF Notified, sizes
    <3> QED BY <3>2, <3>3, <3>4, <3>5, QuietStep
  <2>7. ASSUME NEW t \in Threads, ThreadExits(t) PROVE PoolInv'
    <3>1. /\ pc[t] = "exiting" /\ pc' = [pc EXCEPT ![t] = "exited"]
          /\ UNCHANGED <<queues, sizes, poolFg>>
      BY <2>7 DEF ThreadExits
    <3>2. threads' = threads /\ Quiet
      BY <3>1 DEF threads, Quiet, Awake, Asleep, Live, At, queues
    <3>3. TheDeadStayDead'
      BY <3>1 DEF TheDeadStayDead, At, queues
    <3> QED BY <3>1, <3>2, <3>3, QuietStep DEF sizes, queues, NothingUsesTheDead
  <2>8. ASSUME NEW size \in Sizes, Resize(size) PROVE PoolInv'
    <3>1. PICK new \in SUBSET At({"unborn"}) :
            /\ Cardinality(new) = Missing(size)
            /\ pc' = [t \in Threads |-> IF t \in new THEN "ready" ELSE Awakened[t]]
      BY <2>8 DEF Resize
    <3>2. /\ poolFg = "idle" /\ desiredSize' = size
          /\ resizes < MaxResizes /\ resizes' = resizes + 1
          /\ threadSize' = threadSize + Missing(size)
          /\ UNCHANGED <<queues, terminating, poolFg>>
      BY <2>8 DEF Resize, SizeAfterResize
    <3>3. size \in Nat /\ Cardinality(threads) \in Nat /\ MaxResizes \in Nat
      BY PoolAssumption, Sets, Counted
    <3>4. Missing(size) \in Nat
      BY <3>3 DEF Missing
    <3>5. /\ Live' = Live \cup new /\ Live \cap new = {} /\ Asleep' = {}
          /\ new \subseteq Threads
      BY <3>1 DEF Live, Asleep, At, Awakened
    <3>6. Cardinality(Live') = Cardinality(Live) + Missing(size)
      <4>1. IsFiniteSet(Live) /\ IsFiniteSet(new) /\ Cardinality(Live) \in Nat
        BY <3>5, Sets, Counted
      <4>2. Cardinality(Live \cup new) = Cardinality(Live) + Cardinality(new)
                                         - Cardinality(Live \cap new)
        BY <4>1, FS_Union
      <4>3. Cardinality(Live \cap new) = 0
        BY <3>5, FS_EmptySet
      <4> HIDE DEF PoolInv
      <4> QED BY <3>1, <3>4, <3>5, <4>1, <4>2, <4>3
    <3>7. PoolTypeOK'
      <4>1. pc' \in [Threads -> Pc]
        BY <3>1 DEF Awakened
      <4>2. threadSize' \in Nat /\ resizes' \in 0..MaxResizes
        BY <3>2, <3>3, <3>4
      <4> QED BY <3>2, <3>3, <4>1, <4>2 DEF queues
    <3>8. SomeoneRemains'
      <4> SUFFICES ASSUME ~terminating'
                   PROVE  \E s \in Sizes : s <= desiredSize' /\ s <= threadSize'
        BY DEF SomeoneRemains
      <4>1. PICK s \in Sizes : s <= desiredSize /\ s <= threadSize
        BY <3>2 DEF SomeoneRemains
      <4>2. s \in Nat
        BY PoolAssumption
      <4>3. CASE size < s
        BY <3>2, <3>3, <3>4, <4>1, <4>2, <4>3
      <4>4. CASE s <= size
        BY <3>2, <3>3, <3>4, <4>1, <4>2, <4>4
      <4> QED BY <3>3, <4>2, <4>3, <4>4
    <3>9. TheDeadStayDead'
      BY <3>1, <3>2 DEF TheDeadStayDead, At, queues, Awakened
    <3> QED BY <3>2, <3>5, <3>6, <3>7, <3>8, <3>9 DEF queues, CountsAgree,
           NobodySleepsOnWork, NobodySleepsThroughResize, NothingUsesTheDead
  <2>9. CASE ScavengeBegins
    <3>1. /\ pc' = pc /\ scavenged' = deadThreads /\ poolFg' = "scavenging" /\ undead = {}
          /\ UNCHANGED <<handleQueue, deadThreads, undead, sizes>>
      BY <2>9 DEF ScavengeBegins
    <3>2. Quiet /\ threads' = threads
      BY <3>1 DEF Quiet, threads, Awake, Asleep, Live, At
    <3> QED BY <3>1, <3>2, QuietStep DEF sizes, NothingUsesTheDead, TheDeadStayDead, At
  <2>10. CASE ScavengeEnds
    <3>1. /\ CanDelete(scavenged) /\ pc' = Deleted(scavenged) /\ deadThreads' = {}
          /\ scavenged' = {} /\ poolFg' = "idle" /\ UNCHANGED <<handleQueue, undead, sizes>>
      BY <2>10 DEF ScavengeEnds
    <3>2. Quiet
      BY <3>1 DEF Quiet, Awake, Asleep, Live, At, CanDelete, Deleted
    <3>3. TheDeadStayDead'
      BY <3>1 DEF TheDeadStayDead
    <3> QED BY <3>1, <3>2, <3>3, QuietStep DEF sizes, NothingUsesTheDead, Deleted
  <2>11. CASE DestroyBegins
    <3>1. /\ poolFg = "idle" /\ poolFg' = "destroying" /\ terminating' = TRUE /\ desiredSize' = 0 /\ pc' = Awakened
          /\ UNCHANGED <<queues, threadSize, resizes>>
      BY <2>11 DEF DestroyBegins
    <3>2. Live' = Live /\ Asleep' = {}
      BY <3>1 DEF Live, Asleep, At, Awakened
    <3>3. TheDeadStayDead'
      BY <3>1 DEF TheDeadStayDead, At, queues, Awakened
    <3> QED BY <3>1, <3>2, <3>3 DEF queues, CountsAgree, NobodySleepsOnWork, Awakened,
           NobodySleepsThroughResize, SomeoneRemains, NothingUsesTheDead
  <2>12. CASE DestroyTurn
    <3>1. /\ poolFg = "destroying" /\ CanDelete(deadThreads) /\ pc' = Deleted(deadThreads)
          /\ deadThreads' = {} /\ poolFg' = IF AllGone THEN "destroyed" ELSE "waiting"
          /\ UNCHANGED <<handleQueue, scavenged, undead, sizes>>
      BY <2>12 DEF DestroyTurn
    <3>2. Quiet /\ threads' = threads
      BY <3>1 DEF Quiet, threads, Awake, Asleep, Live, At, CanDelete, Deleted
    <3>3. scavenged = {}
      BY <3>1
    <3>4. TheDeadStayDead'
      BY <3>1, <3>3 DEF TheDeadStayDead, At, Deleted
    <3> QED BY <3>1, <3>2, <3>4, QuietStep DEF sizes, NothingUsesTheDead, AllGone, Deleted
  <2>13. CASE SpuriousTurn
    <3>1. poolFg = "waiting" /\ poolFg' = "destroying" /\ UNCHANGED <<pc, queues, sizes>>
      BY <2>13 DEF SpuriousTurn
    <3>2. Quiet
      BY <3>1 DEF Quiet, Awake, Asleep, Live, At, queues
    <3> QED BY <3>1, <3>2, QuietStep DEF sizes, queues, NothingUsesTheDead, TheDeadStayDead, At
  <2>14. ASSUME NEW t \in Threads, PushMeetsResize(t) PROVE PoolInv'
    <3>1. /\ pc[t] = "terminating" /\ poolFg' = "idle" /\ CanDelete(scavenged)
          /\ pc' = [Deleted(scavenged) EXCEPT ![t] = "exiting"]
          /\ deadThreads' = deadThreads \cup {t} /\ undead' = scavenged
          /\ scavenged' = {} /\ UNCHANGED <<handleQueue, sizes>>
      BY <2>14 DEF PushMeetsResize
    <3>2. \A u \in Threads :
            pc'[u] = IF u = t THEN "exiting" ELSE IF u \in scavenged THEN "unborn" ELSE pc[u]
      BY <3>1 DEF Deleted
    <3>3. \A u \in scavenged : pc[u] = "exited"
      BY <3>1 DEF CanDelete
    <3>4. Quiet
      BY <3>1, <3>2, <3>3 DEF Quiet, Awake, Asleep, Live, At
    <3>5. (deadThreads \cup scavenged) \ undead \subseteq At({"exiting", "exited"})
      BY DEF TheDeadStayDead
    <3>6. undead = {}
      BY <2>14 DEF PushMeetsResize
    <3>7. TheDeadStayDead'
      BY <3>1, <3>2, <3>5, <3>6 DEF TheDeadStayDead, At
    <3>8. PoolTypeOK' /\ ScavengesAlone' /\ NothingUsesTheDead' /\ ScavengesTheDead'
      BY <3>1 DEF Deleted, sizes, NothingUsesTheDead
    <3> QED BY <3>4, <3>7, <3>8, QuietStep
  <2>15. ASSUME NEW t \in Threads, PushMovesVector(t) PROVE PoolInv'
    <3>1. /\ pc[t] = "terminating" /\ pc' = [pc EXCEPT ![t] = "exiting"]
          /\ deadThreads' = deadThreads \cup {t} /\ poolFg' = "lost"
          /\ UNCHANGED <<handleQueue, scavenged, undead, sizes>>
      BY <2>15 DEF PushMovesVector
    <3>2. Quiet
      BY <3>1 DEF Quiet, Awake, Asleep, Live, At
    <3>3. TheDeadStayDead'
      BY <3>1 DEF TheDeadStayDead, At
    <3> QED BY <3>1, <3>2, <3>3, QuietStep DEF sizes, NothingUsesTheDead
  <2>16. CASE ScavengeAgain \/ DestroyAgain
    <3>1. poolFg' = "lost" /\ UNCHANGED <<pc, queues, sizes>>
      BY <2>16 DEF ScavengeAgain, DestroyAgain
    <3>2. Quiet
      BY <3>1 DEF Quiet, Awake, Asleep, Live, At, queues
    <3> QED BY <3>1, <3>2, QuietStep
        DEF sizes, queues, NothingUsesTheDead, TheDeadStayDead, At
  <2>17. CASE UNCHANGED poolVars
    <3>1. Quiet /\ threads' = threads /\ UNCHANGED <<pc, queues, sizes, poolFg>>
      BY <2>17 DEF poolVars, Quiet, threads, Awake, Asleep, Live, At, queues
    <3> QED BY <3>1, QuietStep DEF sizes, queues, NothingUsesTheDead, TheDeadStayDead, At
  <2> QED BY <2>1, <2>2, <2>3, <2>4, <2>5, <2>6, <2>7, <2>8, <2>9, <2>10, <2>11, <2>12,
         <2>13, <2>14, <2>15, <2>16, <2>17 DEF PoolNext, ThreadStep, GetOne
<1> QED BY <1>1, <1>2, PTL DEF PoolSpec

\* The state of the pool has its type, threadSize is never negative.
THEOREM PoolTypeCorrect == PoolSpec => []PoolTypeOK
  BY PoolInvariance, PTL DEF PoolInv

\* No notification of Post() is lost or spent on a thread that goes away.
THEOREM WorkIsSeen == PoolSpec => []NobodySleepsOnWork
  BY PoolInvariance, PTL DEF PoolInv

\* No thread sleeps through a reduction or the destruction of the pool.
THEOREM ResizesAreSeen == PoolSpec => []NobodySleepsThroughResize
  BY PoolInvariance, PTL DEF PoolInv

\* The pool keeps a thread, whatever the order of resizings and terminations.
THEOREM ThreadRemains == PoolSpec => []SomeoneRemains
  BY PoolInvariance, PTL DEF PoolInv

\* No thread touches a pool that was destroyed.
THEOREM DestroyedIsUnused == PoolSpec => []NothingUsesTheDead
  BY PoolInvariance, PTL DEF PoolInv

-----------------------------------------------------------------------------
(***************************************************************************)
(* A coroutine that awaits a task is continued, and no frame is freed that *)
(* somebody has yet to run, for any coroutines, threads and hops, but for  *)
(* the two races that the model names: a precursor written too late, and a *)
(* frame destroyed too soon.                                               *)
(*                                                                         *)
(* Two facts make it inductive.  A precursor and the task it awaits point  *)
(* to each other until the task is done (AwaitedIsOwned, PrecursorAwaits). *)
(* And only its holder, who is then not waiting for it, destroys a task.   *)
(***************************************************************************)

\* A coroutine is on one stack at most, and once.
StacksAreDisjoint ==
  /\ \A th \in AllThreads : IsInjective(stack[th])
  /\ \A th1, th2 \in AllThreads :
       th1 # th2 => Range(stack[th1]) \cap Range(stack[th2]) = {}

OnStackRuns ==
  \A th \in AllThreads : \A t \in Range(stack[th]) :
    status[t] \in {"running", "testing", "pumping", "final"}

PostedOnce ==
  /\ \A place \in Places : \A t \in postedHandles[place] : status[t] = "posted"
  /\ postedHandles["foreground"] \cap postedHandles["pool"] = {}

AwaitedIsOwned ==
  \A p \in Tasks : status[p] \in {"testing", "awaiting", "pumping"} =>
    /\ awaited[p] \in Tasks /\ owner[awaited[p]] = p /\ status[awaited[p]] # "unborn"
    /\ awaited[p] \notin destroyed
    /\ status[p] = "awaiting" /\ p \notin tooLate =>
         precursor[awaited[p]] = p /\ status[awaited[p]] # "done"

PrecursorAwaits ==
  \A c \in Tasks : precursor[c] # NoTask /\ status[c] # "done" =>
    status[precursor[c]] = "awaiting" /\ awaited[precursor[c]] = c

DestroyedAreDone ==
  \A t \in destroyed : status[t] = "done" \/ (status[t] = "final" /\ t \in tooSoon)

Stacks == StacksAreDisjoint /\ OnStackRuns
Waits == AwaitedIsOwned /\ PrecursorAwaits
TaskInv == TaskTypeOK /\ Stacks /\ PostedOnce /\ Waits /\ DestroyedAreDone

-----------------------------------------------------------------------------
(* What the operations on stacks do. *)

\* Who is on top is on the stack.
LEMMA TopIsOn ==
  ASSUME TaskTypeOK, NEW th \in AllThreads, Top(th) \in Tasks
  PROVE  /\ stack[th] # <<>> /\ Top(th) = Last(stack[th]) /\ Top(th) \in Range(stack[th])
<1>1. stack[th] \in Seq(Tasks) /\ stack[th] # <<>>
  BY TasksAssumption DEF TaskTypeOK, Top
<1>2. Len(stack[th]) \in DOMAIN stack[th]
  BY <1>1
<1> QED BY <1>1, <1>2 DEF Top, Last, Range

\* Only one stack changes, by what is said of its elements and its top.
Changes(th, elements, top) ==
  /\ stack' \in [AllThreads -> Seq(Tasks)] /\ StacksAreDisjoint'
  /\ Range(stack'[th]) = elements
  /\ \A x \in AllThreads : x # th => Range(stack'[x]) = Range(stack[x]) /\ Top(x)' = Top(x)
  /\ top # NoTask => Top(th)' = top

LEMMA StackChanges ==
  ASSUME TaskTypeOK, StacksAreDisjoint, NEW th \in AllThreads, NEW s \in Seq(Tasks), IsInjective(s),
         stack' = [stack EXCEPT ![th] = s],
         \A x \in AllThreads : x # th => Range(s) \cap Range(stack[x]) = {}
  PROVE  Changes(th, Range(s), IF s = <<>> THEN NoTask ELSE Last(s))
<1>1. stack' \in [AllThreads -> Seq(Tasks)] /\ stack'[th] = s
      /\ \A x \in AllThreads : x # th => stack'[x] = stack[x]
  BY DEF TaskTypeOK
<1>2. StacksAreDisjoint'
  BY <1>1 DEF StacksAreDisjoint
<1>3. \A x \in AllThreads : x # th => Top(x)' = Top(x)
  BY <1>1 DEF Top
<1>4. s # <<>> => Top(th)' = Last(s)
  BY <1>1 DEF Top, Last
<1> QED BY <1>1, <1>2, <1>3, <1>4 DEF Changes

LEMMA Pushes ==
  ASSUME TaskTypeOK, StacksAreDisjoint, NEW th \in AllThreads, NEW t \in Tasks,
         \A x \in AllThreads : t \notin Range(stack[x]), stack' = Push(th, t)
  PROVE  Changes(th, Range(stack[th]) \cup {t}, t)
<1>1. stack[th] \in Seq(Tasks) /\ IsInjective(stack[th])
  BY DEF TaskTypeOK, StacksAreDisjoint
<1> DEFINE s == Append(stack[th], t)
<1>2. /\ s \in Seq(Tasks) /\ IsInjective(s) /\ Range(s) = Range(stack[th]) \cup {t}
      /\ s # <<>> /\ Last(s) = t
  BY <1>1, ListWith
<1>3. stack' = [stack EXCEPT ![th] = s]
  BY DEF Push
<1> HIDE DEF s
<1>4. \A x \in AllThreads : x # th => Range(s) \cap Range(stack[x]) = {}
  BY <1>2 DEF StacksAreDisjoint
<1>5. Changes(th, Range(s), IF s = <<>> THEN NoTask ELSE Last(s))
  BY <1>2, <1>3, <1>4, StackChanges
<1>6. (IF s = <<>> THEN NoTask ELSE Last(s)) = t
  BY <1>2
<1> QED BY <1>2, <1>5, <1>6

LEMMA Pops ==
  ASSUME TaskTypeOK, StacksAreDisjoint, NEW th \in AllThreads, Top(th) \in Tasks, stack' = Pop(th)
  PROVE  Changes(th, Range(stack[th]) \ {Top(th)}, NoTask)
<1>1. /\ stack[th] \in Seq(Tasks) /\ IsInjective(stack[th]) /\ stack[th] # <<>>
      /\ Top(th) = Last(stack[th])
  BY TopIsOn DEF TaskTypeOK, StacksAreDisjoint
<1> DEFINE s == Front(stack[th])
<1>2. s \in Seq(Tasks) /\ IsInjective(s) /\ Range(s) = Range(stack[th]) \ {Top(th)}
  BY <1>1, ListFront
<1>3. stack' = [stack EXCEPT ![th] = s]
  BY DEF Pop, Front
<1> HIDE DEF s
<1>4. \A x \in AllThreads : x # th => Range(s) \cap Range(stack[x]) = {}
  BY <1>2 DEF StacksAreDisjoint
<1>5. Changes(th, Range(s), IF s = <<>> THEN NoTask ELSE Last(s))
  BY <1>2, <1>3, <1>4, StackChanges
<1> QED BY <1>2, <1>5 DEF Changes

LEMMA Continues ==
  ASSUME TaskTypeOK, StacksAreDisjoint, NEW th \in AllThreads, Top(th) \in Tasks, NEW p \in Tasks,
         \A x \in AllThreads : p \notin Range(stack[x]), stack' = Continuation(th, p)
  PROVE  Changes(th, (Range(stack[th]) \ {Top(th)}) \cup {p}, p)
<1>1. /\ stack[th] \in Seq(Tasks) /\ IsInjective(stack[th]) /\ stack[th] # <<>>
      /\ Top(th) = Last(stack[th])
  BY TopIsOn DEF TaskTypeOK, StacksAreDisjoint
<1> DEFINE f == Front(stack[th])
           s == Append(f, p)
<1>2. f \in Seq(Tasks) /\ IsInjective(f) /\ Range(f) = Range(stack[th]) \ {Top(th)}
  BY <1>1, ListFront
<1>3. stack' = [stack EXCEPT ![th] = s]
  BY DEF Continuation, Front
<1> HIDE DEF f
<1>4. /\ s \in Seq(Tasks) /\ IsInjective(s) /\ Range(s) = Range(f) \cup {p}
      /\ s # <<>> /\ Last(s) = p
  BY <1>2, ListWith
<1> HIDE DEF s
<1>5. \A x \in AllThreads : x # th => Range(s) \cap Range(stack[x]) = {}
  BY <1>2, <1>4 DEF StacksAreDisjoint
<1>6. Changes(th, Range(s), IF s = <<>> THEN NoTask ELSE Last(s))
  BY <1>3, <1>4, <1>5, StackChanges
<1>7. (IF s = <<>> THEN NoTask ELSE Last(s)) = p
  BY <1>4
<1> QED BY <1>2, <1>4, <1>6, <1>7

-----------------------------------------------------------------------------
(* Consequences of the invariant. *)

\* Who has not begun, waits or is done is on no stack.
LEMMA WhoIsOff ==
  ASSUME TaskInv, NEW t \in Tasks, status[t] \in {"unborn", "awaiting", "posted", "done"}
  PROVE  \A th \in AllThreads : t \notin Range(stack[th])
  BY DEF TaskInv, Stacks, OnStackRuns

\* Who runs is on top.
LEMMA WhoRuns ==
  ASSUME TaskInv, NEW th \in AllThreads, NEW t, IsRunning(th, t)
  PROVE  t \in Tasks /\ Top(th) = t /\ status[t] = "running" /\ t \in Range(stack[th])
<1>1. t \in Tasks /\ Top(th) = t /\ status[t] = "running"
  BY DEF IsRunning
<1>2. t \in Range(stack[th])
  BY <1>1, TopIsOn DEF TaskInv
<1> QED BY <1>1, <1>2

\* Elements of stacks are coroutines.
LEMMA OnStacks ==
  ASSUME TaskTypeOK
  PROVE  \A th \in AllThreads : Range(stack[th]) \subseteq Tasks
<1>1. ASSUME NEW th \in AllThreads PROVE Range(stack[th]) \subseteq Tasks
  <2>1. stack[th] \in Seq(Tasks)
    BY DEF TaskTypeOK
  <2>2. \A i \in DOMAIN stack[th] : stack[th][i] \in Tasks
    BY <2>1
  <2> QED BY <2>2 DEF Range
<1> QED BY <1>1

LEMMA StillRuns ==
  ASSUME TaskInv, NEW th \in AllThreads, NEW elements, NEW top, Changes(th, elements, top),
         \A u \in elements : status'[u] \in {"running", "testing", "pumping", "final"},
         \A x \in AllThreads : x # th => \A u \in Range(stack[x]) : status'[u] = status[u]
  PROVE  OnStackRuns'
<1>1. \A x \in AllThreads : Range(stack'[x]) = IF x = th THEN elements ELSE Range(stack[x])
  BY DEF Changes
<1>2. \A x \in AllThreads : \A u \in Range(stack[x]) :
        status[u] \in {"running", "testing", "pumping", "final"}
  BY DEF TaskInv, Stacks, OnStackRuns
<1> QED BY <1>1, <1>2 DEF OnStackRuns

-----------------------------------------------------------------------------
(* One lemma for each action. *)

LEMMA CallKeeps ==
  ASSUME TaskInv, NEW th \in AllThreads, NEW c \in Tasks, NEW holder \in Tasks \cup {NoTask},
         Call(th, c, holder)
  PROVE  TaskInv'
<1>1. /\ status[c] = "unborn" /\ stack' = Push(th, c)
      /\ status' = [status EXCEPT ![c] = "running"]
      /\ owner' = [owner EXCEPT ![c] = holder]
      /\ UNCHANGED <<postedHandles, precursor, awaited, destroyed, hops, races>>
  BY DEF Call
<1>2. Changes(th, Range(stack[th]) \cup {c}, c)
  BY <1>1, WhoIsOff, Pushes DEF TaskInv, Stacks
<1>3. TaskTypeOK'
  BY <1>1, <1>2 DEF races, TaskInv, TaskTypeOK, Status, Changes
<1>4. \A t \in Tasks : status'[t] = IF t = c THEN "running" ELSE status[t]
  BY <1>1 DEF TaskInv, TaskTypeOK
<1>5. OnStackRuns'
  <2>1. \A x \in AllThreads : Range(stack[x]) \subseteq Tasks /\ c \notin Range(stack[x])
    BY <1>1, WhoIsOff, OnStacks DEF TaskInv
  <2> QED BY <1>2, <1>4, <2>1, StillRuns DEF TaskInv, Stacks, OnStackRuns
<1>6. PostedOnce'
  BY <1>1, <1>4 DEF TaskInv, PostedOnce, TaskTypeOK
<1>7. AwaitedIsOwned'
  BY <1>1, <1>4 DEF races, TaskInv, TaskTypeOK, Waits, AwaitedIsOwned, Done
<1>8. PrecursorAwaits'
  BY <1>1, <1>4 DEF races, TaskInv, TaskTypeOK, Waits, PrecursorAwaits
<1>9. DestroyedAreDone'
  BY <1>1, <1>4 DEF races, TaskInv, TaskTypeOK, DestroyedAreDone
<1> QED BY <1>2, <1>3, <1>5, <1>6, <1>7, <1>8, <1>9 DEF TaskInv, Stacks, Waits, Changes

LEMMA HopKeeps ==
  ASSUME TaskInv, NEW th \in AllThreads, NEW t \in Tasks, NEW place \in Places, Hop(th, t, place)
  PROVE  TaskInv'
<1>1. /\ IsRunning(th, t) /\ stack' = Pop(th) /\ status' = [status EXCEPT ![t] = "posted"]
      /\ postedHandles' = [postedHandles EXCEPT ![place] = @ \cup {t}]
      /\ UNCHANGED <<precursor, owner, awaited, destroyed, races>>
  BY DEF Hop
<1>2. status[t] = "running" /\ Top(th) = t /\ t \in Range(stack[th])
  BY <1>1, WhoRuns
<1>3. Changes(th, Range(stack[th]) \ {t}, NoTask)
  BY <1>1, <1>2, Pops DEF TaskInv, Stacks
<1>4. \A u \in Tasks : status'[u] = IF u = t THEN "posted" ELSE status[u]
  BY <1>1 DEF TaskInv, TaskTypeOK
<1>5. hops' \in [Tasks -> 0..MaxHops]
  <2>1. hops' = hops \/ (hops[t] < MaxHops /\ hops' = [hops EXCEPT ![t] = @ + 1])
    BY DEF Hop
  <2>2. hops \in [Tasks -> 0..MaxHops] /\ hops[t] \in 0..MaxHops
    BY DEF TaskInv, TaskTypeOK
  <2>3. MaxHops \in Nat
    BY TasksAssumption
  <2> HIDE DEF TaskInv
  <2> QED BY <2>1, <2>2, <2>3
<1>6. TaskTypeOK'
  BY <1>1, <1>3, <1>5 DEF races, TaskInv, TaskTypeOK, Status, Changes
<1>7. OnStackRuns'
  <2>1. \A x \in AllThreads : /\ Range(stack[x]) \subseteq Tasks
                              /\ x # th => t \notin Range(stack[x])
    BY <1>2, OnStacks DEF TaskInv, Stacks, StacksAreDisjoint
  <2> QED BY <1>3, <1>4, <2>1, StillRuns DEF TaskInv, Stacks, OnStackRuns
<1>8. PostedOnce'
  BY <1>1, <1>2, <1>4 DEF TaskInv, PostedOnce, TaskTypeOK, Places
<1>9. AwaitedIsOwned'
  BY <1>1, <1>2, <1>4 DEF races, TaskInv, TaskTypeOK, Waits, AwaitedIsOwned, Done
<1>10. PrecursorAwaits'
  BY <1>1, <1>2, <1>4 DEF races, TaskInv, TaskTypeOK, Waits, PrecursorAwaits
<1>11. DestroyedAreDone'
  BY <1>1, <1>2, <1>4 DEF races, TaskInv, TaskTypeOK, DestroyedAreDone
<1> QED BY <1>3, <1>6, <1>7, <1>8, <1>9, <1>10, <1>11 DEF TaskInv, Stacks, Waits, Changes

LEMMA ResumePostedKeeps ==
  ASSUME TaskInv, NEW th \in AllThreads, NEW t \in Tasks, ResumePosted(th, t)
  PROVE  TaskInv'
<1> DEFINE place == IF th = Foreground THEN "foreground" ELSE "pool"
<1>1. /\ Pumps(th) /\ t \in postedHandles[place] /\ place \in Places
      /\ postedHandles' = [postedHandles EXCEPT ![place] = @ \ {t}]
      /\ status' = [status EXCEPT ![t] = "running"] /\ stack' = Push(th, t)
      /\ UNCHANGED <<precursor, owner, awaited, destroyed, hops, races>>
  BY DEF ResumePosted, Places
<1>2. status[t] = "posted"
  BY <1>1 DEF TaskInv, PostedOnce
<1>3. Changes(th, Range(stack[th]) \cup {t}, t)
  BY <1>1, <1>2, WhoIsOff, Pushes DEF TaskInv, Stacks
<1>4. \A u \in Tasks : status'[u] = IF u = t THEN "running" ELSE status[u]
  BY <1>1 DEF TaskInv, TaskTypeOK
<1>5. TaskTypeOK'
  BY <1>1, <1>3 DEF races, TaskInv, TaskTypeOK, Status, Changes
<1>6. OnStackRuns'
  <2>1. \A x \in AllThreads : Range(stack[x]) \subseteq Tasks /\ t \notin Range(stack[x])
    BY <1>2, WhoIsOff, OnStacks DEF TaskInv
  <2> QED BY <1>3, <1>4, <2>1, StillRuns DEF TaskInv, Stacks, OnStackRuns
<1>7. PostedOnce'
  <2>1. \A q \in Places : postedHandles'[q] = IF q = place THEN postedHandles[q] \ {t} ELSE postedHandles[q]
    BY <1>1 DEF TaskInv, TaskTypeOK
  <2>2. \A q \in Places : q # place => t \notin postedHandles[q]
    BY <1>1 DEF TaskInv, PostedOnce, Places
  <2>3. \A q \in Places : postedHandles'[q] = postedHandles[q] \ {t} /\ postedHandles[q] \subseteq Tasks
    BY <2>1, <2>2 DEF TaskInv, TaskTypeOK
  <2> HIDE DEF place
  <2> QED BY <1>4, <2>3 DEF TaskInv, PostedOnce, Places
<1>8. AwaitedIsOwned'
  BY <1>1, <1>2, <1>4 DEF races, TaskInv, TaskTypeOK, Waits, AwaitedIsOwned, Done
<1>9. PrecursorAwaits'
  BY <1>1, <1>2, <1>4 DEF races, TaskInv, TaskTypeOK, Waits, PrecursorAwaits
<1>10. DestroyedAreDone'
  BY <1>1, <1>2, <1>4 DEF races, TaskInv, TaskTypeOK, DestroyedAreDone
<1> QED BY <1>3, <1>5, <1>6, <1>7, <1>8, <1>9, <1>10 DEF TaskInv, Stacks, Waits, Changes

\* A task that is done may be destroyed, as far as those who wait for tasks are concerned.
LEMMA DestroyKeeps ==
  ASSUME TaskInv, NEW c \in Tasks, Done(c), Destroy(c),
         \A p \in Tasks : status[p] \in {"testing", "awaiting", "pumping"} => awaited[p] # c,
         UNCHANGED <<stack, status, postedHandles, precursor, owner, awaited, hops>>
  PROVE  TaskInv'
<1>1. TaskTypeOK'
  BY DEF TaskInv, TaskTypeOK, Destroy
<1>2. PostedOnce' /\ DestroyedAreDone'
  BY DEF TaskInv, PostedOnce, DestroyedAreDone, Destroy, Done
<1>3. Stacks'
  BY DEF TaskInv, Stacks, StacksAreDisjoint, OnStackRuns
<1>4. Waits'
  BY DEF TaskInv, Waits, AwaitedIsOwned, PrecursorAwaits, Destroy
<1> QED BY <1>1, <1>2, <1>3, <1>4 DEF TaskInv

LEMMA AwaitDoneKeeps ==
  ASSUME TaskInv, NEW th \in AllThreads, NEW p \in Tasks, NEW c \in Tasks, AwaitDone(th, p, c)
  PROVE  TaskInv'
<1>1. IsRunning(th, p) /\ owner[c] = p /\ Done(c) /\ Destroy(c)
  BY DEF AwaitDone, MayAwait
<1>2. \A q \in Tasks : status[q] \in {"testing", "awaiting", "pumping"} => awaited[q] # c
  BY <1>1, WhoRuns DEF TaskInv, Waits, AwaitedIsOwned
<1> QED BY <1>1, <1>2, DestroyKeeps DEF AwaitDone

LEMMA ScavengeTaskKeeps ==
  ASSUME TaskInv, NEW t \in Tasks, ScavengeTask(t)
  PROVE  TaskInv'
<1>1. owner[t] = NoTask /\ Done(t) /\ Destroy(t)
  BY DEF ScavengeTask
<1>2. \A q \in Tasks : status[q] \in {"testing", "awaiting", "pumping"} => awaited[q] # t
  BY <1>1, TasksAssumption DEF TaskInv, Waits, AwaitedIsOwned
<1> QED BY <1>1, <1>2, DestroyKeeps DEF ScavengeTask

\* A running coroutine begins to test, or to pump for, a task of its own.
LEMMA BeginsToAwait ==
  ASSUME TaskInv, NEW th \in AllThreads, NEW p \in Tasks, NEW c \in Tasks,
         NEW s \in {"testing", "pumping"}, MayAwait(th, p, c),
         status' = [status EXCEPT ![p] = s], awaited' = [awaited EXCEPT ![p] = c],
         UNCHANGED <<stack, postedHandles, precursor, owner, destroyed, hops, races>>
  PROVE  TaskInv'
<1>1. status[p] = "running" /\ owner[c] = p /\ c \notin destroyed /\ status[c] # "unborn"
  BY WhoRuns DEF MayAwait
<1>2. /\ \A u \in Tasks : status'[u] = IF u = p THEN s ELSE status[u]
      /\ \A u \in Tasks : awaited'[u] = IF u = p THEN c ELSE awaited[u]
  BY DEF TaskInv, TaskTypeOK
<1>3. TaskTypeOK'
  BY DEF races, TaskInv, TaskTypeOK, Status
<1>4. StacksAreDisjoint'
  BY DEF TaskInv, Stacks, StacksAreDisjoint
<1>5. OnStackRuns'
  <2>1. \A x \in AllThreads : Range(stack[x]) \subseteq Tasks
    BY OnStacks DEF TaskInv
  <2> QED BY <1>2, <2>1 DEF TaskInv, Stacks, OnStackRuns
<1>6. PostedOnce'
  BY <1>1, <1>2 DEF TaskInv, PostedOnce, TaskTypeOK
<1>7. AwaitedIsOwned'
  BY <1>1, <1>2 DEF races, TaskInv, TaskTypeOK, Waits, AwaitedIsOwned, Done
<1>8. PrecursorAwaits'
  BY <1>1, <1>2 DEF races, TaskInv, TaskTypeOK, Waits, PrecursorAwaits
<1>9. DestroyedAreDone'
  BY <1>1, <1>2 DEF races, TaskInv, TaskTypeOK, DestroyedAreDone
<1> QED BY <1>3, <1>4, <1>5, <1>6, <1>7, <1>8, <1>9 DEF TaskInv, Stacks, Waits

LEMMA AwaitReadyKeeps ==
  ASSUME TaskInv, NEW th \in AllThreads, NEW p \in Tasks, NEW c \in Tasks, AwaitReady(th, p, c)
  PROVE  TaskInv'
  BY BeginsToAwait DEF AwaitReady

LEMMA GetResultKeeps ==
  ASSUME TaskInv, NEW p \in Tasks, NEW c \in Tasks, GetResult(p, c)
  PROVE  TaskInv'
  BY BeginsToAwait DEF GetResult, AllThreads

LEMMA AwaitSuspendKeeps ==
  ASSUME TaskInv, NEW th \in AllThreads, NEW p \in Tasks, AwaitSuspend(th, p)
  PROVE  TaskInv'
<1> DEFINE c == awaited[p]
<1>1. /\ Top(th) = p /\ status[p] = "testing"
      /\ precursor' = [precursor EXCEPT ![c] = p]
      /\ status' = [status EXCEPT ![p] = "awaiting"] /\ stack' = Pop(th)
      /\ tooLate' = IF status[c] = "done" THEN tooLate \cup {p} ELSE tooLate
      /\ UNCHANGED <<postedHandles, owner, awaited, destroyed, hops, tooSoon, crashed>>
  BY DEF AwaitSuspend
<1>2. p \in Range(stack[th])
  BY <1>1, TopIsOn DEF TaskInv
<1>3. c \in Tasks /\ owner[c] = p /\ status[c] # "unborn" /\ c \notin destroyed
  BY <1>1 DEF TaskInv, Waits, AwaitedIsOwned
<1> HIDE DEF c
<1>4. Changes(th, Range(stack[th]) \ {p}, NoTask)
  BY <1>1, Pops DEF TaskInv, Stacks
<1>5. /\ \A u \in Tasks : status'[u] = IF u = p THEN "awaiting" ELSE status[u]
      /\ \A u \in Tasks : precursor'[u] = IF u = c THEN p ELSE precursor[u]
  BY <1>1, <1>3 DEF TaskInv, TaskTypeOK
<1>6. TaskTypeOK'
  BY <1>1, <1>4 DEF races, TaskInv, TaskTypeOK, Status, Changes
<1>7. OnStackRuns'
  <2>1. \A x \in AllThreads : /\ Range(stack[x]) \subseteq Tasks
                              /\ x # th => p \notin Range(stack[x])
    BY <1>2, OnStacks DEF TaskInv, Stacks, StacksAreDisjoint
  <2> QED BY <1>4, <1>5, <2>1, StillRuns DEF TaskInv, Stacks, OnStackRuns
<1>8. PostedOnce'
  BY <1>1, <1>5 DEF TaskInv, PostedOnce, TaskTypeOK
<1>9. AwaitedIsOwned'
  <2>1. \A q \in Tasks : status[q] \in {"testing", "awaiting", "pumping"} /\ awaited[q] = c => q = p
    BY <1>3 DEF TaskInv, Waits, AwaitedIsOwned
  <2>2. \A q \in Tasks : q # p /\ status[q] \in {"testing", "awaiting", "pumping"} =>
          awaited[q] # c
    BY <2>1
  <2>3. awaited[p] = c /\ precursor'[c] = p /\ status'[c] \in {status[c], "awaiting"}
    BY <1>3, <1>5 DEF c
  <2> SUFFICES ASSUME NEW q \in Tasks, status'[q] \in {"testing", "awaiting", "pumping"}
               PROVE  /\ awaited'[q] \in Tasks /\ owner'[awaited'[q]] = q
                      /\ status'[awaited'[q]] # "unborn" /\ awaited'[q] \notin destroyed'
                      /\ status'[q] = "awaiting" /\ q \notin tooLate' =>
                           precursor'[awaited'[q]] = q /\ status'[awaited'[q]] # "done"
    BY DEF AwaitedIsOwned
  <2>4. CASE q = p
    BY <2>4, <1>1, <1>3, <2>3
  <2>5. CASE q # p
    <3>1. status[q] = status'[q] /\ awaited[q] # c /\ q \notin tooLate' => q \notin tooLate
      BY <2>5, <2>2, <1>1, <1>5
    <3>2. /\ awaited[q] \in Tasks /\ owner[awaited[q]] = q
          /\ status[awaited[q]] # "unborn" /\ awaited[q] \notin destroyed
          /\ status[q] = "awaiting" /\ q \notin tooLate =>
               precursor[awaited[q]] = q /\ status[awaited[q]] # "done"
      BY <2>5, <1>5 DEF TaskInv, Waits, AwaitedIsOwned
    <3> QED BY <1>1, <1>5, <2>2, <2>5, <3>1, <3>2
  <2> QED BY <2>4, <2>5
<1>10. PrecursorAwaits'
  <2>1. \A d \in Tasks : d # c /\ precursor[d] # NoTask /\ status[d] # "done" =>
          precursor[d] # p /\ precursor[d] \in Tasks
    BY <1>1 DEF races, TaskInv, TaskTypeOK, Waits, PrecursorAwaits
  <2> QED BY <1>1, <1>3, <1>5, <2>1 DEF races, TaskInv, TaskTypeOK, Waits, PrecursorAwaits, c
<1>11. DestroyedAreDone'
  BY <1>1, <1>5 DEF races, TaskInv, TaskTypeOK, DestroyedAreDone
<1> QED BY <1>4, <1>6, <1>7, <1>8, <1>9, <1>10, <1>11
        DEF TaskInv, Stacks, Waits, Changes

LEMMA GetResultReturnsKeeps ==
  ASSUME TaskInv, NEW p \in Tasks, GetResultReturns(p)
  PROVE  TaskInv'
<1> DEFINE c == awaited[p]
<1>1. /\ Top(Foreground) = p /\ status[p] = "pumping" /\ Done(c)
      /\ status' = [status EXCEPT ![p] = "running"] /\ Destroy(c)
      /\ UNCHANGED <<stack, postedHandles, precursor, owner, awaited, hops>>
  BY DEF GetResultReturns, StopsPumping
<1>2. c \in Tasks /\ owner[c] = p /\ c # p
  BY <1>1 DEF TaskInv, Waits, AwaitedIsOwned, Done
<1>3. \A q \in Tasks : q # p /\ status[q] \in {"testing", "awaiting", "pumping"} => awaited[q] # c
  BY <1>2 DEF TaskInv, Waits, AwaitedIsOwned
<1> HIDE DEF c
<1>4. \A u \in Tasks : status'[u] = IF u = p THEN "running" ELSE status[u]
  BY <1>1 DEF TaskInv, TaskTypeOK
<1>5. TaskTypeOK'
  BY <1>1, <1>2 DEF races, TaskInv, TaskTypeOK, Status, Destroy
<1>6. StacksAreDisjoint'
  BY <1>1, <1>4 DEF TaskInv, Stacks, StacksAreDisjoint, Top
<1>7. OnStackRuns'
  <2>1. \A x \in AllThreads : Range(stack[x]) \subseteq Tasks
    BY OnStacks DEF TaskInv
  <2> QED BY <1>1, <1>4, <2>1 DEF TaskInv, Stacks, OnStackRuns
<1>8. PostedOnce' /\ DestroyedAreDone'
  BY <1>1, <1>2, <1>4 DEF races, TaskInv, TaskTypeOK, PostedOnce, DestroyedAreDone, Destroy, Done
<1>9. Waits'
  BY <1>1, <1>2, <1>3, <1>4 DEF races, TaskInv, TaskTypeOK, Waits, AwaitedIsOwned, PrecursorAwaits, Destroy
<1> QED BY <1>5, <1>6, <1>7, <1>8, <1>9 DEF TaskInv, Stacks

LEMMA EndKeeps ==
  ASSUME TaskInv, NEW th \in AllThreads, NEW t \in Tasks, End(th, t)
  PROVE  TaskInv'
<1>1. /\ IsRunning(th, t) /\ status' = [status EXCEPT ![t] = "final"]
      /\ UNCHANGED <<stack, postedHandles, precursor, owner, awaited, destroyed, hops, races>>
  BY DEF End
<1>2. status[t] = "running"
  BY <1>1, WhoRuns
<1>3. \A u \in Tasks : status'[u] = IF u = t THEN "final" ELSE status[u]
  BY <1>1 DEF TaskInv, TaskTypeOK
<1>4. TaskTypeOK'
  BY <1>1 DEF races, TaskInv, TaskTypeOK, Status
<1>5. StacksAreDisjoint'
  BY <1>1, <1>2, <1>3 DEF TaskInv, Stacks, StacksAreDisjoint, Top
<1>6. OnStackRuns'
  <2>1. \A x \in AllThreads : Range(stack[x]) \subseteq Tasks
    BY OnStacks DEF TaskInv
  <2> QED BY <1>1, <1>3, <2>1 DEF TaskInv, Stacks, OnStackRuns
<1>7. PostedOnce' /\ DestroyedAreDone'
  BY <1>1, <1>2, <1>3 DEF races, TaskInv, TaskTypeOK, PostedOnce, DestroyedAreDone
<1>8. Waits'
  BY <1>1, <1>2, <1>3 DEF races, TaskInv, TaskTypeOK, Waits, AwaitedIsOwned, PrecursorAwaits, Done
<1> QED BY <1>4, <1>5, <1>6, <1>7, <1>8 DEF TaskInv, Stacks

LEMMA FinalSuspendKeeps ==
  ASSUME TaskInv, NEW th \in AllThreads, NEW t \in Tasks, FinalSuspend(th, t)
  PROVE  TaskInv'
<1>1. /\ Top(th) = t /\ status[t] = "final" /\ precursor[t] = NoTask
      /\ status' = [status EXCEPT ![t] = "done"] /\ stack' = Pop(th)
      /\ UNCHANGED <<postedHandles, precursor, owner, awaited, destroyed, hops, races>>
  BY DEF FinalSuspend, HasPrecursor
<1>2. t \in Range(stack[th])
  BY <1>1, TopIsOn DEF TaskInv
<1>3. Changes(th, Range(stack[th]) \ {t}, NoTask)
  BY <1>1, Pops DEF TaskInv, Stacks
<1>4. \A u \in Tasks : status'[u] = IF u = t THEN "done" ELSE status[u]
  BY <1>1 DEF TaskInv, TaskTypeOK
<1>5. TaskTypeOK'
  BY <1>1, <1>3 DEF races, TaskInv, TaskTypeOK, Status, Changes
<1>6. OnStackRuns'
  <2>1. \A x \in AllThreads : /\ Range(stack[x]) \subseteq Tasks
                              /\ x # th => t \notin Range(stack[x])
    BY <1>2, OnStacks DEF TaskInv, Stacks, StacksAreDisjoint
  <2> QED BY <1>3, <1>4, <2>1, StillRuns DEF TaskInv, Stacks, OnStackRuns
<1>7. PostedOnce' /\ DestroyedAreDone'
  BY <1>1, <1>4 DEF races, TaskInv, PostedOnce, TaskTypeOK,
     DestroyedAreDone
<1>8. AwaitedIsOwned'
  <2>1. \A q \in Tasks : status[q] = "awaiting" /\ q \notin tooLate => awaited[q] # t
    BY <1>1, TasksAssumption DEF TaskInv, Waits, AwaitedIsOwned
  <2> QED BY <1>1, <1>4, <2>1 DEF races, TaskInv, TaskTypeOK, Waits, AwaitedIsOwned
<1>9. PrecursorAwaits'
  BY <1>1, <1>4 DEF races, TaskInv, TaskTypeOK, Waits, PrecursorAwaits
<1> QED BY <1>3, <1>5, <1>6, <1>7, <1>8, <1>9 DEF TaskInv, Stacks, Waits, Changes

LEMMA FinalResumeKeeps ==
  ASSUME TaskInv, NEW th \in AllThreads, NEW t \in Tasks, FinalResume(th, t)
  PROVE  TaskInv'
<1> DEFINE p == precursor[t]
<1>1. /\ Top(th) = t /\ status[t] = "final" /\ p # NoTask
      /\ status' = [status EXCEPT ![t] = "done", ![p] = "running"]
      /\ stack' = Continuation(th, p) /\ destroyed' = destroyed \cup {t}
      /\ UNCHANGED <<postedHandles, precursor, owner, awaited, hops, races>>
  BY DEF FinalResume, HasPrecursor
<1>2. t \in Range(stack[th])
  BY <1>1, TopIsOn DEF TaskInv
<1>3. p \in Tasks /\ status[p] = "awaiting" /\ awaited[p] = t /\ p # t
  BY <1>1 DEF races, TaskInv, TaskTypeOK, Waits, PrecursorAwaits
<1>4. \A x \in AllThreads : p \notin Range(stack[x])
  BY <1>3, WhoIsOff
<1> HIDE DEF p
<1>5. Changes(th, (Range(stack[th]) \ {t}) \cup {p}, p)
  BY <1>1, <1>3, <1>4, Continues DEF TaskInv, Stacks
<1>6. \A u \in Tasks : status'[u] = IF u = t THEN "done" ELSE IF u = p THEN "running"
                                    ELSE status[u]
  BY <1>1, <1>3 DEF TaskInv, TaskTypeOK
<1>7. TaskTypeOK'
  BY <1>1, <1>5 DEF races, TaskInv, TaskTypeOK, Status, Changes
<1>8. OnStackRuns'
  <2>1. \A x \in AllThreads : /\ Range(stack[x]) \subseteq Tasks
                              /\ x # th => t \notin Range(stack[x])
    BY <1>2, OnStacks DEF TaskInv, Stacks, StacksAreDisjoint
  <2> QED BY <1>3, <1>4, <1>5, <1>6, <2>1, StillRuns DEF TaskInv, Stacks, OnStackRuns
<1>9. PostedOnce' /\ DestroyedAreDone'
  BY <1>1, <1>3, <1>6 DEF races, TaskInv, PostedOnce, TaskTypeOK,
     DestroyedAreDone
<1>10. AwaitedIsOwned'
  <2>1. owner[t] = p
    BY <1>3 DEF TaskInv, Waits, AwaitedIsOwned
  <2>2. \A q \in Tasks : q # p /\ status[q] \in {"testing", "awaiting", "pumping"} =>
          awaited[q] # t
    BY <2>1 DEF TaskInv, Waits, AwaitedIsOwned
  <2> QED BY <1>1, <1>3, <1>6, <2>2 DEF races, TaskInv, TaskTypeOK, Waits, AwaitedIsOwned
<1>11. PrecursorAwaits'
  <2>1. \A d \in Tasks : d # t /\ precursor[d] # NoTask /\ status[d] # "done" =>
          precursor[d] # p /\ precursor[d] # t
    BY <1>1, <1>3 DEF TaskInv, Waits, PrecursorAwaits
  <2> QED BY <1>1, <1>3, <1>6, <2>1 DEF races, TaskInv, TaskTypeOK, Waits, PrecursorAwaits
<1> QED BY <1>5, <1>7, <1>8, <1>9, <1>10, <1>11 DEF TaskInv, Stacks, Waits, Changes

LEMMA FinalCrashKeeps ==
  ASSUME TaskInv, NEW th \in AllThreads, NEW t \in Tasks, FinalCrash(th, t)
  PROVE  TaskInv'
<1>1. /\ \A x \in AllThreads : stack'[x] = <<>> /\ Range(stack'[x]) = {} /\ IsInjective(stack'[x])
      /\ \A place \in Places : postedHandles'[place] = {}
      /\ UNCHANGED <<status, precursor, owner, awaited, destroyed, hops, tooLate, tooSoon>>
  BY EmptyList DEF FinalCrash
<1>2. TaskTypeOK'
  <2>1. <<>> \in Seq(Tasks)
    OBVIOUS
  <2> QED BY <2>1 DEF TaskInv, TaskTypeOK, FinalCrash
<1>3. Stacks'
  BY <1>1 DEF Stacks, StacksAreDisjoint, OnStackRuns
<1>4. PostedOnce' /\ DestroyedAreDone'
  BY <1>1 DEF TaskInv, PostedOnce, DestroyedAreDone, Places
<1>5. Waits'
  BY <1>1 DEF TaskInv, Waits, AwaitedIsOwned, PrecursorAwaits
<1> QED BY <1>2, <1>3, <1>4, <1>5 DEF TaskInv

-----------------------------------------------------------------------------
\* Coroutines, stacks, queues and precursors agree in every reachable state.
THEOREM TaskInvariance == TaskSpec => []TaskInv
<1>1. TaskInit => TaskInv
  <2> SUFFICES ASSUME TaskInit PROVE TaskInv
    OBVIOUS
  <2>1. \A th \in AllThreads : stack[th] = <<>> /\ Range(stack[th]) = {} /\ IsInjective(stack[th])
    BY EmptyList DEF TaskInit
  <2>2. TaskTypeOK
    <3>1. <<>> \in Seq(Tasks)
      OBVIOUS
    <3>2. 0 \in 0..MaxHops
      BY TasksAssumption
    <3> QED BY <3>1, <3>2 DEF TaskInit, TaskTypeOK, Status
  <2> QED BY <2>1, <2>2 DEF TaskInit, TaskInv, Stacks, StacksAreDisjoint, OnStackRuns,
             PostedOnce, Waits, AwaitedIsOwned, PrecursorAwaits, DestroyedAreDone, Places
<1>2. TaskInv /\ [TaskNext]_taskVars => TaskInv'
  <2> SUFFICES ASSUME TaskInv, [TaskNext]_taskVars PROVE TaskInv'
    OBVIOUS
  <2>1. ASSUME NEW th \in AllThreads, Advance(th) PROVE TaskInv'
    BY <2>1, HopKeeps, ResumePostedKeeps, AwaitDoneKeeps, AwaitReadyKeeps, AwaitSuspendKeeps,
       EndKeeps, FinalSuspendKeeps, FinalResumeKeeps, FinalCrashKeeps DEF Advance
  <2>2. CASE PumpInGetResult
    BY <2>2, GetResultKeeps, GetResultReturnsKeeps DEF PumpInGetResult
  <2>3. CASE UNCHANGED taskVars
    BY <2>3 DEF taskVars, races, TaskInv, TaskTypeOK, Stacks, StacksAreDisjoint, OnStackRuns,
       PostedOnce, Waits, AwaitedIsOwned, PrecursorAwaits, DestroyedAreDone, Done
  <2> QED BY <2>1, <2>2, <2>3, CallKeeps, ScavengeTaskKeeps DEF TaskNext
<1> QED BY <1>1, <1>2, PTL DEF TaskSpec

\* A coroutine that awaits a task is continued when it ends, and no frame is freed that a
\* thread has yet to run.
THEOREM FramesOutliveTheirUse == TaskSpec => []Safe
<1>1. TaskInv => Safe
  <2> SUFFICES ASSUME TaskInv PROVE Safe
    OBVIOUS
  <2>1. NoLostContinuation
    BY DEF TaskInv, Waits, AwaitedIsOwned, NoLostContinuation
  <2>2. ASSUME NEW t \in destroyed, NEW th \in AllThreads, NEW i \in 1..Len(stack[th]),
               stack[th][i] = t
        PROVE  t \in tooSoon /\ status[t] = "final"
    <3>1. stack[th] \in Seq(Tasks)
      BY DEF TaskInv, TaskTypeOK
    <3>2. t \in Range(stack[th])
      BY <2>2, <3>1 DEF Range
    <3>3. status[t] # "done"
      BY <3>2 DEF TaskInv, Stacks, OnStackRuns
    <3> QED BY <3>3 DEF TaskInv, DestroyedAreDone
  <2>3. \A t \in destroyed : \A place \in Places : t \notin postedHandles[place]
    BY DEF TaskInv, DestroyedAreDone, PostedOnce
  <2>4. \A t \in destroyed : \A p \in Tasks : status[p] \in {"testing", "pumping"} => awaited[p] # t
    BY DEF TaskInv, Waits, AwaitedIsOwned
  <2> QED BY <2>1, <2>2, <2>3, <2>4 DEF Safe, NoUseAfterDestroy
<1> QED BY <1>1, TaskInvariance, PTL

-----------------------------------------------------------------------------
(***************************************************************************)
(* What is posted to a dispatcher is neither lost nor run twice, timers    *)
(* run in order, and who drives the queues neither sleeps on them nor      *)
(* gives up on them: for any number of things posted, at any times, by any *)
(* number of threads.                                                      *)
(*                                                                         *)
(* The invariant is in two layers.  Queues is about what is posted; it     *)
(* needs that the list of functions is sorted, and a set.  Driving is      *)
(* about the foreground thread: that it has not missed a message on its    *)
(* way to sleep (NotMissed) is why SleepsOnlyIfIdle is inductive.          *)
(***************************************************************************)

Queued == Range(queue) \cup coroutineTimerQueue \cup Range(functionTimerQueue)

\* Each thing is posted once, and not known before that.
ListsAreSets == IsInjective(queue) /\ IsInjective(functionTimerQueue)
OnlyPosted ==
  /\ Queued \subseteq posted
  /\ \A w \in Work \ posted : ran[w] = 0
  /\ \A f \in Functions \ posted : answer[f] = "none"

Sorted == \A i, j \in DOMAIN functionTimerQueue :
            i < j => time[functionTimerQueue[i]] <= time[functionTimerQueue[j]]

Queues == ListsAreSets /\ OnlyPosted /\ Sorted /\ NothingIsLost /\ CancelTellsTheTruth

Phases ==
  /\ fg.start <= now
  /\ fg.phase = "handler" => fg.back \in {"timers", "queue"}
  /\ fg.phase = "quit?" => program.driver = "MessageLoop"

\* From the end of its pumping to its sleep, the loop is told of what comes in.
NotMissed ==
  program.driver = "MessageLoop" /\ fg.phase \in {"returned", "quit?", "wait"} =>
    messagePosted \/ notifying # {} \/ queue = <<>>

\* processedAny is true when PumpMessages() has run anything.
HasRun == \E w \in Work : ran[w] = 1
AnyIsTrue ==
  program.driver = "PumpMessages" =>
    /\ fg.phase \in {"pump", "wait", "asleep", "timedOut"} => ~HasRun
    /\ fg.phase \in {"timers", "queue", "handler", "returned"} => (fg.any <=> HasRun)
    /\ fg.phase = "ended" => HasRun
    /\ fg.phase = "timedOut" => now >= Timeout

Driving == Phases /\ NotMissed /\ SleepsOnlyIfIdle /\ AnyIsTrue

DispatcherInv == DispatcherTypeOK /\ Queues /\ Driving

-----------------------------------------------------------------------------
(* The queues. *)

\* NothingIsLost with its LET expanded.
Pending(w) == ran[w] = 0 /\ (w \in Functions => answer[w] # "cancelled")

LEMMA LostOrNot == NothingIsLost <=> \A w \in posted : w \in Queued <=> Pending(w)
  BY DEF NothingIsLost, Queued, Pending

\* Nothing in two queues, and of each what is its own.
LEMMA Kinds ==
  ASSUME DispatcherTypeOK
  PROVE  /\ Range(queue) \subseteq Handles /\ Range(functionTimerQueue) \subseteq Functions
         /\ coroutineTimerQueue \subseteq Delayed
         /\ Queued \subseteq Work
<1>1. queue \in Seq(Handles) /\ functionTimerQueue \in Seq(Functions)
      /\ coroutineTimerQueue \subseteq Delayed
  BY DEF DispatcherTypeOK
<1>2. /\ \A i \in DOMAIN queue : queue[i] \in Handles
      /\ \A i \in DOMAIN functionTimerQueue : functionTimerQueue[i] \in Functions
  BY <1>1
<1> QED BY <1>1, <1>2 DEF Range, Queued, Work, Timers

\* A step that does not touch what is posted.
LEMMA QueuesStay ==
  ASSUME Queues, UNCHANGED <<posting, ran, answer>>
  PROVE  Queues'
  BY DEF posting, Queues, ListsAreSets, OnlyPosted, Queued, Sorted, NothingIsLost,
         CancelTellsTheTruth

\* One thing more is posted.
LEMMA OneMore ==
  ASSUME DispatcherTypeOK, Queues, NEW w \in Work, w \notin posted, posted' = posted \cup {w},
         Queued' = Queued \cup {w}, UNCHANGED <<ran, answer>>
  PROVE  OnlyPosted' /\ NothingIsLost' /\ CancelTellsTheTruth'
<1>1. \A v \in posted : v \in Queued <=> Pending(v)
  BY LostOrNot DEF Queues
<1>2. Pending(w) /\ Queued \subseteq posted
  BY DEF Queues, OnlyPosted, Pending
<1>3. \A v \in posted' : v \in Queued' <=> Pending(v)'
  BY <1>1, <1>2 DEF Pending
<1>4. NothingIsLost'
  BY <1>3 DEF NothingIsLost, Queued, Pending
<1>5. OnlyPosted' /\ CancelTellsTheTruth'
  BY DEF Queues, OnlyPosted, CancelTellsTheTruth
<1> QED BY <1>4, <1>5

\* One thing of the queues is run.
LEMMA OneRuns ==
  ASSUME DispatcherTypeOK, Queues, NEW w \in Queued, ran' = [ran EXCEPT ![w] = @ + 1],
         Queued' = Queued \ {w}, UNCHANGED <<posted, answer>>
  PROVE  /\ ran[w] = 0 /\ ran' \in [Work -> 0..1]
         /\ OnlyPosted' /\ NothingIsLost' /\ CancelTellsTheTruth'
<1>1. \A v \in posted : v \in Queued <=> Pending(v)
  BY LostOrNot DEF Queues
<1>2. w \in posted /\ w \in Work /\ Pending(w)
  BY <1>1, Kinds DEF Queues, OnlyPosted
<1>3. ran[w] = 0 /\ \A v \in Work : ran'[v] = IF v = w THEN 1 ELSE ran[v]
  BY <1>2 DEF DispatcherTypeOK, Pending
<1>4. ran' \in [Work -> 0..1]
  <2>1. ran \in [Work -> 0..1] /\ ran' = [ran EXCEPT ![w] = 1]
    BY <1>2, <1>3 DEF DispatcherTypeOK
  <2>2. 1 \in 0..1
    OBVIOUS
  <2> QED BY <2>1, <2>2
<1>5. posted \subseteq Work /\ Functions \subseteq Work
  BY DEF DispatcherTypeOK, Work
<1>6. \A v \in posted' : v \in Queued' <=> Pending(v)'
  BY <1>1, <1>3, <1>5 DEF Pending
<1>7. NothingIsLost'
  BY <1>6 DEF NothingIsLost, Queued, Pending
<1>8. OnlyPosted'
  BY <1>2, <1>3 DEF Queues, OnlyPosted
<1>9. CancelTellsTheTruth'
  BY <1>2, <1>3, <1>5 DEF Queues, CancelTellsTheTruth, Pending
<1> QED BY <1>3, <1>4, <1>7, <1>8, <1>9

\* Where a function is inserted: behind those due no later, before those due later.
LEMMA WhereToPlace ==
  ASSUME DispatcherTypeOK, Sorted, NEW due \in Nat
  PROVE  LET n == Place(functionTimerQueue, due) IN
         /\ n \in 1 .. Len(functionTimerQueue) + 1
         /\ \A i \in DOMAIN functionTimerQueue :
              /\ i < n => time[functionTimerQueue[i]] <= due
              /\ n <= i => due <= time[functionTimerQueue[i]]
<1> DEFINE list == functionTimerQueue
           later == {i \in DOMAIN list : due < time[list[i]]} \cup {Len(list) + 1}
<1>1. list \in Seq(Functions) /\ Len(list) \in Nat /\ DOMAIN list = 1 .. Len(list)
  BY DEF DispatcherTypeOK
<1>2. \A i \in DOMAIN list : time[list[i]] \in Nat
  BY <1>1 DEF DispatcherTypeOK, Timers
<1>3. later \in SUBSET Nat /\ later # {} /\ later \subseteq 1 .. Len(list) + 1
  BY <1>1
<1>4. Min(later) \in later /\ \A x \in later : Min(later) <= x
  BY <1>3, MinOf
<1>5. Place(list, due) = Min(later)
  BY DEF Place
<1> DEFINE n == Min(later)
<1>6. \A i \in DOMAIN list : i < n => time[list[i]] <= due
  <2> TAKE i \in DOMAIN list
  <2> HAVE i < n
  <2>1. i \in Nat /\ n \in Nat /\ \A x \in later : n <= x
    BY <1>1, <1>3, <1>4
  <2> HIDE DEF n, later
  <2>2. i \notin later
    BY <2>1
  <2> QED BY <2>2, <1>2 DEF later
<1>7. \A i \in DOMAIN list : n <= i => due <= time[list[i]]
  <2> TAKE i \in DOMAIN list
  <2> HAVE n <= i
  <2>1. n # Len(list) + 1 /\ n \in later
    BY <1>1, <1>4
  <2> HIDE DEF n
  <2>2. n \in DOMAIN list /\ due < time[list[n]]
    BY <2>1
  <2>3. n = i \/ n < i
    BY <1>1, <2>2
  <2>4. time[list[n]] <= time[list[i]]
    BY <1>2, <2>2, <2>3 DEF Sorted
  <2> QED BY <1>2, <2>2, <2>4
<1> HIDE DEF n, later
<1> QED BY <1>3, <1>4, <1>5, <1>6, <1>7 DEF n

-----------------------------------------------------------------------------
(* The calls: who posts is about to wake the foreground thread up. *)

LEMMA Called ==
  ASSUME Driving, NEW a, Calls(a), UNCHANGED <<fg, now, program, ran>>
  PROVE  Driving'
<1>1. notifying' # {}
  BY DEF Calls
<1> QED BY <1>1 DEF Driving, Phases, NotMissed, SleepsOnlyIfIdle, SleepsUntold, AnyIsTrue, HasRun

LEMMA PostKeeps ==
  ASSUME DispatcherInv, NEW a \in Posters \cup {ForegroundThread}, NEW h \in Handles, Post(a, h)
  PROVE  DispatcherInv'
<1> USE DEF DispatcherInv
<1>1. h \in Work /\ h \notin posted /\ h \notin Range(queue) /\ queue \in Seq(Handles)
  BY DEF Post, DispatcherTypeOK, Work, Queues, OnlyPosted, Queued
<1>2. queue' \in Seq(Handles) /\ IsInjective(queue') /\ Range(queue') = Range(queue) \cup {h}
  BY <1>1, ListWith DEF Post, Queues, ListsAreSets
<1>3. posted' = posted \cup {h} /\ Queued' = Queued \cup {h}
  BY <1>2 DEF Queued, Post
<1>4. OnlyPosted' /\ NothingIsLost' /\ CancelTellsTheTruth'
  BY <1>1, <1>3, OneMore DEF Post
<1>5. Queues'
  BY <1>2, <1>4 DEF Post, Queues, ListsAreSets, Sorted
<1>6. DispatcherTypeOK'
  BY <1>1, <1>2 DEF Post, Calls, DispatcherTypeOK
<1>7. Driving'
  BY Called DEF Post
<1> QED BY <1>5, <1>6, <1>7

LEMMA PostDelayedKeeps ==
  ASSUME DispatcherInv, NEW a \in Posters \cup {ForegroundThread}, NEW c \in Delayed, NEW delay \in Delays,
         PostDelayed(a, c, delay)
  PROVE  DispatcherInv'
<1> USE DEF DispatcherInv
<1>1. c \in Work /\ c \in Timers /\ c \notin posted /\ c \notin Functions
  BY DispatcherAssumption DEF PostDelayed, Work, Timers
<1>2. now + delay \in Nat
  BY DispatcherAssumption DEF DispatcherTypeOK
<1>3. posted' = posted \cup {c} /\ Queued' = Queued \cup {c}
  BY DEF Queued, PostDelayed
<1>4. OnlyPosted' /\ NothingIsLost' /\ CancelTellsTheTruth'
  BY <1>1, <1>3, OneMore DEF PostDelayed
<1>5. time \in [Timers -> Nat] /\ time' = [time EXCEPT ![c] = now + delay]
  BY DEF DispatcherTypeOK, PostDelayed
<1>6. time' \in [Timers -> Nat] /\ \A f \in Functions : time'[f] = time[f]
  BY <1>1, <1>2, <1>5 DEF Timers
<1>7. Sorted'
  <2>1. \A i \in DOMAIN functionTimerQueue : functionTimerQueue[i] \in Functions
    BY DEF DispatcherTypeOK
  <2> QED BY <2>1, <1>6 DEF PostDelayed, Queues, Sorted
<1>8. Queues'
  BY <1>4, <1>7 DEF PostDelayed, Queues, ListsAreSets
<1>9. DispatcherTypeOK'
  BY <1>1, <1>6 DEF PostDelayed, Calls, DispatcherTypeOK
<1>10. Driving'
  BY Called DEF PostDelayed
<1> QED BY <1>8, <1>9, <1>10

LEMMA PostDelayedFunctionKeeps ==
  ASSUME DispatcherInv, NEW a \in Posters \cup {ForegroundThread}, NEW f \in Functions, NEW delay \in Delays,
         PostDelayedFunction(a, f, delay)
  PROVE  DispatcherInv'
<1> USE DEF DispatcherInv
<1> DEFINE list == functionTimerQueue
           due == now + delay
           n == Place(list, due)
<1>1. /\ f \in Work /\ f \in Timers /\ f \notin posted /\ f \notin Range(list)
      /\ list \in Seq(Functions) /\ IsInjective(list)
  BY DEF PostDelayedFunction, DispatcherTypeOK, Work, Timers, Queues, OnlyPosted, ListsAreSets, Queued
<1>2. due \in Nat
  BY DispatcherAssumption DEF DispatcherTypeOK
<1>3. /\ n \in 1 .. Len(list) + 1
      /\ \A i \in DOMAIN list : /\ i < n => time[list[i]] <= due
                                /\ n <= i => due <= time[list[i]]
  BY <1>2, WhereToPlace DEF Queues
<1>4. list' = InsertAt(list, n, f)
  BY DEF PostDelayedFunction
<1> HIDE DEF n, due
<1>5. IsInjective(list') /\ Range(list') = Range(list) \cup {f}
  BY <1>1, <1>3, <1>4, ListInsert
<1>6. /\ list' \in Seq(Functions) /\ Len(list') = Len(list) + 1
      /\ \A j \in 1 .. Len(list) + 1 :
           list'[j] = IF j < n THEN list[j] ELSE IF j = n THEN f ELSE list[j - 1]
  <2>1. list \in Seq(Functions) /\ n \in 1 .. Len(list) + 1
    BY <1>1, <1>3
  <2> HIDE DEF DispatcherInv, list
  <2>2. /\ InsertAt(list, n, f) \in Seq(Functions)
        /\ Len(InsertAt(list, n, f)) = Len(list) + 1
        /\ \A j \in 1 .. Len(list) + 1 :
             InsertAt(list, n, f)[j] =
               IF j < n THEN list[j] ELSE IF j = n THEN f ELSE list[j - 1]
    BY <2>1, InsertAtEntries
  <2> QED BY <2>2, <1>4
<1>7. posted' = posted \cup {f} /\ Queued' = Queued \cup {f}
  BY <1>5 DEF Queued, PostDelayedFunction
<1>8. OnlyPosted' /\ NothingIsLost' /\ CancelTellsTheTruth'
  BY <1>1, <1>7, OneMore DEF PostDelayedFunction
<1>9. time \in [Timers -> Nat] /\ time' = [time EXCEPT ![f] = due]
  BY DEF DispatcherTypeOK, PostDelayedFunction, due
<1>10. time' \in [Timers -> Nat] /\ \A t \in Timers : time'[t] = IF t = f THEN due ELSE time[t]
  BY <1>1, <1>2, <1>9
<1>11. Sorted'
  <2>1. \A i \in DOMAIN list : list[i] \in Timers /\ list[i] # f /\ time'[list[i]] = time[list[i]]
    BY <1>1, <1>10 DEF Range, Timers
  <2>2. DOMAIN list = 1 .. Len(list) /\ DOMAIN list' = 1 .. Len(list) + 1 /\ Len(list) \in Nat
    BY <1>1, <1>6
  <2>3. \A i \in DOMAIN list : time[list[i]] \in Nat
    BY <2>1, <1>9
  <2>4. time'[f] = due
    BY <1>1, <1>10
  <2>5. SUFFICES ASSUME NEW i \in DOMAIN list', NEW j \in DOMAIN list', i < j
                 PROVE  time'[list'[i]] <= time'[list'[j]]
    BY DEF Sorted
  <2>6. i \in Nat /\ j \in Nat /\ n \in Nat
    BY <1>3, <2>2
  <2>7. CASE j < n
    <3>1. /\ list'[i] = list[i] /\ list'[j] = list[j] /\ i \in DOMAIN list /\ j \in DOMAIN list
      BY <2>2, <2>5, <2>6, <2>7, <1>3, <1>6
    <3> QED BY <3>1, <2>1, <2>5 DEF Queues, Sorted
  <2>8. CASE j = n
    <3>1. list'[i] = list[i] /\ list'[j] = f /\ i \in DOMAIN list /\ i < n
      BY <2>2, <2>5, <2>6, <2>8, <1>3, <1>6
    <3> QED BY <3>1, <2>1, <2>4, <1>3
  <2>9. CASE n < j /\ i < n
    <3>1. /\ list'[i] = list[i] /\ list'[j] = list[j - 1] /\ i \in DOMAIN list
          /\ j - 1 \in DOMAIN list /\ n <= j - 1
      BY <2>2, <2>5, <2>6, <2>9, <1>3, <1>6
    <3>2. time[list[i]] <= due /\ due <= time[list[j - 1]]
      BY <2>9, <3>1, <1>3
    <3>3. time[list[i]] <= time[list[j - 1]]
      BY <3>1, <3>2, <2>3, <1>2
    <3> QED BY <3>1, <3>3, <2>1
  <2>10. CASE n < j /\ i = n
    <3>1. list'[i] = f /\ list'[j] = list[j - 1] /\ j - 1 \in DOMAIN list /\ n <= j - 1
      BY <2>2, <2>5, <2>6, <2>10, <1>3, <1>6
    <3> QED BY <3>1, <2>1, <2>4, <1>3
  <2>11. CASE n < i
    <3>1. /\ list'[i] = list[i - 1] /\ list'[j] = list[j - 1]
          /\ i - 1 \in DOMAIN list /\ j - 1 \in DOMAIN list /\ i - 1 < j - 1
      BY <2>2, <2>5, <2>6, <2>11, <1>3, <1>6
    <3> QED BY <3>1, <2>1 DEF Queues, Sorted
  <2> QED BY <2>5, <2>6, <2>7, <2>8, <2>9, <2>10, <2>11
<1>12. Queues'
  BY <1>5, <1>8, <1>11 DEF PostDelayedFunction, Queues, ListsAreSets
<1>13. DispatcherTypeOK'
  BY <1>1, <1>6, <1>10 DEF PostDelayedFunction, Calls, DispatcherTypeOK
<1>14. Driving'
  BY Called DEF PostDelayedFunction
<1> QED BY <1>12, <1>13, <1>14

LEMMA CancelKeeps ==
  ASSUME DispatcherInv, NEW a \in Posters \cup {ForegroundThread}, NEW f \in Functions,
         CancelDelayedFunction(a, f)
  PROVE  DispatcherInv'
<1> USE DEF DispatcherInv
<1> DEFINE list == functionTimerQueue
<1>1. /\ list \in Seq(Functions) /\ IsInjective(list) /\ f \in posted /\ answer[f] = "none"
      /\ list' = RemoveFirst(list, f)
      /\ answer' = [answer EXCEPT ![f] = IF f \in Range(list) THEN "cancelled" ELSE "tooLate"]
  BY DEF CancelDelayedFunction, FunctionsWithout, DispatcherTypeOK, Queues, ListsAreSets
<1>2. /\ list' \in Seq(Functions) /\ IsInjective(list') /\ Range(list') = Range(list) \ {f}
  <2>1. CASE f \in Range(list)
    BY <2>1, <1>1, ListWithout
  <2>2. CASE f \notin Range(list)
    BY <2>2, <1>1, RemoveFirstOfNone, ContainsIsRange
  <2> QED BY <2>1, <2>2
<1>3. Sorted'
  <2>1. CASE f \in Range(list)
    <3>1. PICK k \in DOMAIN list : list[k] = f
      BY <2>1 DEF Range
    <3>2. list' = RemoveAt(list, k)
      BY <3>1, <1>1, RemoveFirstIsRemoveAt
    <3>3. /\ Len(list') = Len(list) - 1
          /\ \A j \in 1 .. Len(list) - 1 : list'[j] = IF j < k THEN list[j] ELSE list[j + 1]
      BY <3>2, <1>1, RemoveAtEntries
    <3>4. DOMAIN list' = 1 .. Len(list) - 1 /\ DOMAIN list = 1 .. Len(list) /\ Len(list) \in Nat
      BY <3>3, <1>1, <1>2
    <3> DEFINE from(j) == IF j < k THEN j ELSE j + 1
    <3>5. \A j \in DOMAIN list' : from(j) \in DOMAIN list /\ list'[j] = list[from(j)]
      BY <3>3, <3>4
    <3>6. \A i, j \in DOMAIN list' : i < j => from(i) < from(j)
      BY <3>4
    <3> HIDE DEF from
    <3>7. time' = time
      BY DEF CancelDelayedFunction
    <3> QED BY <3>5, <3>6, <3>7 DEF Queues, Sorted
  <2>2. CASE f \notin Range(list)
    <3>1. list' = list
      BY <2>2, <1>1, RemoveFirstOfNone, ContainsIsRange
    <3> QED BY <3>1 DEF CancelDelayedFunction, Queues, Sorted
  <2> QED BY <2>1, <2>2
<1>4. answer \in [Functions -> {"none", "cancelled", "tooLate"}]
  BY DEF DispatcherTypeOK
<1>5. /\ answer' \in [Functions -> {"none", "cancelled", "tooLate"}]
      /\ \A g \in Functions :
           answer'[g] = IF g = f THEN IF f \in Range(list) THEN "cancelled" ELSE "tooLate"
                        ELSE answer[g]
  BY <1>1, <1>4
<1>6. f \notin Range(queue) /\ f \notin coroutineTimerQueue
  BY Kinds, DispatcherAssumption DEF Timers
<1>7. Queued' = Queued \ {f} /\ (f \in Queued <=> f \in Range(list))
  BY <1>2, <1>6 DEF Queued, CancelDelayedFunction
<1>8. \A w \in posted : w \in Queued <=> Pending(w)
  BY LostOrNot DEF Queues
<1>9. f \in Work /\ ran \in [Work -> 0..1] /\ ran' = ran /\ posted' = posted
  BY DEF Work, Timers, DispatcherTypeOK, CancelDelayedFunction
<1>10. f \in Range(list) <=> ran[f] = 0
  BY <1>1, <1>7, <1>8 DEF Pending
<1>11. \A w \in posted' : w \in Queued' <=> Pending(w)'
  <2> TAKE w \in posted'
  <2>1. CASE w = f
    <3>1. w \notin Queued'
      BY <2>1, <1>7
    <3>2. f \in Range(list) => answer'[f] = "cancelled"
      BY <1>5
    <3> QED BY <2>1, <3>1, <3>2, <1>9, <1>10 DEF Pending
  <2>2. CASE w # f
    <3>1. w \in Functions => answer'[w] = answer[w]
      BY <2>2, <1>5
    <3> QED BY <2>2, <3>1, <1>7, <1>8, <1>9 DEF Pending
  <2> QED BY <2>1, <2>2
<1>12. NothingIsLost'
  BY <1>11 DEF NothingIsLost, Queued, Pending
<1>13. CancelTellsTheTruth'
  <2>1. ran[f] = 0 \/ ran[f] = 1
    BY <1>9
  <2> QED BY <2>1, <1>5, <1>9, <1>10 DEF Queues, CancelTellsTheTruth
<1>14. OnlyPosted'
  BY <1>1, <1>5, <1>7, <1>9 DEF Queues, OnlyPosted
<1>15. Queues'
  BY <1>2, <1>3, <1>12, <1>13, <1>14 DEF Queues, ListsAreSets, CancelDelayedFunction
<1>16. DispatcherTypeOK'
  BY <1>2, <1>5 DEF CancelDelayedFunction, DispatcherTypeOK
<1>17. NextTimers' \subseteq NextTimers
  BY <1>2 DEF NextTimers, CancelDelayedFunction
<1>18. Driving'
  BY <1>17 DEF CancelDelayedFunction, Driving, Phases, NotMissed, SleepsOnlyIfIdle, SleepsUntold,
               AnyIsTrue, HasRun
<1> QED BY <1>15, <1>16, <1>18

LEMMA PostQuitKeeps ==
  ASSUME DispatcherInv, NEW a \in Posters \cup {ForegroundThread}, PostQuit(a)
  PROVE  DispatcherInv'
<1>1. Queues'
  BY QueuesStay DEF DispatcherInv, PostQuit
<1>2. DispatcherTypeOK'
  BY DEF DispatcherInv, DispatcherTypeOK, PostQuit, posting, Calls
<1>3. Driving'
  BY Called DEF DispatcherInv, PostQuit
<1> QED BY <1>1, <1>2, <1>3 DEF DispatcherInv

\* A foreground thread that is asleep has been notified then.
LEMMA NotifyKeeps ==
  ASSUME DispatcherInv, NEW a \in Posters \cup {ForegroundThread}, PumpMessageNotifyOne(a)
  PROVE  DispatcherInv'
<1>1. Queues'
  BY QueuesStay DEF DispatcherInv, PumpMessageNotifyOne
<1>2. DispatcherTypeOK'
  BY DEF DispatcherInv, DispatcherTypeOK, PumpMessageNotifyOne, PostsMessage, posting
<1>3. /\ fg'.phase = fg.phase /\ fg'.back = fg.back /\ fg'.any = fg.any /\ fg'.start = fg.start
      /\ fg.phase = "asleep" => fg'.notified
  BY DEF DispatcherInv, DispatcherTypeOK, PumpMessageNotifyOne
<1>4. Driving'
  BY <1>3 DEF DispatcherInv, PumpMessageNotifyOne, PostsMessage, Driving, Phases, NotMissed,
              SleepsOnlyIfIdle, SleepsUntold, AnyIsTrue, HasRun
<1> QED BY <1>1, <1>2, <1>4 DEF DispatcherInv

-----------------------------------------------------------------------------
(* The foreground thread. *)

LEMMA WhereItRuns ==
  ASSUME DispatcherInv, NEW w \in Work, fg.phase \in {"timers", "queue"}, Runs(w), ran[w] = 0,
         UNCHANGED <<now, program>>
  PROVE  /\ fg' \in [phase : Phase, back : Phase, call : {"first", "second"},
                     start : 0..MaxTime, any : BOOLEAN, message : BOOLEAN, wakeAt : Nat,
                     notified : BOOLEAN]
         /\ Driving'
<1>1. /\ fg' = [fg EXCEPT !.phase = "handler", !.back = fg.phase, !.any = TRUE,
                          !.message = w \in Handles]
      /\ (w \in Handles) \in BOOLEAN
  BY DEF Runs
<1>2. /\ fg' \in [phase : Phase, back : Phase, call : {"first", "second"},
                  start : 0..MaxTime, any : BOOLEAN, message : BOOLEAN, wakeAt : Nat,
                  notified : BOOLEAN]
      /\ fg'.phase = "handler" /\ fg'.back = fg.phase /\ fg'.any /\ fg'.start = fg.start
  BY <1>1 DEF DispatcherInv, DispatcherTypeOK, Phase
<1>3. HasRun'
  <2>1. ran \in [Work -> 0..1] /\ ran' = [ran EXCEPT ![w] = @ + 1]
    BY DEF DispatcherInv, DispatcherTypeOK, Runs
  <2>2. ran'[w] = 1
    BY <2>1
  <2> QED BY <2>2 DEF HasRun
<1> QED BY <1>2, <1>3 DEF DispatcherInv, Driving, Phases, NotMissed, SleepsOnlyIfIdle, SleepsUntold, AnyIsTrue

LEMMA FirstOfFunctions ==
  ASSUME DispatcherInv, functionTimerQueue # <<>>
  PROVE  /\ FirstFunction \in Functions /\ FirstFunction \in Range(functionTimerQueue)
         /\ \A u \in Range(functionTimerQueue) : time[FirstFunction] <= time[u]
<1>1. functionTimerQueue \in Seq(Functions)
  BY DEF DispatcherInv, DispatcherTypeOK
<1>2. /\ FirstFunction = functionTimerQueue[1] /\ 1 \in DOMAIN functionTimerQueue
      /\ FirstFunction \in Functions
      /\ \A i \in DOMAIN functionTimerQueue : i = 1 \/ 1 < i
  BY <1>1 DEF FirstFunction
<1>3. \A i \in DOMAIN functionTimerQueue : time[functionTimerQueue[1]] <= time[functionTimerQueue[i]]
  <2>1. time[functionTimerQueue[1]] <= time[functionTimerQueue[1]]
    <3>1. time[functionTimerQueue[1]] \in Nat
      BY <1>2 DEF DispatcherInv, DispatcherTypeOK, Timers
    <3> QED BY <3>1
  <2> QED BY <2>1, <1>2 DEF DispatcherInv, Queues, Sorted
<1> QED BY <1>2, <1>3 DEF Range

LEMMA RunFunctionKeeps ==
  ASSUME DispatcherInv, RunFunction
  PROVE  DispatcherInv'
<1> USE DEF DispatcherInv
<1> DEFINE f == FirstFunction
<1>1. functionTimerQueue # <<>> /\ functionTimerQueue \in Seq(Functions)
      /\ IsInjective(functionTimerQueue)
  BY DEF RunFunction, FunctionIsDue, DispatcherTypeOK, Queues, ListsAreSets
<1>2. /\ functionTimerQueue' \in Seq(Functions) /\ IsInjective(functionTimerQueue')
      /\ Range(functionTimerQueue') = Range(functionTimerQueue) \ {f}
      /\ f \in Functions /\ f \in Range(functionTimerQueue)
  BY <1>1, ListTail DEF RunFunction, FirstFunction
<1>3. f \in Queued /\ f \in Work /\ Queued' = Queued \ {f}
  <2>1. f \notin Range(queue) /\ f \notin coroutineTimerQueue
    BY <1>2, Kinds, DispatcherAssumption DEF Timers
  <2> QED BY <2>1, <1>2, Kinds DEF Queued, RunFunction
<1>4. ran' = [ran EXCEPT ![f] = @ + 1] /\ posted' = posted /\ answer' = answer
  BY DEF RunFunction, Runs, FgUnchanged
<1>5. /\ ran[f] = 0 /\ ran' \in [Work -> 0..1]
      /\ OnlyPosted' /\ NothingIsLost' /\ CancelTellsTheTruth'
  BY <1>3, <1>4, OneRuns
<1>6. Sorted'
  <2>1. \A i \in DOMAIN functionTimerQueue' :
           /\ i \in Nat /\ i + 1 \in DOMAIN functionTimerQueue
           /\ functionTimerQueue'[i] = functionTimerQueue[i + 1]
    BY <1>1 DEF RunFunction
  <2>2. \A i, j \in DOMAIN functionTimerQueue' : i < j => i + 1 < j + 1
    BY <2>1
  <2> QED BY <2>1, <2>2 DEF Queues, Sorted, RunFunction
<1>7. Queues'
  BY <1>2, <1>5, <1>6 DEF Queues, ListsAreSets, RunFunction
<1>8. /\ fg' \in [phase : Phase, back : Phase, call : {"first", "second"},
                  start : 0..MaxTime, any : BOOLEAN, message : BOOLEAN, wakeAt : Nat,
                  notified : BOOLEAN]
      /\ Driving'
  BY <1>3, <1>5, WhereItRuns DEF RunFunction, FgUnchanged
<1>9. DispatcherTypeOK'
  BY <1>2, <1>5, <1>8 DEF DispatcherTypeOK, RunFunction, FgUnchanged
<1> QED BY <1>7, <1>8, <1>9

LEMMA RunCoroutineKeeps ==
  ASSUME DispatcherInv, NEW c \in Delayed, RunCoroutine(c)
  PROVE  DispatcherInv'
<1> USE DEF DispatcherInv
<1>1. c \in Queued /\ c \in Work /\ Queued' = Queued \ {c}
  <2>1. c \notin Range(queue) /\ c \notin Range(functionTimerQueue)
    BY Kinds, DispatcherAssumption DEF Timers
  <2> QED BY <2>1, Kinds DEF Queued, RunCoroutine, CoroutineIsDue, Popped
<1>2. ran' = [ran EXCEPT ![c] = @ + 1] /\ posted' = posted /\ answer' = answer
  BY DEF RunCoroutine, Runs, FgUnchanged
<1>3. /\ ran[c] = 0 /\ ran' \in [Work -> 0..1]
      /\ OnlyPosted' /\ NothingIsLost' /\ CancelTellsTheTruth'
  BY <1>1, <1>2, OneRuns
<1>4. Queues'
  BY <1>3 DEF Queues, ListsAreSets, Sorted, RunCoroutine
<1>5. /\ fg' \in [phase : Phase, back : Phase, call : {"first", "second"},
                  start : 0..MaxTime, any : BOOLEAN, message : BOOLEAN, wakeAt : Nat,
                  notified : BOOLEAN]
      /\ Driving'
  BY <1>1, <1>3, WhereItRuns DEF RunCoroutine, FgUnchanged
<1>6. DispatcherTypeOK'
  BY <1>3, <1>5 DEF DispatcherTypeOK, RunCoroutine, FgUnchanged, Popped
<1> QED BY <1>4, <1>5, <1>6

LEMMA RunHandleKeeps ==
  ASSUME DispatcherInv, RunHandle
  PROVE  DispatcherInv'
<1> USE DEF DispatcherInv
<1> DEFINE h == Head(queue)
<1>1. queue # <<>> /\ queue \in Seq(Handles) /\ IsInjective(queue)
  BY DEF RunHandle, DispatcherTypeOK, Queues, ListsAreSets
<1>2. /\ queue' \in Seq(Handles) /\ IsInjective(queue') /\ Range(queue') = Range(queue) \ {h}
      /\ h \in Handles /\ h \in Range(queue)
  BY <1>1, ListTail DEF RunHandle
<1>3. h \in Queued /\ h \in Work /\ Queued' = Queued \ {h}
  <2>1. h \notin coroutineTimerQueue /\ h \notin Range(functionTimerQueue)
    BY <1>2, Kinds, DispatcherAssumption DEF Timers
  <2> QED BY <2>1, <1>2, Kinds DEF Queued, RunHandle
<1>4. ran' = [ran EXCEPT ![h] = @ + 1] /\ posted' = posted /\ answer' = answer
  BY DEF RunHandle, Runs, FgUnchanged
<1>5. /\ ran[h] = 0 /\ ran' \in [Work -> 0..1]
      /\ OnlyPosted' /\ NothingIsLost' /\ CancelTellsTheTruth'
  BY <1>3, <1>4, OneRuns
<1>6. Queues'
  BY <1>2, <1>5 DEF Queues, ListsAreSets, Sorted, RunHandle
<1>7. /\ fg' \in [phase : Phase, back : Phase, call : {"first", "second"},
                  start : 0..MaxTime, any : BOOLEAN, message : BOOLEAN, wakeAt : Nat,
                  notified : BOOLEAN]
      /\ Driving'
  BY <1>3, <1>5, WhereItRuns DEF RunHandle, FgUnchanged
<1>8. DispatcherTypeOK'
  BY <1>2, <1>5, <1>7 DEF DispatcherTypeOK, RunHandle, FgUnchanged
<1> QED BY <1>6, <1>7, <1>8

\* The rest of what it does changes nothing but where it is.
LEMMA PumpKeeps ==
  ASSUME DispatcherInv, PumpBegins \/ TimersDone \/ HandlerReturns \/ QueueDone
  PROVE  DispatcherInv'
<1> USE DEF DispatcherInv
<1>1. UNCHANGED <<posting, ran, messagePosted, quit, notifying, now, program, answer>>
  BY DEF PumpBegins, TimersDone, HandlerReturns, QueueDone, FgUnchanged
<1>2. Queues'
  BY <1>1, QueuesStay
<1>3. HasRun' = HasRun
  BY <1>1 DEF HasRun
<1>4. /\ now \in 0..MaxTime /\ 0 <= now /\ now <= now /\ 0 \in 0..MaxTime
  BY DispatcherAssumption DEF DispatcherTypeOK
<1> DEFINE FgOK == fg \in [phase : Phase, back : Phase, call : {"first", "second"},
                           start : 0..MaxTime, any : BOOLEAN, message : BOOLEAN, wakeAt : Nat,
                           notified : BOOLEAN]
<1>5. FgOK
  BY DEF DispatcherTypeOK
<1>6. CASE PumpBegins
  <2>1. FgOK' /\ fg.phase = "pump" /\ fg'.phase = "timers" /\ fg'.start = now /\ ~fg'.any
    BY <1>4, <1>5, <1>6 DEF PumpBegins, Phase
  <2> QED BY <1>1, <1>2, <1>3, <1>4, <2>1 DEF DispatcherTypeOK, posting, Driving, Phases, NotMissed,
          SleepsOnlyIfIdle, SleepsUntold, AnyIsTrue
<1>7. CASE TimersDone
  <2>1. FgOK' /\ fg.phase = "timers" /\ fg'.phase = "queue" /\ fg'.start = fg.start
        /\ fg'.any = fg.any
    BY <1>5, <1>7 DEF TimersDone, Phase
  <2> QED BY <1>1, <1>2, <1>3, <2>1 DEF DispatcherTypeOK, posting, Driving, Phases, NotMissed,
          SleepsOnlyIfIdle, SleepsUntold, AnyIsTrue
<1>8. CASE HandlerReturns
  <2>1. FgOK' /\ fg.phase = "handler" /\ fg'.phase = fg.back /\ fg'.start = fg.start
        /\ fg'.any = fg.any
    BY <1>5, <1>8 DEF HandlerReturns, Phase
  <2> QED BY <1>1, <1>2, <1>3, <2>1 DEF DispatcherTypeOK, posting, Driving, Phases, NotMissed,
          SleepsOnlyIfIdle, SleepsUntold, AnyIsTrue
<1>9. CASE QueueDone
  <2>1. /\ FgOK' /\ fg.phase = "queue" /\ queue = <<>> /\ fg'.any = fg.any
        /\ \/ fg'.phase = "timers" /\ fg'.start = fg.start
           \/ fg'.phase = "returned" /\ fg'.start = 0
    BY <1>4, <1>5, <1>9 DEF QueueDone, Phase
  <2> QED BY <1>1, <1>2, <1>3, <1>4, <2>1 DEF DispatcherTypeOK, posting, Driving, Phases, NotMissed,
          SleepsOnlyIfIdle, SleepsUntold, AnyIsTrue
<1> QED BY <1>6, <1>7, <1>8, <1>9

LEMMA TimesOfTimers ==
  ASSUME DispatcherTypeOK
  PROVE  NextTimers \subseteq Nat
<1>1. coroutineTimerQueue \cup Range(functionTimerQueue) \subseteq Timers
  BY Kinds DEF Timers
<1> QED BY <1>1 DEF DispatcherTypeOK, NextTimers

\* A sleep is over in time, if nothing was overdue.
LEMMA WhereItSleeps ==
  ASSUME DispatcherInv, NEW until \in Nat, Sleeps(until)
  PROVE  /\ fg' \in [phase : Phase, back : Phase, call : {"first", "second"},
                     start : 0..MaxTime, any : BOOLEAN, message : BOOLEAN, wakeAt : Nat,
                     notified : BOOLEAN]
         /\ fg'.phase = "asleep" /\ fg'.start = fg.start
         /\ \A t \in Nat : now <= t /\ until <= t => fg'.wakeAt <= t + 1
<1> DEFINE wakeAt == AtMost(IF until > now THEN until ELSE now + 1)
<1>1. now \in Nat /\ MaxTime \in Nat
  BY DispatcherAssumption DEF DispatcherInv, DispatcherTypeOK
<1>2. wakeAt \in Nat /\ \A t \in Nat : now <= t /\ until <= t => wakeAt <= t + 1
  <2> DEFINE over == IF until > now THEN until ELSE now + 1
  <2>1. over \in Nat /\ \A t \in Nat : now <= t /\ until <= t => over <= t + 1
    BY <1>1
  <2> HIDE DEF over
  <2>2. AtMost(over) \in Nat /\ AtMost(over) <= over
    BY <1>1, <2>1 DEF AtMost
  <2> QED BY <2>1, <2>2 DEF over
<1>3. fg' = [fg EXCEPT !.phase = "asleep", !.notified = FALSE, !.wakeAt = wakeAt]
  BY DEF Sleeps
<1> HIDE DEF wakeAt
<1>4. /\ fg' \in [phase : Phase, back : Phase, call : {"first", "second"},
                  start : 0..MaxTime, any : BOOLEAN, message : BOOLEAN, wakeAt : Nat,
                  notified : BOOLEAN]
      /\ fg'.phase = "asleep" /\ fg'.start = fg.start /\ fg'.wakeAt = wakeAt
  BY <1>2, <1>3 DEF DispatcherInv, DispatcherTypeOK, Phase
<1> QED BY <1>2, <1>4

LEMMA LoopWaits ==
  ASSUME DispatcherInv, PumpMessageWaitOne
  PROVE  DispatcherInv'
<1> USE DEF DispatcherInv
<1>1. Queues'
  BY QueuesStay DEF PumpMessageWaitOne
<1>2. /\ UNCHANGED <<posting, quit, notifying, now, program, ran, answer>>
      /\ program.driver = "MessageLoop" /\ fg.phase = "wait"
  BY DEF PumpMessageWaitOne
<1>3. CASE fg' = [fg EXCEPT !.phase = "pump"] /\ messagePosted' \in BOOLEAN
  <2>1. /\ fg' \in [phase : Phase, back : Phase, call : {"first", "second"},
                    start : 0..MaxTime, any : BOOLEAN, message : BOOLEAN, wakeAt : Nat,
                    notified : BOOLEAN]
        /\ fg'.phase = "pump" /\ fg'.start = fg.start
    BY <1>3 DEF DispatcherTypeOK, Phase
  <2>2. DispatcherTypeOK'
    BY <1>2, <1>3, <2>1 DEF DispatcherTypeOK, posting
  <2>3. Driving'
    BY <1>2, <2>1 DEF Driving, Phases, NotMissed, SleepsOnlyIfIdle, SleepsUntold, AnyIsTrue
  <2> QED BY <1>1, <2>2, <2>3
<1>4. CASE /\ ~messagePosted /\ messagePosted' = messagePosted
           /\ \A t \in NextTimers : t >= now
           /\ Sleeps(IF NextTimers = {} THEN now + IdleSleep ELSE Min(NextTimers))
  <2> DEFINE until == IF NextTimers = {} THEN now + IdleSleep ELSE Min(NextTimers)
  <2>1. NextTimers \subseteq Nat /\ now \in Nat
    BY TimesOfTimers DEF DispatcherTypeOK
  <2>2. until \in Nat /\ \A t \in NextTimers : until <= t
    <3>1. CASE NextTimers = {}
      BY <2>1, <3>1, DispatcherAssumption
    <3>2. CASE NextTimers # {}
      <4>1. Min(NextTimers) \in NextTimers /\ \A t \in NextTimers : Min(NextTimers) <= t
        BY <2>1, <3>2, MinOf
      <4> QED BY <2>1, <3>2, <4>1
    <3> QED BY <3>1, <3>2
  <2> HIDE DEF until
  <2>3. /\ fg' \in [phase : Phase, back : Phase, call : {"first", "second"},
                    start : 0..MaxTime, any : BOOLEAN, message : BOOLEAN, wakeAt : Nat,
                    notified : BOOLEAN]
        /\ fg'.phase = "asleep" /\ fg'.start = fg.start
        /\ \A t \in Nat : now <= t /\ until <= t => fg'.wakeAt <= t + 1
    BY <1>4, <2>2, WhereItSleeps DEF until
  <2>4. DispatcherTypeOK'
    BY <1>2, <1>4, <2>3 DEF DispatcherTypeOK, posting
  <2>5. notifying = {} => queue = <<>>
    BY <1>2, <1>4 DEF Driving, NotMissed
  <2>6. \A t \in NextTimers' : fg'.wakeAt <= t + 1
    <3>1. NextTimers' = NextTimers
      BY <1>2 DEF NextTimers, posting
    <3>2. \A t \in NextTimers : t \in Nat /\ now <= t /\ until <= t
      BY <1>4, <2>1, <2>2
    <3> QED BY <3>1, <3>2, <2>3
  <2>7. SleepsOnlyIfIdle'
    BY <1>2, <2>5, <2>6 DEF SleepsOnlyIfIdle, SleepsUntold, posting
  <2>8. Driving'
    BY <1>2, <2>3, <2>7 DEF Driving, Phases, NotMissed, AnyIsTrue
  <2> QED BY <1>1, <2>4, <2>8
<1>5. messagePosted \in BOOLEAN
  BY DEF DispatcherTypeOK
<1> QED BY <1>3, <1>4, <1>5 DEF PumpMessageWaitOne

LEMMA PumpWaits ==
  ASSUME DispatcherInv, PumpMessagesWait
  PROVE  DispatcherInv'
<1> USE DEF DispatcherInv
<1>1. Queues'
  BY QueuesStay DEF PumpMessagesWait
<1>2. /\ UNCHANGED <<posting, messagePosted, quit, notifying, now, program, ran, answer>>
      /\ program.driver # "MessageLoop" /\ fg.phase = "wait"
  BY DEF PumpMessagesWait
<1>3. HasRun' = HasRun
  BY <1>2 DEF HasRun
<1>4. CASE now >= Timeout
  <2> DEFINE p == IF program.driver = "SleepUntil" THEN "ended" ELSE "timedOut"
  <2>1. /\ fg' = [fg EXCEPT !.phase = p] /\ p \in {"ended", "timedOut"}
        /\ program.driver = "PumpMessages" => p = "timedOut"
    BY <1>4 DEF PumpMessagesWait
  <2> HIDE DEF p
  <2>2. /\ fg' \in [phase : Phase, back : Phase, call : {"first", "second"},
                    start : 0..MaxTime, any : BOOLEAN, message : BOOLEAN, wakeAt : Nat,
                    notified : BOOLEAN]
        /\ fg'.phase = p /\ fg'.start = fg.start
    BY <2>1 DEF DispatcherTypeOK, Phase
  <2>3. DispatcherTypeOK'
    BY <1>2, <2>2 DEF DispatcherTypeOK, posting
  <2>4. Driving'
    BY <1>2, <1>3, <1>4, <2>1, <2>2 DEF Driving, Phases, NotMissed, SleepsOnlyIfIdle, SleepsUntold,
       AnyIsTrue
  <2> QED BY <1>1, <2>3, <2>4
<1>5. CASE ~(now >= Timeout)
  <2> DEFINE until == Min(NextTimers \cup {Timeout})
  <2>1. until \in Nat
    <3>1. NextTimers \cup {Timeout} \in SUBSET Nat
      BY TimesOfTimers, DispatcherAssumption
    <3> QED BY <3>1, MinOf
  <2>2. Sleeps(until)
    BY <1>5 DEF PumpMessagesWait
  <2> HIDE DEF until
  <2>3. /\ fg' \in [phase : Phase, back : Phase, call : {"first", "second"},
                    start : 0..MaxTime, any : BOOLEAN, message : BOOLEAN, wakeAt : Nat,
                    notified : BOOLEAN]
        /\ fg'.phase = "asleep" /\ fg'.start = fg.start
    BY <2>1, <2>2, WhereItSleeps
  <2>4. DispatcherTypeOK'
    BY <1>2, <2>3 DEF DispatcherTypeOK, posting
  <2>5. Driving'
    BY <1>2, <1>3, <2>3 DEF Driving, Phases, NotMissed, SleepsOnlyIfIdle, SleepsUntold, AnyIsTrue
  <2> QED BY <1>1, <2>4, <2>5
<1> QED BY <1>4, <1>5

LEMMA DriveKeeps ==
  ASSUME DispatcherInv, LoopReturned \/ LoopQuits \/ PumpReturned \/ Wakes
  PROVE  DispatcherInv'
<1> USE DEF DispatcherInv
<1>1. UNCHANGED <<posting, ran, messagePosted, notifying, now, program, answer>>
      /\ quit' \in BOOLEAN
  BY DEF LoopReturned, LoopQuits, PumpReturned, Wakes, FgUnchanged, DispatcherTypeOK
<1>2. Queues'
  BY <1>1, QueuesStay
<1>3. HasRun' = HasRun /\ (NotMissed => (queue' = queue))
  BY <1>1 DEF HasRun, posting
<1> DEFINE FgOK == fg \in [phase : Phase, back : Phase, call : {"first", "second"},
                           start : 0..MaxTime, any : BOOLEAN, message : BOOLEAN, wakeAt : Nat,
                           notified : BOOLEAN]
<1>4. FgOK
  BY DEF DispatcherTypeOK
<1>5. CASE LoopReturned
  <2>1. /\ FgOK' /\ fg.phase = "returned" /\ program.driver = "MessageLoop"
        /\ fg'.phase \in {"wait", "quit?"} /\ fg'.start = fg.start
    BY <1>4, <1>5 DEF LoopReturned, Phase
  <2> QED BY <1>1, <1>2, <2>1 DEF DispatcherTypeOK, posting, Driving, Phases, NotMissed,
          SleepsOnlyIfIdle, SleepsUntold, AnyIsTrue
<1>6. CASE LoopQuits
  <2>1. /\ FgOK' /\ fg.phase = "quit?" /\ fg'.phase \in {"wait", "ended"} /\ fg'.start = fg.start
    BY <1>4, <1>6 DEF LoopQuits, Phase
  <2> QED BY <1>1, <1>2, <2>1 DEF DispatcherTypeOK, posting, Driving, Phases, NotMissed,
          SleepsOnlyIfIdle, SleepsUntold, AnyIsTrue
<1>7. CASE PumpReturned
  <2>1. /\ FgOK' /\ fg.phase = "returned" /\ program.driver # "MessageLoop"
        /\ fg'.phase = (IF PumpedAny THEN "ended" ELSE "wait") /\ fg'.start = fg.start
    BY <1>4, <1>7 DEF PumpReturned, Phase
  <2>2. program.driver = "PumpMessages" => fg'.phase = IF HasRun THEN "ended" ELSE "wait"
    BY <2>1 DEF Driving, AnyIsTrue, PumpedAny
  <2> QED BY <1>1, <1>2, <1>3, <2>1, <2>2 DEF DispatcherTypeOK, posting, Driving, Phases, NotMissed,
          SleepsOnlyIfIdle, SleepsUntold, AnyIsTrue
<1>8. CASE Wakes
  <2>1. FgOK' /\ fg.phase = "asleep" /\ fg'.phase = "pump" /\ fg'.start = fg.start
    BY <1>4, <1>8 DEF Wakes, Phase
  <2> QED BY <1>1, <1>2, <1>3, <2>1 DEF DispatcherTypeOK, posting, Driving, Phases, NotMissed,
          SleepsOnlyIfIdle, SleepsUntold, AnyIsTrue
<1> QED BY <1>5, <1>6, <1>7, <1>8

LEMMA TickKeeps ==
  ASSUME DispatcherInv, Tick
  PROVE  DispatcherInv'
<1> USE DEF DispatcherInv
<1>1. Queues'
  BY QueuesStay DEF Tick
<1>2. now \in Nat /\ now' \in 0..MaxTime /\ now' = now + 1
  BY DispatcherAssumption DEF Tick, DispatcherTypeOK
<1>3. DispatcherTypeOK'
  BY <1>2 DEF DispatcherTypeOK, Tick, posting
<1>4. NextTimers' = NextTimers /\ HasRun' = HasRun
  BY DEF NextTimers, HasRun, Tick, posting
<1>5. fg.start <= now' /\ (now >= Timeout => now' >= Timeout)
  BY <1>2, DispatcherAssumption DEF Driving, Phases, DispatcherTypeOK
<1>6. Driving'
  BY <1>4, <1>5 DEF Driving, Phases, NotMissed, SleepsOnlyIfIdle, SleepsUntold, AnyIsTrue, Tick, posting
<1> QED BY <1>1, <1>3, <1>6

-----------------------------------------------------------------------------
(* Together. *)

LEMMA Initially == DispatcherInit => DispatcherInv
<1> SUFFICES ASSUME DispatcherInit PROVE DispatcherInv
  OBVIOUS
<1>1. program \in Programs /\ program.driver \in {"MessageLoop", "PumpMessages", "SleepUntil"}
  BY DispatcherAssumption DEF DispatcherInit
<1>2. 0 \in 0..MaxTime /\ 0 \in 0..1
  BY DispatcherAssumption
<1>3. fg \in [phase : Phase, back : Phase, call : {"first", "second"}, start : 0..MaxTime,
              any : BOOLEAN, message : BOOLEAN, wakeAt : Nat, notified : BOOLEAN]
  BY <1>2 DEF DispatcherInit, Phase
<1>4. DispatcherTypeOK
  <2>1. queue \in Seq(Handles) /\ functionTimerQueue \in Seq(Functions)
    BY DEF DispatcherInit
  <2> QED BY <1>1, <1>2, <1>3, <2>1 DEF DispatcherInit, DispatcherTypeOK
<1>5. \A w \in Work : ran[w] = 0
  BY DEF DispatcherInit
<1>6. Queues
  BY <1>5, EmptyList DEF DispatcherInit, Queues, ListsAreSets, OnlyPosted, Queued, Sorted, NothingIsLost,
     CancelTellsTheTruth, Work, Timers
<1>7. Driving
  BY <1>2, <1>5 DEF DispatcherInit, Driving, Phases, NotMissed, SleepsOnlyIfIdle, SleepsUntold, AnyIsTrue, HasRun
<1> QED BY <1>4, <1>6, <1>7 DEF DispatcherInv

LEMMA EveryStep == DispatcherInv /\ [DispatcherNext]_dispatcherVars => DispatcherInv'
<1> SUFFICES ASSUME DispatcherInv, [DispatcherNext]_dispatcherVars PROVE DispatcherInv'
  OBVIOUS
<1>1. CASE UNCHANGED dispatcherVars
  BY <1>1, QueuesStay DEF DispatcherInv, dispatcherVars, posting, DispatcherTypeOK, Driving, Phases, NotMissed,
     SleepsOnlyIfIdle, SleepsUntold, NextTimers, AnyIsTrue, HasRun
<1>2. ASSUME NEW a \in Posters \cup {ForegroundThread}, Operation(a) PROVE DispatcherInv'
  BY <1>2, PostKeeps, PostDelayedKeeps, PostDelayedFunctionKeeps, CancelKeeps, PostQuitKeeps
     DEF Operation
<1>3. ASSUME NEW a \in Posters \cup {ForegroundThread}, PumpMessageNotifyOne(a) PROVE DispatcherInv'
  BY <1>3, NotifyKeeps
<1>4. CASE Pump
  BY <1>4, RunFunctionKeeps, RunCoroutineKeeps, RunHandleKeeps, PumpKeeps DEF Pump
<1>5. CASE Drive \/ Wakes
  BY <1>5, DriveKeeps, LoopWaits, PumpWaits DEF Drive
<1>6. CASE Tick
  BY <1>6, TickKeeps
<1>7. CASE Terminating
  BY <1>7, <1>1 DEF Terminating
<1> QED BY <1>1, <1>2, <1>3, <1>4, <1>5, <1>6, <1>7 DEF DispatcherNext

\* The inductive invariant holds in every reachable state.
THEOREM DispatcherInvariance == DispatcherSpec => []DispatcherInv
  BY Initially, EveryStep, PTL DEF DispatcherSpec

\* A thing that was posted is in its queue until it has been run, once, or cancelled, and
\* what CancelDelayedFunction() says of it is the truth (CoTask.cpp).
THEOREM PostedIsKept == DispatcherSpec => []NothingIsMislaid
<1>1. DispatcherInv => NothingIsMislaid
  BY DEF DispatcherInv, Queues, NothingIsMislaid
<1> QED BY <1>1, DispatcherInvariance, PTL

\* MessageLoop() sleeps only when there is nothing to do before it wakes up, and
\* PumpMessages(timeout) has run something when it returns, and nothing when it throws.
THEOREM DriversPumpTruly == DispatcherSpec => []PumpsTruly
<1>1. ASSUME DispatcherInv PROVE PumpsOrThrows
  <2>1. ran \in [Work -> 0..1]
    BY <1>1 DEF DispatcherInv, DispatcherTypeOK
  <2>2. ~HasRun => \A w \in Work : ran[w] = 0
    BY <2>1 DEF HasRun
  <2> QED BY <1>1, <2>2 DEF DispatcherInv, Driving, AnyIsTrue, PumpsOrThrows, HasRun
<1>2. DispatcherInv => PumpsTruly
  BY <1>1 DEF DispatcherInv, Driving, PumpsTruly
<1> QED BY <1>2, DispatcherInvariance, PTL

\* A timer is run only when it is due, and when none of either queue is due before it.
THEOREM TimersRunInOrder == DispatcherSpec => TimersInOrder
<1> DEFINE InOrder == \A t \in Timers : ran'[t] # ran[t] =>
       /\ time[t] <= now
       /\ \A u \in coroutineTimerQueue \cup Range(functionTimerQueue) : time[t] <= time[u]
<1>1. ASSUME DispatcherInv, DispatcherNext PROVE InOrder
  <2>1. /\ fg.start \in Nat /\ now \in Nat /\ fg.start <= now /\ time \in [Timers -> Nat]
        /\ ran \in [Work -> 0..1]
    BY <1>1 DEF DispatcherInv, DispatcherTypeOK, Driving, Phases
  <2>2. coroutineTimerQueue \cup Range(functionTimerQueue) \subseteq Timers
    BY <1>1, Kinds DEF DispatcherInv, Timers
  <2>3. CASE RunFunction
    <3> DEFINE f == FirstFunction
    <3>1. f \in Timers /\ time[f] <= fg.start
          /\ \A u \in coroutineTimerQueue \cup Range(functionTimerQueue) : time[f] <= time[u]
      BY <1>1, <2>3, FirstOfFunctions DEF RunFunction, FunctionIsDue, CoroutinesNotBefore, Timers
    <3>2. \A t \in Timers : ran'[t] # ran[t] => t = f
      BY <2>1, <2>3 DEF RunFunction, Runs, Work
    <3>3. time[f] <= now
      BY <2>1, <3>1
    <3> QED BY <3>1, <3>2, <3>3
  <2>4. ASSUME NEW c \in Delayed, RunCoroutine(c) PROVE InOrder
    <3>1. /\ c \in Timers /\ time[c] <= fg.start /\ NoFunctionBefore(c)
          /\ \A d \in coroutineTimerQueue : time[c] <= time[d]
      BY <2>4 DEF RunCoroutine, CoroutineIsDue, Timers
    <3>2. ASSUME NEW u \in Range(functionTimerQueue) PROVE time[c] <= time[u]
      <4>1. functionTimerQueue # <<>>
        BY <3>2, EmptyList
      <4>2. /\ time[c] < time[FirstFunction] /\ time[FirstFunction] <= time[u]
            /\ FirstFunction \in Timers /\ u \in Timers
        BY <1>1, <2>2, <3>1, <4>1, FirstOfFunctions DEF NoFunctionBefore, Timers
      <4> HIDE DEF FirstFunction
      <4>3. time[c] \in Nat /\ time[FirstFunction] \in Nat /\ time[u] \in Nat
        BY <2>1, <3>1, <4>2
      <4> QED BY <4>2, <4>3
    <3>3. \A t \in Timers : ran'[t] # ran[t] => t = c
      BY <2>1, <2>4 DEF RunCoroutine, Runs, Work
    <3>4. time[c] <= now
      BY <2>1, <3>1
    <3> QED BY <3>1, <3>2, <3>3, <3>4
  <2>5. CASE RunHandle
    <3>1. Head(queue) \in Handles
      BY <1>1, <2>5 DEF DispatcherInv, DispatcherTypeOK, RunHandle
    <3> DEFINE h == Head(queue)
    <3>2. ran' = [ran EXCEPT ![h] = @ + 1]
      BY <2>5 DEF RunHandle, Runs
    <3> HIDE DEF h
    <3>3. \A t \in Timers : t # h /\ t \in Work
      BY <3>1, DispatcherAssumption DEF Work, Timers, h
    <3>4. \A t \in Timers : ran'[t] = ran[t]
      BY <2>1, <3>2, <3>3
    <3> QED BY <3>4
  <2>6. CASE UNCHANGED ran
    BY <2>6
  <2>7. ASSUME NEW a \in Posters \cup {ForegroundThread}, Operation(a) \/ PumpMessageNotifyOne(a)
        PROVE  UNCHANGED ran
    BY <2>7 DEF Operation, PumpMessageNotifyOne, Post, PostDelayed, PostDelayedFunction,
       CancelDelayedFunction, PostQuit
  <2>8. PumpBegins \/ TimersDone \/ HandlerReturns \/ QueueDone \/ Drive \/ Wakes \/ Tick
        \/ Terminating => UNCHANGED ran
    BY DEF PumpBegins, TimersDone, HandlerReturns, QueueDone, Drive, LoopReturned, LoopQuits,
       PumpReturned, PumpMessageWaitOne, PumpMessagesWait, Wakes, Tick, Terminating, dispatcherVars
  <2> QED BY <1>1, <2>3, <2>4, <2>5, <2>6, <2>7, <2>8 DEF DispatcherNext, Pump
<1>2. DispatcherInv /\ [DispatcherNext]_dispatcherVars => [InOrder]_dispatcherVars
  BY <1>1
<1> QED BY <1>2, DispatcherInvariance, PTL DEF DispatcherSpec, TimersInOrder

-----------------------------------------------------------------------------
(***************************************************************************)
(* The ring in which the pool keeps its handles, for elements of any set   *)
(* and any capacity: a queue that never drops, repeats or reorders what it *)
(* holds, however its head and tail have gone round, and when it grows.    *)
(***************************************************************************)

CONSTANT Nothing
Ring == INSTANCE Fifo

\* The place in the storage of what is to be popped as the i-th.
Slot(head, n, i) == IF head + i =< n THEN head + i ELSE head + i - n
RingPlace(f, i) == Slot(f.head, Len(f.storage), i)

\* The rings of elements of S, and what is in one, in the order in which it is popped.
RingRecords(S) == [head : Nat, tail : Nat, size : Nat, storage : Seq(S)]
Rings(S) ==
  {f \in RingRecords(S) : /\ f.head < Len(f.storage) /\ f.size =< Len(f.storage)
                          /\ f.tail + 1 = RingPlace(f, f.size + 1)}

Contents(f) == [i \in 1 .. f.size |-> f.storage[RingPlace(f, i)]]

\* The modulus finds the slot, as it is passed at most once.
LEMMA SlotByModulus ==
  ASSUME NEW n \in Nat \ {0}, NEW h \in Nat, h < n, NEW i \in 1 .. n + 1
  PROVE  ((h + i - 1) % n) + 1 = Slot(h, n, i)
<1> DEFINE k == h + i - 1
<1>1. k \in Nat /\ k < 2 * n /\ Slot(h, n, i) = IF k < n THEN k + 1 ELSE k + 1 - n
  BY DEF Slot
<1> HIDE DEF k
<1>2. k % n = IF k < n THEN k ELSE k - n
  BY <1>1
<1>3. (k % n) + 1 = Slot(h, n, i)
  BY <1>1, <1>2
<1> QED BY <1>3 DEF k

\* The slots of n elements are in the storage, differ, and follow one another round; those from
\* the next head are those that come after.
LEMMA Slots ==
  ASSUME NEW n \in Nat \ {0}, NEW h \in Nat, h < n
  PROVE  /\ \A i \in 1 .. n : Slot(h, n, i) \in 1 .. n
         /\ \A i \in 1 .. n : Slot(0, n, i) = i
         /\ Slot(h, n, 1) = h + 1
  BY DEF Slot

LEMMA NextSlot ==
  ASSUME NEW n \in Nat \ {0}, NEW h \in Nat, h < n, NEW i \in 1 .. n
  PROVE  Slot(h, n, i + 1) = IF Slot(h, n, i) = n THEN 1 ELSE Slot(h, n, i) + 1
  BY DEF Slot

LEMMA SlotsOfNext ==
  ASSUME NEW n \in Nat \ {0}, NEW h \in Nat, h < n, NEW i \in 1 .. n,
         NEW next, next = IF h + 1 = n THEN 0 ELSE h + 1
  PROVE  Slot(next, n, i) = Slot(h, n, i + 1)
  BY DEF Slot

LEMMA SlotsDiffer ==
  ASSUME NEW n \in Nat \ {0}, NEW h \in Nat, h < n, NEW i \in 1 .. n, NEW j \in 1 .. n, i # j
  PROVE  Slot(h, n, i) # Slot(h, n, j)
  BY DEF Slot

\* What is on a list with one more.
LEMMA AppendAt ==
  ASSUME NEW S, NEW c \in Seq(S), NEW v \in S, NEW d \in Seq(S), Len(d) = Len(c) + 1,
         \A i \in 1 .. Len(c) : d[i] = c[i], d[Len(c) + 1] = v
  PROVE  d = Append(c, v)
<1>1. /\ Append(c, v) \in Seq(S) /\ Len(Append(c, v)) = Len(d)
      /\ \A i \in 1 .. Len(d) : Append(c, v)[i] = d[i]
  OBVIOUS
<1> QED BY <1>1, SeqEqual

\* What the membership in Rings(S) says, and that the contents are a list.
LEMMA RingFacts ==
  ASSUME NEW S, NEW f \in Rings(S)
  PROVE  /\ f \in RingRecords(S)
         /\ f.head \in Nat /\ f.tail \in Nat /\ f.size \in Nat /\ f.storage \in Seq(S)
         /\ Len(f.storage) \in Nat \ {0} /\ DOMAIN f.storage = 1 .. Len(f.storage)
         /\ f.head < Len(f.storage) /\ f.size =< Len(f.storage)
         /\ f.tail + 1 = RingPlace(f, f.size + 1)
         /\ \A i \in 1 .. Len(f.storage) : RingPlace(f, i) \in 1 .. Len(f.storage)
         /\ \A i \in 1 .. f.size : f.storage[RingPlace(f, i)] \in S
         /\ Contents(f) \in Seq(S) /\ Len(Contents(f)) = f.size
         /\ \A i \in 1 .. f.size : Contents(f)[i] = f.storage[RingPlace(f, i)]
<1>1. /\ f \in RingRecords(S)
      /\ f.head \in Nat /\ f.tail \in Nat /\ f.size \in Nat /\ f.storage \in Seq(S)
      /\ f.head < Len(f.storage) /\ f.size =< Len(f.storage)
      /\ f.tail + 1 = RingPlace(f, f.size + 1)
  BY DEF Rings, RingRecords
<1>2. Len(f.storage) \in Nat \ {0} /\ DOMAIN f.storage = 1 .. Len(f.storage)
  BY <1>1
<1>3. \A i \in 1 .. Len(f.storage) : RingPlace(f, i) \in 1 .. Len(f.storage)
  <2>1. \A i \in 1 .. Len(f.storage) : Slot(f.head, Len(f.storage), i) \in 1 .. Len(f.storage)
    BY <1>1, <1>2, Slots
  <2> QED BY <2>1 DEF RingPlace
<1>4. \A i \in 1 .. f.size : f.storage[RingPlace(f, i)] \in S
  <2>1. \A i \in 1 .. f.size : i \in 1 .. Len(f.storage)
    BY <1>1, <1>2
  <2>2. \A k \in 1 .. Len(f.storage) : f.storage[k] \in S
    BY <1>1
  <2> QED BY <1>3, <2>1, <2>2
<1>5. Contents(f) \in Seq(S) /\ Len(Contents(f)) = f.size
      /\ \A i \in 1 .. f.size : Contents(f)[i] = f.storage[RingPlace(f, i)]
  <2> DEFINE m == f.size
             c == Contents(f)
  <2>1. c = [i \in 1 .. m |-> c[i]] /\ \A i \in 1 .. m : c[i] = f.storage[RingPlace(f, i)]
    BY DEF Contents
  <2> HIDE DEF c, m
  <2>2. m \in Nat /\ \A i \in 1 .. m : c[i] \in S
    BY <1>1, <1>4, <2>1 DEF m
  <2>3. c \in Seq(S) /\ Len(c) = m
    BY <2>1, <2>2
  <2> QED BY <2>1, <2>3 DEF c, m
<1> QED BY <1>1, <1>2, <1>3, <1>4, <1>5

\* A new ring is a ring, and empty.
THEOREM RingStartsEmpty ==
  ASSUME NEW S, Nothing \in S, NEW capacity \in Nat \ {0}
  PROVE  Ring!NewFifo(capacity) \in Rings(S) /\ Contents(Ring!NewFifo(capacity)) = <<>>
<1> DEFINE storage == [i \in 1 .. capacity |-> Nothing]
           f == Ring!NewFifo(capacity)
<1>1. storage \in Seq(S) /\ Len(storage) = capacity
  OBVIOUS
<1>2. f = [head |-> 0, tail |-> 0, size |-> 0, storage |-> storage]
  BY DEF Ring!NewFifo
<1> HIDE DEF f, storage
<1>3. f.head = 0 /\ f.tail = 0 /\ f.size = 0 /\ f.storage = storage /\ f \in RingRecords(S)
  BY <1>1, <1>2 DEF RingRecords
<1>4. RingPlace(f, 1) = 1
  BY <1>1, <1>3, Slots DEF RingPlace
<1> QED BY <1>1, <1>3, <1>4 DEF f, Rings, Contents

\* A full ring is laid out anew from the first place, with as many free places as elements.
LEMMA RingGrows ==
  ASSUME NEW S, Nothing \in S, NEW f \in Rings(S), f.size = Len(f.storage)
  PROVE  /\ Ring!Reserve(f) \in Rings(S) /\ Contents(Ring!Reserve(f)) = Contents(f)
         /\ Ring!Reserve(f).size < Len(Ring!Reserve(f).storage)
<1> DEFINE n == Len(f.storage)
           item(i) == f.storage[((f.head + i - 1) % n) + 1]
           longer == [i \in 1 .. 2 * f.size |-> IF i =< f.size THEN item(i) ELSE Nothing]
           g == Ring!Reserve(f)
<1>1. /\ f \in RingRecords(S) /\ f.head \in Nat /\ f.size \in Nat /\ f.size = n /\ f.head < n
      /\ n \in Nat \ {0} /\ \A i \in 1 .. n : f.storage[RingPlace(f, i)] \in S
  BY RingFacts
<1>2. \A i \in 1 .. n : item(i) = f.storage[RingPlace(f, i)]
  <2> SUFFICES ASSUME NEW i \in 1 .. n PROVE ((f.head + i - 1) % n) + 1 = RingPlace(f, i)
    OBVIOUS
  <2> DEFINE h == f.head
  <2>1. h \in Nat /\ h < n /\ n \in Nat \ {0} /\ i \in 1 .. n + 1 /\ RingPlace(f, i) = Slot(h, n, i)
    BY <1>1 DEF RingPlace
  <2> HIDE DEF h, n
  <2>2. ((h + i - 1) % n) + 1 = Slot(h, n, i)
    BY <2>1, SlotByModulus
  <2> QED BY <2>1, <2>2 DEF h
<1>3. g = [f EXCEPT !.head = 0, !.tail = f.size, !.storage = longer]
  BY DEF Ring!Reserve
<1> HIDE DEF item, g, n
<1>4. /\ longer \in Seq(S) /\ Len(longer) = 2 * n
      /\ \A i \in 1 .. n : longer[i] = f.storage[RingPlace(f, i)]
  <2>1. \A i \in 1 .. 2 * f.size : longer[i] \in S
    BY <1>1, <1>2
  <2>2. 2 * f.size \in Nat
    BY <1>1
  <2> DEFINE m == 2 * f.size
  <2>3. longer = [i \in 1 .. m |-> longer[i]] /\ m \in Nat /\ \A i \in 1 .. m : longer[i] \in S
    BY <2>1, <2>2
  <2> HIDE DEF m, longer
  <2>4. longer \in Seq(S) /\ Len(longer) = m
    BY <2>3
  <2>5. \A i \in 1 .. n : longer[i] = item(i)
    BY <1>1 DEF longer
  <2> QED BY <1>1, <1>2, <2>4, <2>5 DEF m
<1> HIDE DEF longer
<1>5. /\ g \in RingRecords(S)
      /\ g.head = 0 /\ g.tail = f.size /\ g.size = f.size /\ g.storage = longer
  BY <1>1, <1>3, <1>4 DEF RingRecords
<1>6. \A i \in 1 .. n + 1 : RingPlace(g, i) = i
  <2>1. 2 * n \in Nat \ {0} /\ 0 < 2 * n /\ n + 1 =< 2 * n
    BY <1>1
  <2>2. \A i \in 1 .. 2 * n : Slot(0, 2 * n, i) = i
    BY <2>1, Slots
  <2> QED BY <1>1, <1>4, <1>5, <2>1, <2>2 DEF RingPlace
<1>7. g \in Rings(S) /\ g.size < Len(g.storage)
  BY <1>1, <1>4, <1>5, <1>6 DEF Rings
<1>8. \A i \in 1 .. n : g.storage[RingPlace(g, i)] = f.storage[RingPlace(f, i)]
  BY <1>1, <1>4, <1>5, <1>6
<1>9. Contents(g) = Contents(f)
  BY <1>1, <1>5, <1>8 DEF Contents
<1> QED BY <1>7, <1>9 DEF g

\* One more in a ring that has a free place.
Into(f, value) ==
  [f EXCEPT !.storage[f.tail + 1] = value, !.tail = Ring!Following(f, f.tail), !.size = @ + 1]

LEMMA RingHasRoom ==
  ASSUME NEW S, NEW f \in Rings(S), f.size < Len(f.storage), NEW value \in S
  PROVE  Into(f, value) \in Rings(S) /\ Contents(Into(f, value)) = Append(Contents(f), value)
<1> DEFINE n == Len(f.storage)
           g == Into(f, value)
<1>1. /\ f \in RingRecords(S) /\ f.head \in Nat /\ f.tail \in Nat /\ f.size \in Nat
      /\ f.storage \in Seq(S) /\ n \in Nat /\ f.head < n /\ f.size < n
      /\ f.tail + 1 = RingPlace(f, f.size + 1)
      /\ \A i \in 1 .. n : RingPlace(f, i) \in 1 .. n
  BY RingFacts
<1>2. /\ f.size \in Nat /\ f.size + 1 \in 1 .. n /\ f.size + 1 =< n /\ n \in Nat \ {0}
      /\ f.head \in Nat /\ f.head < n
  BY RingFacts
<1>3. f.tail + 1 \in 1 .. n /\ Ring!Following(f, f.tail) \in Nat
      /\ Ring!Following(f, f.tail) + 1 = RingPlace(f, f.size + 2)
  <2>1. f.size + 1 \in 1 .. n /\ f.size + 2 = (f.size + 1) + 1
    BY <1>2
  <2>2. f.tail + 1 \in 1 .. n
    BY <1>1, <2>1
  <2>3. RingPlace(f, f.size + 2) = IF f.tail + 1 = n THEN 1 ELSE (f.tail + 1) + 1
    <3> DEFINE i == f.size + 1
    <3>1. i \in 1 .. n /\ n \in Nat \ {0} /\ f.head \in Nat /\ f.head < n
      BY <1>1, <2>1
    <3> HIDE DEF i, n
    <3>2. Slot(f.head, n, i + 1) = IF Slot(f.head, n, i) = n THEN 1 ELSE Slot(f.head, n, i) + 1
      BY <3>1, NextSlot
    <3> QED BY <1>1, <2>1, <3>2 DEF RingPlace, i, n
  <2>4. Ring!Following(f, f.tail) = IF f.tail + 1 = n THEN 0 ELSE f.tail + 1
    BY DEF Ring!Following
  <2> QED BY <1>1, <2>2, <2>3, <2>4
<1> DEFINE storage == [f.storage EXCEPT ![f.tail + 1] = value]
           next == Ring!Following(f, f.tail)
<1>4. g = [f EXCEPT !.storage = storage, !.tail = next, !.size = f.size + 1]
  BY DEF Into
<1>5. storage \in Seq(S) /\ Len(storage) = n
  BY <1>1, <1>3
<1> HIDE DEF storage, next, n, g
<1>6. /\ g \in RingRecords(S)
      /\ g.head = f.head /\ g.size = f.size + 1 /\ g.tail = next
      /\ g.storage = storage /\ Len(g.storage) = n
  <2>1. f.size + 1 \in Nat /\ next \in Nat
    BY <1>2, <1>3 DEF next
  <2> QED BY <1>1, <1>4, <1>5, <2>1 DEF RingRecords
<1>7. \A i : RingPlace(g, i) = RingPlace(f, i)
  BY <1>6 DEF RingPlace, n
<1>8. g \in Rings(S)
  <2>1. g.size + 1 = f.size + 2 /\ g.size =< n /\ g.head < n
    BY <1>2, <1>6
  <2> QED BY <1>3, <1>6, <1>7, <2>1 DEF Rings, next
<1>9. \A i \in 1 .. f.size : RingPlace(f, i) # f.tail + 1 /\ RingPlace(f, i) \in 1 .. n
  <2> SUFFICES ASSUME NEW i \in 1 .. f.size
               PROVE  RingPlace(f, i) # f.tail + 1 /\ RingPlace(f, i) \in 1 .. n
    OBVIOUS
  <2>1. i \in 1 .. n /\ f.size + 1 \in 1 .. n /\ i # f.size + 1 /\ n \in Nat \ {0}
    BY <1>2
  <2>2. Slot(f.head, n, i) # Slot(f.head, n, f.size + 1)
    <3> DEFINE j == f.size + 1
    <3> HIDE DEF j
    <3>1. j \in 1 .. n /\ i # j
      BY <2>1 DEF j
    <3>2. Slot(f.head, n, i) # Slot(f.head, n, j)
      BY <1>2, <2>1, <3>1, SlotsDiffer
    <3> QED BY <3>2 DEF j
  <2>3. RingPlace(f, i) # RingPlace(f, f.size + 1)
    BY <2>2 DEF RingPlace, n
  <2> QED BY <1>1, <2>1, <2>3
<1>10. /\ g.storage[RingPlace(g, f.size + 1)] = value
       /\ \A i \in 1 .. f.size : g.storage[RingPlace(g, i)] = f.storage[RingPlace(f, i)]
  <2>1. \A i \in 1 .. n : storage[i] = IF i = f.tail + 1 THEN value ELSE f.storage[i]
    BY <1>1 DEF storage, n
  <2>2. RingPlace(f, f.size + 1) = f.tail + 1
    BY <1>1
  <2> QED BY <1>3, <1>6, <1>7, <1>9, <2>1, <2>2
<1> DEFINE c == Contents(f)
           d == Contents(g)
<1>11. c \in Seq(S) /\ Len(c) = f.size /\ \A i \in 1 .. f.size : c[i] = f.storage[RingPlace(f, i)]
  BY RingFacts
<1>12. d \in Seq(S) /\ Len(d) = g.size /\ \A i \in 1 .. g.size : d[i] = g.storage[RingPlace(g, i)]
  BY <1>8, RingFacts
<1> HIDE DEF c, d
<1>13. d = Append(c, value)
  <2> DEFINE m == f.size
  <2>1. m \in Nat /\ g.size = m + 1
    BY <1>2, <1>6
  <2> HIDE DEF m
  <2>2. m + 1 \in 1 .. m + 1 /\ \A i \in 1 .. m : i \in 1 .. m + 1
    BY <2>1
  <2>3. (\A i \in 1 .. m : d[i] = c[i]) /\ d[m + 1] = value
    BY <1>10, <1>11, <1>12, <2>1, <2>2 DEF m
  <2>4. Len(c) = m /\ Len(d) = m + 1
    BY <1>11, <1>12, <2>1 DEF m
  <2> QED BY <1>11, <1>12, <2>3, <2>4, AppendAt
<1> QED BY <1>8, <1>13 DEF c, d, g

\* push(): the contents with one more at the end, whether the ring had to grow or not.
THEOREM RingPushes ==
  ASSUME NEW S, Nothing \in S, NEW f \in Rings(S), NEW value \in S
  PROVE  /\ Ring!Push(f, value) \in Rings(S)
         /\ Contents(Ring!Push(f, value)) = Append(Contents(f), value)
<1>1. CASE f.size # Len(f.storage)
  <2>1. Ring!Push(f, value) = Into(f, value)
    BY <1>1 DEF Ring!Push, Into
  <2>2. f.size < Len(f.storage)
    BY <1>1, RingFacts
  <2> QED BY <2>1, <2>2, RingHasRoom
<1>2. CASE f.size = Len(f.storage)
  <2>1. Ring!Push(f, value) = Into(Ring!Reserve(f), value)
    BY <1>2 DEF Ring!Push, Into
  <2>2. /\ Ring!Reserve(f) \in Rings(S) /\ Contents(Ring!Reserve(f)) = Contents(f)
        /\ Ring!Reserve(f).size < Len(Ring!Reserve(f).storage)
    BY <1>2, RingGrows
  <2> QED BY <2>1, <2>2, RingHasRoom
<1> QED BY <1>1, <1>2

\* pop(): the first of the contents, which the others are left of.
THEOREM RingPops ==
  ASSUME NEW S, NEW f \in Rings(S), f.size > 0
  PROVE  /\ Ring!Pop(f).value = Head(Contents(f))
         /\ Ring!Pop(f).fifo \in Rings(S) /\ Contents(Ring!Pop(f).fifo) = Tail(Contents(f))
<1> DEFINE n == Len(f.storage)
           next == Ring!Following(f, f.head)
           g == Ring!Pop(f).fifo
           c == Contents(f)
           d == Contents(g)
<1>1. /\ f \in RingRecords(S) /\ f.head \in Nat /\ f.tail \in Nat /\ f.size \in Nat \ {0}
      /\ f.storage \in Seq(S) /\ n \in Nat \ {0} /\ f.head < n /\ f.size =< n
      /\ f.tail + 1 = RingPlace(f, f.size + 1)
      /\ c \in Seq(S) /\ Len(c) = f.size
      /\ \A i \in 1 .. f.size : c[i] = f.storage[RingPlace(f, i)]
  BY RingFacts
<1>2. f.head \in Nat /\ f.size \in Nat \ {0} /\ n \in Nat \ {0} /\ f.head < n
  BY <1>1
<1>3. Ring!Pop(f).value = f.storage[RingPlace(f, 1)]
  <2>1. Slot(f.head, n, 1) = f.head + 1
    BY <1>2, Slots
  <2>2. RingPlace(f, 1) = f.head + 1
    BY <2>1 DEF RingPlace
  <2> QED BY <2>2 DEF Ring!Pop
<1>4. g = [f EXCEPT !.head = next, !.size = f.size - 1]
  BY DEF Ring!Pop
<1>5. next = IF f.head + 1 = n THEN 0 ELSE f.head + 1
  BY DEF Ring!Following
<1> HIDE DEF g, next, n
<1>6. next \in Nat /\ next < n
  BY <1>2, <1>5
<1>7. /\ g \in RingRecords(S) /\ g.head = next /\ g.tail = f.tail
      /\ g.size = f.size - 1 /\ g.storage = f.storage
  <2>1. f.size - 1 \in Nat
    BY <1>1
  <2> QED BY <1>1, <1>4, <1>6, <2>1 DEF RingRecords
<1>8. \A i \in 1 .. f.size : RingPlace(g, i) = RingPlace(f, i + 1)
  <2>1. \A i \in 1 .. n : Slot(next, n, i) = Slot(f.head, n, i + 1)
    BY <1>2, <1>5, SlotsOfNext
  <2>2. \A i : RingPlace(g, i) = Slot(next, n, i) /\ RingPlace(f, i) = Slot(f.head, n, i)
    BY <1>7 DEF RingPlace, n
  <2> QED BY <1>1, <2>1, <2>2
<1>9. g \in Rings(S)
  <2>1. g.size + 1 = f.size /\ f.size \in 1 .. f.size /\ g.size =< n /\ g.head < Len(g.storage)
    BY <1>1, <1>6, <1>7 DEF n
  <2>2. g.tail + 1 = RingPlace(g, g.size + 1)
    BY <1>1, <1>7, <1>8, <2>1
  <2> QED BY <1>7, <2>1, <2>2 DEF Rings, n
<1>10. d \in Seq(S) /\ Len(d) = f.size - 1
      /\ \A i \in 1 .. f.size - 1 : d[i] = f.storage[RingPlace(f, i + 1)]
  <2>1. /\ d \in Seq(S) /\ Len(d) = f.size - 1
        /\ \A i \in 1 .. f.size - 1 : d[i] = f.storage[RingPlace(g, i)]
    <3>1. d \in Seq(S) /\ Len(d) = g.size /\ \A i \in 1 .. g.size : d[i] = g.storage[RingPlace(g, i)]
      BY <1>9, RingFacts
    <3> HIDE DEF d
    <3> QED BY <1>7, <3>1
  <2>2. \A i \in 1 .. f.size - 1 : i \in 1 .. f.size
    BY <1>1
  <2> QED BY <1>8, <2>1, <2>2
<1> HIDE DEF c, d
<1>11. /\ Tail(c) \in Seq(S) /\ Len(Tail(c)) = f.size - 1 /\ Head(c) = c[1]
      /\ \A i \in 1 .. f.size - 1 : Tail(c)[i] = c[i + 1]
  BY <1>1
<1>12. \A i \in 1 .. f.size - 1 : d[i] = Tail(c)[i]
  BY <1>1, <1>10, <1>11
<1>13. d = Tail(c)
  BY <1>10, <1>11, <1>12, SeqEqual
<1>14. Ring!Pop(f).value = Head(c)
  <2>1. 1 \in 1 .. f.size
    BY <1>1
  <2> QED BY <1>1, <1>3, <1>11, <2>1
<1> QED BY <1>9, <1>13, <1>14 DEF c, d, g

\* clear(): a ring with nothing in it.
THEOREM RingIsCleared ==
  ASSUME NEW S, NEW f \in Rings(S)
  PROVE  Ring!Clear(f) \in Rings(S) /\ Contents(Ring!Clear(f)) = <<>>
<1> DEFINE n == Len(f.storage)
           h == (f.head + f.size) % n
           g == Ring!Clear(f)
<1>1. /\ f \in RingRecords(S) /\ f.head \in Nat /\ f.head < n /\ f.size \in Nat /\ f.size =< n
      /\ n \in Nat \ {0} /\ f.tail \in Nat /\ f.tail + 1 = RingPlace(f, f.size + 1)
  BY RingFacts
<1>2. h = f.tail
  <2> DEFINE first == f.head
             i == f.size + 1
  <2>1. first \in Nat /\ first < n /\ n \in Nat \ {0} /\ i \in 1 .. n + 1
        /\ f.head + f.size = first + i - 1
    <3>1. f.head \in Nat /\ f.head < n /\ f.size \in Nat /\ f.size =< n /\ n \in Nat \ {0}
      BY <1>1
    <3> HIDE DEF n
    <3> QED BY <3>1
  <2>2. f.tail + 1 = Slot(first, n, i)
    BY <1>1 DEF RingPlace
  <2> HIDE DEF first, i, n
  <2>3. ((first + i - 1) % n) + 1 = Slot(first, n, i)
    BY <2>1, SlotByModulus
  <2>4. h = (first + i - 1) % n
    BY <2>1
  <2> HIDE DEF h
  <2> DEFINE k == (first + i - 1) % n
  <2>5. k \in Nat
    BY <2>1
  <2> HIDE DEF k
  <2>6. k + 1 = f.tail + 1 /\ h = k
    BY <2>2, <2>3, <2>4 DEF k
  <2> QED BY <1>1, <2>5, <2>6
<1>3. g = [f EXCEPT !.head = h, !.size = 0]
  BY DEF Ring!Clear
<1> HIDE DEF g, n, h
<1>4. /\ g \in RingRecords(S) /\ g.head = f.tail /\ g.tail = f.tail /\ g.size = 0
      /\ g.storage = f.storage
  BY <1>1, <1>2, <1>3 DEF RingRecords
<1>5. f.tail < n
  <2>1. Slot(f.head, n, f.size + 1) =< n
    BY <1>1 DEF Slot
  <2> QED BY <1>1, <2>1 DEF RingPlace, n
<1>6. RingPlace(g, 1) = f.tail + 1
  <2>1. Slot(f.tail, n, 1) = f.tail + 1
    BY <1>1, <1>5, Slots
  <2> QED BY <1>4, <2>1 DEF RingPlace, n
<1>7. g \in Rings(S)
  BY <1>1, <1>4, <1>5, <1>6 DEF Rings, n
<1>8. Contents(g) = <<>>
  BY <1>4 DEF Contents
<1> QED BY <1>7, <1>8 DEF g
=============================================================================
