------------------------ MODULE CoBlockingQueue_proofs ------------------------
(***************************************************************************)
(* CoBlockingQueue loses no notification, and is a bounded queue that can  *)
(* be closed, for any clients and any length.  The arguments are countings *)
(* of those who have been granted something and have yet to notify the     *)
(* other side; they need that the two lists of awaiters are exactly those  *)
(* who wait, each once.                                                    *)
(***************************************************************************)
EXTENDS CoBlockingQueue, ListLemmas, FiniteSetTheorems

\* Whoever is suspended is on its list, once, and nobody else is.
AwaitersAreSuspended ==
  /\ IsInjective(pushAwaiters) /\ Range(pushAwaiters) = {p \in Pushers : pc[p] = "waiting"}
  /\ IsInjective(takeAwaiters) /\ Range(takeAwaiters) = {t \in Takers : pc[t] = "waiting"}

\* What a taker has in hand says where it is; Push() returns nothing.
HandsAreTrue ==
  /\ \A t \in Takers : \/ pc[t] = "timedOut" /\ t \in raced
                       \/ value[t] = Nothing <=> pc[t] \in {"idle", "waiting", "timedOut"}
  /\ \A p \in Pushers : pc[p] # "returned"

ClosingIsClosed == closing # {} => closed

\* A wait is unsettled only once a test has ended it, and its client has not run since.
UnsettledAreWoken == \A c \in unsettled : pc[c] \in {"granted", "refused"}

Inv == /\ TypeOK
       /\ AwaitersAreSuspended
       /\ HandsAreTrue
       /\ ClosingIsClosed
       /\ NoLostTakeNotify
       /\ NoLostPushNotify
       /\ OwnershipIsClear
       /\ UnsettledAreWoken
-----------------------------------------------------------------------------
(* What the tests say, and countings of the clients. *)

LEMMA TestsSay ==
  /\ PushTest = "throw" <=> closed
  /\ PushTest = "no" <=> ~closed /\ Len(queue) = MaxLength
  /\ PushTest = "yes" <=> ~closed /\ Len(queue) # MaxLength
  /\ TakeTest = "yes" <=> queue # <<>>
  /\ TakeTest = "throw" <=> queue = <<>> /\ closed
  /\ TakeTest = "no" <=> queue = <<>> /\ ~closed
  BY DEF PushTest, TakeTest

LEMMA Counted ==
  ASSUME NEW S \in SUBSET Clients
  PROVE  /\ IsFiniteSet(S) /\ Cardinality(S) \in Nat
         /\ \A c \in S : Cardinality(S \ {c}) = Cardinality(S) - 1
         /\ \A c \in Clients \ S : Cardinality(S \cup {c}) = Cardinality(S) + 1
  BY QueueAssumption, FS_Union, FS_Subset, FS_CardinalityType, FS_AddElement, FS_RemoveElement
     DEF Clients

LEMMA GrantedAreClients ==
  /\ PushersGranted \in SUBSET Clients /\ TakersGranted \in SUBSET Clients
  /\ PushersGranted' \in SUBSET Clients /\ TakersGranted' \in SUBSET Clients
  BY DEF PushersGranted, TakersGranted, Clients

LEMMA GrantedCounted ==
  /\ Cardinality(PushersGranted) \in Nat /\ Cardinality(PushersGranted') \in Nat
  /\ Cardinality(TakersGranted) \in Nat /\ Cardinality(TakersGranted') \in Nat
  BY Counted, GrantedAreClients

\* No client waits for an item more than before, and the items are not more than before by
\* more than the pushers that have yet to notify.
TakersKept ==
  /\ takeAwaiters' # <<>> => takeAwaiters # <<>> /\ ~closed'
  /\ raced' = raced
  /\ Len(queue') - Cardinality(PushersGranted') <= Len(queue) - Cardinality(PushersGranted)

\* The same of room and of the takers that have yet to notify.
PushersKept ==
  /\ pushAwaiters' # <<>> => pushAwaiters # <<>> /\ closed' = closed
  /\ closing' = closing /\ raced' = raced
  /\ Len(queue') + Cardinality(TakersGranted') >= Len(queue) + Cardinality(TakersGranted)

LEMMA KeptIsEnough ==
  ASSUME TypeOK, TypeOK'
  PROVE  /\ NoLostTakeNotify /\ TakersKept => NoLostTakeNotify'
         /\ NoLostPushNotify /\ PushersKept => NoLostPushNotify'
<1>2. Len(queue) \in Nat /\ Len(queue') \in Nat /\ MaxLength \in Nat
  BY QueueAssumption DEF TypeOK
<1>3. NoLostTakeNotify /\ TakersKept => NoLostTakeNotify'
  BY <1>2, GrantedCounted DEF NoLostTakeNotify, TakersKept
<1>4. NoLostPushNotify /\ PushersKept => NoLostPushNotify'
  BY <1>2, GrantedCounted DEF NoLostPushNotify, PushersKept
<1> QED BY <1>3, <1>4

-----------------------------------------------------------------------------
(* Push() and Take() preserve the invariant. *)

LEMMA PushStep == ASSUME Inv, NEW p \in Pushers, Push(p) PROVE Inv'
<1> USE DEF Inv, TypeOK
<1>1. /\ pc[p] = "idle" /\ p \notin Takers /\ p \in Clients /\ p \notin Range(pushAwaiters)
      /\ UNCHANGED <<closed, takeAwaiters, closing, destroyed, unsettled, raced>>
  BY QueueAssumption DEF Push, Clients, AwaitersAreSuspended
<1>2. CASE PushTest = "yes"
  <2>1. /\ ~closed /\ Len(queue) # MaxLength /\ queue' = Append(queue, p)
        /\ moved' = moved \cup {p} /\ pc' = [pc EXCEPT ![p] = "granted"]
        /\ UNCHANGED <<value, pushAwaiters>>
    BY <1>2, TestsSay DEF Push, PushItem, Ended
  <2>2. queue' \in Seq(Pushers) /\ Len(queue') = Len(queue) + 1 /\ Len(queue') <= MaxLength
    BY <2>1, QueueAssumption
  <2>3. TypeOK'
    BY <1>1, <2>1, <2>2 DEF Pc
  <2>4. PushersGranted' = PushersGranted \cup {p} /\ p \notin PushersGranted
        /\ TakersGranted' = TakersGranted
    BY <1>1, <2>1 DEF PushersGranted, TakersGranted
  <2>5. Cardinality(PushersGranted') = Cardinality(PushersGranted) + 1
    BY <1>1, <2>4, Counted, GrantedAreClients
  <2>6. TakersKept /\ PushersKept
    BY <1>1, <2>1, <2>2, <2>4, <2>5, GrantedCounted DEF TakersKept, PushersKept
  <2>7. AwaitersAreSuspended'
    BY <1>1, <2>1 DEF AwaitersAreSuspended
  <2>8. HandsAreTrue' /\ ClosingIsClosed' /\ OwnershipIsClear' /\ UnsettledAreWoken'
    BY <1>1, <2>1
       DEF HandsAreTrue, ClosingIsClosed, OwnershipIsClear, UnsettledAreWoken, Clients
  <2> QED BY <2>3, <2>6, <2>7, <2>8, KeptIsEnough
<1>3. CASE PushTest = "throw"
  <2>1. /\ closed /\ pc' = [pc EXCEPT ![p] = "refused"]
        /\ UNCHANGED <<queue, moved, value, pushAwaiters>>
    BY <1>1, <1>3, TestsSay DEF Push, NoItem, Ended
  <2>2. TypeOK'
    BY <1>1, <2>1 DEF Pc
  <2>3. PushersGranted' = PushersGranted /\ TakersGranted' = TakersGranted
    BY <1>1, <2>1 DEF PushersGranted, TakersGranted
  <2>4. TakersKept /\ PushersKept
    BY <1>1, <2>1, <2>3, GrantedCounted
       DEF TakersKept, PushersKept, NoLostTakeNotify
  <2>5. AwaitersAreSuspended'
    BY <1>1, <2>1 DEF AwaitersAreSuspended
  <2>6. HandsAreTrue' /\ ClosingIsClosed' /\ OwnershipIsClear' /\ UnsettledAreWoken'
    BY <1>1, <2>1
       DEF HandsAreTrue, ClosingIsClosed, OwnershipIsClear, UnsettledAreWoken, Clients
  <2> QED BY <2>2, <2>4, <2>5, <2>6, KeptIsEnough
<1>4. CASE PushTest = "no"
  <2>1. /\ ~closed /\ Len(queue) = MaxLength /\ pc' = [pc EXCEPT ![p] = "waiting"]
        /\ pushAwaiters' = Append(pushAwaiters, p) /\ UNCHANGED <<queue, moved, value>>
    BY <1>1, <1>4, TestsSay DEF Push
  <2>2. /\ pushAwaiters' \in Seq(Pushers) /\ IsInjective(pushAwaiters')
        /\ Range(pushAwaiters') = Range(pushAwaiters) \cup {p}
    BY <1>1, <2>1, ListWith DEF AwaitersAreSuspended
  <2>3. TypeOK'
    BY <1>1, <2>1, <2>2 DEF Pc
  <2>4. PushersGranted' = PushersGranted /\ TakersGranted' = TakersGranted
    BY <1>1, <2>1 DEF PushersGranted, TakersGranted
  <2>5. TakersKept
    BY <1>1, <2>1, <2>4, GrantedCounted DEF TakersKept, NoLostTakeNotify
  <2>6. NoLostPushNotify'
    BY <1>1, <2>1, <2>4, GrantedCounted, QueueAssumption DEF NoLostPushNotify
  <2>7. AwaitersAreSuspended'
    <3>1. Range(pushAwaiters') = {q \in Pushers : pc'[q] = "waiting"}
      <4>1. {q \in Pushers : pc'[q] = "waiting"} = {q \in Pushers : pc[q] = "waiting"} \cup {p}
        BY <1>1, <2>1
      <4> QED BY <2>2, <4>1 DEF AwaitersAreSuspended
    <3>2. {t \in Takers : pc'[t] = "waiting"} = {t \in Takers : pc[t] = "waiting"}
      BY <1>1, <2>1
    <3> QED BY <1>1, <2>2, <3>1, <3>2 DEF AwaitersAreSuspended
  <2>8. HandsAreTrue' /\ ClosingIsClosed' /\ OwnershipIsClear' /\ UnsettledAreWoken'
    BY <1>1, <2>1
       DEF HandsAreTrue, ClosingIsClosed, OwnershipIsClear, UnsettledAreWoken, Clients
  <2> QED BY <2>3, <2>5, <2>6, <2>7, <2>8, KeptIsEnough
<1> QED BY <1>2, <1>3, <1>4, TestsSay

LEMMA TakeStep == ASSUME Inv, NEW t \in Takers, Take(t) PROVE Inv'
<1> USE DEF Inv, TypeOK
<1>1. /\ pc[t] = "idle" /\ t \notin Pushers /\ t \in Clients /\ t \notin Range(takeAwaiters)
      /\ UNCHANGED <<closed, pushAwaiters, closing, destroyed, unsettled, raced>>
  BY QueueAssumption DEF Take, Clients, AwaitersAreSuspended
<1>2. CASE TakeTest = "yes"
  <2>1. /\ queue # <<>> /\ queue' = Tail(queue) /\ moved' = moved \cup {t}
        /\ value' = [value EXCEPT ![t] = Head(queue)] /\ UNCHANGED takeAwaiters
        /\ pc' = [pc EXCEPT ![t] = "granted"]
    BY <1>2, TestsSay DEF Take, TakeItem, Ended
  <2>2. /\ queue' \in Seq(Pushers) /\ Len(queue') = Len(queue) - 1 /\ Len(queue') <= MaxLength
        /\ Head(queue) \in Pushers /\ Head(queue) # Nothing
    BY <2>1, QueueAssumption
  <2>3. TypeOK'
    BY <1>1, <2>1, <2>2 DEF Pc
  <2>4. TakersGranted' = TakersGranted \cup {t} /\ t \notin TakersGranted
        /\ PushersGranted' = PushersGranted
    BY <1>1, <2>1 DEF PushersGranted, TakersGranted
  <2>5. Cardinality(TakersGranted') = Cardinality(TakersGranted) + 1
    BY <1>1, <2>4, Counted, GrantedAreClients
  <2>6. TakersKept /\ PushersKept
    BY <1>1, <2>1, <2>2, <2>4, <2>5, GrantedCounted
       DEF TakersKept, PushersKept, NoLostTakeNotify
  <2>7. AwaitersAreSuspended'
    BY <1>1, <2>1 DEF AwaitersAreSuspended
  <2>8. HandsAreTrue' /\ ClosingIsClosed' /\ OwnershipIsClear' /\ UnsettledAreWoken'
    BY <1>1, <2>1, <2>2
       DEF HandsAreTrue, ClosingIsClosed, OwnershipIsClear, UnsettledAreWoken, Clients
  <2> QED BY <2>3, <2>6, <2>7, <2>8, KeptIsEnough
<1>3. CASE TakeTest = "throw"
  <2>1. /\ closed /\ pc' = [pc EXCEPT ![t] = "refused"] /\ Closed # Nothing
        /\ value' = [value EXCEPT ![t] = Closed] /\ UNCHANGED <<queue, moved, takeAwaiters>>
    BY <1>1, <1>3, TestsSay, QueueAssumption DEF Take, NoItem, Ended
  <2>2. TypeOK'
    BY <1>1, <2>1 DEF Pc
  <2>3. PushersGranted' = PushersGranted /\ TakersGranted' = TakersGranted
    BY <1>1, <2>1 DEF PushersGranted, TakersGranted
  <2>4. TakersKept /\ PushersKept
    BY <1>1, <2>1, <2>3, GrantedCounted
       DEF TakersKept, PushersKept, NoLostTakeNotify
  <2>5. AwaitersAreSuspended'
    BY <1>1, <2>1 DEF AwaitersAreSuspended
  <2>6. HandsAreTrue' /\ ClosingIsClosed' /\ OwnershipIsClear' /\ UnsettledAreWoken'
    BY <1>1, <2>1
       DEF HandsAreTrue, ClosingIsClosed, OwnershipIsClear, UnsettledAreWoken, Clients
  <2> QED BY <2>2, <2>4, <2>5, <2>6, KeptIsEnough
<1>4. CASE TakeTest = "no"
  <2>1. /\ ~closed /\ queue = <<>> /\ pc' = [pc EXCEPT ![t] = "waiting"]
        /\ takeAwaiters' = Append(takeAwaiters, t) /\ UNCHANGED <<queue, moved, value>>
    BY <1>1, <1>4, TestsSay DEF Take
  <2>2. /\ takeAwaiters' \in Seq(Takers) /\ IsInjective(takeAwaiters')
        /\ Range(takeAwaiters') = Range(takeAwaiters) \cup {t}
    BY <1>1, <2>1, ListWith DEF AwaitersAreSuspended
  <2>3. TypeOK'
    BY <1>1, <2>1, <2>2 DEF Pc
  <2>4. PushersGranted' = PushersGranted /\ TakersGranted' = TakersGranted
    BY <1>1, <2>1 DEF PushersGranted, TakersGranted
  <2>5. PushersKept
    BY <1>1, <2>1, <2>4, GrantedCounted DEF PushersKept
  <2>6. NoLostTakeNotify'
    BY <1>1, <2>1, <2>4, GrantedCounted DEF NoLostTakeNotify
  <2>7. AwaitersAreSuspended'
    <3>1. Range(takeAwaiters') = {u \in Takers : pc'[u] = "waiting"}
      <4>1. {u \in Takers : pc'[u] = "waiting"} = {u \in Takers : pc[u] = "waiting"} \cup {t}
        BY <1>1, <2>1
      <4> QED BY <2>2, <4>1 DEF AwaitersAreSuspended
    <3>2. {q \in Pushers : pc'[q] = "waiting"} = {q \in Pushers : pc[q] = "waiting"}
      BY <1>1, <2>1
    <3> QED BY <1>1, <2>2, <3>1, <3>2 DEF AwaitersAreSuspended
  <2>8. HandsAreTrue' /\ ClosingIsClosed' /\ OwnershipIsClear' /\ UnsettledAreWoken'
    BY <1>1, <2>1
       DEF HandsAreTrue, ClosingIsClosed, OwnershipIsClear, UnsettledAreWoken, Clients
  <2> QED BY <2>3, <2>5, <2>6, <2>7, <2>8, KeptIsEnough
<1> QED BY <1>2, <1>3, <1>4, TestsSay

-----------------------------------------------------------------------------
(* The notifications do. *)

LEMMA PushNotifyStep == ASSUME Inv, NEW p \in Pushers, PushNotify(p) PROVE Inv'
<1> USE DEF Inv, TypeOK
<1>1. /\ pc[p] = "granted" /\ p \notin unsettled /\ p \notin Takers /\ p \in Clients
      /\ UNCHANGED <<closed, pushAwaiters, closing, destroyed, raced>>
  BY QueueAssumption DEF PushNotify, IsResumed, Clients
<1>2. CASE ~WakesTaker
  <2>1. /\ pc' = [pc EXCEPT ![p] = "idle"] /\ moved' = moved \ {p}
        /\ UNCHANGED <<takeAwaiters, queue, value, unsettled>>
    BY <1>2 DEF PushNotify
  <2>2. TypeOK'
    BY <1>1, <2>1 DEF Pc
  <2>3. takeAwaiters # <<>> => queue = <<>> /\ ~closed
    BY <1>2, TestsSay DEF WakesTaker
  <2>4. NoLostTakeNotify'
    BY <1>1, <2>1, <2>3, GrantedCounted DEF NoLostTakeNotify
  <2>5. TakersGranted' = TakersGranted
    BY <1>1, <2>1 DEF TakersGranted
  <2>6. PushersKept
    BY <1>1, <2>1, <2>5, GrantedCounted DEF PushersKept
  <2>7. AwaitersAreSuspended'
    BY <1>1, <2>1 DEF AwaitersAreSuspended
  <2>8. HandsAreTrue' /\ ClosingIsClosed' /\ OwnershipIsClear' /\ UnsettledAreWoken'
    BY <1>1, <2>1
       DEF HandsAreTrue, ClosingIsClosed, OwnershipIsClear, UnsettledAreWoken, Clients
  <2> QED BY <2>2, <2>4, <2>6, <2>7, <2>8, KeptIsEnough
<1>3. CASE WakesTaker
  <2> DEFINE t == Head(takeAwaiters)
  <2>1. takeAwaiters # <<>> /\ ~closed /\ TakeTest = "yes" /\ queue # <<>>
    BY <1>3, TestsSay DEF WakesTaker, NoLostTakeNotify
  <2>2. /\ takeAwaiters' \in Seq(Takers) /\ IsInjective(takeAwaiters')
        /\ takeAwaiters' = Tail(takeAwaiters) /\ t \in Takers /\ t \in Range(takeAwaiters)
        /\ Range(takeAwaiters') = Range(takeAwaiters) \ {t}
    <3>1. takeAwaiters' = Tail(takeAwaiters)
      BY <1>3 DEF PushNotify
    <3>2. takeAwaiters \in Seq(Takers) /\ IsInjective(takeAwaiters)
      BY DEF AwaitersAreSuspended
    <3> QED BY <2>1, <3>1, <3>2, ListTail
  <2>3. t \in Clients /\ t \notin Pushers /\ pc[t] = "waiting" /\ t # p
    BY <1>1, <2>2, QueueAssumption DEF AwaitersAreSuspended, Clients
  <2>4. /\ pc' = [pc EXCEPT ![p] = "idle", ![t] = "granted"] /\ queue' = Tail(queue)
        /\ moved' = (moved \cup {t}) \ {p} /\ value' = [value EXCEPT ![t] = Head(queue)]
    BY <1>3, <2>1 DEF PushNotify, Ended
  <2>u. unsettled' \subseteq unsettled \cup {t} /\ unsettled' \subseteq TimedClients
    BY <1>3 DEF PushNotify, Unsettle
  <2> HIDE DEF t
  <2>5. /\ queue' \in Seq(Pushers) /\ Len(queue') = Len(queue) - 1 /\ Len(queue') <= MaxLength
        /\ Head(queue) \in Pushers /\ Head(queue) # Nothing
    BY <2>1, <2>4, QueueAssumption
  <2>6. TypeOK'
    BY <1>1, <2>2, <2>3, <2>4, <2>u, <2>5 DEF Pc
  <2>pc. \A c \in Clients : pc'[c] = IF c = t THEN "granted" ELSE IF c = p THEN "idle" ELSE pc[c]
    BY <2>3, <2>4
  <2>7. /\ PushersGranted' = PushersGranted \ {p} /\ p \in PushersGranted
        /\ TakersGranted' = TakersGranted \cup {t} /\ t \notin TakersGranted
    BY <1>1, <2>2, <2>3, <2>pc DEF PushersGranted, TakersGranted, Clients
  <2>8. /\ Cardinality(PushersGranted') = Cardinality(PushersGranted) - 1
        /\ Cardinality(TakersGranted') = Cardinality(TakersGranted) + 1
    BY <2>3, <2>7, Counted, GrantedAreClients
  <2>9. TakersKept /\ PushersKept
    BY <1>1, <2>1, <2>5, <2>8, GrantedCounted DEF TakersKept, PushersKept
  <2>10. AwaitersAreSuspended'
    <3>1. {u \in Takers : pc'[u] = "waiting"} = {u \in Takers : pc[u] = "waiting"} \ {t}
      BY <1>1, <2>3, <2>pc DEF Clients
    <3>2. {q \in Pushers : pc'[q] = "waiting"} = {q \in Pushers : pc[q] = "waiting"}
      BY <1>1, <2>3, <2>pc DEF Clients
    <3> QED BY <1>1, <2>2, <3>1, <3>2 DEF AwaitersAreSuspended
  <2>11. HandsAreTrue' /\ ClosingIsClosed' /\ OwnershipIsClear'
    BY <1>1, <2>2, <2>3, <2>4, <2>5 DEF HandsAreTrue, ClosingIsClosed, OwnershipIsClear, Clients
  <2>12. UnsettledAreWoken'
    <3>1. unsettled \subseteq Clients /\ unsettled' \subseteq Clients
      BY <2>u, QueueAssumption
    <3> QED BY <1>1, <2>u, <2>pc, <3>1 DEF UnsettledAreWoken
  <2> QED BY <2>6, <2>9, <2>10, <2>11, <2>12, KeptIsEnough
<1> QED BY <1>2, <1>3

LEMMA TakeNotifyStep == ASSUME Inv, NEW t \in Takers, TakeNotify(t) PROVE Inv'
<1> USE DEF Inv, TypeOK
<1>1. /\ pc[t] = "granted" /\ t \notin unsettled /\ t \notin Pushers /\ t \in Clients
      /\ UNCHANGED <<value, closed, takeAwaiters, closing, destroyed, raced>>
  BY QueueAssumption DEF TakeNotify, IsResumed, Clients
<1>2. CASE ~WakesPusher
  <2>1. pc' = [pc EXCEPT ![t] = "returned"] /\ UNCHANGED <<pushAwaiters, queue, moved, unsettled>>
    BY <1>2 DEF TakeNotify
  <2>2. TypeOK'
    BY <1>1, <2>1 DEF Pc
  <2>3. pushAwaiters # <<>> => ~closed /\ Len(queue) = MaxLength
    BY <1>2, TestsSay DEF WakesPusher
  <2>4. NoLostPushNotify'
    BY <1>1, <2>1, <2>3, GrantedCounted, QueueAssumption DEF NoLostPushNotify
  <2>5. PushersGranted' = PushersGranted
    BY <1>1, <2>1 DEF PushersGranted
  <2>6. TakersKept
    BY <1>1, <2>1, <2>5, GrantedCounted DEF TakersKept, NoLostTakeNotify
  <2>7. AwaitersAreSuspended'
    BY <1>1, <2>1 DEF AwaitersAreSuspended
  <2>8. HandsAreTrue' /\ ClosingIsClosed' /\ OwnershipIsClear' /\ UnsettledAreWoken'
    BY <1>1, <2>1
       DEF HandsAreTrue, ClosingIsClosed, OwnershipIsClear, UnsettledAreWoken, Clients
  <2> QED BY <2>2, <2>4, <2>6, <2>7, <2>8, KeptIsEnough
<1>3. CASE WakesPusher
  <2> DEFINE p == Head(pushAwaiters)
  <2>1. pushAwaiters # <<>> /\ PushTest # "no"
    BY <1>3 DEF WakesPusher
  <2>2. /\ pushAwaiters' \in Seq(Pushers) /\ IsInjective(pushAwaiters')
        /\ pushAwaiters' = Tail(pushAwaiters) /\ p \in Pushers /\ p \in Range(pushAwaiters)
        /\ Range(pushAwaiters') = Range(pushAwaiters) \ {p}
    <3>1. pushAwaiters' = Tail(pushAwaiters)
      BY <1>3 DEF TakeNotify
    <3>2. pushAwaiters \in Seq(Pushers) /\ IsInjective(pushAwaiters)
      BY DEF AwaitersAreSuspended
    <3> QED BY <2>1, <3>1, <3>2, ListTail
  <2>3. p \in Clients /\ p \notin Takers /\ pc[p] = "waiting" /\ t # p
    BY <1>1, <2>2, QueueAssumption DEF AwaitersAreSuspended, Clients
  <2>4. /\ pc' = [pc EXCEPT ![t] = "returned", ![p] = Ended(PushTest)]
        /\ queue' = IF PushTest = "yes" THEN Append(queue, p) ELSE queue
        /\ moved' = moved \cup (IF PushTest = "yes" THEN {p} ELSE {})
    BY <1>3 DEF TakeNotify
  <2>u. unsettled' \subseteq unsettled \cup {p} /\ unsettled' \subseteq TimedClients
    BY <1>3 DEF TakeNotify, Unsettle
  <2> HIDE DEF p
  <2>pc. \A c \in Clients : pc'[c] = IF c = p THEN Ended(PushTest)
                                     ELSE IF c = t THEN "returned" ELSE pc[c]
    BY <2>3, <2>4
  <2>ended. Ended(PushTest) \in {"granted", "refused"}
    BY DEF Ended
  <2>5. AwaitersAreSuspended'
    <3>1. {q \in Pushers : pc'[q] = "waiting"} = {q \in Pushers : pc[q] = "waiting"} \ {p}
      BY <1>1, <2>3, <2>pc, <2>ended DEF Clients
    <3>2. {u \in Takers : pc'[u] = "waiting"} = {u \in Takers : pc[u] = "waiting"}
      BY <1>1, <2>3, <2>pc DEF Clients
    <3> QED BY <1>1, <2>2, <3>1, <3>2 DEF AwaitersAreSuspended
  <2>6. TakersGranted' = TakersGranted \ {t} /\ t \in TakersGranted
    BY <1>1, <2>3, <2>pc DEF TakersGranted, Clients
  <2>7. Cardinality(TakersGranted') = Cardinality(TakersGranted) - 1
    BY <2>6, Counted, GrantedAreClients
  <2>8. HandsAreTrue' /\ ClosingIsClosed' /\ UnsettledAreWoken'
    <3>1. HandsAreTrue' /\ ClosingIsClosed'
      BY <1>1, <2>2, <2>3, <2>4 DEF HandsAreTrue, ClosingIsClosed, Clients, Ended
    <3>2. unsettled \subseteq Clients /\ unsettled' \subseteq Clients
      BY <2>u, QueueAssumption
    <3>3. UnsettledAreWoken'
      BY <1>1, <2>u, <2>pc, <2>ended, <3>2 DEF UnsettledAreWoken
    <3> QED BY <3>1, <3>3
  <2>9. CASE PushTest = "yes"
    <3>1. /\ ~closed /\ Len(queue) # MaxLength /\ queue' = Append(queue, p)
          /\ moved' = moved \cup {p} /\ pc' = [pc EXCEPT ![t] = "returned", ![p] = "granted"]
      BY <2>4, <2>9, TestsSay DEF Ended
    <3>2. queue' \in Seq(Pushers) /\ Len(queue') = Len(queue) + 1 /\ Len(queue') <= MaxLength
      BY <2>2, <3>1, QueueAssumption
    <3>3. TypeOK'
      BY <1>1, <2>2, <2>3, <2>u, <3>1, <3>2 DEF Pc
    <3>4. PushersGranted' = PushersGranted \cup {p} /\ p \notin PushersGranted
      BY <1>1, <2>2, <2>3, <2>9, <2>pc DEF PushersGranted, Clients, Ended
    <3>5. Cardinality(PushersGranted') = Cardinality(PushersGranted) + 1
      BY <2>3, <3>4, Counted, GrantedAreClients
    <3>6. TakersKept /\ PushersKept
      BY <1>1, <2>1, <2>7, <3>1, <3>2, <3>5, GrantedCounted DEF TakersKept, PushersKept
    <3>7. OwnershipIsClear'
      BY <1>1, <2>3, <3>1 DEF OwnershipIsClear, Clients
    <3> QED BY <2>5, <2>8, <3>3, <3>6, <3>7, KeptIsEnough
  <2>10. CASE PushTest # "yes"
    <3>1. /\ closed /\ queue' = queue /\ moved' = moved
          /\ pc' = [pc EXCEPT ![t] = "returned", ![p] = "refused"]
      BY <2>1, <2>4, <2>10, TestsSay DEF Ended
    <3>2. TypeOK'
      BY <1>1, <2>2, <2>3, <2>u, <3>1 DEF Pc
    <3>3. NoLostPushNotify'
      BY <1>1, <2>1, <3>1 DEF NoLostPushNotify
    <3>4. NoLostTakeNotify'
      BY <1>1, <3>1 DEF NoLostTakeNotify
    <3>5. OwnershipIsClear'
      BY <1>1, <2>3, <3>1 DEF OwnershipIsClear, Clients
    <3> QED BY <2>5, <2>8, <3>2, <3>3, <3>4, <3>5
  <2> QED BY <2>9, <2>10
<1> QED BY <1>2, <1>3
-----------------------------------------------------------------------------
(* Whoever goes its way, with what it has or without. *)

LEMMA ReturnStep == ASSUME Inv, NEW c \in Clients, Return(c) PROVE Inv'
<1> USE DEF Inv, TypeOK
<1>1. /\ pc[c] \in {"returned", "refused", "timedOut"} /\ pc' = [pc EXCEPT ![c] = "idle"]
      /\ moved' = moved \ {c} /\ c \notin unsettled
      /\ value' = IF c \in Takers THEN [value EXCEPT ![c] = Nothing] ELSE value
      /\ UNCHANGED <<queue, closed, pushAwaiters, takeAwaiters, closing, destroyed, unsettled,
                     raced>>
  BY DEF Return, IsResumed
<1>2. TypeOK'
  BY <1>1 DEF Pc
<1>3. PushersGranted' = PushersGranted /\ TakersGranted' = TakersGranted
  BY <1>1 DEF PushersGranted, TakersGranted, Clients
<1>4. NoLostTakeNotify' /\ NoLostPushNotify'
  BY <1>1, <1>3 DEF NoLostTakeNotify, NoLostPushNotify
<1>5. AwaitersAreSuspended'
  BY <1>1 DEF AwaitersAreSuspended, Clients
<1>6. HandsAreTrue' /\ ClosingIsClosed' /\ OwnershipIsClear' /\ UnsettledAreWoken'
  BY <1>1 DEF HandsAreTrue, ClosingIsClosed, OwnershipIsClear, UnsettledAreWoken, Clients
<1> QED BY <1>2, <1>4, <1>5, <1>6

\* A client can only be removed from the list on which it is.
LEMMA CancelledAwaiter ==
  ASSUME NEW S, NEW s \in Seq(S), IsInjective(s), NEW e
  PROVE  /\ RemoveAwaiter(s, e) \in Seq(S) /\ IsInjective(RemoveAwaiter(s, e))
         /\ Range(RemoveAwaiter(s, e)) = Range(s) \ {e}
         /\ s = <<>> => RemoveAwaiter(s, e) = <<>>
<1>1. CASE e \in Range(s)
  <2>1. s # <<>>
    BY <1>1 DEF Range
  <2> QED BY <1>1, <2>1, ListWithout DEF RemoveAwaiter
<1>2. CASE e \notin Range(s)
  <2>1. ~ \E j \in 1 .. Len(s) : s[j] = e
    BY <1>2 DEF Range
  <2>2. RemoveFirst(s, e) = s
    BY <2>1 DEF RemoveFirst
  <2> QED BY <1>2, <2>2 DEF RemoveAwaiter
<1> QED BY <1>1, <1>2

LEMMA TimeoutStep == ASSUME Inv, NEW c \in Clients, Timeout(c) PROVE Inv'
<1> USE DEF Inv, TypeOK
<1>1. /\ pc[c] = "waiting" /\ pc' = [pc EXCEPT ![c] = "timedOut"]
      /\ pushAwaiters' = RemoveAwaiter(pushAwaiters, c)
      /\ takeAwaiters' = RemoveAwaiter(takeAwaiters, c)
      /\ UNCHANGED <<queue, closed, value, moved, closing, destroyed, unsettled, raced>>
  BY DEF Timeout
<1>2. /\ pushAwaiters' \in Seq(Pushers) /\ IsInjective(pushAwaiters')
      /\ Range(pushAwaiters') = Range(pushAwaiters) \ {c}
      /\ pushAwaiters' # <<>> => pushAwaiters # <<>>
  BY <1>1, CancelledAwaiter DEF AwaitersAreSuspended
<1>3. /\ takeAwaiters' \in Seq(Takers) /\ IsInjective(takeAwaiters')
      /\ Range(takeAwaiters') = Range(takeAwaiters) \ {c}
      /\ takeAwaiters' # <<>> => takeAwaiters # <<>>
  BY <1>1, CancelledAwaiter DEF AwaitersAreSuspended
<1>4. TypeOK'
  BY <1>1, <1>2, <1>3 DEF Pc
<1>5. PushersGranted' = PushersGranted /\ TakersGranted' = TakersGranted
  BY <1>1 DEF PushersGranted, TakersGranted, Clients
<1>6. NoLostTakeNotify' /\ NoLostPushNotify'
  BY <1>1, <1>2, <1>3, <1>5 DEF NoLostTakeNotify, NoLostPushNotify
<1>7. AwaitersAreSuspended'
  <2>1. /\ {q \in Pushers : pc'[q] = "waiting"} = {q \in Pushers : pc[q] = "waiting"} \ {c}
        /\ {u \in Takers : pc'[u] = "waiting"} = {u \in Takers : pc[u] = "waiting"} \ {c}
    BY <1>1 DEF Clients
  <2> QED BY <1>2, <1>3, <2>1 DEF AwaitersAreSuspended
<1>8. HandsAreTrue' /\ ClosingIsClosed' /\ OwnershipIsClear' /\ UnsettledAreWoken'
  BY <1>1 DEF HandsAreTrue, ClosingIsClosed, OwnershipIsClear, UnsettledAreWoken, Clients
<1> QED BY <1>4, <1>6, <1>7, <1>8

\* From here on nothing is claimed of the notifications, whose countings miss c's.
LEMMA TimeoutTooLateStep == ASSUME Inv, NEW c \in Clients, TimeoutTooLate(c) PROVE Inv'
<1> USE DEF Inv, TypeOK
<1>1. /\ c \in unsettled /\ pc[c] \in {"granted", "refused"} /\ pc' = [pc EXCEPT ![c] = "timedOut"]
      /\ unsettled' = unsettled \ {c} /\ raced' = raced \cup {c}
      /\ UNCHANGED <<queue, closed, pushAwaiters, takeAwaiters, value, moved, closing, destroyed>>
  BY DEF TimeoutTooLate, UnsettledAreWoken
<1>2. TypeOK'
  BY <1>1 DEF Pc
<1>3. raced' # {}
  BY <1>1
<1>4. NoLostTakeNotify' /\ NoLostPushNotify'
  BY <1>1, <1>3 DEF NoLostTakeNotify, NoLostPushNotify
<1>5. AwaitersAreSuspended'
  <2>1. /\ {q \in Pushers : pc'[q] = "waiting"} = {q \in Pushers : pc[q] = "waiting"}
        /\ {u \in Takers : pc'[u] = "waiting"} = {u \in Takers : pc[u] = "waiting"}
    BY <1>1 DEF Clients
  <2> QED BY <1>1, <2>1 DEF AwaitersAreSuspended
<1>6. HandsAreTrue' /\ ClosingIsClosed' /\ OwnershipIsClear' /\ UnsettledAreWoken'
  BY <1>1 DEF HandsAreTrue, ClosingIsClosed, OwnershipIsClear, UnsettledAreWoken, Clients
<1> QED BY <1>2, <1>4, <1>5, <1>6

LEMMA SettleStep == ASSUME Inv, NEW c \in Clients, Settle(c) PROVE Inv'
<1> USE DEF Inv, TypeOK
<1>1. /\ unsettled' = unsettled \ {c}
      /\ UNCHANGED <<queue, closed, pushAwaiters, takeAwaiters, pc, value, moved, closing,
                     destroyed, raced>>
  BY DEF Settle
<1>2. PushersGranted' = PushersGranted /\ TakersGranted' = TakersGranted
  BY <1>1 DEF PushersGranted, TakersGranted
<1> QED
  BY <1>1, <1>2
     DEF NoLostTakeNotify, NoLostPushNotify, AwaitersAreSuspended, HandsAreTrue,
         ClosingIsClosed, OwnershipIsClear, UnsettledAreWoken

-----------------------------------------------------------------------------
(* Close() and the destructor. *)

LEMMA ClosePushStep == ASSUME Inv, NEW k \in Closers, ClosePush(k) PROVE Inv'
<1> USE DEF Inv, TypeOK
<1>1. /\ k \in closing /\ closed /\ closed' = TRUE /\ closing' = closing \ {k}
      /\ pushAwaiters' = <<>>
      /\ UNCHANGED <<queue, takeAwaiters, value, moved, destroyed, raced>>
      /\ unsettled' \subseteq unsettled \cup {p \in Pushers : pc[p] = "waiting"}
      /\ unsettled' \subseteq TimedClients
  BY DEF ClosePush, ClosingIsClosed, Unsettle
<1>2. pc' = [c \in Clients |-> IF c \in Range(pushAwaiters) THEN "refused" ELSE pc[c]]
  BY DEF ClosePush, Ended, Range
<1>3. \A c \in Clients : pc'[c] = IF c \in Pushers /\ pc[c] = "waiting" THEN "refused" ELSE pc[c]
  BY <1>2 DEF AwaitersAreSuspended
<1>4. TypeOK'
  BY <1>1, <1>2, <1>3 DEF Pc
<1>5. takeAwaiters' = <<>>
  BY <1>1 DEF NoLostTakeNotify
<1>6. AwaitersAreSuspended'
  <2>1. /\ {q \in Pushers : pc'[q] = "waiting"} = {}
        /\ {u \in Takers : pc'[u] = "waiting"} = {u \in Takers : pc[u] = "waiting"}
    BY <1>3, QueueAssumption DEF Clients
  <2> QED BY <1>1, <2>1, EmptyList DEF AwaitersAreSuspended
<1>7. HandsAreTrue' /\ ClosingIsClosed' /\ OwnershipIsClear' /\ UnsettledAreWoken'
  BY <1>1, <1>3, QueueAssumption
     DEF HandsAreTrue, ClosingIsClosed, OwnershipIsClear, UnsettledAreWoken, Clients
<1> QED BY <1>1, <1>4, <1>5, <1>6, <1>7 DEF NoLostTakeNotify, NoLostPushNotify

LEMMA DestroyStep == ASSUME Inv, Destroy PROVE Inv'
<1> USE DEF Inv, TypeOK
<1>1. /\ closed' = TRUE /\ destroyed' = TRUE /\ closing = {} /\ UNCHANGED <<moved, closing, raced>>
      /\ unsettled' \subseteq unsettled \cup {c \in Clients : pc[c] = "waiting"}
      /\ unsettled' \subseteq TimedClients
      /\ queue' = <<>> /\ pushAwaiters' = <<>> /\ takeAwaiters' = <<>>
      /\ \A c \in Clients : pc[c] \in {"idle", "waiting"}
      /\ pc' = [c \in Clients |-> IF pc[c] = "waiting" THEN "refused" ELSE pc[c]]
      /\ value' = [t \in Takers |-> IF pc[t] = "waiting" THEN Closed ELSE value[t]]
  BY DEF Destroy, Unsettle
<1>2. TypeOK'
  BY <1>1, QueueAssumption DEF Pc
<1>3. AwaitersAreSuspended'
  <2>1. /\ {q \in Pushers : pc'[q] = "waiting"} = {}
        /\ {u \in Takers : pc'[u] = "waiting"} = {}
    BY <1>1 DEF Clients
  <2> QED BY <1>1, <2>1, EmptyList DEF AwaitersAreSuspended
<1>4. HandsAreTrue'
  BY <1>1, QueueAssumption DEF HandsAreTrue, Clients
<1>5. OwnershipIsClear'
  BY <1>1 DEF OwnershipIsClear
<1>6. UnsettledAreWoken'
  <2>1. unsettled \subseteq Clients
    BY QueueAssumption
  <2>2. unsettled' \subseteq {c \in Clients : pc[c] = "waiting"}
    BY <1>1, <2>1 DEF UnsettledAreWoken
  <2> QED BY <1>1, <2>2 DEF UnsettledAreWoken
<1> QED
  BY <1>1, <1>2, <1>3, <1>4, <1>5, <1>6 DEF ClosingIsClosed, NoLostTakeNotify, NoLostPushNotify
\* The first half of Close(): the takers that come before this place on the list get an
\* item each, the others the exception.
Served == IF Len(queue) < Len(takeAwaiters) THEN Len(queue) ELSE Len(takeAwaiters)
Gets(t) == \E i \in 1 .. Served : takeAwaiters[i] = t

CloseTakeDoes(k) ==
  /\ closed' = TRUE /\ closing' = closing \cup {k} /\ takeAwaiters' = <<>>
  /\ queue' = SubSeq(queue, Served + 1, Len(queue))
  /\ moved' = moved \cup {takeAwaiters[i] : i \in 1 .. Served}
  /\ UNCHANGED <<pushAwaiters, destroyed, raced>>
  /\ unsettled' \subseteq unsettled \cup {t \in Takers : pc[t] = "waiting"}
  /\ unsettled' \subseteq TimedClients
  /\ \A i \in 1 .. Served : /\ takeAwaiters[i] \in Takers
                            /\ value'[takeAwaiters[i]] = queue[i]
  /\ \A t \in Takers : pc[t] = "waiting" /\ ~Gets(t) => value'[t] = Closed
  /\ \A t \in Takers : pc[t] # "waiting" => value'[t] = value[t]
  /\ value' \in [Takers -> Pushers \cup {Nothing, Closed}]
  /\ \A c \in Clients : pc'[c] = IF c \in Takers /\ pc[c] = "waiting"
                                 THEN IF Gets(c) THEN "granted" ELSE "refused"
                                 ELSE pc[c]
  /\ pc' \in [Clients -> Pc]
  /\ \A t \in Takers : Gets(t) => pc[t] = "waiting"
  /\ Served \in Nat /\ Served <= Len(queue) /\ Served <= Len(takeAwaiters)

LEMMA CloseTakeEffect == ASSUME Inv, NEW k \in Closers, CloseTake(k) PROVE CloseTakeDoes(k)
<1> USE DEF Inv, TypeOK
<1> DEFINE place(t) == CHOOSE i \in DOMAIN takeAwaiters : takeAwaiters[i] = t
           waits(t) == t \in Takers /\ \E i \in DOMAIN takeAwaiters : takeAwaiters[i] = t
<1>1. /\ closed' = TRUE /\ closing' = closing \cup {k} /\ takeAwaiters' = <<>>
      /\ queue' = SubSeq(queue, Served + 1, Len(queue))
      /\ moved' = moved \cup {takeAwaiters[i] : i \in 1 .. Served}
      /\ UNCHANGED <<pushAwaiters, destroyed, raced>>
      /\ unsettled' \subseteq unsettled \cup {t \in Takers : pc[t] = "waiting"}
      /\ unsettled' \subseteq TimedClients
      /\ value' = [t \in Takers |-> CASE waits(t) /\ place(t) <= Served -> queue[place(t)]
                                      [] waits(t) /\ place(t) > Served -> Closed
                                      [] OTHER -> value[t]]
      /\ pc' = [c \in Clients |->
                  IF waits(c) THEN Ended(IF place(c) <= Served THEN "yes" ELSE "throw")
                  ELSE pc[c]]
  BY DEF CloseTake, Served, Unsettle
<1>2. /\ Served \in Nat /\ Served <= Len(queue) /\ Served <= Len(takeAwaiters)
      /\ DOMAIN takeAwaiters = 1 .. Len(takeAwaiters) /\ Len(takeAwaiters) \in Nat
      /\ DOMAIN queue = 1 .. Len(queue) /\ Len(queue) \in Nat
      /\ \A i \in DOMAIN queue : queue[i] \in Pushers
  BY DEF Served
<1>3. \A i \in DOMAIN takeAwaiters : /\ takeAwaiters[i] \in Takers
                                     /\ waits(takeAwaiters[i]) /\ place(takeAwaiters[i]) = i
  BY DEF AwaitersAreSuspended, IsInjective
<1>4. \A t : waits(t) => place(t) \in DOMAIN takeAwaiters /\ takeAwaiters[place(t)] = t
  OBVIOUS
<1>5. \A t : waits(t) <=> t \in Takers /\ pc[t] = "waiting"
  BY DEF AwaitersAreSuspended, Range
<1> HIDE DEF place, waits
<1>6. \A t \in Takers : Gets(t) <=> waits(t) /\ place(t) <= Served
  BY <1>2, <1>3, <1>4 DEF Gets
<1>7. \A t \in Takers : waits(t) => place(t) \in Nat
  BY <1>2, <1>4
<1>8. \A t \in Takers : value'[t] = CASE waits(t) /\ Gets(t) -> queue[place(t)]
                                      [] waits(t) /\ ~Gets(t) -> Closed
                                      [] OTHER -> value[t]
  BY <1>1, <1>2, <1>6, <1>7
<1>9. \A t \in Takers : Gets(t) => queue[place(t)] \in Pushers
  BY <1>2, <1>4, <1>6
<1>10. value' \in [Takers -> Pushers \cup {Nothing, Closed}]
  <2>1. DOMAIN value' = Takers /\ value' = [t \in Takers |-> value'[t]]
    BY <1>1
  <2>2. \A t \in Takers : value'[t] \in Pushers \cup {Nothing, Closed}
    BY <1>8, <1>9
  <2> QED BY <2>1, <2>2
<1>11. \A i \in 1 .. Served : takeAwaiters[i] \in Takers /\ value'[takeAwaiters[i]] = queue[i]
  BY <1>2, <1>3, <1>6, <1>8
<1>12. \A c \in Clients : pc'[c] = IF c \in Takers /\ pc[c] = "waiting"
                                   THEN IF Gets(c) THEN "granted" ELSE "refused"
                                   ELSE pc[c]
  BY <1>1, <1>5, <1>6 DEF Ended
<1>13. pc' \in [Clients -> Pc]
  <2>1. pc' = [c \in Clients |-> pc'[c]]
    BY <1>1
  <2>2. \A c \in Clients : pc'[c] \in Pc
    BY <1>12 DEF Pc
  <2> QED BY <2>1, <2>2
<1> QED
  BY <1>1, <1>2, <1>5, <1>6, <1>8, <1>10, <1>11, <1>12, <1>13 DEF CloseTakeDoes

LEMMA CloseTakeStep == ASSUME Inv, NEW k \in Closers, CloseTake(k) PROVE Inv'
<1> USE DEF Inv, TypeOK
<1>effect. CloseTakeDoes(k)
  BY CloseTakeEffect
<1>1. /\ queue' \in Seq(Pushers) /\ Len(queue') <= MaxLength
  <2>1. /\ queue' = SubSeq(queue, Served + 1, Len(queue))
        /\ Served \in Nat /\ Served <= Len(queue) /\ Len(queue) \in Nat
        /\ Len(queue) <= MaxLength /\ MaxLength \in Nat
    BY <1>effect, QueueAssumption DEF CloseTakeDoes
  <2> QED BY <2>1
<1>2. TypeOK'
  <2>1. moved' \subseteq Clients
    BY <1>effect DEF CloseTakeDoes, Clients
  <2> QED BY <1>1, <2>1, <1>effect DEF CloseTakeDoes
<1>3. AwaitersAreSuspended'
  <2>1. /\ {q \in Pushers : pc'[q] = "waiting"} = {q \in Pushers : pc[q] = "waiting"}
        /\ {u \in Takers : pc'[u] = "waiting"} = {}
    BY <1>effect, QueueAssumption DEF CloseTakeDoes, Clients
  <2> QED BY <2>1, <1>effect, EmptyList DEF CloseTakeDoes, AwaitersAreSuspended
<1>4. HandsAreTrue'
  <2>1. ASSUME NEW t \in Takers
        PROVE  \/ pc'[t] = "timedOut" /\ t \in raced'
               \/ value'[t] = Nothing <=> pc'[t] \in {"idle", "waiting", "timedOut"}
    <3>1. CASE Gets(t)
      <4>1. PICK i \in 1 .. Served : takeAwaiters[i] = t
        BY <3>1 DEF Gets
      <4>2. value'[t] = queue[i] /\ i \in DOMAIN queue
        BY <4>1, <1>effect DEF CloseTakeDoes
      <4>3. value'[t] \in Pushers
        BY <4>2
      <4>4. pc'[t] = "granted"
        BY <3>1, <1>effect DEF CloseTakeDoes, Clients
      <4> QED BY <4>3, <4>4, QueueAssumption
    <3>2. CASE ~Gets(t) /\ pc[t] = "waiting"
      BY <3>2, <1>effect, QueueAssumption DEF CloseTakeDoes, Clients
    <3>3. CASE ~Gets(t) /\ pc[t] # "waiting"
      BY <3>3, <1>effect DEF CloseTakeDoes, Clients, HandsAreTrue
    <3> QED BY <3>1, <3>2, <3>3
  <2>2. \A p \in Pushers : pc'[p] # "returned"
    BY <1>effect, QueueAssumption DEF CloseTakeDoes, Clients, HandsAreTrue
  <2> QED BY <2>1, <2>2 DEF HandsAreTrue
<1>5. OwnershipIsClear'
  <2>1. \A c \in moved' : c \in moved \/ (c \in Takers /\ Gets(c))
    BY <1>effect DEF CloseTakeDoes, Gets
  <2> QED BY <2>1, <1>effect DEF CloseTakeDoes, OwnershipIsClear, Clients
<1>6. UnsettledAreWoken'
  <2>1. unsettled \subseteq Clients
    BY QueueAssumption
  <2>2. \A c \in unsettled' : c \in Clients /\ pc'[c] \in {"granted", "refused"}
    BY <1>effect, <2>1 DEF CloseTakeDoes, UnsettledAreWoken, Clients
  <2> QED BY <2>2 DEF UnsettledAreWoken
<1> QED
  BY <1>2, <1>3, <1>4, <1>5, <1>6, <1>effect
     DEF CloseTakeDoes, ClosingIsClosed, NoLostTakeNotify, NoLostPushNotify

-----------------------------------------------------------------------------
(* The theorems. *)

LEMMA InitInv == Init => Inv
<1> SUFFICES ASSUME Init PROVE Inv
  OBVIOUS
<1>1. TypeOK
  <2>1. <<>> \in Seq(Pushers) /\ <<>> \in Seq(Takers) /\ Len(<<>>) = 0
    OBVIOUS
  <2>2. 0 <= MaxLength
    BY QueueAssumption
  <2> QED BY <2>1, <2>2 DEF Init, TypeOK, Pc
<1>2. AwaitersAreSuspended
  BY EmptyList DEF Init, AwaitersAreSuspended, Clients
<1>3. HandsAreTrue
  BY DEF Init, HandsAreTrue, Clients
<1> QED
  BY <1>1, <1>2, <1>3
     DEF Inv, Init, ClosingIsClosed, NoLostTakeNotify, NoLostPushNotify, OwnershipIsClear,
         UnsettledAreWoken

LEMMA NextInv == Inv /\ [Next]_vars => Inv'
<1> SUFFICES ASSUME Inv, [Next]_vars PROVE Inv'
  OBVIOUS
<1>1. ASSUME UNCHANGED vars PROVE Inv'
  <2>1. PushersGranted' = PushersGranted /\ TakersGranted' = TakersGranted
    BY <1>1 DEF vars, PushersGranted, TakersGranted
  <2> QED
    BY <1>1, <2>1 DEF vars, Inv, TypeOK, AwaitersAreSuspended, HandsAreTrue, ClosingIsClosed,
                      NoLostTakeNotify, NoLostPushNotify, OwnershipIsClear,
                      UnsettledAreWoken
<1>2. ASSUME NEW p \in Pushers, Push(p) \/ PushNotify(p) PROVE Inv'
  BY <1>2, PushStep, PushNotifyStep
<1>3. ASSUME NEW t \in Takers, Take(t) \/ TakeNotify(t) PROVE Inv'
  BY <1>3, TakeStep, TakeNotifyStep
<1>4. ASSUME NEW c \in Clients, Return(c) \/ Timeout(c) PROVE Inv'
  BY <1>4, ReturnStep, TimeoutStep
<1>6. ASSUME NEW c \in Clients, TimeoutTooLate(c) \/ Settle(c) PROVE Inv'
  BY <1>6, TimeoutTooLateStep, SettleStep
<1>5. ASSUME NEW k \in Closers, CloseTake(k) \/ ClosePush(k) PROVE Inv'
  BY <1>5, CloseTakeStep, ClosePushStep
<1> QED BY <1>1, <1>2, <1>3, <1>4, <1>5, <1>6, DestroyStep DEF Next, Terminating

\* The state of the queue, of its two condition variables and of their clients is one of
\* which all the above is true.
THEOREM Invariance == Spec => []Inv
<1> QED BY InitInv, NextInv, PTL DEF Spec

\* Push() and Take() lose no notification, however many clients there are, whoever is cut
\* short by a timeout (before a test has moved its item), and with newcomers that overtake
\* the ones that wait.
THEOREM NotifiesAreNotLost == Spec => []NoLostNotify
<1>1. Inv => NoLostNotify
  BY DEF Inv, NoLostNotify
<1> QED BY <1>1, Invariance, PTL

\* A Push() or Take() that is refused because the queue is closed has moved nothing; nor
\* has one that times out, unless its timer fires between the test that a notifier makes
\* for it and the notifier's callback.
THEOREM OwnershipIsKept == Spec => []OwnershipIsClear
<1>1. Inv => OwnershipIsClear
  BY DEF Inv
<1> QED BY <1>1, Invariance, PTL
-----------------------------------------------------------------------------
(* The queue is the abstract one.  An item enters when the test of its     *)
(* pusher says yes, and leaves when that of its taker does.                *)

LEMMA PutsItem ==
  ASSUME TypeOK, NEW p \in Pushers, ~closed, Len(queue) # MaxLength, queue' = Append(queue, p),
         closed' = closed, value' = value
  PROVE  Fifo!Next
<1>1. Len(queue) < MaxLength
  BY QueueAssumption DEF TypeOK
<1>2. Fifo!Put(p)
  BY <1>1 DEF Fifo!Put
<1> QED BY <1>2 DEF Fifo!Next

LEMMA TellsOne ==
  ASSUME TypeOK, TypeOK', NEW t \in Takers, value[t] = Nothing, queue = <<>>, queue' = <<>>,
         closed, closed', value' = [value EXCEPT ![t] = Closed]
  PROVE  Fifo!Next
<1>1. Len(<<>>) = 0 /\ DOMAIN <<>> = {} /\ SubSeq(<<>>, 1, 0) = <<>> /\ <<>> \in [1..0 -> Takers]
  OBVIOUS
<1>2. value' \in [Takers -> Pushers \cup {Nothing, Closed}]
      /\ \A u \in Takers : value'[u] = IF u \in {t} THEN Closed ELSE value[u]
  BY DEF TypeOK
<1>3. Fifo!Deal(<<>>, {t})
  BY <1>1, <1>2 DEF Fifo!Deal
<1>4. Fifo!Step(<<>>, {t})
  BY <1>3 DEF Fifo!Step
<1> QED BY <1>1, <1>4, QueueAssumption, 0 \in 0..MaxLength, {t} \in SUBSET Takers DEF Fifo!Next

LEMMA ServesOne ==
  ASSUME TypeOK, TypeOK', NEW t \in Takers, value[t] = Nothing, queue # <<>>,
         queue' = Tail(queue), closed' = closed, value' = [value EXCEPT ![t] = Head(queue)]
  PROVE  Fifo!Next
<1>1. /\ Len(<<t>>) = 1 /\ DOMAIN <<t>> = {1} /\ <<t>>[1] = t /\ <<t>> \in [1..1 -> Takers]
      /\ Len(queue) >= 1 /\ Head(queue) = queue[1] /\ SubSeq(queue, 1 + 1, Len(queue)) = Tail(queue)
  BY DEF TypeOK
<1>2. value' \in [Takers -> Pushers \cup {Nothing, Closed}] /\ value'[t] = queue[1]
      /\ \A u \in Takers : u = t \/ value'[u] = value[u]
  BY <1>1 DEF TypeOK
<1>3. Fifo!Deal(<<t>>, {})
  BY <1>1, <1>2 DEF Fifo!Deal
<1>4. Fifo!Step(<<t>>, {})
  BY <1>3 DEF Fifo!Step
<1>5. 1 \in 0 .. MaxLength /\ {} \in SUBSET Takers
  BY QueueAssumption
<1> QED BY <1>1, <1>4, <1>5 DEF Fifo!Next

LEMMA ServesMany == ASSUME Inv, Inv', NEW k \in Closers, CloseTake(k) PROVE Fifo!Next
<1> USE DEF Inv, TypeOK
<1> DEFINE served == SubSeq(takeAwaiters, 1, Served)
           told == {t \in Takers : pc[t] = "waiting" /\ ~Gets(t)}
<1>effect. CloseTakeDoes(k)
  BY CloseTakeEffect
<1>1. Served \in Nat /\ Served <= Len(queue) /\ Served <= Len(takeAwaiters)
      /\ Len(queue) \in Nat /\ Len(queue) <= MaxLength /\ MaxLength \in Nat
  BY <1>effect, QueueAssumption DEF CloseTakeDoes
<1>2. /\ served \in [1..Served -> Takers] /\ Len(served) = Served /\ DOMAIN served = 1..Served
      /\ \A i \in 1..Served : served[i] = takeAwaiters[i]
  <2>1. served = [i \in 1..Served |-> takeAwaiters[i]]
    BY <1>1
  <2>2. \A i \in 1..Served : takeAwaiters[i] \in Takers
    BY <1>1
  <2> HIDE DEF served
  <2>3. Len(served) = Served
    BY <1>1, <2>1
  <2> QED BY <2>1, <2>2, <2>3
<1>3. Served \in 0..MaxLength /\ told \in SUBSET Takers
  BY <1>1
<1>4. \A i \in 1..Served : /\ served[i] \in Takers /\ pc[served[i]] = "waiting"
                           /\ value[served[i]] = Nothing /\ value'[served[i]] = queue[i]
  <2>1. \A i \in 1..Served : takeAwaiters[i] \in Takers /\ Gets(takeAwaiters[i])
                             /\ value'[takeAwaiters[i]] = queue[i]
    BY <1>effect DEF CloseTakeDoes, Gets
  <2> QED BY <1>2, <2>1, <1>effect DEF CloseTakeDoes, HandsAreTrue
<1>5. \A i \in 1..Served : \A j \in 1..Served : served[i] = served[j] => i = j
  BY <1>1, <1>2 DEF AwaitersAreSuspended, IsInjective
<1>6. \A t \in told : value[t] = Nothing /\ (\A i \in 1..Served : served[i] # t)
  BY <1>2 DEF HandsAreTrue, Gets
<1>7. told # {} => queue' = <<>>
  <2> SUFFICES ASSUME NEW t \in told PROVE queue' = <<>>
    OBVIOUS
  <2>1. PICK i \in 1 .. Len(takeAwaiters) : takeAwaiters[i] = t
    BY DEF AwaitersAreSuspended, Range
  <2>2. ~(i <= Served)
    BY <1>1, <2>1 DEF Gets
  <2>3. Served = Len(queue)
    BY <1>1, <2>2 DEF Served
  <2> QED BY <1>1, <2>3, <1>effect DEF CloseTakeDoes
<1>8. \A t \in Takers : \/ \E i \in 1..Served : served[i] = t
                        \/ value'[t] = IF t \in told THEN Closed ELSE value[t]
  <2> TAKE t \in Takers
  <2>1. CASE Gets(t)
    BY <1>2, <2>1 DEF Gets
  <2>2. CASE ~Gets(t)
    BY <2>2, <1>effect DEF CloseTakeDoes
  <2> QED BY <2>1, <2>2
<1>9. closed' /\ queue' = SubSeq(queue, Served + 1, Len(queue))
      /\ value' \in [Takers -> Pushers \cup {Nothing, Closed}]
  BY <1>effect DEF CloseTakeDoes
<1> HIDE DEF served, told
<1>10. Fifo!Deal(served, told)
  BY <1>1, <1>2, <1>4, <1>5, <1>6, <1>7, <1>8, <1>9 DEF Fifo!Deal
<1>11. Fifo!Step(served, told)
  BY <1>9, <1>10 DEF Fifo!Step
<1> QED BY <1>2, <1>3, <1>11 DEF Fifo!Next

\* CoBlockingQueue is a bounded FIFO: what is pushed is taken once and in order, nothing
\* enters it once it is closed, and a taker is told so only when nothing is left to take.
THEOREM Refinement == Spec => ImplementsFifo
<1>1. Init => Fifo!Init
  BY DEF Init, Fifo!Init
<1>2. Inv /\ Inv' /\ [Next]_vars => [Fifo!Next]_(Fifo!fifoVars)
  <2> SUFFICES ASSUME Inv, Inv', [Next]_vars
               PROVE  UNCHANGED <<queue, closed, value>> \/ Fifo!Next
    BY DEF Fifo!fifoVars
  <2> USE DEF Inv, TypeOK
  <2>1. ASSUME NEW p \in Pushers, Push(p)
        PROVE  UNCHANGED <<queue, closed, value>> \/ Fifo!Next
    <3>1. CASE PushTest = "yes"
      BY <2>1, <3>1, TestsSay, PutsItem DEF Push, PushItem
    <3>2. CASE PushTest # "yes"
      <4>1. p \notin Takers
        BY QueueAssumption
      <4> QED BY <2>1, <3>2, <4>1 DEF Push, NoItem
    <3> QED BY <3>1, <3>2
  <2>2. ASSUME NEW p \in Pushers, PushNotify(p)
        PROVE  UNCHANGED <<queue, closed, value>> \/ Fifo!Next
    <3>1. CASE ~WakesTaker
      BY <2>2, <3>1 DEF PushNotify
    <3>2. CASE WakesTaker
      <4> DEFINE t == Head(takeAwaiters)
      <4>1. takeAwaiters # <<>> /\ TakeTest = "yes" /\ queue # <<>>
        BY <3>2, TestsSay DEF WakesTaker, NoLostTakeNotify
      <4>2. t \in Takers /\ t \in Range(takeAwaiters)
        BY <4>1, ListTail DEF AwaitersAreSuspended
      <4>3. value[t] = Nothing
        BY <4>2 DEF AwaitersAreSuspended, HandsAreTrue
      <4>4. /\ queue' = Tail(queue) /\ closed' = closed
            /\ value' = [value EXCEPT ![t] = Head(queue)]
        BY <2>2, <3>2, <4>1 DEF PushNotify
      <4> HIDE DEF t
      <4> QED BY <4>1, <4>2, <4>3, <4>4, ServesOne
    <3> QED BY <3>1, <3>2
  <2>3. ASSUME NEW t \in Takers, Take(t)
        PROVE  UNCHANGED <<queue, closed, value>> \/ Fifo!Next
    <3>1. value[t] = Nothing /\ closed' = closed
      BY <2>3 DEF Take, HandsAreTrue
    <3>2. CASE TakeTest = "yes"
      BY <2>3, <3>1, <3>2, TestsSay, ServesOne DEF Take, TakeItem
    <3>3. CASE TakeTest = "throw"
      BY <2>3, <3>1, <3>3, TestsSay, TellsOne DEF Take, NoItem
    <3>4. CASE TakeTest = "no"
      BY <2>3, <3>4 DEF Take
    <3> QED BY <3>2, <3>3, <3>4, TestsSay
  <2>4. ASSUME NEW t \in Takers, TakeNotify(t)
        PROVE  UNCHANGED <<queue, closed, value>> \/ Fifo!Next
    <3>1. CASE ~WakesPusher
      BY <2>4, <3>1 DEF TakeNotify
    <3>2. CASE WakesPusher
      <4> DEFINE p == Head(pushAwaiters)
      <4>1. p \in Pushers
        BY <3>2, ListTail DEF AwaitersAreSuspended, WakesPusher
      <4>2. /\ queue' = IF PushTest = "yes" THEN Append(queue, p) ELSE queue
            /\ UNCHANGED <<closed, value>>
        BY <2>4, <3>2 DEF TakeNotify
      <4> HIDE DEF p
      <4> QED BY <4>1, <4>2, TestsSay, PutsItem
    <3> QED BY <3>1, <3>2
  <2>5. ASSUME NEW c \in Clients, Return(c)
        PROVE  UNCHANGED <<queue, closed, value>> \/ Fifo!Next
    <3>1. CASE c \in Takers /\ value[c] # Nothing
      <4>1. Fifo!Consume(c)
        BY <2>5, <3>1 DEF Return, Fifo!Consume
      <4> QED BY <3>1, <4>1 DEF Fifo!Next
    <3>2. CASE ~(c \in Takers /\ value[c] # Nothing)
      BY <2>5, <3>2 DEF Return
    <3> QED BY <3>1, <3>2
  <2>6. ASSUME NEW c \in Clients, Timeout(c) PROVE UNCHANGED <<queue, closed, value>>
    BY <2>6 DEF Timeout
  <2>10. ASSUME NEW c \in Clients, TimeoutTooLate(c) \/ Settle(c)
         PROVE  UNCHANGED <<queue, closed, value>>
    BY <2>10 DEF TimeoutTooLate, Settle
  <2>7. ASSUME NEW k \in Closers, ClosePush(k) PROVE UNCHANGED <<queue, closed, value>>
    BY <2>7 DEF ClosePush, ClosingIsClosed
  <2>8. CASE Destroy
    <3>1. Fifo!Destroy
      BY <2>8 DEF Destroy, Fifo!Destroy
    <3> QED BY <3>1 DEF Fifo!Next
  <2>9. CASE UNCHANGED vars
    BY <2>9 DEF vars
  <2> QED
    BY <2>1, <2>2, <2>3, <2>4, <2>5, <2>6, <2>7, <2>8, <2>9, <2>10, ServesMany
       DEF Next, Terminating
<1> QED BY <1>1, <1>2, Invariance, PTL DEF Spec, Fifo!Spec, ImplementsFifo
=============================================================================
