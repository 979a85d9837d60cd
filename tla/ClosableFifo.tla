----------------------------- MODULE ClosableFifo -----------------------------
(***************************************************************************)
(* What CoBlockingQueue promises: a bounded queue that nothing enters once *)
(* it is shut, out of which every item comes once and in order, and whose  *)
(* consumers are told that it is shut only when it is empty.               *)
(***************************************************************************)
EXTENDS Naturals, Sequences

CONSTANTS Producers, Consumers, MaxLength, Nothing, Closed

VARIABLES items,  \* what is in the queue: the producer of each item
          shut,
          got     \* what each consumer has in hand: Nothing, an item, or the bad news

fifoVars == <<items, shut, got>>

Init == items = <<>> /\ shut = FALSE /\ got = [c \in Consumers |-> Nothing]

Put(p) == /\ ~shut /\ Len(items) < MaxLength
          /\ items' = Append(items, p)
          /\ UNCHANGED <<shut, got>>

\* The consumers of the list take an item each, those of the set are told it is shut.
Deal(served, told) ==
  /\ Len(served) <= Len(items)
  /\ items' = SubSeq(items, Len(served) + 1, Len(items))
  /\ \A c \in told : got[c] = Nothing /\ \A i \in DOMAIN served : served[i] # c
  /\ told # {} => shut' /\ items' = <<>>
  /\ \A i \in DOMAIN served : /\ got[served[i]] = Nothing /\ got'[served[i]] = items[i]
                              /\ \A j \in DOMAIN served : served[i] = served[j] => i = j
  /\ got' \in [Consumers -> Producers \cup {Nothing, Closed}]
  /\ \A c \in Consumers : \/ \E i \in DOMAIN served : served[i] = c
                          \/ got'[c] = IF c \in told THEN Closed ELSE got[c]

\* Shutting deals with everybody who waits at that time.
Step(served, told) == Deal(served, told) /\ shut' \in {shut, TRUE}

Consume(c) == /\ got[c] # Nothing
              /\ got' = [got EXCEPT ![c] = Nothing]
              /\ UNCHANGED <<items, shut>>

\* The queue is destroyed, with the items that are left.
Destroy == /\ items' = <<>> /\ shut' = TRUE
           /\ got' \in [Consumers -> Producers \cup {Nothing, Closed}]
           /\ \A c \in Consumers : got'[c] \in {got[c], Closed}

Next == \/ \E p \in Producers : Put(p)
        \/ \E n \in 0..MaxLength : \E served \in [1..n -> Consumers] :
             \E told \in SUBSET Consumers : Step(served, told)
        \/ \E c \in Consumers : Consume(c)
        \/ Destroy

Spec == Init /\ [][Next]_fifoVars
=============================================================================
