\* One thread and timeouts, several threads and none, or several threads and timeouts.
SPECIFICATION FairSpec
CONSTANTS
  w1 = w1
  w2 = w2
  w3 = w3
  n1 = n1
  n2 = n2
  n3 = n3
  Nobody = Nobody
  Waiters <- MCWaiters
  Notifiers <- MCNotifiers
  Uses <- MCUses
INVARIANTS ResumedOnce Wakeups
PROPERTIES WaitEnds
