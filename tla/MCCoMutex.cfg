\* Five clients: enough for a line that turns over while others join.
SPECIFICATION MutexFairSpec
CONSTANTS
  c1 = c1
  c2 = c2
  c3 = c3
  c4 = c4
  c5 = c5
  Clients <- MCClients5
INVARIANTS MutexSafe
PROPERTIES ImplementsFifoLock EveryWaitEnds
