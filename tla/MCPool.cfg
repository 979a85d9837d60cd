\* One to three threads, resized at any time, and a fourth to be created meanwhile.
SPECIFICATION PoolFairSpec
CONSTANTS
  t1 = t1
  t2 = t2
  t3 = t3
  t4 = t4
  h1 = h1
  h2 = h2
  Threads <- MCThreads
  PooledHandles <- MCHandles
  Sizes <- MCSizes
  InitialSize = 2
  MaxResizes = 3
INVARIANTS PoolInv
PROPERTIES HandlesRun DestroyEnds
CHECK_DEADLOCK FALSE
