\* Each driver, with one or two things of each kind.
SPECIFICATION DispatcherFairSpec
CONSTANTS
  h1 = h1
  d1 = d1
  f1 = f1
  f2 = f2
  a1 = a1
  ForegroundThread = ForegroundThread
  Handles <- MCHandles
  Delayed <- MCDelayed
  Functions <- MCFunctions
  Posters <- MCPosters
  Programs <- MCPrograms
  Delays <- MCDelays
  IdleSleep = 2
  Timeout = 2
  MaxTime = 3
INVARIANTS NothingIsMislaid PumpsTruly
PROPERTIES TimersInOrder EverythingEnds
