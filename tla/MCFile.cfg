SPECIFICATION FairSpec
CONSTANTS
  f1 = f1
  f2 = f2
  Nobody = Nobody
  Child = Child
  NoFd = NoFd
  Files <- MCFiles
  Fds = {1, 2}
  Programs <- MCPrograms
  Closers = {c1}
  MaxHandle = 2
  MaxData = 1
INVARIANTS NoLostReadiness NoForeignIo NoUseAfterFree
PROPERTIES CloseEnds
CHECK_DEADLOCK FALSE
