\* Both homes, future and negative timeouts, every race of callback and timer.
SPECIFICATION ServiceFairSpec
CONSTANTS
  f1 = f1
  p1 = p1
  NoService = NoService
  Services <- MCServices2
  Pool <- MCPool
  PastTimeouts <- MCPast
INVARIANTS ServiceSafe AllServicesInv
PROPERTIES WaitEnds
