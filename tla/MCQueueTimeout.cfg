SPECIFICATION Spec
CONSTANTS
  p1 = p1
  p2 = p2
  t1 = t1
  t2 = t2
  t3 = t3
  k1 = k1
  Nothing = Nothing
  Closed = Closed
  Pushers <- MCPushers
  Takers <- MCTakers
  Closers <- MCClosers
  TimedClients <- MCTimedPusher
  Background <- MCPoolTaker
  MaxLength = 2
INVARIANTS CallerKeepsOwnership
