\* Two pushers and three takers on a queue of two items, a closer, timeouts; a pusher
\* and the closer are on pool threads.
SPECIFICATION FairSpec
CONSTANTS
  p1 = p1
  p2 = p2
  t1 = t1
  t2 = t2
  t3 = t3
  k1 = k1
  Nothing = Nothing
  Closed = Closed
  Pushers <- MCPushers
  Takers <- MCTakers
  Closers <- MCClosers
  TimedClients <- MCTimed
  Background <- MCBackground
  MaxLength = 2
INVARIANTS NoLostNotify OwnershipIsClear
PROPERTIES ImplementsFifo QueueMoves
