\* Coroutines that hop, await and end on any thread.
SPECIFICATION TaskFairSpec
CONSTANTS
  a = a
  b = b
  c = c
  p1 = p1
  p2 = p2
  Foreground = Foreground
  NoTask = NoTask
  Tasks <- MCTasks
  PoolThreads <- MCPoolThreads
  MaxHops = 1
  Pumpers = {a}
INVARIANTS Safe
PROPERTIES TasksEnd
CHECK_DEADLOCK FALSE
