SPECIFICATION FairSpec
CONSTANTS
  g1 = g1
  g2 = g2
  NoGroup = NoGroup
  Group <- MCGroup
  Events = {"started", "wrong", "removed", "connected", "disconnected", "failed", "enrolls"}
  MaxEvents <- MCMaxEvents
  MaxCount = 0
INVARIANTS GroupsAreTracked PassiveWhenConnected NoOrphan DhcpcdRestartsAreBounded
PROPERTIES ShutdownEnds
CHECK_DEADLOCK FALSE
