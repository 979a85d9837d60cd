SPECIFICATION FairSpec
CONSTANTS
  ping = ping
  user = user
  Nobody = Nobody
  Callers <- MCCallers
  KeepAlive = ping
  MaxAsked = 3
  MaxEvents = 2
  MaxServers = 1
  QueueSize = 1
  OpenTries = 2
  Retries = 1
INVARIANTS AnswersMatch EventPipeline
PROPERTIES OpenAndCloseEnd DeathIsNoticed
CHECK_DEADLOCK FALSE
