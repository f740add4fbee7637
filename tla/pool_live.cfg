SPECIFICATION FairSpec
CONSTANTS
  Jobs = {j1}
  Workers = {w1, w2}
  Gateways = {g1}
  MaxJobRetries = 1
  MaxQueueDepth = 2
  ReapMaxAttempts = 2
  ReapUndeliverableMax = 1
  MaxFaults <- DeathAndGateway
  Cancellable = {}
  None = None
CHECK_DEADLOCK FALSE
PROPERTIES
  EventuallyReported
