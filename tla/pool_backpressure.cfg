SPECIFICATION Spec
CONSTANTS
  Jobs = {j1, j2}
  Workers = {w1}
  Gateways = {g1, g2}
  MaxJobRetries = 1
  MaxQueueDepth = 1
  ReapMaxAttempts = 2
  ReapUndeliverableMax = 1
  MaxFaults <- DeathAndStall
  Cancellable = {}
  None = None
SYMMETRY Symmetry
CHECK_DEADLOCK FALSE
INVARIANTS
  TypeOK
  QueueBound
  RetriesCounted
