SPECIFICATION Spec
CONSTANTS
  Jobs = {j1}
  Workers = {w1, w2}
  Gateways = {g1}
  MaxJobRetries = 1
  MaxQueueDepth = 2
  ReapMaxAttempts = 2
  ReapUndeliverableMax = 1
  MaxFaults <- OneLapse
  Cancellable = {j1}
  None = None
SYMMETRY Symmetry
CHECK_DEADLOCK FALSE
INVARIANTS
  NoVanishedJob
