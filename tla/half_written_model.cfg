SPECIFICATION Spec
CONSTANTS
  Installs = {i1, i2, i3}
  Chunks = 2
  None = None
CHECK_DEADLOCK FALSE
INVARIANTS
  NeverHalfWritten
