SPECIFICATION Spec
CONSTANTS
  Jobs = {j1, j2}
  Headers = {alice, longbob}
  Long = {longbob}
  Clipped = bob
  Tiers = {l4}
  NoName = NoName
  Quota = 1
  MaxUsers = 1
  PeriodLength = 2
  MaxNow = 3
  MaxUnchecked = 1
CHECK_DEADLOCK FALSE
INVARIANTS
  TypeOK
  ReportAddsUp
  HashBounded
PROPERTIES
  QuotaHolds
