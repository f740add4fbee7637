SPECIFICATION FairSpec
CONSTANTS
  MaxJobs = 2
  MaxRestarts = 1
  None = None
CHECK_DEADLOCK FALSE
INVARIANTS
  TypeOK
  OutcomeTruthful
  ExitJustified
PROPERTIES
  TakesOnlyWhenFree
  JobEnds
  AbandonedIsCleared
