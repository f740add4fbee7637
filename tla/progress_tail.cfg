SPECIFICATION FairSpec
CONSTANTS
  Sockets = {s1}
  Callers = {alice, bob}
  Submitter = alice
  MaxEvents = 4
  BatchSize = 2
  MaxErrors = 1
  TTL = 2
CHECK_DEADLOCK FALSE
INVARIANTS
  TypeOK
  EndedMeansOver
PROPERTIES
  FollowsFeed
  SocketEnds
