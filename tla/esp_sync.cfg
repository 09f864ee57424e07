SPECIFICATION FairSpec
CONSTANTS
  Retries = 3
  Threshold = 4
  RealTime = 7
  MaxUptime = 5
  MayHibernate = TRUE
INVARIANTS
  TypeOK
  SentWithSetClock
PROPERTIES
  CallsReturn
  SyncFailureHeals
