CONSTANTS
  Jobs = {j1, j2}
  Users = {u1}
  Workers = {w1, w2}
  Reqs = {e1}
  QueueSize = 1
  UserLimit = 2
  CanRaise = TRUE
  CanCrash = TRUE
  NoJob = NoJob
SPECIFICATION FairSpec
INVARIANTS
  TypeOK
  JobsAreCarried
  DownloadableExists
  OrphanExplained
PROPERTIES
  LifecycleAsBuilt
  JobsSettle
CHECK_DEADLOCK FALSE
