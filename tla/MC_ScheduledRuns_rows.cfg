CONSTANTS
  SysKeys = {sys}
  TenantKeys = {ten}
  Runs = {r1, r2}
  Stops = {s1}
  NoRun = NoRun
SPECIFICATION FairSpec
INVARIANTS
  TypeOK
  OpenRowExplained
PROPERTIES
  ClosedRowsStay
  SystemJobsOneAtATime
  ClaimsAreReleased
CHECK_DEADLOCK FALSE
