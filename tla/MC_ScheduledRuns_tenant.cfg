CONSTANTS
  SysKeys = {sys}
  TenantKeys = {ten}
  Runs = {r1, r2, r3}
  Stops = {s1}
  NoRun = NoRun
SYMMETRY RunSymmetry
SPECIFICATION Spec
INVARIANT SingleFlight
CHECK_DEADLOCK FALSE
