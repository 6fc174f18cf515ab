CONSTANTS
  SysKeys = {sys}
  TenantKeys = {ten}
  Runs = {r1, r2, r3}
  Stops = {s1}
  NoRun = NoRun
VIEW ControlView
SYMMETRY RunSymmetry
SPECIFICATION Spec
INVARIANTS
  SystemSingleFlight
  KeysAgree
CHECK_DEADLOCK FALSE
