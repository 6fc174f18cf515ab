CONSTANTS
  Tokens = {k1, k2}
  Tenants = {t1}
  Procs = {p1, p2}
  MaxActs = 2
  MaxMishaps = 1
  None = None
  Pending = Pending
  Denied = Denied
  Failed = Failed
SYMMETRY ModelSymmetry
SPECIFICATION Spec
INVARIANTS
  TokenAgrees
  StoreAgrees
PROPERTY BouncedWithoutToken
CHECK_DEADLOCK FALSE
