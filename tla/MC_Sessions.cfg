CONSTANTS
  Tokens = {k1, k2}
  Tenants = {t1, t2}
  Clients = {c1, c2}
  Kinds <- MCKinds
  MaxChanges = 2
  None = None
VIEW WithoutHistory
SYMMETRY ModelSymmetry
SPECIFICATION PartsSpec
INVARIANTS
  ServedIsTrue
  LiveIsIndexed
CHECK_DEADLOCK FALSE
