CONSTANTS
  Tokens = {k1, k2}
  Tenants = {t1, t2}
  Clients = {c1, c2}
  Kinds <- MCKinds
  MaxChanges = 0
  None = None
SYMMETRY ModelSymmetry
SPECIFICATION PartsSpec
INVARIANT SwitchSticks
CHECK_DEADLOCK FALSE
