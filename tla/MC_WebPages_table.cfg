CONSTANTS
  Keys = {k1, k2}
  Filters = {f1, f2}
  First = f1
  None = None
  Stock = 2
  MaxActs = 4
  MaxFails = 1
  MaxTurns = 1
  Procs = {p1, p2}
  Rows = {r1, r2}
  New = New
  Conns = {1, 2}
  Probes = {1, 2, 3}
  HubTurns = 1
  HubActs = 3
  HubFails = 1
SYMMETRY ModelSymmetry
SPECIFICATION PagesSpec
INVARIANT TableIsThePage
CHECK_DEADLOCK FALSE
