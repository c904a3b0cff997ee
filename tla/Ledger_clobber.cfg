SPECIFICATION Spec
CONSTANTS
  Funds = {f1, f2}
  f1 = f1
  f2 = f2
  o1 = o1
  o2 = o2
  Orders = {o1}
  ClientOrders = {o1, o2}
  Keep = Keep
  Dust = 2
  Imports <- FewImports
  Updates <- FewUpdates
  Navs = {2}
  Targets = {6}
  DCAAmounts = {5}
  UniqueIndex = TRUE
  MaxSeq = 8
  Procs = {p1, p2}
  Pids = {1}
  LegacyPK = FALSE
  Ops = {"adjust", "refresh"}
  MaxOps = 2
INVARIANTS QuietMeansNoDrift
CHECK_DEADLOCK FALSE
