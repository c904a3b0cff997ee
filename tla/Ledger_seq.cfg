SPECIFICATION Spec
CONSTANTS
  Funds = {f1, f2}
  f1 = f1
  f2 = f2
  o1 = o1
  o2 = o2
  Orders = {o1}
  ClientOrders = {o1, o2}
  Keep = Keep
  Dust = 2
  Procs = {p1}
  Pids = {1}
  Navs = {1, 2}
  Imports <- MCImports
  Updates <- MCUpdates
  Targets = {0, 1, 6}
  DCAAmounts = {5}
  UniqueIndex = TRUE
  LegacyPK = FALSE
  Ops = {"import", "update", "delete", "drop_security", "add_security", "adjust", "dca", "refresh", "recalc_all"}
  MaxOps = 4
  MaxSeq = 8
INVARIANTS TypeOK QuietMeansNoDrift StoredRowsAgree
CHECK_DEADLOCK FALSE
