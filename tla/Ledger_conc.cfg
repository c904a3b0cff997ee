SPECIFICATION Spec
CONSTANTS
  Funds = {f1, f2}
  f1 = f1
  f2 = f2
  o1 = o1
  o2 = o2
  Orders = {o1}
  ClientOrders = {o1, o2}
  Keep = Keep
  Dust = 2
  Procs = {p1, p2}
  Pids = {1, 2}
  Navs = {2}
  Imports <- FewImports
  Updates <- FewUpdates
  Targets = {6}
  DCAAmounts = {5}
  UniqueIndex = TRUE
  LegacyPK = TRUE
  Ops = {"import", "update", "delete", "drop_security", "add_security", "adjust", "dca", "refresh", "recalc_all", "fail"}
  MaxOps = 3
  MaxSeq = 8
INVARIANTS DriftHasCause
CHECK_DEADLOCK FALSE
