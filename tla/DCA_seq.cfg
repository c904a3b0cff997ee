SPECIFICATION Spec
CONSTANTS
  r1 = r1
  r2 = r2
  Runs = {r1}
  Funds = {f1, f2}
  Dates = {d1, d2}
  None = None
  OneConn = TRUE
  UniqueIndex = FALSE
  Ops = {"create", "edit", "edit_fund", "delete_tx", "move_tx", "refresh"}
  MaxPlans = 1
  MaxRuns = 3
  MaxEdits = 4
INVARIANT BuyHasExecution
PROPERTY InvestSpec
CHECK_DEADLOCK FALSE
