SPECIFICATION FairSpec
CONSTANTS
  r1 = r1
  r2 = r2
  Runs = {r1, r2}
  Funds = {f1, f2}
  Dates = {d1}
  None = None
  OneConn = FALSE
  UniqueIndex = TRUE
  Ops = {"create", "edit_fund", "delete_tx", "move_tx", "drop"}
  MaxPlans = 1
  MaxRuns = 3
  MaxEdits = 4
INVARIANTS NoDuplicateOrder ReportedWasBought
PROPERTIES RunsReturn
CHECK_DEADLOCK FALSE
