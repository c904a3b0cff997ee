SPECIFICATION Spec
CONSTANTS
  r1 = r1
  r2 = r2
  Runs = {r1, r2}
  Funds = {f1, f2}
  Dates = {d1}
  None = None
  OneConn = TRUE
  UniqueIndex = TRUE
  Ops = {"create", "edit_fund"}
  MaxPlans = 1
  MaxRuns = 2
  MaxEdits = 2
INVARIANTS AtMostOncePerDue
CHECK_DEADLOCK FALSE
