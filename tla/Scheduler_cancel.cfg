SPECIFICATION Spec
CONSTANTS
  Procs = {p1}
  Jobs = {"price_dca"}
  FirstDay = 0
  None = None
  MaxDay = 0
  MaxStarts = 1
  MaxErrors = 0
INVARIANTS StopCancelsJobs
CHECK_DEADLOCK FALSE
