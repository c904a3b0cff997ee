SPECIFICATION FairSpec
CONSTANTS
  Procs = {p1, p2}
  Jobs = {"price_dca"}
  FirstDay = 4
  None = None
  MaxDay = 1
  MaxStarts = 2
  MaxErrors = 1
INVARIANTS SuppressedHasCause
PROPERTIES StopTerminates
CHECK_DEADLOCK FALSE
