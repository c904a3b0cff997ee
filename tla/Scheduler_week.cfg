SPECIFICATION Spec
CONSTANTS
  Procs = {p1}
  Jobs = {"startup_refresh", "price_dca", "dca_backfill"}
  FirstDay = 6
  None = None
  MaxDay = 1
  MaxStarts = 2
  MaxErrors = 0
INVARIANTS TypeOK OncePerWindow PassCoversWeek
PROPERTIES NeverEarly
CHECK_DEADLOCK FALSE
