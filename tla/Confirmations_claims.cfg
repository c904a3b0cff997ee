SPECIFICATION Spec
CONSTANTS
  Callers = {c1, c2}
  Tools <- MCTools
  Registry <- MCRegistry
  Payloads = {a}
  Null = Null
  None = None
  TTL = 1
  Retention = 0
  AuditRetention = 1
  MaxId = 1
  MaxCalls = 2
  MaxClock = 2
SYMMETRY Symmetry
INVARIANTS TypeOK NoBypass
PROPERTIES GateSpec RunsAreAudited
CHECK_DEADLOCK FALSE
