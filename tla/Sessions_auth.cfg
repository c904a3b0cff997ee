SPECIFICATION Spec
CONSTANTS
  Keys = {"login", "password"}
  MaxFails = 2
  FailWindow = 2
  Lockout = 1
  MaxLockout = 2
  MaxStrikes = 3
  StrikeDecay = 3
  GlobalPerHour = 2
  Hour = 2
  PruneInterval = 1
  None = None
  Callers = {c1, c2}
  Passwords = {p, q}
  EnvPassword = None
  TTL = 3
  MaxAge = 4
  MaxId = 2
  MaxChanges = 1
  MaxRequests = 4
  MaxClock = 4
SYMMETRY Symmetry
INVARIANTS TypeOK ExpiryIsSliding RevokedStaysOut SessionsWereEarned OldSessionsHaveCause GlobalBound StrikesCollectable
PROPERTIES EscalationCarries
CHECK_DEADLOCK FALSE
