SPECIFICATION Spec
CONSTANTS
  Threads = {t1, t2}
  BURST = 2
  REFILL_MS = 4
  MAX_SUPPRESSED = 2
  CAS_RETRY_LIMIT = 2
  CallsiteLevel = 1
  MaxTime = 3
  MaxChecks = 5
INVARIANTS
  TypeOK
  BurstBound
  SuppressedExact
CHECK_DEADLOCK FALSE
