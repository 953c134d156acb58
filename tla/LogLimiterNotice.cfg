SPECIFICATION Spec
CONSTANTS
  Threads = {t1}
  BURST = 2
  REFILL_MS = 4
  MAX_SUPPRESSED = 100
  CAS_RETRY_LIMIT = 2
  CallsiteLevel = 1
  MaxTime = 4
  MaxChecks = 4
PROPERTIES
  NoticeComesFirst
CHECK_DEADLOCK FALSE
