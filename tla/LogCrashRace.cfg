SPECIFICATION FairSpec
CONSTANTS
  Loggers = {l1}
  Updaters = {u1, u2}
  Flushers = {f1}
  Files = {file}
  Stderr = stderr
  QUEUE_DEPTH = 2
  Keep = keep
  SameAsLog = same_as_log
  MaxRecords = 0
  MaxUpdates = 2
  MaxFlushes = 0
INVARIANT CrashFollowsLog
CHECK_DEADLOCK FALSE
