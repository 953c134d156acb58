SPECIFICATION FairSpec
CONSTANTS
  Loggers = {l1, l2}
  Updaters = {u1}
  Flushers = {f1}
  Files = {file}
  Stderr = stderr
  QUEUE_DEPTH = 2
  Keep = keep
  SameAsLog = same_as_log
  MaxRecords = 3
  MaxUpdates = 1
  MaxFlushes = 1
INVARIANTS
  TypeOK
  DropsAccounted
  FlushBarrier
  RightTarget
  CrashTracksLog
PROPERTY
  SettlesOnDisk
CHECK_DEADLOCK FALSE
