\* A rate-limited device whose accesses may fail: the unlimited device and the
\* faultless one are among its behaviours.
SPECIFICATION FairSpec
CONSTANTS
  MaxRequests = 4
  QueueSize = 3
  Limited = TRUE
  Capacity = 2
  QueueFaults = TRUE
INVARIANTS
  TypeOK
  UsedInOrder
  NoLostKick
  NoLostInterrupt
PROPERTIES
  StopStartsNothing
  StopEnds
  ServiceFairSpec
\* The guest may stop submitting, and the task ends.
CHECK_DEADLOCK FALSE
