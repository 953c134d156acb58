\* Two clients, two devices that may panic, handlers that may do whatever
\* their signature allows.
SPECIFICATION FairSpec
CONSTANTS
  Clients = {c1, c2}
  Devices = {d1, d2}
  MaxCalls = 3
  HandlerSteps = {"continue", "stop", "stop_silent", "panic"}
  DevicePanics = TRUE
INVARIANTS
  TypeOK
  RunningCounts
  ShutdownMeansStopped
PROPERTIES
  StopAnsweredLast
  EveryCallReturns
  WindsDown
\* Clients may stop calling, and the thread ends.
CHECK_DEADLOCK FALSE
