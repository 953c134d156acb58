\* One device whose task panics, and a shutdown.
SPECIFICATION FairSpec
CONSTANTS
  Clients = {c1}
  Devices = {d1}
  MaxCalls = 1
  HandlerSteps = {"stop"}
  DevicePanics = TRUE
PROPERTIES
  QuiesceEnds
CHECK_DEADLOCK FALSE
