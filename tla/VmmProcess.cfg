SPECIFICATION ProcessSpec
CONSTANTS
  Clients = {main_client, signal_client}
  MainClient = main_client
  SignalClient = signal_client
  Devices = {d1}
  MaxCalls = 0
  HandlerSteps = {"panic"}
  DevicePanics = FALSE
PROPERTIES
  SignalStopsVmm
CHECK_DEADLOCK FALSE
