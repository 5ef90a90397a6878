SPECIFICATION Spec
CONSTANTS
  MaxConfigs = 2
  Checked = {1, 2}
  Answering = {1}
  PortOf <- PortsOfReloads
  MaxRestarts = 1
  MaxFailed = 1
  Faults = {}
INVARIANTS CanaryAnsweredItself
CHECK_DEADLOCK FALSE
