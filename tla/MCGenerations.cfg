SPECIFICATION FairSpec
CONSTANTS
  MaxConfigs = 5
  Checked = {1, 2, 3, 5}
  Answering = {1, 2, 4, 5}
  PortOf <- PortsOfReloads
  MaxRestarts = 1
  MaxFailed = 1
  Faults = {"spawn", "stop", "crash"}
INVARIANTS RingConsistent
PROPERTIES SerialRemovalStopsAll ProbingEnds
CHECK_DEADLOCK FALSE
