SPECIFICATION RenewSpec
CONSTANTS
  Wants = {0, 1, 2}
  Orders <- BothOrders
  Runtime = "process"
  Faults = {"leftover", "kill"}
  MaxRuns = 3

PROPERTIES NextRunRepairs
CHECK_DEADLOCK FALSE
