SPECIFICATION FairSpec
CONSTANTS
  Wants = {0, 1, 2}
  Orders <- BothOrders
  Runtime = "container"
  Faults <- AllFaults
  MaxRuns = 3
INVARIANTS CopiesConsistent
PROPERTIES KeepsServing OkMeansReplaced RunsEnd
CHECK_DEADLOCK FALSE
