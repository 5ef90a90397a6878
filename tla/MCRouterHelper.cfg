SPECIFICATION Spec
CONSTANTS
  a1 = a1
  a2 = a2
  Apps = {a1, a2}
  Routers = {"nginx", "caddy"}
  MaxRequests = 3
  Faults = {"restore", "crash"}
INVARIANTS RefusedNeverLeft NewestApplied
PROPERTIES ImplementsTable
CHECK_DEADLOCK FALSE
