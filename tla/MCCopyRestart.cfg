SPECIFICATION Spec
CONSTANTS
    Slots <- MCSlots
    Policy = "on-failure"
    Limit = 1
    MaxExits = 3
    MaxOps = 1
    MaxFaults = 1
    MaxEvents = 4
INVARIANTS SlotsConsistent LimitKept
PROPERTIES DeadIsHandled
CHECK_DEADLOCK FALSE
