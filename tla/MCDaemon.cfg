SPECIFICATION Spec
CONSTANTS
    Pids = {1, 2, 3}
    Deployers = {deploy1}
    deploy1 = deploy1
    MaxByHand = 2
    MaxSignalled = 2
    Jobs = {"hourly", "daily"}
    Period <- MCPeriod
    MaxNow = 4
    PoolSize = 1
    MaxEvents = 3
    MaxPulls = 1
    MaxLines = 4
    Cap = 2
    MaxStops = 2
    MaxWritten = 6
    MaxSize = 1
    Retention = 3
    MaxRenames = 1
    Procs = {1, 2, 3}
    Workers = {1, 2}
    MaxRestarts = 2
    MaxLoads = 3
    MaxFaults = 1
INVARIANTS
    LockKeepsOne
    OncePerOccurrence
    CopiedOnceInOrder
    LinesStayInOrder
    MarkerOutlastsWorker
    RowsTellTheTruth
CHECK_DEADLOCK FALSE
