SPECIFICATION Spec
CONSTANTS
    PipeSize = 1
    MaxOutput = 2
    MaxPayload = 2
    MaxSubscribers = 2
    PluginCmds = {c1, c2}
    c1 = c1
    c2 = c2
    Plugins = {"p", "q"}
    MaxPluginCmds = 2
    Instances = {"i", "j"}
    AddonApps = {"a", "b"}
    AddonCmds = {c1, c2}
    MaxAddonCmds = 5
    Clients = {w1}
    w1 = w1
    Requests = {r1, r2}
    r1 = r1
    r2 = r2
    MaxStats = 3
    MaxFrames = 4
    Ring = 2
    Calls = {k1, k2, k3}
    k1 = k1
    k2 = k2
    k3 = k3
    Commands = {"logs", "stop", "deploy", "restart", "destroy", "destroy confirmed"}
    Limit <- MCLimit
    Window = 2
    MaxClock = 3
    MaxTries = 2
    MaxInits = 2
    MaxReboots = 1
    ServerNames = {"x", "y", "z"}
    AddressOf <- MCAddressOf
    Editors = {c1, c2}
    MaxEdits = 3
    MaxInvokes = 1
    MaxFaults = 1
INVARIANTS
    
    BrokenIsNoticed
    StreamCatchesUp
    RateHolds
    SecretsReachTheirReader
    InitLeavesHostWhole
    CommandsFindTheirHost
PROPERTIES
    DataLossGuard
CHECK_DEADLOCK FALSE
