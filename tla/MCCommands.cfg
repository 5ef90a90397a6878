SPECIFICATION Spec
CONSTANTS
    Callers = {caller1, caller2}
    caller1 = caller1
    caller2 = caller2
    Revs <- MCRevs
    MaxCalls = 3
    Apps = {app1, app2}
    app1 = app1
    app2 = app2
    Users = {user1, user2}
    user1 = user1
    user2 = user2
    Pins = {5000}
    Picks = {1, 2, 3}
    MaxAsked = 2
    MaxUses = 3
    Overlap = FALSE
    Kinds = {"web", "php", "worker"}
    MaxCopies = 2
    MaxDeploys = 2
    MaxCommands = 4
    MaxFaults = 1
    Projects <- MCProjects
    MaxContainers = 2
    MaxMoves = 1
    MaxOps = 3
    MaxFailures = 2
INVARIANTS
    DeploysToldTruly
    PinnedPortsDiffer
    DeployLeavesProcfile
    OkMeansDone
PROPERTIES
    DirectoryGoesLast
    SwitchKeepsServing
CHECK_DEADLOCK FALSE
