------------------------------ MODULE MCDaemon ------------------------------
\* The supervisor daemon's own work, each part in behaviours of its own: its
\* pid file (SupervisorPid), scheduled jobs (Cron), what containers log
\* (ContainerLogs), what workers log (LogFiles), how a worker is stopped
\* (WorkerStop) and the rows /metrics shows (StatRows).  "focus" says which; the
\* others stay as they were at the start.
EXTENDS SupervisorPid, Cron, ContainerLogs, LogFiles, WorkerStop, StatRows

VARIABLE focus

MCPeriod == [j \in Jobs |-> IF j = "hourly" THEN 1 ELSE 2]

Init ==
    /\ focus \in {"pid", "cron", "logs", "rotation", "stop", "rows"}
    /\ LogInit
    /\ focus # "logs" => printed = 0 /\ \A l \in Lines : stream[l] = "stdout" /\ stamp[l] = l
    /\ StopInit
    /\ focus # "stop" => deaf = {} /\ stuck = {} /\ ~isolated /\ ~killNode
    /\ CronInit
    /\ focus # "cron" => lines = {}
    /\ PidInit /\ RotateInit /\ RowInit

Next ==
    /\ UNCHANGED focus
    /\ \/ focus = "pid" /\ PidNext /\ UNCHANGED <<cronState, logState, rotateState, stopState, rowState>>
       \/ focus = "cron" /\ CronNext /\ UNCHANGED <<pidState, logState, rotateState, stopState, rowState>>
       \/ focus = "logs" /\ LogNext /\ UNCHANGED <<pidState, cronState, rotateState, stopState, rowState>>
       \/ focus = "rotation" /\ RotateNext /\ UNCHANGED <<pidState, cronState, logState, stopState, rowState>>
       \/ focus = "stop" /\ StopNext /\ UNCHANGED <<pidState, cronState, logState, rotateState, rowState>>
       \/ focus = "rows" /\ RowNext /\ UNCHANGED <<pidState, cronState, logState, rotateState, stopState>>

vars == <<focus, pidVars, cronVars, logVars, rotateVars, stopVars, rowVars>>

Spec == Init /\ [][Next]_vars
=============================================================================
