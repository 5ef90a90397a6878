------------------------------ MODULE StatRows ------------------------------
(***************************************************************************)
(* The supervisor's process table and the statistics it shows of it        *)
(* (riku-supervisor process/health_check.rs, process/spawn.rs, stats/,     *)
(* daemon/config_watcher.rs, daemon/periodic.rs), for the workers of one   *)
(* app without a health check: a changed config replaces the process.      *)
(*                                                                         *)
(* Rows are kept apart from processes: a row is registered by a spawn,     *)
(* changed by scans, and outlives its process until the app is gone.       *)
(***************************************************************************)
EXTENDS Budget

CONSTANTS
    Workers,        \* the app's worker configs
    MaxRestarts,    \* a worker's max_restarts
    MaxLoads        \* bound: deploys of the app, destroy included

NoRow == "no row"
NotManaged == "not managed"

VARIABLES
    config,     \* worker -> "absent", "new" (not yet loaded) or "loaded"
    watched,    \* workers in watched_configs
    appExists,  \* the app's directory exists
    process,    \* worker -> NotManaged, or "up" or "down"
    tries,      \* worker -> its process's restart_count
    row,        \* worker -> NoRow or its row's status
    rowTries,   \* worker -> its row's restart_count
    since,      \* worker -> restarts since its config was last written
    loads

rowState == <<config, watched, appExists, process, tries, row, rowTries, since, loads>>
rowVars == <<rowState, faults>>

RowInit ==
    /\ config = [w \in Workers |-> "absent"] /\ watched = {}
    /\ appExists = FALSE
    /\ process = [w \in Workers |-> NotManaged] /\ tries = [w \in Workers |-> 0]
    /\ row = [w \in Workers |-> NoRow] /\ rowTries = [w \in Workers |-> 0]
    /\ since = [w \in Workers |-> 0]
    /\ loads = 0 /\ faults = 0

Set(f, w, x) == [f EXCEPT ![w] = x]
Marked(w, status) == IF row[w] = NoRow THEN row ELSE Set(row, w, status)

-----------------------------------------------------------------------------
(* What commands do to the files; the supervisor hears of it later.        *)

WriteConfig(w) ==
    /\ loads < MaxLoads /\ loads' = loads + 1
    /\ appExists' = TRUE
    /\ config' = Set(config, w, "new") /\ since' = Set(since, w, 0)
    /\ UNCHANGED <<watched, process, tries, row, rowTries>> /\ NoFault

\* riku stop or destroy removes the configs, destroy the directory after them.
RemoveConfigs ==
    /\ \E w \in Workers : config[w] # "absent"
    /\ config' = [w \in Workers |-> "absent"]
    /\ UNCHANGED <<watched, appExists, process, tries, row, rowTries, since, loads>> /\ NoFault

RemoveDirectory ==
    /\ appExists /\ \A w \in Workers : config[w] = "absent"
    /\ appExists' = FALSE
    /\ UNCHANGED <<config, watched, process, tries, row, rowTries, since, loads>> /\ NoFault

-----------------------------------------------------------------------------
(* Config events, and the reload a SIGHUP asks for.                        *)

\* spawn_process stops what runs under the id, then registers the row, which keeps its
\* restarts.  A failed spawn leaves nothing managed and the row as the stop left it.
SpawnFor(w, count) ==
    \/ /\ NoFault
       /\ process' = Set(process, w, "up") /\ tries' = Set(tries, w, 0)
       /\ row' = Set(row, w, "Starting")
       /\ rowTries' = Set(rowTries, w, IF row[w] = NoRow THEN 0 ELSE count)
    \/ /\ Fault
       /\ process' = Set(process, w, NotManaged) /\ tries' = Set(tries, w, 0)
       /\ row' = IF process[w] = NotManaged THEN row ELSE Marked(w, "Stopped")
       /\ rowTries' = Set(rowTries, w, count)

LoadConfig(w, count) ==
    /\ config[w] = "new"
    /\ config' = Set(config, w, "loaded") /\ watched' = watched \cup {w}
    /\ SpawnFor(w, count)
    /\ UNCHANGED <<appExists, since, loads>>

\* handle_file_event resets the row's restarts; reload_all_configs does not.
HandleFileEvent(w) == LoadConfig(w, 0)
ReloadConfig(w) == LoadConfig(w, rowTries[w])

\* MUTANT: the process is stopped and its row is left alone.
StopProcessById(w) == process' = Set(process, w, NotManaged) /\ row' = row

StopById(w) ==
    /\ process' = Set(process, w, NotManaged)
    /\ row' = IF process[w] = NotManaged THEN row ELSE Marked(w, "Stopped")

\* unload_config: the process is stopped; when the app is gone so are all its rows.
UnloadConfig(w) ==
    /\ config[w] = "absent" /\ w \in watched
    /\ watched' = watched \ {w}
    /\ IF appExists THEN StopById(w)
       ELSE process' = Set(process, w, NotManaged) /\ row' = [v \in Workers |-> NoRow]
    /\ UNCHANGED <<config, appExists, tries, rowTries, since, loads>> /\ NoFault

-----------------------------------------------------------------------------
(* The maintenance pass.                                                   *)

Crash(w) ==
    /\ process[w] = "up" /\ process' = Set(process, w, "down")
    /\ UNCHANGED <<config, watched, appExists, tries, row, rowTries, since, loads>> /\ NoFault

MarkRunning(w) ==
    /\ process[w] = "up" /\ row[w] # "Running" /\ row[w] # NoRow
    /\ row' = Marked(w, "Running")
    /\ UNCHANGED <<config, watched, appExists, process, tries, rowTries, since, loads>> /\ NoFault

\* A crashed process out of restarts is removed from supervision for good.
GiveUp(w) ==
    /\ process[w] = "down" /\ tries[w] >= MaxRestarts
    /\ row' = Marked(w, "Crashed")
    /\ process' = Set(process, w, NotManaged)
    /\ UNCHANGED <<config, watched, appExists, tries, rowTries, since, loads>> /\ NoFault

\* restart_process, once its backoff is over: the row is marked, the old process dropped,
\* and the config it had spawned again.  An error there loses the process.
RestartProcess(w) ==
    /\ process[w] = "down" /\ tries[w] < MaxRestarts
    /\ rowTries' = Set(rowTries, w, IF row[w] = NoRow THEN 0 ELSE rowTries[w] + 1)
    /\ \/ /\ NoFault
          /\ process' = Set(process, w, "up") /\ tries' = Set(tries, w, tries[w] + 1)
          /\ row' = Set(row, w, "Starting")
          /\ since' = Set(since, w, since[w] + 1)
       \/ /\ Fault
          /\ process' = Set(process, w, NotManaged) /\ UNCHANGED <<tries, since>>
          /\ row' = Marked(w, "Restarting")
    /\ UNCHANGED <<config, watched, appExists, loads>>

\* forget_stopped_apps, with every write of the statistics.
ForgetDestroyedApps ==
    /\ ~appExists /\ \E w \in Workers : row[w] = "Stopped"
    /\ row' = [w \in Workers |-> IF row[w] = "Stopped" THEN NoRow ELSE row[w]]
    /\ UNCHANGED <<config, watched, appExists, process, tries, rowTries, since, loads>> /\ NoFault

RowNext ==
    \/ \E w \in Workers :
          \/ WriteConfig(w) \/ HandleFileEvent(w) \/ ReloadConfig(w) \/ UnloadConfig(w)
          \/ Crash(w) \/ MarkRunning(w) \/ GiveUp(w) \/ RestartProcess(w)
    \/ RemoveConfigs \/ RemoveDirectory \/ ForgetDestroyedApps

RowSpec == RowInit /\ [][RowNext]_rowVars

-----------------------------------------------------------------------------
(* Whatever deploys, crashes, restarts and failed spawns follow each other,  *)
(* the metrics never show a worker as running or starting that nothing       *)
(* supervises any more.                                                      *)
RowsTellTheTruth ==
    \A w \in Workers : row[w] \in {"Running", "Starting"} => process[w] # NotManaged

Settled == \A w \in Workers : config[w] = "absent" /\ w \notin watched /\ row[w] # "Stopped"

(* What unload_config and forget_stopped_apps are for: once a destroyed      *)
(* app's configs are unloaded and the statistics written, no row is left.    *)
(* Not so: a row left at Crashed or Restarting by an unload that came before *)
(* the directory went is forgotten by neither.                               *)
NoGhostRows == ~appExists /\ Settled => \A w \in Workers : row[w] = NoRow

(* What reset_restarts is for: a row counts the restarts since the deploy.   *)
(* Not so: a config that a SIGHUP pass loads first keeps the old count.      *)
CountsSinceDeploy ==
    \A w \in Workers : config[w] = "loaded" /\ row[w] \in {"Starting", "Running"} => rowTries[w] = since[w]
=============================================================================
