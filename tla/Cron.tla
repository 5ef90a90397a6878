-------------------------------- MODULE Cron --------------------------------
(***************************************************************************)
(* The supervisor's cron scheduler and the thread pool that runs its jobs  *)
(* (riku-supervisor daemon/cron_tasks.rs, daemon/image_watch.rs, periodic.rs*)
(* and riku-util cron/).                                                   *)
(*                                                                         *)
(* Time is a counter of check periods.  A job is one cron line of the app's*)
(* Procfile; its schedule is a period.  The scheduler keeps one next_run   *)
(* per job: a check hands every due job to the pool and moves next_run on  *)
(* from the occurrence that was due, so that occurrences missed while the  *)
(* loop was busy are caught up one per check.  Loading a cron config drops *)
(* and reloads every job of the app.                                       *)
(***************************************************************************)
EXTENDS Budget, FiniteSets, Sequences

CONSTANTS
    Jobs,           \* cron lines an app's Procfile may have
    Period,         \* job -> check periods between two of its occurrences
    MaxNow,         \* bound: how far time runs
    PoolSize,       \* threads in the pool (10 in the code)
    MaxEvents,      \* bound: cron config events
    MaxPulls        \* bound: watched image checks handed to the pool

ASSUME CronAssumption == Period \in [Jobs -> Nat \ {0}] /\ MaxNow \in Nat \ {0}

Unset == 0

VARIABLES
    now,
    lines,      \* the jobs in the app's Procfile
    nextRun,    \* job -> its next occurrence, Unset when it is not scheduled
    loadedAt,   \* job -> when it was last loaded
    appDir,     \* whether the app's directory exists
    waiting,    \* tasks in the pool's queue, oldest first
    running,    \* tasks on its threads
    fired,      \* how often each occurrence was handed to the pool
    loop,       \* the event loop: "run", "join", "exited"
    events, pulls

cronState == <<now, lines, nextRun, loadedAt, appDir, waiting, running, fired, loop, events, pulls>>
cronVars == <<cronState, faults>>

Occurrences(j) == {t \in 1..(MaxNow + Period[j]) : t % Period[j] = 0}

\* calculate_next_run_after: the first occurrence strictly after t.
NextRunAfter(j, t) == CHOOSE n \in Occurrences(j) : n > t /\ \A m \in Occurrences(j) : m > t => n <= m

CronInit ==
    /\ now = 1
    /\ lines \in SUBSET Jobs
    /\ nextRun = [j \in Jobs |-> Unset] /\ loadedAt = [j \in Jobs |-> Unset]
    /\ appDir = TRUE
    /\ waiting = <<>> /\ running = {}
    /\ fired = [j \in Jobs |-> [t \in Occurrences(j) |-> 0]]
    /\ loop = "run" /\ events = 0 /\ pulls = 0
    /\ faults = 0

Pass ==
    /\ now < MaxNow /\ now' = now + 1
    /\ UNCHANGED <<lines, nextRun, loadedAt, appDir, waiting, running, fired, loop, events, pulls>> /\ NoFault

-----------------------------------------------------------------------------
(* Config events of the app's cron workers, handled by the event loop.     *)

RemoveAppJobs == nextRun' = [j \in Jobs |-> Unset]

Event == loop = "run" /\ events < MaxEvents /\ events' = events + 1

\* load_cron_jobs: all of the app's jobs go, then every valid cron line of the
\* Procfile is added.  An unreadable Procfile leaves none.
LoadCronJobs ==
    /\ Event
    /\ \/ /\ nextRun' = [j \in Jobs |-> IF j \in lines THEN NextRunAfter(j, now) ELSE Unset]
          /\ loadedAt' = [j \in Jobs |-> now] /\ NoFault
       \/ RemoveAppJobs /\ UNCHANGED loadedAt /\ Fault
    /\ UNCHANGED <<now, lines, appDir, waiting, running, fired, loop, pulls>>

\* unload_config of one cron config, or of any config once the app is destroyed,
\* drops every job of the app.
UnloadCron ==
    /\ Event /\ RemoveAppJobs
    /\ UNCHANGED <<now, lines, loadedAt, appDir, waiting, running, fired, loop, pulls>> /\ NoFault

\* A deploy changes the Procfile; a destroy takes the directory with it.  Both
\* come before the config events that follow from them.
EditProcfile ==
    /\ appDir /\ events < MaxEvents
    /\ \/ lines' \in SUBSET Jobs /\ UNCHANGED appDir
       \/ lines' = {} /\ appDir' = FALSE
    /\ events' = events + 1
    /\ UNCHANGED <<now, nextRun, loadedAt, waiting, running, fired, loop, pulls>> /\ NoFault

-----------------------------------------------------------------------------
Task(j, t) == [job |-> j, at |-> t]
Due == {j \in Jobs : nextRun[j] # Unset /\ now >= nextRun[j]}
Orders(S) == {s \in [1..Cardinality(S) -> S] : \A i, k \in DOMAIN s : s[i] = s[k] => i = k}

\* MUTANT: next_run is counted from the clock, not from the occurrence that was due.
MarkJobRunFromNow(j) == NextRunAfter(j, now)

\* mark_job_run.
MarkJobRun(j) == NextRunAfter(j, nextRun[j])

\* check_cron_jobs: the due jobs, in no particular order, go to the pool.
CheckCronJobs ==
    /\ loop = "run" /\ Due # {}
    /\ \E order \in Orders(Due) :
          waiting' = waiting \o [i \in DOMAIN order |-> Task(order[i], nextRun[order[i]])]
    /\ fired' = [j \in Jobs |-> IF j \in Due THEN [fired[j] EXCEPT ![nextRun[j]] = @ + 1] ELSE fired[j]]
    /\ nextRun' = [j \in Jobs |-> IF j \in Due THEN MarkJobRun(j) ELSE nextRun[j]]
    /\ UNCHANGED <<now, lines, loadedAt, appDir, running, loop, events, pulls>> /\ NoFault

\* check_watched_images: one pull per watched service, on the same pool, whether
\* or not the one before has ended.
CheckWatchedImages ==
    /\ loop = "run" /\ pulls < MaxPulls
    /\ pulls' = pulls + 1
    /\ waiting' = Append(waiting, Task("pull", pulls'))
    /\ UNCHANGED <<now, lines, nextRun, loadedAt, appDir, running, fired, loop, events>> /\ NoFault

StartTask ==
    /\ waiting # <<>> /\ Cardinality(running) < PoolSize
    /\ running' = running \cup {Head(waiting)}
    /\ waiting' = Tail(waiting)
    /\ UNCHANGED <<now, lines, nextRun, loadedAt, appDir, fired, loop, events, pulls>> /\ NoFault

\* A task ends however its command or its pull did.
EndTask ==
    /\ \E t \in running : running' = running \ {t}
    /\ UNCHANGED <<now, lines, nextRun, loadedAt, appDir, waiting, fired, loop, events, pulls>> /\ NoFault

StopLoop ==
    /\ loop = "run" /\ loop' = "join"
    /\ UNCHANGED <<now, lines, nextRun, loadedAt, appDir, waiting, running, fired, events, pulls>> /\ NoFault

\* cron_thread_pool.join() returns once nothing waits and nothing runs.
JoinPool ==
    /\ loop = "join" /\ waiting = <<>> /\ running = {}
    /\ loop' = "exited"
    /\ UNCHANGED <<now, lines, nextRun, loadedAt, appDir, waiting, running, fired, events, pulls>> /\ NoFault

CronNext ==
    \/ Pass \/ LoadCronJobs \/ UnloadCron \/ EditProcfile \/ CheckCronJobs
    \/ CheckWatchedImages \/ StartTask \/ EndTask \/ StopLoop \/ JoinPool

CronSpec == CronInit /\ [][CronNext]_cronVars

-----------------------------------------------------------------------------
(* A job that is scheduled has run once for every occurrence from its last  *)
(* load up to its next_run, however late the checks came, and no occurrence *)
(* runs twice, whatever is reloaded in between.                             *)
OncePerOccurrence ==
    /\ \A j \in Jobs : \A t \in Occurrences(j) : fired[j][t] <= 1
    /\ \A j \in Jobs : nextRun[j] # Unset =>
          \A t \in Occurrences(j) : loadedAt[j] < t /\ t < nextRun[j] => fired[j][t] = 1
=============================================================================
