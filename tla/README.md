# TLA+ models of riku

riku is a small self-hosted platform: a command line and a git hook deploy apps,
a supervisor daemon keeps their processes running, a container engine runs their
containers, and a routing helper points nginx or Caddy at the copies that serve.
This directory models the parts of it where several actors or several failures
meet, model-checks them with TLC and proves the safety properties of most of them
for every value of their constants with TLAPS.

## 1. Inventory

Paths are below `src/crates/`.

| part | state it keeps | operations | what is hard |
|---|---|---|---|
| Rolling replacement, `riku-deploy/src/rolling` | none of its own: the copies the runtime lists, the router's backends | `replace_all`, `scale_to` | every call can fail, and the next run starts from what the failed one left |
| Copy runtimes, `riku-deploy/src/containers/runtime.rs`, `workers/process_runtime.rs` | containers; worker config files | `live`, `start`, `wait_healthy`, `stop`, `discard` | a dead container is still listed; a stop may succeed and the removal fail |
| Deploy lock, `riku-deploy/src/lock.rs` | one file per app: an flock and a tag | `acquire`, `acquire_for_deploy`, `acquire_for_restart`, `is_locked` | the tag is written after the flock, in two steps, and never cleared |
| Deploys, `riku-cli/src/git`, `riku-deploy/src/lib.rs`, `releases.rs` | checkout, bare repository, release log | push, deploy, rollback, deploy from a path | part of the work is done before the lock; a failure must reach `git push` |
| Procfile workers, `riku-deploy/src/workers`, `scaling.rs`, `worker_control.rs`, `app_stop.rs`, `riku-cli/src/apps` | `workers-available`, links in `workers-enabled`, ENV, SCALING, sockets | deploy, scale, stop, park, restart, hot reload, config changes | several files per command, not all of them under the lock, not all of them signalled; ports of two apps |
| Container apps, `riku-deploy/src/containers` | containers, images, SCALING | deploy, restart, stop, scale, update, destroy | long sequences of engine calls; the switch from a Procfile |
| Creation and destruction, `riku-cli/src/apps/destroy*.rs`, `riku-deploy/src/teardown.rs` | all files of an app | create, backup, restore, destroy | killed half-way, run again |
| Routing helper, `riku-route/src`, client in `riku-deploy/src/router` | site files, the router's running config | apply, remove, check | install, check, reload and restore are separate steps; the client's limit may pass before the helper is done |
| Certificate renewal, `riku-deploy/src/router/renew.rs` | none of its own | list the backends, publish them | takes no deploy lock |
| Process manager, `riku-supervisor/src/process`, `stats`, `cgroups` | map of processes, ring of generations, probe outcomes, pid markers, rows | spawn, stop, check, deploy a generation, reconcile | probe threads report on generations that may be gone; processes die, fork and leave their group |
| Config watcher and event loop, `riku-supervisor/src/daemon` | `watched_configs` (file to modification time) | file events, reload on SIGHUP, initial load | events and reloads overlap with writes; an error of one event ends the daemon |
| Supervisor start, `daemon/init.rs`, `startup.rs`, `riku-deploy/src/supervisor_ctl.rs` | pid file, markers | open, lock, write, signal, unlink | two supervisors at once |
| Container watch, `riku-supervisor/src/containers`, `riku-deploy/src/containers/copy_restart.rs` | known containers, tally, restart threads | list, follow events, restart dead copies | decided before the deploy lock is held, done after |
| Cron, `daemon/cron_tasks.rs`, `daemon/image_watch.rs`, `riku-util/src/cron` | next run per job, a thread pool | load, check, run | late checks, reloads between them, a full pool |
| Logs, `containers/log_*.rs`, `log_rotation` | a cursor per container, rotated files | pull, append, rotate | capped calls, shared stamps, renames under a writer |
| Endpoint, `riku-supervisor/src/health` | broadcast channel, stats file | stream, control requests | slow readers, commands run inside the supervisor |
| Plugins and addons, `riku-plugins/src` | bundles, lock file, instance records | call, install, remove, bind | pipes and timeouts; no lock over any of it |
| Agent interface, `riku-cli/src/agent` | rate file, audit log, tokens | requests | each is a process of its own |
| Host setup, `riku-cli/src/setup` | units, groups, directories, router includes | `riku init` | run again, for another router, after a reboot |
| Remote client, `riku-remote/src` | list of servers, an ssh session | choose a host, forward, dashboard | secrets over one stdin, two output streams |
| Argument parsing, compose parsing, config text, dashboard pages, helpers | none | parsing, printing, text generation | sequential code that unit tests reach |

**How the parts interact.** A deploy takes the app's deploy lock, syncs and builds,
and calls `replace_all` for the routed service, which starts and stops copies through
a runtime and publishes the backends through the router client to the helper. The
process runtime does not start processes: it writes worker configs, which the
supervisor's watcher turns into calls of the process manager. The supervisor also
takes the deploy lock, for each container it restarts. So the lock (`DeployLock`)
orders the runs of `Rolling`, the commands of `Push` and `Rollout` and the threads of
`CopyRestart`; `RouterHelper` is the router behind their publishes; `Watcher` is how
the supervisor learns of the configs that `WorkerFiles` and `Ports` write;
`Generations`, `WorkerStop` and `StatRows` are what it then does with them.

**What makes each part correct.** Replacement: a failed run never takes down what
served, runs do not add up copies, an Ok means the wanted copies run and are
routed. Lock: one holder, a tag a reader can trust, no contender kept waiting for
ever. Deploys: what is reported and recorded is what runs. Workers: a deploy leaves
what the Procfile says, and no port is given twice. Container apps: Ok means done,
and a switch keeps the old app until the new one serves. Destroy: it can be run again
until nothing is left. Helper: a refused config never stays. Process manager: only a
proven canary takes over, nothing outlives its config or its marker. Watcher: the
running set follows the files. Container watch: what a command removed stays removed,
the rest comes back, within its limit. Cron: once per occurrence. Logs: once, in
order. Around it: plugin calls end, half-made bundles are noticed, data in use is
kept, limits hold, secrets reach their reader, an init leaves a whole host.

## 2. Modules

| module | models | extends |
|---|---|---|
| `Rolling` | `replace_all`, `scale_to`, both runtimes, the router as their callers see it | |
| `RollingRenew` | the same with `riku router-renew` beside it | `Rolling` |
| `RollingProofs` | theorems about `Rolling` and `RollingRenew` | `RollingRenew`, `TLAPS` |
| `DeployLock` | `lock.rs` | |
| `DeployLockProofs` | theorems about `DeployLock` | `DeployLock`, `TLAPS` |
| `Generations` | the process manager for one worker | |
| `SupervisorProofs` | theorems about `Generations` and `Watcher` | those, `TLAPS` |
| `RouterHelper` | the helper and its clients, nginx and Caddy | instantiates `RouteTable` |
| `RouterHelperProofs` | theorems about `RouterHelper` | `RouterHelper`, `TLAPS` |
| `RouteTable` | what the helper promises: a table of routes changed one request at a time | |
| `Watcher` | the worker config files, the commands that change them, the supervisor's watch and reload | |
| `CopyRestart` | the container watch and its restarts beside commands on the same app | |
| `CopyRestartProofs` | theorems about `CopyRestart` | `CopyRestart`, `TLAPS` |
| `Rollout` | the commands on a container app | |
| `Push` | the commands that deploy an app, and its release log | `Budget` |
| `Ports` | ENV, SCALING, web copies and pinned ports of two apps | `Budget` |
| `WorkerFiles` | worker configs, sockets and routing keys of one app over its deploys | `Budget` |
| `AppFiles` | everything an app has on the host, from create to destroy | `Budget` |
| `CommandsProofs` | theorems about `Push`, `Ports`, `WorkerFiles`, `AppFiles` and `Rollout` | those, `TLAPS` |
| `SupervisorPid` | the pid file, supervisors that start and stop, deploys that look for one | `Budget` |
| `Cron` | scheduled jobs, image checks and the thread pool | `Budget` |
| `ContainerLogs` | copying container output | `Budget` |
| `LogFiles` | capture and rotation of a worker's log | `Budget` |
| `WorkerStop` | one worker process from spawn to the end of its stop | `Budget` |
| `StatRows` | process table and statistics rows | `Budget` |
| `DaemonProofs` | theorems about `SupervisorPid`, `StatRows`, `WorkerStop`, `Cron`, `ContainerLogs` and `LogFiles` | those, `TLAPS` |
| `PluginCall` | one call of a plugin, from each of its callers | `Budget` |
| `PluginFiles` | installed bundles and their lock file | `Budget` |
| `Addons` | addon instances, their records, data and keys | `Budget` |
| `ControlPlane` | the stats stream and the control routes | `Budget` |
| `Agent` | requests of an agent: rate limit, scope, audit | `Budget` |
| `HostSetup` | `riku init` | `Budget` |
| `RemoteTarget` | the list of servers and where a command runs | `Budget` |
| `RemoteSession` | the remote dashboard | `Budget` |
| `HostProofs` | theorems about `PluginCall` to `RemoteSession` | those, `TLAPS` |
| `Budget` | the count of faults that a behaviour may still have | |
| `MCCommands`, `MCDaemon`, `MCHost` | several of the smaller modules in one run | the modules they name |
| other `MC...` | constants for TLC | the module named |

The three MC modules that put several components into one run choose one of them at
the start (`focus`) and step only that one. The components there do not share state;
what they share with the larger modules is named in their headers (the lock, the
replacement of copies, the watch), and is one step there with every outcome the larger
module allows.

### Rolling

`exists`, `up`, `proven` and `routes` are the world: the copies the runtime has,
those whose process runs, those that passed `wait_healthy`, and those the router
sends to. `copies`, `routable`, `surplus`, `old`, `fresh` and `victim` are the
local variables of a run. A copy is its index and the run that started it, since
an index is used again. `Begin` is the head of both functions; each later action
is one call to the runtime or router together with the list updates around it:
`StartCopy`/`StartFails`, `Healthy`/`Unhealthy`, `PublishAdded`/`...Fails`,
`Drain`/`DrainFails` (retain, publish unless empty), `StopCopy`/`StopFails`.
`NextCall` is the control flow of the three loops of `replace_all` and the two of
`scale_to`. Failures leave what the code leaves: a failed start may have created
the copy, a failed discard or removal keeps it, an unconfirmed publish may have
been applied. `Die` and `Kill` are the environment.

The two runtimes differ in what `live` says of a dead copy: a dead container is
listed without a backend, a worker config is listed with its address whether or
not the process runs. That is the constant `Runtime`.

### RollingRenew

`RenewLists` is the listing of the backends in `renew_with`, `RenewApplies` its
publish, with any steps of a replacement between them, since a renewal takes no
deploy lock. `alone` is history: no renewal was under way since the run began.

### DeployLock

`holder` is the flock, `tag` the file's content, `pc` where each process is,
`waited` its clock in `retry_acquire`. The flock, the read of the tag and the two
halves of `record_holder` are separate actions, so a contender's decision can fall
anywhere between them. `RecordFails` and the death of a process release the flock
as the kernel does. A probe (`is_locked`) takes the flock and records nothing.

### Generations

`procs` maps the canonical slot (key 0) and the temporary keys to processes,
`gens` gives the status of each version in the ring, `probes` are the threads that
have not reported, `results` is `probe_results`, and `batch` the outcomes one
reconcile pass has taken. `Load`, `Deploy`, `Replace`, `Remove` and `UnloadFails`
are the watcher's calls, `Restart` and `GiveUp` the two results of
`check_processes` for one process (back-off makes any subset of them happen in one
pass), and `Reconcile`, `Fail`, `PromoteNothing`, `PromoteStop`, `PromoteSwap` a
reconcile pass. A promotion is two actions because it waits for the old process to
stop, and the canary may die meanwhile. On an outcome `cfg` (the config probed) and `by` (the one
whose process answered), and `serial` (no two redeploys have overlapped so far) and
`reused` (a version was used again before the outcome of its earlier use was applied) are
history for the properties and guard nothing.

A config is a number; `Checked` are those with a health check, `Answering` those
whose process answers it, `PortOf` their ports: whichever process listens on the port
answers a probe (`Answers`), and a hot reload keeps the port. Statistics, log files, cgroups
and event texts are left out. A config with a health check but no `PORT` is
refused before anything changes and is not enumerated.

### RouterHelper and RouteTable

`queue` is the listen backlog, `disk` the files of each app and `live` what the
router has loaded, both by the request that wrote each file. A request is served in
the steps of `commit`: snapshot (`Begin`), one file at a time (`InstallFile`), the
router's check (nginx only; Caddy checks when it reloads), reload, answer, and on
any failure the restore of each file (`RestoreFile`), after which it is answered
Failed. The router reads the files of all apps, so a file left by one request can
make the check of another fail. A failed restore and a helper killed at any step
are `Faults`. A client whose time limit passes changes nothing here: its request
stays in the backlog and is applied in its turn, which is the late publish that
`Rolling` has as an unconfirmed one.

`RouteTable` is a few lines of behaviour: a request appears, is applied to the table or
refused, in order; a helper that is started again refuses all that are open. Its one
failure (`broken`) is a restore that failed or a kill in the middle of a request, after
which it promises nothing. The refinement maps `live` to the table (a mixture of files of
two requests maps to no route at all), a request's outcome to the moment the router has
loaded it, and the history variable `whole` to `broken`. It is a safety specification:
that each request is answered is not claimed, since the helper runs nginx without a time
limit (`riku-route/src/nginx_run.rs:17-29`, `spawn.rs:34-36`).

### Watcher

A worker is a file in `workers-available` (`mtime`, `text`) and a link in
`workers-enabled`. Each command is the sequence of file operations it makes
(`Redeploy`, `Rewrite`, `Retire`, `StopApp`, `Migrate`, `RestartApp`, `HotReload`), one
action per operation, two commands at a time, each of which may be killed. The
daemon is `mode` (down, loading, up, in a SIGHUP pass), the FIFO `events` of its
watch, the flag `hup` (`RELOAD_COUNTER > 0`), the recorded times `watched`, and
`runs`, the text each worker was last started from. Between the daemon's `stat` of a
file and its read, or the reverse, commands go on, as in the code: a new config is
loaded and then its time is read (`LoadInitial`/`PassLoad`, then `Stat`), a changed
one is the other way round (`LookAt`/`HandleModify`, then `PassApply`/`HandleApply`).
Errors in an event or in the initial load end the daemon, errors in a SIGHUP pass
are logged. `untold`, `missed` and `asked` are history.

What the code leaves to the platform: whether a write through a link is reported by
a watch of the directory of the link (both are allowed), and that a file written
later has a later modification time (assumed). A directory listing is taken at
once. Reading a config and spawning its process is one step. Events of type Create
are left out: every command renames a finished link into place, which is a Modify.

### CopyRestart

`slot` is the engine's container in each slot, `routes` what the router sends to,
`lock` the holder of the deploy lock. The watch is `known` (by name), the event
`stream` and its `feed`, the `tally` of restarts, `inFlight`, `reports` not yet
collected, and `step`, where its tick is. A tick drains events or lists
(`MergeInspected`), observes copies, collects reports and dispatches restarts; each
restart is a thread (`TakeLock`, `DeadCopy`, `RemoveDead`, `StartSlot`, `WaitHealthy`,
`ReconfigureRouter` or `RerouteAfterFailure`, `Finish`). Commands empty and refill slots
under the lock. Containers exit, events are lost with the stream, engine and router
calls fail, and the supervisor crashes and opens a new watch. `removed`, `restarts`,
`misrouted` and `crossed` are history; `crossed` are the slots whose thread replaced
another copy than the one it was asked to restart.

### Rollout

A command loads the compose project of the checkout (`LoadApp`), and then takes its own
sequence: counts, images, release container, services in dependency order with the
wait for healthy ones, routes, dropped services, Procfile workers for a deploy; unroute,
containers and network for a stop or destroy; `ScaleTo` and SCALING for a scale. The
replacement of one service's copies is one step with any mix of old and new as the
outcome of a failure. Copies sicken, tags move, the release container exits when it
likes, and any step may fail or be the last.

### Push, Ports, WorkerFiles, AppFiles

`Push` has the callers of `do_deploy`, the state they share before and under the lock
(`refs`, `dir`, `tree`, `log`) and its fifteen steps; a step fails with an error, by
ending the process, or by a kill. `Ports` has two users and two apps: config changes
write ENV before the deploy that checks it takes the lock, and the check looks at the
other app's ENV and copies with no lock of its own. `WorkerFiles` is
`create_workers_generic` over a Procfile that changes between deploys: stale configs,
routing keys, surplus copies, kinds in hash order, kinds that were dropped.
`AppFiles` is the set of pieces an app has; create, deploy, backup, restore and destroy
add and remove them one at a time.

### SupervisorPid, Cron

`SupervisorPid`: the name `supervisor.pid` points at an inode (`name`), which has a
`text` and an `flock`. A supervisor opens, locks, writes, clears stale markers, listens
and loads, each an action; deploys look for it, remove a stale file, spawn one under
nohup, wait and signal. `torn` is history: somebody removed the name while a live
supervisor had that inode open. `Cron`: time is a counter of check periods, `nextRun` a
job's next occurrence; `CheckCronJobs` hands due jobs to the pool and moves `nextRun` on
from the occurrence that was due.

### ContainerLogs, LogFiles, WorkerStop, StatRows

`ContainerLogs`: lines have a stream and a stamp, a call returns at most `Cap` of them
from a stamp on, merged from two streams (`Merged` gives each line the place the sort
gives it), and the cursor is a stamp and a count. Any line may be of either stream, and
lines of both may share a stamp. `file` has the lines of the appends that went through;
`spilt` has those that an append had written when it failed, with the place where they
stand. `replayed` is history: a container was started again from its first line after part
of its output had been copied.
`LogFiles`: the path names an inode, the capture thread has a handle, the supervisor
shifts, copies and truncates, logrotate renames and creates, at any of those steps.
`ShiftUp` is the loop over the rotated files as what each slot holds after it. `cut` (a
rotation ended between copy and truncate) and `crossed` (logrotate came in the middle of
one) are history. `WorkerStop`: a leader, its group and,
when isolated, its cgroup; SIGTERM, grace, SIGKILL, leftovers, cgroup members, marker, in
the order of `stop.rs`. `StatRows`: rows beside the process table, through loads,
reloads, crashes, restarts and the end of an app.

### PluginCall, PluginFiles, Addons

`PluginCall`: thirteen callers that differ in whether they send a payload, read the
output while the plugin runs, apply a timeout, and what they take a failure for. Pipes
are bounded; a plugin may leave a process behind in its group or out of it, with the
pipe open or not. Output is units, the first of which that is not UTF-8 is `badAt`: a
reader of lines stops there, an answer read as a whole is dropped, `start` and `destroy`
take bytes (`executor.rs:55,64,94,114,234`). `PluginFiles`: a bundle is its hashed entry and its other files,
copied and removed one by one, and the lock file is read, changed and written whole.
`Addons`: a command loads the record, runs the verb, rewrites ENV and saves the record.

### ControlPlane, Agent, HostSetup, RemoteTarget, RemoteSession

`ControlPlane`: each round writes the stats file and then broadcasts; notices about
deployments go over the same channel (`daemon/periodic.rs:95-102`), of which the last
`Ring` messages are kept; a client subscribes, reads the file and then the channel. `Agent`:
clock, lock, read, rewrite of the rate file, then scope, audit log, command, entry.
`HostSetup`: the steps of `riku init` as root or as the deploy user, with what they put
into `host` and clear from `stale`, failures, kills, second runs and reboots, on hosts with
and without systemd, systemd-tmpfiles and nginx's `conf.d`. Without systemd the helper's
step prints a hint and the init goes on and ends well (`helper_install.rs:96-108`);
`start_riku_service` ignores what systemctl says (`system_service.rs:90-111`); run from
the installed binary, nothing is copied (`binary.rs:108-111`).
`RemoteTarget`: server lists loaded and saved whole, and `Resolve` on the client and again
on the server. `RemoteSession`: both ends of the dashboard's ssh session, with chunks on
stderr and lines on stdout in any order. The ends are separate: the command closes stdin,
waits for or kills its local ssh (`StopClient`) and is over, while the server's script
sees the end of stdin, and kills the dashboard, in a step of its own (`ScriptEnds`), after
a dropped link as late as sshd notices.

## 3. Runs

| run | instance | shows |
|---|---|---|
| `rolling_faults` | containers, all faults, 3 runs, counts 0 to 2, with fairness | copies stay consistent (unique indexes, at most one too many, drained before stopped), serving kept where all listed copies are proven, Ok means replaced and routed, every run ends |
| `renew_repair` | processes, failures and kills, 3 runs, renewals at any time | the next replacement without a renewal beside it repairs the routes |
| `lock` | 2 deploys, 1 operation, 1 restart, 1 probe, limits 1 and 2, with fairness | exclusion, the tag names the holder, when a deploy is refused, every contender is answered |
| `generations` | 5 configs, 3 of them with one port as after hot reloads, crashes, spawn and stop errors, overlapping redeploys, with fairness | the ring stays consistent (failed canaries gone, ordered, what is promoted runs the config whose probe was answered on its port), removal stops all (redeploys one at a time), no canary stays undecided |
| `canary_port` | 2 configs, one port | **violation**: the old process answers the canary's probe |
| `helper` | nginx and Caddy, 2 apps, 3 requests, every step may fail, failed restores, a helper that is killed | the helper implements `RouteTable`, leaves nothing refused behind, and keeps a confirmed route in force until the app's next request |
| `watcher` | 2 workers, 2 commands at once, times up to 3, 1 fault, with fairness | running workers follow the files, the daemon comes to rest |
| `watcher_restart` | 1 worker | **violation**: `restart_worker` restarts nothing |
| `copy_restart` | 2 slots, on-failure:1, 3 exits, 1 command, 1 fault, at most 4 of these together, with fairness | removed copies stay removed, routed ones exist, the limit counts across ids, dead copies are handled |
| `commands` | 2 callers and 3 commands on one app; 2 apps, 1 pinned port; 3 kinds, 2 deploys; 4 commands on an app's files; 3 commands and 2 failures on a container app | deploys told truly, ports differ, the Procfile's workers, Ok means done, the switch keeps serving, the directory goes last |
| `daemon` | 3 supervisors and a deploy; 2 jobs and a pool of 1; 4 lines, cap 2; 3 rotated files; 3 processes; 2 workers; 1 fault | one owner, once per occurrence, copied once in order, rotated in order, marker outlasts worker, rows tell the truth |
| `host` | pipe of 1, 2 subscribers; 2 plugins; 2 instances, 2 apps; 3 rounds, 4 messages, ring 2; 3 requests; 2 passwords; 2 inits, 1 reboot; 3 names for 2 machines; 1 fault | calls end whole, broken bundles noticed, data kept, stream catches up, rate holds, secrets reach their reader, host whole, commands find their host |

**Bounds.** `Rolling`: what a run leaves matters to the next one, and what that one
does with it to the one after, so three runs; counts 0 to 2 give surplus,
replacement and growth. `DeployLock`: a grace of 1 and a restart wait of 2 ticks
leave waits below, between and above the limits; two deploys make a deploy contend
with a deploy. `Generations`: versions are reused after three configs; five leave
room for a fault before and after. `MaxFailed` is 1 and `MaxRestarts` 1 so that
pruning and giving up happen. `RouterHelper`: an app's second request meets what its
first left, the third is another app's. `Watcher`: two commands reach every pairing
of two commands on one worker or on two, at any point of a start, an event or a
pass. `CopyRestart`: a limit of 1 and three exits reach the limit, the exit after it, and
the exit of a copy that a command put in place; one command may fall between any two
steps of the watch and its threads. `MaxEvents` bounds exits, commands and faults
together by 4, so all three exits and the command happen in one behaviour, and a fault
takes the place of one of them. `commands`:
two commands that fail or overlap and a third that meets what they left; one fault
makes each single step fail or be the last, and `Rollout`, whose commands are longest,
has two. `daemon` and `host`: each bound is the smallest at which the limit of the code
(cap, ring, pool, pipe, retention, window, rate) is passed, not only reached, or, for
names and processes, at which two that conflict and one that does not are there.
`CHECK_DEADLOCK FALSE`: runs, configs, requests or commands are bounded, and where
no more of them come the system is at rest.

**Fairness.** `Rolling`: weak fairness of a run's next call, since engine commands,
health waits, helper requests and stop waits all have time limits; none for `Begin`,
`Die` or `Kill`. `DeployLock`: each process past its first flock keeps running, its
clock advances, and holders end their work; none for acquiring, giving up or
probing. `Generations`: the event loop calls the maintenance pass again and again,
and a probe thread ends with its window; none for the watcher's calls, crashes or
restarts. `RouterHelper`: none, and no liveness is claimed.
`Watcher`: the daemon's one thread, and its restart by systemd (`Restart=always`);
none for commands. `CopyRestart`: the event loop's tick (with a listing, which is due at
intervals even while events arrive), each restart thread, and the end of a command
that holds the lock; none for exits, events, new commands or crashes.

**Reading `RouteTable`.** `ImplementsTable` shows that a change is whole or absent, in the
order sent and answered truly, through refusals, failures at every step and restarts of an
idle helper. After a failed restore or a kill in the middle of a request the table is
`broken`, and only `NewestApplied` still speaks.

## 4. What the code does not guarantee

Two disagreements of the code with its comments are checked as violations.
`watcher_restart`: `riku-deploy/src/worker_control.rs:58-75` renames a link to the same
file into place and relies on the watch; the event arrives, but `handle_file_event`
compares the time of the file behind the link, which has not changed. `canary_port`: a
canary is probed on its port (`process/orchestration.rs:130`), which
`riku restart --hot` leaves as it was (`apps/hot_reload.rs:17-19`); the stable process
still listens there and answers, so a canary that never answered takes over, although
`orchestration.rs:36-37` and `config_watcher.rs:196-198` say that it is probed first.

The following was met while modelling. It is a definition marked "Not so" in its module,
which TLC refutes, or the properties except it by name. There is no run for it. A property
with such an exception says nothing about the excepted case, so it would not notice that
case getting worse:

| exception | property | what it takes out |
|---|---|---|
| `alone` | `NextRunRepairs` | a renewal beside the run |
| `serial`, `reused` | `SerialRemovalStopsAll`; `RingConsistent` | overlapping redeploys; a version used again while the thread of its first use still runs |
| `whole` | `RefusedNeverLeft`, `ImplementsTable` | after a failed restore, or a kill in the middle of a request |
| `untold`, `missed` | `WatcherConsistent` | a change that neither an event nor a signal has reported; a config recorded under the time of a later file, or not applied |
| `Extra` | `LimitKept` | a restart that hit another copy than the one asked for |
| `Overlap = FALSE` | `PinnedPortsDiffer` | commands of one app that overlap |
| `torn` | `LockKeepsOne` | the pid file's name removed while a live supervisor has it open |
| `loadedAt` | `OncePerOccurrence` | for "none left out", what was due up to the last reload |
| `replayed`, `StreamsApart` | `CopiedOnceInOrder` | a history read again from its first line; for "each once", a stamp shared by both streams |
| `cut`, `crossed` | `LinesStayInOrder` | a rotation that ended between copy and truncate, or that logrotate came into |
| `told` | `MarkerOutlastsWorker` | a stop that reported its failure |
| `overlapped`, `halfGone` | `BrokenIsNoticed` | commands on one bundle that overlap; a removal that stopped half-way |
| `raced`, `unsaved` | `DataLossGuard` | commands on one instance or app at once; a record that could not be saved |
| `unwritten`, `Ring` notices | `StreamCatchesUp` | a stats file that could not be written; stats that the channel dropped for notices |
| `overtaken`, `emptied` | `RateHolds` | a request that waited past one with a later clock; a rate file that could not be written again |
| `silent`, `swapped` | `DeploysToldTruly` | a push whose hook's process ended where the deploy stood; a directory replaced under a deploy |
| `raced` (of `AppFiles`) | `DirectoryGoesLast` | a deploy beside the destroy |
| lists saved whole | `CommandsFindTheirHost` | nothing: it is about the list as saved, in which an update may be lost |
| lost process | `RowsTellTheTruth` | nothing: a row of a process that is gone may go on saying Restarting |

* **Replacement.** The list of a container runtime holds dead containers, and
  `replace_all` keeps the first `want` by index: a dead copy 1 left by a failed removal
  and a serving copy 2, and the next deploy stops copy 2 first (`rolling/replace.rs:161-170`,
  against its doc at 127-129; `OldCopiesServe`). A renewal can put a drained copy back
  just before it is stopped (`router/renew.rs:69-73`).
* **Lock.** A deploy past its grace that reads the tag between the flock of a restart
  and the write of its tag is refused at once (`lock.rs:186`).
* **Generations.** Promoting one of two probing generations drops the other's entry but
  not its process, which survives the removal of its config (`orchestration.rs:247`,
  against 296; `RemovalStopsAll`). Versions start at 1 again once a ring is removed, and a
  promotion frees those above it, so the outcome of an old thread can be taken for that of
  a new canary (`orchestration.rs:62-67`; `reused`).
* **Helper.** nginx runs without a time limit, so one that hangs stops the helper for good
  (`nginx_run.rs:17-29`). A helper killed between removing the files and the reload leaves nginx
  with the site; the repeated removal finds no file, is answered Ok and does not reload
  (`riku-route/src/nginx_apply.rs:132-137`; `RemovalTakesEffect`).
* **Watcher.** A config rewritten between its load and the `stat` after it is recorded as
  loaded, and nothing applies it (`config_watcher.rs:73-80`, `100-102`). A hot reload
  killed half-way leaves an empty config, on which the daemon ends at every start. A
  stop during the initial load is reported by nothing.
* **Container restarts.** A restart that fails after the dead container was removed
  leaves the slot empty for good; with only dead copies left the router keeps pointing at
  a removed one. After a restart whose copy a deploy replaces before the next tick, the
  new copy's count does not start at zero (`tally.rs:49-54`, against
  `docs/docs/runtimes.md:671-672`; `DeployCountsFromZero`). A thread that waits for the
  lock while a command replaces its copy restarts whatever dead copy it then finds
  (`DeadCopy`), and that restart is not counted for the new copy: it may be restarted once
  more than its policy allows. The proof of the limit met this case; `Extra` is the
  exception in `LimitKept`.
* **Container apps.** A release container that still runs makes later deploys and the
  removal of the network fail (`release.rs:87`, `removal.rs:116`). SCALING is truncated
  and written in place (`app.rs:193`).
* **Deploys.** The language runtimes end the process where the deploy stands
  (`env_setup.rs:69,80,108,119`), so a failed push exits 0 (`git/hook.rs:50-51`;
  `PushReportsFailure`) and, from the endpoint, the supervisor ends
  (`health/control.rs:5-7`; `RequestsSpareSupervisor`). The clone, the directory of a deploy
  from a path and the target of a rollback are read or changed before the lock. An app
  deployed from a bare repository does not take pushes (`HookedAppTakesPushes`).
* **Ports and workers.** Two scales at once add up; a kind without a SCALING line scaled
  to n gets n+1; a refused PORT stays in ENV; commands of one app that overlap can give
  one pinned port to two apps (`Overlap`, FALSE in the run). A socket is named after app
  and number, so copies of two uWSGI kinds share one (`router/backends.rs:27`; `OwnSocket`).
  A background kind that left the Procfile keeps running with `RIKU_AUTO_RESTART` off.
* **Destroy.** It takes no deploy lock for a Procfile app; killed between certificates and
  their link it leaves a dangling link (`destroy_files.rs:66-69`).
* **Pid file.** A second start truncates the running one's pid file before it fails to
  lock it; a shutdown gives up the lock before it unlinks; either can leave two
  supervisors (`init.rs:78`; `AtMostOneSupervisor`). A SIGHUP between the pid and the
  listener kills a supervisor not started through nohup.
* **Cron.** A reload at an occurrence loses it; unloading one cron config drops all jobs of
  the app; jobs that hang fill the pool and block the shutdown.
* **Logs.** A copy that stops and comes back is read from its first line again
  (`LoggedOnce`); what an append had written when it failed comes twice
  (`log_pull.rs:242-245,275`); where both streams have lines of one stamp and a call is
  capped among them, the count in the cursor can stand for other lines than were copied,
  which are then lost or doubled (against `log_pull.rs:79-80`); more lines with one stamp
  than the cap make no progress; a rotation
  killed between copy and truncate has the lines twice, and lines written between them
  are lost; a log that logrotate replaces between them is truncated in its place.
* **Stops and rows.** A process that leaves the group of a worker without cgroup survives
  its stop. Rows of a destroyed app may stay (`NoGhostRows`), and a SIGHUP pass keeps the
  old restart count (`stats/manager.rs:153-154`; `CountsSinceDeploy`).
* **Plugins.** A process left behind with the pipe open makes the join wait for ever; a hook
  that prints more than a pipe holds waits for its timeout; `env`, `start` and `destroy` have no
  timeout. Output that is not UTF-8 ends what a line reader passes on, and drops the whole
  answer of a verb that went well (`executor.rs:94`). Overlapping commands lose lock entries (`LockRecordsBundles`). A bind and a
  destroy at once lose data; a bind that cannot save leaves keys without a binding.
* **Agent.** A request that waits past one with a later clock can exceed the limit
  (`auth.rs:59-66,120-122`); an entry that cannot be written after the change is lost
  (`audit.rs:33-35`; `ChangesAreRecorded`).
* **Stream.** A client that lags by more than the channel keeps comes to the oldest message
  kept; if those are all notices, it shows old stats until the next round.
* **Setup and remote.** Without systemd an init ends well with no helper running, and with
  systemctl failing, with no service (`helper_install.rs:96-108`,
  `system_service.rs:90-111`). The ROUTER file changes before the new router's host is set up;
  `riku.service` is started and not restarted, so it keeps the old binary; a Caddyfile
  that names the socket before the drop-in exists leaves Caddy down after a reboot.
  Overlapping server commands lose an update. A remote dashboard that dies leaves the
  session open (`dashboard/mod.rs:103`). A dashboard outlives the command that opened it
  until its script sees the end of stdin, after a dropped link until sshd notices
  (`dashboard/stop.rs:18-32`, `remote_script.rs:36-38`).

## 5. Proofs

Every theorem holds for every value of the constants that the named assumptions of its
module allow: any sets of apps, slots, workers, processes or callers, any counts and
limits, and any number of runs, requests, commands and failures (the bounds of section 3
are constants too). The assumptions say what values are (counts are numbers, the value
for "none" is no member of a set) and, where the code relies on it, more:
`ContentionGrace < RestartWait` (`WaitAssumption`), a broadcast ring and cron periods of
at least 1, a cap on a log call, a size to rotate at and a number of files to keep of at
least 1, slots numbered from 1, pinned ports outside the range that ports are picked
from, a `web` kind among the kinds of a Procfile, a routed service that the compose file
has, and a set `Wants` of counts asked for that is not empty. Hypotheses that a theorem
adds are named with it below. Each proof has the same form: an inductive invariant that is stronger than the property, one lemma or step per
action, and a last temporal step.

**`DeployLockProofs`**: `TypeCorrect`, `Exclusive` (mutual exclusion), `TagIsHolders`,
`RefusalIsLate` and `OperationIsNotWaitedFor`. Mutual exclusion is not inductive by
itself: the invariant `IInv` adds that a probing process is the holder too, which is what
rules out a second holder when a probe ends, and that the tag is the holder's own from the
moment it is written. `RefusalIsLate` follows from it and the definition of `KeepWaiting`:
past the grace, a deploy that reads "restart" goes on waiting until its limit, and while a
restart works the tag is "restart". `OperationIsNotWaitedFor` is the other half;
`OnlyDecides` is the lemma that only a decision leads to another wait.

**`RollingProofs`**: `CopiesStayConsistent`, `ProvenCopiesKeepServing`, `OkIsTrue`, and, with
renewals beside the runs, `NextReplacementRepairs`. A run works on lists that it read once
and updates as it goes, so `RunInv` says how they stand to the world at each call
(`ListInv`: the list, the copy just started and the copy just drained are what the runtime
has, and a proven copy of the list is routable) and how much room is left (`PhaseInv`: a
start finds at most `want` copies, fewer when it may not overlap; a drain leaves a copy).
That is why runs that fail one after the other do not add up. `RouteInv` is the same for
the router: when a copy is stopped, it sends to exactly the routable rest, if there is one. `KeptOfSplit` is the lemma
about the code's split of the sorted list: ranking the copies by index maps those kept one
to one into `1..n`. For `OkIsTrue`, `DoneInv` carries what a finished run left.
For `NextReplacementRepairs`, `RenewInv` claims these two only for a run that no renewal ran
beside (`alone`): what such a run leaves does not depend on the routes it found.

**`SupervisorProofs`**: `RingStaysConsistent`, `RemovalIsComplete` and
`WatcherStaysConsistent`. `RingInv` holds whatever
fails: no version of the ring is above the number of configs written, so that
`NextVersion` (whose `CHOOSE` is well-defined by the least-number principle, lemma `Least`)
is a free one above all others; a probing generation has its process; and a pass is in
the middle of a promotion only with a healthy outcome of a probing generation at hand.
`SerialInv` holds while redeploys come one at a time and stops succeed: at most one
generation probes, its outcome is on its way (in a thread, reported, or taken by the
pass), that outcome was asked for the config its process runs, and no other version has a
process. The last is what makes a removal complete: it stops the probing and the canonical
process only. `RingStaysConsistent` holds for any ports and however redeploys
overlap: `ProbedIsRun` carries, for every thread and outcome of a version that is probing,
the config of its process until a version is `reused`, and `AnsweredInv` that a healthy
outcome came from the port of the config probed. That it came from the canary is false
(`canary_port`). `RingKept`, `RingCleared` and `RingFailed` are the three kinds of
steps.

`WatcherConsistent` speaks of a daemon at rest; `WatcherInv` says what is still on its way
when it is not. A disabled worker that runs has a Remove in the queue, a signal pending, or
a pass that found it gone (`ToStop`); an enabled one that does not run with its text has a
Modify in the queue, a signal, a place in the pass, or is the one being handled
(`ToStart`). Those are right only because a Remove left over from a replaced link is
followed by a Modify (`Overtaken`, `Relinked`), and because a recorded time stands for one
text (`Recorded`): times only grow, and one that is recorded or held by a job is never
above the file's own (`Times`). Each action is a change of one file, of the queue, of one
worker's record or of the pass, and each of these kinds has its lemma.

**`RouterHelperProofs`**: `TypeCorrect`, `ConfirmedRouteStays`, `NothingRefusedLeft` and
`HelperImplementsTable`, all with failed restores and a helper that is killed at any step. `BaseInv` says that the backlog is exactly the unanswered rest of the
requests in the order sent, so that the one served is older than every other open one.
`RouteInv` adds that the files of a confirmed route are its plan on disk too, since a reload
for another app loads them again (`ConfirmedOK`), and that in the middle of an installation
the files passed are the served request's plan (`InstalledOK`). The request served is never
one of the app of a confirmed route: it was sent later and is of another app, since the
route is its app's newest (`ConfirmedApart`). `SnapshotOK` is for the
rollback: as long as the helper is `whole` and while it writes, the snapshot is what the router runs for the served app,
all other files are what it runs, and the files the restore has passed are back.
`HelperImplementsTable` is the whole refinement: each step of the helper is a `Send`,
`Commit`, `Refuse`, `RefuseAll` or `Break` of `RouteTable` or changes nothing of it. The reload is the
commit, which is right because the files loaded are then the plan of the request and
otherwise what was loaded before; a removal that finds no file commits at once.
`OutcomeIs` shows that requests are decided in the order sent.

**`CopyRestartProofs`**: `SlotsStayConsistent` and `RestartsLimited`. `SlotsInv` says who holds
the lock (`LockInv`), that a slot has one restart at a time from its dispatch until its
report is collected (`FlightInv`), that a thread about to fill a slot has emptied it itself
(`RemovedInv`), and that under the lock nothing has changed since the look (`RouteInv`).
For the limit, `CountInv` relates three counts that never agree for long: the restarts
made, the tally, and what the watch knows. `Tracked` has their three relations (nothing in
flight, a restart asked for, a restart made and not reported).

**`DaemonProofs`**: `PidLockKeepsOne`, `MetricsTellTheTruth`, `StopOutlasted`, `CronRunsOnce`,
`OutputCopiedOnce`, `RotationKeepsOrder`. Two
supervisors could own the workers only through two inodes, so `PidInv` says that an owner
has the flock of the inode it opened, and that as long as no name was torn away every live
supervisor that has a file open has the one the name points at; after `torn` the statement
is false (`AtMostOneSupervisor`). `StopInv` follows a stop through its phases: the group is
killed before the cgroup is emptied before the marker goes. `CronInv` adds that what ran lies
before `nextRun`. The truth of the rows is inductive as it stands, with their types.

`OutputCopiedOnce` is about every output whose stamps never go back and every cap. It has two
halves. `StampInv` is for any output: the copied lines are in the order of their stamps,
since a call starts at the cursor's and what is new of it is the end of its merge
(`UnseenIsEnd`). `SortedInv` is for outputs whose equal stamps are of one stream
(`StreamsApart`). There, what one call returns are consecutive lines
(`WholeConsecutive`): were a line before a returned one missing, its stream would have been
capped before it, at a stamp that the returned line does not pass, so both would have that
stamp and be of one stream. Hence the merge gives back the order of recording
(`MergedInOrder`). The lines at the cursor's stamp that were copied before are the first of
the next call, and they are all in it because there are no more of them than the cap
(`FirstAreWhole`, `OneStampWithinCap`): so `Unseen` skips exactly them. `CopyInv` therefore
says that the cursor stands where the file ends (`CursorAt`, `AtEnd`), as long as nothing
was replayed; after that the property is false (section 4). Of an append that failed it says
that the lines written were the next ones, so that they come again and nothing else does. The induction over lines that
this needs is done with the least line that is out of order (`LeastNumber`).

For `RotationKeepsOrder`, `RotateInv` has the order at every step of a rotation and not only
between two: it holds throughout for the rotated files, and for the log itself except
between copy and truncate. A file moves up by at most one slot and one that stays is
overtaken by none (`ShiftMoves`), also when a rename fails. That no kept file is lost needs
how far the rotation is (`SlotsFilled`): after the shift there is one more file above the
first slot than rounds were made, and the copy fills the first.

**`CommandsProofs`**: `DeploysAreToldTruly`, `PinnedPortsAreApart`, `ProcfileIsWhatRuns`,
`DestroyCanBeRepeated`, `CommandsDoWhatTheyReport`, `SwitchesKeepServing`.
* `PushInv`: what a push has deployed and has still to deploy adds up to what it was asked
  for, and whoever runs the steps of `do_deploy` holds the lock and finds the files it
  detected, unless the directory was swapped.
* `PortInv`, for `PortSpec /\ ~Overlap`: of two apps that want one pinned port only one
  passes the check of the ENV files, because each has written its own before it reads the
  other's; and one about to start copies has seen no copy of another app there. When the
  commands of one app overlap this is false (section 4).
* `FileInv`: the kinds written so far have their copies and no others, and once stale
  configs are gone only this deploy writes.
* `FilesInv`: what is left of a destroy is an end of its thirteen steps, and what the steps
  passed were for is gone.
* `RolloutInv`: per command, what the steps it has passed have established (`CmdGoes`), which
  becomes `RolloutDone` when it answers Ok. `ScaleCount` and `LowestOf` are the lemmas on
  which copies a scale keeps.

**`HostProofs`**: one theorem for each of its eight modules.
* `PlaneInv` (stream): nobody reads ahead of what was sent, the file has every round taken,
  and a client past the latest stats shows them or has at least `Ring` messages after them.
* `TargetInv`: a command is on the server it names, or nowhere, from the first hop.
* `CallInv` (plugin calls): the pipe loses nothing, the kernel goes past the wait only when the
  plugin has ended, a reader has all, or all up to what is not UTF-8, or drops all
  (`KeptRight`), and a filter's value has whole answers of calls that ended well.
* `BundleInv`: what a command that has come this far has made of its bundle and its lock entry.
* `AddonInv`: commands that run are about different instances and apps, an app whose ENV has
  an instance's keys is in its record or about to be, and the record loaded is still on disk.
* `SessionInv`: what is on its way to whoever reads stdin at each stage, which ends of the
  session may still be there, and that a dashboard has a script waiting for its end.
* `SetupInv`: what a root run has put in place, per step it has reached, by what the host has.
* `RateInv`: a request let through that the file no longer lists is out of the window of one
  that it does, and the holder of the lock has read all of the file that is in its window;
  hence no window has more than the limit. The file is modelled as a function from the
  requests listed to the times they read.

**Only model-checked.** Liveness (`RunsEnd`, `ContendersAreAnswered`, `ProbingEnds`, `Settles`,
`DeadIsHandled`) needs fairness, which the proof system does not handle. Every other
property of a passing run is stated by a theorem, the refinement `ImplementsTable` too.

## 6. Plan

1. Done: the modules of section 2 and the proofs of section 5.
2. Composition: `CopyRestart` over `DeployLock` in place of its own lock, and
   `WorkerFiles` in front of `Watcher`.

## 7. Not modelled

Argument definitions, help and printing; the read-only checks of `riku doctor`; compose
and Procfile parsing beyond the rules that decide counts and services; nginx and Caddy
text; dashboard pages; sandbox command lines; the language plugins; quickstart, plugin
authoring and file upload of the remote client. These are sequential code whose results
depend on text, not on order or failure. The container engine, ssh, sudo, systemd, git,
acme.sh and the kernel are modelled only by the results the callers handle.
