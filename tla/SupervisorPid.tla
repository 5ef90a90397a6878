---------------------------- MODULE SupervisorPid ----------------------------
(***************************************************************************)
(* The supervisor's pid file: how one supervisor keeps a second from       *)
(* starting (riku-supervisor daemon/init.rs, startup.rs, mod.rs and        *)
(* event_loop.rs), and how deploys find, start and signal it               *)
(* (riku-deploy supervisor_ctl.rs).                                        *)
(*                                                                         *)
(* A supervisor opens the file, truncating it, then takes a flock on what  *)
(* it opened, then writes its pid.  The lock belongs to the inode and the  *)
(* name does not: a deploy that finds a dead pid removes the name, and so  *)
(* does a supervisor that shuts down.  Every step is an action of its own. *)
(***************************************************************************)
EXTENDS Budget

CONSTANTS
    Pids,           \* process ids of supervisors, each used once
    Deployers,      \* deploys that may run at the same time
    MaxByHand,      \* bound: supervisors started by systemd or a user
    MaxSignalled    \* bound: deploys per deployer

ASSUME PidsAssumption == Pids \subseteq Nat \ {0}

NoInode == 0
NoPid == 0
Inodes == Pids      \* the file that a supervisor creates, named after it

VARIABLES
    name,       \* the inode supervisor.pid names, NoInode when it is absent
    text,       \* inode -> the pid written in it, NoPid when it is empty
    flock,      \* inode -> the pid that holds its lock, NoPid when none does
    sup,        \* pid -> where that supervisor is
    fd,         \* pid -> the inode it has open
    nohup,      \* the pids started through nohup, which ignores SIGHUP
    hups,       \* the pids with a reload request pending (RELOAD_COUNTER > 0)
    markers,    \* the pids whose workers have their marker in pids/
    step,       \* deployer -> where in ensure_supervisor_running it is
    found,      \* deployer -> what its call returned: "running" or "not started"
    byHand, signalled,
    torn        \* a name was removed while a live supervisor had its inode open

pidState == <<name, text, flock, sup, fd, nohup, hups, markers, step, found, byHand, signalled, torn>>
pidVars == <<pidState, faults>>

Live(p) == sup[p] \notin {"unused", "dead"}
Free == {p \in Pids : sup[p] = "unused"}
\* Those past the lock and not yet past their shutdown.
Owns(p) == sup[p] \in {"write", "clear", "listen", "load", "run", "stop"}

PidInit ==
    /\ name = NoInode
    /\ text = [i \in Inodes |-> NoPid]
    /\ flock = [i \in Inodes |-> NoPid]
    /\ sup = [p \in Pids |-> "unused"]
    /\ fd = [p \in Pids |-> NoInode]
    /\ nohup = {} /\ hups = {} /\ markers = {}
    /\ step = [d \in Deployers |-> "idle"]
    /\ found = [d \in Deployers |-> "nothing"]
    /\ byHand = 0 /\ signalled = [d \in Deployers |-> 0]
    /\ torn = FALSE
    /\ faults = 0

-----------------------------------------------------------------------------
(* A supervisor, from its start to its end.                                *)

At(p, here, next) == sup[p] = here /\ sup' = [sup EXCEPT ![p] = next]
\* The kernel drops a flock with the process that held it.
LocksOf(p) == [i \in Inodes |-> IF flock[i] = p THEN NoPid ELSE flock[i]]
Deployer == <<step, found, signalled>>

\* systemd, or someone who runs "riku supervisor".
StartByHand(p) ==
    /\ byHand < MaxByHand /\ p \in Free
    /\ byHand' = byHand + 1
    /\ sup' = [sup EXCEPT ![p] = "open"]
    /\ UNCHANGED <<name, text, flock, fd, nohup, hups, markers, Deployer, torn>> /\ NoFault

\* create_pid_file_with_lock: O_CREAT | O_TRUNC, before the lock is asked for.
OpenPidFile(p) ==
    /\ At(p, "open", "lock")
    /\ name' = IF name # NoInode THEN name ELSE p
    /\ fd' = [fd EXCEPT ![p] = name']
    /\ text' = [text EXCEPT ![name'] = NoPid]
    /\ UNCHANGED <<flock, nohup, hups, markers, Deployer, byHand, torn>> /\ NoFault

\* MUTANT: the result of flock is not looked at.
LockPidFileAnyway(p) ==
    /\ At(p, "lock", "write")
    /\ flock' = [flock EXCEPT ![fd[p]] = p]
    /\ UNCHANGED <<name, text, fd, nohup, hups, markers, Deployer, byHand, torn>> /\ NoFault

\* flock LOCK_EX | LOCK_NB; a start that does not get it ends with an error.
LockPidFile(p) ==
    /\ sup[p] = "lock"
    /\ LET got == flock[fd[p]] = NoPid
       IN /\ sup' = [sup EXCEPT ![p] = IF got THEN "write" ELSE "dead"]
          /\ flock' = IF got THEN [flock EXCEPT ![fd[p]] = p] ELSE flock
    /\ UNCHANGED <<name, text, fd, nohup, hups, markers, Deployer, byHand, torn>> /\ NoFault

WritePid(p) ==
    /\ At(p, "write", "clear")
    /\ text' = [text EXCEPT ![fd[p]] = p]
    /\ UNCHANGED <<name, flock, fd, nohup, hups, markers, Deployer, byHand, torn>> /\ NoFault

\* clear_stale_pid_markers: whatever is in pids/ is taken for a leftover.
ClearStaleMarkers(p) ==
    /\ At(p, "clear", "listen")
    /\ markers' = {}
    /\ UNCHANGED <<name, text, flock, fd, nohup, hups, Deployer, byHand, torn>> /\ NoFault

\* setup_signal_handlers and spawn_sighup_listener: from here on SIGHUP counts.
ListenForSignals(p) ==
    /\ At(p, "listen", "load")
    /\ UNCHANGED <<name, text, flock, fd, nohup, hups, markers, Deployer, byHand, torn>> /\ NoFault

\* load_initial_configs spawns the workers, each with its marker.
LoadConfigs(p) ==
    /\ At(p, "load", "run")
    /\ markers' = markers \cup {p}
    /\ UNCHANGED <<name, text, flock, fd, nohup, hups, Deployer, byHand, torn>> /\ NoFault

\* reload_if_requested swaps the counter to zero and reloads.
ReloadIfRequested(p) ==
    /\ sup[p] = "run" /\ p \in hups
    /\ hups' = hups \ {p}
    /\ UNCHANGED <<name, text, flock, sup, fd, nohup, markers, Deployer, byHand, torn>> /\ NoFault

\* SIGTERM clears RUNNING; the loop ends and shutdown stops the workers.
Shutdown(p) ==
    /\ At(p, "run", "stop")
    /\ markers' = markers \ {p}
    /\ UNCHANGED <<name, text, flock, fd, nohup, hups, Deployer, byHand, torn>> /\ NoFault

\* drop(pid_file_lock), then remove_file: two steps, in this order.
ReleaseLock(p) ==
    /\ At(p, "stop", "unlink")
    /\ flock' = LocksOf(p)
    /\ UNCHANGED <<name, text, fd, nohup, hups, markers, Deployer, byHand, torn>> /\ NoFault

RemovesOpenFile(except) == \E p \in Pids \ {except} : Live(p) /\ fd[p] = name /\ name # NoInode

RemovePidFile(p) ==
    /\ At(p, "unlink", "dead")
    /\ name' = NoInode
    /\ torn' = (torn \/ RemovesOpenFile(p))
    /\ UNCHANGED <<text, flock, fd, nohup, hups, markers, Deployer, byHand>> /\ NoFault

\* A kill, or an error that ends run() without shutdown: the file stays behind.
\* Its workers die with it or live on unsupervised, and their markers stay.
Die(p) ==
    /\ Live(p) /\ Fault
    /\ sup' = [sup EXCEPT ![p] = "dead"]
    /\ flock' = LocksOf(p)
    /\ UNCHANGED <<name, text, fd, nohup, hups, markers, Deployer, byHand, torn>>

-----------------------------------------------------------------------------
(* A deploy: start_supervisor, then notify_supervisor_reload.              *)

ReadPid == IF name = NoInode THEN NoPid ELSE text[name]
Supervisors == <<flock, fd, byHand>>

\* ensure_supervisor_running reads the pid once and decides.
FindSupervisor(d) ==
    /\ step[d] = "idle" /\ signalled[d] < MaxSignalled
    /\ signalled' = [signalled EXCEPT ![d] = @ + 1]
    /\ step' = [step EXCEPT ![d] = CASE ReadPid = NoPid  -> "start"
                                     [] ReadPid # NoPid /\ Live(ReadPid) -> "notify"
                                     [] OTHER -> "remove"]
    /\ found' = [found EXCEPT ![d] = IF step'[d] = "notify" THEN "running" ELSE "nothing"]
    /\ UNCHANGED <<name, text, sup, nohup, hups, markers, torn, Supervisors>> /\ NoFault

\* The pid it read was dead: it removes whatever has the name now.
RemoveStale(d) ==
    /\ step[d] = "remove"
    /\ step' = [step EXCEPT ![d] = "start"]
    /\ name' = NoInode
    /\ torn' = (torn \/ RemovesOpenFile(NoPid))
    /\ UNCHANGED <<text, sup, nohup, hups, markers, found, signalled, Supervisors>> /\ NoFault

SpawnSupervisor(d, p) ==
    /\ step[d] = "start" /\ p \in Free
    /\ step' = [step EXCEPT ![d] = "wait"]
    /\ sup' = [sup EXCEPT ![p] = "open"]
    /\ nohup' = nohup \cup {p}
    /\ UNCHANGED <<name, text, hups, markers, found, signalled, torn, Supervisors>> /\ NoFault

\* The file is polled for three seconds; nohup may also fail to start.
WaitForSupervisor(d) ==
    /\ \/ step[d] = "wait" /\ ReadPid # NoPid /\ Live(ReadPid)
          /\ found' = [found EXCEPT ![d] = "running"] /\ NoFault
       \/ step[d] \in {"start", "wait"} /\ Fault
          /\ found' = [found EXCEPT ![d] = "not started"]
    /\ step' = [step EXCEPT ![d] = "notify"]
    /\ UNCHANGED <<name, text, sup, nohup, hups, markers, signalled, torn, Supervisors>>

\* SIGHUP asks for a reload once the listener runs.  Before that it ends a
\* supervisor that was not started through nohup, and is lost on one that was.
NotifyReload(d) ==
    /\ step[d] = "notify"
    /\ step' = [step EXCEPT ![d] = "idle"]
    /\ LET p == ReadPid
           sent == p # NoPid /\ Live(p)
           early == sent /\ sup[p] \in {"write", "clear", "listen"}
           kills == early /\ p \notin nohup
       IN /\ hups' = IF sent /\ ~early THEN hups \cup {p} ELSE hups
          /\ sup' = IF kills THEN [sup EXCEPT ![p] = "dead"] ELSE sup
          /\ flock' = IF kills THEN LocksOf(p) ELSE flock
    /\ UNCHANGED <<name, text, fd, nohup, markers, found, signalled, torn, byHand>> /\ NoFault

PidNext ==
    \/ \E p \in Pids :
          \/ StartByHand(p) \/ OpenPidFile(p) \/ LockPidFile(p) \/ WritePid(p)
          \/ ClearStaleMarkers(p) \/ ListenForSignals(p) \/ LoadConfigs(p)
          \/ ReloadIfRequested(p) \/ Shutdown(p) \/ ReleaseLock(p)
          \/ RemovePidFile(p) \/ Die(p)
    \/ \E d \in Deployers :
          \/ FindSupervisor(d) \/ RemoveStale(d)
          \/ \E p \in Pids : SpawnSupervisor(d, p)
          \/ WaitForSupervisor(d) \/ NotifyReload(d)

PidSpec == PidInit /\ [][PidNext]_pidVars

-----------------------------------------------------------------------------
(* The pid file lets one supervisor at a time past its lock, and that one's *)
(* workers keep the markers deploys wait on, as long as nobody has removed  *)
(* the name of a file some live supervisor has open.                        *)
LockKeepsOne ==
    ~torn => /\ \A p, q \in Pids : Owns(p) /\ Owns(q) => p = q
             /\ \A p \in Pids : sup[p] = "run" => p \in markers

(* What create_pid_file_with_lock and acquire_pid_lock are for: no two      *)
(* supervisors own the same workers directory at once.  Not so: a deploy or *)
(* a supervisor that shuts down may remove the name of the file another one *)
(* has just locked, and a third then creates a file of its own.             *)
AtMostOneSupervisor == \A p, q \in Pids : Owns(p) /\ Owns(q) => p = q
=============================================================================
