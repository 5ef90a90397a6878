----------------------------- MODULE WorkerStop -----------------------------
(***************************************************************************)
(* One worker process from its spawn to the end of its stop                *)
(* (riku-supervisor process/spawn.rs, spawned.rs, stop.rs, pid_file.rs and *)
(* cgroups/mod.rs).                                                        *)
(*                                                                         *)
(* A worker is a process group with a leader, and a cgroup when it is      *)
(* isolated.  Its processes may fork, ignore SIGTERM, or leave the group.  *)
(* The pid marker tells deploys that the worker is still there, so it must *)
(* outlast everything the stop is meant to end.                            *)
(***************************************************************************)
EXTENDS Budget, FiniteSets

CONSTANT Procs          \* processes a worker may come to have

Leader == CHOOSE p \in Procs : TRUE

VARIABLES
    alive,      \* processes that run
    group,      \* those in the leader's process group
    deaf,       \* those that ignore SIGTERM
    stuck,      \* those that SIGKILL does not end at once
    killed,     \* those that were sent SIGKILL
    isolated,   \* the worker has a cgroup, so every process is in it
    cgroup,     \* the cgroup's directory exists
    killNode,   \* the kernel has cgroup.kill
    listed,     \* the members read before they are killed one by one
    marker,     \* the pid marker exists
    phase,      \* where its life or its stop is
    told        \* the stop reported a failure

stopState == <<alive, group, deaf, stuck, killed, isolated, cgroup, killNode, listed, marker, phase, told>>
stopVars == <<stopState, faults>>

Habits == <<deaf, stuck, isolated, killNode>>

StopInit ==
    /\ alive = {} /\ group = {} /\ killed = {} /\ listed = {}
    /\ deaf \in SUBSET Procs /\ stuck \in SUBSET Procs
    /\ isolated \in BOOLEAN /\ killNode \in BOOLEAN
    /\ cgroup = FALSE /\ marker = FALSE
    /\ phase = "unspawned" /\ told = FALSE /\ faults = 0

-----------------------------------------------------------------------------
\* spawn_process: the cgroup, the child in a group of its own that has put itself
\* into the cgroup before it runs, the marker.  Without a marker the child is killed.
Spawn ==
    /\ phase = "unspawned"
    /\ \/ /\ NoFault /\ phase' = "managed"
          /\ alive' = {Leader} /\ group' = {Leader} /\ marker' = TRUE
          /\ cgroup' = isolated /\ UNCHANGED <<killed, told>>
       \/ /\ Fault /\ phase' = "gone" /\ told' = TRUE
          /\ cgroup' \in {FALSE, isolated}
          /\ \/ UNCHANGED <<alive, group, killed>>
             \/ alive' = {Leader} /\ group' = {Leader} /\ killed' = {Leader}
          /\ UNCHANGED marker
    /\ UNCHANGED <<Habits, listed>>

Fork(p) ==
    /\ alive # {} /\ alive \ killed # {} /\ p \in Procs \ (alive \cup killed \cup {Leader})
    /\ alive' = alive \cup {p}
    \* Into its parent's group, which may have left the leader's.
    /\ \/ (alive \cap group) \ killed # {} /\ group' = group \cup {p}
       \/ (alive \ group) \ killed # {} /\ group' = group \ {p}
    /\ UNCHANGED <<Habits, killed, cgroup, listed, marker, phase, told>> /\ NoFault

\* A process that calls setsid leaves the group, and stays in the cgroup.
LeaveGroup(p) ==
    /\ p \in (alive \cap group) \ {Leader} /\ p \notin killed
    /\ group' = group \ {p}
    /\ UNCHANGED <<Habits, alive, killed, cgroup, listed, marker, phase, told>> /\ NoFault

\* It ends by itself, on SIGTERM, or once SIGKILL takes effect.
Exit(p) ==
    /\ p \in alive
    /\ alive' = alive \ {p}
    /\ UNCHANGED <<Habits, group, killed, cgroup, listed, marker, phase, told>> /\ NoFault

-----------------------------------------------------------------------------
(* SpawnedProcess::stop, from a stop by id, a restart, a give up or Drop.  *)

Members == alive \cap group
Then(next) == phase' = next
KillSet(S) == /\ killed' = killed \cup S
              /\ alive' = alive \ (S \ stuck)

\* terminate: SIGTERM to the group; those that heed it are gone here or later.  An
\* error other than an empty group ends the group's part of the stop.
Terminate ==
    /\ phase = "managed"
    /\ \/ /\ NoFault /\ Then("grace") /\ UNCHANGED told
          /\ \E S \in SUBSET (Members \ deaf) : alive' = alive \ S
       \/ Fault /\ Then("cgroup") /\ told' = TRUE /\ UNCHANGED alive
    /\ UNCHANGED <<Habits, group, killed, cgroup, listed, marker>>

\* The grace period ends; a leader that still runs takes SIGKILL for its group.
EndGrace ==
    /\ phase = "grace" /\ NoFault
    /\ IF Leader \in alive THEN KillSet(Members) ELSE UNCHANGED <<alive, killed>>
    /\ Then("reap")
    /\ UNCHANGED <<Habits, group, cgroup, listed, marker, told>>

\* MUTANT: once the leader is reaped the group counts as stopped.
ReapLeaderOnly ==
    /\ phase = "reap" /\ Leader \notin alive /\ NoFault
    /\ Then("cgroup")
    /\ UNCHANGED <<Habits, alive, group, killed, cgroup, listed, marker, told>>

\* child.wait() returns once the leader is dead; then the rest of the group is looked at.
ReapLeader ==
    /\ phase = "reap" /\ Leader \notin alive /\ NoFault
    /\ Then(IF Members = {} THEN "cgroup" ELSE "leftovers")
    /\ UNCHANGED <<Habits, alive, group, killed, cgroup, listed, marker, told>>

\* Another grace period, then SIGKILL for what is left; a member that outlives the
\* settle time is only warned about.
StopLeftovers ==
    /\ phase = "leftovers" /\ NoFault
    /\ IF Members = {} THEN UNCHANGED <<alive, killed>> ELSE KillSet(Members)
    /\ Then("cgroup")
    /\ UNCHANGED <<Habits, group, cgroup, listed, marker, told>>

\* kill_members: cgroup.kill ends all members at once; without it they are listed
\* and killed one after the other.
KillMembers ==
    /\ phase = "cgroup" /\ NoFault
    /\ \/ ~cgroup /\ Then("drop") /\ UNCHANGED <<alive, killed, listed>>
       \/ cgroup /\ killNode /\ KillSet(alive) /\ Then("remove") /\ UNCHANGED listed
       \/ cgroup /\ ~killNode /\ listed' = alive /\ Then("kill listed") /\ UNCHANGED <<alive, killed>>
    /\ UNCHANGED <<Habits, group, cgroup, marker, told>>

KillListed ==
    /\ phase = "kill listed" /\ NoFault
    /\ KillSet(listed \cap alive) /\ listed' = {}
    /\ Then("remove")
    /\ UNCHANGED <<Habits, group, cgroup, marker, told>>

\* cleanup after a second: an occupied cgroup cannot be removed, which is reported.
RemoveCgroup ==
    /\ phase = "remove" /\ NoFault
    /\ IF alive = {} THEN cgroup' = FALSE /\ UNCHANGED told ELSE told' = TRUE /\ UNCHANGED cgroup
    /\ Then("drop")
    /\ UNCHANGED <<Habits, alive, group, killed, listed, marker>>

\* Drop removes the marker last.
DropMarker ==
    /\ phase = "drop" /\ NoFault
    /\ marker' = FALSE /\ Then("gone")
    /\ UNCHANGED <<Habits, alive, group, killed, cgroup, listed, told>>

StopNext ==
    \/ Spawn \/ (\E p \in Procs : Fork(p) \/ LeaveGroup(p) \/ Exit(p))
    \/ Terminate \/ EndGrace \/ ReapLeader \/ StopLeftovers
    \/ KillMembers \/ KillListed \/ RemoveCgroup \/ DropMarker

StopSpec == StopInit /\ [][StopNext]_stopVars

-----------------------------------------------------------------------------
(* Once the marker is gone, so that a deploy may reuse the worker's port and *)
(* socket, whatever of the group still runs has been sent SIGKILL, and so    *)
(* has all of an isolated worker; or the stop has reported a failure.        *)
MarkerOutlastsWorker ==
    phase = "gone" /\ ~told => alive \cap (IF isolated THEN Procs ELSE group) \subseteq killed
=============================================================================
