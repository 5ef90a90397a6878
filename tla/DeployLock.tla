------------------------------ MODULE DeployLock ------------------------------
(***************************************************************************)
(* The per-app deploy lock of riku-deploy/src/lock.rs: an flock on one     *)
(* file, whose content names what kind of holder has it.  A deploy that    *)
(* finds the lock taken reads that tag to decide whether to wait; the tag  *)
(* is written after the flock is taken, in two steps, and is never cleared *)
(* when the lock is released.                                              *)
(***************************************************************************)
EXTENDS Naturals

CONSTANTS
  Deploys,         \* processes that call acquire_for_deploy
  Operations,      \* processes that call acquire (stop, scale, backup, ...)
  Restarts,        \* supervisor threads that call acquire_for_restart
  Probes,          \* processes that call is_locked
  NoHolder,
  ContentionGrace, \* CONTENTION_GRACE, in ticks
  RestartWait      \* RESTART_WAIT, in ticks

Procs == Deploys \cup Operations \cup Restarts \cup Probes

ASSUME ProcsAssumption ==
  /\ NoHolder \notin Procs
  /\ Deploys \cap Restarts = {}
  /\ Operations \cap Restarts = {}
  /\ Probes \cap (Deploys \cup Operations \cup Restarts) = {}
ASSUME WaitAssumption ==
  /\ ContentionGrace \in Nat
  /\ RestartWait \in Nat
  /\ ContentionGrace < RestartWait

VARIABLES
  pc,      \* where each process is in its call
  waited,  \* how long it has been in retry_acquire
  holder,  \* the process that has the flock
  tag      \* the content of the lock file

vars == <<pc, waited, holder, tag>>

(* "set_len" and "write" are the two halves of record_holder; "decide" is  *)
(* retry_acquire after a failed flock; "holding" is the caller's work.     *)
States == {"idle", "sleep", "decide", "set_len", "write", "holding",
           "probing", "refused"}

(* Holder::tag. *)
Tag(p) == IF p \in Restarts THEN "restart" ELSE "operation"

(* The restart_wait argument of acquire_as. *)
RestartWaitOf(p) == IF p \in Deploys THEN RestartWait ELSE 0

TypeOK ==
  /\ pc \in [Procs -> States]
  /\ waited \in [Procs -> 0..RestartWait]
  /\ holder \in Procs \cup {NoHolder}
  /\ tag \in {"", "operation", "restart"}

Init ==
  /\ pc = [p \in Procs |-> "idle"]
  /\ waited = [p \in Procs |-> 0]
  /\ holder = NoHolder
  /\ tag = ""

Goto(p, s) == pc' = [pc EXCEPT ![p] = s]

-----------------------------------------------------------------------------
(* Mutant: the tag is written before the lock is taken. *)
AcquireRecordsFirst(p) ==
  /\ p \notin Probes
  /\ pc[p] \in {"idle", "refused"}
  /\ waited' = [waited EXCEPT ![p] = 0]
  /\ tag' = Tag(p)
  /\ \/ /\ holder = NoHolder
        /\ holder' = p
        /\ Goto(p, "set_len")
     \/ /\ holder # NoHolder
        /\ Goto(p, "sleep")
        /\ UNCHANGED holder

(* acquire_as: the first, non-blocking flock.  A process that finds the    *)
(* lock taken enters retry_acquire, where its clock starts.                *)
Acquire(p) ==
  /\ p \notin Probes
  /\ pc[p] \in {"idle", "refused"}
  /\ waited' = [waited EXCEPT ![p] = 0]
  /\ \/ /\ holder = NoHolder
        /\ holder' = p
        /\ Goto(p, "set_len")
     \/ /\ holder # NoHolder
        /\ Goto(p, "sleep")
        /\ UNCHANGED holder
  /\ UNCHANGED tag

(* retry_acquire: the flock after a RETRY_INTERVAL. *)
Retry(p) ==
  /\ pc[p] = "sleep"
  /\ \/ /\ holder = NoHolder
        /\ holder' = p
        /\ Goto(p, "set_len")
     \/ /\ holder # NoHolder
        /\ Goto(p, "decide")
        /\ UNCHANGED holder
  /\ UNCHANGED <<waited, tag>>

(* Mutants: a deploy does not look at the tag; it never gives up on one.   *)
KeepWaitingGraceOnly(p) == waited[p] < ContentionGrace
KeepWaitingForEver(p) == waited[p] < ContentionGrace \/ tag = "restart"

(* keep_waiting and held_by_restart: the tag is read from the file after   *)
(* the failed flock, so it may be another holder's.                        *)
KeepWaiting(p) ==
  \/ waited[p] < ContentionGrace
  \/ waited[p] < RestartWaitOf(p) /\ tag = "restart"

Decide(p) ==
  /\ pc[p] = "decide"
  /\ Goto(p, IF KeepWaiting(p) THEN "sleep" ELSE "refused")
  /\ UNCHANGED <<waited, holder, tag>>

(* record_holder: the file is emptied, then the tag is written.            *)
SetLen(p) ==
  /\ pc[p] = "set_len"
  /\ tag' = ""
  /\ Goto(p, "write")
  /\ UNCHANGED <<waited, holder>>

Write(p) ==
  /\ pc[p] = "write"
  /\ tag' = Tag(p)
  /\ Goto(p, "holding")
  /\ UNCHANGED <<waited, holder>>

(* An error of record_holder drops the file, and with it the lock. *)
RecordFails(p) ==
  /\ pc[p] \in {"set_len", "write"}
  /\ holder' = NoHolder
  /\ Goto(p, "idle")
  /\ UNCHANGED <<waited, tag>>

(* Mutant: the lock file is closed before the caller's work is done. *)
ReleaseEarly(p) ==
  /\ pc[p] = "holding"
  /\ holder' = NoHolder
  /\ UNCHANGED <<pc, waited, tag>>

(* The caller drops the File, or its process dies while it has the lock:   *)
(* either way the kernel releases the flock and the tag stays.             *)
Release(p) ==
  /\ pc[p] = "holding"
  /\ holder' = NoHolder
  /\ Goto(p, "idle")
  /\ UNCHANGED <<waited, tag>>

(* A contender gives up or dies while it waits. *)
Abandon(p) ==
  /\ pc[p] \in {"sleep", "decide"}
  /\ Goto(p, "idle")
  /\ UNCHANGED <<waited, holder, tag>>

(* is_locked: a probe takes the flock for a moment and records nothing.    *)
Probe(p) ==
  /\ p \in Probes
  /\ pc[p] = "idle"
  /\ holder = NoHolder
  /\ holder' = p
  /\ Goto(p, "probing")
  /\ UNCHANGED <<waited, tag>>

ProbeDone(p) ==
  /\ pc[p] = "probing"
  /\ holder' = NoHolder
  /\ Goto(p, "idle")
  /\ UNCHANGED <<waited, tag>>

(* Time passes for a waiting process; its clock saturates at RestartWait,  *)
(* past which nothing it decides depends on it.                            *)
Tick(p) ==
  /\ pc[p] \in {"sleep", "decide"}
  /\ waited[p] < RestartWait
  /\ waited' = [waited EXCEPT ![p] = @ + 1]
  /\ UNCHANGED <<pc, holder, tag>>

Step(p) ==
  Retry(p) \/ Decide(p) \/ SetLen(p) \/ Write(p) \/ Release(p) \/ ProbeDone(p)

Next ==
  \E p \in Procs :
    \/ Acquire(p) \/ Retry(p) \/ Decide(p)
    \/ SetLen(p) \/ Write(p) \/ RecordFails(p)
    \/ Release(p) \/ Abandon(p)
    \/ Probe(p) \/ ProbeDone(p)
    \/ Tick(p)

Spec == Init /\ [][Next]_vars

(* A process that is past its first flock keeps running, every holder's    *)
(* work is bounded, and clocks advance.                                    *)
FairSpec ==
  /\ Spec
  /\ \A p \in Procs : WF_vars(Step(p)) /\ WF_vars(Tick(p))

-----------------------------------------------------------------------------
(* Properties. *)

HasLock(p) == pc[p] \in {"set_len", "write", "holding"}

(* Two processes never work on one app at a time, and none works without   *)
(* the lock: probes and failed or abandoned attempts do not free it.       *)
MutualExclusion == \A p \in Procs : HasLock(p) => holder = p

(* While a holder does its work the file names its kind, although tags are *)
(* left behind by every earlier holder: the tag a deploy reads in the body *)
(* of a restart says "restart".                                            *)
TagNamesHolder == \A p \in Procs : pc[p] = "holding" => tag = Tag(p)

(* A deploy is refused while a restart has the lock only if it has waited  *)
(* RESTART_WAIT, or in the moment before that restart has written its tag. *)
RefusedOutsideWindow ==
  [][\A p \in Deploys : pc[p] = "decide" /\ pc'[p] = "refused" =>
       \/ waited[p] >= RestartWait
       \/ \A r \in Restarts : pc[r] # "holding"]_vars

(* Another operation is not waited for past the grace: a deploy that saw a *)
(* recorded operation at its decision does not go on waiting.              *)
OperationRefusesDeploy ==
  [][\A p \in Deploys, o \in Deploys \cup Operations :
       /\ pc[p] = "decide" /\ pc'[p] = "sleep"
       /\ pc[o] = "holding"
       => waited[p] < ContentionGrace]_vars

(* No contender waits for ever: it gets the lock or is refused, even when  *)
(* restarts follow each other without end.                                 *)
ContendersAreAnswered ==
  \A p \in Procs : pc[p] \in {"sleep", "decide"} ~> pc[p] \notin {"sleep", "decide"}
=============================================================================
