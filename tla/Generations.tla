----------------------------- MODULE Generations -----------------------------
(***************************************************************************)
(* The supervisor's process manager for one worker: the process in the     *)
(* canonical slot, the canaries that a changed config starts beside it,    *)
(* their generations, and the probe threads that report on them.           *)
(*                                                                         *)
(* The manager is single-threaded: a call of the config watcher, a pass of *)
(* check_processes and a pass of reconcile_generations never interleave.   *)
(* Processes die and probe threads report at any time, also in the middle  *)
(* of a reconcile pass, which waits for the processes it stops.            *)
(***************************************************************************)
EXTENDS Naturals, Sequences, FiniteSets

CONSTANTS
  MaxConfigs,   \* bound on the number of configs written for the worker
  Checked,      \* the configs with a health check, and the port it asks
  Answering,    \* the configs whose process answers its health check
  PortOf,       \* the port of each config
  MaxRestarts,  \* max_restarts
  MaxFailed,    \* MAX_FAILED_HISTORY
  Faults        \* the failures this instance lets happen

AllFaults ==
  { "spawn",   \* spawn_process returns an error
    "stop",    \* SpawnedProcess::stop returns an error
    "crash" }  \* a process exits on its own

Configs == 1..MaxConfigs
Versions == 1..MaxConfigs

(* Keys of the map of processes: the canonical slot and the temporary keys. *)
Canonical == 0
Keys == {Canonical} \cup Versions

ASSUME MaxConfigsAssumption == MaxConfigs \in Nat
ASSUME ConfigsAssumption == Checked \subseteq Configs /\ Answering \subseteq Configs
ASSUME PortOfAssumption == DOMAIN PortOf = Configs
ASSUME LimitsAssumption == MaxRestarts \in Nat /\ MaxFailed \in Nat \ {0}
ASSUME FaultsAssumption == Faults \subseteq AllFaults

VARIABLES
  pc,         \* where the reconcile pass is
  config,     \* the newest config written
  procs,      \* processes, by key
  gens,       \* generations: the status of each version
  probes,     \* the probe threads that have not reported
  results,    \* probe_results: what the threads reported
  batch,      \* the outcomes the reconcile pass took and has not applied
  serial,     \* history: no redeploy came while a probe was unreported, and
              \* no stop failed
  reused      \* history: a version was used again before the outcome of its
              \* earlier use was applied

vars == <<pc, config, procs, gens, probes, results, batch, serial, reused>>

NoProc == [cfg |-> 0]
Proc == [cfg : Configs, alive : BOOLEAN, restarts : 0..MaxRestarts]

(* A probe thread knows its version; the config is kept for the properties. *)
Probe == [version : Versions, cfg : Configs]

(* "by" is the config of the process that answered: the probe asks a port. *)
Outcome == [version : Versions, cfg : Configs, healthy : BOOLEAN, by : 0..MaxConfigs]

Status == {"none", "Stable", "Probing", "Failed"}

TypeOK ==
  /\ pc \in {"idle", "apply", "swap"}
  /\ config \in 0..MaxConfigs
  /\ procs \in [Keys -> Proc \cup {NoProc}]
  /\ gens \in [Versions -> Status]
  /\ probes \subseteq Probe
  /\ results \in Seq(Outcome)
  /\ batch \in Seq(Outcome)
  /\ serial \in BOOLEAN /\ reused \in BOOLEAN

NoGens == [v \in Versions |-> "none"]

Init ==
  /\ pc = "idle"
  /\ config = 0
  /\ procs = [k \in Keys |-> NoProc]
  /\ gens = NoGens
  /\ probes = {}
  /\ results = <<>> /\ batch = <<>>
  /\ serial = TRUE /\ reused = FALSE

-----------------------------------------------------------------------------
(* Helpers. *)

Running(k) == procs[k] # NoProc /\ procs[k].alive

With(status) == {v \in Versions : gens[v] = status}

(* spawn_process: a process already under the key is stopped first, so an  *)
(* error leaves the key empty.                                             *)
Spawned(ps, k, c, ok) ==
  [ps EXCEPT ![k] = IF ok THEN [cfg |-> c, alive |-> TRUE, restarts |-> 0] ELSE NoProc]

SpawnMay(ok) == ok \/ Faults \cap {"spawn", "stop"} # {}
StopMay(ok) == ok \/ "stop" \in Faults

(* One more than the highest version in the ring. *)
NextVersion(gs) ==
  CHOOSE n \in 1..(MaxConfigs + 1) :
    /\ \A v \in Versions : gs[v] # "none" => v < n
    /\ n > 1 => gs[n - 1] # "none"

(* The newest MaxFailed failed generations are kept. *)
Pruned(gs) ==
  [v \in Versions |->
     IF gs[v] = "Failed"
        /\ Cardinality({w \in Versions : gs[w] = "Failed" /\ w >= v}) > MaxFailed
       THEN "none" ELSE gs[v]]

(* stop_canaries and stop_process_by_id, up to and including the key        *)
(* "last": the canaries still probing in the order of their versions, then  *)
(* the canonical process.  A key is removed before its process is stopped.  *)
StoppedThrough(last) ==
  [k \in Keys |->
     IF \/ k = Canonical /\ last = Canonical
        \/ k \in With("Probing") /\ (last = Canonical \/ k <= last)
       THEN NoProc ELSE procs[k]]

-----------------------------------------------------------------------------
(* Calls of the config watcher.  Each takes the newest config from the     *)
(* file.                                                                   *)

NewConfig ==
  /\ pc = "idle"
  /\ config < MaxConfigs
  /\ config' = config + 1

(* load_config_file: a new config is spawned into the canonical slot.      *)
Load(ok) ==
  /\ NewConfig
  /\ SpawnMay(ok)
  /\ procs' = Spawned(procs, Canonical, config', ok)
  /\ UNCHANGED <<pc, gens, probes, results, batch, serial, reused>>

(* A probe of version v was started whose outcome is not applied yet. *)
Unapplied(v) ==
  (\E p \in probes : p.version = v) \/ (\E i \in DOMAIN results : results[i].version = v)

(* handle_modified_config of a checked, managed worker: deploy_generation. *)
Deploy(ok) ==
  /\ NewConfig
  /\ config' \in Checked
  /\ procs[Canonical] # NoProc
  /\ SpawnMay(ok)
  /\ LET v == NextVersion(gens) IN
       /\ procs' = Spawned(procs, v, config', ok)
       /\ gens' = IF ok THEN Pruned([gens EXCEPT ![v] = "Probing"]) ELSE gens
       /\ probes' = IF ok THEN probes \cup {[version |-> v, cfg |-> config']} ELSE probes
       /\ reused' = (reused \/ (ok /\ Unapplied(v)))
  /\ serial' = (serial /\ probes = {} /\ results = <<>>)
  /\ UNCHANGED <<pc, results, batch>>

(* handle_modified_config otherwise: unload_config, then load_config_file. *)
Replace(ok) ==
  /\ NewConfig
  /\ config' \notin Checked \/ procs[Canonical] = NoProc
  /\ SpawnMay(ok)
  /\ procs' = Spawned(StoppedThrough(Canonical), Canonical, config', ok)
  /\ gens' = NoGens
  /\ UNCHANGED <<pc, probes, results, batch, serial, reused>>

(* Mutant: the canaries are left running. *)
RemoveCanonicalOnly ==
  /\ pc = "idle"
  /\ procs[Canonical] # NoProc \/ gens # NoGens
  /\ procs' = [procs EXCEPT ![Canonical] = NoProc]
  /\ gens' = NoGens
  /\ UNCHANGED <<pc, config, probes, results, batch, serial, reused>>

(* unload_config. *)
Remove ==
  /\ pc = "idle"
  /\ procs[Canonical] # NoProc \/ gens # NoGens
  /\ procs' = StoppedThrough(Canonical)
  /\ gens' = NoGens
  /\ UNCHANGED <<pc, config, probes, results, batch, serial, reused>>

(* unload_config, alone or as the first half of a replacement, whose stop  *)
(* of the process under key k fails: the keys after it are not reached.    *)
UnloadFails(k) ==
  /\ pc = "idle"
  /\ StopMay(FALSE)
  /\ k \in With("Probing") \cup {Canonical}
  /\ procs[k] # NoProc
  /\ procs' = StoppedThrough(k)
  /\ gens' = NoGens
  /\ serial' = FALSE
  /\ UNCHANGED <<pc, config, probes, results, batch, reused>>

-----------------------------------------------------------------------------
(* check_processes: keys of probing generations are left alone. *)

Checkable(k) == pc = "idle" /\ procs[k] # NoProc /\ k \notin With("Probing")

(* A process that exited and has restarts left, or one that runs and fails  *)
(* its health checks.                                                       *)
RestartDue(k) ==
  IF procs[k].alive THEN procs[k].cfg \in Checked ELSE procs[k].restarts < MaxRestarts

(* restart_process.  Only the comparison with max_restarts is kept of the   *)
(* restart count.                                                           *)
Restart(k, ok) ==
  /\ Checkable(k)
  /\ RestartDue(k)
  /\ SpawnMay(ok)
  /\ procs' =
       IF ok THEN [procs EXCEPT ![k].alive = TRUE,
                                ![k].restarts = IF @ < MaxRestarts THEN @ + 1 ELSE @]
             ELSE [procs EXCEPT ![k] = NoProc]
  /\ UNCHANGED <<pc, config, gens, probes, results, batch, serial, reused>>

(* Max restarts reached: the process leaves supervision. *)
GiveUp(k) ==
  /\ Checkable(k)
  /\ ~procs[k].alive
  /\ procs[k].restarts >= MaxRestarts
  /\ procs' = [procs EXCEPT ![k] = NoProc]
  /\ UNCHANGED <<pc, config, gens, probes, results, batch, serial, reused>>

-----------------------------------------------------------------------------
(* reconcile_generations. *)

(* fail_generation of each version in vs: its process is stopped, whether  *)
(* or not the stop succeeds.                                               *)
StoppedFailed(ps, vs) == [k \in Keys |-> IF k \in vs THEN NoProc ELSE ps[k]]
MarkedFailed(gs, vs) == [v \in Versions |-> IF v \in vs THEN "Failed" ELSE gs[v]]

(* The outcomes still to apply; the pass is over when there are none. *)
ApplyRest(rest) == batch' = rest /\ pc' = IF rest = <<>> THEN "idle" ELSE "apply"

(* The head of a pass: canaries that exited fail, then the reported        *)
(* outcomes are taken.                                                     *)
Reconcile ==
  /\ pc = "idle"
  /\ LET crashed == {v \in With("Probing") : ~Running(v)} IN
       /\ crashed # {} \/ results # <<>>
       /\ gens' = MarkedFailed(gens, crashed)
       /\ procs' = StoppedFailed(procs, crashed)
  /\ results' = <<>>
  /\ ApplyRest(results)
  /\ UNCHANGED <<config, probes, serial, reused>>

(* Applying one outcome. *)
Applying(healthy) == pc = "apply" /\ Head(batch).healthy = healthy

(* fail_generation: whatever the status of the generation. *)
Fail ==
  /\ Applying(FALSE)
  /\ LET vs == {v \in Versions : v = Head(batch).version /\ gens[v] # "none"} IN
       /\ gens' = MarkedFailed(gens, vs)
       /\ procs' = StoppedFailed(procs, vs)
  /\ ApplyRest(Tail(batch))
  /\ UNCHANGED <<config, probes, results, serial, reused>>

(* promote_generation of a version that is not probing. *)
PromoteNothing ==
  /\ Applying(TRUE)
  /\ gens[Head(batch).version] # "Probing"
  /\ ApplyRest(Tail(batch))
  /\ UNCHANGED <<config, procs, gens, probes, results, serial, reused>>

(* promote_generation up to the end of the old process.  An error ends the *)
(* pass: the canary stays as it is, and the other outcomes taken are lost. *)
PromoteStop(ok) ==
  /\ Applying(TRUE)
  /\ gens[Head(batch).version] = "Probing"
  /\ StopMay(ok) /\ (~ok => procs[Canonical] # NoProc)
  /\ procs' = [procs EXCEPT ![Canonical] = NoProc]
  /\ IF ok THEN pc' = "swap" /\ UNCHANGED batch ELSE ApplyRest(<<>>)
  /\ serial' = (serial /\ ok)
  /\ UNCHANGED <<config, gens, probes, results, reused>>

(* Mutant: the other generations stay in the ring. *)
PromoteSwapKeepsRing ==
  /\ pc = "swap"
  /\ LET v == Head(batch).version IN
       /\ procs' = [procs EXCEPT ![Canonical] = procs[v], ![v] = NoProc]
       /\ gens' = [gens EXCEPT ![v] = "Stable"]
  /\ ApplyRest(Tail(batch))
  /\ UNCHANGED <<config, probes, results, serial, reused>>

(* The rest of promote_generation: the canary, dead or alive, moves into   *)
(* the canonical slot, and the ring keeps its generation alone.            *)
PromoteSwap ==
  /\ pc = "swap"
  /\ LET v == Head(batch).version IN
       /\ procs' = [procs EXCEPT ![Canonical] = procs[v], ![v] = NoProc]
       /\ gens' = [NoGens EXCEPT ![v] = "Stable"]
  /\ ApplyRest(Tail(batch))
  /\ UNCHANGED <<config, probes, results, serial, reused>>

-----------------------------------------------------------------------------
(* The processes and the probe threads. *)

Crash(k) ==
  /\ "crash" \in Faults
  /\ Running(k)
  /\ procs' = [procs EXCEPT ![k].alive = FALSE]
  /\ UNCHANGED <<pc, config, gens, probes, results, batch, serial, reused>>

(* The configs whose process answers on the port of c. *)
Answers(c) ==
  {d \in Answering : PortOf[d] = PortOf[c] /\ \E k \in Keys : Running(k) /\ procs[k].cfg = d}

Report(p, healthy, by) ==
  /\ probes' = probes \ {p}
  /\ results' = Append(results, [version |-> p.version, cfg |-> p.cfg,
                                 healthy |-> healthy, by |-> by])
  /\ UNCHANGED <<pc, config, procs, gens, batch, serial, reused>>

(* A probe thread gets its answer. *)
ProbeAnswered(p) == p \in probes /\ \E d \in Answers(p.cfg) : Report(p, TRUE, d)

(* Mutant: only an answer is reported. *)
ProbeExpiresSilently(p) ==
  /\ p \in probes
  /\ probes' = probes \ {p}
  /\ UNCHANGED <<pc, config, procs, gens, results, batch, serial, reused>>

(* Its window ends without one; the process may be slow to start. *)
ProbeExpires(p) == p \in probes /\ Report(p, FALSE, 0)

-----------------------------------------------------------------------------

ReconcileStep ==
  \/ Reconcile \/ Fail \/ PromoteNothing \/ PromoteSwap
  \/ \E ok \in BOOLEAN : PromoteStop(ok)

ProbeStep == \E p \in Probe : ProbeAnswered(p) \/ ProbeExpires(p)

Next ==
  \/ \E ok \in BOOLEAN : Load(ok) \/ Deploy(ok) \/ Replace(ok)
  \/ Remove
  \/ \E k \in Keys : UnloadFails(k) \/ GiveUp(k) \/ Crash(k)
  \/ \E k \in Keys, ok \in BOOLEAN : Restart(k, ok)
  \/ ReconcileStep
  \/ ProbeStep

Spec == Init /\ [][Next]_vars

(* The event loop runs the maintenance pass again and again, and a probe   *)
(* thread ends with its window.                                            *)
FairSpec == Spec /\ WF_vars(ReconcileStep) /\ WF_vars(ProbeStep)

-----------------------------------------------------------------------------
(* Properties. *)

(* A generation that failed has no process left: the rollback of           *)
(* fail_generation, whichever of a crash and a report came first.          *)
FailedIsGone == \A v \in With("Failed") : procs[v] = NoProc

(* The ring of generations has at most one stable generation, and a canary *)
(* that could still be promoted is newer than it: promote_generation never *)
(* lets an older config come back after a newer one has taken over.        *)
RingOrdered ==
  \A v, w \in Versions :
    gens[v] = "Stable" /\ gens[w] \in {"Stable", "Probing"} => v <= w

(* The process that promote_generation moves into the canonical slot runs  *)
(* the config its probe was started for, and the answer came from that     *)
(* config's port, whatever ended, was restarted, removed or deployed       *)
(* meanwhile: an outcome is not applied to another canary.  Not so when a  *)
(* version is used again, after a removal or a promotion, while the thread *)
(* that probed its first use still runs: outcomes carry a version only.    *)
PromotedWasProbed ==
  ~reused /\ pc = "swap" =>
    LET o == Head(batch) IN procs[o.version].cfg = o.cfg /\ PortOf[o.by] = PortOf[o.cfg]

(* What holds between any two steps of the manager, also when a config     *)
(* keeps the port of the one before.                                       *)
RingConsistent == TypeOK /\ FailedIsGone /\ RingOrdered /\ PromotedWasProbed

(* What deploy_generation says of itself: a canary is probed "before it    *)
(* ever takes over traffic", so the process that takes over is the one     *)
(* that answered.  Not so when the config keeps its port, as a hot reload  *)
(* does: the running process answers there for the canary.                 *)
CanaryAnsweredItself ==
  pc = "swap" => LET o == Head(batch) IN procs[o.version].cfg = o.by

(* Once unload_config has stopped the worker of a removed config, the      *)
(* manager keeps no process of it under any key: "a canary does not        *)
(* outlive the config it came from".  Not so when two canaries of it were  *)
(* probed at once: the promotion of one drops the other's entry only.      *)
RemovalStopsAll == [][Remove => \A k \in Keys : procs'[k] = NoProc]_vars

(* It is so while redeploys come one at a time and stops succeed.          *)
SerialRemovalStopsAll ==
  [][Remove /\ serial => \A k \in Keys : procs'[k] = NoProc]_vars

(* A canary does not stay in its probing state for ever: it is promoted,   *)
(* fails, or is stopped with its config, even if its process or its probe  *)
(* thread ends at the worst moment.  (A stop that fails loses the outcomes *)
(* of its pass.)                                                           *)
ProbingEnds ==
  \A v \in Versions : gens[v] = "Probing" /\ serial ~> gens[v] # "Probing" \/ ~serial
=============================================================================
