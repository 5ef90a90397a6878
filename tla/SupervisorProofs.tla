--------------------------- MODULE SupervisorProofs --------------------------
(***************************************************************************)
(* Proofs about the supervisor's two halves: the process manager of one    *)
(* worker (Generations), for any number of configs, any limits and any of  *)
(* its failures, and the config watcher that tells it what to run          *)
(* (Watcher), for any number of workers, commands and faults.              *)
(*                                                                         *)
(* Of the manager, RingInv is what holds whatever fails: a version in the  *)
(* ring is at most the number of configs written, so that a free one is    *)
(* left; a probing generation has its process; a pass is in the middle of  *)
(* a promotion only with the healthy outcome of a probing generation at    *)
(* hand.  SerialInv: as long as redeploys come one at a time, at most one  *)
(* generation is probing, the outcome that decides it is on its way, and   *)
(* no key but its own and the canonical one has a process; as long as no   *)
(* version was used again too soon, also when redeploys overlap, every     *)
(* outcome for a probing generation is about the config it runs.  Of the   *)
(* watcher, WatcherInv says what work is on its way for a worker that does *)
(* not run what its file says.                                             *)
(***************************************************************************)
EXTENDS Generations, Watcher, WellFoundedInduction, SequenceTheorems, TLAPS

(* The outcome of a probe of version v, started for config c, is not       *)
(* applied yet.                                                            *)
OnItsWay(v, c) ==
  \/ \E p \in probes : p.version = v /\ p.cfg = c
  \/ \E i \in 1..Len(results) : results[i].version = v /\ results[i].cfg = c
  \/ \E i \in 1..Len(batch) : batch[i].version = v /\ batch[i].cfg = c

VersionsUsed == \A v \in Versions : gens[v] # "none" => v <= config

ProbingHasProcess == \A v \in Versions : gens[v] = "Probing" => procs[v] # NoProc

PassInv ==
  /\ pc = "idle" <=> batch = <<>>
  /\ pc = "swap" => Head(batch).healthy /\ gens[Head(batch).version] = "Probing"

RingInv ==
  TypeOK /\ VersionsUsed /\ FailedIsGone /\ RingOrdered /\ ProbingHasProcess /\ PassInv

OneProbing == \A v, w \in Versions : gens[v] = "Probing" /\ gens[w] = "Probing" => v = w
ProbingIsDecided == \A v \in Versions : gens[v] = "Probing" => \E c \in Configs : OnItsWay(v, c)
OthersGone == \A v \in Versions : gens[v] # "Probing" => procs[v] = NoProc
ProbedIsRun ==
  \A v \in Versions, c \in Configs : OnItsWay(v, c) /\ gens[v] = "Probing" => procs[v].cfg = c

SerialInv ==
  /\ serial => OneProbing /\ ProbingIsDecided /\ OthersGone
  /\ ~reused => ProbedIsRun

(* A healthy outcome is an answer from the port of the config probed. *)
AnsweredInv ==
  /\ \A i \in 1..Len(results) : results[i].healthy => PortOf[results[i].by] = PortOf[results[i].cfg]
  /\ \A i \in 1..Len(batch) : batch[i].healthy => PortOf[batch[i].by] = PortOf[batch[i].cfg]

-----------------------------------------------------------------------------
(* Facts about the data. *)

LEMMA KeyFacts ==
  /\ Canonical \in Keys /\ Canonical \notin Versions /\ Versions \subseteq Keys
  /\ Versions = Configs /\ \A v \in Versions : v \in Nat /\ v # 0
  /\ \A k \in Keys : k = Canonical \/ k \in Versions
BY MaxConfigsAssumption DEF Canonical, Keys, Versions, Configs

LEMMA NoProcIsNone == NoProc \notin Proc
<1>1. NoProc.cfg = 0
  BY DEF NoProc
<1>2. \A p \in Proc : p.cfg \in Configs
  BY DEF Proc
<1> QED BY <1>1, <1>2, KeyFacts

LEMMA Least ==
  ASSUME NEW T \in SUBSET Nat, T # {}
  PROVE  \E n \in T : \A m \in T : n <= m
<1> DEFINE R == OpToRel(<, Nat)
<1>1. IsWellFoundedOn(R, Nat)
  BY NatLessThanWellFounded, Zenon
<1>2. \A m, n \in Nat : m < n => <<m, n>> \in R
  BY Zenon DEF OpToRel
<1> HIDE DEF R
<1>3. PICK n \in T : \A m \in T : ~(<<m, n>> \in R)
  BY <1>1, WFMin
<1>4. \A m \in T : ~(m < n)
  BY <1>2, <1>3
<1> QED BY <1>4

(* The version of a new generation is above all of the ring, and one is    *)
(* free as long as another config may be written.                          *)
LEMMA NextVersionIs ==
  ASSUME RingInv, config < MaxConfigs
  PROVE  /\ NextVersion(gens) \in Versions /\ NextVersion(gens) <= config + 1
         /\ \A w \in Versions : gens[w] # "none" => w < NextVersion(gens)
<1> DEFINE Above(n) == \A w \in Versions : gens[w] # "none" => w < n
<1> DEFINE T == {n \in 1..(MaxConfigs + 1) : Above(n)}
<1>1. config \in Nat /\ MaxConfigs \in Nat /\ \A w \in Versions : w \in Nat /\ w <= MaxConfigs /\ w >= 1
  BY MaxConfigsAssumption DEF RingInv, TypeOK, Versions
<1>2. config + 1 \in T
  BY <1>1 DEF RingInv, VersionsUsed
<1>3. T \in SUBSET Nat /\ \A n \in T : Above(n) /\ n \in 1..(MaxConfigs + 1)
  BY <1>1
<1> HIDE DEF T
<1>4. PICK n \in T : \A m \in T : n <= m
  BY <1>2, <1>3, Least
<1>5. n \in 1..(MaxConfigs + 1) /\ Above(n) /\ n <= config + 1
  BY <1>2, <1>3, <1>4
<1>6. n > 1 => gens[n - 1] # "none"
  <2> SUFFICES ASSUME n > 1, gens[n - 1] = "none" PROVE FALSE
    OBVIOUS
  <2>1. n - 1 \in 1..(MaxConfigs + 1)
    BY <1>1, <1>5
  <2>2. Above(n - 1)
    <3> SUFFICES ASSUME NEW w \in Versions, gens[w] # "none" PROVE w < n - 1
      OBVIOUS
    <3>1. w < n /\ w # n - 1
      BY <1>5
    <3> QED BY <1>1, <1>5, <3>1
  <2>3. n - 1 \in T
    BY <2>1, <2>2 DEF T
  <2> QED BY <1>1, <1>4, <1>5, <2>3
<1> HIDE DEF Above
<1>7. \A m \in 1..(MaxConfigs + 1) : Above(m) /\ (m > 1 => gens[m - 1] # "none") => m = n
  <2> SUFFICES ASSUME NEW m \in 1..(MaxConfigs + 1), Above(m), m > 1 => gens[m - 1] # "none" PROVE m = n
    OBVIOUS
  <2>1. m \in T
    BY DEF T
  <2>2. n <= m
    BY <1>4, <2>1
  <2>3. ASSUME n < m PROVE FALSE
    <3>1. m - 1 \in Versions /\ gens[m - 1] # "none"
      BY <1>1, <1>5, <2>3 DEF Versions
    <3>2. m - 1 < n
      BY <1>5, <3>1 DEF Above
    <3> QED BY <1>1, <1>5, <2>3, <3>2
  <2> QED BY <1>1, <1>5, <2>2, <2>3
<1>8. NextVersion(gens) = CHOOSE m \in 1..(MaxConfigs + 1) : Above(m) /\ (m > 1 => gens[m - 1] # "none")
  BY DEF NextVersion, Above
<1>9. NextVersion(gens) = n
  BY <1>5, <1>6, <1>7, <1>8
<1> QED BY <1>1, <1>5, <1>9 DEF Versions, Above

(* Every key but those given to be stopped keeps its process. *)
LEMMA StoppedIs ==
  ASSUME TypeOK, NEW last \in Keys
  PROVE  /\ StoppedThrough(last) \in [Keys -> Proc \cup {NoProc}]
         /\ \A k \in Keys : StoppedThrough(last)[k] \in {procs[k], NoProc}
         /\ StoppedThrough(Canonical)[Canonical] = NoProc
         /\ \A v \in With("Probing") : StoppedThrough(Canonical)[v] = NoProc
<1>1. \A k \in Keys : procs[k] \in Proc \cup {NoProc}
  BY DEF TypeOK
<1>2. With("Probing") \subseteq Keys
  BY KeyFacts DEF With
<1> QED BY <1>1, <1>2, KeyFacts DEF StoppedThrough

-----------------------------------------------------------------------------
(* What the kinds of steps keep. *)

(* A step that touches no generation, and of the keys of generations only  *)
(* those with a process, of the probing ones neither that nor the config.  *)
LEMMA RingKept ==
  ASSUME RingInv, SerialInv, TypeOK', PassInv', gens' = gens, config <= config',
         serial' => serial /\ UNCHANGED <<probes, results, batch>>,
         reused' = reused, UNCHANGED <<probes, results>>, batch' = batch \/ batch' = <<>>,
         \A v \in Versions : procs[v] = NoProc => procs'[v] = NoProc,
         \A v \in Versions : gens[v] = "Probing" => procs'[v] # NoProc /\ procs'[v].cfg = procs[v].cfg
  PROVE  RingInv' /\ SerialInv'
<1>1. VersionsUsed'
  <2>1. config \in Nat /\ config' \in Nat /\ \A v \in Versions : v \in Nat
    BY MaxConfigsAssumption, KeyFacts DEF RingInv, TypeOK
  <2> QED BY <2>1 DEF RingInv, VersionsUsed
<1>2. FailedIsGone' /\ RingOrdered' /\ ProbingHasProcess'
  BY DEF RingInv, FailedIsGone, RingOrdered, ProbingHasProcess, With
<1>3. SerialInv'
  <2>1. ASSUME serial' PROVE OneProbing' /\ ProbingIsDecided' /\ OthersGone'
    <3>1. OneProbing /\ ProbingIsDecided /\ OthersGone /\ UNCHANGED <<probes, results, batch>>
      BY <2>1 DEF SerialInv
    <3>2. \A v \in Versions, c \in Configs : OnItsWay(v, c)' <=> OnItsWay(v, c)
      BY <3>1 DEF OnItsWay
    <3>3. OneProbing' /\ OthersGone'
      BY <3>1 DEF OneProbing, OthersGone
    <3>4. ProbingIsDecided'
      BY <3>1, <3>2 DEF ProbingIsDecided
    <3> QED BY <3>3, <3>4
  <2>2. ASSUME ~reused' PROVE ProbedIsRun'
    <3>1. ProbedIsRun
      BY <2>2 DEF SerialInv
    <3>2. \A v \in Versions, c \in Configs : OnItsWay(v, c)' => OnItsWay(v, c)
      BY DEF OnItsWay
    <3> QED BY <3>1, <3>2 DEF ProbedIsRun
  <2> QED BY <2>1, <2>2 DEF SerialInv
<1> QED BY <1>1, <1>2, <1>3 DEF RingInv

(* A step that clears the ring. *)
LEMMA RingCleared ==
  ASSUME TypeOK', PassInv', gens' = NoGens,
         serial' => \A v \in Versions : procs'[v] = NoProc
  PROVE  RingInv' /\ SerialInv'
<1>1. \A v \in Versions : gens'[v] = "none"
  BY DEF NoGens
<1>2. VersionsUsed' /\ FailedIsGone' /\ RingOrdered' /\ ProbingHasProcess'
  BY <1>1 DEF VersionsUsed, FailedIsGone, RingOrdered, ProbingHasProcess, With
<1>3. OneProbing' /\ ProbingIsDecided' /\ ProbedIsRun' /\ (serial' => OthersGone')
  BY <1>1 DEF OneProbing, ProbingIsDecided, ProbedIsRun, OthersGone
<1> QED BY <1>2, <1>3 DEF RingInv, SerialInv

(* A step that fails the generations vs, or none, and moves outcomes, but  *)
(* drops none of a generation still probing.                               *)
LEMMA RingFailed ==
  ASSUME RingInv, SerialInv, TypeOK', PassInv', UNCHANGED <<config, serial, reused>>,
         NEW vs \in SUBSET Versions, \A v \in vs : gens[v] # "none",
         \A v \in Versions : gens'[v] = IF v \in vs THEN "Failed" ELSE gens[v],
         \A k \in Keys : procs'[k] = IF k \in vs THEN NoProc ELSE procs[k],
         \A v \in Versions, c \in Configs : OnItsWay(v, c)' => OnItsWay(v, c),
         \A v \in Versions, c \in Configs : gens'[v] = "Probing" /\ OnItsWay(v, c) => OnItsWay(v, c)'
  PROVE  RingInv' /\ SerialInv'
<1>1. \A v \in Versions : procs'[v] = IF v \in vs THEN NoProc ELSE procs[v]
  BY KeyFacts
<1>2. VersionsUsed' /\ FailedIsGone' /\ RingOrdered' /\ ProbingHasProcess'
  BY <1>1 DEF RingInv, VersionsUsed, FailedIsGone, RingOrdered, ProbingHasProcess, With
<1>3. SerialInv'
  <2>1. \A v \in Versions : gens'[v] = "Probing" => gens[v] = "Probing" /\ v \notin vs
    OBVIOUS
  <2>2. ASSUME serial' PROVE OneProbing' /\ ProbingIsDecided' /\ OthersGone'
    <3>1. OneProbing /\ ProbingIsDecided /\ OthersGone
      BY <2>2 DEF SerialInv
    <3>2. OneProbing'
      BY <2>1, <3>1 DEF OneProbing
    <3>3. OthersGone'
      BY <1>1, <3>1 DEF OthersGone
    <3>4. ProbingIsDecided'
      BY <2>1, <3>1 DEF ProbingIsDecided
    <3> QED BY <3>2, <3>3, <3>4
  <2>3. ASSUME ~reused' PROVE ProbedIsRun'
    <3>1. ProbedIsRun
      BY <2>3 DEF SerialInv
    <3> QED BY <1>1, <2>1, <3>1 DEF ProbedIsRun
  <2> QED BY <2>2, <2>3 DEF SerialInv
<1> QED BY <1>2, <1>3 DEF RingInv

(* What the pass goes on with. *)
LEMMA RestIs ==
  ASSUME NEW rest \in Seq(Outcome), ApplyRest(rest)
  PROVE  batch' = rest /\ pc' \in {"idle", "apply"} /\ PassInv'
BY DEF ApplyRest, PassInv

LEMMA OnItsWayRest ==
  ASSUME TypeOK, batch # <<>>, batch' = Tail(batch), UNCHANGED <<probes, results>>,
         NEW v \in Versions, NEW c \in Configs
  PROVE  /\ OnItsWay(v, c)' => OnItsWay(v, c)
         /\ OnItsWay(v, c) => OnItsWay(v, c)' \/ v = Head(batch).version
<1>1. /\ batch \in Seq(Outcome) /\ Len(batch) \in Nat /\ Len(batch) >= 1
      /\ Len(batch') = Len(batch) - 1 /\ Head(batch) = batch[1]
      /\ \A i \in 1..(Len(batch) - 1) : batch'[i] = batch[i + 1]
  BY DEF TypeOK
<1>2. \A i \in 1..Len(batch') : i + 1 \in 1..Len(batch) /\ batch'[i] = batch[i + 1]
  BY <1>1
<1>3. \A i \in 1..Len(batch) : i = 1 \/ (i - 1 \in 1..Len(batch') /\ batch'[i - 1] = batch[i])
  BY <1>1
<1>4. OnItsWay(v, c)' => OnItsWay(v, c)
  BY <1>2 DEF OnItsWay
<1>5. OnItsWay(v, c) => OnItsWay(v, c)' \/ v = Head(batch).version
  BY <1>1, <1>3 DEF OnItsWay
<1> QED BY <1>4, <1>5

LEMMA SpawnedIs ==
  ASSUME NEW ps \in [Keys -> Proc \cup {NoProc}], NEW k \in Keys, NEW c \in Configs, NEW ok \in BOOLEAN
  PROVE  /\ Spawned(ps, k, c, ok) \in [Keys -> Proc \cup {NoProc}]
         /\ ok => Spawned(ps, k, c, ok)[k] \in Proc /\ Spawned(ps, k, c, ok)[k].cfg = c
         /\ ~ok => Spawned(ps, k, c, ok)[k] = NoProc
         /\ \A l \in Keys \ {k} : Spawned(ps, k, c, ok)[l] = ps[l]
<1> DEFINE new == [cfg |-> c, alive |-> TRUE, restarts |-> 0]
<1>1. new \in Proc /\ new.cfg = c
  BY LimitsAssumption DEF Proc
<1> HIDE DEF new
<1>2. Spawned(ps, k, c, ok) = [ps EXCEPT ![k] = IF ok THEN new ELSE NoProc]
  BY DEF Spawned, new
<1> QED BY <1>1, <1>2

LEMMA NewConfigIs ==
  ASSUME RingInv, NewConfig
  PROVE  /\ config \in Nat /\ config < MaxConfigs /\ config' = config + 1 /\ config <= config'
         /\ config' \in Configs /\ config' \in 0..MaxConfigs /\ pc = "idle" /\ batch = <<>>
BY MaxConfigsAssumption DEF RingInv, TypeOK, NewConfig, Configs, PassInv

-----------------------------------------------------------------------------
(* One lemma per action. *)

LEMMA StepLoad ==
  ASSUME RingInv, SerialInv, NEW ok \in BOOLEAN, Load(ok)
  PROVE  RingInv' /\ SerialInv'
<1>1. /\ NewConfig /\ procs' = Spawned(procs, Canonical, config', ok)
      /\ UNCHANGED <<pc, gens, probes, results, batch, serial, reused>>
  BY DEF Load
<1>2. /\ procs' \in [Keys -> Proc \cup {NoProc}]
      /\ \A l \in Keys \ {Canonical} : procs'[l] = procs[l]
  BY <1>1, NewConfigIs, KeyFacts, SpawnedIs DEF RingInv, TypeOK
<1>3. \A v \in Versions : procs'[v] = procs[v]
  BY <1>2, KeyFacts
<1>4. TypeOK'
  BY <1>1, <1>2, NewConfigIs DEF RingInv, TypeOK
<1>5. PassInv'
  BY <1>1 DEF RingInv, PassInv
<1>6. \A v \in Versions : gens[v] = "Probing" => procs'[v] # NoProc /\ procs'[v].cfg = procs[v].cfg
  BY <1>3 DEF RingInv, ProbingHasProcess
<1> QED BY <1>1, <1>3, <1>4, <1>5, <1>6, NewConfigIs, RingKept

LEMMA StepDeploy ==
  ASSUME RingInv, SerialInv, NEW ok \in BOOLEAN, Deploy(ok)
  PROVE  RingInv' /\ SerialInv'
<1>1. PICK v \in Versions :
        /\ v = NextVersion(gens) /\ v <= config + 1
        /\ \A w \in Versions : gens[w] # "none" => w < v
  BY NewConfigIs, NextVersionIs DEF Deploy
<1>2. /\ NewConfig /\ procs' = Spawned(procs, v, config', ok)
      /\ gens' = IF ok THEN Pruned([gens EXCEPT ![v] = "Probing"]) ELSE gens
      /\ probes' = IF ok THEN probes \cup {[version |-> v, cfg |-> config']} ELSE probes
      /\ reused' = (reused \/ (ok /\ Unapplied(v)))
      /\ serial' = (serial /\ probes = {} /\ results = <<>>)
      /\ UNCHANGED <<pc, results, batch>>
  BY <1>1 DEF Deploy
<1>3. /\ procs' \in [Keys -> Proc \cup {NoProc}]
      /\ ok => procs'[v] \in Proc /\ procs'[v].cfg = config'
      /\ ~ok => procs'[v] = NoProc
      /\ \A l \in Keys \ {v} : procs'[l] = procs[l]
  BY <1>2, NewConfigIs, KeyFacts, SpawnedIs DEF RingInv, TypeOK
<1>4. \A w \in Versions : w # v => procs'[w] = procs[w]
  BY <1>3, KeyFacts
<1>5. gens[v] = "none" /\ gens \in [Versions -> Status] /\ v \in Nat /\ \A w \in Versions : w \in Nat
  BY <1>1, KeyFacts DEF RingInv, TypeOK
<1>6. PassInv'
  BY <1>2, NewConfigIs DEF PassInv
<1>7. CASE ~ok
  <2>1. TypeOK'
    BY <1>2, <1>3, <1>7, NewConfigIs DEF RingInv, TypeOK
  <2>2. \A w \in Versions : procs[w] = NoProc => procs'[w] = NoProc
    BY <1>3, <1>4, <1>7
  <2>3. \A w \in Versions : gens[w] = "Probing" => procs'[w] # NoProc /\ procs'[w].cfg = procs[w].cfg
    BY <1>4, <1>5 DEF RingInv, ProbingHasProcess
  <2>4. serial' => serial /\ UNCHANGED <<probes, results, batch>>
    BY <1>2, <1>7
  <2>5. reused' = reused
    BY <1>2, <1>7, Zenon DEF RingInv, TypeOK
  <2>6. gens' = gens /\ UNCHANGED <<probes, results>> /\ batch' = batch /\ config <= config'
    BY <1>2, <1>7, NewConfigIs
  <2> QED BY <1>6, <2>1, <2>2, <2>3, <2>4, <2>5, <2>6, RingKept
<1>8. CASE ok
  <2> DEFINE g == [gens EXCEPT ![v] = "Probing"]
  <2>1. /\ g \in [Versions -> Status] /\ g[v] = "Probing" /\ \A w \in Versions : w # v => g[w] = gens[w]
    BY <1>5 DEF Status
  <2> HIDE DEF g
  <2>2. /\ gens' = Pruned(g)
        /\ gens' \in [Versions -> Status]
        /\ \A w \in Versions : gens'[w] = g[w] \/ (g[w] = "Failed" /\ gens'[w] = "none")
    <3>1. gens' = Pruned(g)
      BY <1>2, <1>8 DEF g
    <3> QED BY <2>1, <3>1 DEF Pruned, Status
  <2>3. gens'[v] = "Probing"
    BY <2>1, <2>2
  <2>4. \A w \in Versions : w # v =>
          gens'[w] = gens[w] \/ (gens[w] = "Failed" /\ gens'[w] = "none")
    BY <2>1, <2>2
  <2>5. TypeOK'
    <3>1. [version |-> v, cfg |-> config'] \in Probe
      BY NewConfigIs, <1>2 DEF Probe
    <3> QED BY <1>2, <1>3, <1>8, <2>2, <3>1, NewConfigIs DEF RingInv, TypeOK
  <2>6. VersionsUsed'
    <3>1. \A w \in Versions : w # v /\ gens'[w] # "none" => w <= config
      BY <2>4 DEF RingInv, VersionsUsed
    <3>2. config \in Nat /\ config' = config + 1
      BY <1>2, NewConfigIs
    <3>3. \A w \in Versions : gens'[w] # "none" => w <= config + 1
      BY <1>1, <1>5, <3>1, <3>2
    <3> QED BY <3>2, <3>3 DEF VersionsUsed
  <2>7. FailedIsGone' /\ ProbingHasProcess'
    <3>1. \A w \in Versions : gens'[w] = "Failed" => w # v /\ gens[w] = "Failed"
      BY <2>3, <2>4
    <3>2. \A w \in Versions : gens'[w] = "Probing" => w = v \/ gens[w] = "Probing"
      BY <2>4
    <3>3. procs'[v] # NoProc
      BY <1>3, <1>8, NoProcIsNone
    <3>4. FailedIsGone'
      BY <1>4, <3>1 DEF RingInv, FailedIsGone, With
    <3>5. ProbingHasProcess'
      BY <1>4, <3>2, <3>3 DEF RingInv, ProbingHasProcess
    <3> QED BY <3>4, <3>5
  <2>8. RingOrdered'
    <3> SUFFICES ASSUME NEW u \in Versions, NEW w \in Versions, gens'[u] = "Stable", gens'[w] \in {"Stable", "Probing"}
                 PROVE  u <= w
      BY DEF RingOrdered
    <3>1. u # v /\ gens[u] = "Stable"
      BY <2>3, <2>4
    <3>2. CASE w = v
      BY <1>1, <1>5, <3>1, <3>2
    <3>3. CASE w # v
      BY <2>4, <3>1, <3>3 DEF RingInv, RingOrdered
    <3> QED BY <3>2, <3>3
  <2>9. ASSUME serial' PROVE OneProbing' /\ ProbingIsDecided' /\ OthersGone'
    <3>1. /\ serial /\ probes = {} /\ results = <<>> /\ batch = <<>>
          /\ OneProbing /\ ProbingIsDecided /\ OthersGone
      BY <1>2, <2>9, NewConfigIs DEF SerialInv
    <3>2. \A w \in Versions, c \in Configs : ~OnItsWay(w, c)
      BY <3>1 DEF OnItsWay
    <3>3. \A w \in Versions : gens[w] # "Probing"
      BY <3>1, <3>2 DEF ProbingIsDecided
    <3>4. \A w \in Versions : gens'[w] = "Probing" <=> w = v
      BY <2>3, <2>4, <3>3
    <3>5. \A w \in Versions, c \in Configs : OnItsWay(w, c)' <=> w = v /\ c = config'
      <4>1. probes' = {[version |-> v, cfg |-> config']} /\ results' = <<>> /\ batch' = <<>>
        BY <1>2, <1>8, <3>1
      <4> QED BY <4>1 DEF OnItsWay
    <3>6. OneProbing'
      BY <3>4 DEF OneProbing
    <3>7. ProbingIsDecided'
      BY <1>2, <3>4, <3>5, NewConfigIs DEF ProbingIsDecided
    <3>8. OthersGone'
      BY <1>4, <3>1, <3>3, <3>4 DEF OthersGone
    <3> QED BY <3>6, <3>7, <3>8
  <2>10. ASSUME ~reused' PROVE ProbedIsRun'
    <3>1. ProbedIsRun /\ ~Unapplied(v) /\ batch = <<>>
      BY <1>2, <1>8, <2>10, NewConfigIs DEF SerialInv
    <3>2. results \in Seq(Outcome) /\ DOMAIN results = 1..Len(results)
      BY DEF RingInv, TypeOK
    <3>3. probes' = probes \cup {[version |-> v, cfg |-> config']} /\ results' = results /\ batch' = batch
      BY <1>2, <1>8
    <3>4. \A c \in Configs : OnItsWay(v, c)' => c = config'
      BY <3>1, <3>2, <3>3 DEF OnItsWay, Unapplied
    <3>5. \A w \in Versions, c \in Configs : w # v /\ OnItsWay(w, c)' => OnItsWay(w, c)
      BY <3>3 DEF OnItsWay
    <3>6. \A w \in Versions : w # v /\ gens'[w] = "Probing" => gens[w] = "Probing"
      BY <2>4
    <3> SUFFICES ASSUME NEW w \in Versions, NEW c \in Configs, OnItsWay(w, c)', gens'[w] = "Probing"
                 PROVE  procs'[w].cfg = c
      BY DEF ProbedIsRun
    <3>7. CASE w = v
      BY <1>3, <1>8, <3>4, <3>7
    <3>8. CASE w # v
      BY <1>4, <3>1, <3>5, <3>6, <3>8 DEF ProbedIsRun
    <3> QED BY <3>7, <3>8
  <2> QED BY <1>6, <2>5, <2>6, <2>7, <2>8, <2>9, <2>10 DEF RingInv, SerialInv
<1> QED BY <1>7, <1>8

LEMMA StepUnload ==
  ASSUME RingInv, SerialInv,
         (\E ok \in BOOLEAN : Replace(ok)) \/ Remove \/ (\E k \in Keys : UnloadFails(k))
  PROVE  RingInv' /\ SerialInv'
<1>0. TypeOK /\ NoGens \in [Versions -> Status] /\ pc = "idle"
  BY DEF RingInv, NoGens, Status, Replace, NewConfig, Remove, UnloadFails
<1>1. serial => \A v \in Versions : v \in With("Probing") \/ procs[v] = NoProc
  BY DEF SerialInv, OthersGone, With
<1> DEFINE rest == StoppedThrough(Canonical)
<1>2. /\ rest \in [Keys -> Proc \cup {NoProc}]
      /\ serial => \A v \in Versions : rest[v] = NoProc
  BY <1>0, <1>1, StoppedIs, KeyFacts
<1> HIDE DEF rest
<1>3. ASSUME NEW ok \in BOOLEAN, Replace(ok) PROVE RingInv' /\ SerialInv'
  <2>1. /\ NewConfig /\ procs' = Spawned(rest, Canonical, config', ok) /\ gens' = NoGens
        /\ UNCHANGED <<pc, probes, results, batch, serial, reused>>
    BY <1>3 DEF Replace, rest
  <2>2. procs' \in [Keys -> Proc \cup {NoProc}] /\ \A l \in Keys \ {Canonical} : procs'[l] = rest[l]
    BY <1>2, <2>1, NewConfigIs, KeyFacts, SpawnedIs
  <2>3. TypeOK'
    BY <1>0, <2>1, <2>2, NewConfigIs DEF TypeOK
  <2>4. PassInv'
    BY <1>0, <2>1 DEF RingInv, PassInv
  <2>5. serial' => \A v \in Versions : procs'[v] = NoProc
    BY <1>2, <2>1, <2>2, KeyFacts
  <2> QED BY <2>1, <2>3, <2>4, <2>5, RingCleared
<1>4. CASE Remove
  <2>1. procs' = rest /\ gens' = NoGens /\ UNCHANGED <<pc, config, probes, results, batch, serial, reused>>
    BY <1>4 DEF Remove, rest
  <2>2. TypeOK'
    BY <1>0, <1>2, <2>1 DEF TypeOK
  <2>3. PassInv'
    BY <1>0, <2>1 DEF RingInv, PassInv
  <2> QED BY <1>2, <2>1, <2>2, <2>3, RingCleared
<1>5. ASSUME NEW k \in Keys, UnloadFails(k) PROVE RingInv' /\ SerialInv'
  <2>1. /\ procs' = StoppedThrough(k) /\ gens' = NoGens /\ serial' = FALSE
        /\ UNCHANGED <<pc, config, probes, results, batch, reused>>
    BY <1>5 DEF UnloadFails
  <2>2. TypeOK'
    BY <1>0, <2>1, StoppedIs DEF TypeOK
  <2>3. PassInv'
    BY <1>0, <2>1 DEF RingInv, PassInv
  <2> QED BY <2>1, <2>2, <2>3, RingCleared
<1> QED BY <1>3, <1>4, <1>5

(* A process under a key that check_processes may touch is no canary's. *)
LEMMA StepCheck ==
  ASSUME RingInv, SerialInv, NEW k \in Keys,
         (\E ok \in BOOLEAN : Restart(k, ok)) \/ GiveUp(k) \/ Crash(k)
  PROVE  RingInv' /\ SerialInv'
<1>1. /\ procs[k] \in Proc /\ UNCHANGED <<pc, config, gens, probes, results, batch, serial, reused>>
      /\ gens[k] = "Probing" /\ k \in Versions => Crash(k)
  <2>1. procs[k] \in Proc \cup {NoProc}
    BY DEF RingInv, TypeOK
  <2>2. procs[k] # NoProc
    BY DEF Restart, GiveUp, Crash, Checkable, Running
  <2> QED BY <2>1, <2>2 DEF Restart, GiveUp, Crash, Checkable, With
<1>2. PICK p \in Proc \cup {NoProc} :
        /\ procs' = [procs EXCEPT ![k] = p]
        /\ Crash(k) => p \in Proc /\ p.cfg = procs[k].cfg
  <2>1. CASE Crash(k)
    <3>1. procs' = [procs EXCEPT ![k] = [procs[k] EXCEPT !.alive = FALSE]]
      BY <2>1 DEF Crash
    <3>2. [procs[k] EXCEPT !.alive = FALSE] \in Proc /\ [procs[k] EXCEPT !.alive = FALSE].cfg = procs[k].cfg
      BY <1>1 DEF Proc
    <3> QED BY <3>1, <3>2
  <2>2. ASSUME ~Crash(k), NEW ok \in BOOLEAN, Restart(k, ok)
        PROVE  \E p \in Proc \cup {NoProc} : procs' = [procs EXCEPT ![k] = p]
    <3>1. CASE ~ok
      BY <2>2, <3>1 DEF Restart
    <3>2. CASE ok
      <4> DEFINE n == IF procs[k].restarts < MaxRestarts THEN procs[k].restarts + 1 ELSE procs[k].restarts
      <4> DEFINE p == [procs[k] EXCEPT !.alive = TRUE, !.restarts = n]
      <4>1. procs' = [procs EXCEPT ![k] = p]
        BY <2>2, <3>2 DEF Restart, RingInv, TypeOK
      <4>2. n \in 0..MaxRestarts
        BY <1>1, LimitsAssumption DEF Proc
      <4> HIDE DEF n
      <4>3. p \in Proc
        BY <1>1, <4>2 DEF Proc
      <4> QED BY <4>1, <4>3
    <3> QED BY <3>1, <3>2
  <2>3. CASE ~Crash(k) /\ GiveUp(k)
    BY <2>3 DEF GiveUp
  <2> QED BY <2>1, <2>2, <2>3
<1>3. TypeOK'
  BY <1>1, <1>2 DEF RingInv, TypeOK
<1>4. PassInv'
  BY <1>1 DEF RingInv, PassInv
<1>5. \A v \in Versions : procs[v] = NoProc => procs'[v] = NoProc
  BY <1>1, <1>2, KeyFacts, NoProcIsNone DEF RingInv, TypeOK
<1>6. \A v \in Versions : gens[v] = "Probing" => procs'[v] # NoProc /\ procs'[v].cfg = procs[v].cfg
  <2> SUFFICES ASSUME NEW v \in Versions, gens[v] = "Probing"
               PROVE  procs'[v] # NoProc /\ procs'[v].cfg = procs[v].cfg
    OBVIOUS
  <2>1. v \in Keys /\ procs[v] # NoProc /\ procs \in [Keys -> Proc \cup {NoProc}]
    BY KeyFacts DEF RingInv, ProbingHasProcess, TypeOK
  <2>2. CASE v = k
    BY <1>1, <1>2, <2>1, <2>2, NoProcIsNone
  <2>3. CASE v # k
    BY <1>2, <2>1, <2>3
  <2> QED BY <2>2, <2>3
<1>7. config <= config'
  BY <1>1, MaxConfigsAssumption DEF RingInv, TypeOK
<1> QED BY <1>1, <1>3, <1>4, <1>5, <1>6, <1>7, RingKept

LEMMA FailedTypes ==
  ASSUME TypeOK, NEW vs \in SUBSET Versions
  PROVE  /\ MarkedFailed(gens, vs) \in [Versions -> Status]
         /\ \A v \in Versions : MarkedFailed(gens, vs)[v] = IF v \in vs THEN "Failed" ELSE gens[v]
         /\ StoppedFailed(procs, vs) \in [Keys -> Proc \cup {NoProc}]
         /\ \A k \in Keys : StoppedFailed(procs, vs)[k] = IF k \in vs THEN NoProc ELSE procs[k]
BY DEF TypeOK, MarkedFailed, StoppedFailed, Status

LEMMA StepReconcile ==
  ASSUME RingInv, SerialInv, Reconcile
  PROVE  RingInv' /\ SerialInv'
<1> DEFINE vs == {v \in With("Probing") : ~Running(v)}
<1>1. /\ vs \in SUBSET Versions /\ (\A v \in vs : gens[v] # "none")
      /\ gens' = MarkedFailed(gens, vs) /\ procs' = StoppedFailed(procs, vs)
      /\ results' = <<>> /\ ApplyRest(results) /\ UNCHANGED <<config, probes, serial, reused>>
      /\ batch = <<>> /\ TypeOK
  BY DEF Reconcile, With, RingInv, PassInv
<1> HIDE DEF vs
<1>2. batch' = results /\ pc' \in {"idle", "apply"} /\ PassInv'
  BY <1>1, RestIs DEF TypeOK
<1>3. TypeOK'
  BY <1>1, <1>2, FailedTypes DEF TypeOK
<1>4. \A v \in Versions, c \in Configs : OnItsWay(v, c)' <=> OnItsWay(v, c)
  BY <1>1, <1>2 DEF OnItsWay
<1> QED BY <1>1, <1>2, <1>3, <1>4, FailedTypes, RingFailed

LEMMA StepFail ==
  ASSUME RingInv, SerialInv, Fail
  PROVE  RingInv' /\ SerialInv'
<1> DEFINE vs == {v \in Versions : v = Head(batch).version /\ gens[v] # "none"}
<1>1. /\ vs \in SUBSET Versions /\ (\A v \in vs : gens[v] # "none")
      /\ gens' = MarkedFailed(gens, vs) /\ procs' = StoppedFailed(procs, vs)
      /\ ApplyRest(Tail(batch)) /\ UNCHANGED <<config, probes, results, serial, reused>>
      /\ batch # <<>> /\ TypeOK
  BY DEF Fail, Applying, RingInv, PassInv
<1>a. \A v \in Versions : v = Head(batch).version => v \in vs \/ gens[v] = "none"
  OBVIOUS
<1> HIDE DEF vs
<1>2. Tail(batch) \in Seq(Outcome)
  BY <1>1 DEF TypeOK
<1>3. batch' = Tail(batch) /\ pc' \in {"idle", "apply"} /\ PassInv'
  BY <1>1, <1>2, RestIs
<1>4. TypeOK'
  BY <1>1, <1>2, <1>3, FailedTypes DEF TypeOK
<1>5. \A v \in Versions : gens'[v] = "Probing" => v # Head(batch).version
  BY <1>1, <1>a, FailedTypes
<1>6. \A v \in Versions, c \in Configs : OnItsWay(v, c)' => OnItsWay(v, c)
  BY <1>1, <1>3, OnItsWayRest
<1>7. \A v \in Versions, c \in Configs : gens'[v] = "Probing" /\ OnItsWay(v, c) => OnItsWay(v, c)'
  BY <1>1, <1>3, <1>5, OnItsWayRest
<1> QED BY <1>1, <1>3, <1>4, <1>6, <1>7, FailedTypes, RingFailed

LEMMA StepPromoteNothing ==
  ASSUME RingInv, SerialInv, PromoteNothing
  PROVE  RingInv' /\ SerialInv'
<1>1. /\ gens[Head(batch).version] # "Probing"
      /\ ApplyRest(Tail(batch)) /\ UNCHANGED <<config, procs, gens, probes, results, serial, reused>>
      /\ batch # <<>> /\ TypeOK
  BY DEF PromoteNothing, Applying, RingInv, PassInv
<1>2. Tail(batch) \in Seq(Outcome)
  BY <1>1 DEF TypeOK
<1>3. batch' = Tail(batch) /\ pc' \in {"idle", "apply"} /\ PassInv'
  BY <1>1, <1>2, RestIs
<1>4. TypeOK'
  BY <1>1, <1>2, <1>3 DEF TypeOK
<1>5. \A v \in Versions : gens'[v] = "Probing" => v # Head(batch).version
  BY <1>1
<1>6. \A v \in Versions, c \in Configs : OnItsWay(v, c)' => OnItsWay(v, c)
  BY <1>1, <1>3, OnItsWayRest
<1>7. \A v \in Versions, c \in Configs : gens'[v] = "Probing" /\ OnItsWay(v, c) => OnItsWay(v, c)'
  BY <1>1, <1>3, <1>5, OnItsWayRest
<1>8. {} \in SUBSET Versions /\ \A v : v \notin {}
  OBVIOUS
<1> QED BY <1>1, <1>3, <1>4, <1>6, <1>7, <1>8, RingFailed

LEMMA StepPromoteStop ==
  ASSUME RingInv, SerialInv, NEW ok \in BOOLEAN, PromoteStop(ok)
  PROVE  RingInv' /\ SerialInv'
<1>1. /\ pc = "apply" /\ Head(batch).healthy /\ gens[Head(batch).version] = "Probing"
      /\ procs' = [procs EXCEPT ![Canonical] = NoProc]
      /\ serial' = (serial /\ ok) /\ UNCHANGED <<config, gens, probes, results, reused>>
      /\ TypeOK /\ batch # <<>>
  BY DEF PromoteStop, Applying, RingInv, PassInv
<1>2. /\ ok => pc' = "swap" /\ batch' = batch
      /\ ~ok => pc' = "idle" /\ batch' = <<>>
  BY DEF PromoteStop, ApplyRest
<1>3. TypeOK'
  <2>1. serial' \in BOOLEAN /\ reused' \in BOOLEAN
    BY <1>1, Zenon DEF TypeOK
  <2>2. procs' \in [Keys -> Proc \cup {NoProc}]
    BY <1>1, KeyFacts DEF TypeOK
  <2>3. (batch' = batch \/ batch' = <<>>) /\ (pc' = "swap" \/ pc' = "idle")
    BY <1>2, Zenon
  <2>5. batch \in Seq(Outcome) /\ <<>> \in Seq(Outcome)
    BY <1>1 DEF TypeOK
  <2>4. batch' \in Seq(Outcome) /\ pc' \in {"idle", "apply", "swap"}
    BY <2>3, <2>5, Zenon
  <2> QED BY <1>1, <2>1, <2>2, <2>4 DEF TypeOK
<1>4. PassInv'
  BY <1>1, <1>2 DEF PassInv
<1>5. \A v \in Versions : procs'[v] = procs[v]
  BY <1>1, KeyFacts DEF TypeOK
<1>6. \A v \in Versions : gens[v] = "Probing" => procs'[v] # NoProc /\ procs'[v].cfg = procs[v].cfg
  BY <1>5 DEF RingInv, ProbingHasProcess
<1>7. config <= config'
  BY <1>1, MaxConfigsAssumption DEF TypeOK
<1> QED BY <1>1, <1>2, <1>3, <1>4, <1>5, <1>6, <1>7, RingKept

(* The promoted generation is alone in the ring; had another been probing, *)
(* its process would have stayed.                                          *)
LEMMA StepPromoteSwap ==
  ASSUME RingInv, SerialInv, PromoteSwap
  PROVE  RingInv' /\ SerialInv'
<1>1. /\ batch # <<>> /\ TypeOK /\ gens[Head(batch).version] = "Probing"
      /\ ApplyRest(Tail(batch)) /\ UNCHANGED <<config, probes, results, serial, reused>>
  BY DEF PromoteSwap, RingInv, PassInv
<1>2. PICK v \in Versions : v = Head(batch).version
  <2>1. Head(batch) \in Outcome
    BY <1>1 DEF TypeOK
  <2> QED BY <2>1 DEF Outcome
<1>3. /\ procs' = [procs EXCEPT ![Canonical] = procs[v], ![v] = NoProc]
      /\ gens' = [NoGens EXCEPT ![v] = "Stable"]
  BY <1>2 DEF PromoteSwap
<1>4. Tail(batch) \in Seq(Outcome)
  BY <1>1 DEF TypeOK
<1>5. batch' = Tail(batch) /\ pc' \in {"idle", "apply"} /\ PassInv'
  BY <1>1, <1>4, RestIs
<1>6. /\ procs' \in [Keys -> Proc \cup {NoProc}] /\ procs'[v] = NoProc
      /\ \A w \in Versions : w # v => procs'[w] = procs[w]
  BY <1>1, <1>3, KeyFacts DEF TypeOK
<1>7. gens' \in [Versions -> Status] /\ \A w \in Versions : gens'[w] = IF w = v THEN "Stable" ELSE "none"
  BY <1>3 DEF NoGens, Status
<1>8. TypeOK'
  BY <1>1, <1>4, <1>5, <1>6, <1>7 DEF TypeOK
<1>9. VersionsUsed'
  BY <1>1, <1>2, <1>7 DEF RingInv, VersionsUsed
<1>10. FailedIsGone' /\ ProbingHasProcess'
  BY <1>7 DEF FailedIsGone, ProbingHasProcess, With
<1>11. RingOrdered'
  BY <1>7, KeyFacts DEF RingOrdered
<1>12. SerialInv'
  <2>1. \A w \in Versions : gens'[w] # "Probing"
    BY <1>7
  <2>2. OneProbing' /\ ProbingIsDecided' /\ ProbedIsRun'
    BY <2>1 DEF OneProbing, ProbingIsDecided, ProbedIsRun
  <2>3. ASSUME serial' PROVE OthersGone'
    <3>1. OneProbing /\ OthersGone
      BY <1>1, <2>3 DEF SerialInv
    <3>2. \A w \in Versions : w # v => gens[w] # "Probing"
      BY <1>1, <1>2, <3>1 DEF OneProbing
    <3> QED BY <1>6, <3>1, <3>2 DEF OthersGone
  <2> QED BY <2>2, <2>3 DEF SerialInv
<1> QED BY <1>5, <1>8, <1>9, <1>10, <1>11, <1>12 DEF RingInv

LEMMA ReportIs ==
  ASSUME TypeOK, NEW p \in Probe, NEW healthy \in BOOLEAN, NEW by \in 0..MaxConfigs,
         p \in probes, Report(p, healthy, by)
  PROVE  /\ results' \in Seq(Outcome) /\ probes' = probes \ {p}
         /\ Len(results) \in Nat /\ Len(results') = Len(results) + 1
         /\ \A i \in 1..Len(results) : results'[i] = results[i]
         /\ results'[Len(results) + 1] = [version |-> p.version, cfg |-> p.cfg, healthy |-> healthy, by |-> by]
         /\ UNCHANGED <<pc, config, procs, gens, batch, serial, reused>>
<1> DEFINE o == [version |-> p.version, cfg |-> p.cfg, healthy |-> healthy, by |-> by]
<1>1. o \in Outcome
  BY DEF Outcome, Probe
<1>2. results \in Seq(Outcome) /\ results' = Append(results, o)
  BY DEF TypeOK, Report
<1>3. probes' = probes \ {p} /\ UNCHANGED <<pc, config, procs, gens, batch, serial, reused>>
  BY DEF Report
<1> HIDE DEF o
<1>4. results' \in Seq(Outcome) /\ Len(results) \in Nat /\ Len(results') = Len(results) + 1
      /\ (\A i \in 1..Len(results) : results'[i] = results[i]) /\ results'[Len(results) + 1] = o
  BY <1>1, <1>2
<1> QED BY <1>3, <1>4 DEF o

LEMMA StepReport ==
  ASSUME RingInv, SerialInv, NEW p \in Probe, NEW healthy \in BOOLEAN, NEW by \in 0..MaxConfigs,
         p \in probes, Report(p, healthy, by)
  PROVE  RingInv' /\ SerialInv'
<1>1. TypeOK /\ results' \in Seq(Outcome) /\ probes' = probes \ {p}
      /\ Len(results) \in Nat /\ Len(results') = Len(results) + 1
      /\ (\A i \in 1..Len(results) : results'[i] = results[i])
      /\ results'[Len(results) + 1] = [version |-> p.version, cfg |-> p.cfg, healthy |-> healthy, by |-> by]
      /\ UNCHANGED <<pc, config, procs, gens, batch, serial, reused>>
  BY ReportIs DEF RingInv
<1>2. TypeOK' /\ PassInv'
  BY <1>1 DEF RingInv, TypeOK, PassInv
<1>3. \A v \in Versions, c \in Configs : OnItsWay(v, c)' <=> OnItsWay(v, c)
  <2> SUFFICES ASSUME NEW v \in Versions, NEW c \in Configs PROVE OnItsWay(v, c)' <=> OnItsWay(v, c)
    OBVIOUS
  <2>1. (\E i \in 1..Len(results') : results'[i].version = v /\ results'[i].cfg = c)
        <=> \/ \E i \in 1..Len(results) : results[i].version = v /\ results[i].cfg = c
            \/ p.version = v /\ p.cfg = c
    <3>1. Len(results) + 1 \in 1..Len(results') /\ \A i \in 1..Len(results) : i \in 1..Len(results')
      BY <1>1
    <3>2. \A i \in 1..Len(results') : i \in 1..Len(results) \/ i = Len(results) + 1
      BY <1>1
    <3>3. results'[Len(results) + 1].version = p.version /\ results'[Len(results) + 1].cfg = p.cfg
      BY <1>1
    <3> QED BY <1>1, <3>1, <3>2, <3>3
  <2>2. (\E q \in probes : q.version = v /\ q.cfg = c)
        <=> \/ \E q \in probes' : q.version = v /\ q.cfg = c
            \/ p.version = v /\ p.cfg = c
    BY <1>1
  <2>3. batch' = batch
    BY <1>1
  <2> QED BY <2>1, <2>2, <2>3 DEF OnItsWay
<1>4. {} \in SUBSET Versions /\ \A v : v \notin {}
  OBVIOUS
<1> QED BY <1>1, <1>2, <1>3, <1>4, RingFailed

LEMMA StepRing ==
  ASSUME RingInv, SerialInv, [Next]_vars
  PROVE  RingInv' /\ SerialInv'
<1>1. CASE UNCHANGED vars
  <2>1. RingInv'
    BY <1>1 DEF vars, RingInv, TypeOK, VersionsUsed, FailedIsGone, With, RingOrdered, ProbingHasProcess, PassInv
  <2>2. SerialInv'
    BY <1>1 DEF vars, SerialInv, OneProbing, ProbingIsDecided, OthersGone, ProbedIsRun, OnItsWay
  <2> QED BY <2>1, <2>2
<1>2. ASSUME ProbeStep PROVE RingInv' /\ SerialInv'
  <2>1. PICK p \in Probe : ProbeAnswered(p) \/ ProbeExpires(p)
    BY <1>2 DEF ProbeStep
  <2>2. CASE ProbeExpires(p)
    <3>1. p \in probes /\ Report(p, FALSE, 0)
      BY <2>2, Zenon DEF ProbeExpires
    <3>2. 0 \in 0..MaxConfigs
      BY MaxConfigsAssumption
    <3> QED BY <3>1, <3>2, StepReport
  <2>3. CASE ProbeAnswered(p)
    <3>1. PICK d \in Answers(p.cfg) : p \in probes /\ Report(p, TRUE, d)
      BY <2>3 DEF ProbeAnswered
    <3>2. d \in 0..MaxConfigs
      BY ConfigsAssumption, MaxConfigsAssumption DEF Answers, Configs
    <3> QED BY <3>1, <3>2, StepReport
  <2> QED BY <2>1, <2>2, <2>3
<1> QED
  BY <1>1, <1>2, StepLoad, StepDeploy, StepUnload, StepCheck, StepReconcile, StepFail,
     StepPromoteNothing, StepPromoteStop, StepPromoteSwap
  DEF Next, ReconcileStep

LEMMA InitRing == Init => RingInv /\ SerialInv
<1> SUFFICES ASSUME Init PROVE RingInv /\ SerialInv
  OBVIOUS
<1>1. TypeOK
  <2>1. config \in 0..MaxConfigs /\ gens \in [Versions -> Status]
    BY MaxConfigsAssumption DEF Init, NoGens, Status
  <2>2. serial \in BOOLEAN /\ reused \in BOOLEAN /\ pc \in {"idle", "apply", "swap"}
    BY Zenon DEF Init
  <2>3. procs \in [Keys -> Proc \cup {NoProc}] /\ probes \subseteq Probe
    BY DEF Init
  <2>4. results \in Seq(Outcome) /\ batch \in Seq(Outcome)
    BY DEF Init
  <2> QED BY <2>1, <2>2, <2>3, <2>4, Zenon DEF TypeOK
<1>2. PassInv
  BY DEF Init, PassInv
<1>3. \A v \in Versions : gens[v] = "none" /\ procs[v] = NoProc
  BY KeyFacts DEF Init, NoGens
<1>4. VersionsUsed /\ FailedIsGone /\ RingOrdered /\ ProbingHasProcess
  BY <1>3 DEF VersionsUsed, FailedIsGone, RingOrdered, ProbingHasProcess, With
<1>5. SerialInv
  BY <1>3 DEF SerialInv, OneProbing, ProbingIsDecided, OthersGone, ProbedIsRun
<1> QED BY <1>1, <1>2, <1>4, <1>5 DEF RingInv

LEMMA RingHolds == Spec => [](RingInv /\ SerialInv)
<1>1. RingInv /\ SerialInv /\ [Next]_vars => (RingInv /\ SerialInv)'
  BY StepRing
<1> QED BY <1>1, InitRing, PTL DEF Spec

-----------------------------------------------------------------------------
(* A probe asks a port, and cannot tell who answers there.                 *)

LEMMA StepAnswered ==
  ASSUME RingInv, AnsweredInv, [Next]_vars
  PROVE  AnsweredInv'
<1>0. TypeOK /\ results \in Seq(Outcome) /\ batch \in Seq(Outcome)
  BY DEF RingInv, TypeOK
<1>1. ASSUME results' \in {results, <<>>}, batch' \in {batch, results, <<>>} PROVE AnsweredInv'
  BY <1>1 DEF AnsweredInv
<1>2. ASSUME results' = results, batch # <<>>, batch' = Tail(batch) PROVE AnsweredInv'
  <2>1. \A i \in 1..Len(batch') : i + 1 \in 1..Len(batch) /\ batch'[i] = batch[i + 1]
    BY <1>0, <1>2
  <2> QED BY <1>2, <2>1 DEF AnsweredInv
<1>3. ASSUME NEW p \in Probe, NEW healthy \in BOOLEAN, NEW by \in 0..MaxConfigs, p \in probes,
             Report(p, healthy, by), healthy => PortOf[by] = PortOf[p.cfg]
      PROVE  AnsweredInv'
  <2>1. /\ Len(results) \in Nat /\ Len(results') = Len(results) + 1
        /\ \A i \in 1..Len(results) : results'[i] = results[i]
        /\ results'[Len(results) + 1] = [version |-> p.version, cfg |-> p.cfg, healthy |-> healthy, by |-> by]
        /\ batch' = batch
    BY <1>0, <1>3, ReportIs
  <2>2. \A i \in 1..Len(results') : i \in 1..Len(results) \/ i = Len(results) + 1
    BY <2>1
  <2>3. results'[Len(results) + 1].healthy =>
          PortOf[results'[Len(results) + 1].by] = PortOf[results'[Len(results) + 1].cfg]
    BY <1>3, <2>1
  <2> QED BY <2>1, <2>2, <2>3 DEF AnsweredInv
<1>4. CASE UNCHANGED vars
  BY <1>1, <1>4 DEF vars
<1>5. CASE \/ \E ok \in BOOLEAN : Load(ok) \/ Deploy(ok) \/ Replace(ok)
           \/ Remove \/ (\E k \in Keys : UnloadFails(k) \/ GiveUp(k) \/ Crash(k))
           \/ \E k \in Keys, ok \in BOOLEAN : Restart(k, ok)
  BY <1>1, <1>5 DEF Load, Deploy, Replace, Remove, UnloadFails, GiveUp, Crash, Restart
<1>6. CASE Reconcile
  BY <1>1, <1>6 DEF Reconcile, ApplyRest
<1>7. CASE Fail \/ PromoteNothing \/ PromoteSwap
  <2>1. batch # <<>>
    BY <1>7 DEF Fail, PromoteNothing, PromoteSwap, Applying, RingInv, PassInv
  <2> QED BY <1>2, <1>7, <2>1 DEF Fail, PromoteNothing, PromoteSwap, ApplyRest
<1>8. ASSUME NEW ok \in BOOLEAN, PromoteStop(ok) PROVE AnsweredInv'
  BY <1>1, <1>8 DEF PromoteStop, ApplyRest
<1>9. ASSUME NEW p \in Probe, ProbeExpires(p) PROVE AnsweredInv'
  <2>1. p \in probes /\ Report(p, FALSE, 0)
    BY <1>9, Zenon DEF ProbeExpires
  <2>2. 0 \in 0..MaxConfigs
    BY MaxConfigsAssumption
  <2> QED BY <1>3, <2>1, <2>2
<1>10. ASSUME NEW p \in Probe, ProbeAnswered(p) PROVE AnsweredInv'
  <2>1. PICK d \in Answers(p.cfg) : p \in probes /\ Report(p, TRUE, d)
    BY <1>10 DEF ProbeAnswered
  <2>2. d \in Configs /\ PortOf[d] = PortOf[p.cfg] /\ p.cfg \in Configs
    BY ConfigsAssumption DEF Answers, Probe
  <2>3. d \in 0..MaxConfigs
    BY <2>2, MaxConfigsAssumption DEF Configs
  <2> QED BY <1>3, <2>1, <2>2, <2>3
<1> QED
  BY <1>4, <1>5, <1>6, <1>7, <1>8, <1>9, <1>10 DEF Next, ReconcileStep, ProbeStep

-----------------------------------------------------------------------------
(* The theorems. *)

(* What the manager's ring of generations is between any two steps, for    *)
(* any ports and however redeploys overlap: a failed canary is gone,       *)
(* nothing older than the stable generation can take over from it, and     *)
(* what takes over runs the config whose probe got an answer from its      *)
(* port, unless a version was used again before its outcome was applied.   *)
THEOREM RingStaysConsistent == Spec => []RingConsistent
<1>1. Init => AnsweredInv
  BY DEF Init, AnsweredInv
<1>2. RingInv /\ AnsweredInv /\ [Next]_vars => AnsweredInv'
  BY StepAnswered
<1>3. RingInv /\ SerialInv /\ AnsweredInv => RingConsistent
  <2> SUFFICES ASSUME RingInv, SerialInv, AnsweredInv PROVE RingConsistent
    OBVIOUS
  <2>1. ASSUME ~reused, pc = "swap"
        PROVE  /\ procs[Head(batch).version].cfg = Head(batch).cfg
               /\ PortOf[Head(batch).by] = PortOf[Head(batch).cfg]
    <3>1. batch \in Seq(Outcome) /\ batch # <<>> /\ Head(batch).healthy /\ gens[Head(batch).version] = "Probing"
      BY <2>1 DEF RingInv, TypeOK, PassInv
    <3>2. Head(batch) = batch[1] /\ 1 \in 1..Len(batch) /\ Head(batch) \in Outcome
      BY <3>1
    <3>3. PortOf[Head(batch).by] = PortOf[Head(batch).cfg]
      BY <3>1, <3>2 DEF AnsweredInv
    <3>4. Head(batch).version \in Versions /\ Head(batch).cfg \in Configs
      BY <3>2 DEF Outcome
    <3>5. OnItsWay(Head(batch).version, Head(batch).cfg)
      BY <3>2 DEF OnItsWay
    <3>6. procs[Head(batch).version].cfg = Head(batch).cfg
      BY <2>1, <3>1, <3>4, <3>5 DEF SerialInv, ProbedIsRun
    <3> QED BY <3>3, <3>6
  <2>2. PromotedWasProbed
    BY <2>1 DEF PromotedWasProbed
  <2> QED BY <2>2 DEF RingInv, RingConsistent
<1> QED BY <1>1, <1>2, <1>3, RingHolds, PTL DEF Spec

(* "A canary does not outlive the config it came from": unload_config      *)
(* stops every process of the worker, under whichever key, as long as      *)
(* redeploys came one at a time and no stop failed.                        *)
THEOREM RemovalIsComplete == Spec => SerialRemovalStopsAll
<1>1. RingInv /\ SerialInv /\ [Next]_vars => [Remove /\ serial => \A k \in Keys : procs'[k] = NoProc]_vars
  <2> SUFFICES ASSUME RingInv, SerialInv, Remove, serial, NEW k \in Keys PROVE procs'[k] = NoProc
    OBVIOUS
  <2>0. TypeOK /\ Canonical \in Keys
    BY KeyFacts DEF RingInv
  <2>1. /\ procs' = StoppedThrough(Canonical) /\ StoppedThrough(Canonical)[k] \in {procs[k], NoProc}
        /\ StoppedThrough(Canonical)[Canonical] = NoProc
        /\ \A v \in With("Probing") : StoppedThrough(Canonical)[v] = NoProc
    BY <2>0, StoppedIs DEF Remove
  <2>2. CASE k = Canonical
    BY <2>1, <2>2
  <2>3. CASE k \in Versions /\ gens[k] = "Probing"
    BY <2>1, <2>3 DEF With
  <2>4. CASE k \in Versions /\ gens[k] # "Probing"
    BY <2>1, <2>4 DEF SerialInv, OthersGone
  <2> QED BY <2>2, <2>3, <2>4, KeyFacts
<1> QED BY <1>1, RingHolds, PTL DEF Spec, SerialRemovalStopsAll

-----------------------------------------------------------------------------
(* The config watcher.  Synced says nothing while work is on its way, so   *)
(* it is not inductive: its strengthening says what work it is.  A worker  *)
(* that does not run what its file says has a signal, an event of the      *)
(* right kind, a pass or a job to come, because a recorded time that is    *)
(* the file's own is the time of what runs (Recorded), no time is used     *)
(* twice (Times), and a Remove left over in the queue is followed by the   *)
(* Modify of the link that replaced the removed one (Overtaken).           *)

FilesOK ==
  /\ link \in [Workers -> BOOLEAN]
  /\ mtime \in [Workers -> 0 .. MaxClock]
  /\ text \in [Workers -> 0 .. MaxClock]
  /\ \A w \in Workers : text[w] <= mtime[w]
  /\ clock \in 0 .. MaxClock

CmdRecord == [w: Workers, steps: Seq(Steps), keep: 0 .. MaxClock, at: 0 .. MaxClock]

CmdsOK ==
  /\ begun \in 0 .. MaxCommands
  /\ cmd \in [Actors -> CmdRecord]
  /\ \A a \in Actors : cmd[a].keep <= clock

JobRecord == [step: {"stat", "load", "apply", "handle"}, w: Workers, at: 0 .. MaxClock]

WorkOK ==
  /\ mode \in {"down", "loading", "up", "reloading"}
  /\ listing \subseteq Workers /\ todo \subseteq Workers
  /\ job = NoJob \/ job \in JobRecord
  /\ mode = "up" => todo = {}
  /\ mode = "loading" => todo \subseteq listing

EventRecord == [kind: {"Modify", "Remove"}, w: Workers]

QueueOK ==
  /\ events \in Seq(EventRecord)
  /\ ~Watching => events = << >>
  /\ hup \in BOOLEAN

RecordOK ==
  /\ watched \in [Workers -> 0 .. MaxClock]
  /\ runs \in [Workers -> 0 .. MaxClock]
  /\ faults \in 0 .. MaxFaults
  /\ untold \cup missed \cup asked \subseteq Workers

(* What a job in progress says about the pass it is part of. *)
JobOK ==
  job # NoJob =>
    /\ job.step = "handle" => mode = "up"
    /\ job.step = "stat" => mode \in {"loading", "reloading"}
    /\ job.step \in {"load", "apply"} => mode = "reloading"
    /\ job.step # "handle" => job.w \in todo /\ Gone = {}
    /\ job.step \in {"stat", "load"} => watched[job.w] = 0
    /\ job.step = "load" => job.at = 0
    /\ job.step \in {"apply", "handle"} => job.at > 0

AtRest ==
  /\ mode = "down" => job = NoJob /\ todo = {} /\ ~hup
  /\ mode = "down" => watched = None /\ runs = None
  /\ mode = "loading" => \A w \in todo : watched[w] = 0

Times ==
  /\ \A w \in Workers : /\ mtime[w] <= clock /\ watched[w] <= clock
                        /\ mtime[w] > 0 => watched[w] <= mtime[w]
  /\ job # NoJob => job.at <= clock /\ (mtime[job.w] > 0 => job.at <= mtime[job.w])

Holds(w, step) == job # NoJob /\ job.w = w /\ job.step = step

Recorded(w) ==
  /\ w \notin missed /\ mtime[w] > 0 /\ watched[w] = mtime[w] => runs[w] = text[w]
  /\ w \notin missed /\ runs[w] > 0 => watched[w] > 0 \/ Holds(w, "stat")
  /\ Holds(w, "stat") /\ job.at > 0 /\ mtime[w] = job.at => runs[w] = text[w]

Queued(kind, w) == \E i \in 1 .. Len(events) : events[i].kind = kind /\ events[i].w = w

Overtaken(w) ==
  link[w] => \A i \in 1 .. Len(events) : events[i].kind = "Remove" /\ events[i].w = w =>
    \E j \in 1 .. Len(events) : i < j /\ events[j].kind = "Modify" /\ events[j].w = w

Relinked(w) == mode = "reloading" /\ w \in Gone /\ link[w] => Queued("Modify", w)

ToStop(w) ==
  mode # "down" /\ w \notin untold /\ w \notin missed /\ ~link[w] =>
    runs[w] = 0 \/ hup \/ (mode = "reloading" /\ w \in Gone) \/ Queued("Remove", w)

ToStart(w) ==
  mode # "down" /\ w \notin untold /\ w \notin missed /\ Parsable(w) =>
    \/ runs[w] = text[w] \/ hup \/ Queued("Modify", w) \/ (w \in todo /\ w \in listing)
    \/ Holds(w, "handle")

WorkerInv(w) == Recorded(w) /\ Overtaken(w) /\ Relinked(w) /\ ToStop(w) /\ ToStart(w)

WatcherInv ==
  /\ FilesOK /\ CmdsOK /\ WorkOK /\ QueueOK /\ RecordOK /\ JobOK /\ AtRest /\ Times
  /\ \A w \in Workers : WorkerInv(w)

(* The bounds are numbers, and there is a time to write at. *)
LEMMA WatcherBounds == MaxCommands \in Nat /\ MaxClock \in Nat \ {0} /\ MaxFaults \in Nat
  BY WatcherAssumption

(* With nothing on its way, what is left is that the worker is right. *)
LEMMA WatcherInvImplies == WatcherInv => WatcherConsistent
<1> SUFFICES ASSUME WatcherInv PROVE WatcherConsistent
  OBVIOUS
<1>1. job # NoJob /\ job.step # "handle" => mode # "up" /\ job.w \in todo
  <2> SUFFICES ASSUME job # NoJob, job.step # "handle" PROVE mode # "up" /\ job.w \in todo
    OBVIOUS
  <2>1. job.step \in {"stat", "load", "apply"}
    BY DEF WatcherInv, WorkOK, JobRecord
  <2> QED BY <2>1 DEF WatcherInv, JobOK
<1>2. WatcherTypeOK
  BY <1>1 DEF WatcherInv, FilesOK, CmdsOK, WorkOK, QueueOK, RecordOK, EventRecord, WatcherTypeOK, JobRecord, CmdRecord
<1>3. ASSUME Quiet, NEW w \in Workers \ (untold \cup missed)
      PROVE  (Parsable(w) => runs[w] = text[w]) /\ (~link[w] => runs[w] = 0)
  <2>1. \A kind : ~Queued(kind, w)
    BY <1>3 DEF Quiet, Queued
  <2>2. todo = {} /\ ~Holds(w, "handle") /\ ~hup /\ mode = "up"
    BY <1>3 DEF Quiet, WatcherInv, WorkOK, Holds
  <2> QED BY <1>3, <2>1, <2>2 DEF WatcherInv, WorkerInv, ToStop, ToStart
<1>4. Synced
  BY <1>3 DEF Synced
<1> QED BY <1>2, <1>4 DEF WatcherConsistent

(* Nothing runs and nothing is recorded before the first start. *)
LEMMA WatcherInvInit == WatcherInit => WatcherInv
<1> SUFFICES ASSUME WatcherInit PROVE WatcherInv
  OBVIOUS
<1>0. MaxCommands \in Nat /\ MaxClock \in Nat \ {0} /\ MaxFaults \in Nat
  BY WatcherBounds
<1>1. FilesOK
  <2>1. link \in [Workers -> BOOLEAN] /\ mtime = [w \in Workers |-> IF link[w] THEN 1 ELSE 0] /\ text = mtime /\ clock = 1
    BY DEF WatcherInit
  <2>2. \A w \in Workers : mtime[w] \in {0, 1}
    BY <2>1
  <2> QED BY <1>0, <2>1, <2>2 DEF FilesOK
<1>2. CmdsOK
  <2>1. PICK w \in Workers : cmd = [a \in Actors |-> Idle(w)]
    BY DEF WatcherInit
  <2>2. << >> \in Seq(Steps)
    OBVIOUS
  <2>3. Idle(w) \in CmdRecord /\ Idle(w).keep = 0
    BY <1>0, <2>2 DEF Idle, Call, CmdRecord
  <2> QED BY <1>0, <2>1, <2>3 DEF WatcherInit, CmdsOK
<1>3. /\ mode = "down" /\ listing = {} /\ todo = {} /\ job = NoJob /\ events = << >> /\ hup = FALSE
      /\ watched = None /\ runs = None /\ faults = 0 /\ untold = {} /\ missed = {} /\ asked = {} /\ clock = 1
  BY DEF WatcherInit
<1>4. WorkOK /\ QueueOK /\ JobOK
  <2>1. << >> \in Seq(EventRecord)
    OBVIOUS
  <2>2. QueueOK
    BY <1>3, <2>1 DEF QueueOK
  <2> QED BY <1>3, <2>2 DEF WorkOK, JobOK
<1>5. \A w \in Workers : None[w] = 0
  BY DEF None
<1>6. RecordOK
  BY <1>0, <1>3, <1>5 DEF RecordOK, None
<1>7. AtRest
  BY <1>3 DEF AtRest
<1>8. \A w \in Workers : mtime[w] \in {0, 1} /\ runs[w] = 0 /\ watched[w] = 0
  BY <1>3, <1>5 DEF WatcherInit
<1>9. Times
  BY <1>3, <1>8 DEF Times
<1>10. ASSUME NEW w \in Workers PROVE WorkerInv(w)
  <2>1. 1 .. Len(events) = {}
    BY <1>3
  <2> QED BY <1>3, <1>8, <2>1 DEF WorkerInv, Recorded, Overtaken, Relinked, ToStop, ToStart, Holds
<1> QED BY <1>1, <1>2, <1>4, <1>6, <1>7, <1>9, <1>10 DEF WatcherInv

-----------------------------------------------------------------------------
(* The queue: what a change appended to it, and what is left of it when    *)
(* its head is taken.                                                      *)

LEMMA QueueGrows ==
  ASSUME QueueOK, NEW kind \in {"Modify", "Remove"}, NEW w \in Workers,
         events' = Append(events, [kind |-> kind, w |-> w])
  PROVE  /\ events' \in Seq(EventRecord)
         /\ Len(events) \in Nat /\ Len(events') = Len(events) + 1
         /\ \A i \in 1 .. Len(events) : events'[i] = events[i]
         /\ events'[Len(events')].kind = kind /\ events'[Len(events')].w = w
<1>1. events \in Seq(EventRecord)
  BY DEF QueueOK
<1>2. [kind |-> kind, w |-> w] \in EventRecord
  BY DEF EventRecord
<1>3. events'[Len(events')] = [kind |-> kind, w |-> w]
  BY <1>1, <1>2
<1> QED BY <1>1, <1>2, <1>3

LEMMA QueueShrinks ==
  ASSUME QueueOK, events # << >>, events' = Tail(events)
  PROVE  /\ events' \in Seq(EventRecord)
         /\ Head(events) = events[1] /\ Head(events).kind \in {"Modify", "Remove"} /\ Head(events).w \in Workers
         /\ Len(events) \in Nat /\ Len(events') = Len(events) - 1
         /\ \A i \in 1 .. Len(events') : events'[i] = events[i + 1]
<1>1. events \in Seq(EventRecord)
  BY DEF QueueOK
<1>2. Head(events) = events[1] /\ Tail(events) \in Seq(EventRecord)
  BY <1>1
<1>3. Len(events) \in Nat /\ Len(events) > 0 /\ Len(events') = Len(events) - 1
  BY <1>1
<1>4. events[1] \in EventRecord
  BY <1>1, <1>3
<1>5. \A i \in 1 .. Len(events') : events'[i] = events[i + 1]
  BY <1>1, <1>3
<1> QED BY <1>2, <1>3, <1>4, <1>5 DEF EventRecord

-----------------------------------------------------------------------------
(* What a command's step does to the files of one worker and to the queue. *)
(* A link that is there after it, and that was not, is reported if there   *)
(* is a watch; a change of what the worker should run is reported or is    *)
(* among the untold.                                                       *)
FileStep(w) ==
  /\ FilesOK' /\ clock <= clock' /\ untold' \subseteq Workers
  /\ UNCHANGED <<mode, listing, todo, job, hup, watched, runs, faults, missed>>
  /\ \A v \in Workers \ {w} : /\ link'[v] = link[v] /\ mtime'[v] = mtime[v] /\ text'[v] = text[v]
                              /\ v \in untold <=> v \in untold'
  /\ \/ mtime'[w] = mtime[w] /\ text'[w] = text[w]
     \/ mtime'[w] = 0
     \/ mtime'[w] = clock + 1
  /\ mtime'[w] <= clock'
  /\ \/ events' = events /\ (link'[w] => link[w] \/ ~Watching)
     \/ Watching /\ ~link'[w] /\ events' = Append(events, [kind |-> "Remove", w |-> w])
     \/ Watching /\ events' = Append(events, [kind |-> "Modify", w |-> w])
  /\ ~link'[w] => \/ w \in untold' \/ (~link[w] /\ w \notin untold)
                  \/ Watching /\ events' = Append(events, [kind |-> "Remove", w |-> w])
  /\ Parsable(w)' => \/ w \in untold' \/ (Parsable(w) /\ text'[w] = text[w] /\ w \notin untold)
                     \/ Watching /\ events' = Append(events, [kind |-> "Modify", w |-> w])

(* Such a step keeps everything but what is said of the commands. *)
LEMMA FileStepKeeps ==
  ASSUME WatcherInv, NEW w \in Workers, FileStep(w), asked' \subseteq Workers
  PROVE  /\ FilesOK' /\ WorkOK' /\ QueueOK' /\ RecordOK' /\ JobOK' /\ AtRest' /\ Times'
         /\ \A v \in Workers : WorkerInv(v)'
<1>0. /\ mode' = mode /\ listing' = listing /\ todo' = todo /\ job' = job /\ hup' = hup
      /\ watched' = watched /\ runs' = runs /\ faults' = faults /\ missed' = missed
      /\ Gone' = Gone /\ (Watching' <=> Watching)
  BY DEF FileStep, Gone, Watching
<1>t. /\ FilesOK /\ WorkOK /\ QueueOK /\ RecordOK /\ JobOK /\ AtRest /\ Times
      /\ FilesOK' /\ \A v \in Workers : WorkerInv(v)
  BY DEF WatcherInv, FileStep
<1>b. MaxClock \in Nat
  BY WatcherBounds
<1>1. WorkOK'
  BY <1>0, <1>t DEF WorkOK
<1>q. \/ events' = events /\ (link'[w] => link[w] \/ ~Watching)
      \/ /\ Watching
         /\ \/ ~link'[w] /\ events' = Append(events, [kind |-> "Remove", w |-> w])
            \/ events' = Append(events, [kind |-> "Modify", w |-> w])
         /\ Len(events) \in Nat /\ Len(events') = Len(events) + 1
         /\ \A i \in 1 .. Len(events) : events'[i] = events[i]
         /\ events'[Len(events')].w = w
         /\ \/ ~link'[w] /\ events'[Len(events')].kind = "Remove"
            \/ events'[Len(events')].kind = "Modify"
         /\ events' \in Seq(EventRecord)
  BY <1>t, QueueGrows DEF FileStep
<1>l. /\ events' = Append(events, [kind |-> "Remove", w |-> w]) => Queued("Remove", w)'
      /\ events' = Append(events, [kind |-> "Modify", w |-> w]) => Queued("Modify", w)'
  <2>1. ASSUME NEW kind \in {"Modify", "Remove"}, events' = Append(events, [kind |-> kind, w |-> w])
        PROVE  Queued(kind, w)'
    <3>1. Len(events') \in 1 .. Len(events') /\ events'[Len(events')].kind = kind /\ events'[Len(events')].w = w
      BY <1>t, <2>1, QueueGrows
    <3> QED BY <3>1 DEF Queued
  <2> QED BY <2>1
<1>k. ASSUME NEW kind, NEW v, Queued(kind, v) PROVE Queued(kind, v)'
  BY <1>q, <1>k DEF Queued
<1>2. QueueOK'
  BY <1>0, <1>q, <1>t DEF QueueOK
<1>3. RecordOK'
  BY <1>0, <1>t DEF RecordOK, FileStep
<1>4. JobOK' /\ AtRest'
  BY <1>0, <1>t DEF JobOK, AtRest
<1>5. Times'
  <2>n. clock \in Nat /\ clock' \in Nat /\ clock <= clock'
    BY <1>t, <1>b DEF FilesOK, FileStep
  <2>1. ASSUME NEW v \in Workers
        PROVE  mtime'[v] <= clock' /\ watched[v] <= clock' /\ (mtime'[v] > 0 => watched[v] <= mtime'[v])
    <3>1. mtime[v] \in Nat /\ mtime'[v] \in Nat /\ watched[v] \in Nat
      BY <1>t, <1>b DEF FilesOK, RecordOK
    <3>2. mtime[v] <= clock /\ watched[v] <= clock /\ (mtime[v] > 0 => watched[v] <= mtime[v])
      BY <1>t DEF Times
    <3>3. mtime'[v] = mtime[v] \/ (v = w /\ (mtime'[w] = 0 \/ mtime'[w] = clock + 1) /\ mtime'[w] <= clock')
      BY DEF FileStep
    <3> QED BY <2>n, <3>1, <3>2, <3>3
  <2>2. ASSUME job # NoJob PROVE job.at <= clock' /\ (mtime'[job.w] > 0 => job.at <= mtime'[job.w])
    <3>1. job.w \in Workers /\ job.at \in Nat
      BY <1>t, <1>b, <2>2 DEF WorkOK, JobRecord
    <3>2. job.at <= clock /\ (mtime[job.w] > 0 => job.at <= mtime[job.w])
      BY <1>t, <2>2 DEF Times
    <3>3. mtime[job.w] \in Nat /\ mtime'[job.w] \in Nat
      BY <1>t, <1>b, <3>1 DEF FilesOK
    <3>4. mtime'[job.w] = mtime[job.w] \/ (job.w = w /\ (mtime'[w] = 0 \/ mtime'[w] = clock + 1) /\ mtime'[w] <= clock')
      BY <3>1 DEF FileStep
    <3> QED BY <2>n, <3>1, <3>2, <3>3, <3>4
  <2> QED BY <1>0, <2>1, <2>2 DEF Times
<1>6. ASSUME NEW v \in Workers PROVE WorkerInv(v)'
  <2>0. Recorded(v) /\ Overtaken(v) /\ Relinked(v) /\ ToStop(v) /\ ToStart(v)
    BY <1>t DEF WorkerInv
  <2>h. \A step : Holds(v, step)' <=> Holds(v, step)
    BY <1>0 DEF Holds
  <2>o. v # w => link'[v] = link[v] /\ mtime'[v] = mtime[v] /\ text'[v] = text[v] /\ (v \in untold <=> v \in untold')
    BY DEF FileStep
  <2>1. Recorded(v)'
    <3>1. mtime[v] \in Nat /\ mtime'[v] \in Nat /\ watched[v] \in Nat /\ clock \in Nat /\ watched[v] <= clock
      BY <1>t, <1>b DEF FilesOK, RecordOK, Times
    <3>2. (mtime'[v] = mtime[v] /\ text'[v] = text[v]) \/ mtime'[v] = 0 \/ mtime'[v] = clock + 1
      BY DEF FileStep
    <3>3. job # NoJob => job.at \in Nat /\ job.at <= clock
      BY <1>t, <1>b DEF WorkOK, JobRecord, Times
    <3>4. CASE mtime'[v] = mtime[v] /\ text'[v] = text[v]
      BY <1>0, <2>0, <2>h, <3>4 DEF Recorded
    <3>5. CASE mtime'[v] = 0
      BY <1>0, <2>0, <2>h, <3>1, <3>3, <3>5 DEF Recorded, Holds
    <3>6. CASE mtime'[v] = clock + 1
      BY <1>0, <2>0, <2>h, <3>1, <3>3, <3>6 DEF Recorded, Holds
    <3> QED BY <3>2, <3>4, <3>5, <3>6
  <2>2. Overtaken(v)'
    <3> SUFFICES ASSUME link'[v] PROVE Overtaken(v)'
      BY DEF Overtaken
    <3>1. CASE events' = events /\ (link'[w] => link[w] \/ ~Watching)
      <4>1. CASE link[v]
        BY <2>0, <3>1, <4>1 DEF Overtaken
      <4>2. CASE ~link[v]
        <5>1. v = w /\ ~Watching
          BY <2>o, <3>1, <4>2
        <5>2. 1 .. Len(events) = {}
          BY <1>t, <5>1 DEF QueueOK
        <5> QED BY <3>1, <5>2 DEF Overtaken
      <4> QED BY <4>1, <4>2
    <3>2. CASE events' # events
      <4>0. /\ Len(events) \in Nat /\ Len(events') = Len(events) + 1 /\ events'[Len(events')].w = w
            /\ \A i \in 1 .. Len(events) : events'[i] = events[i]
            /\ \/ ~link'[w] /\ events'[Len(events')].kind = "Remove"
               \/ events'[Len(events')].kind = "Modify"
        BY <1>q, <3>2
      <4> SUFFICES ASSUME NEW i \in 1 .. Len(events'), events'[i].kind = "Remove", events'[i].w = v
                   PROVE  \E j \in 1 .. Len(events') : i < j /\ events'[j].kind = "Modify" /\ events'[j].w = v
        BY DEF Overtaken
      <4>1. i # Len(events')
        BY <4>0
      <4>2. i \in 1 .. Len(events) /\ events[i].kind = "Remove" /\ events[i].w = v
        BY <4>0, <4>1
      <4>3. CASE link[v]
        <5>1. PICK j \in 1 .. Len(events) : i < j /\ events[j].kind = "Modify" /\ events[j].w = v
          BY <2>0, <4>2, <4>3 DEF Overtaken
        <5>2. j \in 1 .. Len(events') /\ events'[j] = events[j]
          BY <4>0
        <5> QED BY <5>1, <5>2
      <4>4. CASE ~link[v]
        <5>1. v = w /\ events'[Len(events')].kind = "Modify"
          BY <2>o, <4>0, <4>4
        <5>2. Len(events') \in 1 .. Len(events') /\ i < Len(events')
          BY <4>0, <4>1
        <5> QED BY <4>0, <5>1, <5>2
      <4> QED BY <4>3, <4>4
    <3> QED BY <1>q, <3>1, <3>2
  <2>3. Relinked(v)'
    <3> SUFFICES ASSUME mode = "reloading", v \in Gone, link'[v] PROVE Queued("Modify", v)'
      BY <1>0 DEF Relinked
    <3>1. CASE link[v]
      BY <1>k, <2>0, <3>1 DEF Relinked
    <3>2. CASE ~link[v]
      <4>1. v = w /\ Watching
        BY <2>o, <3>2 DEF Watching
      <4>2. events' = Append(events, [kind |-> "Modify", w |-> w])
        BY <3>2, <4>1 DEF FileStep
      <4> QED BY <1>l, <4>1, <4>2
    <3> QED BY <3>1, <3>2
  <2>4. ToStop(v)'
    <3> SUFFICES ASSUME mode # "down", v \notin untold', v \notin missed, ~link'[v]
                 PROVE  runs[v] = 0 \/ hup \/ (mode = "reloading" /\ v \in Gone) \/ Queued("Remove", v)'
      BY <1>0 DEF ToStop
    <3>1. CASE ~link[v] /\ v \notin untold
      BY <1>k, <2>0, <3>1 DEF ToStop
    <3>2. CASE v = w /\ Watching /\ events' = Append(events, [kind |-> "Remove", w |-> w])
      BY <1>l, <3>2
    <3> QED BY <2>o, <3>1, <3>2 DEF FileStep
  <2>5. ToStart(v)'
    <3> SUFFICES ASSUME mode # "down", v \notin untold', v \notin missed, Parsable(v)'
                 PROVE  \/ runs[v] = text'[v] \/ hup \/ Queued("Modify", v)' \/ (v \in todo /\ v \in listing)
                        \/ Holds(v, "handle")
      BY <1>0, <2>h DEF ToStart
    <3>1. CASE Parsable(v) /\ text'[v] = text[v] /\ v \notin untold
      BY <1>k, <2>0, <3>1 DEF ToStart
    <3>2. CASE v = w /\ Watching /\ events' = Append(events, [kind |-> "Modify", w |-> w])
      BY <1>l, <3>2
    <3>3. v # w => Parsable(v)
      BY <2>o DEF Parsable, Readable
    <3> QED BY <2>o, <3>1, <3>2, <3>3 DEF FileStep
  <2> QED BY <2>1, <2>2, <2>3, <2>4, <2>5 DEF WorkerInv
<1> QED BY <1>1, <1>2, <1>3, <1>4, <1>5, <1>6, <1>t

(* The next step of a command, and the commands as they are. *)
LEMMA PastIsCommand ==
  ASSUME CmdsOK, NEW a \in Actors, cmd[a].steps # << >>
  PROVE  Past(a) \in CmdRecord /\ Past(a).keep \in {0, cmd[a].keep} /\ Idle(cmd[a].w) \in CmdRecord
         /\ Idle(cmd[a].w).keep = 0 /\ cmd[a].w \in Workers /\ cmd[a].keep \in Nat
<1>1. cmd[a] \in CmdRecord /\ MaxClock \in Nat
  BY WatcherBounds DEF CmdsOK
<1>2. /\ cmd[a].steps \in Seq(Steps) /\ cmd[a].w \in Workers /\ cmd[a].keep \in 0 .. MaxClock /\ cmd[a].at \in 0 .. MaxClock
      /\ cmd[a] = [w |-> cmd[a].w, steps |-> cmd[a].steps, keep |-> cmd[a].keep, at |-> cmd[a].at]
  BY <1>1 DEF CmdRecord
<1>3. Tail(cmd[a].steps) \in Seq(Steps) /\ << >> \in Seq(Steps)
  BY <1>2
<1>4. Idle(cmd[a].w) \in CmdRecord /\ Idle(cmd[a].w).keep = 0
  BY <1>1, <1>2, <1>3 DEF Idle, Call, CmdRecord
<1>5. [cmd[a] EXCEPT !.steps = Tail(@)] \in CmdRecord /\ [cmd[a] EXCEPT !.steps = Tail(@)].keep = cmd[a].keep
  <2>1. \A r \in CmdRecord, t \in Seq(Steps) : [r EXCEPT !.steps = t] \in CmdRecord /\ [r EXCEPT !.steps = t].keep = r.keep
    BY DEF CmdRecord
  <2> QED BY <1>1, <1>3, <2>1
<1> QED BY <1>1, <1>2, <1>4, <1>5 DEF Past

(* A command is replaced by one that holds no later text. *)
LEMMA NextCommand ==
  ASSUME FilesOK, FilesOK', CmdsOK, clock <= clock', NEW a \in Actors, NEW c \in CmdRecord, c.keep <= clock,
         cmd' = [cmd EXCEPT ![a] = c], begun' = begun
  PROVE  CmdsOK'
<1>1. clock \in Nat /\ clock' \in Nat
  BY WatcherBounds DEF FilesOK
<1>2. \A b \in Actors : cmd[b] \in CmdRecord /\ cmd[b].keep \in Nat /\ cmd[b].keep <= clock
  BY WatcherBounds DEF CmdsOK, CmdRecord
<1>3. c.keep \in Nat
  BY WatcherBounds DEF CmdRecord
<1>4. ASSUME NEW b \in Actors PROVE cmd'[b] \in CmdRecord /\ cmd'[b].keep <= clock'
  <2>1. cmd \in [Actors -> CmdRecord]
    BY DEF CmdsOK
  <2>2. CASE b = a
    <3>1. cmd'[b] = c
      BY <2>1, <2>2
    <3> QED BY <1>1, <1>3, <3>1
  <2>3. CASE b # a
    <3>1. cmd'[b] = cmd[b]
      BY <2>1, <2>3
    <3> QED BY <1>1, <1>2, <3>1
  <2> QED BY <2>2, <2>3
<1>5. cmd' \in [Actors -> CmdRecord]
  BY <1>4 DEF CmdsOK
<1> QED BY <1>4, <1>5 DEF CmdsOK

(* So a command that takes its step stays one. *)
LEMMA DoesKeepsCommands ==
  ASSUME FilesOK, FilesOK', CmdsOK, clock <= clock', NEW a \in Actors, NEW step, Does(a, step)
  PROVE  CmdsOK'
<1>1. cmd[a].steps # << >> /\ cmd' = [cmd EXCEPT ![a] = Past(a)] /\ begun' = begun
  BY DEF Does, At
<1>2. Past(a) \in CmdRecord /\ Past(a).keep \in {0, cmd[a].keep}
  BY <1>1, PastIsCommand
<1>3. cmd[a].keep <= clock /\ clock \in Nat /\ cmd[a].keep \in Nat
  BY WatcherBounds, <1>1, PastIsCommand DEF CmdsOK, FilesOK
<1>4. Past(a).keep <= clock
  BY <1>2, <1>3
<1> QED BY <1>1, <1>2, <1>4, NextCommand

(* Every command is a sequence of steps. *)
LEMMA CommandsAreSteps == Commands \subseteq Seq(Steps)
<1>1. Redeploy \in Seq(Steps)
  BY DEF Redeploy, Steps
<1>2. Rewrite \in Seq(Steps)
  BY DEF Rewrite, Steps
<1>3. Retire \in Seq(Steps)
  BY DEF Retire, Steps
<1>4. StopApp \in Seq(Steps)
  BY DEF StopApp, Steps
<1>5. Migrate \in Seq(Steps)
  BY DEF Migrate, Steps
<1>6. RestartApp \in Seq(Steps)
  BY DEF RestartApp, Steps
<1>7. HotReload \in Seq(Steps)
  BY DEF HotReload, Steps
<1> QED BY <1>1, <1>2, <1>3, <1>4, <1>5, <1>6, <1>7 DEF Commands

(* A step that leaves everything but the commands alone. *)
LEMMA OnlyCommands ==
  ASSUME WatcherInv, CmdsOK', UNCHANGED <<files, daemon, faults, untold, missed, asked>>
  PROVE  WatcherInv'
<1>1. /\ link' = link /\ mtime' = mtime /\ text' = text /\ clock' = clock /\ mode' = mode /\ listing' = listing
      /\ todo' = todo /\ job' = job /\ events' = events /\ hup' = hup /\ watched' = watched /\ runs' = runs
      /\ faults' = faults /\ untold' = untold /\ missed' = missed /\ asked' = asked
  BY DEF files, daemon
<1>2. (FilesOK /\ WorkOK /\ QueueOK /\ RecordOK)'
  BY <1>1 DEF WatcherInv, FilesOK, WorkOK, QueueOK, RecordOK, Watching
<1>3. (JobOK /\ AtRest /\ Times)'
  BY <1>1 DEF WatcherInv, JobOK, AtRest, Times, Gone
<1>4. ASSUME NEW w \in Workers PROVE WorkerInv(w)'
  BY <1>1 DEF WatcherInv, WorkerInv, Recorded, Overtaken, Relinked, ToStop, ToStart, Holds, Queued, Gone, Parsable, Readable
<1> QED BY <1>2, <1>3, <1>4 DEF WatcherInv

(* A write at a new time. *)
LEMMA WriteFiles ==
  ASSUME FilesOK, NEW w \in Workers, NEW x \in 0 .. MaxClock, x <= clock + 1, clock < MaxClock, clock' = clock + 1,
         mtime' = [mtime EXCEPT ![w] = clock'], text' = [text EXCEPT ![w] = x], link' = link
  PROVE  /\ FilesOK' /\ clock <= clock' /\ mtime'[w] = clock + 1 /\ mtime'[w] <= clock' /\ text'[w] = x
         /\ \A v \in Workers \ {w} : mtime'[v] = mtime[v] /\ text'[v] = text[v]
<1>1. /\ clock \in Nat /\ MaxClock \in Nat /\ mtime \in [Workers -> 0 .. MaxClock]
      /\ text \in [Workers -> 0 .. MaxClock] /\ \A v \in Workers : text[v] <= mtime[v]
  BY WatcherBounds DEF FilesOK
<1>2. mtime'[w] = clock + 1 /\ text'[w] = x /\ \A v \in Workers \ {w} : mtime'[v] = mtime[v] /\ text'[v] = text[v]
  BY <1>1
<1>3. clock' \in 0 .. MaxClock /\ mtime' \in [Workers -> 0 .. MaxClock] /\ text' \in [Workers -> 0 .. MaxClock]
  BY <1>1
<1>4. \A v \in Workers : text'[v] <= mtime'[v]
  BY <1>1, <1>2
<1> QED BY <1>1, <1>2, <1>3, <1>4 DEF FilesOK

(* Every step of a command keeps the invariant. *)
LEMMA CommandKeeps == WatcherInv /\ Command => WatcherInv'
<1> SUFFICES ASSUME WatcherInv, Command PROVE WatcherInv'
  OBVIOUS
<1>0. PICK a \in Actors : \/ Begin(a) \/ Unlink(a) \/ Write(a) \/ Link(a) \/ Relink(a) \/ Hup(a) \/ Park(a)
                          \/ Wait(a) \/ Drop(a) \/ Truncate(a) \/ Fill(a) \/ Kill(a)
  BY DEF Command
<1>t. FilesOK /\ CmdsOK /\ WorkOK /\ QueueOK /\ RecordOK /\ Times
  BY DEF WatcherInv
<1>b. MaxClock \in Nat /\ MaxCommands \in Nat /\ clock \in Nat
  BY WatcherBounds, <1>t DEF FilesOK
<1>r. untold \subseteq Workers /\ missed \subseteq Workers /\ asked \subseteq Workers
  BY <1>t DEF RecordOK
<1>w. PICK w \in Workers : w = cmd[a].w
  BY <1>t DEF CmdsOK, CmdRecord
<1>k. FileStep(w) /\ CmdsOK' /\ asked' \subseteq Workers => WatcherInv'
  BY FileStepKeeps DEF WatcherInv
<1>1. CASE Begin(a)
  <2>1. PICK v \in Workers, c \in Commands : cmd' = [cmd EXCEPT ![a] = Call(v, c)]
    BY <1>1 DEF Begin
  <2>2. Call(v, c) \in CmdRecord /\ Call(v, c).keep = 0
    BY <1>b, CommandsAreSteps DEF Call, CmdRecord
  <2>3. cmd' \in [Actors -> CmdRecord] /\ begun' \in 0 .. MaxCommands /\ clock' = clock
    BY <1>1, <1>t, <1>b, <2>1, <2>2 DEF Begin, CmdsOK, files
  <2>4. \A b \in Actors : cmd'[b] = cmd[b] \/ cmd'[b] = Call(v, c)
    BY <1>t, <2>1 DEF CmdsOK
  <2>5. CmdsOK'
    BY <1>t, <1>b, <2>2, <2>3, <2>4 DEF CmdsOK
  <2> QED BY <1>1, <2>5, OnlyCommands DEF Begin
<1>2. CASE Unlink(a)
  <2>1. /\ Does(a, "unlink") /\ link' = [link EXCEPT ![w] = FALSE]
        /\ IF link[w] THEN Reported("Remove", w) ELSE UNCHANGED <<daemon, untold>>
        /\ asked' = asked \ {w} /\ UNCHANGED <<mtime, text, clock, faults, missed>>
    BY <1>2, <1>w DEF Unlink
  <2>2. FilesOK' /\ ~link'[w] /\ \A v \in Workers \ {w} : link'[v] = link[v]
    BY <1>t, <2>1 DEF FilesOK
  <2>3. /\ UNCHANGED <<mode, listing, todo, job, hup, watched, runs>>
        /\ untold' \in {untold, untold \ {w}, untold \cup {w}}
    BY <2>1 DEF Reported, daemon
  <2>4. FileStep(w)
    <3>1. mtime[w] <= clock /\ ~Parsable(w)'
      BY <1>t, <2>2 DEF Times, Parsable, Readable
    <3>2. CASE link[w]
      BY <1>b, <1>r, <2>1, <2>2, <2>3, <3>1, <3>2 DEF FileStep, Reported
    <3>3. CASE ~link[w]
      BY <1>b, <1>r, <2>1, <2>2, <2>3, <3>1, <3>3 DEF FileStep, daemon
    <3> QED BY <3>2, <3>3
  <2>5. CmdsOK'
    BY <1>t, <1>b, <2>1, <2>2, DoesKeepsCommands
  <2> QED BY <1>k, <1>r, <2>1, <2>4, <2>5
<1>3. CASE Write(a)
  <2>1. /\ Does(a, "write") /\ clock < MaxClock /\ clock' = clock + 1 /\ mtime' = [mtime EXCEPT ![w] = clock']
        /\ text' = [text EXCEPT ![w] = clock'] /\ untold' = (IF link[w] THEN untold \cup {w} ELSE untold)
        /\ UNCHANGED <<link, daemon, faults, missed, asked>>
    BY <1>3, <1>w DEF Write
  <2>2. /\ FilesOK' /\ clock <= clock' /\ mtime'[w] = clock + 1 /\ mtime'[w] <= clock'
        /\ \A v \in Workers \ {w} : mtime'[v] = mtime[v] /\ text'[v] = text[v]
    <3>1. clock + 1 \in 0 .. MaxClock /\ clock + 1 <= clock + 1 /\ text' = [text EXCEPT ![w] = clock + 1] /\ link' = link
      BY <1>b, <2>1
    <3> QED BY <1>t, <2>1, <3>1, WriteFiles
  <2>3. FileStep(w)
    <3>1. Parsable(w)' => link[w]
      BY <2>1 DEF Parsable, Readable
    <3> QED BY <1>b, <1>r, <2>1, <2>2, <3>1 DEF FileStep, daemon
  <2>4. CmdsOK'
    BY <1>t, <2>1, <2>2, DoesKeepsCommands
  <2> QED BY <1>k, <1>r, <2>1, <2>3, <2>4
<1>4. CASE Link(a) \/ Relink(a)
  <2>1. /\ Does(a, "link") \/ Does(a, "relink")
        /\ link' = [link EXCEPT ![w] = TRUE] /\ Reported("Modify", w)
        /\ asked' \subseteq Workers /\ UNCHANGED <<mtime, text, clock, faults, missed>>
    BY <1>4, <1>w, <1>r DEF Link, Relink
  <2>2. FilesOK' /\ link'[w] /\ \A v \in Workers \ {w} : link'[v] = link[v]
    BY <1>t, <2>1 DEF FilesOK
  <2>3. mtime[w] <= clock
    BY <1>t DEF Times
  <2>4. FileStep(w)
    BY <1>b, <1>r, <2>1, <2>2, <2>3 DEF FileStep, Reported
  <2>5. CmdsOK'
    BY <1>t, <1>b, <2>1, <2>2, DoesKeepsCommands
  <2> QED BY <1>k, <2>1, <2>4, <2>5
<1>6. CASE Park(a)
  <2>1. /\ Does(a, "park") /\ link' = [link EXCEPT ![w] = FALSE]
        /\ IF link[w] THEN /\ events' = IF Watching THEN Append(events, [kind |-> "Modify", w |-> w]) ELSE events
                           /\ untold' = untold \cup {w}
                      ELSE UNCHANGED <<events, untold>>
        /\ asked' = asked \ {w}
        /\ UNCHANGED <<mtime, text, clock, mode, listing, todo, job, hup, watched, runs, faults, missed>>
    BY <1>6, <1>w DEF Park
  <2>2. FilesOK' /\ ~link'[w] /\ \A v \in Workers \ {w} : link'[v] = link[v]
    BY <1>t, <2>1 DEF FilesOK
  <2>3. mtime[w] <= clock /\ ~Parsable(w)'
    BY <1>t, <2>2 DEF Times, Parsable, Readable
  <2>4. FileStep(w)
    BY <1>b, <1>r, <2>1, <2>2, <2>3 DEF FileStep
  <2>5. CmdsOK'
    BY <1>t, <1>b, <2>1, <2>2, DoesKeepsCommands
  <2> QED BY <1>k, <1>r, <2>1, <2>4, <2>5
<1>7. CASE Wait(a)
  <2>1. Does(a, "wait") /\ UNCHANGED <<files, daemon, faults, untold, missed, asked>>
    BY <1>7 DEF Wait
  <2>2. FilesOK' /\ clock' = clock
    BY <1>t, <2>1 DEF FilesOK, files
  <2>3. CmdsOK'
    BY <1>t, <1>b, <2>1, <2>2, DoesKeepsCommands
  <2> QED BY <2>1, <2>3, OnlyCommands
<1>8. CASE Drop(a)
  <2>1. /\ Does(a, "drop") /\ mtime' = [mtime EXCEPT ![w] = 0] /\ text' = [text EXCEPT ![w] = 0]
        /\ UNCHANGED <<link, clock, daemon, faults, untold, missed, asked>>
    BY <1>8, <1>w DEF Drop
  <2>2. /\ mtime \in [Workers -> 0 .. MaxClock] /\ text \in [Workers -> 0 .. MaxClock]
        /\ \A v \in Workers : text[v] <= mtime[v]
    BY <1>t DEF FilesOK
  <2>3. mtime'[w] = 0 /\ text'[w] = 0 /\ \A v \in Workers \ {w} : mtime'[v] = mtime[v] /\ text'[v] = text[v]
    BY <2>1, <2>2
  <2>4. FilesOK'
    <3>1. mtime' \in [Workers -> 0 .. MaxClock] /\ text' \in [Workers -> 0 .. MaxClock]
      BY <1>b, <2>1, <2>2
    <3>2. \A v \in Workers : text'[v] <= mtime'[v]
      BY <2>2, <2>3
    <3> QED BY <1>t, <2>1, <3>1, <3>2 DEF FilesOK
  <2>5. FileStep(w)
    <3>1. ~Parsable(w)'
      BY <2>3 DEF Parsable, Readable
    <3> QED BY <1>b, <1>r, <2>1, <2>3, <2>4, <3>1 DEF FileStep, daemon
  <2>6. CmdsOK'
    BY <1>t, <1>b, <2>1, <2>4, DoesKeepsCommands
  <2> QED BY <1>k, <1>r, <2>1, <2>5, <2>6
<1>c. ASSUME Changed(w), NEW x \in 0 .. MaxClock, x <= clock + 1, text' = [text EXCEPT ![w] = x],
             UNCHANGED <<link, faults, missed>>
      PROVE  FileStep(w)
  <2>1. /\ clock < MaxClock /\ clock' = clock + 1 /\ mtime' = [mtime EXCEPT ![w] = clock']
        /\ \/ link[w] /\ Reported("Modify", w)
           \/ untold' = untold \cup {w} /\ UNCHANGED daemon
    BY <1>c DEF Changed
  <2>2. /\ FilesOK' /\ clock <= clock' /\ mtime'[w] = clock + 1 /\ mtime'[w] <= clock'
        /\ \A v \in Workers \ {w} : mtime'[v] = mtime[v] /\ text'[v] = text[v]
    BY <1>c, <1>t, <2>1, WriteFiles
  <2>3. CASE link[w] /\ Reported("Modify", w)
    BY <1>b, <1>c, <1>r, <2>2, <2>3 DEF FileStep, Reported
  <2>4. CASE untold' = untold \cup {w} /\ UNCHANGED daemon
    BY <1>b, <1>c, <1>r, <2>2, <2>4 DEF FileStep, daemon
  <2> QED BY <2>1, <2>3, <2>4
<1>9. CASE Truncate(a)
  <2>1. /\ cmd[a].steps # << >> /\ Changed(w) /\ text' = [text EXCEPT ![w] = 0]
        /\ cmd' = [cmd EXCEPT ![a] = [Past(a) EXCEPT !.keep = text[w], !.at = clock']]
        /\ UNCHANGED <<link, begun, faults, missed, asked>>
    BY <1>9, <1>w DEF Truncate, At
  <2>2. FileStep(w)
    <3>1. 0 \in 0 .. MaxClock /\ 0 <= clock + 1
      BY <1>b
    <3> QED BY <1>c, <2>1, <3>1
  <2>3. FilesOK' /\ clock <= clock' /\ clock' \in 0 .. MaxClock
    BY <2>2 DEF FileStep, FilesOK
  <2>4. text[w] \in 0 .. MaxClock /\ text[w] <= clock
    <3>1. text[w] \in 0 .. MaxClock /\ mtime[w] \in Nat /\ text[w] <= mtime[w] /\ mtime[w] <= clock
      BY <1>t, <1>b DEF FilesOK, Times
    <3> QED BY <1>b, <3>1
  <2>5. PICK c : c = [Past(a) EXCEPT !.keep = text[w], !.at = clock']
    OBVIOUS
  <2>6. c \in CmdRecord /\ c.keep = text[w]
    <3>1. Past(a) \in CmdRecord
      BY <1>t, <2>1, PastIsCommand
    <3>2. \A r \in CmdRecord, k \in 0 .. MaxClock, t \in 0 .. MaxClock :
            [r EXCEPT !.keep = k, !.at = t] \in CmdRecord /\ [r EXCEPT !.keep = k, !.at = t].keep = k
      BY DEF CmdRecord
    <3> QED BY <2>3, <2>4, <2>5, <3>1, <3>2
  <2>7. cmd' = [cmd EXCEPT ![a] = c] /\ begun' = begun
    BY <2>1, <2>5
  <2>8. CmdsOK'
    BY <1>t, <2>3, <2>4, <2>6, <2>7, NextCommand
  <2> QED BY <1>k, <1>r, <2>1, <2>2, <2>8
<1>10. CASE Fill(a)
  <2>1. /\ Does(a, "fill") /\ UNCHANGED <<link, faults, missed, asked>>
        /\ IF mtime[w] = cmd[a].at THEN Changed(w) /\ text' = [text EXCEPT ![w] = cmd[a].keep]
                                   ELSE UNCHANGED <<clock, mtime, text, daemon, untold>>
    BY <1>10, <1>w DEF Fill
  <2>2. FileStep(w)
    <3>1. CASE mtime[w] = cmd[a].at
      <4>1. PICK x : x = cmd[a].keep
        OBVIOUS
      <4>2. x \in 0 .. MaxClock /\ x <= clock + 1
        <5>1. x \in 0 .. MaxClock /\ x <= clock
          BY <1>t, <4>1 DEF CmdsOK, CmdRecord
        <5> QED BY <1>b, <5>1
      <4> QED BY <1>c, <2>1, <3>1, <4>1, <4>2
    <3>2. CASE mtime[w] # cmd[a].at
      <4>1. /\ link' = link /\ mtime' = mtime /\ text' = text /\ clock' = clock /\ untold' = untold /\ events' = events
            /\ UNCHANGED <<mode, listing, todo, job, hup, watched, runs, faults, missed>>
        BY <2>1, <3>2 DEF daemon
      <4>2. FilesOK' /\ mtime[w] <= clock
        BY <1>t, <4>1 DEF FilesOK, Times
      <4>3. Parsable(w)' <=> Parsable(w)
        BY <4>1 DEF Parsable, Readable
      <4> QED BY <1>b, <1>r, <4>1, <4>2, <4>3 DEF FileStep
    <3> QED BY <3>1, <3>2
  <2>3. FilesOK' /\ clock <= clock'
    BY <2>2 DEF FileStep
  <2>4. CmdsOK'
    BY <1>t, <2>1, <2>3, DoesKeepsCommands
  <2> QED BY <1>k, <1>r, <2>1, <2>2, <2>4
<1>11. CASE Kill(a)
  <2>1. /\ cmd[a].steps # << >> /\ cmd' = [cmd EXCEPT ![a] = Idle(cmd[a].w)] /\ begun' = begun
        /\ UNCHANGED <<files, daemon, faults, untold, missed, asked>>
    BY <1>11 DEF Kill
  <2>2. Idle(cmd[a].w) \in CmdRecord /\ Idle(cmd[a].w).keep = 0
    BY <1>t, <2>1, PastIsCommand
  <2>3. FilesOK' /\ clock <= clock' /\ Idle(cmd[a].w).keep <= clock
    BY <1>t, <1>b, <2>1, <2>2 DEF FilesOK, files
  <2>4. CmdsOK'
    BY <1>t, <2>1, <2>2, <2>3, NextCommand
  <2> QED BY <2>1, <2>4, OnlyCommands
<1>12. CASE Hup(a)
  <2>1. /\ Does(a, "hup") /\ hup' = (mode # "down") /\ untold' = (IF mode # "down" THEN {} ELSE untold)
        /\ UNCHANGED <<files, mode, listing, todo, job, events, watched, runs, faults, missed, asked>>
    BY <1>12 DEF Hup
  <2>2. /\ link' = link /\ mtime' = mtime /\ text' = text /\ clock' = clock /\ mode' = mode /\ listing' = listing
        /\ todo' = todo /\ job' = job /\ events' = events /\ watched' = watched /\ runs' = runs /\ faults' = faults
        /\ missed' = missed /\ asked' = asked /\ (mode # "down" => hup') /\ (mode = "down" => ~hup') /\ hup' \in BOOLEAN
    BY <2>1 DEF files
  <2>3. (FilesOK /\ WorkOK)'
    BY <1>t, <2>2 DEF FilesOK, WorkOK
  <2>4. (QueueOK /\ RecordOK)'
    BY <1>t, <2>1, <2>2 DEF QueueOK, RecordOK, Watching
  <2>5. (JobOK /\ AtRest /\ Times)'
    BY <2>2 DEF WatcherInv, JobOK, AtRest, Times, Gone
  <2>6. ASSUME NEW v \in Workers PROVE WorkerInv(v)'
    <3>1. (Recorded(v) /\ Overtaken(v) /\ Relinked(v))'
      BY <2>2 DEF WatcherInv, WorkerInv, Recorded, Overtaken, Relinked, Holds, Queued, Gone
    <3>2. (ToStop(v) /\ ToStart(v))'
      BY <2>2 DEF ToStop, ToStart
    <3> QED BY <3>1, <3>2 DEF WorkerInv
  <2>7. CmdsOK'
    BY <1>t, <1>b, <2>1, <2>2, <2>3, DoesKeepsCommands
  <2> QED BY <2>3, <2>4, <2>5, <2>6, <2>7 DEF WatcherInv
<1> QED BY <1>0, <1>1, <1>2, <1>3, <1>4, <1>6, <1>7, <1>8, <1>9, <1>10, <1>11, <1>12

-----------------------------------------------------------------------------
(* The daemon's steps leave the files and the commands alone. *)

LEMMA DaemonKeepsFiles ==
  ASSUME WatcherInv, UNCHANGED Commandless
  PROVE  /\ link' = link /\ mtime' = mtime /\ text' = text /\ clock' = clock
         /\ FilesOK' /\ CmdsOK' /\ clock \in Nat /\ MaxClock \in Nat
         /\ \A w \in Workers : /\ mtime[w] \in Nat /\ text[w] \in Nat /\ watched[w] \in Nat /\ runs[w] \in Nat
                               /\ mtime[w] \in 0 .. MaxClock /\ text[w] \in 0 .. MaxClock
<1>1. /\ link' = link /\ mtime' = mtime /\ text' = text /\ clock' = clock /\ cmd' = cmd /\ begun' = begun
  BY DEF Commandless, files
<1>2. FilesOK' /\ CmdsOK'
  BY <1>1 DEF WatcherInv, FilesOK, CmdsOK
<1>3. clock \in Nat /\ MaxClock \in Nat
  BY WatcherBounds DEF WatcherInv, FilesOK
<1>4. \A w \in Workers : /\ mtime[w] \in Nat /\ text[w] \in Nat /\ watched[w] \in Nat /\ runs[w] \in Nat
                         /\ mtime[w] \in 0 .. MaxClock /\ text[w] \in 0 .. MaxClock
  BY WatcherBounds DEF WatcherInv, FilesOK, RecordOK
<1> QED BY <1>1, <1>2, <1>3, <1>4

(* A job is made of what it is made of, and is not NoJob. *)
LEMMA JobIs ==
  ASSUME NEW step \in {"stat", "load", "apply", "handle"}, NEW w \in Workers, NEW at \in 0 .. MaxClock,
         job' = [step |-> step, w |-> w, at |-> at]
  PROVE  job' # NoJob /\ job' \in JobRecord /\ job'.step = step /\ job'.w = w /\ job'.at = at
<1>1. job'.step = step /\ job'.w = w /\ job'.at = at /\ job' \in JobRecord
  BY DEF JobRecord
<1>2. NoJob.step = "none"
  BY DEF NoJob
<1> QED BY <1>1, <1>2

LEMMA JobWas ==
  ASSUME WorkOK, job # NoJob
  PROVE  /\ job \in JobRecord /\ job.step \in {"stat", "load", "apply", "handle"} /\ job.w \in Workers
         /\ job.at \in 0 .. MaxClock /\ job.at \in Nat
<1>1. job \in JobRecord
  BY DEF WorkOK
<1> QED BY <1>1, WatcherBounds DEF JobRecord

(* A worker that a step of the daemon is not about. *)
SameFor(w) ==
  /\ link' = link /\ mtime' = mtime /\ text' = text /\ mode' = mode /\ hup' = hup /\ listing' = listing
  /\ untold' = untold /\ runs'[w] = runs[w] /\ watched'[w] = watched[w]
  /\ w \in missed' <=> w \in missed
  /\ w \in todo' <=> w \in todo

LEMMA OtherWorker ==
  ASSUME NEW w \in Workers, WorkerInv(w), SameFor(w), Overtaken(w)',
         Queued("Modify", w) => Queued("Modify", w)', Queued("Remove", w) => Queued("Remove", w)',
         job # NoJob => job.w # w, job' # NoJob => job'.w # w
  PROVE  WorkerInv(w)'
<1>1. \A step : ~Holds(w, step) /\ ~Holds(w, step)'
  BY DEF Holds
<1>2. Recorded(w)'
  BY <1>1 DEF WorkerInv, Recorded, SameFor
<1>3. (w \in Gone)' <=> w \in Gone
  BY DEF SameFor, Gone
<1>4. Relinked(w)'
  BY <1>3 DEF WorkerInv, Relinked, SameFor
<1>5. ToStop(w)'
  BY <1>3 DEF WorkerInv, ToStop, SameFor
<1>6. ToStart(w)'
  BY <1>1 DEF WorkerInv, ToStart, SameFor, Parsable, Readable
<1> QED BY <1>2, <1>4, <1>5, <1>6 DEF WorkerInv

(* The queue as it was, and the queue without its head. *)
LEMMA QueueKept ==
  ASSUME NEW w \in Workers, WorkerInv(w), link' = link, events' = events
  PROVE  Overtaken(w)' /\ \A kind : Queued(kind, w) <=> Queued(kind, w)'
BY DEF WorkerInv, Overtaken, Queued

LEMMA QueueTaken ==
  ASSUME QueueOK, NEW w \in Workers, WorkerInv(w), link' = link, events # << >>, events' = Tail(events)
  PROVE  /\ Overtaken(w)'
         /\ \A kind : Queued(kind, w) => Queued(kind, w)' \/ (Head(events).kind = kind /\ Head(events).w = w)
         /\ link[w] /\ Head(events).kind = "Remove" /\ Head(events).w = w => Queued("Modify", w)'
<1>0. /\ Head(events) = events[1] /\ Len(events) \in Nat /\ Len(events') = Len(events) - 1
      /\ \A i \in 1 .. Len(events') : events'[i] = events[i + 1]
  BY QueueShrinks
<1>e. Len(events) > 0
  BY DEF QueueOK
<1>1. ASSUME NEW i \in 1 .. Len(events), i # 1 PROVE i - 1 \in 1 .. Len(events') /\ events'[i - 1] = events[i]
  <2>1. i - 1 \in 1 .. Len(events') /\ (i - 1) + 1 = i
    BY <1>0, <1>1
  <2> QED BY <1>0, <2>1
<1>2. ASSUME link'[w], NEW i \in 1 .. Len(events'), events'[i].kind = "Remove", events'[i].w = w
      PROVE  \E j \in 1 .. Len(events') : i < j /\ events'[j].kind = "Modify" /\ events'[j].w = w
  <2>1. i + 1 \in 1 .. Len(events) /\ events[i + 1] = events'[i]
    BY <1>0
  <2>2. PICK j \in 1 .. Len(events) : i + 1 < j /\ events[j].kind = "Modify" /\ events[j].w = w
    BY <1>2, <2>1 DEF WorkerInv, Overtaken
  <2>3. j # 1 /\ i < j - 1
    BY <1>0, <2>2
  <2> QED BY <1>1, <2>2, <2>3
<1>3. Overtaken(w)'
  BY <1>2 DEF Overtaken
<1>4. ASSUME NEW kind, Queued(kind, w) PROVE Queued(kind, w)' \/ (Head(events).kind = kind /\ Head(events).w = w)
  <2>1. PICK i \in 1 .. Len(events) : events[i].kind = kind /\ events[i].w = w
    BY <1>4 DEF Queued
  <2>2. CASE i = 1
    BY <1>0, <2>1, <2>2
  <2>3. CASE i # 1
    <3>1. i - 1 \in 1 .. Len(events') /\ events'[i - 1] = events[i]
      BY <1>1, <2>3
    <3> QED BY <2>1, <3>1 DEF Queued
  <2> QED BY <2>2, <2>3
<1>5. ASSUME link[w], Head(events).kind = "Remove", Head(events).w = w PROVE Queued("Modify", w)'
  <2>1. 1 \in 1 .. Len(events) /\ events[1].kind = "Remove" /\ events[1].w = w
    BY <1>0, <1>e, <1>5
  <2>2. PICK j \in 1 .. Len(events) : 1 < j /\ events[j].kind = "Modify" /\ events[j].w = w
    BY <1>5, <2>1 DEF WorkerInv, Overtaken
  <2>3. j - 1 \in 1 .. Len(events') /\ events'[j - 1] = events[j]
    BY <1>1, <2>2
  <2> QED BY <2>2, <2>3 DEF Queued
<1> QED BY <1>3, <1>4, <1>5

(* The daemon ends: nothing is recorded and nothing runs. *)
LEMMA DieKeeps ==
  ASSUME WatcherInv, Die, faults' \in 0 .. MaxFaults
  PROVE  WatcherInv'
<1>1. /\ mode' = "down" /\ listing' = {} /\ todo' = {} /\ job' = NoJob /\ events' = << >> /\ hup' = FALSE
      /\ watched' = None /\ runs' = None /\ untold' = untold /\ missed' = missed /\ asked' = asked
      /\ UNCHANGED Commandless
  BY DEF Die
<1>2. /\ link' = link /\ mtime' = mtime /\ clock' = clock /\ text' = text /\ FilesOK' /\ CmdsOK'
      /\ clock \in Nat /\ \A w \in Workers : mtime[w] \in Nat /\ text[w] \in Nat
  BY <1>1, DaemonKeepsFiles
<1>3. \A w \in Workers : None[w] = 0
  BY DEF None
<1>4. << >> \in Seq(EventRecord) /\ 1 .. Len(<< >>) = {}
  OBVIOUS
<1>5. WorkOK' /\ JobOK' /\ AtRest'
  BY <1>1 DEF WorkOK, JobOK, AtRest
<1>6. QueueOK'
  BY <1>1, <1>4 DEF QueueOK
<1>7. RecordOK'
  BY <1>1, WatcherBounds DEF WatcherInv, RecordOK, None
<1>8. Times'
  BY <1>1, <1>2, <1>3 DEF WatcherInv, Times
<1>9. ASSUME NEW w \in Workers PROVE WorkerInv(w)'
  BY <1>1, <1>2, <1>3, <1>4 DEF WorkerInv, Recorded, Overtaken, Relinked, ToStop, ToStart, Holds
<1> QED BY <1>2, <1>5, <1>6, <1>7, <1>8, <1>9 DEF WatcherInv

(* Start, Watch, TakeReload and ReloadDone change what is to be looked at. *)
LEMMA PassesKeep ==
  ASSUME WatcherInv, Start \/ Watch \/ TakeReload \/ ReloadDone
  PROVE  WatcherInv'
<1>t. WorkOK /\ QueueOK /\ RecordOK /\ JobOK /\ AtRest /\ Times /\ \A w \in Workers : WorkerInv(w)
  BY DEF WatcherInv
<1>f. UNCHANGED Commandless /\ job' = job /\ events' = events /\ watched' = watched /\ runs' = runs /\ faults' = faults
  BY DEF Start, Watch, TakeReload, ReloadDone
<1>d. /\ link' = link /\ mtime' = mtime /\ text' = text /\ clock' = clock /\ FilesOK' /\ CmdsOK'
      /\ \A w \in Workers : mtime[w] \in Nat /\ text[w] \in Nat /\ watched[w] \in Nat /\ runs[w] \in Nat
  BY <1>f, DaemonKeepsFiles
<1>j. job = NoJob
  BY <1>t DEF Start, Watch, TakeReload, ReloadDone, AtRest
<1>1. JobOK'
  BY <1>f, <1>j DEF JobOK
<1>2. Times'
  BY <1>d, <1>f, <1>t DEF Times
<1>q. ASSUME NEW w \in Workers PROVE Overtaken(w)' /\ \A kind : Queued(kind, w) <=> Queued(kind, w)'
  BY <1>d, <1>f, <1>t, QueueKept
<1>h. \A w, step : ~Holds(w, step) /\ ~Holds(w, step)'
  BY <1>f, <1>j DEF Holds
<1>3. CASE Start
  <2>1. /\ mode = "down" /\ mode' = "loading" /\ listing' = {w \in Workers : link[w]} /\ todo' = listing'
        /\ untold' = {} /\ missed' = {} /\ asked' = {} /\ hup' = hup
    BY <1>3 DEF Start
  <2>2. \A w \in Workers : watched[w] = 0 /\ runs[w] = 0
    BY <1>t, <2>1 DEF AtRest, None
  <2>3. WorkOK'
    BY <1>f, <1>t, <2>1 DEF WorkOK
  <2>4. QueueOK' /\ RecordOK'
    <3>1. ~Watching
      BY <2>1 DEF Watching
    <3> QED BY <1>f, <1>t, <2>1, <3>1 DEF QueueOK, RecordOK
  <2>5. AtRest'
    BY <1>f, <2>1, <2>2, <2>3 DEF AtRest, WorkOK
  <2>6. ASSUME NEW w \in Workers PROVE WorkerInv(w)'
    <3>1. (Recorded(w) /\ Relinked(w) /\ ToStop(w))'
      BY <1>d, <1>f, <1>h, <2>1, <2>2 DEF Recorded, Relinked, ToStop
    <3>2. ToStart(w)'
      BY <1>d, <2>1 DEF ToStart, Parsable, Readable
    <3> QED BY <1>q, <3>1, <3>2 DEF WorkerInv
  <2> QED BY <1>1, <1>2, <1>d, <2>3, <2>4, <2>5, <2>6 DEF WatcherInv
<1>4. CASE Watch \/ ReloadDone
  <2>1. /\ mode \in {"loading", "reloading"} /\ mode' = "up" /\ todo = {} /\ todo' = todo /\ listing' = listing /\ hup' = hup
        /\ untold' = untold /\ missed' = missed /\ asked' = asked
    BY <1>4 DEF Watch, ReloadDone
  <2>2. WorkOK' /\ RecordOK' /\ AtRest'
    BY <1>f, <1>t, <2>1 DEF WorkOK, RecordOK, AtRest
  <2>3. QueueOK'
    BY <1>f, <1>t, <2>1 DEF QueueOK, Watching
  <2>4. ASSUME NEW w \in Workers PROVE WorkerInv(w)'
    <3>1. Recorded(w)' /\ Relinked(w)'
      BY <1>d, <1>f, <1>h, <1>t, <2>1 DEF WorkerInv, Recorded, Relinked
    <3>2. w \notin Gone
      BY <2>1 DEF Gone
    <3>3. ToStop(w)'
      BY <1>d, <1>f, <1>q, <1>t, <2>1, <3>2 DEF WorkerInv, ToStop
    <3>4. ToStart(w)'
      BY <1>d, <1>f, <1>h, <1>q, <1>t, <2>1 DEF WorkerInv, ToStart, Parsable, Readable
    <3> QED BY <1>q, <3>1, <3>3, <3>4 DEF WorkerInv
  <2> QED BY <1>1, <1>2, <1>d, <2>2, <2>3, <2>4 DEF WatcherInv
<1>5. CASE TakeReload
  <2>1. /\ mode = "up" /\ mode' = "reloading" /\ listing' = {w \in Workers : link[w]} /\ hup' = FALSE
        /\ todo' = listing' \cup {w \in Workers : watched[w] > 0}
        /\ untold' = untold /\ missed' = missed /\ asked' = asked
    BY <1>5 DEF TakeReload
  <2>2. WorkOK' /\ RecordOK' /\ AtRest'
    BY <1>f, <1>t, <2>1 DEF WorkOK, RecordOK, AtRest
  <2>3. QueueOK'
    BY <1>f, <1>t, <2>1 DEF QueueOK, Watching
  <2>4. ASSUME NEW w \in Workers PROVE WorkerInv(w)'
    <3>1. Recorded(w)'
      BY <1>d, <1>f, <1>h, <1>t, <2>1 DEF WorkerInv, Recorded
    <3>2. (w \in Gone)' <=> watched[w] > 0 /\ ~link[w]
      BY <2>1 DEF Gone
    <3>3. Relinked(w)'
      BY <1>d, <3>2 DEF Relinked
    <3>4. ToStop(w)'
      <4> SUFFICES ASSUME w \notin missed, ~link[w], runs[w] # 0 PROVE (w \in Gone)'
        BY <1>d, <1>f, <2>1 DEF ToStop
      <4>1. runs[w] > 0
        BY <1>d
      <4>2. watched[w] > 0
        BY <1>h, <1>t, <4>1 DEF WorkerInv, Recorded
      <4> QED BY <3>2, <4>2
    <3>5. ToStart(w)'
      BY <1>d, <2>1 DEF ToStart, Parsable, Readable
    <3> QED BY <1>q, <3>1, <3>3, <3>4, <3>5 DEF WorkerInv
  <2> QED BY <1>1, <1>2, <1>d, <2>2, <2>3, <2>4 DEF WatcherInv
<1> QED BY <1>3, <1>4, <1>5

(* A config loaded at the start waits for its time to be read. *)
LEMMA LoadInitialKeeps ==
  ASSUME WatcherInv, NEW v \in Workers, LoadInitial(v)
  PROVE  WatcherInv'
<1>t. WorkOK /\ QueueOK /\ RecordOK /\ JobOK /\ AtRest /\ Times /\ \A w \in Workers : WorkerInv(w)
  BY DEF WatcherInv
<1>1. /\ mode = "loading" /\ job = NoJob /\ v \in todo /\ Parsable(v) /\ runs' = [runs EXCEPT ![v] = text[v]]
      /\ asked' = asked \ {v} /\ job' = [step |-> "stat", w |-> v, at |-> mtime[v]]
      /\ mode' = mode /\ listing' = listing /\ todo' = todo /\ events' = events /\ hup' = hup /\ watched' = watched
      /\ faults' = faults /\ untold' = untold /\ missed' = missed /\ UNCHANGED Commandless
  BY DEF LoadInitial, Started
<1>d. /\ link' = link /\ mtime' = mtime /\ text' = text /\ clock' = clock /\ FilesOK' /\ CmdsOK' /\ MaxClock \in Nat
      /\ \A w \in Workers : /\ mtime[w] \in Nat /\ text[w] \in Nat /\ watched[w] \in Nat /\ runs[w] \in Nat
                            /\ mtime[w] \in 0 .. MaxClock /\ text[w] \in 0 .. MaxClock
  BY <1>1, DaemonKeepsFiles
<1>j. job' # NoJob /\ job' \in JobRecord /\ job'.step = "stat" /\ job'.w = v /\ job'.at = mtime[v]
  BY <1>1, <1>d, JobIs
<1>r. runs' \in [Workers -> 0 .. MaxClock] /\ runs'[v] = text[v] /\ \A w \in Workers \ {v} : runs'[w] = runs[w]
  BY <1>1, <1>d, <1>t DEF RecordOK
<1>2. WorkOK' /\ AtRest'
  BY <1>1, <1>j, <1>t DEF WorkOK, AtRest
<1>3. QueueOK' /\ RecordOK'
  BY <1>1, <1>r, <1>t DEF QueueOK, RecordOK, Watching
<1>4. watched[v] = 0 /\ Gone' = {}
  BY <1>1, <1>t DEF AtRest, WorkOK, Gone
<1>5. JobOK'
  BY <1>1, <1>4, <1>j DEF JobOK
<1>6. Times'
  BY <1>1, <1>d, <1>j, <1>t DEF Times
<1>q. ASSUME NEW w \in Workers PROVE Overtaken(w)' /\ \A kind : Queued(kind, w) <=> Queued(kind, w)'
  BY <1>1, <1>d, <1>t, QueueKept
<1>7. WorkerInv(v)'
  <2>1. Recorded(v)'
    BY <1>1, <1>4, <1>d, <1>j, <1>r DEF Recorded, Holds
  <2>2. Relinked(v)' /\ ToStop(v)' /\ ToStart(v)'
    BY <1>1, <1>d, <1>r DEF Relinked, ToStop, ToStart, Parsable, Readable
  <2> QED BY <1>q, <2>1, <2>2 DEF WorkerInv
<1>8. ASSUME NEW w \in Workers, w # v PROVE WorkerInv(w)'
  <2>1. SameFor(w)
    BY <1>1, <1>8, <1>d, <1>r DEF SameFor
  <2> QED BY <1>1, <1>8, <1>j, <1>q, <1>t, <2>1, OtherWorker
<1> QED BY <1>2, <1>3, <1>5, <1>6, <1>7, <1>8, <1>d DEF WatcherInv

(* The time read is that of what runs, or the worker is among the missed. *)
LEMMA StatKeeps ==
  ASSUME WatcherInv, Stat
  PROVE  WatcherInv'
<1>t. WorkOK /\ QueueOK /\ RecordOK /\ JobOK /\ AtRest /\ Times /\ \A w \in Workers : WorkerInv(w)
  BY DEF WatcherInv
<1>v. PICK v : v = job.w
  OBVIOUS
<1>1. /\ job # NoJob /\ job.step = "stat" /\ mtime[v] > 0 /\ link[v] /\ watched' = [watched EXCEPT ![v] = mtime[v]]
      /\ missed' = (IF mtime[v] = job.at THEN missed \ {v} ELSE missed \cup {v})
      /\ todo' = todo \ {v} /\ job' = NoJob /\ mode' = mode /\ listing' = listing /\ events' = events /\ hup' = hup
      /\ runs' = runs /\ faults' = faults /\ untold' = untold /\ asked' = asked /\ UNCHANGED Commandless
  BY <1>v DEF Stat
<1>d. /\ link' = link /\ mtime' = mtime /\ text' = text /\ clock' = clock /\ FilesOK' /\ CmdsOK' /\ MaxClock \in Nat
      /\ \A w \in Workers : /\ mtime[w] \in Nat /\ text[w] \in Nat /\ watched[w] \in Nat /\ runs[w] \in Nat
                            /\ mtime[w] \in 0 .. MaxClock /\ text[w] \in 0 .. MaxClock
  BY <1>1, DaemonKeepsFiles
<1>j. /\ v \in Workers /\ v \in todo /\ Gone = {} /\ mode \in {"loading", "reloading"}
  BY <1>1, <1>t, <1>v, JobWas DEF JobOK
<1>r. watched' \in [Workers -> 0 .. MaxClock] /\ watched'[v] = mtime[v] /\ \A w \in Workers \ {v} : watched'[w] = watched[w]
  BY <1>1, <1>d, <1>j, <1>t DEF RecordOK
<1>2. WorkOK' /\ JobOK'
  BY <1>1, <1>j, <1>t DEF WorkOK, JobOK
<1>3. QueueOK' /\ RecordOK'
  BY <1>1, <1>j, <1>r, <1>t DEF QueueOK, RecordOK, Watching
<1>4. AtRest'
  BY <1>1, <1>2, <1>j, <1>r, <1>t DEF AtRest, WorkOK
<1>5. Times'
  BY <1>1, <1>d, <1>j, <1>r, <1>t DEF Times
<1>q. ASSUME NEW w \in Workers PROVE Overtaken(w)' /\ \A kind : Queued(kind, w) <=> Queued(kind, w)'
  BY <1>1, <1>d, <1>t, QueueKept
<1>6. WorkerInv(v)'
  <2>1. v \notin missed' => runs[v] = text[v]
    BY <1>1, <1>d, <1>j, <1>t, <1>v DEF WorkerInv, Recorded, Holds
  <2>2. Recorded(v)'
    BY <1>1, <1>d, <1>r, <2>1 DEF Recorded, Holds
  <2>3. Relinked(v)'
    BY <1>1, <1>j DEF Relinked, Gone
  <2>4. ToStop(v)' /\ ToStart(v)'
    BY <1>1, <1>d, <2>1 DEF ToStop, ToStart
  <2> QED BY <1>j, <1>q, <2>2, <2>3, <2>4 DEF WorkerInv
<1>7. ASSUME NEW w \in Workers, w # v PROVE WorkerInv(w)'
  <2>1. SameFor(w)
    BY <1>1, <1>7, <1>d, <1>r DEF SameFor
  <2> QED BY <1>1, <1>7, <1>q, <1>t, <1>v, <2>1, OtherWorker
<1> QED BY <1>2, <1>3, <1>4, <1>5, <1>6, <1>7, <1>d DEF WatcherInv

(* No time could be read: the daemon ends, or what runs is unrecorded. *)
LEMMA StatFailsKeeps ==
  ASSUME WatcherInv, StatFails
  PROVE  WatcherInv'
<1>t. WorkOK /\ QueueOK /\ RecordOK /\ JobOK /\ AtRest /\ Times /\ \A w \in Workers : WorkerInv(w)
  BY DEF WatcherInv
<1>0. CASE mode = "loading"
  <2>1. Die /\ faults' \in 0 .. MaxFaults
    BY <1>0, <1>t DEF StatFails, RecordOK
  <2> QED BY <2>1, DieKeeps
<1>x. CASE mode # "loading"
  <2>v. PICK v : v = job.w
    OBVIOUS
  <2>1. /\ job # NoJob /\ job.step = "stat" /\ ~Readable(v)
        /\ missed' = (IF runs[v] > 0 THEN missed \cup {v} ELSE missed)
        /\ todo' = todo \ {v} /\ job' = NoJob /\ mode' = mode /\ listing' = listing /\ events' = events /\ hup' = hup
        /\ watched' = watched /\ runs' = runs /\ faults' = faults /\ untold' = untold /\ asked' = asked
        /\ UNCHANGED Commandless
    BY <1>x, <2>v DEF StatFails
  <2>d. /\ link' = link /\ mtime' = mtime /\ text' = text /\ clock' = clock /\ FilesOK' /\ CmdsOK'
        /\ \A w \in Workers : mtime[w] \in Nat /\ text[w] \in Nat /\ watched[w] \in Nat /\ runs[w] \in Nat
    BY <2>1, DaemonKeepsFiles
  <2>j. v \in Workers /\ v \in todo /\ Gone = {} /\ mode = "reloading" /\ watched[v] = 0
    BY <1>x, <2>1, <1>t, <2>v, JobWas DEF JobOK
  <2>2. WorkOK' /\ JobOK'
    BY <2>1, <2>j, <1>t DEF WorkOK, JobOK
  <2>3. QueueOK' /\ RecordOK'
    BY <2>1, <2>j, <1>t DEF QueueOK, RecordOK, Watching
  <2>4. AtRest'
    BY <2>1, <2>j DEF AtRest
  <2>5. Times'
    BY <2>1, <2>d, <1>t DEF Times
  <2>q. ASSUME NEW w \in Workers PROVE Overtaken(w)' /\ \A kind : Queued(kind, w) <=> Queued(kind, w)'
    BY <2>1, <2>d, <1>t, QueueKept
  <2>6. WorkerInv(v)'
    <3>1. v \notin missed' => runs[v] = 0
      BY <2>1, <2>d, <2>j
    <3>2. Recorded(v)'
      BY <2>1, <2>d, <2>j, <3>1 DEF Recorded, Holds
    <3>3. Relinked(v)'
      BY <2>1, <2>j DEF Relinked, Gone
    <3>4. ToStop(v)' /\ ToStart(v)'
      BY <2>1, <2>d, <3>1 DEF ToStop, ToStart, Parsable, Readable
    <3> QED BY <2>j, <2>q, <3>2, <3>3, <3>4 DEF WorkerInv
  <2>7. ASSUME NEW w \in Workers, w # v PROVE WorkerInv(w)'
    <3>1. SameFor(w)
      BY <2>1, <2>7, <2>d DEF SameFor
    <3> QED BY <2>1, <2>7, <2>q, <1>t, <2>v, <3>1, OtherWorker
  <2> QED BY <2>2, <2>3, <2>4, <2>5, <2>6, <2>7, <2>d DEF WatcherInv
<1> QED BY <1>0, <1>x

(* What the listing did not show, and is there again, has its event. *)
LEMMA UnloadGoneKeeps ==
  ASSUME WatcherInv, NEW v \in Workers, UnloadGone(v)
  PROVE  WatcherInv'
<1>t. WorkOK /\ QueueOK /\ RecordOK /\ JobOK /\ AtRest /\ Times /\ \A w \in Workers : WorkerInv(w)
  BY DEF WatcherInv
<1>1. /\ mode = "reloading" /\ v \in Gone /\ runs' = [runs EXCEPT ![v] = 0] /\ watched' = [watched EXCEPT ![v] = 0]
      /\ missed' = missed \ {v} /\ asked' = asked \ {v} /\ todo' = todo \ {v}
      /\ mode' = mode /\ listing' = listing /\ job' = job /\ events' = events /\ hup' = hup
      /\ faults' = faults /\ untold' = untold /\ UNCHANGED Commandless
  BY DEF UnloadGone, Stopped
<1>d. /\ link' = link /\ mtime' = mtime /\ text' = text /\ clock' = clock /\ FilesOK' /\ CmdsOK'
      /\ clock \in Nat /\ MaxClock \in Nat
      /\ \A w \in Workers : mtime[w] \in Nat /\ text[w] \in Nat /\ watched[w] \in Nat /\ runs[w] \in Nat
  BY <1>1, DaemonKeepsFiles
<1>j. job = NoJob
  <2> SUFFICES ASSUME job # NoJob PROVE FALSE
    OBVIOUS
  <2>1. job.step # "handle"
    BY <1>1, <1>t DEF JobOK
  <2> QED BY <1>1, <1>t, <2>1 DEF JobOK
<1>r. /\ watched' \in [Workers -> 0 .. MaxClock] /\ watched'[v] = 0 /\ \A w \in Workers \ {v} : watched'[w] = watched[w]
      /\ runs' \in [Workers -> 0 .. MaxClock] /\ runs'[v] = 0 /\ \A w \in Workers \ {v} : runs'[w] = runs[w]
  BY <1>1, <1>d, <1>t DEF RecordOK
<1>2. WorkOK' /\ JobOK' /\ AtRest'
  BY <1>1, <1>j, <1>t DEF WorkOK, JobOK, AtRest
<1>3. QueueOK' /\ RecordOK'
  BY <1>1, <1>r, <1>t DEF QueueOK, RecordOK, Watching
<1>5. Times'
  BY <1>1, <1>d, <1>j, <1>r, <1>t DEF Times
<1>q. ASSUME NEW w \in Workers PROVE Overtaken(w)' /\ \A kind : Queued(kind, w) <=> Queued(kind, w)'
  BY <1>1, <1>d, <1>t, QueueKept
<1>6. WorkerInv(v)'
  <2>1. Recorded(v)' /\ ToStop(v)'
    BY <1>1, <1>d, <1>j, <1>r DEF Recorded, Holds, ToStop
  <2>2. Relinked(v)'
    BY <1>1 DEF Relinked, Gone
  <2>3. ToStart(v)'
    <3>1. link[v] => Queued("Modify", v)'
      BY <1>1, <1>q, <1>t DEF WorkerInv, Relinked
    <3> QED BY <1>d, <3>1 DEF ToStart, Parsable, Readable
  <2> QED BY <1>q, <2>1, <2>2, <2>3 DEF WorkerInv
<1>7. ASSUME NEW w \in Workers, w # v PROVE WorkerInv(w)'
  <2>1. SameFor(w)
    BY <1>1, <1>7, <1>d, <1>r DEF SameFor
  <2> QED BY <1>1, <1>7, <1>j, <1>q, <1>t, <2>1, OtherWorker
<1> QED BY <1>2, <1>3, <1>5, <1>6, <1>7, <1>d DEF WatcherInv

(* A file that is not newer than recorded is what runs. *)
LEMMA NotNewerRuns ==
  ASSUME FilesOK, RecordOK, Times, NEW v \in Workers, WorkerInv(v), ~Newer(v), Parsable(v), v \notin missed
  PROVE  runs[v] = text[v]
<1>1. mtime[v] > 0 /\ ~(mtime[v] > watched[v]) /\ watched[v] <= mtime[v]
  BY DEF Newer, Parsable, Readable, Times
<1>2. mtime[v] \in Nat /\ watched[v] \in Nat
  BY WatcherBounds DEF FilesOK, RecordOK
<1>3. watched[v] = mtime[v]
  BY <1>1, <1>2
<1> QED BY <1>1, <1>3 DEF WorkerInv, Recorded

(* A pass takes a config up, or leaves what runs already. *)
LEMMA LookAtKeeps ==
  ASSUME WatcherInv, NEW v \in Workers, LookAt(v)
  PROVE  WatcherInv'
<1>t. FilesOK /\ WorkOK /\ QueueOK /\ RecordOK /\ JobOK /\ AtRest /\ Times /\ \A w \in Workers : WorkerInv(w)
  BY DEF WatcherInv
<1>1. /\ mode = "reloading" /\ job = NoJob /\ Gone = {} /\ v \in todo
      /\ mode' = mode /\ listing' = listing /\ events' = events /\ hup' = hup /\ watched' = watched /\ runs' = runs
      /\ faults' = faults /\ untold' = untold /\ missed' = missed /\ asked' = asked /\ UNCHANGED Commandless
  BY DEF LookAt
<1>d. /\ link' = link /\ mtime' = mtime /\ text' = text /\ clock' = clock /\ FilesOK' /\ CmdsOK' /\ MaxClock \in Nat
      /\ clock \in Nat
      /\ \A w \in Workers : /\ mtime[w] \in Nat /\ text[w] \in Nat /\ watched[w] \in Nat /\ runs[w] \in Nat
                            /\ mtime[w] \in 0 .. MaxClock
  BY <1>1, DaemonKeepsFiles
<1>3. QueueOK' /\ RecordOK' /\ AtRest'
  BY <1>1, <1>t DEF QueueOK, RecordOK, Watching, AtRest
<1>q. ASSUME NEW w \in Workers PROVE Overtaken(w)' /\ \A kind : Queued(kind, w) <=> Queued(kind, w)'
  BY <1>1, <1>d, <1>t, QueueKept
<1>x. CASE watched[v] = 0 \/ Newer(v)
  <2>1. /\ todo' = todo
        /\ \/ watched[v] = 0 /\ job' = [step |-> "load", w |-> v, at |-> 0]
           \/ Newer(v) /\ job' = [step |-> "apply", w |-> v, at |-> mtime[v]]
    BY <1>d, <1>x DEF LookAt
  <2>2. /\ job' # NoJob /\ job' \in JobRecord /\ job'.w = v
        /\ \/ watched[v] = 0 /\ job'.step = "load" /\ job'.at = 0
           \/ Newer(v) /\ job'.step = "apply" /\ job'.at = mtime[v]
    <3>1. 0 \in 0 .. MaxClock
      BY <1>d
    <3> QED BY <1>d, <2>1, <3>1, JobIs
  <2>3. Newer(v) => mtime[v] > 0
    BY DEF Newer, Readable
  <2>4. WorkOK' /\ JobOK'
    BY <1>1, <1>t, <2>1, <2>2, <2>3 DEF WorkOK, JobOK, Gone
  <2>5. Times'
    BY <1>1, <1>d, <1>t, <2>2 DEF Times
  <2>6. ASSUME NEW w \in Workers PROVE WorkerInv(w)'
    <3>1. ~Holds(w, "stat") /\ ~Holds(w, "stat")' /\ ~Holds(w, "handle")
      BY <1>1, <2>2 DEF Holds
    <3>2. Recorded(w)' /\ Relinked(w)'
      BY <1>1, <1>d, <1>t, <2>1, <3>1 DEF WorkerInv, Recorded, Relinked, Gone
    <3>3. ToStop(w)'
      BY <1>1, <1>d, <1>q, <1>t DEF WorkerInv, ToStop, Gone
    <3>4. ToStart(w)'
      BY <1>1, <1>d, <1>q, <1>t, <2>1, <3>1 DEF WorkerInv, ToStart, Parsable, Readable
    <3> QED BY <1>q, <3>2, <3>3, <3>4 DEF WorkerInv
  <2> QED BY <1>3, <1>d, <2>4, <2>5, <2>6 DEF WatcherInv
<1>y. CASE watched[v] # 0 /\ ~Newer(v)
  <2>1. todo' = todo \ {v} /\ job' = job
    BY <1>d, <1>y DEF LookAt
  <2>2. WorkOK' /\ JobOK'
    BY <1>1, <1>t, <2>1 DEF WorkOK, JobOK
  <2>3. Times'
    BY <1>1, <1>d, <1>t, <2>1 DEF Times
  <2>4. WorkerInv(v)'
    <3>1. Recorded(v)'
      BY <1>1, <1>d, <1>t, <2>1 DEF WorkerInv, Recorded, Holds
    <3>2. Relinked(v)' /\ ToStop(v)'
      BY <1>1, <1>d, <1>q, <1>t, <2>1 DEF WorkerInv, Relinked, ToStop, Gone
    <3>3. ToStart(v)'
      BY <1>1, <1>d, <1>t, <1>y, NotNewerRuns DEF ToStart, Parsable, Readable
    <3> QED BY <1>q, <3>1, <3>2, <3>3 DEF WorkerInv
  <2>5. ASSUME NEW w \in Workers, w # v PROVE WorkerInv(w)'
    <3>1. SameFor(w)
      BY <1>1, <1>d, <2>1, <2>5 DEF SameFor
    <3> QED BY <1>1, <1>q, <1>t, <2>1, <3>1, OtherWorker
  <2> QED BY <1>3, <1>d, <2>2, <2>3, <2>4, <2>5 DEF WatcherInv
<1> QED BY <1>x, <1>y

(* A pass loads a new config, or fails to. *)
LEMMA PassLoadKeeps ==
  ASSUME WatcherInv, PassLoad
  PROVE  WatcherInv'
<1>t. WorkOK /\ QueueOK /\ RecordOK /\ JobOK /\ AtRest /\ Times /\ \A w \in Workers : WorkerInv(w)
  BY DEF WatcherInv
<1>v. PICK v : v = job.w
  OBVIOUS
<1>1. /\ job # NoJob /\ job.step = "load" /\ UNCHANGED Commandless
      /\ mode' = mode /\ listing' = listing /\ todo' = todo /\ events' = events /\ hup' = hup /\ watched' = watched
      /\ untold' = untold /\ missed' = missed
  BY DEF PassLoad
<1>d. /\ link' = link /\ mtime' = mtime /\ text' = text /\ clock' = clock /\ FilesOK' /\ CmdsOK' /\ MaxClock \in Nat
      /\ clock \in Nat
      /\ \A w \in Workers : /\ mtime[w] \in Nat /\ text[w] \in Nat /\ watched[w] \in Nat /\ runs[w] \in Nat
                            /\ mtime[w] \in 0 .. MaxClock /\ text[w] \in 0 .. MaxClock
  BY <1>1, DaemonKeepsFiles
<1>w. /\ v \in Workers /\ v \in todo /\ Gone = {} /\ mode = "reloading" /\ watched[v] = 0 /\ job.at = 0 /\ job \in JobRecord
      /\ v \in listing
  BY <1>1, <1>t, <1>v, JobWas DEF JobOK, Gone
<1>2. /\ asked' \in {asked, asked \ {v}} /\ faults' \in {faults, faults + 1} /\ faults' \in 0 .. MaxFaults
      /\ \/ /\ Parsable(v) /\ runs' = [runs EXCEPT ![v] = text[v]]
            /\ job' = [job EXCEPT !.step = "stat", !.at = mtime[v]]
         \/ /\ job' = [job EXCEPT !.step = "stat"]
            /\ runs' = runs \/ (Parsable(v) /\ runs' = [runs EXCEPT ![v] = 0])
  <2>1. faults \in 0 .. MaxFaults /\ MaxFaults \in Nat
    BY <1>t, WatcherBounds DEF RecordOK
  <2>2. \/ /\ Parsable(v) /\ Started(v) /\ UNCHANGED faults
           /\ job' = [job EXCEPT !.step = "stat", !.at = mtime[v]]
        \/ /\ IF Parsable(v) THEN Fault ELSE UNCHANGED faults
           /\ job' = [job EXCEPT !.step = "stat"] /\ ProcessLost(v) /\ UNCHANGED asked
    BY <1>v DEF PassLoad
  <2>3. CASE Parsable(v) /\ Started(v) /\ UNCHANGED faults /\ job' = [job EXCEPT !.step = "stat", !.at = mtime[v]]
    BY <2>1, <2>3 DEF Started
  <2>4. CASE /\ IF Parsable(v) THEN Fault ELSE UNCHANGED faults
             /\ job' = [job EXCEPT !.step = "stat"] /\ ProcessLost(v) /\ UNCHANGED asked
    <3>1. faults' \in {faults, faults + 1} /\ faults' \in 0 .. MaxFaults
      BY <2>1, <2>4 DEF Fault
    <3> QED BY <2>4, <3>1 DEF ProcessLost
  <2> QED BY <2>2, <2>3, <2>4
<1>j. /\ job' # NoJob /\ job' \in JobRecord /\ job'.step = "stat" /\ job'.w = v
      /\ \/ job'.at = mtime[v] /\ runs'[v] = text[v] /\ Parsable(v)
         \/ job'.at = 0 /\ (runs'[v] = runs[v] \/ (Parsable(v) /\ runs'[v] = 0))
      /\ runs' \in [Workers -> 0 .. MaxClock] /\ \A w \in Workers \ {v} : runs'[w] = runs[w]
  <2>1. runs \in [Workers -> 0 .. MaxClock] /\ NoJob.step = "none"
    BY <1>t DEF RecordOK, NoJob
  <2>2. \A r \in JobRecord, t \in 0 .. MaxClock :
          /\ [r EXCEPT !.step = "stat", !.at = t] \in JobRecord /\ [r EXCEPT !.step = "stat"] \in JobRecord
          /\ [r EXCEPT !.step = "stat", !.at = t].step = "stat" /\ [r EXCEPT !.step = "stat", !.at = t].w = r.w
          /\ [r EXCEPT !.step = "stat", !.at = t].at = t /\ [r EXCEPT !.step = "stat"].step = "stat"
          /\ [r EXCEPT !.step = "stat"].w = r.w /\ [r EXCEPT !.step = "stat"].at = r.at
    BY DEF JobRecord
  <2>3. CASE Parsable(v) /\ runs' = [runs EXCEPT ![v] = text[v]] /\ job' = [job EXCEPT !.step = "stat", !.at = mtime[v]]
    <3>1. job' \in JobRecord /\ job'.step = "stat" /\ job'.w = v /\ job'.at = mtime[v]
      BY <1>d, <1>v, <1>w, <2>2, <2>3
    <3>2. runs' \in [Workers -> 0 .. MaxClock] /\ runs'[v] = text[v] /\ \A w \in Workers \ {v} : runs'[w] = runs[w]
      BY <1>d, <1>w, <2>1, <2>3
    <3> QED BY <2>1, <2>3, <3>1, <3>2
  <2>4. CASE job' = [job EXCEPT !.step = "stat"] /\ (runs' = runs \/ (Parsable(v) /\ runs' = [runs EXCEPT ![v] = 0]))
    <3>1. job' \in JobRecord /\ job'.step = "stat" /\ job'.w = v /\ job'.at = 0
      <4>1. \A r \in JobRecord : [r EXCEPT !.step = "stat"] \in JobRecord /\ [r EXCEPT !.step = "stat"].step = "stat"
              /\ [r EXCEPT !.step = "stat"].w = r.w /\ [r EXCEPT !.step = "stat"].at = r.at
        BY DEF JobRecord
      <4> QED BY <1>v, <1>w, <2>4, <4>1
    <3>2. /\ runs' \in [Workers -> 0 .. MaxClock] /\ (runs'[v] = runs[v] \/ (Parsable(v) /\ runs'[v] = 0))
          /\ \A w \in Workers \ {v} : runs'[w] = runs[w]
      BY <1>d, <1>w, <2>1, <2>4
    <3> QED BY <2>1, <3>1, <3>2
  <2> QED BY <1>2, <2>3, <2>4
<1>3. WorkOK' /\ AtRest'
  BY <1>1, <1>j, <1>t, <1>w DEF WorkOK, AtRest
<1>4. QueueOK' /\ RecordOK'
  BY <1>1, <1>2, <1>j, <1>t DEF QueueOK, RecordOK, Watching
<1>5. JobOK'
  BY <1>1, <1>j, <1>w DEF JobOK, Gone
<1>6. Times'
  BY <1>1, <1>d, <1>j, <1>t, <1>w DEF Times
<1>q. ASSUME NEW w \in Workers PROVE Overtaken(w)' /\ \A kind : Queued(kind, w) <=> Queued(kind, w)'
  BY <1>1, <1>d, <1>t, QueueKept
<1>7. WorkerInv(v)'
  <2>1. Recorded(v)'
    BY <1>1, <1>d, <1>j, <1>w DEF Recorded, Holds
  <2>2. Relinked(v)'
    BY <1>1, <1>w DEF Relinked, Gone
  <2>3. ToStop(v)'
    <3> SUFFICES ASSUME ~link[v] PROVE ToStop(v)'
      BY <1>d DEF ToStop
    <3>1. runs'[v] = runs[v]
      BY <1>j DEF Parsable, Readable
    <3> QED BY <1>1, <1>d, <1>q, <1>t, <1>w, <3>1 DEF WorkerInv, ToStop, Gone
  <2>4. ToStart(v)'
    BY <1>1, <1>w DEF ToStart
  <2> QED BY <1>q, <1>w, <2>1, <2>2, <2>3, <2>4 DEF WorkerInv
<1>8. ASSUME NEW w \in Workers, w # v PROVE WorkerInv(w)'
  <2>1. SameFor(w)
    BY <1>1, <1>8, <1>d, <1>j DEF SameFor
  <2> QED BY <1>1, <1>8, <1>j, <1>q, <1>t, <1>v, <2>1, OtherWorker
<1> QED BY <1>3, <1>4, <1>5, <1>6, <1>7, <1>8, <1>d DEF WatcherInv

(* A changed config is applied, by a pass or for an event: what is         *)
(* recorded is the time read before, and what runs is the file as it is    *)
(* now, or the worker is among the missed.                                 *)
LEMMA AppliedKeeps ==
  ASSUME WatcherInv, NEW v, v = job.w, job # NoJob, job.step \in {"apply", "handle"},
         watched' = [watched EXCEPT ![v] = job.at], todo' = todo \ {v}, job' = NoJob,
         \/ Parsable(v) /\ runs' = [runs EXCEPT ![v] = text[v]] /\ missed' = missed \ {v}
         \/ (runs' = runs \/ runs' = [runs EXCEPT ![v] = 0]) /\ missed' = missed \cup {v},
         UNCHANGED <<Commandless, mode, listing, events, hup, untold>>,
         faults' \in 0 .. MaxFaults, asked' \subseteq Workers
  PROVE  WatcherInv'
<1>t. WorkOK /\ QueueOK /\ RecordOK /\ JobOK /\ AtRest /\ Times /\ \A w \in Workers : WorkerInv(w)
  BY DEF WatcherInv
<1>1. UNCHANGED Commandless /\ mode' = mode /\ listing' = listing /\ events' = events /\ hup' = hup /\ untold' = untold
  OBVIOUS
<1>d. /\ link' = link /\ mtime' = mtime /\ text' = text /\ clock' = clock /\ FilesOK' /\ CmdsOK' /\ MaxClock \in Nat
      /\ clock \in Nat
      /\ \A w \in Workers : /\ mtime[w] \in Nat /\ text[w] \in Nat /\ watched[w] \in Nat /\ runs[w] \in Nat
                            /\ mtime[w] \in 0 .. MaxClock /\ text[w] \in 0 .. MaxClock
  BY <1>1, DaemonKeepsFiles
<1>w. /\ v \in Workers /\ job.at \in 0 .. MaxClock /\ job.at > 0 /\ mode \in {"up", "reloading"}
      /\ Gone = {}
  <2>1. v \in Workers /\ job.at \in 0 .. MaxClock
    BY <1>t, JobWas
  <2>2. job.at > 0 /\ mode \in {"up", "reloading"}
    BY <1>t DEF JobOK
  <2>3. Gone = {}
    BY <1>t DEF JobOK, WorkOK, Gone
  <2> QED BY <2>1, <2>2, <2>3
<1>r. /\ watched' \in [Workers -> 0 .. MaxClock] /\ watched'[v] = job.at /\ \A w \in Workers \ {v} : watched'[w] = watched[w]
      /\ runs' \in [Workers -> 0 .. MaxClock] /\ \A w \in Workers \ {v} : runs'[w] = runs[w]
      /\ (Parsable(v) /\ runs'[v] = text[v]) \/ v \in missed'
      /\ missed' \subseteq Workers /\ \A w \in Workers \ {v} : w \in missed' <=> w \in missed
  <2>1. /\ watched \in [Workers -> 0 .. MaxClock] /\ runs \in [Workers -> 0 .. MaxClock] /\ missed \subseteq Workers
        /\ 0 \in 0 .. MaxClock
    BY <1>t, <1>d DEF RecordOK
  <2>2. watched' \in [Workers -> 0 .. MaxClock] /\ watched'[v] = job.at /\ \A w \in Workers \ {v} : watched'[w] = watched[w]
    BY <1>w, <2>1
  <2>3. CASE Parsable(v) /\ runs' = [runs EXCEPT ![v] = text[v]] /\ missed' = missed \ {v}
    BY <1>d, <1>w, <2>1, <2>2, <2>3
  <2>4. CASE (runs' = runs \/ runs' = [runs EXCEPT ![v] = 0]) /\ missed' = missed \cup {v}
    BY <1>d, <1>w, <2>1, <2>2, <2>4
  <2> QED BY <2>3, <2>4
<1>2. WorkOK' /\ JobOK' /\ AtRest'
  BY <1>1, <1>t, <1>w DEF WorkOK, JobOK, AtRest
<1>3. QueueOK' /\ RecordOK'
  BY <1>1, <1>r, <1>t DEF QueueOK, RecordOK, Watching
<1>4. Times'
  BY <1>1, <1>d, <1>r, <1>t, <1>w DEF Times
<1>q. ASSUME NEW w \in Workers PROVE Overtaken(w)' /\ \A kind : Queued(kind, w) <=> Queued(kind, w)'
  BY <1>1, <1>d, <1>t, QueueKept
<1>5. WorkerInv(v)'
  <2>1. Recorded(v)'
    BY <1>d, <1>r, <1>w DEF Recorded, Holds
  <2>2. Relinked(v)'
    BY <1>1, <1>w DEF Relinked, Gone
  <2>3. ToStop(v)' /\ ToStart(v)'
    BY <1>d, <1>r DEF ToStop, ToStart, Parsable, Readable
  <2> QED BY <1>q, <1>w, <2>1, <2>2, <2>3 DEF WorkerInv
<1>6. ASSUME NEW w \in Workers, w # v PROVE WorkerInv(w)'
  <2>1. SameFor(w)
    BY <1>1, <1>6, <1>d, <1>r DEF SameFor
  <2> QED BY <1>6, <1>q, <1>t, <2>1, OtherWorker
<1> QED BY <1>2, <1>3, <1>4, <1>5, <1>6, <1>d DEF WatcherInv

(* Both ways to apply one. *)
LEMMA ApplyKeeps ==
  ASSUME WatcherInv, PassApply \/ HandleApply
  PROVE  WatcherInv'
<1>t. WorkOK /\ JobOK /\ faults \in 0 .. MaxFaults /\ MaxFaults \in Nat /\ asked \subseteq Workers
  BY WatcherBounds DEF WatcherInv, RecordOK
<1>v. PICK v : v = job.w
  OBVIOUS
<1>1. CASE PassApply
  <2>1. /\ job # NoJob /\ job.step = "apply" /\ watched' = [watched EXCEPT ![v] = job.at] /\ todo' = todo \ {v}
        /\ job' = NoJob /\ UNCHANGED <<Commandless, mode, listing, events, hup, untold>>
        /\ \/ Parsable(v) /\ Started(v) /\ UNCHANGED faults /\ missed' = missed \ {v}
           \/ /\ IF Parsable(v) THEN Fault ELSE UNCHANGED faults
              /\ ProcessLost(v) /\ missed' = missed \cup {v} /\ UNCHANGED asked
    BY <1>1, <1>v DEF PassApply
  <2>2. CASE Parsable(v) /\ Started(v) /\ UNCHANGED faults /\ missed' = missed \ {v}
    <3>1. runs' = [runs EXCEPT ![v] = text[v]] /\ asked' \subseteq Workers /\ faults' \in 0 .. MaxFaults
      BY <1>t, <2>2 DEF Started
    <3> QED BY <1>v, <2>1, <2>2, <3>1, AppliedKeeps
  <2>3. CASE /\ IF Parsable(v) THEN Fault ELSE UNCHANGED faults
             /\ ProcessLost(v) /\ missed' = missed \cup {v} /\ UNCHANGED asked
    <3>1. faults' \in 0 .. MaxFaults /\ asked' \subseteq Workers
      BY <1>t, <2>3 DEF Fault
    <3>2. runs' = runs \/ runs' = [runs EXCEPT ![v] = 0]
      BY <2>3 DEF ProcessLost
    <3> QED BY <1>v, <2>1, <2>3, <3>1, <3>2, AppliedKeeps
  <2> QED BY <2>1, <2>2, <2>3
<1>2. CASE HandleApply
  <2>1. /\ job # NoJob /\ job.step = "handle" /\ Parsable(v) /\ runs' = [runs EXCEPT ![v] = text[v]]
        /\ asked' = asked \ {v} /\ watched' = [watched EXCEPT ![v] = job.at] /\ missed' = missed \ {v}
        /\ job' = NoJob /\ todo' = todo /\ faults' = faults
        /\ UNCHANGED <<Commandless, mode, listing, events, hup, untold>>
    BY <1>2, <1>v DEF HandleApply, Started
  <2>2. todo' = todo \ {v} /\ faults' \in 0 .. MaxFaults /\ asked' \subseteq Workers
    BY <1>t, <2>1 DEF JobOK, WorkOK
  <2> QED BY <1>v, <2>1, <2>2, AppliedKeeps
<1> QED BY <1>1, <1>2

(* A Remove that is late stops the worker; the Modify behind it is left. *)
LEMMA HandleRemoveKeeps ==
  ASSUME WatcherInv, HandleRemove
  PROVE  WatcherInv'
<1>t. WorkOK /\ QueueOK /\ RecordOK /\ JobOK /\ AtRest /\ Times /\ \A w \in Workers : WorkerInv(w)
  BY DEF WatcherInv
<1>v. PICK v : v = Head(events).w
  OBVIOUS
<1>1. /\ mode = "up" /\ job = NoJob /\ events # << >> /\ Head(events).kind = "Remove" /\ events' = Tail(events)
      /\ runs' = [runs EXCEPT ![v] = 0] /\ watched' = [watched EXCEPT ![v] = 0]
      /\ missed' = missed \ {v} /\ asked' = asked \ {v} /\ todo' = todo /\ job' = job
      /\ mode' = mode /\ listing' = listing /\ hup' = hup /\ faults' = faults /\ untold' = untold /\ UNCHANGED Commandless
  BY <1>v DEF HandleRemove, Event, Stopped
<1>e. v \in Workers /\ events' \in Seq(EventRecord)
  BY <1>1, <1>t, <1>v, QueueShrinks
<1>d. /\ link' = link /\ mtime' = mtime /\ text' = text /\ clock' = clock /\ FilesOK' /\ CmdsOK'
      /\ clock \in Nat /\ MaxClock \in Nat
      /\ \A w \in Workers : mtime[w] \in Nat /\ text[w] \in Nat /\ watched[w] \in Nat /\ runs[w] \in Nat
  BY <1>1, DaemonKeepsFiles
<1>r. /\ watched' \in [Workers -> 0 .. MaxClock] /\ watched'[v] = 0 /\ \A w \in Workers \ {v} : watched'[w] = watched[w]
      /\ runs' \in [Workers -> 0 .. MaxClock] /\ runs'[v] = 0 /\ \A w \in Workers \ {v} : runs'[w] = runs[w]
  BY <1>1, <1>d, <1>e, <1>t DEF RecordOK
<1>2. WorkOK' /\ JobOK' /\ AtRest'
  BY <1>1, <1>t DEF WorkOK, JobOK, AtRest
<1>3. QueueOK' /\ RecordOK'
  BY <1>1, <1>e, <1>r, <1>t DEF QueueOK, RecordOK, Watching
<1>4. Times'
  BY <1>1, <1>d, <1>r, <1>t DEF Times
<1>q. ASSUME NEW w \in Workers
      PROVE  /\ Overtaken(w)'
             /\ \A kind : Queued(kind, w) => Queued(kind, w)' \/ (Head(events).kind = kind /\ Head(events).w = w)
             /\ link[w] /\ Head(events).kind = "Remove" /\ Head(events).w = w => Queued("Modify", w)'
  BY <1>1, <1>d, <1>t, QueueTaken
<1>5. WorkerInv(v)'
  <2>1. Recorded(v)' /\ ToStop(v)' /\ Relinked(v)'
    BY <1>1, <1>d, <1>r DEF Recorded, Holds, ToStop, Relinked
  <2>2. link[v] => Queued("Modify", v)'
    BY <1>1, <1>e, <1>q, <1>v
  <2>3. ToStart(v)'
    BY <1>d, <2>2 DEF ToStart, Parsable, Readable
  <2> QED BY <1>e, <1>q, <2>1, <2>3 DEF WorkerInv
<1>6. ASSUME NEW w \in Workers, w # v PROVE WorkerInv(w)'
  <2>1. SameFor(w)
    BY <1>1, <1>6, <1>d, <1>r DEF SameFor
  <2>2. Overtaken(w)' /\ \A kind : Queued(kind, w) => Queued(kind, w)'
    BY <1>6, <1>q, <1>v
  <2> QED BY <1>1, <1>t, <2>1, <2>2, OtherWorker
<1> QED BY <1>2, <1>3, <1>4, <1>5, <1>6, <1>d DEF WatcherInv

(* A Modify makes a job of a newer file. *)
LEMMA HandleModifyKeeps ==
  ASSUME WatcherInv, HandleModify
  PROVE  WatcherInv'
<1>t. FilesOK /\ WorkOK /\ QueueOK /\ RecordOK /\ JobOK /\ AtRest /\ Times /\ \A w \in Workers : WorkerInv(w)
  BY DEF WatcherInv
<1>v. PICK v : v = Head(events).w
  OBVIOUS
<1>1. /\ mode = "up" /\ job = NoJob /\ events # << >> /\ Head(events).kind = "Modify" /\ events' = Tail(events)
      /\ job' = (IF Newer(v) THEN [step |-> "handle", w |-> v, at |-> mtime[v]] ELSE NoJob)
      /\ mode' = mode /\ listing' = listing /\ todo' = todo /\ hup' = hup /\ watched' = watched /\ runs' = runs
      /\ faults' = faults /\ untold' = untold /\ missed' = missed /\ asked' = asked /\ UNCHANGED Commandless
  BY <1>v DEF HandleModify, Event
<1>e. v \in Workers /\ events' \in Seq(EventRecord)
  BY <1>1, <1>t, <1>v, QueueShrinks
<1>d. /\ link' = link /\ mtime' = mtime /\ text' = text /\ clock' = clock /\ FilesOK' /\ CmdsOK'
      /\ clock \in Nat /\ MaxClock \in Nat
      /\ \A w \in Workers : /\ mtime[w] \in Nat /\ text[w] \in Nat /\ watched[w] \in Nat /\ runs[w] \in Nat
                            /\ mtime[w] \in 0 .. MaxClock
  BY <1>1, DaemonKeepsFiles
<1>j. \/ Newer(v) /\ job' # NoJob /\ job' \in JobRecord /\ job'.step = "handle" /\ job'.w = v /\ job'.at = mtime[v] /\ mtime[v] > 0
      \/ ~Newer(v) /\ job' = NoJob
  <2>1. CASE Newer(v)
    <3>1. mtime[v] > 0 /\ job' = [step |-> "handle", w |-> v, at |-> mtime[v]]
      BY <1>1, <2>1 DEF Newer, Readable
    <3> QED BY <1>d, <1>e, <2>1, <3>1, JobIs
  <2>2. CASE ~Newer(v)
    BY <1>1, <2>2
  <2> QED BY <2>1, <2>2
<1>2. WorkOK' /\ JobOK' /\ AtRest'
  BY <1>1, <1>j, <1>t DEF WorkOK, JobOK, AtRest
<1>3. QueueOK' /\ RecordOK'
  BY <1>1, <1>e, <1>t DEF QueueOK, RecordOK, Watching
<1>4. Times'
  BY <1>1, <1>d, <1>e, <1>j, <1>t DEF Times
<1>q. ASSUME NEW w \in Workers
      PROVE  /\ Overtaken(w)'
             /\ \A kind : Queued(kind, w) => Queued(kind, w)' \/ (Head(events).kind = kind /\ Head(events).w = w)
  BY <1>1, <1>d, <1>t, QueueTaken
<1>5. WorkerInv(v)'
  <2>0. ~Holds(v, "stat") /\ ~Holds(v, "stat")'
    BY <1>1, <1>j DEF Holds
  <2>1. Recorded(v)' /\ Relinked(v)'
    BY <1>1, <1>d, <1>e, <1>t, <2>0 DEF WorkerInv, Recorded, Relinked
  <2>2. Queued("Remove", v) => Queued("Remove", v)'
    BY <1>1, <1>e, <1>q
  <2>3. ToStop(v)'
    BY <1>1, <1>d, <1>e, <1>t, <2>2 DEF WorkerInv, ToStop
  <2>4. ToStart(v)'
    <3> SUFFICES ASSUME v \notin missed, Parsable(v) PROVE runs[v] = text[v] \/ Holds(v, "handle")'
      BY <1>1, <1>d DEF ToStart, Parsable, Readable
    <3>1. CASE Newer(v)
      BY <1>j, <3>1 DEF Holds
    <3>2. CASE ~Newer(v)
      BY <1>e, <1>t, <3>2, NotNewerRuns
    <3> QED BY <3>1, <3>2
  <2> QED BY <1>e, <1>q, <2>1, <2>3, <2>4 DEF WorkerInv
<1>6. ASSUME NEW w \in Workers, w # v PROVE WorkerInv(w)'
  <2>1. SameFor(w)
    BY <1>1, <1>6, <1>d DEF SameFor
  <2>2. Overtaken(w)' /\ \A kind : Queued(kind, w) => Queued(kind, w)'
    BY <1>6, <1>q, <1>v
  <2> QED BY <1>1, <1>6, <1>j, <1>t, <2>1, <2>2, OtherWorker
<1> QED BY <1>2, <1>3, <1>4, <1>5, <1>6, <1>d DEF WatcherInv

(* Every step keeps it. *)
LEMMA WatcherInvStep == WatcherInv /\ [WatcherNext]_watcherVars => WatcherInv'
<1> SUFFICES ASSUME WatcherInv, [WatcherNext]_watcherVars PROVE WatcherInv'
  OBVIOUS
<1>f. ASSUME (Fault \/ UNCHANGED faults), Die PROVE WatcherInv'
  <2>1. faults \in 0 .. MaxFaults /\ MaxFaults \in Nat
    BY WatcherBounds DEF WatcherInv, RecordOK
  <2>2. faults' \in 0 .. MaxFaults
    BY <1>f, <2>1 DEF Fault
  <2> QED BY <1>f, <2>2, DieKeeps
<1>1. CASE Command
  BY <1>1, CommandKeeps
<1>2. CASE Start \/ Watch \/ TakeReload \/ ReloadDone
  BY <1>2, PassesKeep
<1>3. CASE Stat \/ StatFails \/ PassLoad
  BY <1>3, StatKeeps, StatFailsKeeps, PassLoadKeeps
<1>4. CASE PassApply \/ HandleApply \/ HandleRemove \/ HandleModify
  BY <1>4, ApplyKeeps, HandleRemoveKeeps, HandleModifyKeeps
<1>5. CASE HandleFails \/ UnloadGoneFails \/ DaemonCrash
  BY <1>5, <1>f DEF HandleFails, UnloadGoneFails, DaemonCrash
<1>6. ASSUME NEW w \in Workers, LoadInitial(w) \/ UnloadGone(w) \/ LookAt(w) PROVE WatcherInv'
  BY <1>6, LoadInitialKeeps, UnloadGoneKeeps, LookAtKeeps
<1>7. ASSUME NEW w \in Workers, LoadInitialFails(w) PROVE WatcherInv'
  BY <1>7, <1>f DEF LoadInitialFails
<1>8. CASE UNCHANGED watcherVars
  <2>1. UNCHANGED <<files, cmd, begun, daemon, faults, untold, missed, asked>>
    BY <1>8 DEF watcherVars
  <2>2. CmdsOK'
    BY <2>1 DEF WatcherInv, CmdsOK, files
  <2> QED BY <2>1, <2>2, OnlyCommands
<1> QED BY <1>1, <1>2, <1>3, <1>4, <1>5, <1>6, <1>7, <1>8 DEF WatcherNext, Works

(* When everything the commands did was reported by the watch or by a      *)
(* signal and the daemon has worked it off, each enabled worker runs with  *)
(* the config on disk and no disabled worker runs: for any number of       *)
(* workers, of commands at a time and of faults, however events, passes,   *)
(* daemon restarts and killed commands interleave.                         *)
THEOREM WatcherStaysConsistent == WatcherSpec => []WatcherConsistent
<1>1. WatcherInit => WatcherInv
  BY WatcherInvInit
<1>2. WatcherInv /\ [WatcherNext]_watcherVars => WatcherInv'
  BY WatcherInvStep
<1>3. WatcherInv => WatcherConsistent
  BY WatcherInvImplies
<1> QED BY <1>1, <1>2, <1>3, PTL DEF WatcherSpec
=============================================================================
