---------------------------- MODULE DaemonProofs ----------------------------
(***************************************************************************)
(* The supervisor daemon's invariants for any number of supervisors,       *)
(* deploys, workers, processes, jobs and lines: its pid file               *)
(* (SupervisorPid), the rows of its process table (StatRows), the stop of  *)
(* a worker (WorkerStop), its scheduled jobs (Cron), the output it copies  *)
(* from containers (ContainerLogs) and the logs it rotates (LogFiles).     *)
(***************************************************************************)
EXTENDS SupervisorPid, StatRows, WorkerStop, Cron, ContainerLogs, LogFiles,
        SequenceTheorems, FiniteSetTheorems, WellFoundedInduction, TLAPS

-----------------------------------------------------------------------------
(* The pid file.                                                           *)

SupStates == {"unused", "dead", "open", "lock", "write", "clear", "listen", "load", "run",
              "stop", "unlink"}

PidTypeOK ==
    /\ name \in Inodes \cup {NoInode}
    /\ text \in [Inodes -> Pids \cup {NoPid}]
    /\ flock \in [Inodes -> Pids \cup {NoPid}]
    /\ sup \in [Pids -> SupStates]
    /\ fd \in [Pids -> Inodes \cup {NoInode}]
    /\ torn \in BOOLEAN

\* Those that have opened the file and not yet ended.
HasOpen(p) == Live(p) /\ sup[p] # "open"

\* LockKeepsOne is not inductive: that a second supervisor meets the lock of the
\* first needs that the first still has it, and that both opened the same file.
OwnersLock == \A p \in Pids : Owns(p) => fd[p] \in Inodes /\ flock[fd[p]] = p
OneFile == ~torn => \A p \in Pids : HasOpen(p) => fd[p] = name /\ name \in Inodes
\* The lock step itself is at an inode that is open.
OpenedFirst == \A p \in Pids : HasOpen(p) => fd[p] \in Inodes

PidInv == PidTypeOK /\ OwnersLock /\ OneFile /\ OpenedFirst /\ LockKeepsOne

\* No pid and no inode is the value for none.
LEMMA NoneIsNone == NoPid \notin Pids /\ NoInode \notin Inodes
  BY PidsAssumption DEF NoPid, NoInode, Inodes

\* Nobody has opened the file at the start.
LEMMA InitPid == PidInit => PidInv
<1> SUFFICES ASSUME PidInit PROVE PidInv
  OBVIOUS
<1>1. PidTypeOK
  BY DEF PidInit, PidTypeOK, SupStates
<1>2. \A p \in Pids : ~Live(p) /\ ~Owns(p)
  BY DEF PidInit, Live, Owns
<1>3. OwnersLock /\ OneFile /\ OpenedFirst
  BY <1>2 DEF OwnersLock, OneFile, OpenedFirst, HasOpen
<1>4. LockKeepsOne
  BY <1>2 DEF PidInit, LockKeepsOne
<1> QED
  BY <1>1, <1>3, <1>4 DEF PidInv

\* Every step keeps it.
LEMMA StepPid == PidInv /\ [PidNext]_pidVars => PidInv'
<1> SUFFICES ASSUME PidInv, [PidNext]_pidVars PROVE PidInv'
  OBVIOUS
<1> USE NoneIsNone DEF PidInv, PidTypeOK, OwnersLock, OneFile, OpenedFirst, LockKeepsOne, HasOpen,
        Owns, Live, SupStates, At, Inodes
<1>1. ASSUME NEW p \in Pids, StartByHand(p) PROVE PidInv'
  BY <1>1 DEF StartByHand, Free, Deployer
<1>2. ASSUME NEW p \in Pids, OpenPidFile(p) PROVE PidInv'
  BY <1>2 DEF OpenPidFile
<1>3. ASSUME NEW p \in Pids, LockPidFile(p) PROVE PidInv'
  BY <1>3 DEF LockPidFile
<1>4. ASSUME NEW p \in Pids, WritePid(p) PROVE PidInv'
  BY <1>4 DEF WritePid
<1>5. ASSUME NEW p \in Pids, ClearStaleMarkers(p) PROVE PidInv'
  BY <1>5 DEF ClearStaleMarkers
<1>6. ASSUME NEW p \in Pids, ListenForSignals(p) PROVE PidInv'
  BY <1>6 DEF ListenForSignals
<1>7. ASSUME NEW p \in Pids, LoadConfigs(p) PROVE PidInv'
  BY <1>7 DEF LoadConfigs
<1>8. ASSUME NEW p \in Pids, ReloadIfRequested(p) PROVE PidInv'
  BY <1>8 DEF ReloadIfRequested
<1>9. ASSUME NEW p \in Pids, Shutdown(p) PROVE PidInv'
  BY <1>9 DEF Shutdown
<1>10. ASSUME NEW p \in Pids, ReleaseLock(p) PROVE PidInv'
  BY <1>10 DEF ReleaseLock, LocksOf
<1>11. ASSUME NEW p \in Pids, RemovePidFile(p) PROVE PidInv'
  <2>1. sup' = [sup EXCEPT ![p] = "dead"] /\ name' = NoInode /\ sup[p] = "unlink"
    BY <1>11 DEF RemovePidFile
  <2>2. UNCHANGED <<text, flock, fd, markers>>
    BY <1>11 DEF RemovePidFile
  <2>3. torn' \in BOOLEAN
    BY <1>11 DEF RemovePidFile, RemovesOpenFile
  <2>4. ~torn' => ~torn /\ \A q \in Pids \ {p} : Live(q) => fd[q] # name \/ name = NoInode
    BY <1>11, Zenon DEF RemovePidFile, RemovesOpenFile
  <2>5. ~torn' => \A q \in Pids : ~HasOpen(q)'
    BY <2>1, <2>2, <2>4
  <2> QED
    BY <2>1, <2>2, <2>3, <2>4, <2>5
<1>12. ASSUME NEW p \in Pids, Die(p) PROVE PidInv'
  BY <1>12 DEF Die, LocksOf
<1>13. ASSUME NEW d \in Deployers, FindSupervisor(d) PROVE PidInv'
  BY <1>13 DEF FindSupervisor, Supervisors
<1>14. ASSUME NEW d \in Deployers, RemoveStale(d) PROVE PidInv'
  <2>1. name' = NoInode /\ UNCHANGED <<text, sup, flock, fd, markers>>
    BY <1>14 DEF RemoveStale, Supervisors
  <2>2. torn' \in BOOLEAN
    BY <1>14 DEF RemoveStale, RemovesOpenFile
  <2>3. ~torn' => ~torn /\ \A q \in Pids \ {NoPid} : Live(q) => fd[q] # name \/ name = NoInode
    BY <1>14, Zenon DEF RemoveStale, RemovesOpenFile
  <2>4. ~torn' => \A q \in Pids : ~HasOpen(q)'
    BY <2>1, <2>3
  <2> QED
    BY <2>1, <2>2, <2>3, <2>4
<1>15. ASSUME NEW d \in Deployers, WaitForSupervisor(d) PROVE PidInv'
  BY <1>15 DEF WaitForSupervisor, Supervisors
<1>16. ASSUME NEW d \in Deployers, NotifyReload(d) PROVE PidInv'
  BY <1>16 DEF NotifyReload, ReadPid, LocksOf
<1>17. ASSUME NEW d \in Deployers, NEW p \in Pids, SpawnSupervisor(d, p) PROVE PidInv'
  BY <1>17 DEF SpawnSupervisor, Free, Supervisors
<1>18. CASE UNCHANGED pidVars
  BY <1>18 DEF pidVars, pidState
<1> QED
  BY <1>1, <1>2, <1>3, <1>4, <1>5, <1>6, <1>7, <1>8, <1>9, <1>10, <1>11, <1>12, <1>13, <1>14, <1>15, <1>16, <1>17, <1>18 DEF PidNext

\* One supervisor at a time is past its lock, and its workers have their markers, as
\* long as nobody removed the name of a file that a live supervisor has open: for
\* any number of supervisors and deploys, in any order, killed anywhere.
THEOREM PidLockKeepsOne == PidSpec => []LockKeepsOne
<1>1. PidInv => LockKeepsOne
  BY DEF PidInv
<1> QED
  BY <1>1, InitPid, StepPid, PTL DEF PidSpec

-----------------------------------------------------------------------------
(* The rows of the process table.                                          *)

RowStates == {NoRow, "Starting", "Running", "Stopped", "Crashed", "Restarting"}

RowTypeOK ==
    /\ process \in [Workers -> {NotManaged, "up", "down"}]
    /\ row \in [Workers -> RowStates]

\* Rows that tell the truth are inductive once processes and rows have their types.
RowInv == RowTypeOK /\ RowsTellTheTruth

LEMMA InitRow == RowInit => RowInv
  BY DEF RowInit, RowInv, RowTypeOK, RowStates, RowsTellTheTruth, NoRow, NotManaged

\* A spawn leaves the worker supervised, or its row at what the stop made of it.
LEMMA SpawnKeepsTruth ==
  ASSUME NEW w \in Workers, NEW count, RowInv, SpawnFor(w, count)
  PROVE  RowInv'
  BY DEF SpawnFor, Set, Marked, RowInv, RowTypeOK, RowStates, RowsTellTheTruth, NoRow, NotManaged

LEMMA StepRow == RowInv /\ [RowNext]_rowVars => RowInv'
<1> SUFFICES ASSUME RowInv, [RowNext]_rowVars PROVE RowInv'
  OBVIOUS
<1> USE DEF RowInv, RowTypeOK, RowStates, RowsTellTheTruth, Set, Marked, NoRow, NotManaged
<1>1. ASSUME NEW w \in Workers, WriteConfig(w) PROVE RowInv'
  BY <1>1 DEF WriteConfig
<1>2. ASSUME NEW w \in Workers, HandleFileEvent(w) PROVE RowInv'
  BY <1>2, SpawnKeepsTruth DEF HandleFileEvent, LoadConfig
<1>3. ASSUME NEW w \in Workers, ReloadConfig(w) PROVE RowInv'
  BY <1>3, SpawnKeepsTruth DEF ReloadConfig, LoadConfig
<1>4. ASSUME NEW w \in Workers, UnloadConfig(w) PROVE RowInv'
  <2>1. CASE appExists
    BY <1>4, <2>1 DEF UnloadConfig, StopById
  <2>2. CASE ~appExists
    BY <1>4, <2>2 DEF UnloadConfig
  <2> QED
    BY <2>1, <2>2
<1>5. ASSUME NEW w \in Workers, Crash(w) PROVE RowInv'
  BY <1>5 DEF Crash
<1>6. ASSUME NEW w \in Workers, MarkRunning(w) PROVE RowInv'
  BY <1>6 DEF MarkRunning
<1>7. ASSUME NEW w \in Workers, GiveUp(w) PROVE RowInv'
  BY <1>7 DEF GiveUp
<1>8. ASSUME NEW w \in Workers, RestartProcess(w) PROVE RowInv'
  BY <1>8 DEF RestartProcess
<1>9. CASE RemoveConfigs
  BY <1>9 DEF RemoveConfigs
<1>10. CASE RemoveDirectory
  BY <1>10 DEF RemoveDirectory
<1>11. CASE ForgetDestroyedApps
  BY <1>11 DEF ForgetDestroyedApps
<1>12. CASE UNCHANGED rowVars
  BY <1>12 DEF rowVars, rowState
<1> QED
  BY <1>1, <1>2, <1>3, <1>4, <1>5, <1>6, <1>7, <1>8, <1>9, <1>10, <1>11, <1>12 DEF RowNext

\* /metrics never shows a worker as running or starting that nothing supervises: for
\* any number of workers, restarts, deploys and failed spawns.
THEOREM MetricsTellTheTruth == RowSpec => []RowsTellTheTruth
<1>1. RowInv => RowsTellTheTruth
  BY DEF RowInv
<1> QED
  BY <1>1, InitRow, StepRow, PTL DEF RowSpec

-----------------------------------------------------------------------------
(* The stop of a worker.                                                   *)

StopPhases == {"unspawned", "managed", "grace", "reap", "leftovers", "cgroup", "kill listed",
               "remove", "drop", "gone"}

StopTypeOK ==
    /\ isolated \in BOOLEAN /\ cgroup \in BOOLEAN /\ told \in BOOLEAN
    /\ phase \in StopPhases

\* Until its directory is removed, an isolated worker has its cgroup and no other has.
CgroupIfIsolated ==
    /\ phase \in {"managed", "grace", "reap", "leftovers", "cgroup"} => cgroup = isolated
    /\ phase \in {"kill listed", "remove"} => isolated

\* What the group's part of the stop leaves to the cgroup's part.
GroupKilled ==
    phase \in {"cgroup", "drop", "gone"} /\ ~told /\ ~isolated => alive \cap group \subseteq killed

\* What the cgroup's part leaves: killed is not enough for it, an occupied cgroup is told.
CgroupEmptied == phase \in {"drop", "gone"} /\ ~told /\ isolated => alive = {}

StopInv == StopTypeOK /\ CgroupIfIsolated /\ GroupKilled /\ CgroupEmptied

LEMMA InitStop == StopInit => StopInv
  BY DEF StopInit, StopInv, StopTypeOK, StopPhases, CgroupIfIsolated, GroupKilled, CgroupEmptied

LEMMA StepStop == StopInv /\ [StopNext]_stopVars => StopInv'
<1> SUFFICES ASSUME StopInv, [StopNext]_stopVars PROVE StopInv'
  OBVIOUS
<1> USE DEF StopInv, StopTypeOK, StopPhases, CgroupIfIsolated, GroupKilled, CgroupEmptied, Habits,
        Then, KillSet, Members
<1>1. CASE Spawn
  BY <1>1 DEF Spawn
<1>2. ASSUME NEW p \in Procs, Fork(p) PROVE StopInv'
  BY <1>2 DEF Fork
<1>3. ASSUME NEW p \in Procs, LeaveGroup(p) PROVE StopInv'
  BY <1>3 DEF LeaveGroup
<1>4. ASSUME NEW p \in Procs, Exit(p) PROVE StopInv'
  BY <1>4 DEF Exit
<1>5. CASE Terminate
  BY <1>5 DEF Terminate
<1>6. CASE EndGrace
  BY <1>6 DEF EndGrace
<1>7. CASE ReapLeader
  BY <1>7 DEF ReapLeader
<1>8. CASE StopLeftovers
  BY <1>8 DEF StopLeftovers
<1>9. CASE KillMembers
  BY <1>9 DEF KillMembers
<1>10. CASE KillListed
  BY <1>10 DEF KillListed
<1>11. CASE RemoveCgroup
  BY <1>11 DEF RemoveCgroup
<1>12. CASE DropMarker
  BY <1>12 DEF DropMarker
<1>13. CASE UNCHANGED stopVars
  BY <1>13 DEF stopVars, stopState, Habits
<1> QED
  BY <1>1, <1>2, <1>3, <1>4, <1>5, <1>6, <1>7, <1>8, <1>9, <1>10, <1>11, <1>12, <1>13 DEF StopNext

\* When the marker is gone and no failure was told, what still runs of the worker has been
\* sent SIGKILL: for any number of processes that fork, leave the group or ignore SIGTERM.
THEOREM StopOutlasted == StopSpec => []MarkerOutlastsWorker
<1>1. StopInv => MarkerOutlastsWorker
  BY DEF StopInv, StopTypeOK, GroupKilled, CgroupEmptied, MarkerOutlastsWorker
<1> QED
  BY <1>1, InitStop, StepStop, PTL DEF StopSpec

-----------------------------------------------------------------------------
(* Scheduled jobs.                                                         *)

\* Of two multiples the larger is a whole period further.
LEMMA Multiples ==
  ASSUME NEW p \in Nat \ {0}, NEW a \in Nat, NEW b \in Nat, a < b
  PROVE  p * a + p <= p * b
<1>1. PICK c \in Nat : b = a + 1 + c
  <2>1. b - a - 1 \in Nat /\ b = a + 1 + (b - a - 1)
    OBVIOUS
  <2> QED
    BY <2>1
<1>2. p * b = p * a + p + p * c
  BY <1>1
<1>3. p * c \in Nat /\ p * a \in Nat
  OBVIOUS
<1> QED
  BY <1>2, <1>3

\* A number is the multiple below it and its remainder.
LEMMA Division ==
  ASSUME NEW p \in Nat \ {0}, NEW t \in Nat
  PROVE  /\ t \div p \in Nat /\ t % p \in 0..(p - 1)
         /\ t = p * (t \div p) + (t % p)
  OBVIOUS

LEMMA MultipleIsWhole ==
  ASSUME NEW p \in Nat \ {0}, NEW a \in Nat
  PROVE  (p * a) % p = 0
  OBVIOUS

\* After every time there is a next occurrence, at most a period later.
LEMMA NextMultiple ==
  ASSUME NEW p \in Nat \ {0}, NEW t \in Nat
  PROVE  \E n \in (t + 1)..(t + p) : /\ n % p = 0
                                     /\ \A m \in Nat : m > t /\ m % p = 0 => n <= m
<1> DEFINE a == t \div p
           n == p * a + p
<1>1. a \in Nat /\ t % p \in 0..(p - 1) /\ t = p * a + (t % p) /\ p * a \in Nat
  <2>1. a \in Nat /\ t % p \in 0..(p - 1) /\ t = p * a + (t % p)
    BY Division
  <2> HIDE DEF a
  <2> QED
    BY <2>1
<1>2. n \in (t + 1)..(t + p)
  BY <1>1
<1>3. n = p * (a + 1)
  BY <1>1
<1>4. n % p = 0
  <2> HIDE DEF n
  <2>1. a + 1 \in Nat
    BY <1>1
  <2> QED
    BY <1>3, <2>1, MultipleIsWhole
<1>5. ASSUME NEW m \in Nat, m > t, m % p = 0 PROVE n <= m
  <2> DEFINE b == m \div p
  <2>1. b \in Nat /\ m = p * b
    BY <1>5, Division
  <2>2. a < b
    <3> SUFFICES ASSUME b <= a PROVE FALSE
      BY <1>1, <2>1
    <3>1. CASE b = a
      BY <3>1, <2>1, <1>1, <1>5
    <3>2. CASE b < a
      <4>1. p * b + p <= p * a
        BY <3>2, <2>1, <1>1, Multiples
      <4>2. p * b \in Nat
        BY <2>1
      <4> QED
        BY <4>1, <4>2, <2>1, <1>1, <1>5
    <3> QED
      BY <3>1, <3>2, <2>1, <1>1
  <2> QED
    BY <2>1, <2>2, <1>1, Multiples
<1> QED
  BY <1>2, <1>4, <1>5

\* The occurrence that NextRunAfter finds, for a time that still has a next one.
LEMMA NextRun ==
  ASSUME NEW j \in Jobs, NEW t \in 0..MaxNow
  PROVE  /\ NextRunAfter(j, t) \in Occurrences(j)
         /\ NextRunAfter(j, t) > t
         /\ \A m \in Occurrences(j) : m > t => NextRunAfter(j, t) <= m
<1>1. Period[j] \in Nat \ {0} /\ MaxNow \in Nat
  BY CronAssumption
<1>2. PICK n \in (t + 1)..(t + Period[j]) :
            n % Period[j] = 0 /\ \A m \in Nat : m > t /\ m % Period[j] = 0 => n <= m
  <2>1. t \in Nat
    BY <1>1
  <2> QED
    BY <1>1, <2>1, NextMultiple, Zenon
<1>3. n \in Occurrences(j) /\ n > t /\ \A m \in Occurrences(j) : m > t => n <= m
  BY <1>1, <1>2 DEF Occurrences
<1> QED
  BY <1>3 DEF NextRunAfter

\* One counter of a function is raised and the others are left.
LEMMA Raised ==
  ASSUME NEW S, NEW f \in [S -> Nat], NEW k \in S
  PROVE  LET g == [f EXCEPT ![k] = @ + 1]
         IN  g \in [S -> Nat] /\ \A t \in S : g[t] = IF t = k THEN f[k] + 1 ELSE f[t]
  OBVIOUS

CronTypeOK ==
    /\ now \in 1..MaxNow
    /\ nextRun \in [Jobs -> Nat] /\ loadedAt \in [Jobs -> Nat]
    /\ \A j \in Jobs : nextRun[j] # Unset => nextRun[j] \in Occurrences(j)
    /\ \A j \in Jobs : fired[j] \in [Occurrences(j) -> Nat]

\* What OncePerOccurrence needs: an occurrence that has run is over, so that a reload,
\* which schedules from now, never schedules it again; and next_run is past it.
RanIsPast ==
    \A j \in Jobs : \A t \in Occurrences(j) :
        fired[j][t] > 0 => t <= now /\ (nextRun[j] # Unset => t < nextRun[j])

CronInv == CronTypeOK /\ RanIsPast /\ OncePerOccurrence

LEMMA InitCron == CronInit => CronInv
  BY CronAssumption DEF CronInit, CronInv, CronTypeOK, RanIsPast, OncePerOccurrence, Unset

LEMMA LoadKeeps == CronInv /\ LoadCronJobs => CronInv'
<1> SUFFICES ASSUME CronInv, LoadCronJobs PROVE CronInv'
  OBVIOUS
<1> USE DEF CronInv, CronTypeOK, RanIsPast, OncePerOccurrence, Unset
<1>1. now \in 0..MaxNow /\ UNCHANGED <<now, fired>>
  BY CronAssumption DEF LoadCronJobs
<1>2. \A j \in Jobs : Occurrences(j) \subseteq Nat \ {0}
  BY CronAssumption DEF Occurrences
<1>3. CASE RemoveAppJobs /\ UNCHANGED loadedAt
  BY <1>1, <1>3 DEF RemoveAppJobs
<1>4. CASE /\ nextRun' = [j \in Jobs |-> IF j \in lines THEN NextRunAfter(j, now) ELSE Unset]
           /\ loadedAt' = [j \in Jobs |-> now]
  <2>1. \A j \in Jobs : j \in lines => /\ nextRun'[j] \in Occurrences(j) /\ nextRun'[j] > now
                                       /\ \A m \in Occurrences(j) : m > now => nextRun'[j] <= m
    BY <1>1, <1>4, NextRun
  <2>2. \A j \in Jobs : j \notin lines => nextRun'[j] = Unset
    BY <1>4
  <2>3. CronTypeOK'
    BY <1>1, <1>2, <1>4, <2>1, <2>2
  <2>4. RanIsPast'
    BY <1>1, <1>2, <2>1, <2>2
  <2>5. OncePerOccurrence'
    BY <1>1, <1>2, <1>4, <2>1, <2>2
  <2> QED
    BY <2>3, <2>4, <2>5
<1> QED
  BY <1>3, <1>4 DEF LoadCronJobs

LEMMA CheckKeeps == CronInv /\ CheckCronJobs => CronInv'
<1> SUFFICES ASSUME CronInv, CheckCronJobs PROVE CronInv'
  OBVIOUS
<1> USE DEF CronInv, CronTypeOK, RanIsPast, OncePerOccurrence, Unset
<1>1. now \in 1..MaxNow /\ UNCHANGED <<now, loadedAt>>
  BY DEF CheckCronJobs
<1>2. \A j \in Jobs : Occurrences(j) \subseteq Nat \ {0}
  BY CronAssumption DEF Occurrences
<1>3. \A j \in Jobs \ Due : nextRun'[j] = nextRun[j] /\ fired'[j] = fired[j]
  BY DEF CheckCronJobs
<1>4. \A j \in Jobs \cap Due : fired'[j] = [fired[j] EXCEPT ![nextRun[j]] = @ + 1]
  BY DEF CheckCronJobs
<1>5. \A j \in Jobs \cap Due : /\ nextRun[j] \in Occurrences(j) /\ nextRun[j] <= now
                               /\ fired[j][nextRun[j]] = 0
  BY <1>1, <1>2 DEF Due
<1>6. \A j \in Jobs \cap Due : /\ nextRun'[j] \in Occurrences(j) /\ nextRun'[j] > nextRun[j]
                               /\ \A m \in Occurrences(j) : m > nextRun[j] => nextRun'[j] <= m
  <2> SUFFICES ASSUME NEW j \in Jobs \cap Due
               PROVE  /\ nextRun'[j] \in Occurrences(j) /\ nextRun'[j] > nextRun[j]
                      /\ \A m \in Occurrences(j) : m > nextRun[j] => nextRun'[j] <= m
    OBVIOUS
  <2>1. nextRun'[j] = NextRunAfter(j, nextRun[j])
    BY DEF CheckCronJobs, MarkJobRun
  <2>2. nextRun[j] \in 0..MaxNow
    BY <1>1, <1>5, CronAssumption
  <2> QED
    BY <2>1, <2>2, NextRun
<1>7. CronTypeOK'
  <2>1. nextRun' \in [Jobs -> Nat]
    BY <1>2, <1>3, <1>6 DEF CheckCronJobs
  <2>2. ASSUME NEW j \in Jobs PROVE fired'[j] \in [Occurrences(j) -> Nat]
    <3>1. fired[j] \in [Occurrences(j) -> Nat]
      OBVIOUS
    <3>2. CASE j \in Due
      <4>1. nextRun[j] \in Occurrences(j) /\ fired'[j] = [fired[j] EXCEPT ![nextRun[j]] = @ + 1]
        BY <1>4, <1>5, <3>2
      <4> QED
        BY <4>1, <3>1, Raised
    <3> QED
      BY <1>3, <3>1, <3>2
  <2> QED
    BY <1>1, <1>3, <1>6, <2>1, <2>2
<1>8. ASSUME NEW j \in Jobs, NEW t \in Occurrences(j)
      PROVE  /\ fired'[j][t] > 0 => t <= now /\ (nextRun'[j] # Unset => t < nextRun'[j])
             /\ fired'[j][t] <= 1
             /\ nextRun'[j] # Unset /\ loadedAt[j] < t /\ t < nextRun'[j] => fired'[j][t] = 1
  <2>1. CASE j \in Due
    <3>1. fired'[j][t] = IF t = nextRun[j] THEN 1 ELSE fired[j][t]
      <4>1. nextRun[j] \in Occurrences(j) /\ fired'[j] = [fired[j] EXCEPT ![nextRun[j]] = @ + 1]
        BY <1>4, <1>5, <2>1
      <4>2. fired[j] \in [Occurrences(j) -> Nat] /\ fired[j][nextRun[j]] + 1 = 1
        BY <1>5, <2>1
      <4>3. fired'[j][t] = IF t = nextRun[j] THEN fired[j][nextRun[j]] + 1 ELSE fired[j][t]
        BY <4>1, <4>2, Raised, Zenon
      <4> QED
        BY <4>2, <4>3, Zenon
    <3>2. nextRun[j] \in Nat \ {0} /\ nextRun'[j] \in Nat /\ t \in Nat /\ now \in Nat /\ loadedAt[j] \in Nat
      BY <1>2, <1>5, <1>6, <2>1, CronAssumption
    <3>3. nextRun'[j] > nextRun[j] /\ (t > nextRun[j] => nextRun'[j] <= t) /\ nextRun[j] <= now
      BY <1>5, <1>6, <2>1
    <3>4. fired[j][t] \in Nat
      OBVIOUS
    <3> QED
      BY <3>1, <3>2, <3>3, <3>4
  <2>2. CASE j \notin Due
    BY <1>3, <2>2
  <2> QED
    BY <2>1, <2>2
<1>9. RanIsPast' /\ OncePerOccurrence'
  BY <1>1, <1>8
<1> QED
  BY <1>7, <1>9

LEMMA StepCron == CronInv /\ [CronNext]_cronVars => CronInv'
<1> SUFFICES ASSUME CronInv, [CronNext]_cronVars PROVE CronInv'
  OBVIOUS
<1>1. CASE Pass
  <2>1. now' = now + 1 /\ now' \in 1..MaxNow /\ UNCHANGED <<nextRun, loadedAt, fired>>
    BY <1>1, CronAssumption DEF Pass, CronInv, CronTypeOK
  <2>2. \A j \in Jobs : Occurrences(j) \subseteq Nat
    BY CronAssumption DEF Occurrences
  <2> QED
    BY <2>1, <2>2, CronAssumption DEF CronInv, CronTypeOK, RanIsPast, OncePerOccurrence
<1>2. CASE UnloadCron
  BY <1>2 DEF UnloadCron, RemoveAppJobs, CronInv, CronTypeOK, RanIsPast, OncePerOccurrence, Unset
<1>3. CASE UNCHANGED <<now, nextRun, loadedAt, fired>>
  BY <1>3 DEF CronInv, CronTypeOK, RanIsPast, OncePerOccurrence
<1>4. CASE EditProcfile \/ CheckWatchedImages \/ StartTask \/ EndTask \/ StopLoop \/ JoinPool
  BY <1>3, <1>4 DEF EditProcfile, CheckWatchedImages, StartTask, EndTask, StopLoop, JoinPool
<1> QED
  BY <1>1, <1>2, <1>3, <1>4, LoadKeeps, CheckKeeps DEF CronNext, cronVars, cronState

\* A job that is scheduled has run once for every occurrence since its load, and no
\* occurrence runs twice: for any jobs and periods, however late the checks come and
\* whatever is reloaded in between.
THEOREM CronRunsOnce == CronSpec => []OncePerOccurrence
<1>1. CronInv => OncePerOccurrence
  BY DEF CronInv
<1> QED
  BY <1>1, InitCron, StepCron, PTL DEF CronSpec

-----------------------------------------------------------------------------
(* The copied output of containers.                                        *)

\* The stamps of the output never go back, and lines with one stamp are of one stream.
Ordered ==
    /\ stamp \in [Lines -> Lines] /\ stream \in [Lines -> Streams]
    /\ \A l, m \in Lines : l <= m => /\ stamp[l] <= stamp[m]
                                     /\ stamp[l] = stamp[m] => stream[l] = stream[m]

\* Induction over numbers, as the least one of a set.
LEMMA LeastNumber ==
    ASSUME NEW T \in SUBSET Nat, T # {}
    PROVE  \E n \in T : \A m \in T : n <= m
<1> DEFINE R == OpToRel(<, Nat)
<1>1. IsWellFoundedOn(R, Nat)
  BY NatLessThanWellFounded, Zenon
<1>2. \A m, n \in Nat : m < n => <<m, n>> \in R
  BY Zenon DEF OpToRel
<1> HIDE DEF R
<1>3. PICK n \in T : \A m \in T : ~(<<m, n>> \in R)
  BY <1>1, WFMin
<1>4. \A m \in T : ~(m < n)
  BY <1>2, <1>3
<1> QED
  BY <1>4

\* A bounded set that is not empty has a highest number.
LEMMA HighestNumber ==
    ASSUME NEW N \in Nat, NEW T \in SUBSET (0..N), T # {}
    PROVE  \E n \in T : \A m \in T : m <= n
<1> DEFINE U == {n \in 0..N : \A m \in T : m <= n}
<1>1. N \in U
  OBVIOUS
<1>2. PICK n \in U : \A m \in U : n <= m
  <2>1. U \in SUBSET Nat /\ U # {}
    BY <1>1
  <2> QED
    BY <2>1, LeastNumber
<1>3. n \in T
  <2> SUFFICES ASSUME n \notin T PROVE FALSE
    OBVIOUS
  <2>1. \A m \in T : m <= n - 1 /\ m \in Nat
    BY <1>2
  <2>2. n - 1 \in 0..N
    <3>1. PICK m \in T : TRUE
      OBVIOUS
    <3>2. m \in Nat /\ m <= n - 1 /\ n \in 0..N
      BY <2>1, <3>1, <1>2
    <3> QED
      BY <3>2
  <2>3. n - 1 \in U
    BY <2>1, <2>2
  <2> QED
    BY <2>3, <1>2
<1> QED
  BY <1>2, <1>3

\* How many numbers there are between two.
LEMMA RangeSize ==
    ASSUME NEW a \in Int, NEW b \in Int, b >= a - 1
    PROVE  IsFiniteSet(a..b) /\ Cardinality(a..b) = b - a + 1
<1>1. IsFiniteSet(a..b) /\ Cardinality(a..b) = IF a > b THEN 0 ELSE b - a + 1
  BY FS_Interval
<1> QED
  BY <1>1

\* Stamps and lines are numbers.
LEMMA NumberedLines == Ordered => \A m \in Lines : stamp[m] \in Nat /\ m \in Nat
  BY LogAssumption DEF Ordered, Lines

\* The engine stamps the output in the order it records it.
LEMMA OutputOrdered == LogInit /\ StreamsApart => Ordered
<1> SUFFICES ASSUME LogInit, StreamsApart PROVE Ordered
  OBVIOUS
<1> USE LogAssumption
<1>1. /\ stamp \in [Lines -> Lines] /\ stream \in [Lines -> Streams]
      /\ \A l \in Lines \ {1} : Follows(stamp, l)
  BY DEF LogInit
<1> DEFINE Fine(l, m) == stamp[l] <= stamp[m]
<1>2. ASSUME NEW l \in Lines PROVE \A m \in Lines : l <= m => Fine(l, m)
  <2> DEFINE T == {m \in Lines : l <= m /\ ~Fine(l, m)}
  <2> SUFFICES ASSUME T # {} PROVE FALSE
    OBVIOUS
  <2>1. T \in SUBSET Nat
    BY DEF Lines
  <2>2. PICK m \in T : \A n \in T : m <= n
    BY <2>1, LeastNumber
  <2>3. m \in Lines /\ l <= m /\ ~Fine(l, m)
    BY <2>2
  <2>4. l # m
    BY <2>3, <1>1 DEF Lines
  <2>5. m - 1 \in Lines /\ l <= m - 1 /\ m # 1
    BY <2>3, <2>4 DEF Lines
  <2>6. m - 1 \notin T
    BY <2>2, <2>5 DEF Lines
  <2>7. Fine(l, m - 1)
    BY <2>5, <2>6
  <2>8. Follows(stamp, m)
    BY <2>3, <2>5, <1>1
  <2>9. stamp[l] \in Nat /\ stamp[m] \in Nat /\ stamp[m - 1] \in Nat
    BY <2>3, <2>5, <1>1 DEF Lines
  <2> QED
    BY <2>3, <2>7, <2>8, <2>9 DEF Follows
<1> QED
  BY <1>1, <1>2 DEF Ordered, StreamsApart

\* The lines from a stamp on are the ones from some line on.
LEMMA FromStamp ==
    ASSUME Ordered, NEW at \in Nat
    PROVE  \E a \in 1..(MaxLines + 1) : \A l \in Lines : stamp[l] >= at <=> l >= a
<1> USE LogAssumption
<1> DEFINE T == {l \in Lines : stamp[l] >= at}
<1>1. \A l \in Lines : stamp[l] \in Nat /\ l \in Nat
  BY DEF Ordered, Lines
<1>2. CASE T = {}
  <2>1. \A l \in Lines : ~(stamp[l] >= at) /\ ~(l >= MaxLines + 1)
    BY <1>2 DEF Lines
  <2> QED
    BY <2>1
<1>3. CASE T # {}
  <2>1. T \in SUBSET Nat
    BY <1>1
  <2>2. PICK a \in T : \A l \in T : a <= l
    BY <1>3, <2>1, LeastNumber
  <2>3. ASSUME NEW l \in Lines PROVE stamp[l] >= at <=> l >= a
    <3>1. a \in Lines /\ stamp[a] >= at
      BY <2>2
    <3>2. ASSUME l >= a PROVE stamp[l] >= at
      <4>1. stamp[a] <= stamp[l]
        BY <3>1, <3>2 DEF Ordered
      <4> QED
        BY <4>1, <3>1, <1>1
    <3>3. ASSUME stamp[l] >= at PROVE l >= a
      BY <3>3, <2>2
    <3> QED
      BY <3>2, <3>3
  <2>4. a \in 1..(MaxLines + 1)
    BY <2>2 DEF Lines
  <2> QED
    BY <2>3, <2>4
<1> QED
  BY <1>2, <1>3

\* What one call keeps of a stream are its oldest lines: all of them, if it is not
\* capped, and otherwise at least one.
LEMMA KeptOfStream ==
    ASSUME NEW L \in SUBSET Lines, NEW s \in Streams
    PROVE  /\ Kept(L, s) \subseteq OfStream(L, s) /\ OfStream(L, s) \subseteq L
           /\ \A l \in Kept(L, s), m \in OfStream(L, s) : m <= l => m \in Kept(L, s)
           /\ ~Capped(L, s) => Kept(L, s) = OfStream(L, s)
           /\ Capped(L, s) => \E k \in Kept(L, s) : \A m \in Kept(L, s) : m <= k
<1> USE LogAssumption
<1> DEFINE O == OfStream(L, s)
<1> DEFINE Upto(l) == {m \in O : m <= l}
<1>k. Kept(L, s) = {l \in O : Cardinality(Upto(l)) <= Cap}
  BY DEF Kept, Oldest
<1>o. /\ O \subseteq L /\ O \in SUBSET Lines /\ O \in SUBSET Nat
      /\ \A l \in O : l \in Nat /\ 1 <= l /\ l <= MaxLines
  <2>1. O \subseteq L
    BY DEF OfStream
  <2>2. \A l \in Lines : l \in Nat /\ 1 <= l /\ l <= MaxLines
    BY DEF Lines
  <2> HIDE DEF O
  <2> QED
    BY <2>1, <2>2
<1>c. Capped(L, s) <=> Cardinality(O) > Cap
  BY DEF Capped
<1> HIDE DEF O
<1>f. IsFiniteSet(O) /\ Cardinality(O) \in Nat
  <2>1. IsFiniteSet(Lines)
    BY FS_Interval DEF Lines
  <2> QED
    BY <2>1, <1>o, FS_Subset, FS_CardinalityType
<1>u. \A l : IsFiniteSet(Upto(l)) /\ Cardinality(Upto(l)) \in Nat /\ Cardinality(Upto(l)) <= Cardinality(O)
  <2> TAKE l
  <2>1. Upto(l) \in SUBSET O
    OBVIOUS
  <2> QED
    BY <2>1, <1>f, FS_Subset, FS_CardinalityType
<1>1. ASSUME NEW l \in Kept(L, s), NEW m \in O, m <= l PROVE m \in Kept(L, s)
  <2>1. Upto(m) \in SUBSET Upto(l)
    <3>1. l \in Nat /\ m \in Nat
      BY <1>o, <1>k
    <3>2. \A n \in O : n <= m => n <= l
      BY <3>1, <1>1, <1>o
    <3> QED
      BY <3>2
  <2>2. Cardinality(Upto(m)) <= Cardinality(Upto(l)) /\ Cardinality(Upto(l)) <= Cap
    BY <2>1, <1>u, <1>k, FS_Subset
  <2>3. Cardinality(Upto(m)) \in Nat /\ Cardinality(Upto(l)) \in Nat /\ Cap \in Nat
    BY <1>u
  <2> HIDE DEF Upto
  <2>4. Cardinality(Upto(m)) <= Cap
    BY <2>2, <2>3
  <2> QED
    BY <2>4, <1>k
<1>2. ASSUME ~Capped(L, s) PROVE Kept(L, s) = O
  <2>1. ASSUME NEW l \in O PROVE Cardinality(Upto(l)) <= Cap
    <3>1. Cardinality(Upto(l)) \in Nat /\ Cardinality(Upto(l)) <= Cardinality(O) /\ Cardinality(O) <= Cap
      BY <1>2, <1>c, <1>u, <1>f
    <3> HIDE DEF Upto
    <3> QED
      BY <3>1, <1>f
  <2> HIDE DEF Upto
  <2> QED
    BY <2>1, <1>k
<1>3. ASSUME Capped(L, s) PROVE \E k \in Kept(L, s) : \A m \in Kept(L, s) : m <= k
  <2>1. O # {}
    BY <1>3, <1>c, <1>f, FS_EmptySet
  <2>2. PICK l \in O : \A m \in O : l <= m
    BY <2>1, <1>o, LeastNumber
  <2>3. Upto(l) = {l}
    <3>1. \A m \in O : m <= l <=> m = l
      BY <2>2, <1>o
    <3> QED
      BY <3>1
  <2>4. Cardinality(Upto(l)) = 1
    BY <2>3, FS_Singleton
  <2>5. l \in Kept(L, s)
    BY <2>4, <1>k
  <2>6. Kept(L, s) \in SUBSET (0..MaxLines) /\ MaxLines \in Nat
    <3>1. Kept(L, s) \subseteq O
      BY <1>k
    <3>2. \A m \in O : m \in 0..MaxLines
      BY <1>o
    <3> QED
      BY <3>1, <3>2
  <2> QED
    BY <2>5, <2>6, HighestNumber
<1> QED
  BY <1>1, <1>2, <1>3, <1>k, <1>o DEF O

\* A line is whole if its stream kept it and no capped stream ends before it.
LEMMA WholeLines ==
    ASSUME NEW L \in SUBSET Lines, NEW l
    PROVE  l \in Whole(L) <=>
              /\ \E s \in Streams : l \in Kept(L, s)
              /\ \A s \in Streams : Capped(L, s) => \A k \in Newest(Kept(L, s)) : stamp[l] <= stamp[k]
<1>1. l \in Whole(L) <=> /\ \E s \in Streams : l \in Kept(L, s)
                         /\ \A c \in Cuts(L) : stamp[l] <= c
  BY DEF Whole
<1>2. \A c : c \in Cuts(L) <=> \E s \in Streams : Capped(L, s) /\ \E k \in Newest(Kept(L, s)) : c = stamp[k]
  BY DEF Cuts
<1> QED
  BY <1>1, <1>2

\* No line before a whole one is left out.
LEMMA WholeFromFirst ==
    ASSUME Ordered, NEW L \in SUBSET Lines, NEW l \in Whole(L), NEW m \in L, m <= l
    PROVE  m \in Whole(L) /\ l \in L
<1> USE LogAssumption
<1>1. PICK s \in Streams : l \in Kept(L, s)
  BY WholeLines
<1>2. l \in L /\ stream[l] = s /\ l \in Lines /\ m \in Lines
  BY <1>1, KeptOfStream DEF OfStream
<1>3. stamp[m] <= stamp[l] /\ (stamp[m] = stamp[l] => stream[m] = s)
  BY <1>2 DEF Ordered
<1>4. stream[m] \in Streams /\ m \in OfStream(L, stream[m])
  BY <1>2 DEF Ordered, OfStream
<1>n. \A n \in Lines : stamp[n] \in Nat /\ n \in Nat
  BY DEF Ordered, Lines
<1>5. m \in Kept(L, stream[m])
  <2>1. CASE stream[m] = s
    BY <2>1, <1>1, <1>4, KeptOfStream
  <2>2. CASE ~Capped(L, stream[m])
    BY <2>2, <1>4, KeptOfStream
  <2>3. CASE stream[m] # s /\ Capped(L, stream[m])
    <3>1. PICK k \in Kept(L, stream[m]) : \A n \in Kept(L, stream[m]) : n <= k
      BY <2>3, <1>4, KeptOfStream
    <3>2. k \in Newest(Kept(L, stream[m]))
      BY <3>1 DEF Newest
    <3>3. stamp[l] <= stamp[k]
      BY <3>2, <2>3, <1>4, WholeLines
    <3>4. k \in OfStream(L, stream[m]) /\ k \in Lines
      BY <3>1, <1>4, KeptOfStream
    <3>5. m <= k
      <4> SUFFICES ASSUME k <= m PROVE FALSE
        BY <3>4, <1>2, <1>n
      <4>1. stamp[k] <= stamp[m]
        BY <3>4, <1>2 DEF Ordered
      <4>2. stamp[m] = stamp[l]
        BY <4>1, <3>3, <3>4, <1>2, <1>3, <1>n
      <4> QED
        BY <4>2, <1>3, <2>3
    <3> QED
      BY <3>1, <3>5, <1>4, KeptOfStream
  <2> QED
    BY <2>1, <2>2, <2>3
<1>6. ASSUME NEW t \in Streams, Capped(L, t), NEW k \in Newest(Kept(L, t)) PROVE stamp[m] <= stamp[k]
  <2>1. stamp[l] <= stamp[k]
    BY <1>6, WholeLines
  <2>2. k \in Lines
    BY <1>6, KeptOfStream DEF Newest
  <2> QED
    BY <2>1, <2>2, <1>2, <1>3, <1>n
<1> QED
  BY <1>2, <1>4, <1>5, <1>6, WholeLines

\* The whole lines from a stamp on are consecutive.
LEMMA WholeConsecutive ==
    ASSUME Ordered, printed \in 0..MaxLines, NEW at, NEW a \in 1..(MaxLines + 1),
           \A l \in Lines : stamp[l] >= at <=> l >= a
    PROVE  \E b \in Nat : /\ b >= a - 1 /\ (b <= printed \/ b = a - 1)
                          /\ Whole(Since(at)) = a..b
<1> USE LogAssumption
<1> DEFINE L == Since(at)
<1> DEFINE W == Whole(L)
<1>1. L \in SUBSET Lines /\ \A l : l \in L <=> l \in Lines /\ l <= printed /\ l >= a
  BY DEF Since, Lines
<1>2. \A l \in W, m \in L : m <= l => m \in W /\ l \in L
  BY <1>1, WholeFromFirst
<1>3. W \subseteq L
  <2> SUFFICES ASSUME NEW l \in W PROVE l \in L
    OBVIOUS
  <2>1. PICK s \in Streams : l \in Kept(L, s)
    BY <1>1, WholeLines
  <2> QED
    BY <2>1, <1>1, KeptOfStream
<1> HIDE DEF L, W
<1>4. CASE W = {}
  <2>1. a - 1 \in Nat /\ a..(a - 1) = {}
    OBVIOUS
  <2> QED
    BY <2>1, <1>4 DEF W, L
<1>5. CASE W # {}
  <2>1. W \in SUBSET (0..MaxLines) /\ MaxLines \in Nat
    BY <1>1, <1>3 DEF Lines
  <2>2. PICK b \in W : \A m \in W : m <= b
    BY <1>5, <2>1, HighestNumber
  <2>3. b \in L /\ b \in Nat /\ b <= printed /\ b >= a /\ b \in Lines
    BY <2>2, <1>1, <1>3 DEF Lines
  <2>4. ASSUME NEW l \in a..b PROVE l \in W
    <3>1. l \in L /\ l <= b
      BY <2>3, <1>1 DEF Lines
    <3> QED
      BY <3>1, <2>2, <1>2
  <2>5. ASSUME NEW l \in W PROVE l \in a..b
    BY <2>2, <2>3, <1>1, <1>3 DEF Lines
  <2>6. W = a..b
    BY <2>4, <2>5
  <2> QED
    BY <2>3, <2>6 DEF W, L
<1> QED
  BY <1>4, <1>5

\* The first lines from a stamp on, if they have that stamp and are no more than
\* the cap, are whole.
LEMMA FirstAreWhole ==
    ASSUME Ordered, printed \in 0..MaxLines, NEW at, NEW a \in 1..(MaxLines + 1),
           \A l \in Lines : stamp[l] >= at <=> l >= a,
           NEW n \in 0..Cap, a + n - 1 <= printed, \A l \in a..(a + n - 1) : stamp[l] = at
    PROVE  a..(a + n - 1) \subseteq Whole(Since(at))
<1> USE LogAssumption
<1> SUFFICES ASSUME NEW l \in a..(a + n - 1) PROVE l \in Whole(Since(at))
  OBVIOUS
<1> DEFINE L == Since(at)
<1>1. L \in SUBSET Lines /\ \A m : m \in L <=> m \in Lines /\ m <= printed /\ m >= a
  BY DEF Since, Lines
<1>2. l \in L /\ l \in Lines /\ stamp[l] = at
  BY <1>1 DEF Lines
<1>n. \A m \in Lines : stamp[m] \in Nat /\ m \in Nat
  BY NumberedLines
<1> HIDE DEF L
<1> DEFINE s == stream[l]
<1> DEFINE O == OfStream(L, s)
<1>3. s \in Streams
  BY <1>2 DEF Ordered
<1>4. l \in Kept(L, s)
  <2>1. l \in O
    BY <1>2 DEF OfStream
  <2>2. {m \in O : m <= l} \in SUBSET (a..l)
    <3>1. \A m \in O : m \in L
      BY DEF OfStream
    <3>2. \A m \in L : m \in Nat /\ m >= a
      BY <1>1, <1>n
    <3> QED
      BY <3>1, <3>2
  <2>3. IsFiniteSet(a..l) /\ Cardinality(a..l) = l - a + 1
    <3>1. a \in Int /\ l \in Int /\ l >= a - 1
      OBVIOUS
    <3> QED
      BY <3>1, RangeSize
  <2>4. Cardinality({m \in O : m <= l}) <= Cardinality(a..l) /\ IsFiniteSet({m \in O : m <= l})
    BY <2>2, <2>3, FS_Subset
  <2>5. Cardinality({m \in O : m <= l}) \in Nat
    BY <2>4, FS_CardinalityType
  <2>6. l - a + 1 <= Cap
    OBVIOUS
  <2>7. Cardinality({m \in O : m <= l}) <= Cap
    BY <2>3, <2>4, <2>5, <2>6
  <2> QED
    BY <2>1, <2>7 DEF Kept, Oldest
<1>5. ASSUME NEW t \in Streams, NEW k \in Newest(Kept(L, t)) PROVE stamp[l] <= stamp[k]
  <2>1. k \in L /\ k \in Lines
    BY <1>1, KeptOfStream DEF Newest
  <2>2. stamp[k] >= at
    BY <2>1, <1>1
  <2> QED
    BY <2>1, <2>2, <1>2, <1>n
<1> QED
  BY <1>1, <1>3, <1>4, <1>5, WholeLines DEF L

\* Whole lines with one stamp are no more than the cap.
LEMMA OneStampWithinCap ==
    ASSUME Ordered, NEW L \in SUBSET Lines, NEW a \in Lines, NEW b \in Lines, a <= b,
           a..b \subseteq Whole(L), stamp[a] = stamp[b]
    PROVE  b - a + 1 <= Cap
<1> USE LogAssumption
<1>n. \A m \in Lines : stamp[m] \in Nat /\ m \in Nat
  BY NumberedLines
<1>1. b \in Whole(L)
  BY <1>n
<1>2. PICK s \in Streams : b \in Kept(L, s)
  BY <1>1, WholeLines
<1> DEFINE Upto == {m \in OfStream(L, s) : m <= b}
<1>3. b \in OfStream(L, s) /\ Cardinality(Upto) <= Cap
  BY <1>2 DEF Kept, Oldest
<1>4. ASSUME NEW l \in a..b PROVE l \in Upto
  <2>1. l \in Nat /\ l \in Lines /\ a <= l /\ l <= b /\ l \in Whole(L)
    BY <1>4 DEF Lines
  <2>2. stamp[a] <= stamp[l] /\ stamp[l] <= stamp[b]
    BY <2>1 DEF Ordered
  <2>3. stamp[l] = stamp[b]
    BY <2>1, <2>2, <1>n
  <2>4. stream[l] = s
    BY <2>1, <2>3, <1>3 DEF Ordered, OfStream
  <2>5. l \in L
    <3>1. PICK t \in Streams : l \in Kept(L, t)
      BY <2>1, WholeLines
    <3> QED
      BY <3>1, KeptOfStream
  <2> QED
    BY <2>1, <2>4, <2>5 DEF OfStream
<1>5. IsFiniteSet(Upto)
  <2>1. Upto \in SUBSET Lines
    BY DEF OfStream
  <2>2. IsFiniteSet(Lines)
    BY FS_Interval DEF Lines
  <2> QED
    BY <2>1, <2>2, FS_Subset
<1>6. a..b \in SUBSET Upto
  BY <1>4
<1>7. Cardinality(a..b) <= Cardinality(Upto) /\ Cardinality(Upto) \in Nat
  BY <1>5, <1>6, FS_Subset, FS_CardinalityType
<1>8. Cardinality(a..b) = b - a + 1
  BY <1>n, FS_Interval
<1> QED
  BY <1>3, <1>7, <1>8, <1>n

\* Merging gives back the order in which the engine recorded the lines.
LEMMA MergedInOrder ==
    ASSUME Ordered, NEW L, NEW a \in Nat \ {0}, NEW b \in Nat, b >= a - 1,
           b <= MaxLines \/ b = a - 1, Whole(L) = a..b
    PROVE  Merged(L) = [i \in 1..(b - a + 1) |-> a + i - 1]
<1> USE LogAssumption
<1>1. Cardinality(a..b) = b - a + 1
  <2>1. a \in Int /\ b \in Int
    OBVIOUS
  <2> QED
    BY <2>1, RangeSize
<1>2. \A l, m \in a..b : Precedes(m, l) <=> m < l
  <2> TAKE l, m \in a..b
  <2>1. l \in Lines /\ m \in Lines /\ l \in Nat /\ m \in Nat
    BY DEF Lines
  <2>2. stamp[l] \in Nat /\ stamp[m] \in Nat
    BY <2>1 DEF Ordered, Lines
  <2>3. CASE m < l
    <3>1. stamp[m] <= stamp[l] /\ (stamp[m] = stamp[l] => stream[m] = stream[l])
      BY <2>1, <2>3 DEF Ordered
    <3> QED
      BY <3>1, <2>2, <2>3 DEF Precedes
  <2>4. CASE l <= m
    <3>1. stamp[l] <= stamp[m] /\ (stamp[m] = stamp[l] => stream[m] = stream[l])
      BY <2>1, <2>4 DEF Ordered
    <3> QED
      BY <3>1, <2>1, <2>2, <2>4 DEF Precedes
  <2> QED
    BY <2>1, <2>3, <2>4
<1>3. \A l \in a..b : Place(l, a..b) = l - a + 1
  <2> TAKE l \in a..b
  <2>1. {m \in a..b : Precedes(m, l)} = a..(l - 1)
    <3>1. {m \in a..b : Precedes(m, l)} = {m \in a..b : m < l}
      BY <1>2
    <3>2. {m \in a..b : m < l} = a..(l - 1)
      OBVIOUS
    <3> QED
      BY <3>1, <3>2
  <2>2. Cardinality(a..(l - 1)) = l - a
    BY FS_Interval
  <2> QED
    BY <2>1, <2>2 DEF Place
<1>4. ASSUME NEW i \in 1..(b - a + 1) PROVE (CHOOSE l \in a..b : Place(l, a..b) = i) = a + i - 1
  <2>1. a + i - 1 \in a..b /\ Place(a + i - 1, a..b) = i
    BY <1>3
  <2>2. \A l \in a..b : Place(l, a..b) = i => l = a + i - 1
    BY <1>3
  <2> QED
    BY <2>1, <2>2
<1> QED
  BY <1>1, <1>4 DEF Merged

\* The cursor's stamp begins at line a, and so many lines of it were copied.
CursorAt(c, a) ==
    /\ c.at \in Nat /\ c.lines \in 0..Cap
    /\ \A l \in Lines : stamp[l] >= c.at <=> l >= a
    /\ a + c.lines - 1 <= printed
    /\ \A l \in a..(a + c.lines - 1) : stamp[l] = c.at

\* What a call brings that was not copied before.
LEMMA OneCall ==
    ASSUME Ordered, printed \in 0..MaxLines, NEW c, NEW a \in 1..(MaxLines + 1), CursorAt(c, a)
    PROVE  \E b \in Nat :
              /\ b >= a + c.lines - 1 /\ (b <= printed \/ b = a - 1)
              /\ a..b = Whole(Since(c.at))
              /\ Merged(Since(c.at)) = [i \in 1..(b - a + 1) |-> a + i - 1]
              /\ LET new == Unseen(Merged(Since(c.at)), c) IN
                    /\ new \in Seq(Nat) /\ Len(new) = b - (a + c.lines) + 1
                    /\ \A i \in 1..Len(new) : new[i] = a + c.lines + i - 1
<1> USE LogAssumption
<1>0. /\ c.at \in Nat /\ c.lines \in 0..Cap
      /\ \A l \in Lines : stamp[l] >= c.at <=> l >= a
      /\ a + c.lines - 1 <= printed
      /\ \A l \in a..(a + c.lines - 1) : stamp[l] = c.at
  BY DEF CursorAt
<1> USE <1>0
<1>1. PICK b \in Nat : /\ b >= a - 1 /\ (b <= printed \/ b = a - 1)
                       /\ Whole(Since(c.at)) = a..b
  BY WholeConsecutive
<1>2. a..(a + c.lines - 1) \subseteq a..b
  BY <1>1, FirstAreWhole
<1>3. b >= a + c.lines - 1
  <2>1. CASE c.lines = 0
    BY <2>1, <1>1
  <2>2. CASE c.lines # 0
    <3>1. a + c.lines - 1 \in a..(a + c.lines - 1)
      BY <2>2
    <3> QED
      BY <3>1, <1>2
  <2> QED
    BY <2>1, <2>2
<1> DEFINE s == Merged(Since(c.at))
<1> DEFINE N == b - a + 1
<1>4. s = [i \in 1..N |-> a + i - 1]
  <2>1. a \in Nat \ {0} /\ (b <= MaxLines \/ b = a - 1)
    BY <1>1
  <2> DEFINE L == Since(c.at)
  <2>2. Whole(L) = a..b /\ b >= a - 1
    BY <1>1
  <2> HIDE DEF L
  <2>3. Merged(L) = [i \in 1..(b - a + 1) |-> a + i - 1]
    BY <2>1, <2>2, MergedInOrder
  <2> QED
    BY <2>3 DEF L
<1> HIDE DEF s
<1>5. N \in Nat /\ DOMAIN s = 1..N /\ s \in Seq(Nat) /\ Len(s) = N /\ \A i \in 1..N : s[i] = a + i - 1
  <2>1. N \in Nat /\ DOMAIN s = 1..N /\ \A i \in 1..N : s[i] = a + i - 1 /\ s[i] \in Nat
    BY <1>1, <1>4
  <2>2. s \in Seq(Nat) /\ Len(s) = N
    BY <2>1, <1>4
  <2> QED
    BY <2>1, <2>2
<1>6. \A i \in 1..N : s[i] \in Lines /\ s[i] >= a /\ stamp[s[i]] \in Nat /\ stamp[s[i]] >= c.at
  <2> TAKE i \in 1..N
  <2>1. s[i] \in Lines /\ s[i] >= a
    <3>1. s[i] = a + i - 1 /\ i >= 1 /\ i <= b - a + 1 /\ i \in Nat
      BY <1>5
    <3>2. b <= printed
      BY <3>1, <1>1
    <3>3. a + i - 1 \in 1..MaxLines /\ a + i - 1 >= a
      BY <3>1, <3>2, <1>1
    <3> QED
      BY <3>1, <3>3 DEF Lines
  <2>2. stamp[s[i]] \in Nat
    BY <2>1 DEF Ordered, Lines
  <2> QED
    BY <2>1, <2>2
<1>7. Cardinality({i \in DOMAIN s : stamp[s[i]] < c.at}) = 0
  <2>1. {i \in DOMAIN s : stamp[s[i]] < c.at} = {}
    <3>1. ASSUME NEW i \in DOMAIN s PROVE ~(stamp[s[i]] < c.at)
      <4>1. stamp[s[i]] \in Nat /\ stamp[s[i]] >= c.at
        BY <1>5, <1>6
      <4> QED
        BY <4>1
    <3> QED
      BY <3>1
  <2> QED
    BY <2>1, FS_EmptySet
<1>8. LinesAt(s, c.at) \in Nat /\ LinesAt(s, c.at) >= c.lines
  <2> DEFINE A == {i \in DOMAIN s : stamp[s[i]] = c.at}
  <2>1. 1..c.lines \in SUBSET A
    <3>1. ASSUME NEW i \in 1..c.lines PROVE i \in A
      <4>1. i \in 1..N /\ s[i] = a + i - 1
        BY <1>3, <1>5
      <4>2. a + i - 1 \in a..(a + c.lines - 1)
        OBVIOUS
      <4>3. stamp[a + i - 1] = c.at
        BY ONLY <1>0, <4>2
      <4>4. i \in DOMAIN s /\ stamp[s[i]] = c.at
        BY ONLY <4>1, <4>3, <1>5
      <4> QED
        BY ONLY <4>4
    <3> QED
      BY <3>1
  <2>2. IsFiniteSet(1..N) /\ A \in SUBSET (1..N)
    BY <1>5, FS_Interval
  <2>3. IsFiniteSet(A) /\ Cardinality(A) \in Nat
    BY <2>2, FS_Subset, FS_CardinalityType
  <2>4. Cardinality(1..c.lines) <= Cardinality(A)
    BY <2>1, <2>3, FS_Subset
  <2>5. Cardinality(1..c.lines) = c.lines
    <3>1. 1 \in Int /\ c.lines \in Int /\ c.lines >= 1 - 1
      OBVIOUS
    <3>2. Cardinality(1..c.lines) = c.lines - 1 + 1
      BY <3>1, RangeSize
    <3> QED
      BY <3>1, <3>2
  <2> QED
    BY <2>3, <2>4, <2>5 DEF LinesAt
<1>9. Unseen(s, c) = SubSeq(s, c.lines + 1, N)
  <2> DEFINE again == LinesAt(s, c.at)
  <2> DEFINE skip == 0 + (IF again < c.lines THEN again ELSE c.lines)
  <2>1. skip = c.lines
    BY <1>8
  <2>2. Unseen(s, c) = SubSeq(s, skip + 1, Len(s))
    BY <1>7 DEF Unseen
  <2> QED
    BY <2>1, <2>2, <1>5
<1>10. /\ Unseen(s, c) \in Seq(Nat) /\ Len(Unseen(s, c)) = b - (a + c.lines) + 1
       /\ \A i \in 1..Len(Unseen(s, c)) : Unseen(s, c)[i] = a + c.lines + i - 1
  <2>1. c.lines + 1 \in Int /\ N \in Int /\ \A i \in (c.lines + 1)..N : s[i] \in Nat
    <3>1. \A i \in (c.lines + 1)..N : i \in 1..N
      OBVIOUS
    <3>2. \A i \in 1..N : s[i] \in Nat
      BY <1>5
    <3> QED
      BY <3>1, <3>2, <1>5
  <2>2. /\ SubSeq(s, c.lines + 1, N) \in Seq(Nat)
        /\ Len(SubSeq(s, c.lines + 1, N)) = IF c.lines + 1 <= N THEN N - (c.lines + 1) + 1 ELSE 0
        /\ \A i \in 1..(N - (c.lines + 1) + 1) : SubSeq(s, c.lines + 1, N)[i] = s[c.lines + 1 + i - 1]
    BY <2>1, SubSeqProperties
  <2>3. Len(SubSeq(s, c.lines + 1, N)) = b - (a + c.lines) + 1
    BY <2>2, <1>3
  <2>4. ASSUME NEW i \in 1..(b - (a + c.lines) + 1)
        PROVE  SubSeq(s, c.lines + 1, N)[i] = a + c.lines + i - 1
    <3>1. c.lines + 1 + i - 1 \in 1..N /\ i \in 1..(N - (c.lines + 1) + 1)
      OBVIOUS
    <3>2. SubSeq(s, c.lines + 1, N)[i] = s[c.lines + 1 + i - 1]
      BY <3>1, <2>2
    <3>3. s[c.lines + 1 + i - 1] = a + (c.lines + 1 + i - 1) - 1
      BY <3>1, <1>5
    <3> QED
      BY <3>2, <3>3
  <2> QED
    BY <2>2, <2>3, <2>4, <1>9
<1> QED
  BY <1>1, <1>3, <1>4, <1>10 DEF s

\* The cursor after a call is at the newest line that it brought.
LEMMA CursorMoves ==
    ASSUME Ordered, printed \in 0..MaxLines, NEW c, NEW a \in 1..(MaxLines + 1), CursorAt(c, a),
           NEW b \in Nat, b >= a + c.lines - 1, b <= printed \/ b = a - 1,
           a..b = Whole(Since(c.at)), NEW s, s = [i \in 1..(b - a + 1) |-> a + i - 1]
    PROVE  \E d \in 1..(MaxLines + 1) :
              CursorAt(CursorAfter(s, c), d) /\ d + CursorAfter(s, c).lines = b + 1
<1> USE LogAssumption
<1>0. c.lines \in 0..Cap /\ c.at \in Nat /\ b - a + 1 \in Nat
  BY DEF CursorAt
<1>1. DOMAIN s = 1..(b - a + 1) /\ s \in Seq(Nat) /\ Len(s) = b - a + 1
  <2>1. DOMAIN s = 1..(b - a + 1) /\ \A i \in 1..(b - a + 1) : s[i] \in Nat
    OBVIOUS
  <2> QED
    BY <2>1, <1>0
<1>2. CASE b = a - 1
  <2>1. s = <<>>
    BY <1>2, <1>1
  <2>2. CursorAfter(s, c) = c /\ c.lines = 0
    BY <2>1, <1>0, <1>2 DEF CursorAfter
  <2> QED
    BY <2>2, <1>2
<1>3. CASE b # a - 1
  <2>1. b >= a /\ b <= printed /\ b \in Lines /\ a \in Lines
    BY <1>0, <1>3 DEF Lines
  <2>2. s # <<>> /\ s[Len(s)] = b
    BY <2>1, <1>1
  <2> DEFINE at == stamp[b]
  <2> DEFINE new == CursorAfter(s, c)
  <2>3. new.at = at /\ new.lines = LinesAt(s, at)
    BY <2>2 DEF CursorAfter
  <2>n. \A m \in Lines : stamp[m] \in Nat /\ m \in Nat
    BY NumberedLines
  <2>4. at \in Nat
    BY <2>1, <2>n
  <2>5. PICK d \in 1..(MaxLines + 1) : \A l \in Lines : stamp[l] >= at <=> l >= d
    BY <2>4, FromStamp
  <2>6. d <= b
    BY <2>1, <2>4, <2>5
  <2>7. a <= d
    <3>1. d \in Lines
      BY <2>1, <2>6 DEF Lines
    <3>2. stamp[d] >= at /\ at >= c.at
      BY <3>1, <2>1, <2>5 DEF CursorAt
    <3>3. stamp[d] >= c.at
      BY <3>1, <3>2, <2>4, <2>n, <1>0
    <3> QED
      BY <3>1, <3>3 DEF CursorAt
  <2>8. ASSUME NEW l \in d..b PROVE stamp[l] = at
    <3>1. l \in Lines /\ l >= d /\ l <= b
      BY <2>1 DEF Lines
    <3>2. stamp[l] >= at /\ stamp[l] <= at
      BY <3>1, <2>1, <2>5 DEF Ordered
    <3> QED
      BY <3>1, <3>2, <2>n, <2>4
  <2>9. LinesAt(s, at) = b - d + 1
    <3>1. {i \in DOMAIN s : stamp[s[i]] = at} = (d - a + 1)..(b - a + 1)
      <4>1. ASSUME NEW i \in 1..(b - a + 1) PROVE stamp[s[i]] = at <=> i >= d - a + 1
        <5>1. s[i] = a + i - 1 /\ a + i - 1 \in Lines /\ a + i - 1 <= b
          BY <2>1 DEF Lines
        <5>2. CASE i >= d - a + 1
          <6>1. a + i - 1 \in d..b
            BY <5>1, <5>2
          <6> QED
            BY <6>1, <5>1, <5>2, <2>8
        <5>3. CASE ~(i >= d - a + 1)
          <6>1. ~(a + i - 1 >= d)
            BY <5>3
          <6>2. ~(stamp[a + i - 1] >= at)
            BY <6>1, <5>1, <2>5
          <6> QED
            BY <6>2, <5>1, <5>3, <2>4
        <5> QED
          BY <5>2, <5>3
      <4>2. \A i \in (d - a + 1)..(b - a + 1) : i \in 1..(b - a + 1) /\ i >= d - a + 1
        BY <2>7
      <4>3. \A i \in 1..(b - a + 1) : i >= d - a + 1 => i \in (d - a + 1)..(b - a + 1)
        BY <2>7
      <4> QED
        BY <4>1, <4>2, <4>3, <1>1
    <3>2. d - a + 1 \in Int /\ b - a + 1 \in Int /\ b - a + 1 >= (d - a + 1) - 1
      BY <2>6
    <3>3. Cardinality((d - a + 1)..(b - a + 1)) = (b - a + 1) - (d - a + 1) + 1
      BY <3>2, RangeSize
    <3>4. Cardinality((d - a + 1)..(b - a + 1)) = b - d + 1
      BY <3>3
    <3> QED
      BY <3>1, <3>4 DEF LinesAt
  <2>10. b - d + 1 <= Cap
    <3>1. d \in Lines /\ stamp[d] = stamp[b]
      BY <2>1, <2>6, <2>8 DEF Lines
    <3>2. Since(c.at) \in SUBSET Lines
      BY DEF Since, Lines
    <3>3. d..b \subseteq Whole(Since(c.at))
      BY <2>7
    <3> QED
      BY <3>1, <3>2, <3>3, <2>1, <2>6, OneStampWithinCap
  <2> HIDE DEF new, at
  <2>11. new.lines = b - d + 1 /\ new.at = at
    BY <2>3, <2>9
  <2>12. new.lines \in 0..Cap /\ d + new.lines - 1 = b /\ d + new.lines = b + 1
    BY <2>11, <2>10, <2>6
  <2>13. CursorAt(new, d)
    BY <2>4, <2>5, <2>8, <2>11, <2>12, <2>1 DEF CursorAt
  <2> QED
    BY <2>12, <2>13 DEF new
<1> QED
  BY <1>2, <1>3

\* Where the file ends is where the cursor is: at the next line to copy.
AtEnd(a) ==
    /\ file = <<>> => a + cursor.lines <= first
    /\ file # <<>> => file[Len(file)] + 1 = a + cursor.lines
    /\ \A x \in spilt : x.after = Len(file) => a + cursor.lines <= x.line

OnceInOrder ==
    file # <<>> => /\ file[1] <= first
                   /\ \A i \in 1..(Len(file) - 1) : file[i + 1] = file[i] + 1

SpiltAnew ==
    \A x \in spilt :
        /\ x.after \in 0..Len(file) /\ x.line \in Nat \ {0}
        /\ x.after > 0 => file[x.after] < x.line
        /\ x.after < Len(file) => file[x.after + 1] <= x.line

CopyInv ==
    /\ Ordered /\ printed \in 0..MaxLines
    /\ ~replayed =>
          /\ first \in Nat /\ file \in Seq(Nat)
          /\ begin = "from now" => cursor = NoCursor /\ file = <<>> /\ spilt = {}
          /\ cursor # NoCursor => \E a \in 1..(MaxLines + 1) : CursorAt(cursor, a) /\ AtEnd(a)
          /\ OnceInOrder /\ SpiltAnew

\* Nothing is copied at the start.
LEMMA InitCopy == LogInit /\ StreamsApart => CopyInv
<1> SUFFICES ASSUME LogInit, StreamsApart PROVE CopyInv
  OBVIOUS
<1>1. Ordered
  BY OutputOrdered
<1>2. printed \in 0..MaxLines
  <2>1. printed \in {0, 1}
    BY Zenon DEF LogInit
  <2> QED
    BY <2>1, LogAssumption
<1>3. first = 1 /\ cursor = NoCursor /\ file = <<>> /\ spilt = {}
  BY Zenon DEF LogInit
<1>4. first \in Nat /\ file \in Seq(Nat)
  BY <1>3
<1> QED
  BY <1>1, <1>2, <1>3, <1>4 DEF CopyInv, OnceInOrder, SpiltAnew

\* A step that leaves the copied lines alone.
LEMMA KeepElsewhere ==
    ASSUME CopyInv, UNCHANGED <<Output, begin, file, spilt, first, replayed>>,
           UNCHANGED cursor \/ cursor' = NoCursor,
           printed' \in 0..MaxLines, printed <= printed'
    PROVE  CopyInv'
<1>1. Ordered'
  BY DEF CopyInv, Ordered, Output
<1>2. ASSUME ~replayed, cursor' # NoCursor
      PROVE  \E a \in 1..(MaxLines + 1) : CursorAt(cursor, a)' /\ AtEnd(a)'
  <2>1. cursor' = cursor
    BY <1>2
  <2>2. PICK a \in 1..(MaxLines + 1) : CursorAt(cursor, a) /\ AtEnd(a)
    BY <1>2, <2>1 DEF CopyInv
  <2>3. a + cursor.lines - 1 <= printed'
    <3>1. a + cursor.lines - 1 <= printed /\ cursor.lines \in 0..Cap
      BY <2>2 DEF CursorAt
    <3>2. printed \in 0..MaxLines
      BY DEF CopyInv
    <3> QED
      BY <3>1, <3>2, LogAssumption
  <2>4. CursorAt(cursor, a)'
    BY <2>1, <2>2, <2>3 DEF CursorAt, Output
  <2>5. AtEnd(a)'
    BY <2>1, <2>2 DEF AtEnd
  <2> QED
    BY <2>4, <2>5
<1>3. (OnceInOrder => OnceInOrder') /\ (SpiltAnew => SpiltAnew')
  BY DEF OnceInOrder, SpiltAnew
<1>4. begin' = "from now" /\ ~replayed => cursor' = NoCursor' /\ spilt' = {}
  BY DEF CopyInv, NoCursor
<1>5. NoCursor' = NoCursor
  BY DEF NoCursor
<1> QED
  BY <1>1, <1>2, <1>3, <1>4, <1>5 DEF CopyInv

\* A container seen for the first time starts before the first line to copy; one that
\* is started again is replayed.
LEMMA KeepStart == CopyInv /\ StartCopying => CopyInv'
<1> SUFFICES ASSUME CopyInv, StartCopying PROVE CopyInv'
  OBVIOUS
<1> USE LogAssumption
<1>1. /\ Ordered /\ Ordered' /\ printed \in 0..MaxLines /\ printed' = printed
      /\ begin' = "all" /\ file' = file /\ spilt' = spilt /\ UNCHANGED Output /\ NoCursor' = NoCursor
      /\ replayed => replayed'
  <2>1. replayed => replayed'
    BY Zenon DEF StartCopying
  <2>2. Ordered /\ printed \in 0..MaxLines
    BY DEF CopyInv
  <2>3. printed' = printed /\ begin' = "all" /\ file' = file /\ spilt' = spilt /\ UNCHANGED Output
    BY DEF StartCopying
  <2>4. Ordered' /\ NoCursor' = NoCursor
    BY <2>2, <2>3 DEF Ordered, Output, NoCursor
  <2> QED
    BY <2>1, <2>2, <2>3, <2>4
<1> SUFFICES ASSUME ~replayed'
             PROVE  /\ first' \in Nat /\ file \in Seq(Nat)
                    /\ cursor' # NoCursor => \E a \in 1..(MaxLines + 1) : CursorAt(cursor, a)' /\ AtEnd(a)'
                    /\ OnceInOrder' /\ SpiltAnew'
  BY <1>1 DEF CopyInv
<1>2. ~replayed /\ first \in Nat /\ file \in Seq(Nat) /\ OnceInOrder /\ SpiltAnew
  BY <1>1 DEF CopyInv
<1>s. SpiltAnew'
  BY <1>1, <1>2 DEF SpiltAnew
<1>3. CASE begin = "all" /\ cursor' = FromFirst /\ first' = 1 /\ replayed' = (replayed \/ first > 1 \/ file # <<>>)
  <2>1. file = <<>>
    BY <1>3
  <2>2. CursorAt(cursor, 1)'
    <3>1. cursor'.at = 0 /\ cursor'.lines = 0
      BY <1>3 DEF FromFirst
    <3>2. \A l \in Lines : stamp'[l] >= 0 /\ l >= 1
      BY <1>1 DEF Ordered, Lines
    <3> QED
      BY <3>1, <3>2, <1>1 DEF CursorAt
  <2>3. AtEnd(1)'
    <3>1. cursor'.lines = 0 /\ first' = 1 /\ file' = <<>> /\ spilt' = spilt
      BY <2>1, <1>1, <1>3 DEF FromFirst
    <3>2. \A x \in spilt : 1 + 0 <= x.line
      BY <1>2 DEF SpiltAnew
    <3> QED
      BY <3>1, <3>2 DEF AtEnd
  <2> QED
    BY <2>1, <2>2, <2>3, <1>1, <1>2, <1>3, <1>s DEF OnceInOrder
<1>4. CASE /\ begin = "from now"
           /\ cursor' = (IF printed = 0 THEN FromFirst ELSE [at |-> stamp[printed], lines |-> 1])
           /\ first' = printed + 1
  <2>1. file = <<>> /\ spilt = {}
    BY <1>2, <1>4 DEF CopyInv
  <2>2. CASE printed = 0
    <3>1. cursor'.at = 0 /\ cursor'.lines = 0 /\ first' = 1
      <4>1. cursor' = FromFirst /\ first' = 0 + 1
        BY <1>4, <2>2
      <4> QED
        BY <4>1 DEF FromFirst
    <3>2. \A l \in Lines : stamp'[l] >= 0 /\ l >= 1
      BY <1>1 DEF Ordered, Lines
    <3>3. CursorAt(cursor, 1)'
      BY <3>1, <3>2, <1>1, <2>2 DEF CursorAt
    <3>4. AtEnd(1)'
      BY <2>1, <1>1, <3>1 DEF AtEnd
    <3> QED
      BY <2>1, <3>1, <3>3, <3>4, <1>1, <1>2, <1>s DEF OnceInOrder
  <2>3. CASE printed # 0
    <3>1. cursor'.at = stamp[printed] /\ cursor'.lines = 1
      BY <1>4, <2>3
    <3>2. printed \in Lines /\ stamp[printed] \in Nat /\ stamp' = stamp
      BY <1>1, <2>3 DEF Ordered, Lines, Output
    <3>3. PICK a \in 1..(MaxLines + 1) : \A l \in Lines : stamp[l] >= stamp[printed] <=> l >= a
      BY <3>2, <1>1, FromStamp
    <3>4. a <= printed /\ a \in Lines
      BY <3>2, <3>3 DEF Lines
    <3>5. stamp[a] = stamp[printed]
      <4>1. stamp[a] >= stamp[printed] /\ stamp[a] <= stamp[printed] /\ stamp[a] \in Nat
        BY <3>2, <3>3, <3>4, <1>1, NumberedLines DEF Ordered
      <4> QED
        BY <4>1, <3>2
    <3>6. \A l \in a..(a + 1 - 1) : l = a
      OBVIOUS
    <3>7. CursorAt(cursor, a)'
      BY <3>1, <3>2, <3>3, <3>4, <3>5, <3>6, <1>1 DEF CursorAt
    <3>0. first' = printed + 1
      BY <1>4, Zenon
    <3>8. AtEnd(a)'
      <4>1. a + 1 <= first' /\ file' = <<>> /\ spilt' = {}
        BY <2>1, <3>0, <3>4, <1>1
      <4> QED
        BY <4>1, <3>1 DEF AtEnd
    <3>9. first' \in Nat
      BY <1>1, <3>0
    <3> QED
      BY <2>1, <3>7, <3>8, <3>9, <1>1, <1>2, <1>s DEF OnceInOrder
  <2> QED
    BY <2>2, <2>3
<1>5. CASE cursor = NoCursor /\ UNCHANGED cursor /\ first' \in Nat /\ (first' = first \/ file = <<>>)
  BY <1>1, <1>2, <1>5, <1>s DEF OnceInOrder
<1>6. begin = "from now" => file = <<>>
  BY <1>2 DEF CopyInv
<1>7. cursor = NoCursor
  BY DEF StartCopying
<1>8. printed + 1 \in Nat
  BY <1>1
<1> QED
  BY <1>2, <1>3, <1>4, <1>5, <1>6, <1>7, <1>8 DEF StartCopying

\* A call appends the lines from the file's end on, and the cursor stays there.
LEMMA KeepPull ==
    ASSUME NEW next, CopyInv, Pull(next)
    PROVE  CopyInv'
<1> USE LogAssumption
<1>1. CASE /\ spilt' = spilt /\ file' = file \o Unseen(Merged(Since(cursor.at)), cursor)
           /\ cursor' = IF next = "keep" THEN CursorAfter(Merged(Since(cursor.at)), cursor) ELSE NoCursor
  <2>1. /\ Ordered /\ Ordered' /\ printed \in 0..MaxLines /\ cursor # NoCursor /\ NoCursor' = NoCursor
        /\ UNCHANGED <<Output, printed, begin, first, replayed>>
    BY DEF CopyInv, Ordered, Output, Pull, NoCursor
  <2> SUFFICES ASSUME ~replayed
               PROVE  /\ first \in Nat /\ file' \in Seq(Nat) /\ begin # "from now"
                      /\ cursor' # NoCursor => \E a \in 1..(MaxLines + 1) : CursorAt(cursor, a)' /\ AtEnd(a)'
                      /\ OnceInOrder' /\ SpiltAnew'
    BY <2>1 DEF CopyInv
  <2>2. /\ first \in Nat /\ file \in Seq(Nat) /\ begin # "from now" /\ OnceInOrder /\ SpiltAnew
    BY <2>1 DEF CopyInv
  <2>3. PICK a \in 1..(MaxLines + 1) : CursorAt(cursor, a) /\ AtEnd(a)
    BY <2>1 DEF CopyInv
  <2> DEFINE s == Merged(Since(cursor.at))
  <2> DEFINE new == Unseen(s, cursor)
  <2>4. PICK b \in Nat :
              /\ b >= a + cursor.lines - 1 /\ (b <= printed \/ b = a - 1)
              /\ a..b = Whole(Since(cursor.at))
              /\ s = [i \in 1..(b - a + 1) |-> a + i - 1]
              /\ new \in Seq(Nat) /\ Len(new) = b - (a + cursor.lines) + 1
              /\ \A i \in 1..Len(new) : new[i] = a + cursor.lines + i - 1
    BY <2>1, <2>3, OneCall
  <2>5. PICK d \in 1..(MaxLines + 1) :
              CursorAt(CursorAfter(s, cursor), d) /\ d + CursorAfter(s, cursor).lines = b + 1
    BY <2>1, <2>3, <2>4, CursorMoves
  <2>6. file' = file \o new /\ (cursor' # NoCursor => cursor' = CursorAfter(s, cursor))
    BY <1>1
  <2> HIDE DEF s, new
  <2> DEFINE n == a + cursor.lines
  <2>7. n \in Nat /\ n >= 1 /\ Len(new) = b - n + 1 /\ \A i \in 1..Len(new) : new[i] = n + i - 1
    <3>1. cursor.lines \in Nat
      BY <2>3 DEF CursorAt
    <3>2. n \in Nat /\ n >= 1
      BY <3>1
    <3> QED
      BY <3>2, <2>4
  <2>8. /\ file = <<>> => n <= first
        /\ file # <<>> => file[Len(file)] + 1 = n
        /\ \A x \in spilt : x.after = Len(file) => n <= x.line
    BY <2>3 DEF AtEnd
  <2> HIDE DEF n
  <2>9. /\ file' \in Seq(Nat) /\ Len(file') = Len(file) + Len(new) /\ Len(file) \in Nat /\ Len(new) \in Nat
        /\ \A i \in 1..Len(file) : file'[i] = file[i]
        /\ \A i \in 1..Len(new) : file'[Len(file) + i] = new[i]
    <3>1. \A i \in 1..(Len(file) + Len(new)) : file'[i] = IF i <= Len(file) THEN file[i] ELSE new[i - Len(file)]
      BY <2>2, <2>4, <2>6, ConcatProperties
    <3>2. file' \in Seq(Nat) /\ Len(file') = Len(file) + Len(new) /\ Len(file) \in Nat /\ Len(new) \in Nat
      <4>1. file \in Seq(Nat) /\ new \in Seq(Nat)
        BY <2>2, <2>4
      <4>2. Len(file) \in Nat /\ Len(new) \in Nat
        BY <4>1
      <4>3. file \o new \in Seq(Nat) /\ Len(file \o new) = Len(file) + Len(new)
        BY <4>1, ConcatProperties
      <4> QED
        BY <4>2, <4>3, <2>6
    <3>3. ASSUME NEW i \in 1..Len(new) PROVE file'[Len(file) + i] = new[i]
      <4>1. Len(file) + i \in 1..(Len(file) + Len(new)) /\ ~(Len(file) + i <= Len(file))
            /\ (Len(file) + i) - Len(file) = i
        BY <3>2
      <4> QED
        BY <4>1, <3>1
    <3>4. ASSUME NEW i \in 1..Len(file) PROVE file'[i] = file[i]
      <4>1. i \in 1..(Len(file) + Len(new)) /\ i <= Len(file)
        BY <3>2
      <4> QED
        BY <4>1, <3>1
    <3> QED
      BY <3>2, <3>3, <3>4
  <2>10. OnceInOrder'
    <3> SUFFICES ASSUME file' # <<>>
                 PROVE  file'[1] <= first /\ \A i \in 1..(Len(file') - 1) : file'[i + 1] = file'[i] + 1
      BY <2>1 DEF OnceInOrder
    <3>0. Len(file') >= 1 /\ (file = <<>> <=> Len(file) = 0)
      <4>1. file = <<>> <=> Len(file) = 0
        <5>1. file \in Seq(Nat)
          BY <2>2
        <5> QED
          BY <5>1, EmptySeq
      <4>2. file' \in Seq(Nat)
        BY <2>9
      <4>3. Len(file') # 0 /\ Len(file') \in Nat
        BY <4>2
      <4> QED
        BY <4>1, <4>3
    <3>1. file # <<>> => file[1] <= first /\ \A i \in 1..(Len(file) - 1) : file[i + 1] = file[i] + 1
      BY <2>2 DEF OnceInOrder
    <3>2. file'[1] <= first
      <4>1. CASE file = <<>>
        <5>1. 1 \in 1..Len(new) /\ file'[1] = new[1]
          BY <4>1, <3>0, <2>9
        <5> QED
          BY <5>1, <4>1, <2>7, <2>8
      <4>2. CASE file # <<>>
        <5>1. 1 \in 1..Len(file)
          BY <4>2, <3>0, <2>9
        <5> QED
          BY <5>1, <4>2, <3>1, <2>9
      <4> QED
        BY <4>1, <4>2
    <3>3. ASSUME NEW i \in 1..(Len(file') - 1) PROVE file'[i + 1] = file'[i] + 1
      <4>1. CASE i < Len(file)
        <5>1. i \in 1..Len(file) /\ i + 1 \in 1..Len(file) /\ i \in 1..(Len(file) - 1) /\ file # <<>>
          BY <4>1, <3>0, <2>9
        <5> QED
          BY <5>1, <3>1, <2>9
      <4>2. CASE i = Len(file)
        <5>1. 1 \in 1..Len(new) /\ file'[i + 1] = new[1] /\ file'[i] = file[Len(file)] /\ file # <<>>
          BY <4>2, <3>0, <2>9
        <5>2. new[1] = n
          BY <5>1, <2>7
        <5> QED
          BY <5>1, <5>2, <2>8
      <4>3. CASE i > Len(file)
        <5>1. /\ i - Len(file) \in 1..Len(new) /\ i - Len(file) + 1 \in 1..Len(new)
              /\ Len(file) + (i - Len(file)) = i /\ Len(file) + (i - Len(file) + 1) = i + 1
          BY <4>3, <2>9
        <5>2. file'[i] = new[i - Len(file)] /\ file'[i + 1] = new[i - Len(file) + 1]
          <6>1. \A j \in 1..Len(new) : file'[Len(file) + j] = new[j]
            BY <2>9
          <6>2. file'[Len(file) + (i - Len(file))] = new[i - Len(file)]
            BY <5>1, <6>1, Zenon
          <6>3. file'[Len(file) + (i - Len(file) + 1)] = new[i - Len(file) + 1]
            BY <5>1, <6>1, Zenon
          <6> QED
            BY <5>1, <6>2, <6>3
        <5>3. new[i - Len(file)] = n + (i - Len(file)) - 1 /\ new[i - Len(file) + 1] = n + (i - Len(file) + 1) - 1
          BY <5>1, <2>7
        <5> QED
          BY <5>2, <5>3, <2>7, <2>9
      <4> QED
        BY <4>1, <4>2, <4>3, <2>9
    <3> QED
      BY <3>2, <3>3
  <2>s. SpiltAnew'
    <3> SUFFICES ASSUME NEW x \in spilt
                 PROVE  /\ x.after \in 0..Len(file') /\ x.line \in Nat \ {0}
                        /\ x.after > 0 => file'[x.after] < x.line
                        /\ x.after < Len(file') => file'[x.after + 1] <= x.line
      BY <1>1 DEF SpiltAnew
    <3>1. /\ x.after \in 0..Len(file) /\ x.line \in Nat \ {0}
          /\ x.after > 0 => file[x.after] < x.line
          /\ x.after < Len(file) => file[x.after + 1] <= x.line
      BY <2>2 DEF SpiltAnew
    <3>2. x.after > 0 => file'[x.after] < x.line
      BY <3>1, <2>9
    <3>3. ASSUME x.after < Len(file') PROVE file'[x.after + 1] <= x.line
      <4>1. CASE x.after < Len(file)
        <5>1. x.after + 1 \in 1..Len(file)
          <6>1. Len(file) \in Nat /\ x.after \in 0..Len(file)
            BY <3>1, <2>9
          <6> QED
            BY <6>1, <4>1
        <5>2. file'[x.after + 1] = file[x.after + 1]
          BY <5>1, <2>9
        <5> QED
          BY <5>2, <4>1, <3>1
      <4>2. CASE x.after = Len(file)
        <5>1. 1 \in 1..Len(new)
          BY <4>2, <3>3, <2>9
        <5>2. file'[Len(file) + 1] = new[1] /\ new[1] = n + 1 - 1
          BY <5>1, <2>7, <2>9
        <5> QED
          BY <5>2, <4>2, <2>7, <2>8
      <4> QED
        BY <4>1, <4>2, <3>1, <2>9
    <3> QED
      BY <3>1, <3>2, <3>3, <2>9
  <2>11. ASSUME cursor' # NoCursor
         PROVE  \E x \in 1..(MaxLines + 1) : CursorAt(cursor, x)' /\ AtEnd(x)'
    <3>1. CursorAt(cursor, d)'
      <4>1. CursorAt(cursor', d)
        BY <2>5, <2>6, <2>11
      <4> QED
        BY <4>1, <2>1 DEF CursorAt, Output
    <3>2. d + cursor'.lines = b + 1
      BY <2>5, <2>6, <2>11
    <3>3. AtEnd(d)'
      <4>1. CASE Len(new) = 0
        <5>1. file' = file /\ b + 1 = n
          <6>1. new = <<>>
            BY <4>1, <2>4
          <6>2. b + 1 = n
            BY <4>1, <2>7
          <6> QED
            BY <6>1, <6>2, <2>2, <2>6, ConcatEmptySeq
        <5> QED
          BY <5>1, <3>2, <2>1, <2>8, <1>1 DEF AtEnd
      <4>2. CASE Len(new) # 0
        <5>1. /\ Len(new) \in 1..Len(new) /\ file'[Len(file')] = new[Len(new)] /\ file' # <<>>
          BY <4>2, <2>9
        <5>2. file'[Len(file')] + 1 = b + 1
          <6>1. new[Len(new)] = n + Len(new) - 1
            BY <5>1, <2>7
          <6> QED
            BY <5>1, <6>1, <2>7
        <5>3. ASSUME NEW x \in spilt PROVE x.after # Len(file')
          <6>1. x.after \in 0..Len(file)
            BY <2>2 DEF SpiltAnew
          <6> QED
            BY <6>1, <4>2, <2>9
        <5> QED
          BY <5>1, <5>2, <5>3, <3>2, <1>1 DEF AtEnd
      <4> QED
        BY <4>1, <4>2
    <3> QED
      BY <3>1, <3>3
  <2> QED
    BY <2>2, <2>9, <2>10, <2>11, <2>s
<1>2. CASE UNCHANGED <<file, spilt>> /\ (UNCHANGED cursor \/ cursor' = NoCursor)
  <2>1. UNCHANGED <<Output, printed, begin, first, replayed>> /\ printed \in 0..MaxLines
    BY DEF Pull, CopyInv
  <2>2. printed' \in 0..MaxLines /\ printed <= printed'
    BY <2>1
  <2> QED
    BY <1>2, <2>1, <2>2, KeepElsewhere
<1>3. CASE /\ UNCHANGED file /\ Spill(Unseen(Merged(Since(cursor.at)), cursor))
           /\ UNCHANGED cursor \/ cursor' = NoCursor
  <2>1. /\ Ordered /\ Ordered' /\ printed \in 0..MaxLines /\ cursor # NoCursor /\ NoCursor' = NoCursor
        /\ UNCHANGED <<Output, printed, begin, first, replayed>>
    BY DEF CopyInv, Ordered, Output, Pull, NoCursor
  <2> SUFFICES ASSUME ~replayed
               PROVE  /\ begin # "from now"
                      /\ cursor' # NoCursor => \E a \in 1..(MaxLines + 1) : CursorAt(cursor, a)' /\ AtEnd(a)'
                      /\ OnceInOrder' /\ SpiltAnew'
    BY <2>1, <1>3 DEF CopyInv
  <2>2. /\ first \in Nat /\ file \in Seq(Nat) /\ begin # "from now" /\ OnceInOrder /\ SpiltAnew
    BY <2>1 DEF CopyInv
  <2>3. PICK a \in 1..(MaxLines + 1) : CursorAt(cursor, a) /\ AtEnd(a)
    BY <2>1 DEF CopyInv
  <2> DEFINE new == Unseen(Merged(Since(cursor.at)), cursor)
  <2> DEFINE n == a + cursor.lines
  <2>4. Len(new) \in Nat /\ \A i \in 1..Len(new) : new[i] = n + i - 1
    <3>1. /\ new \in Seq(Nat)
          /\ \A i \in 1..Len(new) : new[i] = a + cursor.lines + i - 1
      BY <2>1, <2>3, OneCall
    <3> QED
      BY <3>1
  <2>5. PICK k \in 0..Len(new) : spilt' = spilt \cup {[after |-> Len(file), line |-> new[i]] : i \in 1..k}
    BY <1>3 DEF Spill
  <2> HIDE DEF new
  <2>6. n \in Nat /\ n >= 1 /\ Len(file) \in Nat
    <3>1. cursor.lines \in Nat
      BY <2>3 DEF CursorAt
    <3>2. file \in Seq(Nat)
      BY <2>2
    <3>3. Len(file) \in Nat
      BY <3>2
    <3> QED
      BY <3>1, <3>3
  <2>7. /\ file # <<>> => file[Len(file)] + 1 = n
        /\ \A x \in spilt : x.after = Len(file) => n <= x.line
    BY <2>3 DEF AtEnd
  <2>8. ASSUME NEW x \in spilt' PROVE x \in spilt \/ (x.after = Len(file) /\ x.line \in Nat /\ n <= x.line)
    <3>1. CASE x \notin spilt
      <4>1. PICK i \in 1..k : x = [after |-> Len(file), line |-> new[i]]
        BY <3>1, <2>5
      <4>2. i \in 1..Len(new) /\ new[i] = n + i - 1
        BY <2>4
      <4> QED
        BY <4>1, <4>2, <2>6
    <3> QED
      BY <3>1
  <2> HIDE DEF n
  <2>9. SpiltAnew'
    <3> SUFFICES ASSUME NEW x \in spilt'
                 PROVE  /\ x.after \in 0..Len(file) /\ x.line \in Nat \ {0}
                        /\ x.after > 0 => file[x.after] < x.line
                        /\ x.after < Len(file) => file[x.after + 1] <= x.line
      BY <1>3 DEF SpiltAnew
    <3>1. CASE x \in spilt
      BY <3>1, <2>2 DEF SpiltAnew
    <3>2. CASE x.after = Len(file) /\ x.line \in Nat /\ n <= x.line
      <4>1. Len(file) > 0 => file # <<>> /\ file[Len(file)] \in Nat
        <5>1. file \in Seq(Nat)
          BY <2>2
        <5> QED
          BY <5>1
      <4> QED
        BY <4>1, <3>2, <2>6, <2>7
    <3> QED
      BY <3>1, <3>2, <2>8
  <2>10. cursor' # NoCursor => CursorAt(cursor, a)' /\ AtEnd(a)'
    <3> SUFFICES ASSUME cursor' = cursor PROVE CursorAt(cursor, a)' /\ AtEnd(a)'
      BY <1>3
    <3>1. CursorAt(cursor, a)'
      BY <2>1, <2>3 DEF CursorAt, Output
    <3>2. \A x \in spilt' : x.after = Len(file) => n <= x.line
      BY <2>7, <2>8
    <3>3. AtEnd(a)'
      BY <3>2, <2>1, <2>3, <1>3 DEF AtEnd, n
    <3> QED
      BY <3>1, <3>3
  <2>11. OnceInOrder'
    BY <2>1, <2>2, <1>3 DEF OnceInOrder
  <2> QED
    BY <2>2, <2>9, <2>10, <2>11
<1> QED
  BY <1>1, <1>2, <1>3, Zenon DEF Pull

\* Every step keeps it.
LEMMA StepCopy == CopyInv /\ [LogNext]_logVars => CopyInv'
<1> SUFFICES ASSUME CopyInv, [LogNext]_logVars PROVE CopyInv'
  OBVIOUS
<1> USE LogAssumption
<1>0. printed \in 0..MaxLines
  BY DEF CopyInv
<1>1. CASE Emit
  BY <1>0, <1>1, KeepElsewhere DEF Emit
<1>2. CASE ChangeState \/ Listed \/ Forget
  BY <1>0, <1>2, KeepElsewhere DEF ChangeState, Listed, Forget
<1>3. CASE UNCHANGED logVars
  BY <1>0, <1>3, KeepElsewhere DEF logVars, logState, Output
<1> QED
  BY <1>1, <1>2, <1>3, KeepStart, KeepPull DEF LogNext, PullRunning, PullStopped

\* Where the streams share no stamp, the lines come once and in order.
SortedInv == StreamsApart => CopyInv

LEMMA InitSorted == LogInit => SortedInv
  BY InitCopy DEF SortedInv

LEMMA StepSorted == SortedInv /\ [LogNext]_logVars => SortedInv'
<1> SUFFICES ASSUME SortedInv, [LogNext]_logVars PROVE SortedInv'
  OBVIOUS
<1>1. UNCHANGED Output
  BY DEF LogNext, Emit, ChangeState, Listed, StartCopying, PullRunning, PullStopped, Pull, Forget,
         logVars, logState, Output
<1>2. StreamsApart' <=> StreamsApart
  BY <1>1 DEF StreamsApart, Output
<1> QED
  BY <1>2, StepCopy DEF SortedInv

-----------------------------------------------------------------------------
(* The order of the stamps, shared ones or not.                            *)

Stamped == stamp \in [Lines -> Lines] /\ stream \in [Lines -> Streams]

\* Of two lines, one comes first in the merge.
LEMMA PrecedesOrders ==
    ASSUME Stamped
    PROVE  /\ \A l \in Lines : ~Precedes(l, l)
           /\ \A l, m \in Lines : l # m => Precedes(l, m) \/ Precedes(m, l)
           /\ \A k, l, m \in Lines : Precedes(k, l) /\ Precedes(l, m) => Precedes(k, m)
           /\ \A l, m \in Lines : Precedes(l, m) => stamp[l] <= stamp[m]
<1> USE LogAssumption
<1>1. \A l \in Lines : l \in Nat /\ stamp[l] \in Nat /\ stream[l] \in {"stdout", "stderr"}
  BY DEF Stamped, Lines, Streams
<1>2. \A l \in Lines : ~Precedes(l, l)
  BY <1>1 DEF Precedes
<1>3. \A l, m \in Lines : l # m => Precedes(l, m) \/ Precedes(m, l)
  BY <1>1 DEF Precedes
<1>4. \A k, l, m \in Lines : Precedes(k, l) /\ Precedes(l, m) => Precedes(k, m)
  BY <1>1 DEF Precedes
<1>5. \A l, m \in Lines : Precedes(l, m) => stamp[l] <= stamp[m]
  BY <1>1 DEF Precedes
<1> QED
  BY <1>2, <1>3, <1>4, <1>5

\* Every place of the merge is a line's, and the stamps rise with the places.
LEMMA MergedByStamp ==
    ASSUME Stamped, NEW L \in SUBSET Lines
    PROVE  /\ Merged(L) \in Seq(L)
           /\ \A i, j \in 1..Len(Merged(L)) : i <= j => stamp[Merged(L)[i]] <= stamp[Merged(L)[j]]
<1> USE LogAssumption
<1> DEFINE W == Whole(L)
<1> DEFINE n == Cardinality(W)
<1>1. W \in SUBSET L /\ W \in SUBSET Lines
  BY DEF Whole, Kept, Oldest, OfStream
<1>2. IsFiniteSet(W) /\ n \in Nat
  <2>1. IsFiniteSet(Lines)
    BY FS_Interval DEF Lines
  <2> QED
    BY <2>1, <1>1, FS_Subset, FS_CardinalityType
<1>m. Merged(L) = [i \in 1..n |-> CHOOSE l \in W : Place(l, W) = i]
  BY DEF Merged
<1> HIDE DEF W
<1> DEFINE Ahead(l) == {m \in W : Precedes(m, l)}
<1>3. ASSUME NEW l \in W PROVE IsFiniteSet(Ahead(l)) /\ Cardinality(Ahead(l)) \in Nat
  <2>1. Ahead(l) \in SUBSET W
    OBVIOUS
  <2> QED
    BY <2>1, <1>2, FS_Subset, FS_CardinalityType
<1>4. ASSUME NEW l \in W PROVE Place(l, W) \in 1..n
  <2>1. Ahead(l) \in SUBSET (W \ {l})
    BY <1>1, PrecedesOrders
  <2>2. IsFiniteSet(W \ {l}) /\ Cardinality(W \ {l}) = n - 1
    BY <1>2, FS_RemoveElement
  <2>3. Cardinality(Ahead(l)) <= n - 1
    BY <2>1, <2>2, FS_Subset
  <2> HIDE DEF Ahead
  <2>4. Cardinality(Ahead(l)) + 1 \in 1..n
    BY <2>3, <1>2, <1>3
  <2> QED
    BY <2>4 DEF Place, Ahead
<1>5. ASSUME NEW l \in W, NEW m \in W, Precedes(l, m) PROVE Place(l, W) < Place(m, W)
  <2>1. Ahead(l) \in SUBSET (Ahead(m) \ {l}) /\ l \in Ahead(m)
    BY <1>1, <1>5, PrecedesOrders
  <2>2. IsFiniteSet(Ahead(m)) /\ Cardinality(Ahead(m)) \in Nat /\ Cardinality(Ahead(l)) \in Nat
    BY <1>3
  <2> HIDE DEF Ahead
  <2>3. IsFiniteSet(Ahead(m) \ {l}) /\ Cardinality(Ahead(m) \ {l}) = Cardinality(Ahead(m)) - 1
    BY <2>1, <2>2, FS_RemoveElement
  <2>4. Cardinality(Ahead(l)) <= Cardinality(Ahead(m)) - 1
    BY <2>1, <2>3, FS_Subset
  <2>5. Cardinality(Ahead(l)) + 1 < Cardinality(Ahead(m)) + 1
    BY <2>4, <2>2
  <2> QED
    BY <2>5 DEF Place, Ahead
<1> HIDE DEF Ahead
<1>6. ASSUME NEW i \in 1..n PROVE \E l \in W : Place(l, W) = i
  <2> DEFINE f == [l \in W |-> Place(l, W)]
  <2>1. f \in [W -> 1..n]
    BY <1>4
  <2>2. ASSUME NEW l \in W, NEW m \in W, f[l] = f[m] PROVE l = m
    <3> SUFFICES ASSUME l # m PROVE FALSE
      OBVIOUS
    <3>1. Precedes(l, m) \/ Precedes(m, l)
      BY <1>1, PrecedesOrders
    <3>2. f[l] \in Nat /\ f[m] \in Nat /\ (f[l] < f[m] \/ f[m] < f[l])
      BY <3>1, <1>4, <1>5
    <3> QED
      BY <3>2, <2>2
  <2>3. f \in Injection(W, 1..n)
    BY <2>1, <2>2 DEF Injection, IsInjective
  <2>4. IsFiniteSet(1..n) /\ Cardinality(1..n) = n
    <3>1. 1 \in Int /\ n \in Int /\ n >= 1 - 1
      BY <1>2
    <3>2. IsFiniteSet(1..n) /\ Cardinality(1..n) = n - 1 + 1
      BY <3>1, RangeSize
    <3> QED
      BY <3>1, <3>2
  <2>5. f \in Surjection(W, 1..n)
    BY <2>3, <2>4, FS_Injection
  <2> QED
    BY <2>5 DEF Surjection
<1> DEFINE s == Merged(L)
<1>7. \A i \in 1..n : s[i] \in W /\ Place(s[i], W) = i
  BY <1>6, <1>m
<1>8. s \in Seq(L) /\ Len(s) = n
  <2>1. s \in [1..n -> L]
    BY <1>m, <1>7, <1>1
  <2> QED
    BY <2>1, <1>2
<1>9. ASSUME NEW i \in 1..n, NEW j \in 1..n, i <= j PROVE stamp[s[i]] <= stamp[s[j]]
  <2>1. s[i] \in W /\ s[j] \in W /\ Place(s[i], W) = i /\ Place(s[j], W) = j
    BY <1>7
  <2>2. ~Precedes(s[j], s[i])
    BY <2>1, <1>5, <1>9
  <2>3. s[i] = s[j] \/ Precedes(s[i], s[j])
    BY <2>1, <2>2, <1>1, PrecedesOrders
  <2>4. s[i] \in Lines /\ s[j] \in Lines /\ stamp[s[i]] \in Nat
    <3> HIDE DEF s
    <3>1. s[i] \in Lines /\ s[j] \in Lines
      BY <2>1, <1>1
    <3>2. \A l \in Lines : stamp[l] \in Nat
      BY DEF Stamped, Lines
    <3> QED
      BY <3>1, <3>2
  <2> QED
    BY <2>3, <2>4, PrecedesOrders
<1> QED
  BY <1>8, <1>9

StampsRise == \A i \in 1..(Len(file) - 1) : stamp[file[i]] <= stamp[file[i + 1]]

StampInv ==
    /\ Stamped /\ printed \in 0..MaxLines
    /\ ~replayed =>
          /\ file \in Seq(Lines)
          /\ begin = "from now" => cursor = NoCursor /\ file = <<>>
          /\ cursor # NoCursor => /\ cursor.at \in Nat /\ cursor.lines \in Nat
                                  /\ file # <<>> => stamp[file[Len(file)]] <= cursor.at
          /\ StampsRise

\* u is s without its first k lines.
EndOf(u, s, k) ==
    /\ u \in Seq(Lines) /\ (Len(u) > 0 => k + Len(u) = Len(s))
    /\ \A i \in 1..Len(u) : u[i] = s[k + i]

\* What is copied of a call is the end of its merge.
LEMMA UnseenIsEnd ==
    ASSUME NEW s \in Seq(Lines), NEW c, c.lines \in Nat
    PROVE  \E k \in Nat : EndOf(Unseen(s, c), s, k)
<1> DEFINE u == Unseen(s, c)
<1> DEFINE older == {i \in DOMAIN s : stamp[s[i]] < c.at}
<1> DEFINE same == {i \in DOMAIN s : stamp[s[i]] = c.at}
<1>1. IsFiniteSet(DOMAIN s) /\ Len(s) \in Nat /\ DOMAIN s = 1..Len(s)
  <2>1. Len(s) \in Nat /\ DOMAIN s = 1..Len(s)
    OBVIOUS
  <2>2. IsFiniteSet(1..Len(s))
    BY <2>1, FS_Interval
  <2> QED
    BY <2>1, <2>2
<1>2. Cardinality(older) \in Nat /\ Cardinality(same) \in Nat
  <2>1. older \in SUBSET DOMAIN s /\ same \in SUBSET DOMAIN s
    OBVIOUS
  <2> QED
    BY <2>1, <1>1, FS_Subset, FS_CardinalityType
<1> DEFINE skip == Cardinality(older) + (IF Cardinality(same) < c.lines THEN Cardinality(same) ELSE c.lines)
<1>3. u = SubSeq(s, skip + 1, Len(s))
  BY DEF Unseen, LinesAt
<1> HIDE DEF older, same, u
<1>4. skip \in Nat
  BY <1>2
<1> HIDE DEF skip
<1>5. /\ SubSeq(s, skip + 1, Len(s)) \in Seq(Lines)
      /\ Len(SubSeq(s, skip + 1, Len(s))) = IF skip + 1 <= Len(s) THEN Len(s) - (skip + 1) + 1 ELSE 0
      /\ \A i \in 1..(Len(s) - (skip + 1) + 1) : SubSeq(s, skip + 1, Len(s))[i] = s[skip + 1 + i - 1]
  <2>1. skip + 1 \in Int /\ Len(s) \in Int /\ \A i \in (skip + 1)..Len(s) : s[i] \in Lines
    <3>1. \A i \in (skip + 1)..Len(s) : i \in 1..Len(s)
      BY <1>4, <1>1
    <3> QED
      BY <3>1, <1>4, <1>1
  <2> QED
    BY <2>1, SubSeqProperties
<1>6. ASSUME NEW i \in 1..Len(u) PROVE u[i] = s[skip + i]
  <2>1. i \in 1..(Len(s) - (skip + 1) + 1) /\ skip + 1 + i - 1 = skip + i
    BY <1>3, <1>4, <1>5, <1>1
  <2> QED
    BY <2>1, <1>3, <1>5
<1>7. u \in Seq(Lines) /\ (Len(u) > 0 => skip + Len(u) = Len(s))
  BY <1>3, <1>4, <1>5, <1>1
<1>8. EndOf(u, s, skip)
  BY <1>6, <1>7 DEF EndOf
<1> QED
  BY <1>4, <1>8 DEF u

\* A step that leaves the copied lines alone.
LEMMA StampElsewhere ==
    ASSUME StampInv, UNCHANGED <<Output, begin, file, replayed>>,
           UNCHANGED cursor \/ cursor' = NoCursor, printed' \in 0..MaxLines
    PROVE  StampInv'
<1>1. NoCursor' = NoCursor
  BY DEF NoCursor
<1> QED
  BY <1>1 DEF StampInv, Stamped, StampsRise, Output

\* A container that has lines in the log is replayed when it is started again.
LEMMA StampStart == StampInv /\ StartCopying => StampInv'
<1> SUFFICES ASSUME StampInv, StartCopying PROVE StampInv'
  OBVIOUS
<1>1. /\ Stamped /\ Stamped' /\ printed \in 0..MaxLines /\ printed' = printed
      /\ begin' = "all" /\ file' = file /\ stamp' = stamp /\ NoCursor' = NoCursor
  BY DEF StampInv, StartCopying, Stamped, Output, NoCursor
<1>2. (replayed => replayed') /\ cursor = NoCursor
  <2>1. replayed => replayed'
    BY Zenon DEF StartCopying
  <2>2. cursor = NoCursor
    BY DEF StartCopying
  <2> QED
    BY <2>1, <2>2
<1> SUFFICES ASSUME ~replayed'
             PROVE  cursor' # NoCursor => cursor'.at \in Nat /\ cursor'.lines \in Nat /\ file = <<>>
  BY <1>1, <1>2 DEF StampInv, StampsRise
<1>3. CASE begin = "all" /\ cursor' = FromFirst /\ replayed' = (replayed \/ first > 1 \/ file # <<>>)
  BY <1>3 DEF FromFirst
<1>4. CASE begin = "from now" /\ cursor' = (IF printed = 0 THEN FromFirst ELSE [at |-> stamp[printed], lines |-> 1])
  <2>1. file = <<>>
    BY <1>2, <1>4 DEF StampInv
  <2>2. printed # 0 => stamp[printed] \in Nat
    BY <1>1, LogAssumption DEF Stamped, Lines
  <2> QED
    BY <2>1, <2>2, <1>4 DEF FromFirst
<1>5. CASE UNCHANGED cursor
  BY <1>2, <1>5
<1> QED
  BY <1>3, <1>4, <1>5 DEF StartCopying

\* A call appends lines no older than the cursor, in the order of their stamps.
LEMMA StampPull ==
    ASSUME NEW next, StampInv, Pull(next)
    PROVE  StampInv'
<1> USE LogAssumption
<1>0. /\ UNCHANGED <<Output, printed, begin, replayed>> /\ cursor # NoCursor /\ NoCursor' = NoCursor
      /\ Stamped /\ Stamped' /\ printed \in 0..MaxLines
  BY DEF Pull, StampInv, Stamped, Output, NoCursor
<1>1. CASE /\ file' = file \o Unseen(Merged(Since(cursor.at)), cursor)
           /\ cursor' = IF next = "keep" THEN CursorAfter(Merged(Since(cursor.at)), cursor) ELSE NoCursor
  <2> SUFFICES ASSUME ~replayed
               PROVE  /\ file' \in Seq(Lines) /\ begin # "from now"
                      /\ cursor' # NoCursor => /\ cursor'.at \in Nat /\ cursor'.lines \in Nat
                                               /\ file' # <<>> => stamp[file'[Len(file')]] <= cursor'.at
                      /\ StampsRise'
    BY <1>0 DEF StampInv, Output
  <2>1. /\ file \in Seq(Lines) /\ begin # "from now" /\ StampsRise
        /\ cursor.at \in Nat /\ cursor.lines \in Nat
        /\ file # <<>> => stamp[file[Len(file)]] <= cursor.at
    BY <1>0 DEF StampInv
  <2>s. \A l \in Lines : stamp[l] \in Nat
    BY <1>0 DEF Stamped, Lines
  <2> DEFINE L == Since(cursor.at)
  <2>2. L \in SUBSET Lines /\ \A l \in L : stamp[l] >= cursor.at
    BY <1>0 DEF Since, Lines
  <2> HIDE DEF L
  <2> DEFINE s == Merged(L)
  <2>3. s \in Seq(L) /\ \A i, j \in 1..Len(s) : i <= j => stamp[s[i]] <= stamp[s[j]]
    BY <1>0, <2>2, MergedByStamp
  <2> DEFINE u == Unseen(s, cursor)
  <2>4. file' = file \o u /\ (cursor' # NoCursor => cursor' = CursorAfter(s, cursor))
    BY <1>1 DEF L
  <2> HIDE DEF s
  <2>5. s \in Seq(Lines) /\ Len(s) \in Nat /\ \A i \in 1..Len(s) : s[i] \in L /\ s[i] \in Lines
    <3>1. Len(s) \in Nat /\ \A i \in 1..Len(s) : s[i] \in L
      BY <2>3
    <3>2. \A i \in 1..Len(s) : s[i] \in Lines
      BY <3>1, <2>2
    <3>3. s \in Seq(Lines)
      BY <3>1, <3>2, <2>3
    <3> QED
      BY <3>1, <3>2, <3>3
  <2>6. PICK k \in Nat : /\ u \in Seq(Lines) /\ (Len(u) > 0 => k + Len(u) = Len(s))
                         /\ \A i \in 1..Len(u) : u[i] = s[k + i]
    <3>1. cursor.lines \in Nat /\ s \in Seq(Lines)
      BY <2>1, <2>5
    <3>2. \E k \in Nat : EndOf(u, s, k)
      BY ONLY <3>1, UnseenIsEnd
    <3> HIDE DEF u
    <3> QED
      BY ONLY <3>2 DEF EndOf
  <2> HIDE DEF u
  <2>7. Len(file) \in Nat /\ Len(u) \in Nat
    <3>1. file \in Seq(Lines) /\ u \in Seq(Lines)
      BY <2>1, <2>6
    <3> QED
      BY <3>1
  <2>8. ASSUME NEW i \in 1..Len(u) PROVE k + i \in 1..Len(s) /\ u[i] = s[k + i] /\ stamp[u[i]] >= cursor.at
    <3>1. k + Len(u) = Len(s) /\ u[i] = s[k + i]
      BY <2>6, <2>7
    <3>2. k + i \in 1..Len(s)
      BY <3>1, <2>7
    <3> QED
      BY <3>1, <3>2, <2>2, <2>5
  <2>9. ASSUME NEW i \in 1..(Len(u) - 1) PROVE stamp[u[i]] <= stamp[u[i + 1]]
    <3>1. i \in 1..Len(u) /\ i + 1 \in 1..Len(u)
      BY <2>7
    <3>2. k + i \in 1..Len(s) /\ k + (i + 1) \in 1..Len(s) /\ k + i <= k + (i + 1)
          /\ u[i] = s[k + i] /\ u[i + 1] = s[k + (i + 1)]
      BY <3>1, <2>8
    <3> QED
      BY <3>2, <2>3
  <2>10. /\ file' \in Seq(Lines) /\ Len(file') = Len(file) + Len(u)
         /\ \A i \in 1..Len(file) : file'[i] = file[i]
         /\ \A i \in 1..Len(u) : file'[Len(file) + i] = u[i]
    <3>1. /\ file \o u \in Seq(Lines) /\ Len(file \o u) = Len(file) + Len(u)
          /\ \A i \in 1..(Len(file) + Len(u)) :
                (file \o u)[i] = IF i <= Len(file) THEN file[i] ELSE u[i - Len(file)]
      BY <2>1, <2>6, ConcatProperties
    <3>2. ASSUME NEW i \in 1..Len(u) PROVE file'[Len(file) + i] = u[i]
      <4>1. Len(file) + i \in 1..(Len(file) + Len(u)) /\ ~(Len(file) + i <= Len(file))
            /\ (Len(file) + i) - Len(file) = i
        BY <2>7
      <4> QED
        BY <4>1, <3>1, <2>4
    <3>3. ASSUME NEW i \in 1..Len(file) PROVE file'[i] = file[i]
      <4>1. i \in 1..(Len(file) + Len(u)) /\ i <= Len(file)
        BY <2>7
      <4> QED
        BY <4>1, <3>1, <2>4
    <3> QED
      BY <3>1, <3>2, <3>3, <2>4
  <2>11. StampsRise'
    <3> SUFFICES ASSUME NEW i \in 1..(Len(file') - 1) PROVE stamp[file'[i]] <= stamp[file'[i + 1]]
      BY <1>0 DEF StampsRise, Output
    <3>1. CASE i < Len(file)
      <4>1. i \in 1..Len(file) /\ i + 1 \in 1..Len(file) /\ i \in 1..(Len(file) - 1)
        BY <3>1, <2>7, <2>10
      <4> QED
        BY <4>1, <2>1, <2>10 DEF StampsRise
    <3>2. CASE i = Len(file)
      <4>1. i \in 1..Len(file) /\ 1 \in 1..Len(u) /\ file # <<>>
        BY <3>2, <2>7, <2>10
      <4>2. file'[i] = file[Len(file)] /\ file'[i + 1] = u[1]
        BY <4>1, <3>2, <2>10
      <4>3. stamp[file[Len(file)]] <= cursor.at /\ stamp[u[1]] >= cursor.at
        BY <4>1, <2>1, <2>8
      <4>4. stamp[file[Len(file)]] \in Nat /\ stamp[u[1]] \in Nat /\ cursor.at \in Nat
        <5>1. file \in Seq(Lines) /\ u \in Seq(Lines) /\ Len(file) \in 1..Len(file)
          BY <4>1, <3>2, <2>1, <2>6
        <5>2. file[Len(file)] \in Lines /\ u[1] \in Lines
          BY <5>1, <4>1
        <5> QED
          BY <5>2, <2>1, <2>s
      <4>5. stamp[file[Len(file)]] <= stamp[u[1]]
        BY <4>3, <4>4
      <4> QED
        BY <4>2, <4>5
    <3>3. CASE i > Len(file)
      <4> DEFINE j == i - Len(file)
      <4>1. j \in 1..(Len(u) - 1) /\ j \in 1..Len(u) /\ j + 1 \in 1..Len(u)
            /\ Len(file) + j = i /\ Len(file) + (j + 1) = i + 1
        BY <3>3, <2>7, <2>10
      <4> HIDE DEF j
      <4>2. file'[Len(file) + j] = u[j] /\ file'[Len(file) + (j + 1)] = u[j + 1]
        BY <4>1, <2>10
      <4> QED
        BY <4>1, <4>2, <2>9
    <3> QED
      BY <3>1, <3>2, <3>3, <2>7, <2>10
  <2>12. ASSUME cursor' # NoCursor
         PROVE  /\ cursor'.at \in Nat /\ cursor'.lines \in Nat
                /\ file' # <<>> => stamp[file'[Len(file')]] <= cursor'.at
    <3>1. cursor' = CursorAfter(s, cursor)
      BY <2>4, <2>12
    <3>2. CASE s = <<>>
      <4>1. cursor' = cursor
        BY <3>1, <3>2 DEF CursorAfter
      <4>2. Len(u) = 0
        BY <3>2, <2>6, <2>7
      <4>3. u = <<>>
        BY <4>2, <2>6
      <4>4. file' = file
        BY <4>3, <2>1, <2>4, ConcatEmptySeq
      <4> QED
        BY <4>1, <4>4, <2>1
    <3>3. CASE s # <<>>
      <4>1. cursor' = [at |-> stamp[s[Len(s)]], lines |-> LinesAt(s, stamp[s[Len(s)]])]
        BY <3>1, <3>3 DEF CursorAfter
      <4>2. Len(s) \in 1..Len(s) /\ stamp[s[Len(s)]] \in Nat /\ stamp[s[Len(s)]] >= cursor.at
        <5>1. Len(s) # 0
          BY <3>3, <2>5
        <5>2. Len(s) \in 1..Len(s)
          BY <5>1, <2>5
        <5> QED
          BY <5>2, <2>2, <2>5, <2>s
      <4>3. LinesAt(s, stamp[s[Len(s)]]) \in Nat
        <5> DEFINE S == {i \in DOMAIN s : stamp[s[i]] = stamp[s[Len(s)]]}
        <5>1. IsFiniteSet(1..Len(s)) /\ S \in SUBSET (1..Len(s))
          <6>1. DOMAIN s = 1..Len(s)
            BY <2>5
          <6>2. IsFiniteSet(1..Len(s))
            BY <2>5, FS_Interval
          <6> QED
            BY <6>1, <6>2
        <5>2. Cardinality(S) \in Nat
          BY <5>1, FS_Subset, FS_CardinalityType
        <5> QED
          BY <5>2 DEF LinesAt
      <4>4. ASSUME file' # <<>> PROVE stamp[file'[Len(file')]] <= stamp[s[Len(s)]]
        <5>1. CASE Len(u) = 0
          <6>1. u = <<>>
            BY <5>1, <2>6
          <6>2. file' = file
            BY <6>1, <2>1, <2>4, ConcatEmptySeq
          <6>3. stamp[file[Len(file)]] <= cursor.at /\ file[Len(file)] \in Lines
            <7>1. file # <<>> /\ file \in Seq(Lines)
              BY <6>2, <4>4, <2>1
            <7>2. file[Len(file)] \in Lines
              BY <7>1
            <7> QED
              BY <7>1, <7>2, <2>1
          <6>4. stamp[file[Len(file)]] \in Nat /\ cursor.at \in Nat
            BY <6>3, <2>1, <2>s
          <6>5. stamp[file[Len(file)]] <= stamp[s[Len(s)]]
            BY <6>3, <6>4, <4>2
          <6> QED
            BY <6>2, <6>5
        <5>2. CASE Len(u) # 0
          <6>1. Len(u) \in 1..Len(u) /\ k + Len(u) = Len(s) /\ Len(file') = Len(file) + Len(u)
            BY <5>2, <2>6, <2>7, <2>10
          <6>2. file'[Len(file')] = u[Len(u)] /\ u[Len(u)] = s[Len(s)]
            BY <6>1, <2>6, <2>10
          <6> QED
            BY <6>2, <4>2
        <5> QED
          BY <5>1, <5>2
      <4> QED
        BY <4>1, <4>2, <4>3, <4>4
    <3> QED
      BY <3>2, <3>3
  <2> QED
    BY <2>1, <2>10, <2>11, <2>12
<1>2. CASE UNCHANGED file /\ (UNCHANGED cursor \/ cursor' = NoCursor)
  <2>1. printed' \in 0..MaxLines
    BY <1>0
  <2> QED
    BY <1>0, <1>2, <2>1, StampElsewhere
<1> QED
  BY <1>1, <1>2, Zenon DEF Pull

LEMMA InitStamp == LogInit => StampInv
<1> SUFFICES ASSUME LogInit PROVE StampInv
  OBVIOUS
<1>1. Stamped
  BY DEF LogInit, Stamped
<1>2. printed \in 0..MaxLines
  <2>1. printed \in {0, 1}
    BY Zenon DEF LogInit
  <2> QED
    BY <2>1, LogAssumption
<1>3. cursor = NoCursor /\ file = <<>>
  BY Zenon DEF LogInit
<1>4. file \in Seq(Lines) /\ Len(file) = 0
  BY <1>3
<1> QED
  BY <1>1, <1>2, <1>3, <1>4 DEF StampInv, StampsRise

LEMMA StepStamp == StampInv /\ [LogNext]_logVars => StampInv'
<1> SUFFICES ASSUME StampInv, [LogNext]_logVars PROVE StampInv'
  OBVIOUS
<1> USE LogAssumption
<1>0. printed \in 0..MaxLines
  BY DEF StampInv
<1>1. CASE Emit
  BY <1>0, <1>1, StampElsewhere DEF Emit
<1>2. CASE ChangeState \/ Listed \/ Forget
  BY <1>0, <1>2, StampElsewhere DEF ChangeState, Listed, Forget
<1>3. CASE UNCHANGED logVars
  BY <1>0, <1>3, StampElsewhere DEF logVars, logState, Output
<1> QED
  BY <1>1, <1>2, <1>3, StampStart, StampPull DEF LogNext, PullRunning, PullStopped

(* Whatever the output, the cap of a call, the stops and the calls and      *)
(* appends that fail: the log's lines are in the order of their stamps, and *)
(* where the streams share no stamp each line is there once, none left out, *)
(* but for what an append that failed had written, which comes again;       *)
(* unless the container's history was started again.                        *)
THEOREM OutputCopiedOnce == LogSpec => []CopiedOnceInOrder
<1>1. StampInv /\ SortedInv => CopiedOnceInOrder
  <2> SUFFICES ASSUME StampInv, SortedInv, ~replayed
               PROVE  /\ StampsRise
                      /\ StreamsApart =>
                            /\ file # <<>> => file[1] <= first
                            /\ \A i \in 1..(Len(file) - 1) : file[i + 1] = file[i] + 1
                            /\ \A x \in spilt : /\ x.after > 0 => file[x.after] < x.line
                                                /\ x.after < Len(file) => file[x.after + 1] <= x.line
    BY Zenon DEF CopiedOnceInOrder, StampsRise
  <2>1. StampsRise
    BY DEF StampInv
  <2>2. ASSUME StreamsApart PROVE OnceInOrder /\ SpiltAnew /\ file \in Seq(Nat)
    BY <2>2 DEF SortedInv, CopyInv
  <2>3. ASSUME StreamsApart PROVE \A i \in 1..(Len(file) - 1) : file[i + 1] = file[i] + 1
    <3>1. CASE file = <<>>
      BY <3>1
    <3>2. CASE file # <<>>
      BY <2>2, <2>3, <3>2 DEF OnceInOrder
    <3> QED
      BY <3>1, <3>2
  <2> QED
    BY <2>1, <2>2, <2>3 DEF OnceInOrder, SpiltAnew
<1> QED
  BY <1>1, InitStamp, StepStamp, InitSorted, StepSorted, PTL DEF LogSpec

-----------------------------------------------------------------------------
(* Rotated log files.                                                      *)

\* The inodes there have been so far.
Created == IF logName = NoFile THEN Len(away) ELSE Len(away) + 1

LogTypes ==
    /\ away \in Seq(Nat) /\ Len(away) <= MaxRenames
    /\ logName \in {NoFile, Len(away) + 1}
    /\ handle \in 1..Created
    /\ content \in [LogInodes -> Seq(Nat)]
    /\ rotated \in [Slots -> Seq(Nat)]
    /\ {written, rounds, faults} \subseteq Nat
    /\ rotation \in {"idle", "shift", "copy", "truncate"}
    /\ cut \in BOOLEAN /\ crossed \in BOOLEAN

\* A line that is somewhere was written, and an inode to come is empty.
Written(s) == \A i \in DOMAIN s : s[i] <= written
ContentWritten == \A i \in LogInodes : Written(content[i]) /\ (i > Created => content[i] = <<>>)

ContentRising == \A i \in LogInodes : Rising(content[i])

\* The order holds at every step of a rotation, but for the log itself, which
\* between the copy and the truncate holds what the first rotated file does.
SlotsRising == ~cut => \A s \in Slots : Written(rotated[s]) /\ Rising(rotated[s])
SlotsInOrder == ~cut => \A s, t \in Slots : s > t => Before(rotated[s], rotated[t])
LogIsNewest ==
    ~cut /\ rotation # "truncate" /\ logName # NoFile =>
        \A s \in Slots : Before(rotated[s], content[logName])

\* What a rotation has so far of the files of the ones before it, and its own.
Undisturbed == faults = 0 /\ ~crossed
Filled(low, high) == \A s \in Slots : low <= s /\ s <= high => rotated[s] # <<>>
SlotsFilled ==
    Undisturbed =>
        /\ ~cut
        /\ rotation # "idle" => logName # NoFile
        /\ rotation \in {"shift", "copy"} => content[logName] # <<>>
        /\ rotation = "idle" => Filled(1, rounds)
        /\ rotation = "shift" => \A s \in Slots : s <= rounds /\ s < Retention => rotated[s] # <<>>
        /\ rotation = "copy" => Filled(2, rounds + 1)
        /\ rotation = "truncate" => Filled(1, rounds + 1)

RotateInv ==
    /\ LogTypes /\ ContentWritten /\ ContentRising
    /\ SlotsRising /\ SlotsInOrder /\ LogIsNewest /\ SlotsFilled

\* Nothing is written at the start.
LEMMA InitRotate == RotateInit => RotateInv
<1> SUFFICES ASSUME RotateInit PROVE RotateInv
  OBVIOUS
<1> USE RotateAssumption DEF RotateInit
<1>1. LogTypes
  <2>1. away \in Seq(Nat) /\ Len(away) = 0 /\ Created = 1
    BY DEF Created, NoFile
  <2>2. content \in [LogInodes -> Seq(Nat)] /\ rotated \in [Slots -> Seq(Nat)]
    OBVIOUS
  <2>3. handle \in 1..Created /\ logName = Len(away) + 1 /\ Len(away) <= MaxRenames
    BY <2>1
  <2>4. written = 0 /\ rounds = 0 /\ faults = 0 /\ rotation = "idle"
    OBVIOUS
  <2>5. cut \in BOOLEAN /\ crossed \in BOOLEAN
    OBVIOUS
  <2> QED
    BY <2>1, <2>2, <2>3, <2>4, <2>5 DEF LogTypes
<1>2. /\ \A i \in LogInodes : content[i] = <<>>
      /\ \A s \in Slots : rotated[s] = <<>>
  OBVIOUS
<1>3. ContentWritten /\ ContentRising
  BY <1>2 DEF ContentWritten, ContentRising, Written, Rising
<1>4. SlotsRising /\ SlotsInOrder /\ LogIsNewest
  BY <1>2 DEF SlotsRising, SlotsInOrder, LogIsNewest, Written, Rising, Before
<1>5. SlotsFilled
  BY DEF SlotsFilled, Filled, Slots
<1> QED
  BY <1>1, <1>3, <1>4, <1>5 DEF RotateInv

\* A new line comes after all the others.
LEMMA AppendKeepsOrder ==
    ASSUME NEW s \in Seq(Nat), NEW n \in Nat, \A i \in DOMAIN s : s[i] < n
    PROVE  /\ Append(s, n) \in Seq(Nat)
           /\ \A i \in DOMAIN Append(s, n) : Append(s, n)[i] <= n
           /\ Rising(s) => Rising(Append(s, n))
<1>1. /\ Append(s, n) \in Seq(Nat) /\ Len(Append(s, n)) = Len(s) + 1
      /\ DOMAIN Append(s, n) = 1..(Len(s) + 1) /\ DOMAIN s = 1..Len(s) /\ Len(s) \in Nat
      /\ \A i \in 1..Len(s) : Append(s, n)[i] = s[i]
      /\ Append(s, n)[Len(s) + 1] = n
  OBVIOUS
<1>2. \A i \in 1..Len(s) : s[i] \in Nat
  OBVIOUS
<1> QED
  BY <1>1, <1>2 DEF Rising

\* What was before the file is before the new line too.
LEMMA AppendStaysAfter ==
    ASSUME NEW r \in Seq(Nat), NEW s \in Seq(Nat), NEW n \in Nat, Before(r, s),
           \A i \in DOMAIN r : r[i] < n
    PROVE  Before(r, Append(s, n))
<1>1. /\ DOMAIN Append(s, n) = 1..(Len(s) + 1) /\ DOMAIN s = 1..Len(s) /\ Len(s) \in Nat
      /\ \A i \in 1..Len(s) : Append(s, n)[i] = s[i]
      /\ Append(s, n)[Len(s) + 1] = n
  OBVIOUS
<1> QED
  BY <1>1 DEF Before

\* The handle and the path are at inodes that there are; the path at the newest.
LEMMA CreatedSoFar ==
    LogTypes => /\ Created \in Nat /\ Created <= MaxRenames + 1 /\ Len(away) \in Nat
                /\ handle \in LogInodes
                /\ logName # NoFile => logName \in LogInodes /\ logName = Created
  BY RotateAssumption DEF LogTypes, Created, LogInodes, NoFile

\* A captured line goes to the end of its file, and is newer than every other.
LEMMA KeepCapture == RotateInv /\ CaptureLine => RotateInv'
<1> SUFFICES ASSUME RotateInv, CaptureLine PROVE RotateInv'
  OBVIOUS
<1> USE RotateAssumption
<1>t. LogTypes /\ ContentWritten
  BY DEF RotateInv
<1>h. /\ handle \in LogInodes /\ written' = written + 1 /\ written' \in Nat /\ written \in Nat
      /\ content[handle] \in Seq(Nat) /\ content' = [content EXCEPT ![handle] = Append(@, written')]
      /\ UNCHANGED <<logName, handle, rotated, away, rotation, rounds, cut, crossed, faults>>
  <2>1. handle \in LogInodes /\ written \in Nat /\ content[handle] \in Seq(Nat)
    BY <1>t, CreatedSoFar DEF LogTypes
  <2> QED
    BY <2>1 DEF CaptureLine, NoFault
<1>1. \A i \in DOMAIN content[handle] : content[handle][i] < written'
  BY <1>t, <1>h DEF ContentWritten, Written
<1>2. /\ Append(content[handle], written') \in Seq(Nat)
      /\ \A i \in DOMAIN Append(content[handle], written') : Append(content[handle], written')[i] <= written'
      /\ Rising(content[handle]) => Rising(Append(content[handle], written'))
  BY <1>1, <1>h, AppendKeepsOrder
<1>3. /\ content'[handle] = Append(content[handle], written')
      /\ \A i \in LogInodes \ {handle} : content'[i] = content[i]
  BY <1>t, <1>h DEF LogTypes
<1>4. LogTypes'
  BY <1>t, <1>h, <1>2 DEF LogTypes, Created
<1>5. ContentWritten'
  <2> SUFFICES ASSUME NEW i \in LogInodes PROVE Written(content[i])' /\ (i > Created' => content'[i] = <<>>)
    BY DEF ContentWritten
  <2>1. Created' = Created
    BY <1>h DEF Created
  <2>2. CASE i = handle
    <3>1. i <= Created /\ Created \in Nat
      BY <2>2, <1>t, CreatedSoFar DEF LogTypes
    <3>2. Written(content[i])'
      BY <2>2, <1>h, <1>2, <1>3 DEF Written
    <3> QED
      BY <3>1, <3>2, <2>1 DEF LogInodes
  <2>3. CASE i # handle
    <3>1. content'[i] = content[i] /\ content[i] \in Seq(Nat)
      BY <2>3, <1>3, <1>t DEF LogTypes
    <3>2. \A j \in DOMAIN content[i] : content[i][j] \in Nat /\ content[i][j] <= written
      BY <3>1, <1>t DEF ContentWritten, Written
    <3> QED
      BY <3>1, <3>2, <2>1, <1>t, <1>h DEF ContentWritten, Written
  <2> QED
    BY <2>2, <2>3
<1>6. ContentRising'
  BY <1>2, <1>3 DEF RotateInv, ContentRising
<1>7. SlotsRising'
  <2> SUFFICES ASSUME ~cut, NEW s \in Slots PROVE Written(rotated[s])' /\ Rising(rotated[s])'
    BY <1>h DEF SlotsRising
  <2>1. rotated[s] \in Seq(Nat) /\ Rising(rotated[s]) /\ Written(rotated[s])
    BY <1>t DEF LogTypes, RotateInv, SlotsRising
  <2> QED
    BY <2>1, <1>h DEF Written, Rising
<1>8. SlotsInOrder'
  BY <1>h DEF RotateInv, SlotsInOrder
<1>9. LogIsNewest'
  <2> SUFFICES ASSUME ~cut, rotation # "truncate", logName # NoFile, NEW s \in Slots
               PROVE  Before(rotated[s], content'[logName])
    BY <1>h DEF LogIsNewest
  <2>1. Before(rotated[s], content[logName]) /\ logName \in LogInodes
    BY <1>t DEF RotateInv, LogIsNewest, LogTypes, LogInodes
  <2>2. CASE logName = handle
    <3>1. rotated[s] \in Seq(Nat) /\ Written(rotated[s])
      BY <1>t DEF LogTypes, RotateInv, SlotsRising
    <3>2. \A i \in DOMAIN rotated[s] : rotated[s][i] < written'
      BY <3>1, <1>h DEF Written
    <3> QED
      BY <2>1, <2>2, <3>1, <3>2, <1>h, <1>3, AppendStaysAfter
  <2>3. CASE logName # handle
    BY <2>1, <2>3, <1>3
  <2> QED
    BY <2>2, <2>3
<1>10. SlotsFilled'
  <2>1. \A i \in LogInodes : content[i] # <<>> => content'[i] # <<>>
    <3>1. Append(content[handle], written') # <<>>
      BY <1>h
    <3> QED
      BY <3>1, <1>3
  <2>2. Undisturbed /\ rotation # "idle" => logName \in LogInodes
    BY <1>t DEF RotateInv, SlotsFilled, LogTypes, LogInodes
  <2> QED
    BY <2>1, <2>2, <1>h DEF RotateInv, SlotsFilled, Undisturbed, Filled
<1> QED
  BY <1>4, <1>5, <1>6, <1>7, <1>8, <1>9, <1>10 DEF RotateInv

\* A reopened, renamed or created log moves no line; a created one is empty.
LEMMA KeepNames == RotateInv /\ (ReopenIfRotated \/ RenameAway \/ CreateAnew) => RotateInv'
<1> SUFFICES ASSUME RotateInv, ReopenIfRotated \/ RenameAway \/ CreateAnew PROVE RotateInv'
  OBVIOUS
<1> USE RotateAssumption
<1>t. LogTypes /\ ContentWritten
  BY DEF RotateInv
<1>h. /\ UNCHANGED <<content, rotated, written, rotation, rounds, cut>>
      /\ faults' \in Nat /\ (faults' = 0 => faults = 0) /\ (crossed => crossed') /\ crossed' \in BOOLEAN
      /\ logName' = logName \/ logName' = NoFile \/ (logName = NoFile /\ logName' = Len(away') + 1)
  <2>1. faults \in Nat /\ crossed \in BOOLEAN
    BY <1>t DEF LogTypes
  <2>2. crossed' \in BOOLEAN /\ (crossed => crossed')
    BY <2>1, Zenon DEF ReopenIfRotated, RenameAway, CreateAnew
  <2>3. faults' \in Nat /\ (faults' = 0 => faults = 0)
    BY <2>1 DEF ReopenIfRotated, RenameAway, CreateAnew, Fault, NoFault
  <2> QED
    BY <2>2, <2>3 DEF ReopenIfRotated, RenameAway, CreateAnew
<1>1. LogTypes' /\ Created <= Created' /\ (logName = NoFile /\ logName' # NoFile => Created < logName' /\ logName' \in LogInodes)
  <2>1. CASE ReopenIfRotated
    BY <2>1, <1>h, <1>t DEF LogTypes, Created, ReopenIfRotated, NoFile
  <2>2. CASE RenameAway
    <3>1. away' \in Seq(Nat) /\ Len(away') = Len(away) + 1
      BY <2>2, <1>t DEF LogTypes, RenameAway, NoFile
    <3> QED
      BY <3>1, <2>2, <1>h, <1>t DEF LogTypes, Created, RenameAway, NoFile
  <2>3. CASE CreateAnew
    BY <2>3, <1>h, <1>t DEF LogTypes, Created, CreateAnew, NoFile, LogInodes
  <2> QED
    BY <2>1, <2>2, <2>3
<1>2. ContentWritten'
  <2>1. Created \in Nat /\ Created' \in Nat
    <3>1. Len(away) \in Nat /\ Len(away') \in Nat
      BY <1>1, <1>t DEF LogTypes
    <3> QED
      BY <3>1 DEF Created
  <2> QED
    BY <2>1, <1>1, <1>h, <1>t DEF ContentWritten, Written, LogInodes
<1>3. ContentRising' /\ SlotsInOrder'
  BY <1>h DEF RotateInv, ContentRising, SlotsInOrder
<1>4. SlotsRising'
  BY <1>h DEF RotateInv, SlotsRising, Written
<1>5. LogIsNewest'
  <2> SUFFICES ASSUME ~cut, rotation # "truncate", logName' # NoFile, NEW s \in Slots
               PROVE  Before(rotated[s], content[logName'])
    BY <1>h DEF LogIsNewest
  <2>1. CASE logName' = logName
    BY <2>1 DEF RotateInv, LogIsNewest
  <2>2. CASE logName = NoFile
    <3>1. content[logName'] = <<>>
      BY <2>2, <1>1, <1>t DEF ContentWritten, LogInodes, LogTypes, Created
    <3> QED
      BY <3>1 DEF Before
  <2> QED
    BY <2>1, <2>2, <1>h
<1>6. SlotsFilled'
  <2>1. Undisturbed' => Undisturbed /\ (rotation # "idle" => logName' = logName)
    BY <1>h DEF Undisturbed, ReopenIfRotated, RenameAway, CreateAnew, RotateInv, SlotsFilled
  <2> QED
    BY <2>1, <1>h DEF RotateInv, SlotsFilled, Filled
<1> QED
  BY <1>1, <1>2, <1>3, <1>4, <1>5, <1>6 DEF RotateInv

\* The oldest file may go.
LEMMA KeepDrop == RotateInv /\ DropOldest => RotateInv'
<1> SUFFICES ASSUME RotateInv, DropOldest PROVE RotateInv'
  OBVIOUS
<1> USE RotateAssumption
<1>t. LogTypes
  BY DEF RotateInv
<1>h. /\ UNCHANGED <<logName, content, handle, away, written, rounds, cut, crossed>>
      /\ rotation = "idle" /\ rotation' = "shift" /\ logName # NoFile /\ Len(content[logName]) >= MaxSize
      /\ faults \in Nat /\ faults' \in Nat /\ (faults' = 0 => faults = 0)
      /\ Created' = Created
  BY <1>t DEF DropOldest, Fault, NoFault, LogTypes, Created
<1>r. /\ rotated' \in [Slots -> Seq(Nat)]
      /\ \A s \in Slots : s # Retention => rotated'[s] = rotated[s]
      /\ \A s \in Slots : rotated'[s] = rotated[s] \/ rotated'[s] = <<>>
  <2>1. rotated \in [Slots -> Seq(Nat)] /\ Retention \in Slots /\ <<>> \in Seq(Nat)
    BY <1>t DEF LogTypes, Slots
  <2>2. CASE rotated' = [rotated EXCEPT ![Retention] = <<>>]
    BY <2>1, <2>2
  <2>3. CASE UNCHANGED rotated
    BY <2>1, <2>3
  <2> QED
    BY <2>2, <2>3 DEF DropOldest
<1>1. LogTypes'
  BY <1>t, <1>h, <1>r DEF LogTypes
<1>2. ContentWritten' /\ ContentRising'
  BY <1>h DEF RotateInv, ContentWritten, ContentRising, Written
<1>3. SlotsRising'
  BY <1>h, <1>r DEF RotateInv, SlotsRising, Written, Rising
<1>4. SlotsInOrder'
  <2>1. ASSUME ~cut, NEW s \in Slots, NEW t \in Slots, s > t
        PROVE  Before(rotated'[s], rotated'[t])
    <3>1. Before(rotated[s], rotated[t])
      BY <2>1 DEF RotateInv, SlotsInOrder
    <3>2. CASE rotated'[s] = <<>> \/ rotated'[t] = <<>>
      BY <3>2 DEF Before
    <3> QED
      BY <3>1, <3>2, <1>r
  <2> QED
    BY <2>1, <1>h DEF SlotsInOrder
<1>5. LogIsNewest'
  BY <1>h, <1>r DEF RotateInv, LogIsNewest, Before
<1>6. SlotsFilled'
  <2>1. content[logName] # <<>>
    BY <1>t, <1>h DEF LogTypes
  <2>2. Undisturbed' => Undisturbed
    BY <1>h DEF Undisturbed
  <2>3. Retention \in Slots /\ \A s \in Slots : s \in Nat /\ s >= 1
    BY DEF Slots
  <2> QED
    <3>1. Undisturbed' => ~cut /\ \A s \in Slots : s <= rounds => rotated[s] # <<>>
      BY <2>2, <2>3, <1>h DEF RotateInv, SlotsFilled, Filled
    <3>2. Undisturbed' => \A s \in Slots : s <= rounds /\ s < Retention => rotated'[s] # <<>>
      BY <3>1, <2>3, <1>r
    <3> QED
      BY <2>1, <3>1, <3>2, <1>h DEF SlotsFilled
<1> QED
  BY <1>1, <1>2, <1>3, <1>4, <1>5, <1>6 DEF RotateInv

\* In up each slot of r has its own file, the one from below, or none.
Shifted(up, r, S) ==
    /\ up \in [Slots -> Seq(Nat)]
    /\ \A s \in Slots : \/ up[s] = r[s] /\ (s = Retention \/ s \in S)
                        \/ up[s] = <<>>
                        \/ s - 1 \in Slots /\ s - 1 \notin S /\ up[s] = r[s - 1]
    /\ S = {} => \A s \in Slots : s - 1 \in Slots /\ r[s - 1] # <<>> => up[s] # <<>>

\* The renames leave no slot with any other file.
LEMMA ShiftMoves ==
    ASSUME NEW r \in [Slots -> Seq(Nat)], NEW S
    PROVE  Shifted(ShiftUp(r, S), r, S)
<1>1. \A s \in Slots : s > 1 => s - 1 \in Slots
  BY RotateAssumption DEF Slots
<1>2. \A s \in Slots : s - 1 \in Slots => s > 1
  BY RotateAssumption DEF Slots
<1>3. \A s \in Slots : (IF s > 1 /\ s - 1 \notin S /\ r[s - 1] # <<>> THEN r[s - 1]
                       ELSE IF s = Retention \/ s \in S THEN r[s]
                       ELSE <<>>) \in Seq(Nat)
  BY <1>1
<1> QED
  BY <1>1, <1>2, <1>3 DEF ShiftUp, Shifted

\* No file passes another one, wherever a rename fails.
LEMMA KeepShift == RotateInv /\ ShiftRotated => RotateInv'
<1> SUFFICES ASSUME RotateInv, ShiftRotated PROVE RotateInv'
  OBVIOUS
<1> USE RotateAssumption
<1>t. LogTypes
  BY DEF RotateInv
<1>h. /\ UNCHANGED <<logName, content, handle, away, written, rounds, cut, crossed>>
      /\ rotation = "shift" /\ rotation' = "copy"
      /\ faults \in Nat /\ faults' \in Nat /\ (faults' = 0 => faults = 0)
      /\ Created' = Created /\ rounds \in Nat
  <2>1. faults \in Nat /\ rounds \in Nat
    BY <1>t DEF LogTypes
  <2>2. faults' \in Nat /\ (faults' = 0 => faults = 0)
    <3>1. Fault \/ NoFault
      BY Zenon DEF ShiftRotated
    <3> QED
      BY <3>1, <2>1 DEF Fault, NoFault
  <2> QED
    BY <2>1, <2>2 DEF ShiftRotated, Created
<1>p. PICK S : rotated' = ShiftUp(rotated, S) /\ (faults' = 0 => S = {})
  <2>1. CASE rotated' = ShiftUp(rotated, {})
    BY <2>1
  <2>2. CASE \E s \in Slots \ {Retention} : rotated' = ShiftUp(rotated, {s}) /\ Fault
    BY <2>2, <1>h DEF Fault
  <2> QED
    BY <2>1, <2>2 DEF ShiftRotated
<1>r. /\ rotated' \in [Slots -> Seq(Nat)]
      /\ \A s \in Slots : \/ rotated'[s] = rotated[s] /\ (s = Retention \/ s \in S)
                          \/ rotated'[s] = <<>>
                          \/ s - 1 \in Slots /\ s - 1 \notin S /\ rotated'[s] = rotated[s - 1]
      /\ S = {} => \A s \in Slots : s - 1 \in Slots /\ rotated[s - 1] # <<>> => rotated'[s] # <<>>
  <2>1. rotated \in [Slots -> Seq(Nat)]
    BY <1>t DEF LogTypes
  <2>2. Shifted(ShiftUp(rotated, S), rotated, S)
    BY ONLY <2>1, ShiftMoves
  <2>3. Shifted(rotated', rotated, S)
    BY ONLY <2>2, <1>p
  <2> QED
    BY ONLY <2>3 DEF Shifted
<1>m. \A s \in Slots : rotated'[s] = <<>> \/ \E t \in Slots : rotated'[s] = rotated[t]
  BY <1>r
<1>1. LogTypes'
  BY <1>t, <1>h, <1>r DEF LogTypes
<1>2. ContentWritten' /\ ContentRising'
  BY <1>h DEF RotateInv, ContentWritten, ContentRising, Written
<1>3. SlotsRising'
  BY <1>h, <1>m DEF RotateInv, SlotsRising, Written, Rising
<1>4. SlotsInOrder'
  <2> SUFFICES ASSUME ~cut, NEW s \in Slots, NEW t \in Slots, s > t
               PROVE  Before(rotated'[s], rotated'[t])
    BY <1>h DEF SlotsInOrder
  <2>1. CASE rotated'[s] = <<>> \/ rotated'[t] = <<>>
    BY <2>1 DEF Before
  <2>2. CASE rotated'[s] # <<>> /\ rotated'[t] # <<>>
    <3>1. \A a, b \in Slots : a > b => Before(rotated[a], rotated[b])
      BY DEF RotateInv, SlotsInOrder
    <3>2. /\ s \in 1..Retention /\ t \in 1..Retention /\ t # Retention
      BY DEF Slots
    <3>3. CASE rotated'[s] = rotated[s]
      <4>1. rotated'[t] = rotated[t] \/ (t - 1 \in Slots /\ rotated'[t] = rotated[t - 1])
        BY <2>2, <1>r
      <4>2. s > t - 1
        BY <3>2
      <4> QED
        BY <4>1, <4>2, <3>1, <3>3
    <3>4. CASE s - 1 \in Slots /\ s - 1 \notin S /\ rotated'[s] = rotated[s - 1]
      <4>1. CASE rotated'[t] = rotated[t] /\ t \in S
        <5>1. s - 1 > t
          BY <4>1, <3>4, <3>2
        <5> QED
          BY <5>1, <4>1, <3>4, <3>1
      <4>2. CASE t - 1 \in Slots /\ rotated'[t] = rotated[t - 1]
        <5>1. s - 1 > t - 1
          BY <3>2
        <5> QED
          BY <5>1, <4>2, <3>4, <3>1
      <4> QED
        BY <4>1, <4>2, <3>2, <2>2, <1>r
    <3> QED
      BY <3>3, <3>4, <2>2, <1>r
  <2> QED
    BY <2>1, <2>2
<1>5. LogIsNewest'
  BY <1>h, <1>m DEF RotateInv, LogIsNewest, Before
<1>6. SlotsFilled'
  <2> SUFFICES ASSUME Undisturbed' PROVE ~cut /\ logName # NoFile /\ content[logName] # <<>> /\ Filled(2, rounds + 1)'
    BY <1>h DEF SlotsFilled
  <2>1. Undisturbed /\ S = {}
    BY <1>h, <1>p DEF Undisturbed
  <2>2. /\ ~cut /\ logName # NoFile /\ content[logName] # <<>>
        /\ \A s \in Slots : s <= rounds /\ s < Retention => rotated[s] # <<>>
    BY <2>1, <1>h DEF RotateInv, SlotsFilled
  <2>3. ASSUME NEW s \in Slots, 2 <= s, s <= rounds + 1 PROVE rotated'[s] # <<>>
    <3>1. s - 1 \in Slots /\ s - 1 <= rounds /\ s - 1 < Retention
      BY <2>3, <1>h DEF Slots
    <3> QED
      BY <3>1, <2>1, <2>2, <1>r
  <2> QED
    BY <2>2, <2>3, <1>h DEF Filled
<1> QED
  BY <1>1, <1>2, <1>3, <1>4, <1>5, <1>6 DEF RotateInv

\* The copy is newer than all that was rotated before; one that fails is the exception.
LEMMA KeepCopy == RotateInv /\ CopyToFirst => RotateInv'
<1> SUFFICES ASSUME RotateInv, CopyToFirst PROVE RotateInv'
  OBVIOUS
<1> USE RotateAssumption
<1>t. LogTypes /\ 1 \in Slots /\ \A s \in Slots : s \in Nat /\ s >= 1
  BY DEF RotateInv, Slots
<1>h. /\ UNCHANGED <<logName, content, handle, away, written, rounds, crossed>>
      /\ rotation = "copy" /\ faults \in Nat /\ rounds \in Nat
      /\ Created' = Created
  BY <1>t DEF CopyToFirst, LogTypes, Created
<1>c. ContentWritten' /\ ContentRising'
  BY <1>h DEF RotateInv, ContentWritten, ContentRising, Written
<1>1. CASE /\ logName # NoFile /\ NoFault
           /\ rotated' = [rotated EXCEPT ![1] = content[logName]]
           /\ rotation' = "truncate" /\ UNCHANGED cut
  <2>1. /\ logName \in LogInodes /\ content[logName] \in Seq(Nat)
        /\ Written(content[logName]) /\ Rising(content[logName])
    BY <1>1, <1>t, CreatedSoFar DEF LogTypes, RotateInv, ContentWritten, ContentRising
  <2>2. /\ rotated' \in [Slots -> Seq(Nat)] /\ rotated'[1] = content[logName]
        /\ \A s \in Slots : s # 1 => rotated'[s] = rotated[s]
    BY <2>1, <1>1, <1>t DEF LogTypes
  <2>3. LogTypes'
    BY <2>2, <1>t, <1>h, <1>1 DEF LogTypes, NoFault
  <2>4. SlotsRising'
    BY <2>1, <2>2, <1>1, <1>h DEF RotateInv, SlotsRising, Written
  <2>5. SlotsInOrder'
    <3>1. ASSUME ~cut, NEW s \in Slots, NEW t \in Slots, s > t
          PROVE  Before(rotated'[s], rotated'[t])
      <4>1. s # 1 /\ rotated'[s] = rotated[s]
        BY <3>1, <2>2, <1>t
      <4>2. CASE t = 1
        BY <4>1, <4>2, <3>1, <2>2, <1>1, <1>h DEF RotateInv, LogIsNewest
      <4>3. CASE t # 1
        BY <4>1, <4>3, <3>1, <2>2 DEF RotateInv, SlotsInOrder
      <4> QED
        BY <4>2, <4>3
    <3> QED
      BY <3>1, <1>1 DEF SlotsInOrder
  <2>6. LogIsNewest'
    BY <1>1 DEF LogIsNewest
  <2>7. SlotsFilled'
    <3>1. Undisturbed' => /\ ~cut /\ logName # NoFile /\ content[logName] # <<>>
                          /\ \A s \in Slots : 2 <= s /\ s <= rounds + 1 => rotated[s] # <<>>
      BY <1>1, <1>h DEF Undisturbed, NoFault, RotateInv, SlotsFilled, Filled
    <3>2. \A s \in Slots : s # 1 => 2 <= s
      BY <1>t
    <3>3. Undisturbed' => \A s \in Slots : 1 <= s /\ s <= rounds + 1 => rotated'[s] # <<>>
      BY <3>1, <3>2, <2>2
    <3> QED
      BY <3>1, <3>3, <1>1, <1>h DEF SlotsFilled, Filled
  <2> QED
    BY <2>3, <2>4, <2>5, <2>6, <2>7, <1>c DEF RotateInv
<1>2. CASE /\ logName # NoFile /\ Fault
           /\ \E n \in 0..Len(content[logName]) :
                 rotated' = [rotated EXCEPT ![1] = SubSeq(content[logName], 1, n)]
           /\ rotation' = "idle" /\ cut' = TRUE
  <2>1. /\ logName \in LogInodes /\ content[logName] \in Seq(Nat)
    BY <1>2, <1>t, CreatedSoFar DEF LogTypes
  <2>2. PICK n \in 0..Len(content[logName]) :
                 rotated' = [rotated EXCEPT ![1] = SubSeq(content[logName], 1, n)]
    BY <1>2
  <2>3. SubSeq(content[logName], 1, n) \in Seq(Nat)
    BY <2>1
  <2>4. LogTypes'
    BY <2>2, <2>3, <1>t, <1>h, <1>2 DEF LogTypes, Fault
  <2>5. SlotsRising' /\ SlotsInOrder' /\ LogIsNewest'
    BY <1>2 DEF SlotsRising, SlotsInOrder, LogIsNewest
  <2>6. SlotsFilled'
    BY <1>2, <1>h DEF SlotsFilled, Undisturbed, Fault
  <2> QED
    BY <2>4, <2>5, <2>6, <1>c DEF RotateInv
<1>3. CASE /\ (logName = NoFile /\ NoFault) \/ Fault
           /\ rotation' = "idle" /\ UNCHANGED <<rotated, cut>>
  <2>1. faults' \in Nat /\ (faults' = 0 => faults = 0 /\ logName = NoFile)
    BY <1>3, <1>h DEF Fault, NoFault
  <2>2. LogTypes'
    BY <2>1, <1>t, <1>h, <1>3 DEF LogTypes
  <2>3. SlotsRising' /\ SlotsInOrder' /\ LogIsNewest'
    BY <1>3, <1>h DEF RotateInv, SlotsRising, SlotsInOrder, LogIsNewest, Written
  <2>4. ~Undisturbed'
    BY <2>1, <1>h DEF Undisturbed, RotateInv, SlotsFilled
  <2> QED
    BY <2>2, <2>3, <2>4, <1>c DEF RotateInv, SlotsFilled
<1> QED
  BY <1>1, <1>2, <1>3 DEF CopyToFirst

\* The truncated log holds nothing that its copy does.
LEMMA KeepTruncate == RotateInv /\ TruncateLog => RotateInv'
<1> SUFFICES ASSUME RotateInv, TruncateLog PROVE RotateInv'
  OBVIOUS
<1> USE RotateAssumption
<1>t. LogTypes
  BY DEF RotateInv
<1>h. /\ UNCHANGED <<logName, handle, rotated, away, written, crossed>>
      /\ rotation = "truncate" /\ rotation' = "idle" /\ rounds' = rounds + 1
      /\ Created' = Created
  BY DEF TruncateLog, Created
<1>f. /\ faults' \in Nat /\ (faults' = 0 => faults = 0 /\ cut' = cut) /\ cut' \in BOOLEAN
      /\ cut => cut'
  <2>1. faults \in Nat /\ cut \in BOOLEAN
    BY <1>t DEF LogTypes
  <2>2. (NoFault /\ cut' = cut) \/ (Fault /\ cut' = TRUE)
    BY Zenon DEF TruncateLog
  <2>3. cut' \in BOOLEAN /\ (cut => cut')
    BY <2>1, <2>2, Zenon
  <2>4. faults' \in Nat /\ (faults' = 0 => faults = 0 /\ cut' = cut)
    BY <2>1, <2>2 DEF Fault, NoFault
  <2> QED
    BY <2>3, <2>4
<1>c. /\ content' \in [LogInodes -> Seq(Nat)]
      /\ \A i \in LogInodes : content'[i] = content[i] \/ content'[i] = <<>>
      /\ ~cut' /\ logName # NoFile => content'[logName] = <<>>
  <2>1. content \in [LogInodes -> Seq(Nat)] /\ <<>> \in Seq(Nat)
    BY <1>t DEF LogTypes
  <2>2. CASE logName # NoFile /\ content' = [content EXCEPT ![logName] = <<>>]
    <3>1. logName \in LogInodes
      BY <2>2, <1>t, CreatedSoFar
    <3> QED
      BY <3>1, <2>1, <2>2
  <2>3. CASE UNCHANGED content /\ (logName = NoFile \/ cut')
    BY <2>1, <2>3
  <2> QED
    BY <2>2, <2>3, Zenon DEF TruncateLog
<1>1. LogTypes'
  BY <1>t, <1>h, <1>f, <1>c DEF LogTypes
<1>2. ContentWritten' /\ ContentRising'
  BY <1>h, <1>c DEF RotateInv, ContentWritten, ContentRising, Written, Rising
<1>3. SlotsRising' /\ SlotsInOrder'
  BY <1>h, <1>f DEF RotateInv, SlotsRising, SlotsInOrder, Written
<1>4. LogIsNewest'
  BY <1>h, <1>c DEF LogIsNewest, Before
<1>5. SlotsFilled'
  BY <1>h, <1>f DEF RotateInv, SlotsFilled, Undisturbed, Filled
<1> QED
  BY <1>1, <1>2, <1>3, <1>4, <1>5 DEF RotateInv

\* Every step keeps it.
LEMMA StepRotate == RotateInv /\ [RotateNext]_rotateVars => RotateInv'
<1> SUFFICES ASSUME RotateInv, [RotateNext]_rotateVars PROVE RotateInv'
  OBVIOUS
<1>1. CASE UNCHANGED rotateVars
  BY <1>1 DEF rotateVars, rotateState, RotateInv, LogTypes, Created, ContentWritten, Written,
     ContentRising, SlotsRising, SlotsInOrder, LogIsNewest, SlotsFilled, Undisturbed, Filled
<1> QED
  BY <1>1, KeepCapture, KeepNames, KeepDrop, KeepShift, KeepCopy, KeepTruncate DEF RotateNext

(* However many lines are written and files kept, whichever renames, copies *)
(* and truncates fail and wherever logrotate comes between: the rotated     *)
(* files and the log hold the worker's lines in order and none twice, and   *)
(* without failures no rotation loses its file.                             *)
THEOREM RotationKeepsOrder == RotateSpec => []LinesStayInOrder
<1>1. RotateInv => LinesStayInOrder
  <2> SUFFICES ASSUME RotateInv PROVE LinesStayInOrder
    OBVIOUS
  <2>1. rotation = "idle" /\ faults = 0 /\ ~crossed => \A s \in Slots : s <= rounds => rotated[s] # <<>>
    <3>1. \A s \in Slots : 1 <= s
      BY RotateAssumption DEF Slots
    <3> QED
      BY <3>1 DEF RotateInv, SlotsFilled, Filled, Undisturbed
  <2> QED
    BY <2>1 DEF RotateInv, LinesStayInOrder, ContentRising, SlotsRising, SlotsInOrder, LogIsNewest
<1> QED
  BY <1>1, InitRotate, StepRotate, PTL DEF RotateSpec
=============================================================================
