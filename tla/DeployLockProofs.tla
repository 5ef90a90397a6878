--------------------------- MODULE DeployLockProofs ---------------------------
(***************************************************************************)
(* What the deploy lock guarantees for any number of deploys, operations,  *)
(* restarts and probes, and any grace and restart wait.                    *)
(***************************************************************************)
EXTENDS DeployLock, Integers, TLAPS

(* The processes that have the flock in their hands: a probe for a moment, *)
(* any other process until it returns or dies.                             *)
Owns(p) == HasLock(p) \/ pc[p] = "probing"

(* MutualExclusion is not inductive by itself: a probe that ends frees the *)
(* lock, so one has to know that the probe had it.  TagNamesHolder needs   *)
(* both: only the owner writes the file.                                   *)
OwnerHolds == \A p \in Procs : Owns(p) => holder = p

IInv == TypeOK /\ OwnerHolds /\ TagNamesHolder

(* The clock's range is not empty. *)
LEMMA ClockStart == 0 \in 0..RestartWait /\ RestartWait \in Nat
  BY WaitAssumption

LEMMA NextTick == \A k \in 0..RestartWait : k < RestartWait => k + 1 \in 0..RestartWait
<1> SUFFICES ASSUME NEW k \in 0..RestartWait, k < RestartWait
             PROVE  k + 1 \in 0..RestartWait
  OBVIOUS
<1>1. RestartWait \in Int /\ k \in Int /\ 0 <= k
  BY WaitAssumption
<1> QED
  BY <1>1

(* Every state a behaviour of the lock reaches has the declared types: the *)
(* clock of retry_acquire stays within its limit and the file holds a tag  *)
(* that held_by_restart understands, or nothing.                           *)
THEOREM TypeCorrect == Spec => []TypeOK
<1>1. Init => TypeOK
  BY ClockStart DEF Init, TypeOK, States
<1>2. TypeOK /\ [Next]_vars => TypeOK'
  <2> SUFFICES ASSUME TypeOK, [Next]_vars PROVE TypeOK'
    OBVIOUS
  <2> USE ClockStart DEF TypeOK, States, Goto
  <2>1. ASSUME NEW p \in Procs, Acquire(p) PROVE TypeOK'
    BY <2>1 DEF Acquire
  <2>2. ASSUME NEW p \in Procs, Retry(p) PROVE TypeOK'
    BY <2>2 DEF Retry
  <2>3. ASSUME NEW p \in Procs, Decide(p) PROVE TypeOK'
    BY <2>3 DEF Decide
  <2>4. ASSUME NEW p \in Procs, SetLen(p) PROVE TypeOK'
    BY <2>4 DEF SetLen
  <2>5. ASSUME NEW p \in Procs, Write(p) PROVE TypeOK'
    BY <2>5 DEF Write, Tag
  <2>6. ASSUME NEW p \in Procs, RecordFails(p) \/ Release(p) \/ ProbeDone(p)
        PROVE  TypeOK'
    BY <2>6 DEF RecordFails, Release, ProbeDone
  <2>7. ASSUME NEW p \in Procs, Abandon(p) PROVE TypeOK'
    BY <2>7 DEF Abandon
  <2>8. ASSUME NEW p \in Procs, Probe(p) PROVE TypeOK'
    BY <2>8 DEF Probe
  <2>9. ASSUME NEW p \in Procs, Tick(p) PROVE TypeOK'
    <3>0. waited[p] \in 0..RestartWait /\ waited[p] < RestartWait
      BY <2>9 DEF Tick
    <3>1. waited[p] + 1 \in 0..RestartWait
      BY <3>0, NextTick
    <3>2. waited' \in [Procs -> 0..RestartWait]
      BY <2>9, <3>1 DEF Tick
    <3> QED
      BY <2>9, <3>2 DEF Tick
  <2>10. CASE UNCHANGED vars
    BY <2>10 DEF vars
  <2> QED
    BY <2>1, <2>2, <2>3, <2>4, <2>5, <2>6, <2>7, <2>8, <2>9, <2>10 DEF Next
<1> QED
  BY <1>1, <1>2, PTL DEF Spec

(* A step of one process never makes another one an owner, and a process   *)
(* that becomes an owner found the lock free.                              *)
LEMMA OwnerStep ==
  ASSUME TypeOK, OwnerHolds, NEW p \in Procs,
         \/ Acquire(p) \/ Retry(p) \/ Decide(p)
         \/ SetLen(p) \/ Write(p) \/ RecordFails(p)
         \/ Release(p) \/ Abandon(p)
         \/ Probe(p) \/ ProbeDone(p)
         \/ Tick(p)
  PROVE  OwnerHolds'
<1> USE ProcsAssumption DEF TypeOK, OwnerHolds, Owns, HasLock, Goto
<1>1. CASE Acquire(p)
  BY <1>1 DEF Acquire
<1>2. CASE Retry(p)
  <2>1. CASE holder = NoHolder
    <3>1. \A q \in Procs : ~Owns(q)
      BY <2>1
    <3>2. \A q \in Procs : q # p => pc'[q] = pc[q]
      BY <1>2 DEF Retry
    <3>3. holder' = p
      BY <1>2, <2>1 DEF Retry
    <3> QED
      BY <3>1, <3>2, <3>3
  <2>2. CASE holder # NoHolder
    BY <1>2, <2>2 DEF Retry
  <2> QED
    BY <2>1, <2>2
<1>3. CASE Decide(p)
  BY <1>3 DEF Decide
<1>4. CASE SetLen(p) \/ Write(p)
  BY <1>4 DEF SetLen, Write
<1>5. CASE RecordFails(p) \/ Release(p) \/ ProbeDone(p)
  BY <1>5 DEF RecordFails, Release, ProbeDone
<1>6. CASE Abandon(p)
  BY <1>6 DEF Abandon
<1>7. CASE Probe(p)
  BY <1>7 DEF Probe
<1>8. CASE Tick(p)
  BY <1>8 DEF Tick
<1> QED
  BY <1>1, <1>2, <1>3, <1>4, <1>5, <1>6, <1>7, <1>8

(* IInv is inductive: the flock alone keeps owners apart, and only an owner *)
(* changes the file.                                                        *)
THEOREM Inductive == Spec => []IInv
<1>1. Init => IInv
  <2>1. Init => TypeOK
    BY ClockStart DEF Init, TypeOK, States
  <2>2. Init => OwnerHolds /\ TagNamesHolder
    BY DEF Init, OwnerHolds, Owns, HasLock, TagNamesHolder
  <2> QED
    BY <2>1, <2>2 DEF IInv
<1>2. IInv /\ TypeOK' /\ [Next]_vars => IInv'
  <2> SUFFICES ASSUME IInv, TypeOK', [Next]_vars PROVE IInv'
    OBVIOUS
  <2>1. CASE UNCHANGED vars
    BY <2>1 DEF IInv, OwnerHolds, Owns, HasLock, TagNamesHolder, TypeOK, vars
  <2>2. ASSUME Next PROVE IInv'
    <3>1. PICK p \in Procs :
            \/ Acquire(p) \/ Retry(p) \/ Decide(p)
            \/ SetLen(p) \/ Write(p) \/ RecordFails(p)
            \/ Release(p) \/ Abandon(p)
            \/ Probe(p) \/ ProbeDone(p)
            \/ Tick(p)
      BY <2>2 DEF Next
    <3>2. OwnerHolds'
      BY <3>1, OwnerStep DEF IInv
    <3>3. TagNamesHolder'
      <4> USE ProcsAssumption DEF IInv, TypeOK, TagNamesHolder, Goto
      <4>1. CASE SetLen(p)
        BY <4>1 DEF SetLen, OwnerHolds, Owns, HasLock
      <4>2. CASE Write(p)
        <5>1. \A q \in Procs : q # p => pc'[q] # "holding"
          BY <4>2 DEF Write, OwnerHolds, Owns, HasLock
        <5> QED
          BY <4>2, <5>1 DEF Write
      <4>3. CASE Acquire(p) \/ Retry(p) \/ Decide(p)
        BY <4>3 DEF Acquire, Retry, Decide
      <4>4. CASE RecordFails(p) \/ Release(p) \/ Abandon(p)
        BY <4>4 DEF RecordFails, Release, Abandon
      <4>5. CASE Probe(p) \/ ProbeDone(p) \/ Tick(p)
        BY <4>5 DEF Probe, ProbeDone, Tick
      <4> QED
        BY <3>1, <4>1, <4>2, <4>3, <4>4, <4>5
    <3> QED
      BY <3>2, <3>3 DEF IInv
  <2> QED
    BY <2>1, <2>2
<1> QED
  BY <1>1, <1>2, TypeCorrect, PTL DEF Spec

(* At most one process works on an app at a time, and it has the lock.     *)
THEOREM Exclusive == Spec => []MutualExclusion
<1>1. IInv => MutualExclusion
  BY DEF IInv, OwnerHolds, Owns, MutualExclusion
<1> QED
  BY <1>1, Inductive, PTL

(* The tag in the file is the working holder's. *)
THEOREM TagIsHolders == Spec => []TagNamesHolder
<1>1. IInv => TagNamesHolder
  BY DEF IInv
<1> QED
  BY <1>1, Inductive, PTL

(* A contender leaves its decision for a refusal or another sleep only by  *)
(* deciding.                                                               *)
LEMMA OnlyDecides ==
  ASSUME TypeOK, Next, NEW d \in Procs, pc[d] = "decide", pc'[d] \in {"refused", "sleep"}
  PROVE  Decide(d)
<1>1. PICK p \in Procs :
        \/ Acquire(p) \/ Retry(p) \/ Decide(p)
        \/ SetLen(p) \/ Write(p) \/ RecordFails(p)
        \/ Release(p) \/ Abandon(p)
        \/ Probe(p) \/ ProbeDone(p)
        \/ Tick(p)
  BY DEF Next
<1> USE DEF TypeOK, Goto
<1>2. CASE Acquire(p)
  BY <1>2 DEF Acquire
<1>3. CASE Retry(p)
  BY <1>3 DEF Retry
<1>4. CASE Decide(p)
  BY <1>4 DEF Decide
<1>5. CASE SetLen(p) \/ Write(p)
  BY <1>5 DEF SetLen, Write
<1>6. CASE RecordFails(p) \/ Release(p) \/ Abandon(p)
  BY <1>6 DEF RecordFails, Release, Abandon
<1>7. CASE Probe(p) \/ ProbeDone(p) \/ Tick(p)
  BY <1>7 DEF Probe, ProbeDone, Tick
<1> QED
  BY <1>1, <1>2, <1>3, <1>4, <1>5, <1>6, <1>7

(* A deploy is refused while a restart works only after RESTART_WAIT: past *)
(* the grace it reads the tag, and the tag is the restart's.               *)
THEOREM RefusalIsLate == Spec => RefusedOutsideWindow
<1>1. IInv /\ [Next]_vars =>
        [\A p \in Deploys : pc[p] = "decide" /\ pc'[p] = "refused" =>
           \/ waited[p] >= RestartWait
           \/ \A r \in Restarts : pc[r] # "holding"]_vars
  <2> SUFFICES ASSUME IInv, Next, NEW d \in Deploys,
                      pc[d] = "decide", pc'[d] = "refused",
                      NEW r \in Restarts, pc[r] = "holding"
               PROVE  waited[d] >= RestartWait
    OBVIOUS
  <2>1. d \in Procs /\ r \in Procs
    BY DEF Procs
  <2>2. tag = "restart"
    BY <2>1 DEF IInv, TagNamesHolder, Tag
  <2>3. Decide(d)
    BY <2>1, OnlyDecides DEF IInv
  <2>4. ~KeepWaiting(d)
    BY <2>1, <2>3 DEF Decide, Goto, IInv, TypeOK
  <2> QED
    BY <2>1, <2>2, <2>4, WaitAssumption DEF KeepWaiting, RestartWaitOf, IInv, TypeOK
<1> QED
  BY <1>1, Inductive, PTL DEF Spec, RefusedOutsideWindow

(* A deploy does not go on waiting past the grace for an operation or a    *)
(* deploy that works: the tag it reads is that holder's, not a restart's   *)
(* that an earlier holder left.                                            *)
THEOREM OperationIsNotWaitedFor == Spec => OperationRefusesDeploy
<1>1. IInv /\ [Next]_vars =>
        [\A p \in Deploys, o \in Deploys \cup Operations :
           /\ pc[p] = "decide" /\ pc'[p] = "sleep"
           /\ pc[o] = "holding"
           => waited[p] < ContentionGrace]_vars
  <2> SUFFICES ASSUME IInv, Next, NEW d \in Deploys, NEW o \in Deploys \cup Operations,
                      pc[d] = "decide", pc'[d] = "sleep", pc[o] = "holding"
               PROVE  waited[d] < ContentionGrace
    OBVIOUS
  <2>1. d \in Procs /\ o \in Procs /\ o \notin Restarts
    BY ProcsAssumption DEF Procs
  <2>2. tag = "operation"
    BY <2>1 DEF IInv, TagNamesHolder, Tag
  <2>3. Decide(d)
    BY <2>1, OnlyDecides DEF IInv
  <2>4. KeepWaiting(d)
    BY <2>1, <2>3 DEF Decide, Goto, IInv, TypeOK
  <2> QED
    BY <2>2, <2>4 DEF KeepWaiting
<1> QED
  BY <1>1, Inductive, PTL DEF Spec, OperationRefusesDeploy
=============================================================================
