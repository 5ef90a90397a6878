--------------------------- MODULE CommandsProofs ---------------------------
(***************************************************************************)
(* Proofs about the commands of one host: that deploys are told truly      *)
(* (Push), that pinned ports differ (Ports), that a deploy leaves what the *)
(* Procfile says (WorkerFiles), that destroy can be repeated (AppFiles)    *)
(* and that the commands on a container app do what they report (Rollout). *)
(***************************************************************************)
EXTENDS Push, Ports, WorkerFiles, AppFiles, Rollout, Integers, SequenceTheorems, FunctionTheorems, FiniteSetTheorems, TLAPS

-----------------------------------------------------------------------------
(* Deploys and releases.                                                   *)

BeforeDetect == {"env", "procfile", "scaling", "preflight", "pre-deploy", "detect"}
AfterDetect == {"pre-build", "build", "post-build", "release", "live-env"}
Prepared == AfterDetect \cup {"workers", "router", "record"}
UnderLock == {"sync"} \cup BeforeDetect \cup Prepared
Deploying == {"clone", "exists", "lock", "ok"} \cup UnderLock
Places == Deploying \cup {"none", "end", "push", "hook", "refs", "rollback", "deploy", "path", "rename", "bare",
                          "error", "exit", "status"}

CallRecord == [kind : {"none", "push", "rollback", "deploy", "path", "bare"}, at : Places, todo : Seq(Nat), rev : Nat,
               status : {"empty", "failed"}, done : Nat, asked : Nat, silent : BOOLEAN, exit : {"none", "ok", "failed"}]
PushTypes ==
    /\ refs \subseteq Nat /\ tree \in Nat /\ log \in Seq(Nat)
    /\ lockedBy \in Callers \cup {"none"}
    /\ call \in [Callers -> CallRecord]
    /\ swapped \in BOOLEAN

\* What a push has deployed and has still to deploy is what it was asked for.
CountsRight(k) ==
    /\ k.kind = "push" => k.at \notin {"none", "rollback", "deploy", "path", "rename", "bare"}
    /\ k.kind = "push" /\ ~k.silent =>
          /\ k.at \in {"push", "hook", "refs"} => k.done + Len(k.todo) = k.asked
          /\ k.at \in Deploying => k.done + 1 + Len(k.todo) = k.asked
          /\ k.at = "status" => k.status = "failed" \/ k.done = k.asked
          /\ k.exit = "ok" => k.at = "end" /\ k.done = k.asked
\* Who runs the steps of do_deploy holds the lock, and finds the files it detected,
\* unless the directory was swapped.
HolderWorks(c) ==
    /\ call[c].at \in UnderLock <=> lockedBy = c
    /\ ~swapped /\ call[c].at \in Prepared => dir \in {"checkout", "files"}
    /\ ~swapped /\ call[c].at \in {"router", "record"} => runs = tree
PushInv ==
    /\ PushTypes
    /\ \A c \in Callers : CountsRight(call[c]) /\ HolderWorks(c)
    /\ ReleaseIsWhatRuns

LEMMA NextPlace ==
  /\ \A s \in BeforeDetect : After(s) \in BeforeDetect \cup {"pre-build"}
  /\ \A s \in BeforeDetect \ {"detect"} : After(s) \in BeforeDetect
  /\ \A s \in AfterDetect : After(s) \in AfterDetect \cup {"workers"}
<1> DEFINE I(s) == CHOOSE i \in 1..(Len(Steps) - 1) : Steps[i] = s
<1>1. Len(Steps) = 15
  BY DEF Steps
<1>2. I("env") = 2 /\ I("procfile") = 3 /\ I("scaling") = 4 /\ I("preflight") = 5 /\ I("pre-deploy") = 6
  BY <1>1 DEF Steps
<1>3. I("detect") = 7 /\ I("pre-build") = 8 /\ I("build") = 9 /\ I("post-build") = 10 /\ I("release") = 11 /\ I("live-env") = 12
  BY <1>1 DEF Steps
<1>4. \A s : After(s) = Steps[1 + I(s)]
  BY DEF After
<1> HIDE DEF I
<1>5. /\ After("env") = "procfile" /\ After("procfile") = "scaling" /\ After("scaling") = "preflight"
      /\ After("preflight") = "pre-deploy" /\ After("pre-deploy") = "detect" /\ After("detect") = "pre-build"
  BY <1>2, <1>3, <1>4 DEF Steps
<1>6. /\ After("pre-build") = "build" /\ After("build") = "post-build" /\ After("post-build") = "release"
      /\ After("release") = "live-env" /\ After("live-env") = "workers"
  BY <1>3, <1>4 DEF Steps
<1> QED
  BY <1>5, <1>6 DEF BeforeDetect, AfterDetect

\* A step that changes one command only.
LEMMA OneCall ==
  ASSUME PushTypes, NEW c \in Callers, NEW k \in CallRecord, call' = [call EXCEPT ![c] = k]
  PROVE  /\ call' \in [Callers -> CallRecord] /\ call'[c] = k
         /\ \A d \in Callers : d # c => call'[d] = call[d]
BY DEF PushTypes

\* A step that moves one command only.
LEMMA OneMove ==
  ASSUME PushTypes, NEW c \in Callers, NEW s \in Places, Move(c, s)
  PROVE  /\ call' \in [Callers -> CallRecord] /\ call'[c] = [call[c] EXCEPT !.at = s]
         /\ \A d \in Callers : d # c => call'[d] = call[d]
         /\ call'[c].at = s
<1> DEFINE k == [call[c] EXCEPT !.at = s]
<1>1. call' = [call EXCEPT ![c] = k]
  BY DEF Move
<1>2. k \in CallRecord /\ k.at = s
  BY DEF PushTypes, CallRecord
<1> QED
  BY <1>1, <1>2, OneCall

\* A command that goes on within its deploy, or fails, has deployed no more than before.
LEMMA CountsAt ==
  ASSUME NEW k \in CallRecord, NEW s \in Places, CountsRight(k), k.at \in Deploying,
         s \in Deploying \cup {"error", "exit"}
  PROVE  CountsRight([k EXCEPT !.at = s])
<1> DEFINE q == [k EXCEPT !.at = s]
<1>1. /\ q.at = s /\ q.kind = k.kind /\ q.silent = k.silent /\ q.done = k.done /\ q.todo = k.todo /\ q.asked = k.asked
      /\ q.status = k.status /\ q.exit = k.exit
  BY DEF CallRecord
<1>2. k.exit # "ok" \/ k.silent \/ k.kind # "push"
  BY DEF CountsRight, Deploying, UnderLock, BeforeDetect, Prepared, AfterDetect
<1>3. s \notin {"none", "rollback", "deploy", "path", "rename", "bare", "push", "hook", "refs", "status"}
  BY DEF Deploying, UnderLock, BeforeDetect, Prepared, AfterDetect
<1> HIDE DEF q
<1> QED
  BY <1>1, <1>2, <1>3 DEF CountsRight

\* A step of a command that is not under the lock, before and after it.  Nobody who has
\* detected the files loses them, unless the step says that it swapped the directory.
LEMMA OutsideStep ==
  ASSUME PushInv, NEW c \in Callers, NEW k \in CallRecord, call' = [call EXCEPT ![c] = k], CountsRight(k),
         call[c].at \notin UnderLock, k.at \notin UnderLock, UNCHANGED <<runs, log, lockedBy, last>>,
         refs' \subseteq Nat, tree' \in Nat, swapped' \in BOOLEAN, swapped => swapped',
         ~swapped' => UNCHANGED <<dir, tree>> \/ \A d \in Callers \ {c} : call[d].at \notin Prepared
  PROVE  PushInv'
<1>1. /\ call' \in [Callers -> CallRecord] /\ call'[c] = k
      /\ \A d \in Callers : d # c => call'[d] = call[d]
  BY OneCall DEF PushInv
<1>2. PushTypes'
  BY <1>1 DEF PushInv, PushTypes
<1>3. ASSUME NEW d \in Callers PROVE CountsRight(call'[d]) /\ HolderWorks(d)'
  <2>1. CASE d = c
    <3>1. lockedBy # c /\ k.at \notin Prepared \cup {"router", "record"}
      BY DEF PushInv, HolderWorks, UnderLock, Prepared
    <3> QED
      BY <1>1, <2>1, <3>1 DEF HolderWorks
  <2>2. CASE d # c
    <3>1. HolderWorks(d) /\ call'[d] = call[d] /\ CountsRight(call[d])
      BY <1>1, <2>2 DEF PushInv
    <3>2. ~swapped' /\ call[d].at \in Prepared => UNCHANGED <<dir, tree>> /\ ~swapped
      BY <2>2
    <3>3. {"router", "record"} \subseteq Prepared
      BY DEF Prepared
    <3> QED
      BY <3>1, <3>2, <3>3 DEF HolderWorks
  <2> QED
    BY <2>1, <2>2
<1>4. ReleaseIsWhatRuns'
  BY DEF PushInv, ReleaseIsWhatRuns
<1> QED
  BY <1>2, <1>3, <1>4 DEF PushInv

\* A step of the holder of the lock.
LEMMA LockStep ==
  ASSUME PushInv, NEW c \in Callers, NEW k \in CallRecord, call' = [call EXCEPT ![c] = k], CountsRight(k),
         call[c].at \in UnderLock, k.at \in UnderLock, UNCHANGED <<refs, dir, log, lockedBy, last, swapped>>, tree' \in Nat,
         ~swapped /\ k.at \in Prepared => dir \in {"checkout", "files"},
         ~swapped /\ k.at \in {"router", "record"} => runs' = tree'
  PROVE  PushInv'
<1>1. /\ call' \in [Callers -> CallRecord] /\ call'[c] = k
      /\ \A d \in Callers : d # c => call'[d] = call[d]
  BY OneCall DEF PushInv
<1>2. PushTypes'
  BY <1>1 DEF PushInv, PushTypes
<1>3. lockedBy = c /\ lockedBy # "none"
  BY PushAssumption DEF PushInv, HolderWorks
<1>4. ASSUME NEW d \in Callers PROVE CountsRight(call'[d]) /\ HolderWorks(d)'
  <2>1. CASE d = c
    BY <1>1, <1>3, <2>1 DEF HolderWorks
  <2>2. CASE d # c
    <3>1. HolderWorks(d) /\ call'[d] = call[d] /\ CountsRight(call[d])
      BY <1>1, <2>2 DEF PushInv
    <3>2. call[d].at \notin UnderLock /\ Prepared \subseteq UnderLock /\ {"router", "record"} \subseteq UnderLock
      BY <1>3, <2>2, <3>1 DEF HolderWorks, UnderLock, Prepared
    <3> QED
      BY <1>3, <2>2, <3>1, <3>2 DEF HolderWorks
  <2> QED
    BY <2>1, <2>2
<1>5. ReleaseIsWhatRuns'
  BY <1>3 DEF ReleaseIsWhatRuns
<1> QED
  BY <1>2, <1>4, <1>5 DEF PushInv

\* A command that leaves do_deploy, or ends anywhere, without a release.
LEMMA LeaveStep ==
  ASSUME PushInv, NEW c \in Callers, NEW k \in CallRecord, call' = [call EXCEPT ![c] = k], CountsRight(k),
         k.at \notin UnderLock, UNCHANGED <<refs, dir, tree, log, swapped>>,
         lockedBy' = IF lockedBy = c THEN "none" ELSE lockedBy,
         NEW how \in {"failed", "unrecorded"}, last' = IF lockedBy = c THEN how ELSE last,
         lockedBy # c => runs' = runs
  PROVE  PushInv'
<1>1. /\ call' \in [Callers -> CallRecord] /\ call'[c] = k
      /\ \A d \in Callers : d # c => call'[d] = call[d]
  BY OneCall DEF PushInv
<1>2. PushTypes'
  BY <1>1 DEF PushInv, PushTypes
<1>a. "none" # c /\ lockedBy' # c
  BY PushAssumption
<1>3. ASSUME NEW d \in Callers PROVE CountsRight(call'[d]) /\ HolderWorks(d)'
  <2>0. Prepared \subseteq UnderLock /\ {"router", "record"} \subseteq UnderLock
    BY DEF UnderLock, Prepared
  <2>1. CASE d = c
    BY <1>1, <1>a, <2>0, <2>1 DEF HolderWorks
  <2>2. CASE d # c
    <3>1. HolderWorks(d) /\ call'[d] = call[d] /\ CountsRight(call[d])
      BY <1>1, <2>2 DEF PushInv
    <3>2. lockedBy' = d <=> lockedBy = d
      BY <2>2, PushAssumption
    <3>3. call[d].at \in UnderLock => runs' = runs
      BY <2>2, <3>1 DEF HolderWorks
    <3> QED
      BY <2>0, <3>1, <3>2, <3>3 DEF HolderWorks
  <2> QED
    BY <2>1, <2>2
<1>4. ReleaseIsWhatRuns'
  BY DEF PushInv, ReleaseIsWhatRuns
<1> QED
  BY <1>2, <1>3, <1>4 DEF PushInv

LEMMA StepPush == PushInv /\ [PushNext]_pushVars => PushInv'
<1> SUFFICES ASSUME PushInv, [PushNext]_pushVars PROVE PushInv'
  OBVIOUS
<1>t. PushTypes
  BY DEF PushInv
<1>p. UnderLock \subseteq Deploying /\ Prepared \subseteq UnderLock /\ Deploying \subseteq Places
  BY DEF UnderLock, Deploying, Prepared, Places
<1>o. {"none", "end", "push", "hook", "refs", "clone", "exists", "lock", "ok", "rollback", "deploy", "path", "rename", "bare",
       "error", "exit", "status"} \subseteq Places \ UnderLock
  BY DEF UnderLock, BeforeDetect, Prepared, AfterDetect, Places, Deploying
<1>q. \A c \in Callers : call[c] \in CallRecord /\ CountsRight(call[c]) /\ HolderWorks(c)
  BY DEF PushInv, PushTypes
<1> DEFINE Sent(c, s) == [call[c] EXCEPT !.at = s]
<1>m. ASSUME NEW c \in Callers, NEW s \in Places, Move(c, s)
      PROVE  call' = [call EXCEPT ![c] = Sent(c, s)]
  BY <1>m DEF Move
<1>k. ASSUME NEW c \in Callers, NEW s \in Places
      PROVE  /\ Sent(c, s) \in CallRecord /\ Sent(c, s).at = s
             /\ Sent(c, s).kind = call[c].kind /\ Sent(c, s).silent = call[c].silent /\ Sent(c, s).done = call[c].done
             /\ Sent(c, s).todo = call[c].todo /\ Sent(c, s).asked = call[c].asked /\ Sent(c, s).exit = call[c].exit
             /\ Sent(c, s).status = call[c].status
  BY <1>q DEF CallRecord
<1>c. ASSUME NEW c \in Callers, NEW s \in Places, call[c].at \in Deploying, s \in Deploying \cup {"error", "exit"}
      PROVE  CountsRight(Sent(c, s))
  BY <1>c, <1>q, CountsAt
<1>n. ASSUME NEW c \in Callers, NEW s \in Places, call[c].kind # "push" PROVE CountsRight(Sent(c, s))
  BY <1>k, <1>n DEF CountsRight
<1> HIDE DEF Sent
\* A move outside the lock, and a return of do_deploy.
<1>1. ASSUME NEW c \in Callers, NEW s \in Places \ UnderLock, Move(c, s), CountsRight(Sent(c, s)), call[c].at \notin UnderLock,
             UNCHANGED <<runs, log, lockedBy, last>>, refs' \subseteq Nat, tree' \in Nat, swapped' \in BOOLEAN, swapped => swapped',
             ~swapped' => UNCHANGED <<dir, tree>> \/ \A d \in Callers \ {c} : call[d].at \notin Prepared
      PROVE  PushInv'
  <2>1. call' = [call EXCEPT ![c] = Sent(c, s)] /\ Sent(c, s) \in CallRecord /\ Sent(c, s).at \notin UnderLock
    BY <1>1, <1>m, <1>k
  <2> QED
    BY <1>1, <2>1, OutsideStep
<1>2. ASSUME NEW c \in Callers, NEW s \in {"error", "exit"}, call[c].at \in UnderLock, Return(c, s),
             UNCHANGED <<refs, dir, tree, log, swapped>>
      PROVE  PushInv'
  <2>1. call' = [call EXCEPT ![c] = Sent(c, s)] /\ Sent(c, s) \in CallRecord /\ Sent(c, s).at \notin UnderLock
    BY <1>2, <1>m, <1>k, <1>o DEF Return
  <2>2. CountsRight(Sent(c, s)) /\ lockedBy = c
    BY <1>2, <1>c, <1>p, <1>o, <1>q DEF HolderWorks
  <2>3. lockedBy' = (IF lockedBy = c THEN "none" ELSE lockedBy) /\ last' = (IF lockedBy = c THEN "failed" ELSE last)
    BY <1>2 DEF Return
  <2> QED
    BY <1>2, <2>1, <2>2, <2>3, LeaveStep
<1>u. tree \in Nat /\ refs \subseteq Nat /\ swapped \in BOOLEAN
  BY <1>t DEF PushTypes
<1>3. ASSUME NEW c \in Callers, NEW kind \in {"push", "rollback", "deploy", "path", "bare"}, NEW l \in Seq(Nat), Begin(c, kind, l)
      PROVE  PushInv'
  <2> DEFINE k == [Rest EXCEPT !.kind = kind, !.todo = l, !.asked = Len(l), !.at = kind]
  <2>1. k \in CallRecord /\ k.at = kind /\ k.kind = kind /\ k.done = 0 /\ k.todo = l /\ k.asked = Len(l) /\ k.exit = "none"
    <3>1. Rest \in CallRecord /\ Rest.done = 0 /\ Rest.exit = "none"
      BY <1>o DEF Rest, CallRecord, AnyRev
    <3>2. kind \in Places /\ Len(l) \in Nat
      BY <1>o
    <3> QED
      BY <3>1, <3>2 DEF CallRecord
  <2>2. call' = [call EXCEPT ![c] = k] /\ call[c].at \in {"none", "end"} /\ UNCHANGED <<refs, dir, tree, runs, log, lockedBy, last, swapped>>
    BY <1>3 DEF Begin
  <2> HIDE DEF k
  <2>3. CountsRight(k)
    BY <1>o, <2>1 DEF CountsRight, Deploying, UnderLock, BeforeDetect, Prepared, AfterDetect
  <2> QED
    BY <1>o, <1>u, <2>1, <2>2, <2>3, OutsideStep
<1>4. ASSUME NEW c \in Callers, BeginPush(c) \/ BeginCommand(c) PROVE PushInv'
  <2>1. <<>> \in Seq(Nat) /\ \A r \in Revs : <<r>> \in Seq(Nat) /\ <<r, NoRev>> \in Seq(Nat)
    BY PushAssumption DEF NoRev
  <2> QED
    BY <1>3, <1>4, <2>1 DEF BeginPush, BeginCommand
<1>5. ASSUME NEW c \in Callers, ReceivePack(c) PROVE PushInv'
  <2>1. call[c].at = "push" /\ UNCHANGED <<dir, tree, runs, log, lockedBy, last, swapped>>
    BY <1>5 DEF ReceivePack, At
  <2>2. refs' \subseteq Nat
    <3>1. call[c].todo \in Seq(Nat)
      BY <1>q DEF CallRecord
    <3>2. \A i \in DOMAIN call[c].todo : call[c].todo[i] \in Nat
      BY <3>1
    <3>3. refs' = refs \/ refs' = refs \union ({call[c].todo[i] : i \in DOMAIN call[c].todo} \ {NoRev})
      BY <1>5 DEF ReceivePack
    <3>4. {call[c].todo[i] : i \in DOMAIN call[c].todo} \subseteq Nat
      BY <3>2
    <3> QED
      BY <1>u, <3>3, <3>4
  <2>3. CASE Move(c, "hook")
    <3>1. CountsRight(Sent(c, "hook"))
      BY <1>q, <1>k, <1>o, <2>1 DEF CountsRight, Deploying, UnderLock, BeforeDetect, Prepared, AfterDetect
    <3> QED
      BY <1>1, <1>o, <1>u, <2>1, <2>2, <2>3, <3>1
  <2>4. CASE call' = [call EXCEPT ![c].at = "end", ![c].exit = "failed"]
    <3> DEFINE k == [call[c] EXCEPT !.at = "end", !.exit = "failed"]
    <3>1. k \in CallRecord /\ k.at = "end" /\ k.exit = "failed" /\ call' = [call EXCEPT ![c] = k]
      BY <1>o, <1>q, <2>4 DEF CallRecord
    <3> HIDE DEF k
    <3>2. CountsRight(k)
      BY <3>1 DEF CountsRight, Deploying, UnderLock, BeforeDetect, Prepared, AfterDetect
    <3> QED
      BY <1>o, <1>u, <2>1, <2>2, <3>1, <3>2, OutsideStep
  <2> QED
    BY <1>5, <2>3, <2>4 DEF ReceivePack
<1>6. ASSUME NEW c \in Callers, LinkExternalRepo(c) PROVE PushInv'
  <2>1. call[c].at = "hook" /\ UNCHANGED <<refs, dir, tree, runs, log, lockedBy, last, swapped>>
        /\ \E s \in {"refs", "error"} : Move(c, s)
    BY <1>6 DEF LinkExternalRepo, At
  <2>2. CountsRight(Sent(c, "refs")) /\ CountsRight(Sent(c, "error"))
    BY <1>q, <1>k, <1>o, <2>1 DEF CountsRight, Deploying, UnderLock, BeforeDetect, Prepared, AfterDetect
  <2> QED
    BY <1>1, <1>o, <1>u, <2>1, <2>2
<1>7. ASSUME NEW c \in Callers, DeployPushedRefs(c) PROVE PushInv'
  <2>1. call[c].at = "refs" /\ UNCHANGED <<refs, dir, tree, runs, log, lockedBy, last, swapped>>
    BY <1>7 DEF DeployPushedRefs, At
  <2>2. CASE call[c].todo = <<>> /\ Move(c, "status")
    <3>1. call[c].done \in Nat
      BY <1>q DEF CallRecord
    <3>2. CountsRight(Sent(c, "status"))
      BY <1>q, <1>k, <1>o, <2>1, <2>2, <3>1 DEF CountsRight, Deploying, UnderLock, BeforeDetect, Prepared, AfterDetect
    <3> QED
      BY <1>1, <1>o, <1>u, <2>1, <2>2, <3>2
  <2>3. CASE call[c].todo # <<>>
    <3>1. PICK s \in {"clone", "exists"} :
            call' = [call EXCEPT ![c].at = s, ![c].rev = Head(call[c].todo), ![c].todo = Tail(@)]
      BY <1>7, <2>3 DEF DeployPushedRefs
    <3> DEFINE k == [call[c] EXCEPT !.at = s, !.rev = Head(call[c].todo), !.todo = Tail(call[c].todo)]
    <3>2. call[c].todo \in Seq(Nat) /\ call[c].done \in Nat /\ Head(call[c].todo) \in Nat /\ Tail(call[c].todo) \in Seq(Nat)
          /\ Len(Tail(call[c].todo)) + 1 = Len(call[c].todo)
      BY <1>q, <2>3 DEF CallRecord
    <3>3. /\ k \in CallRecord /\ k.at = s /\ k.kind = call[c].kind /\ k.silent = call[c].silent /\ k.done = call[c].done
          /\ k.todo = Tail(call[c].todo) /\ k.asked = call[c].asked /\ k.exit = call[c].exit
      BY <1>o, <1>q, <3>2 DEF CallRecord
    <3>4. call' = [call EXCEPT ![c] = k]
      BY <3>1
    <3> HIDE DEF k
    <3>5. CountsRight(k)
      <4>1. s \in Deploying /\ s \notin {"none", "rollback", "deploy", "path", "rename", "bare", "push", "hook", "refs", "status", "end"}
        BY DEF Deploying
      <4>2. call[c].asked \in Nat
        BY <1>q DEF CallRecord
      <4> QED
        <5>1. call[c].kind = "push" => call[c].silent \/ (call[c].done + Len(call[c].todo) = call[c].asked /\ call[c].exit # "ok")
          BY <1>q, <2>1 DEF CountsRight
        <5>2. call[c].kind = "push" => call[c].silent \/ call[c].done + 1 + Len(Tail(call[c].todo)) = call[c].asked
          BY <3>2, <4>2, <5>1
        <5> QED
          BY <3>3, <4>1, <5>1, <5>2 DEF CountsRight
    <3> QED
      BY <1>o, <1>u, <2>1, <3>3, <3>4, <3>5, OutsideStep
  <2> QED
    BY <1>7, <2>2, <2>3 DEF DeployPushedRefs
<1>8. ASSUME NEW c \in Callers, CloneApp(c) PROVE PushInv'
  <2>1. call[c].at = "clone" /\ UNCHANGED <<refs, runs, log, lockedBy, last, swapped>>
    BY <1>8 DEF CloneApp, At
  <2>2. PICK s \in {"exists", "error"} : Move(c, s)
    BY <1>8 DEF CloneApp
  <2>3. tree' \in Nat /\ (UNCHANGED <<dir, tree>> \/ dir \in {"none", "empty"})
    BY <1>8, <1>u DEF CloneApp
  <2>4. CountsRight(Sent(c, s))
    BY <1>c, <1>o, <2>1 DEF Deploying
  <2>5. ~swapped /\ dir \in {"none", "empty"} => \A d \in Callers \ {c} : call[d].at \notin Prepared
    BY <1>q DEF HolderWorks
  <2> QED
    BY <1>1, <1>o, <1>u, <2>1, <2>2, <2>3, <2>4, <2>5
<1>9. ASSUME NEW c \in Callers, Rollback(c) PROVE PushInv'
  <2>1. call[c].at = "rollback" /\ call[c].kind # "push" /\ UNCHANGED <<refs, dir, tree, runs, log, lockedBy, last, swapped>>
    BY <1>9, <1>q DEF Rollback, At, CountsRight
  <2>2. CASE Move(c, "error")
    BY <1>1, <1>n, <1>o, <1>u, <2>1, <2>2
  <2>3. ASSUME NEW r \in Previous, call' = [call EXCEPT ![c].at = "exists", ![c].rev = r] PROVE PushInv'
    <3> DEFINE k == [call[c] EXCEPT !.at = "exists", !.rev = r]
    <3>1. r \in Nat
      BY <1>t DEF Previous, PushTypes
    <3>2. k \in CallRecord /\ k.at = "exists" /\ k.kind = call[c].kind /\ call' = [call EXCEPT ![c] = k]
      BY <1>o, <1>q, <2>3, <3>1 DEF CallRecord
    <3> HIDE DEF k
    <3>3. CountsRight(k)
      BY <2>1, <3>2 DEF CountsRight
    <3> QED
      BY <1>o, <1>u, <2>1, <3>2, <3>3, OutsideStep
  <2> QED
    BY <1>9, <2>2, <2>3 DEF Rollback
<1>10. ASSUME NEW c \in Callers, CmdDeploy(c) PROVE PushInv'
  <2>1. call[c].at = "deploy" /\ call[c].kind # "push" /\ UNCHANGED <<refs, dir, tree, runs, log, lockedBy, last, swapped>>
        /\ Move(c, "exists")
    BY <1>10, <1>q DEF CmdDeploy, At, CountsRight
  <2> QED
    BY <1>1, <1>n, <1>o, <1>u, <2>1
<1>11. ASSUME NEW c \in Callers, DeployFromPath(c) \/ ExtractBareRepo(c) PROVE PushInv'
  <2>1. call[c].at \in {"path", "bare"} /\ UNCHANGED <<refs, runs, log, lockedBy, last>>
    BY <1>11 DEF DeployFromPath, ExtractBareRepo, At
  <2>2. call[c].kind # "push"
    BY <1>q, <2>1 DEF CountsRight
  <2>3. PICK s \in {"rename", "exists", "error"} : Move(c, s)
    BY <1>11 DEF DeployFromPath, ExtractBareRepo
  <2>4. tree' \in Nat
    <3>1. tree' = 0 \/ tree' = tree \/ tree' \in refs
      BY <1>11 DEF DeployFromPath, ExtractBareRepo, NoRev
    <3>2. CASE tree' \in refs
      BY <1>u, <3>2
    <3>3. CASE tree' = 0 \/ tree' = tree
      BY <1>u, <3>3
    <3> QED
      BY <3>1, <3>2, <3>3
  <2>5. swapped' = (swapped \/ Others(c) # {}) \/ UNCHANGED <<dir, tree, swapped>>
    BY <1>11 DEF DeployFromPath, ExtractBareRepo
  <2>6. Others(c) = {} => \A d \in Callers \ {c} : call[d].at \notin Prepared
    BY <1>o, <1>p DEF Others
  <2>7. swapped' \in BOOLEAN /\ (swapped => swapped') /\ (~swapped' => UNCHANGED <<dir, tree>> \/ \A d \in Callers \ {c} : call[d].at \notin Prepared)
    BY <1>u, <2>5, <2>6
  <2> QED
    BY <1>1, <1>n, <1>o, <1>u, <2>1, <2>2, <2>3, <2>4, <2>7
<1>12. ASSUME NEW c \in Callers, RenameDir(c) PROVE PushInv'
  <2>1. call[c].at = "rename" /\ call[c].kind # "push" /\ UNCHANGED <<refs, runs, log, lockedBy, last, swapped>>
    BY <1>12, <1>q DEF RenameDir, At, CountsRight
  <2>2. PICK s \in {"exists", "error"} : Move(c, s)
    BY <1>12 DEF RenameDir
  <2>3. tree' \in Nat /\ (UNCHANGED <<dir, tree>> \/ dir \in {"none", "empty"})
    BY <1>12, <1>u DEF RenameDir, NoRev
  <2>4. ~swapped /\ dir \in {"none", "empty"} => \A d \in Callers \ {c} : call[d].at \notin Prepared
    BY <1>q DEF HolderWorks
  <2> QED
    BY <1>1, <1>n, <1>o, <1>u, <2>1, <2>2, <2>3, <2>4
<1>13. ASSUME NEW c \in Callers, AppExists(c) PROVE PushInv'
  <2>1. call[c].at = "exists" /\ UNCHANGED <<refs, dir, tree, runs, log, lockedBy, last, swapped>>
    BY <1>13 DEF AppExists, At
  <2>2. PICK s \in {"lock", "error"} : Move(c, s)
    BY <1>13 DEF AppExists
  <2>3. CountsRight(Sent(c, s))
    BY <1>c, <1>o, <2>1 DEF Deploying
  <2> QED
    BY <1>1, <1>o, <1>u, <2>1, <2>2, <2>3
<1>14. ASSUME NEW c \in Callers, AcquireLock(c) PROVE PushInv'
  <2>1. call[c].at = "lock" /\ UNCHANGED <<refs, dir, tree, runs, log, last, swapped>>
    BY <1>14 DEF AcquireLock, At
  <2>2. CASE Move(c, "error") /\ UNCHANGED lockedBy
    <3>1. CountsRight(Sent(c, "error"))
      BY <1>c, <1>o, <2>1 DEF Deploying
    <3> QED
      BY <1>1, <1>o, <1>u, <2>1, <2>2, <3>1
  <2>3. CASE lockedBy = "none" /\ lockedBy' = c /\ Move(c, "sync")
    <3>1. "sync" \in Places /\ "sync" \in Deploying /\ "sync" \in UnderLock /\ "sync" \notin Prepared \cup {"router", "record"}
      BY DEF Places, Deploying, UnderLock, Prepared, AfterDetect
    <3>2. /\ call' \in [Callers -> CallRecord] /\ call'[c] = Sent(c, "sync") /\ call'[c].at = "sync"
          /\ \A d \in Callers : d # c => call'[d] = call[d]
      BY <1>t, <2>3, <3>1, OneMove DEF Sent
    <3>3. CountsRight(call'[c])
      BY <1>c, <2>1, <3>1, <3>2 DEF Deploying
    <3>4. \A d \in Callers : d # c => HolderWorks(d)'
      BY <1>q, <2>1, <2>3, <3>2, PushAssumption DEF HolderWorks
    <3>5. HolderWorks(c)'
      BY <2>3, <3>1, <3>2 DEF HolderWorks
    <3>6. PushTypes'
      BY <1>t, <2>1, <2>3, <3>2 DEF PushTypes
    <3>7. ReleaseIsWhatRuns'
      BY <2>3, PushAssumption DEF ReleaseIsWhatRuns
    <3> QED
      BY <1>q, <3>2, <3>3, <3>4, <3>5, <3>6, <3>7 DEF PushInv
  <2> QED
    BY <1>14, <2>2, <2>3 DEF AcquireLock
\* A move under the lock.
<1>15. ASSUME NEW c \in Callers, NEW s \in UnderLock, Move(c, s), call[c].at \in UnderLock,
              UNCHANGED <<refs, dir, log, lockedBy, last, swapped>>, tree' \in Nat,
              ~swapped /\ s \in Prepared => dir \in {"checkout", "files"},
              ~swapped /\ s \in {"router", "record"} => runs' = tree'
       PROVE  PushInv'
  <2>1. call' = [call EXCEPT ![c] = Sent(c, s)] /\ Sent(c, s) \in CallRecord /\ Sent(c, s).at = s
    BY <1>15, <1>m, <1>k, <1>p
  <2>2. CountsRight(Sent(c, s))
    BY <1>15, <1>c, <1>p
  <2> QED
    BY <1>15, <2>1, <2>2, LockStep
<1>16. ASSUME NEW c \in Callers, SyncAppRepo(c) PROVE PushInv'
  <2>1. call[c].at = "sync" /\ "sync" \in UnderLock /\ UNCHANGED <<refs, dir, runs, log, swapped>>
    BY <1>16 DEF SyncAppRepo, At, UnderLock
  <2>2. CASE Return(c, "error") /\ UNCHANGED tree
    BY <1>2, <2>1, <2>2
  <2>3. CASE Move(c, "env") /\ UNCHANGED <<lockedBy, last>> /\ tree' = (IF call[c].rev = AnyRev THEN tree ELSE call[c].rev)
    <3>1. "env" \in UnderLock /\ "env" \notin Prepared /\ "env" \notin {"router", "record"}
      BY DEF UnderLock, BeforeDetect, Prepared, AfterDetect
    <3>2. tree' \in Nat
      BY <1>q, <1>u, <2>3 DEF CallRecord
    <3> QED
      BY <1>15, <2>1, <2>3, <3>1, <3>2
  <2> QED
    BY <1>16, <2>2, <2>3 DEF SyncAppRepo
<1>17. ASSUME NEW c \in Callers, NEW s \in BeforeDetect \cup AfterDetect, NEW can \in BOOLEAN, Prepare(c, s, can),
              s = "detect" => (can => Detected)
       PROVE  PushInv'
  <2>1. call[c].at = s /\ s \in UnderLock /\ UNCHANGED <<refs, dir, tree, runs, log, swapped>>
    BY <1>17 DEF Prepare, At, UnderLock, Prepared
  <2>2. CASE Return(c, OnFailure(s))
    BY <1>2, <2>1, <2>2 DEF OnFailure
  <2>3. CASE can /\ Move(c, After(s)) /\ UNCHANGED <<lockedBy, last>>
    <3>1. After(s) \in UnderLock /\ After(s) \notin {"router", "record"}
      BY NextPlace DEF UnderLock, Prepared, BeforeDetect, AfterDetect
    <3>2. After(s) \in Prepared => s \in Prepared \/ s = "detect"
      BY NextPlace DEF Prepared, BeforeDetect, AfterDetect
    <3>3. ~swapped /\ After(s) \in Prepared => dir \in {"checkout", "files"}
      BY <1>17, <1>q, <2>1, <2>3, <3>2 DEF HolderWorks, Detected
    <3> QED
      BY <1>15, <1>u, <2>1, <2>3, <3>1, <3>3
  <2> QED
    BY <1>17, <2>2, <2>3 DEF Prepare
<1>18. ASSUME NEW c \in Callers, LoadEnv(c) \/ ReadWorkers(c) \/ ReadScaling(c) \/ RunPreflight(c) \/ RunHook(c) \/ DetectRuntime(c)
                                 \/ BuildWithPlugin(c) \/ RunRelease(c) \/ WriteLiveEnv(c)
       PROVE  PushInv'
  <2>1. (dir # "none") \in BOOLEAN /\ Detected \in BOOLEAN
    BY DEF Detected
  <2>2. {"env", "procfile", "scaling", "preflight", "build", "release", "live-env", "detect"} \cup Hooks \subseteq BeforeDetect \cup AfterDetect
        /\ "detect" \notin Hooks
    BY DEF Hooks, BeforeDetect, AfterDetect
  <2> QED
    BY <1>17, <1>18, <2>1, <2>2 DEF LoadEnv, ReadWorkers, ReadScaling, RunPreflight, RunHook, DetectRuntime, BuildWithPlugin, RunRelease, WriteLiveEnv
<1>19. ASSUME NEW c \in Callers, CreateWorkers(c) PROVE PushInv'
  <2>1. call[c].at = "workers" /\ UNCHANGED <<refs, dir, tree, log, swapped>> /\ "workers" \in Prepared
    BY <1>19 DEF CreateWorkers, At, Prepared
  <2>2. CASE Return(c, "error")
    BY <1>2, <1>p, <2>1, <2>2
  <2>3. CASE runs' = tree /\ Move(c, "router") /\ UNCHANGED <<lockedBy, last>>
    <3>1. "router" \in UnderLock
      BY DEF UnderLock, Prepared
    <3>2. ~swapped => dir \in {"checkout", "files"}
      BY <1>q, <2>1 DEF HolderWorks
    <3> QED
      BY <1>15, <1>p, <1>u, <2>1, <2>3, <3>1, <3>2
  <2> QED
    BY <1>19, <2>2, <2>3 DEF CreateWorkers
<1>20. ASSUME NEW c \in Callers, SpawnApp(c) PROVE PushInv'
  <2>1. call[c].at = "router" /\ UNCHANGED <<refs, dir, tree, runs, log, swapped>> /\ "router" \in Prepared
    BY <1>20 DEF SpawnApp, At, Prepared
  <2>2. CASE Return(c, "error")
    BY <1>2, <1>p, <2>1, <2>2
  <2>3. CASE Move(c, "record") /\ UNCHANGED <<lockedBy, last>>
    <3>1. "record" \in UnderLock
      BY DEF UnderLock, Prepared
    <3>2. ~swapped => dir \in {"checkout", "files"} /\ runs = tree
      BY <1>q, <2>1 DEF HolderWorks
    <3> QED
      BY <1>15, <1>p, <1>u, <2>1, <2>3, <3>1, <3>2
  <2> QED
    BY <1>20, <2>2, <2>3 DEF SpawnApp
<1>21. ASSUME NEW c \in Callers, FinishDeploy(c) PROVE PushInv'
  <2>1. call[c].at = "record" /\ UNCHANGED <<refs, dir, tree, runs, swapped>> /\ "record" \in Prepared /\ Move(c, "ok")
    BY <1>21 DEF FinishDeploy, At, Prepared, Return
  <2>2. lockedBy = c /\ lockedBy' = "none" /\ (~swapped => runs = tree)
    BY <1>21, <1>q, <1>p, <2>1 DEF HolderWorks, FinishDeploy, Return
  <2>3. CountsRight(Sent(c, "ok"))
    BY <1>c, <1>o, <1>p, <2>1 DEF Deploying
  <2>4. call' = [call EXCEPT ![c] = Sent(c, "ok")] /\ Sent(c, "ok") \in CallRecord /\ Sent(c, "ok").at \notin UnderLock
    BY <1>m, <1>k, <1>o, <2>1
  <2>5. CASE UNCHANGED log /\ last' = "unrecorded"
    BY <2>1, <2>2, <2>3, <2>4, <2>5, LeaveStep
  <2>6. CASE log' = Recorded(log, tree) /\ last' = "ok"
    <3>1. log \in Seq(Nat) /\ tree \in Nat
      BY <1>t DEF PushTypes
    <3>2. log' \in Seq(Nat) /\ log' # <<>> /\ log'[Len(log')] = tree
      BY <2>6, <3>1 DEF Recorded
    <3>3. /\ call' \in [Callers -> CallRecord] /\ call'[c] = Sent(c, "ok")
          /\ \A d \in Callers : d # c => call'[d] = call[d]
      BY <1>t, <2>4, OneCall
    <3>4. PushTypes'
      BY <1>t, <2>1, <2>2, <3>2, <3>3 DEF PushTypes
    <3>5. ReleaseIsWhatRuns'
      BY <2>1, <2>2, <3>2 DEF ReleaseIsWhatRuns
    <3>6. ASSUME NEW d \in Callers PROVE CountsRight(call'[d]) /\ HolderWorks(d)'
      <4>0. {"router", "record"} \subseteq UnderLock
        BY DEF UnderLock, Prepared
      <4>1. CASE d = c
        BY <1>p, <2>2, <2>3, <2>4, <3>3, <4>0, <4>1, PushAssumption DEF HolderWorks
      <4>2. CASE d # c
        BY <1>p, <1>q, <2>1, <2>2, <3>3, <4>0, <4>2, PushAssumption DEF HolderWorks
      <4> QED
        BY <4>1, <4>2
    <3> QED
      BY <3>4, <3>5, <3>6 DEF PushInv
  <2> QED
    BY <1>21, <2>2, <2>5, <2>6 DEF FinishDeploy, Return
\* How a command ends.
<1>22. ASSUME NEW c \in Callers, Deployed(c) PROVE PushInv'
  <2>1. call[c].at = "ok" /\ "ok" \in Deploying /\ UNCHANGED <<refs, dir, tree, runs, log, lockedBy, last, swapped>>
    BY <1>22 DEF Deployed, At, Deploying
  <2>2. PICK s \in {"refs", "end"}, e \in {"none", "ok"} :
          /\ s = "refs" <=> call[c].kind = "push"
          /\ s = "refs" => e = "none"
          /\ call' = [call EXCEPT ![c].done = @ + 1, ![c].at = s, ![c].exit = e]
    BY <1>22 DEF Deployed
  <2> DEFINE more == call[c].done + 1
  <2> DEFINE k == [call[c] EXCEPT !.done = more, !.at = s, !.exit = e]
  <2>3. more \in Nat /\ call[c].done \in Nat /\ call[c].todo \in Seq(Nat) /\ call[c].asked \in Nat
    BY <1>q DEF CallRecord
  <2>a. more = call[c].done + 1 /\ call' = [call EXCEPT ![c] = k]
    BY <2>2
  <2> HIDE DEF more
  <2>4. /\ k \in CallRecord /\ k.at = s /\ k.kind = call[c].kind /\ k.silent = call[c].silent /\ k.done = more
        /\ k.todo = call[c].todo /\ k.asked = call[c].asked /\ k.exit = e
    BY <1>o, <1>q, <2>3 DEF CallRecord
  <2> HIDE DEF k
  <2>6. CountsRight(k)
    <3>1. "refs" \notin Deploying
      BY DEF Deploying, UnderLock, BeforeDetect, Prepared, AfterDetect
    <3>2. call[c].kind = "push" => call[c].silent \/ call[c].done + 1 + Len(call[c].todo) = call[c].asked
      BY <1>q, <2>1 DEF CountsRight
    <3> QED
      BY <2>2, <2>3, <2>a, <2>4, <3>1, <3>2 DEF CountsRight
  <2> QED
    BY <1>o, <1>u, <2>1, <2>2, <2>4, <2>a, <2>6, OutsideStep
<1>23. ASSUME NEW c \in Callers, RecordDeployFailure(c) \/ ProcessExits(c) PROVE PushInv'
  <2>1. call[c].at \in {"error", "exit"} /\ UNCHANGED <<refs, dir, tree, runs, log, lockedBy, last, swapped>>
    BY <1>23 DEF RecordDeployFailure, ProcessExits, At
  <2>2. CASE call' = [call EXCEPT ![c].at = "status", ![c].status = "failed"]
    <3> DEFINE k == [call[c] EXCEPT !.at = "status", !.status = "failed"]
    <3>1. k \in CallRecord /\ k.at = "status" /\ k.kind = call[c].kind /\ k.silent = call[c].silent /\ k.exit = call[c].exit
          /\ k.status = "failed" /\ call' = [call EXCEPT ![c] = k]
      BY <1>o, <1>q, <2>2 DEF CallRecord
    <3> HIDE DEF k
    <3>2. CountsRight(k)
      BY <1>q, <2>1, <3>1 DEF CountsRight, Deploying, UnderLock, BeforeDetect, Prepared, AfterDetect
    <3> QED
      BY <1>o, <1>u, <2>1, <3>1, <3>2, OutsideStep
  <2>3. ASSUME NEW s \in {"status", "end"}, NEW e \in {"none", "ok", "failed"},
               call' = [call EXCEPT ![c].at = s, ![c].silent = TRUE, ![c].exit = e]
        PROVE  PushInv'
    <3> DEFINE k == [call[c] EXCEPT !.at = s, !.silent = TRUE, !.exit = e]
    <3>1. k \in CallRecord /\ k.at = s /\ k.silent /\ call' = [call EXCEPT ![c] = k]
      BY <1>o, <1>q, <2>3 DEF CallRecord
    <3> HIDE DEF k
    <3>2. CountsRight(k)
      BY <3>1 DEF CountsRight
    <3> QED
      BY <1>o, <1>u, <2>1, <3>1, <3>2, OutsideStep
  <2>4. CASE call' = [call EXCEPT ![c].at = "status", ![c].silent = TRUE]
    <3> DEFINE k == [call[c] EXCEPT !.at = "status", !.silent = TRUE]
    <3>1. k \in CallRecord /\ k.at = "status" /\ k.silent /\ call' = [call EXCEPT ![c] = k]
      BY <1>o, <1>q, <2>4 DEF CallRecord
    <3> HIDE DEF k
    <3>2. CountsRight(k)
      BY <3>1 DEF CountsRight
    <3> QED
      BY <1>o, <1>u, <2>1, <3>1, <3>2, OutsideStep
  <2>5. CASE call[c].kind # "push" /\ call' = [call EXCEPT ![c].at = "end", ![c].exit = "failed"]
    <3> DEFINE k == [call[c] EXCEPT !.at = "end", !.exit = "failed"]
    <3>1. k \in CallRecord /\ k.at = "end" /\ k.kind = call[c].kind /\ call' = [call EXCEPT ![c] = k]
      BY <1>o, <1>q, <2>5 DEF CallRecord
    <3> HIDE DEF k
    <3>2. CountsRight(k)
      BY <2>5, <3>1 DEF CountsRight
    <3> QED
      BY <1>o, <1>u, <2>1, <3>1, <3>2, OutsideStep
  <2>6. CASE RecordDeployFailure(c)
    BY <2>2, <2>4, <2>5, <2>6 DEF RecordDeployFailure
  <2>7. CASE ProcessExits(c)
    BY <2>3, <2>7 DEF ProcessExits
  <2> QED
    BY <1>23, <2>6, <2>7
<1>24. ASSUME NEW c \in Callers, PushExitCode(c) PROVE PushInv'
  <2>1. call[c].at = "status" /\ UNCHANGED <<refs, dir, tree, runs, log, lockedBy, last, swapped>>
    BY <1>24 DEF PushExitCode, At
  <2>2. PICK e \in {"ok", "failed"} :
          (e = "ok" <=> call[c].status = "empty") /\ call' = [call EXCEPT ![c].at = "end", ![c].exit = e]
    BY <1>24 DEF PushExitCode
  <2> DEFINE k == [call[c] EXCEPT !.at = "end", !.exit = e]
  <2>3. /\ k \in CallRecord /\ k.at = "end" /\ k.kind = call[c].kind /\ k.silent = call[c].silent /\ k.done = call[c].done
        /\ k.asked = call[c].asked /\ k.exit = e
    BY <1>o, <1>q DEF CallRecord
  <2>4. call' = [call EXCEPT ![c] = k]
    BY <2>2
  <2> HIDE DEF k
  <2>5. CountsRight(k)
    <3>1. "end" \notin Deploying
      BY DEF Deploying, UnderLock, BeforeDetect, Prepared, AfterDetect
    <3> QED
      BY <1>q, <2>1, <2>2, <2>3, <3>1 DEF CountsRight
  <2> QED
    BY <1>o, <1>u, <2>1, <2>3, <2>4, <2>5, OutsideStep
<1>25. ASSUME NEW c \in Callers, Killed(c) PROVE PushInv'
  <2>1. UNCHANGED <<refs, dir, tree, log, swapped>>
    BY <1>25 DEF Killed
  <2>2. PICK s \in {"status", "end"} : call' = [call EXCEPT ![c].at = s, ![c].silent = TRUE]
    BY <1>25 DEF Killed
  <2> DEFINE k == [call[c] EXCEPT !.at = s, !.silent = TRUE]
  <2>3. k \in CallRecord /\ k.at = s /\ k.silent
    BY <1>o, <1>q DEF CallRecord
  <2>4. call' = [call EXCEPT ![c] = k]
    BY <2>2
  <2> HIDE DEF k
  <2>5. CountsRight(k)
    BY <2>3 DEF CountsRight
  <2>6. lockedBy' = (IF lockedBy = c THEN "none" ELSE lockedBy) /\ last' = (IF lockedBy = c THEN "failed" ELSE last)
    BY <1>25 DEF Killed
  <2>7. lockedBy # c => runs' = runs
    <3>1. "workers" \in UnderLock
      BY DEF UnderLock, Prepared
    <3> QED
      BY <1>25, <1>q, <3>1 DEF Killed, At, HolderWorks
  <2> QED
    BY <1>o, <2>1, <2>3, <2>4, <2>5, <2>6, <2>7, LeaveStep
<1>26. CASE UNCHANGED pushVars
  BY <1>26 DEF pushVars, PushInv, PushTypes, HolderWorks, ReleaseIsWhatRuns
<1> QED
  BY <1>4, <1>5, <1>6, <1>7, <1>8, <1>9, <1>10, <1>11, <1>12, <1>13, <1>14, <1>16, <1>18, <1>19, <1>20, <1>21, <1>22, <1>23, <1>24, <1>25, <1>26
  DEF PushNext, DoDeploy

(***************************************************************************)
(* A push that exits 0 deployed every ref, and the newest release is what  *)
(* runs, for any number of commands, refs and failures.                    *)
(***************************************************************************)
THEOREM DeploysAreToldTruly == PushSpec => []DeploysToldTruly
<1>1. PushInit => PushInv
  <2> SUFFICES ASSUME PushInit PROVE PushInv
    OBVIOUS
  <2>1. Rest \in CallRecord /\ Rest.at = "none" /\ Rest.kind = "none" /\ "none" \notin UnderLock /\ "none" \notin Prepared
    BY DEF Rest, CallRecord, AnyRev, Places, Deploying, UnderLock, BeforeDetect, Prepared, AfterDetect
  <2>2. CountsRight(Rest)
    BY <2>1 DEF CountsRight
  <2>3. PushTypes
    <3>1. log \in Seq(Nat) /\ refs \subseteq Nat /\ tree \in Nat /\ lockedBy = "none" /\ swapped = FALSE
      BY DEF PushInit, NoRev
    <3>2. call \in [Callers -> CallRecord]
      BY <2>1 DEF PushInit
    <3> QED
      BY <3>1, <3>2 DEF PushTypes
  <2>4. \A c \in Callers : HolderWorks(c)
    BY <2>1, PushAssumption DEF PushInit, HolderWorks
  <2>5. ReleaseIsWhatRuns
    BY DEF PushInit, ReleaseIsWhatRuns
  <2> QED
    BY <2>2, <2>3, <2>4, <2>5 DEF PushInv, PushInit
<1>2. PushInv => DeploysToldTruly
  BY DEF PushInv, PushTypes, CallRecord, CountsRight, DeploysToldTruly, PushTellsTruth
<1> QED
  BY <1>1, <1>2, StepPush, PTL DEF PushSpec

-----------------------------------------------------------------------------
(* Ports.                                                                  *)

UsePlaces == {"none", "set", "scale", "deploy", "stop", "restart", "delete", "write", "load", "scaling", "count", "envs",
              "copies", "roll", "persist", "rewrite"}
UseRecord == [kind : {"none", "set", "scale", "deploy", "stop", "restart", "delete"}, at : UsePlaces,
              app : Apps \cup {"none"}, arg : Nat, mem : Nat, delta : Int, ok : BOOLEAN]
\* From here to the copies' start the deploy goes by the PORT it has loaded.
Loaded == {"scaling", "count", "envs", "copies", "roll"}

PortTypes ==
    /\ env \in [Apps -> Nat] /\ count \in [Apps -> Nat] /\ DOMAIN web = Apps
    /\ use \in [Users -> UseRecord]
    /\ \A u \in Users : use[u].at # "none" => use[u].app \in Apps
\* One command of an app at a time.
OneEach == \A u, v \in Users : use[u].at # "none" /\ use[v].at # "none" /\ use[u].app = use[v].app => u = v
\* What the deploy loaded is still in ENV.
LoadedHolds(u) ==
    /\ use[u].at = "delete" => use[u].kind = "delete"
    /\ use[u].at \in Loaded \ {"scaling"} => use[u].kind # "delete"
    /\ use[u].at \in Loaded /\ use[u].kind # "delete" => use[u].mem = env[use[u].app]
\* Of two apps that want a pinned port only one has passed the check of the ENV files.
OnePasses ==
    \A u, v \in Users : use[u].at \in {"copies", "roll"} /\ use[v].at \in {"copies", "roll"} /\ use[u].mem = use[v].mem
                        /\ use[u].mem # 0 => use[u].app = use[v].app
\* About to start copies on a pinned port, no other app has one there.
PortIsFree(u) ==
    use[u].at = "roll" /\ use[u].mem \in Pins => \A b \in Apps \ {use[u].app} : ~CopyOnPort(b, use[u].mem)
PortInv ==
    /\ PortTypes /\ OneEach /\ OnePasses
    /\ \A u \in Users : LoadedHolds(u) /\ PortIsFree(u)
    /\ PinnedPortsDiffer

\* A step that changes one command only.
LEMMA OneUse ==
  ASSUME PortTypes, NEW u \in Users, NEW k \in UseRecord, use' = [use EXCEPT ![u] = k]
  PROVE  /\ use' \in [Users -> UseRecord] /\ use'[u] = k
         /\ \A v \in Users : v # u => use'[v] = use[v]
BY DEF PortTypes

\* A step of one command that has started: no app gets copies on a pinned port, and
\* only its own app's ENV may change.
LEMMA UseStep ==
  ASSUME PortInv, NEW u \in Users, NEW k \in UseRecord, use' = [use EXCEPT ![u] = k],
         use[u].at # "none", k.app = use[u].app,
         env' \in [Apps -> Nat], count' \in [Apps -> Nat],
         \A b \in Apps : b # use[u].app => env'[b] = env[b],
         k.at = "delete" => k.kind = "delete", k.at \in Loaded \ {"scaling"} => k.kind # "delete",
         k.at \in Loaded /\ k.kind # "delete" => k.mem = env'[k.app],
         k.at \in {"copies", "roll"} /\ k.mem # 0 => (use[u].at \in {"copies", "roll"} /\ k.mem = use[u].mem)
                                        \/ \A b \in Apps : b # k.app => env[b] # k.mem,
         k.at = "roll" /\ k.mem \in Pins => \A b \in Apps \ {k.app} : ~CopyOnPort(b, k.mem),
         DOMAIN web' = Apps, \A b \in Apps : web'[b] \subseteq web[b]
  PROVE  PortInv'
<1>1. /\ use' \in [Users -> UseRecord] /\ use'[u] = k
      /\ \A v \in Users : v # u => use'[v] = use[v]
  BY OneUse DEF PortInv
<1>2. PortTypes'
  BY <1>1 DEF PortInv, PortTypes
<1>3. OneEach'
  BY <1>1 DEF PortInv, OneEach
<1>4. ASSUME NEW v \in Users, v # u, use[v].at # "none" PROVE use[v].app \in Apps /\ use[v].app # use[u].app /\ env'[use[v].app] = env[use[v].app]
  BY <1>4 DEF PortInv, OneEach, PortTypes
<1>5. \A b \in Apps : PortsOf(b)' \subseteq PortsOf(b)
  BY DEF PortsOf
<1>6. PinnedPortsDiffer'
  BY <1>5 DEF PortInv, PinnedPortsDiffer
<1>7. ASSUME NEW v \in Users PROVE LoadedHolds(v)' /\ PortIsFree(v)'
  <2>1. CASE v = u
    BY <1>1, <1>5, <2>1 DEF LoadedHolds, PortIsFree, CopyOnPort
  <2>2. CASE v # u
    <3>1. LoadedHolds(v) /\ PortIsFree(v) /\ use'[v] = use[v] /\ "none" \notin Loaded
      BY <1>1, <2>2 DEF PortInv, Loaded
    <3> QED
      BY <1>4, <1>5, <2>2, <3>1 DEF LoadedHolds, PortIsFree, CopyOnPort
  <2> QED
    BY <2>1, <2>2
<1>8. OnePasses'
  <2> SUFFICES ASSUME NEW v \in Users, v # u, use[v].at \in {"copies", "roll"}, k.at \in {"copies", "roll"}, use[v].mem = k.mem, k.mem # 0
               PROVE  FALSE
    BY <1>1 DEF OnePasses, PortInv
  <2>1. use[v].mem = env[use[v].app] /\ use[v].app \in Apps /\ use[v].app # use[u].app
    BY <1>4 DEF PortInv, LoadedHolds, Loaded
  <2> QED
    BY <2>1 DEF PortInv, OnePasses
<1> QED
  BY <1>2, <1>3, <1>6, <1>7, <1>8 DEF PortInv

LEMMA StepPort ==
  ASSUME ~Overlap, PortInv, [PortNext]_portVars
  PROVE  PortInv'
<1>t. PortTypes
  BY DEF PortInv
<1>q. \A u \in Users : use[u] \in UseRecord /\ LoadedHolds(u) /\ PortIsFree(u) /\ use[u].mem \in Nat /\ use[u].arg \in Nat
  BY <1>t DEF PortInv, PortTypes, UseRecord
<1>u. env \in [Apps -> Nat] /\ count \in [Apps -> Nat] /\ DOMAIN web = Apps
  BY <1>t DEF PortTypes
<1>a. \A u \in Users : use[u].at # "none" => use[u].app \in Apps
  BY <1>t DEF PortTypes
<1> DEFINE At1(u, s) == [use[u] EXCEPT !.at = s]
<1>k. ASSUME NEW u \in Users, NEW s \in UsePlaces
      PROVE  /\ At1(u, s) \in UseRecord /\ At1(u, s).at = s /\ At1(u, s).kind = use[u].kind
             /\ At1(u, s).app = use[u].app /\ At1(u, s).mem = use[u].mem
  BY <1>q DEF UseRecord
<1>s. \A u \in Users, s \in UsePlaces : Step(u, s) => use' = [use EXCEPT ![u] = At1(u, s)]
  BY DEF Step
<1> HIDE DEF At1
\* The command ends.
<1>1. ASSUME NEW u \in Users, use[u].at # "none", NEW o \in BOOLEAN, Done(u, o), env' \in [Apps -> Nat], count' \in [Apps -> Nat],
             \A b \in Apps : b # use[u].app => env'[b] = env[b],
             DOMAIN web' = Apps, \A b \in Apps : web'[b] \subseteq web[b]
      PROVE  PortInv'
  <2> DEFINE k == [use[u] EXCEPT !.at = "none", !.ok = o]
  <2>1. k \in UseRecord /\ k.at = "none" /\ k.app = use[u].app
    BY <1>q DEF UseRecord, UsePlaces
  <2>2. use' = [use EXCEPT ![u] = k]
    BY <1>1 DEF Done
  <2> HIDE DEF k
  <2>3. "none" \notin Loaded
    BY DEF Loaded
  <2> QED
    BY <1>1, <2>1, <2>2, <2>3, UseStep
<1>2. ASSUME NEW u \in Users, BeginUse(u) PROVE PortInv'
  <2>1. PICK a \in Apps, kind \in {"set", "scale", "deploy", "stop", "restart", "delete"}, x \in Nat :
          /\ use[u].at = "none" /\ \A v \in Users : use[v].at # "none" => use[v].app # a
          /\ use' = [use EXCEPT ![u] = [NoUse EXCEPT !.kind = kind, !.app = a, !.arg = x, !.at = kind]]
    <3>1. PICK a \in Apps : 
            /\ use[u].at = "none" /\ (Overlap \/ \A v \in Users : use[v].at # "none" => AppOf(v) # a)
            /\ \E k \in {"set", "scale", "deploy", "stop", "restart", "delete"} :
               \E x \in CASE k = "set" -> Pins \union {0} [] k = "scale" -> 1..MaxAsked [] OTHER -> {0} :
                  use' = [use EXCEPT ![u] = [NoUse EXCEPT !.kind = k, !.app = a, !.arg = x, !.at = k]]
      BY <1>2 DEF BeginUse
    <3>2. PICK kind \in {"set", "scale", "deploy", "stop", "restart", "delete"} :
             \E x \in CASE kind = "set" -> Pins \union {0} [] kind = "scale" -> 1..MaxAsked [] OTHER -> {0} :
                  use' = [use EXCEPT ![u] = [NoUse EXCEPT !.kind = kind, !.app = a, !.arg = x, !.at = kind]]
      BY <3>1
    <3>3. (CASE kind = "set" -> Pins \union {0} [] kind = "scale" -> 1..MaxAsked [] OTHER -> {0}) \subseteq Nat
      BY PortsAssumption
    <3>4. PICK x \in Nat : use' = [use EXCEPT ![u] = [NoUse EXCEPT !.kind = kind, !.app = a, !.arg = x, !.at = kind]]
      BY <3>2, <3>3
    <3>5. \A v \in Users : use[v].at # "none" => use[v].app # a
      BY <3>1 DEF AppOf
    <3> QED
      BY <3>1, <3>4, <3>5
  <2>2. UNCHANGED <<env, count, web, busy>>
    BY <1>2 DEF BeginUse
  <2> DEFINE k == [NoUse EXCEPT !.kind = kind, !.app = a, !.arg = x, !.at = kind]
  <2>3. NoUse \in UseRecord
    BY DEF NoUse, UseRecord, UsePlaces
  <2>4. k \in UseRecord /\ k.at = kind /\ k.app = a /\ k.kind = kind
    BY <2>3 DEF UseRecord, UsePlaces
  <2> HIDE DEF k
  <2>5. /\ use' \in [Users -> UseRecord] /\ use'[u] = k
        /\ \A v \in Users : v # u => use'[v] = use[v]
    BY <1>t, <2>1, <2>4, OneUse DEF k
  <2>6. kind \notin Loaded /\ kind \notin {"copies", "roll", "none"}
    BY DEF Loaded
  <2>7. PortTypes' /\ OneEach'
    BY <1>t, <2>1, <2>2, <2>4, <2>5 DEF PortTypes, OneEach, PortInv
  <2>8. OnePasses' /\ PinnedPortsDiffer'
    BY <2>2, <2>4, <2>5, <2>6 DEF OnePasses, PinnedPortsDiffer, PortsOf, PortInv
  <2>9. ASSUME NEW v \in Users PROVE LoadedHolds(v)' /\ PortIsFree(v)'
    <3>1. CASE v = u
      BY <2>4, <2>5, <2>6, <3>1 DEF LoadedHolds, PortIsFree
    <3>2. CASE v # u
      BY <1>q, <2>2, <2>5, <3>2 DEF LoadedHolds, PortIsFree, CopyOnPort, PortsOf
    <3> QED
      BY <3>1, <3>2
  <2> QED
    BY <2>7, <2>8, <2>9 DEF PortInv
\* A step that moves the command on and leaves the rest alone.
<1>3. ASSUME NEW u \in Users, use[u].at # "none", NEW s \in UsePlaces, Step(u, s), UNCHANGED <<env, count>>,
             DOMAIN web' = Apps, \A b \in Apps : web'[b] \subseteq web[b],
             s \in Loaded => s # "scaling" /\ use[u].at \in Loaded /\ use[u].kind # "delete",
             s \in {"copies", "roll"} /\ use[u].mem # 0 => use[u].at \in {"copies", "roll"} \/ \A b \in Apps : b # use[u].app => env[b] # use[u].mem,
             s # "delete", s = "roll" /\ use[u].mem \in Pins => \A b \in Apps \ {use[u].app} : ~CopyOnPort(b, use[u].mem)
      PROVE  PortInv'
  <2>1. use' = [use EXCEPT ![u] = At1(u, s)]
    BY <1>3, <1>s
  <2>2. s \in Loaded => use[u].mem = env[use[u].app]
    BY <1>3, <1>q DEF LoadedHolds
  <2> DEFINE k == At1(u, s)
  <2>3. /\ use' = [use EXCEPT ![u] = k] /\ k \in UseRecord /\ k.at = s /\ k.kind = use[u].kind
        /\ k.app = use[u].app /\ k.mem = use[u].mem
    BY <1>k, <2>1
  <2> HIDE DEF k
  <2>4. env' \in [Apps -> Nat] /\ count' \in [Apps -> Nat] /\ \A b \in Apps : env'[b] = env[b]
    BY <1>3, <1>u
  <2>5. k.at \in Loaded \ {"scaling"} => k.kind # "delete"
    BY <1>3, <2>3
  <2>6. k.at \in Loaded /\ k.kind # "delete" => k.mem = env'[k.app]
    BY <1>3, <2>2, <2>3
  <2> QED
    BY <1>3, <2>3, <2>4, <2>5, <2>6, UseStep
\* A command that has not loaded its deploy.
<1>4. ASSUME NEW u \in Users, use[u].at # "none", NEW k \in UseRecord, use' = [use EXCEPT ![u] = k], k.app = use[u].app,
             k.at \notin Loaded \cup {"delete"}, UNCHANGED <<env, count, web>>
      PROVE  PortInv'
  <2>1. {"copies", "roll"} \subseteq Loaded
    BY DEF Loaded
  <2> QED
    BY <1>4, <1>u, <2>1, UseStep
<1>5. ASSUME NEW u \in Users, ConfigReads(u) PROVE PortInv'
  <2> DEFINE k == [use[u] EXCEPT !.at = "write", !.mem = use[u].arg]
  <2>1. k \in UseRecord /\ k.at = "write" /\ k.app = use[u].app
    BY <1>q DEF UseRecord, UsePlaces
  <2>2. use' = [use EXCEPT ![u] = k] /\ UNCHANGED <<env, count, web>> /\ use[u].at # "none"
    BY <1>5 DEF ConfigReads, Here
  <2> HIDE DEF k
  <2>3. "write" \notin Loaded \cup {"delete"}
    BY DEF Loaded
  <2> QED
    BY <1>4, <2>1, <2>2, <2>3
<1>6. ASSUME NEW u \in Users, ScaleProcfile(u) PROVE PortInv'
  <2> DEFINE d == use[u].arg - count[use[u].app]
  <2> DEFINE k == [use[u] EXCEPT !.at = "deploy", !.delta = d]
  <2>1. d \in Int
    BY <1>6, <1>q, <1>a, <1>u DEF ScaleProcfile, Here
  <2>2. use' = [use EXCEPT ![u] = k] /\ UNCHANGED <<env, count, web>> /\ use[u].at # "none"
    BY <1>6 DEF ScaleProcfile, Here, AppOf
  <2> HIDE DEF d
  <2>3. k \in UseRecord /\ k.at = "deploy" /\ k.app = use[u].app
    BY <1>q, <2>1 DEF UseRecord, UsePlaces
  <2> HIDE DEF k
  <2>4. "deploy" \notin Loaded \cup {"delete"}
    BY DEF Loaded
  <2> QED
    BY <1>4, <2>2, <2>3, <2>4
<1>7. ASSUME NEW u \in Users, DeleteWorker(u) PROVE PortInv'
  <2> DEFINE d == 0 - 1
  <2> DEFINE k == [use[u] EXCEPT !.at = "scaling", !.delta = d]
  <2>1. d \in Int
    OBVIOUS
  <2>2. use' = [use EXCEPT ![u] = k] /\ UNCHANGED <<env, count, web>> /\ use[u].at = "delete"
    BY <1>7 DEF DeleteWorker, Here
  <2> HIDE DEF d
  <2>3. k \in UseRecord /\ k.at = "scaling" /\ k.app = use[u].app /\ k.kind = use[u].kind
    BY <1>q, <2>1 DEF UseRecord, UsePlaces
  <2> HIDE DEF k
  <2>4. use[u].kind = "delete"
    BY <1>q, <2>2 DEF LoadedHolds
  <2> QED
    BY <1>u, <2>2, <2>3, <2>4, UseStep
<1>8. ASSUME NEW u \in Users, UpdateEnv(u) PROVE PortInv'
  <2>1. use[u].at = "write" /\ UNCHANGED <<count, web>> /\ use[u].app \in Apps
    BY <1>8, <1>a DEF UpdateEnv, Here
  <2>2. CASE env' = [env EXCEPT ![AppOf(u)] = use[u].mem] /\ Step(u, "deploy")
    <3>1. use' = [use EXCEPT ![u] = At1(u, "deploy")] /\ "deploy" \in UsePlaces
      BY <1>s, <2>2 DEF UsePlaces
    <3>2. env' \in [Apps -> Nat] /\ \A b \in Apps : b # use[u].app => env'[b] = env[b]
      BY <1>q, <1>u, <2>2 DEF AppOf
    <3>3. "deploy" \notin Loaded
      BY DEF Loaded
    <3> QED
      BY <1>k, <1>u, <2>1, <3>1, <3>2, <3>3, UseStep
  <2>3. CASE Done(u, FALSE) /\ UNCHANGED env
    BY <1>1, <1>u, <2>1, <2>3
  <2> QED
    BY <1>8, <2>2, <2>3 DEF UpdateEnv
<1>9. ASSUME NEW u \in Users, StopProcfileApp(u) PROVE PortInv'
  <2>1. use[u].at # "none" /\ UNCHANGED <<env, count>> /\ use[u].app \in Apps
    BY <1>9, <1>a DEF StopProcfileApp
  <2>2. DOMAIN web' = Apps /\ \A b \in Apps : web'[b] \subseteq web[b]
    BY <1>9, <1>u, <2>1 DEF StopProcfileApp, AppOf
  <2>3. "deploy" \in UsePlaces /\ "deploy" \notin Loaded
    BY DEF Loaded, UsePlaces
  <2>4. Step(u, "deploy") \/ \E o \in BOOLEAN : Done(u, o)
    BY <1>9 DEF StopProcfileApp
  <2> QED
    BY <1>1, <1>3, <1>u, <2>1, <2>2, <2>3, <2>4
<1>10. ASSUME NEW u \in Users, TakeDeployLock(u) PROVE PortInv'
  <2>1. use[u].at # "none" /\ UNCHANGED <<env, count, web>>
    BY <1>10 DEF TakeDeployLock, Here
  <2>2. "load" \in UsePlaces /\ "load" \notin Loaded
    BY DEF Loaded, UsePlaces
  <2>3. Step(u, "load") \/ Done(u, FALSE)
    BY <1>10 DEF TakeDeployLock
  <2> QED
    BY <1>1, <1>3, <1>u, <2>1, <2>2, <2>3
<1>11. ASSUME NEW u \in Users, LoadDeployEnv(u) \/ PersistReads(u) PROVE PortInv'
  <2>1. use[u].at # "none" /\ UNCHANGED <<env, count, web>> /\ use[u].app \in Apps /\ env[use[u].app] \in Nat
    BY <1>11, <1>a, <1>u DEF LoadDeployEnv, PersistReads, Here
  <2>2. ASSUME NEW s \in {"scaling", "rewrite"}, use' = [use EXCEPT ![u].at = s, ![u].mem = env[AppOf(u)]]
        PROVE  PortInv'
    <3> DEFINE m == env[use[u].app]
    <3> DEFINE k == [use[u] EXCEPT !.at = s, !.mem = m]
    <3>1. use' = [use EXCEPT ![u] = k] /\ m \in Nat /\ m = env[use[u].app]
      BY <2>1, <2>2 DEF AppOf
    <3> HIDE DEF m
    <3>2. k \in UseRecord /\ k.at = s /\ k.app = use[u].app /\ k.mem = m
      BY <1>q, <3>1 DEF UseRecord, UsePlaces
    <3> HIDE DEF k
    <3>3. s \notin Loaded \ {"scaling"} /\ s \notin {"copies", "roll", "delete"}
      BY DEF Loaded
    <3> QED
      BY <1>u, <2>1, <3>1, <3>2, <3>3, UseStep
  <2>3. CASE Done(u, FALSE)
    BY <1>1, <1>u, <2>1, <2>3
  <2> QED
    BY <1>11, <2>2, <2>3 DEF LoadDeployEnv, PersistReads
<1>12. ASSUME NEW u \in Users, ApplyScalingDeltas(u) PROVE PortInv'
  <2>1. use[u].at = "scaling" /\ UNCHANGED env /\ use[u].app \in Apps
    BY <1>12, <1>a DEF ApplyScalingDeltas, Here
  <2>2. count' \in [Apps -> Nat]
    <3>1. ReadCount(AppOf(u)) \in Nat /\ use[u].delta \in Int
      BY <1>q, <1>u, <2>1 DEF ReadCount, AppOf, UseRecord
    <3>2. Changed(ReadCount(AppOf(u)), use[u].delta) \in Nat
      BY <3>1 DEF Changed
    <3>3. count' = [count EXCEPT ![AppOf(u)] = Changed(ReadCount(AppOf(u)), use[u].delta)] \/ count' = [count EXCEPT ![AppOf(u)] = 0]
      BY <1>12 DEF ApplyScalingDeltas
    <3> QED
      BY <1>u, <3>2, <3>3
  <2>3. DOMAIN web' = Apps /\ \A b \in Apps : web'[b] \subseteq web[b]
    BY <1>12, <1>u, <2>1 DEF ApplyScalingDeltas, AppOf, RemoveScaledDown
  <2>4. CASE use[u].kind # "delete" /\ Step(u, "count")
    <3>1. use' = [use EXCEPT ![u] = At1(u, "count")] /\ "count" \in UsePlaces /\ "scaling" \in Loaded
      BY <1>s, <2>4 DEF UsePlaces, Loaded
    <3>2. use[u].mem = env[use[u].app]
      BY <1>q, <2>1, <2>4, <3>1 DEF LoadedHolds
    <3> QED
      BY <1>k, <1>u, <2>1, <2>2, <2>3, <2>4, <3>1, <3>2, UseStep
  <2>5. ASSUME NEW o \in BOOLEAN, Done(u, o) PROVE PortInv'
    BY <1>1, <1>u, <2>1, <2>2, <2>3, <2>5
  <2> QED
    BY <1>12, <2>4, <2>5 DEF ApplyScalingDeltas
<1>13. ASSUME NEW u \in Users, CheckCount(u) PROVE PortInv'
  <2>1. use[u].at = "count" /\ UNCHANGED <<env, count, web>> /\ "count" \in Loaded /\ {"envs", "roll"} \subseteq UsePlaces
    BY <1>13 DEF CheckCount, Here, Loaded, UsePlaces
  <2>2. use[u].kind # "delete" /\ use[u].mem = env[use[u].app]
    BY <1>q, <2>1 DEF LoadedHolds
  <2>3. CASE Done(u, FALSE)
    BY <1>1, <1>u, <2>1, <2>3
  <2>4. CASE Step(u, "envs")
    BY <1>3, <1>u, <2>1, <2>2, <2>4
  <2>5. CASE use[u].mem = 0 /\ Step(u, "roll")
    BY <1>3, <1>u, <2>1, <2>2, <2>5, PortsAssumption
  <2> QED
    BY <1>13, <2>3, <2>4, <2>5 DEF CheckCount
<1>14. ASSUME NEW u \in Users, AppUsesPort(u) PROVE PortInv'
  <2>1. use[u].at = "envs" /\ UNCHANGED <<env, count, web>> /\ "envs" \in Loaded /\ "copies" \in UsePlaces
    BY <1>14 DEF AppUsesPort, Here, Loaded, UsePlaces
  <2>2. use[u].kind # "delete"
    BY <1>q, <2>1 DEF LoadedHolds
  <2>3. CASE Done(u, FALSE)
    BY <1>1, <1>u, <2>1, <2>3
  <2>4. CASE Step(u, "copies") /\ ~ \E b \in Apps \ {AppOf(u)} : env[b] = use[u].mem
    <3>1. \A b \in Apps : b # use[u].app => env[b] # use[u].mem
      BY <2>4 DEF AppOf
    <3> QED
      BY <1>3, <1>u, <2>1, <2>2, <2>4, <3>1
  <2> QED
    BY <1>14, <2>3, <2>4 DEF AppUsesPort
<1>15. ASSUME NEW u \in Users, CheckCopies(u) PROVE PortInv'
  <2>1. use[u].at = "copies" /\ UNCHANGED <<env, count, web>> /\ "copies" \in Loaded /\ "roll" \in UsePlaces
    BY <1>15 DEF CheckCopies, Here, Loaded, UsePlaces
  <2>2. use[u].kind # "delete"
    BY <1>q, <2>1 DEF LoadedHolds
  <2>3. CASE Done(u, FALSE)
    BY <1>1, <1>u, <2>1, <2>3
  <2>4. CASE Step(u, "roll") /\ ~ \E b \in Apps \ {AppOf(u)} : CopyOnPort(b, use[u].mem)
    <3>1. \A b \in Apps \ {use[u].app} : ~CopyOnPort(b, use[u].mem)
      BY <2>4 DEF AppOf
    <3> QED
      BY <1>3, <1>u, <2>1, <2>2, <2>4, <3>1
  <2> QED
    BY <1>15, <2>3, <2>4 DEF CheckCopies
\* The copies start: on the pinned port, which is free, or on picked ones.
<1>16. ASSUME NEW u \in Users, RollWebKind(u) PROVE PortInv'
  <2>0. PICK a \in Apps : a = use[u].app
    BY <1>16, <1>a DEF RollWebKind, Here
  <2>1. use[u].at = "roll" /\ UNCHANGED <<env, count>> /\ "roll" \in Loaded
    BY <1>16, <1>a DEF RollWebKind, Here, Loaded
  <2>2. PICK C \in NewCopies(u) : \E W \in SUBSET (web[a] \cup C) : web' = [web EXCEPT ![a] = W]
    <3>1. CASE \E C \in NewCopies(u) : web' = [web EXCEPT ![a] = C]
      BY <3>1
    <3>2. CASE \E C \in NewCopies(u), old \in SUBSET web[a] : \E new \in SUBSET C : web' = [web EXCEPT ![a] = old \union new]
      <4>1. PICK C \in NewCopies(u), old \in SUBSET web[a] : \E new \in SUBSET C : web' = [web EXCEPT ![a] = old \union new]
        BY <3>2
      <4>2. PICK new \in SUBSET C : web' = [web EXCEPT ![a] = old \union new]
        BY <4>1
      <4>3. old \union new \in SUBSET (web[a] \cup C)
        OBVIOUS
      <4> QED
        BY <4>2, <4>3
    <3> QED
      BY <1>16, <2>0, <3>1, <3>2 DEF RollWebKind, AppOf
  <2>3. PICK W \in SUBSET (web[a] \cup C) : web' = [web EXCEPT ![a] = W]
    BY <2>2
  <2>4. \A w \in C : w.port \in Pins => w.port = use[u].mem /\ use[u].mem # 0
    <3>1. CASE use[u].mem # 0
      <4>1. C = {[n |-> n, port |-> use[u].mem] : n \in 1..count[a]}
        BY <2>0, <3>1 DEF NewCopies, AppOf
      <4> QED
        BY <3>1, <4>1
    <3>2. CASE use[u].mem = 0
      <4>1. PICK f \in [1..count[a] -> UnusedPorts(a)] : C = {[n |-> n, port |-> f[n]] : n \in 1..count[a]}
        BY <2>0, <3>2 DEF NewCopies, AppOf
      <4>2. \A n \in 1..count[a] : f[n] \in Picks
        BY DEF UnusedPorts
      <4> QED
        BY <4>1, <4>2, PortsAssumption
    <3> QED
      BY <3>1, <3>2
  <2>5. /\ DOMAIN web' = Apps /\ \A b \in Apps : b # a => PortsOf(b)' = PortsOf(b)
        /\ \A p \in PortsOf(a)' : p \in PortsOf(a) \/ \E w \in C : w.port = p
    <3>1. web'[a] = W /\ DOMAIN web' = Apps /\ \A b \in Apps : b # a => web'[b] = web[b]
      BY <1>u, <2>3
    <3> QED
      BY <3>1 DEF PortsOf
  <2>6. \A b \in Apps \ {a} : use[u].mem \in Pins => use[u].mem \notin PortsOf(b)
    BY <1>q, <2>0, <2>1 DEF PortIsFree, CopyOnPort
  <2>7. ASSUME NEW b \in Apps, b # a PROVE PortsOf(a)' \intersect PortsOf(b)' \intersect Pins = {}
    <3>1. PortsOf(a) \intersect PortsOf(b) \intersect Pins = {}
      BY <2>1, <2>7 DEF PortInv, PinnedPortsDiffer
    <3> QED
      BY <2>4, <2>5, <2>6, <2>7, <3>1
  <2>8. PinnedPortsDiffer'
    <3> SUFFICES ASSUME NEW b \in Apps, NEW c \in Apps, b # c PROVE PortsOf(b)' \intersect PortsOf(c)' \intersect Pins = {}
      BY DEF PinnedPortsDiffer
    <3>1. CASE b = a
      BY <2>7, <3>1
    <3>2. CASE c = a
      BY <2>7, <3>2
    <3>3. CASE b # a /\ c # a
      BY <2>5, <3>3 DEF PortInv, PinnedPortsDiffer
    <3> QED
      BY <3>1, <3>2, <3>3
  <2>9. PICK k \in UseRecord : use' = [use EXCEPT ![u] = k] /\ k.app = a /\ k.at \in {"none", "persist"}
    <3>1. CASE Step(u, "persist")
      BY <1>k, <1>s, <2>0, <3>1 DEF UsePlaces
    <3>2. CASE Done(u, FALSE)
      <4> DEFINE k == [use[u] EXCEPT !.at = "none", !.ok = FALSE]
      <4>1. k \in UseRecord /\ k.at = "none" /\ k.app = use[u].app
        BY <1>q DEF UseRecord, UsePlaces
      <4>2. use' = [use EXCEPT ![u] = k]
        BY <3>2 DEF Done
      <4> HIDE DEF k
      <4> QED
        BY <2>0, <4>1, <4>2
    <3> QED
      BY <1>16, <3>1, <3>2 DEF RollWebKind
  <2>10. /\ use' \in [Users -> UseRecord] /\ use'[u] = k
         /\ \A v \in Users : v # u => use'[v] = use[v]
    BY <1>t, <2>9, OneUse
  <2>11. PortTypes' /\ OneEach' /\ OnePasses'
    BY <1>t, <2>0, <2>1, <2>5, <2>9, <2>10 DEF PortTypes, OneEach, OnePasses, PortInv
  <2>12. ASSUME NEW v \in Users PROVE LoadedHolds(v)' /\ PortIsFree(v)'
    <3>1. CASE v = u
      BY <2>9, <2>10, <3>1 DEF LoadedHolds, PortIsFree, Loaded
    <3>2. CASE v # u
      <4>1. LoadedHolds(v) /\ PortIsFree(v) /\ use'[v] = use[v]
        BY <1>q, <2>10, <3>2
      <4>2. ASSUME use[v].at = "roll", use[v].mem \in Pins, NEW b \in Apps \ {use[v].app} PROVE use[v].mem \notin PortsOf(b)'
        <5>1. use[v].mem \notin PortsOf(b) /\ use[v].app # a
          BY <2>0, <2>1, <3>2, <4>1, <4>2 DEF PortIsFree, CopyOnPort, PortInv, OneEach
        <5>2. CASE b # a
          BY <2>5, <5>1, <5>2
        <5>3. CASE b = a
          <6>1. \A w \in C : w.port # use[v].mem
            <7>1. use[v].mem = use[u].mem => FALSE
              BY <2>0, <2>1, <4>2, <5>1, PortsAssumption DEF PortInv, OnePasses
            <7> QED
              BY <2>4, <4>2, <7>1
          <6> QED
            BY <2>5, <5>1, <5>3, <6>1
        <5> QED
          BY <5>2, <5>3
      <4> QED
        BY <2>1, <4>1, <4>2 DEF LoadedHolds, PortIsFree, CopyOnPort
    <3> QED
      BY <3>1, <3>2
  <2> QED
    BY <2>8, <2>11, <2>12 DEF PortInv
<1>17. ASSUME NEW u \in Users, RewriteAppEnv(u) PROVE PortInv'
  <2>1. use[u].at = "rewrite" /\ UNCHANGED <<count, web>> /\ use[u].app \in Apps
    BY <1>17, <1>a DEF RewriteAppEnv, Here
  <2>2. env' \in [Apps -> Nat] /\ \A b \in Apps : b # use[u].app => env'[b] = env[b]
    BY <1>17, <1>q, <1>u, <2>1 DEF RewriteAppEnv, AppOf
  <2>3. \E o \in BOOLEAN : Done(u, o)
    BY <1>17 DEF RewriteAppEnv
  <2> QED
    BY <1>1, <1>u, <2>1, <2>2, <2>3
<1>18. ASSUME NEW u \in Users, KilledUse(u) PROVE PortInv'
  <2>1. UNCHANGED <<env, count, web>> /\ use[u].at # "none" /\ Done(u, FALSE)
    BY <1>18 DEF KilledUse
  <2> QED
    BY <1>1, <1>u, <2>1
<1>19. CASE UNCHANGED portVars
  BY <1>19 DEF portVars, PortInv, PortTypes, OneEach, OnePasses, LoadedHolds, PortIsFree, CopyOnPort, PortsOf, PinnedPortsDiffer
<1> QED
  BY <1>2, <1>5, <1>6, <1>7, <1>8, <1>9, <1>10, <1>11, <1>12, <1>13, <1>14, <1>15, <1>16, <1>17, <1>18, <1>19 DEF PortNext

(***************************************************************************)
(* While the commands of one app come one after the other, no two apps run *)
(* web copies on one pinned port, however many apps deploy at once.        *)
(***************************************************************************)
THEOREM PinnedPortsAreApart == PortSpec /\ ~Overlap => []PinnedPortsDiffer
<1>1. PortInit => PortInv
  <2>1. NoUse \in UseRecord /\ NoUse.at = "none" /\ "none" \notin Loaded
    BY DEF NoUse, UseRecord, UsePlaces, Loaded
  <2> QED
    BY <2>1 DEF PortInit, PortInv, PortTypes, OneEach, OnePasses, LoadedHolds, PortIsFree, PinnedPortsDiffer, PortsOf
<1>2. PortInv => PinnedPortsDiffer
  BY DEF PortInv
<1>3. ASSUME ~Overlap PROVE PortInv /\ [PortNext]_portVars => PortInv'
  BY <1>3, StepPort
<1>4. CASE Overlap
  BY <1>4
<1>5. CASE ~Overlap
  <2>1. PortInv /\ [PortNext]_portVars => PortInv'
    BY <1>3, <1>5
  <2> QED
    BY <1>1, <1>2, <2>1, PTL DEF PortSpec
<1> QED
  BY <1>4, <1>5

-----------------------------------------------------------------------------
(* Worker configs.                                                         *)

ToWrite == entries \ OneShotKinds
FileTypes ==
    /\ procfile \in (SUBSET Kinds) \cup {NoProcfile}
    /\ counts \in [Kinds -> Nat] /\ entries \subseteq Kinds
    /\ pc \in {"idle", "check", "stale", "entries", "keys", "surplus", "kinds"}
    /\ pc # "idle" => done \in {"none", "warned"}
\* The kinds that the deploy has written have their copies, and no others of a kind
\* that a router fronts; the routing keys name one of them.
KindsWritten ==
    pc = "kinds" =>
        /\ todo \subseteq ToWrite
        /\ \A k \in ToWrite \ todo : NewWorkers(k) \subseteq enabled
        /\ \A w \in enabled : IsWebFacing(w.kind) /\ w.kind \in ToWrite \ todo => w \in NewWorkers(w.kind)
        /\ \A k \in ToWrite \ todo : IsWebFacing(k) /\ counts[k] > 0 =>
              \E j \in ToWrite \ todo : IsWebFacing(j) /\ counts[j] > 0 /\ keys = ApplyRouteKeys(j)
\* Once the stale ones are removed, only this deploy writes configs of the other kinds.
StaleGone ==
    pc \in {"entries", "keys", "surplus", "kinds"} /\ done # "warned" /\ auto =>
        \A w \in enabled : ~IsWebFacing(w.kind) =>
            pc = "kinds" /\ w.kind \in ToWrite \ todo /\ w \in NewWorkers(w.kind)
FileInv == FileTypes /\ KindsWritten /\ StaleGone /\ DeployLeavesProcfile

LEMMA StepFile == FileInv /\ [FileNext]_fileVars => FileInv'
<1> SUFFICES ASSUME FileInv, [FileNext]_fileVars PROVE FileInv'
  OBVIOUS
<1>t. FileTypes
  BY DEF FileInv
\* A deploy that ends with nothing to promise, and a step before the kinds.
<1>1. ASSUME FileTypes', pc' = "idle", done' # "ok" PROVE FileInv'
  BY <1>1 DEF FileInv, KindsWritten, StaleGone, DeployLeavesProcfile
<1>2. ASSUME FileTypes', pc' \in {"check", "stale"} PROVE FileInv'
  <2>1. done' # "ok"
    BY <1>2 DEF FileTypes
  <2> QED
    BY <1>2, <2>1 DEF FileInv, KindsWritten, StaleGone, DeployLeavesProcfile
<1>3. ASSUME FileTypes', pc' \in {"entries", "keys", "surplus"},
             done' # "warned" /\ auto' => \A w \in enabled' : IsWebFacing(w.kind)
      PROVE  FileInv'
  <2>1. done' # "ok"
    BY <1>3 DEF FileTypes
  <2> QED
    BY <1>3, <2>1 DEF FileInv, KindsWritten, StaleGone, DeployLeavesProcfile, IsWebFacing
<1>4. CASE Edit
  <2>1. procfile' \in (SUBSET Kinds) \cup {NoProcfile} /\ pc' = "check" /\ done' = "none" /\ UNCHANGED entries
    BY <1>4 DEF Edit
  <2>2. counts' \in [Kinds -> Nat]
    <3>1. PICK k \in Kinds, n \in 0..MaxCopies : counts' = [counts EXCEPT ![k] = n]
      BY <1>4 DEF Edit
    <3>a. MaxCopies \in Nat
      BY KindsAssumption
    <3>2. n \in Nat
      BY <3>a
    <3> QED
      BY <1>t, <3>1, <3>2 DEF FileTypes
  <2> QED
    BY <1>2, <1>t, <2>1, <2>2 DEF FileTypes
<1>5. CASE CheckAddresses
  <2>1. pc = "check" /\ UNCHANGED <<procfile, counts, entries>> /\ ((pc' = "stale" /\ done' = done) \/ (pc' = "idle" /\ done' = "failed"))
    BY <1>5 DEF CheckAddresses, inputs, Go, Fail
  <2>2. FileTypes'
    BY <1>t, <2>1 DEF FileTypes
  <2> QED
    BY <1>1, <1>2, <2>1, <2>2
<1>6. CASE RemoveStaleConfigs
  <2>1. pc = "stale" /\ pc' = "entries" /\ UNCHANGED <<procfile, counts, entries, auto>> /\ (done' = done \/ done' = "warned")
    BY <1>6 DEF RemoveStaleConfigs, inputs
  <2>2. FileTypes'
    BY <1>t, <2>1 DEF FileTypes
  <2>3. done' # "warned" /\ auto' => \A w \in enabled' : IsWebFacing(w.kind)
    BY <1>6, <2>1 DEF RemoveStaleConfigs
  <2> QED
    BY <1>3, <2>1, <2>2, <2>3
<1>7. CASE ReadEntries
  <2>1. pc = "entries" /\ UNCHANGED <<procfile, counts, enabled, auto>>
        /\ ((pc' = "keys" /\ done' = done) \/ (pc' = "idle" /\ done' = "skipped"))
    BY <1>7 DEF ReadEntries, inputs, Go
  <2>2. entries' \subseteq Kinds
    BY <1>7, <1>t, KindsAssumption DEF ReadEntries, FileTypes, ParseProcfile
  <2>3. FileTypes'
    BY <1>t, <2>1, <2>2 DEF FileTypes
  <2>4. pc' = "keys" => (done' # "warned" /\ auto' => \A w \in enabled' : IsWebFacing(w.kind))
    BY <2>1 DEF FileInv, StaleGone
  <2> QED
    BY <1>1, <1>3, <2>1, <2>3, <2>4
<1>8. CASE ClearRouteEnv
  <2>1. pc = "keys" /\ UNCHANGED <<procfile, counts, enabled, entries, auto>>
        /\ ((pc' = "surplus" /\ done' = done) \/ (pc' = "idle" /\ done' = "failed"))
    BY <1>8 DEF ClearRouteEnv, inputs, Go, Fail
  <2>2. FileTypes'
    BY <1>t, <2>1 DEF FileTypes
  <2>3. pc' = "surplus" => (done' # "warned" /\ auto' => \A w \in enabled' : IsWebFacing(w.kind))
    BY <2>1 DEF FileInv, StaleGone
  <2> QED
    BY <1>1, <1>3, <2>1, <2>2, <2>3
<1>9. CASE RemoveSurplusConfigs
  <2>1. pc = "surplus" /\ pc' = "kinds" /\ done' = done /\ UNCHANGED <<procfile, counts, entries, auto>>
        /\ enabled' \subseteq enabled /\ todo' = ToWrite /\ ToWrite' = ToWrite
    BY <1>9 DEF RemoveSurplusConfigs, inputs, Go, ToWrite
  <2>2. FileTypes' /\ done' # "ok"
    BY <1>t, <2>1 DEF FileTypes
  <2>3. KindsWritten'
    BY <2>1 DEF KindsWritten
  <2>4. StaleGone'
    BY <2>1 DEF FileInv, StaleGone
  <2> QED
    BY <2>2, <2>3, <2>4 DEF FileInv, DeployLeavesProcfile
<1>10. CASE ReplaceKind
  <2>1. pc = "kinds" /\ UNCHANGED <<procfile, counts, entries, auto, deploys>> /\ ((pc' = "kinds" /\ done' = done) \/ (pc' = "idle" /\ done' = "failed"))
    BY <1>10 DEF ReplaceKind, RollWebFacing, StopWebKind, WriteCopies, inputs, Go, Fail
  <2>2. FileTypes'
    BY <1>t, <2>1 DEF FileTypes
  <2>3. CASE pc' = "kinds" /\ done' = done
    <3>1. PICK k \in todo : todo' = todo \ {k} /\ (RollWebFacing(k) \/ StopWebKind(k) \/ WriteCopies(k))
      BY <1>10 DEF ReplaceKind
    <3>2. /\ ToWrite' = ToWrite /\ todo \subseteq ToWrite /\ k \in ToWrite /\ ToWrite' \ todo' = (ToWrite \ todo) \cup {k}
          /\ \A j : NewWorkers(j)' = NewWorkers(j)
      BY <2>1, <3>1 DEF FileInv, KindsWritten, ToWrite, NewWorkers, Written
    <3>3. ToWrite \subseteq Kinds /\ counts[k] \in Nat
      BY <1>t, <3>2 DEF FileTypes, ToWrite
    <3>4. \A j : \A w \in NewWorkers(j) : w.kind = j
      BY DEF NewWorkers, Written
    <3>5. /\ NewWorkers(k) \subseteq enabled'
          /\ \A w \in enabled' : w.kind # k => w \in enabled
          /\ \A w \in enabled : w.kind # k => w \in enabled'
          /\ \A w \in enabled' : w.kind = k => w \in NewWorkers(k) \/ (w \in enabled /\ ~IsWebFacing(k))
      <4>1. CASE RollWebFacing(k)
        <5>1. enabled' = (enabled \ CopiesOf(k)) \union NewWorkers(k)
          BY <2>1, <2>3, <4>1 DEF RollWebFacing, Fail
        <5> QED
          BY <3>4, <5>1 DEF CopiesOf
      <4>2. CASE StopWebKind(k)
        <5>1. enabled' = enabled \ CopiesOf(k) /\ counts[k] = 0
          BY <2>1, <2>3, <4>2 DEF StopWebKind, Fail, StopCopies
        <5>2. NewWorkers(k) = {}
          BY <5>1 DEF NewWorkers
        <5> QED
          BY <5>1, <5>2 DEF CopiesOf
      <4>3. CASE WriteCopies(k)
        <5>1. enabled' = {w \in enabled : w.kind # k \/ w.n > counts[k]} \union NewWorkers(k) /\ ~IsWebFacing(k)
          BY <2>1, <2>3, <4>3 DEF WriteCopies, Fail
        <5> QED
          BY <3>4, <5>1
      <4> QED
        BY <3>1, <4>1, <4>2, <4>3
    <3>6. \/ IsWebFacing(k) /\ counts[k] > 0 /\ keys' = ApplyRouteKeys(k)
          \/ (IsWebFacing(k) => counts[k] = 0) /\ keys' = keys
      BY <2>1, <2>3, <3>1 DEF RollWebFacing, StopWebKind, WriteCopies, Fail
    <3>7. KindsWritten'
      <4>1. \A j \in ToWrite' \ todo' : NewWorkers(j)' \subseteq enabled'
        BY <2>1, <3>2, <3>4, <3>5 DEF FileInv, KindsWritten
      <4>2. \A w \in enabled' : IsWebFacing(w.kind) /\ w.kind \in ToWrite' \ todo' => w \in NewWorkers(w.kind)'
        BY <2>1, <3>2, <3>5 DEF FileInv, KindsWritten
      <4>3. \A i \in ToWrite' \ todo' : IsWebFacing(i) /\ counts'[i] > 0 =>
              \E j \in ToWrite' \ todo' : IsWebFacing(j) /\ counts'[j] > 0 /\ keys' = ApplyRouteKeys(j)
        <5>1. CASE IsWebFacing(k) /\ counts[k] > 0 /\ keys' = ApplyRouteKeys(k)
          BY <2>1, <3>2, <5>1
        <5>2. CASE (IsWebFacing(k) => counts[k] = 0) /\ keys' = keys
          BY <2>1, <3>2, <3>3, <5>2 DEF FileInv, KindsWritten
        <5> QED
          BY <3>6, <5>1, <5>2
      <4> QED
        BY <3>1, <3>2, <4>1, <4>2, <4>3 DEF KindsWritten, IsWebFacing, ApplyRouteKeys
    <3>8. StaleGone'
      BY <2>1, <2>3, <3>2, <3>5 DEF FileInv, StaleGone, IsWebFacing
    <3>9. done' # "ok"
      BY <2>2, <2>3 DEF FileTypes
    <3> QED
      BY <2>2, <3>7, <3>8, <3>9 DEF FileInv, DeployLeavesProcfile
  <2> QED
    BY <1>1, <2>1, <2>2, <2>3
<1>11. CASE StopDroppedKinds
  <2>1. pc = "kinds" /\ pc' = "idle" /\ todo = {} /\ UNCHANGED <<procfile, counts, entries, auto, deploys, keys>>
    BY <1>11 DEF StopDroppedKinds, inputs, Fail
  <2>2. FileTypes'
    BY <1>t, <2>1 DEF FileTypes
  <2>3. CASE done' = "ok"
    <3>1. done # "warned" /\ enabled' = enabled \ Dropped
      BY <1>11, <2>3 DEF StopDroppedKinds, Fail, StopCopies
    <3>2. Wanted' = Wanted /\ Wanted = UNION {NewWorkers(k) : k \in ToWrite}
      BY <2>1 DEF Wanted, NewWorkers, Written, ToWrite
    <3>3. /\ \A k \in ToWrite : NewWorkers(k) \subseteq enabled
          /\ \A w \in enabled : IsWebFacing(w.kind) /\ w.kind \in ToWrite => w \in NewWorkers(w.kind)
          /\ \A k \in ToWrite : IsWebFacing(k) /\ counts[k] > 0 =>
                \E j \in ToWrite : IsWebFacing(j) /\ counts[j] > 0 /\ keys = ApplyRouteKeys(j)
          /\ auto => \A w \in enabled : ~IsWebFacing(w.kind) => w.kind \in ToWrite /\ w \in NewWorkers(w.kind)
      BY <2>1, <3>1 DEF FileInv, KindsWritten, StaleGone
    <3>4. \A j : \A w \in NewWorkers(j) : w.kind = j
      BY DEF NewWorkers, Written
    <3>5. \A w \in enabled' : w \in enabled /\ (IsWebFacing(w.kind) => w.kind \in ToWrite)
      BY <3>1 DEF Dropped, ToWrite, OneShotKinds, IsWebFacing, WebFacing, Wsgi
    <3>6. Wanted' \subseteq enabled'
      BY <3>1, <3>2, <3>3, <3>4 DEF Dropped, ToWrite
    <3>7. \A w \in enabled' : auto \/ IsWebFacing(w.kind) => w \in Wanted
      BY <3>2, <3>3, <3>5
    <3>8. ASSUME NEW w \in enabled', IsWebFacing(w.kind)
          PROVE  \E v \in enabled' : IsWebFacing(v.kind) /\ keys = ApplyRouteKeys(v.kind)
      <4>1. w.kind \in ToWrite /\ w \in NewWorkers(w.kind) /\ counts[w.kind] \in Nat
        BY <1>t, <3>3, <3>5, <3>8 DEF FileTypes, ToWrite
      <4>2. counts[w.kind] > 0
        BY <4>1 DEF NewWorkers
      <4>3. PICK j \in ToWrite : IsWebFacing(j) /\ counts[j] > 0 /\ keys = ApplyRouteKeys(j)
        BY <3>3, <3>8, <4>1, <4>2
      <4>4. counts[j] \in Nat
        BY <1>t DEF FileTypes, ToWrite
      <4>5. Written(j, 1) \in NewWorkers(j) /\ Written(j, 1).kind = j
        BY <4>3, <4>4 DEF NewWorkers, Written
      <4> QED
        BY <3>2, <3>6, <4>3, <4>5
    <3>9. DeployLeavesProcfile'
      BY <2>1, <3>2, <3>6, <3>7, <3>8 DEF DeployLeavesProcfile, IsWebFacing, ApplyRouteKeys
    <3> QED
      BY <2>1, <2>2, <3>9 DEF FileInv, KindsWritten, StaleGone
  <2> QED
    BY <1>1, <2>1, <2>2, <2>3
<1>12. CASE StopApp
  <2>1. pc' = "idle" /\ done' = "stopped" /\ UNCHANGED <<procfile, counts, entries>>
    BY <1>12 DEF StopApp, inputs
  <2> QED
    BY <1>1, <1>t, <2>1 DEF FileTypes
<1>13. CASE KillDeploy
  <2>1. pc' = "idle" /\ done' = "failed" /\ UNCHANGED <<procfile, counts, entries>>
    BY <1>13 DEF KillDeploy, Fail, inputs
  <2> QED
    BY <1>1, <1>t, <2>1 DEF FileTypes
<1>14. CASE UNCHANGED fileVars
  BY <1>14 DEF fileVars, FileInv, FileTypes, KindsWritten, StaleGone, DeployLeavesProcfile, ToWrite, NewWorkers, Written, Wanted
<1> QED
  BY <1>4, <1>5, <1>6, <1>7, <1>8, <1>9, <1>10, <1>11, <1>12, <1>13, <1>14 DEF FileNext

(***************************************************************************)
(* A deploy that went through leaves the copies of its Procfile, for every *)
(* Procfile and whatever earlier deploys left behind.                      *)
(***************************************************************************)
THEOREM ProcfileIsWhatRuns == FileSpec => []DeployLeavesProcfile
<1>1. FileInit => FileInv
  BY DEF FileInit, FileInv, FileTypes, KindsWritten, StaleGone, DeployLeavesProcfile
<1>2. FileInv => DeployLeavesProcfile
  BY DEF FileInv
<1> QED
  BY <1>1, <1>2, StepFile, PTL DEF FileSpec

-----------------------------------------------------------------------------
(* App files.                                                              *)

FileNames == {"containers", "plugin", "route", "enabled", "available", "repo link", "env", "git", "log", "acme certs",
              "acme link", "static", "app"}
DeployNames == {"log", "env", "plugin", "containers", "available", "enabled", "route", "static"}
\* What is left of a destroy is the end of its steps.
EndOfSteps(q) ==
    /\ q \in Seq(FileNames) /\ Len(q) <= 13
    /\ \A j \in 1..Len(q) : q[j] = DestroySteps[13 - Len(q) + j]
WritesLeft ==
    /\ deploying \in Seq(DeployNames)
    /\ \A j \in 1..Len(deploying) : deploying[j] = "containers" => containerApp
FilesFit ==
    /\ archive \subseteq Components
    /\ containerApp \in BOOLEAN /\ force \in BOOLEAN /\ raced \in BOOLEAN
    /\ "containers" \in files => containerApp
    /\ ~raced /\ "acme certs" \in files => "acme link" \in files
    /\ destroying # <<>> /\ deploying # <<>> => raced
\* Alone, a destroy has removed what its steps were for, or need not.
Gone(i) ==
    DestroySteps[i] \in Destroyable /\ DestroySteps[i] \in files => force /\ DestroySteps[i] = "containers"
PassedAreGone == destroying # <<>> /\ ~raced => \A i \in 1..(13 - Len(destroying)) : Gone(i)
FilesInv == EndOfSteps(destroying) /\ WritesLeft /\ FilesFit /\ PassedAreGone

LEMMA StepsAre ==
  /\ Len(DestroySteps) = 13
  /\ DestroySteps[1] = "containers" /\ DestroySteps[2] = "plugin" /\ DestroySteps[3] = "route" /\ DestroySteps[4] = "enabled"
  /\ DestroySteps[5] = "available" /\ DestroySteps[6] = "repo link" /\ DestroySteps[7] = "env" /\ DestroySteps[8] = "git"
  /\ DestroySteps[9] = "log" /\ DestroySteps[10] = "acme certs" /\ DestroySteps[11] = "acme link"
  /\ DestroySteps[12] = "static" /\ DestroySteps[13] = "app"
BY DEF DestroySteps

LEMMA DestroyableAre ==
  /\ \A x \in Destroyable : \E i \in 1..13 : x = DestroySteps[i]
  /\ "plugin" \notin Destroyable /\ "acme link" \notin Destroyable
<1>1. DOMAIN DestroySteps = 1..13
  BY DEF DestroySteps
<1> QED
  BY <1>1 DEF Destroyable, Pieces, Kept

LEMMA WhichStep ==
  \A i \in 1..13 : (DestroySteps[i] = "acme certs" => i = 10) /\ (DestroySteps[i] = "acme link" => i = 11) /\ (DestroySteps[i] = "app" => i = 13)
<1> SUFFICES ASSUME NEW i \in 1..13 PROVE (DestroySteps[i] = "acme certs" => i = 10) /\ (DestroySteps[i] = "acme link" => i = 11) /\ (DestroySteps[i] = "app" => i = 13)
  OBVIOUS
<1>1. i = 1 \/ i = 2 \/ i = 3 \/ i = 4 \/ i = 5 \/ i = 6 \/ i = 7 \/ i = 8 \/ i = 9 \/ i = 10 \/ i = 11 \/ i = 12 \/ i = 13
  OBVIOUS
<1> QED
  BY <1>1, StepsAre

LEMMA HeadAndTail ==
  ASSUME NEW q, EndOfSteps(q), q # <<>>
  PROVE  /\ Len(q) \in 1..13 /\ Head(q) = DestroySteps[14 - Len(q)]
         /\ EndOfSteps(Tail(q)) /\ Len(Tail(q)) = Len(q) - 1
<1>1. q \in Seq(FileNames) /\ Len(q) <= 13
  BY DEF EndOfSteps
<1>2. Len(q) \in Nat /\ Len(q) # 0
  BY <1>1
<1>3. \A m \in Nat : m # 0 /\ m <= 13 => m \in 1..13 /\ 1 \in 1..m /\ 13 - m + 1 = 14 - m /\ m - 1 <= 13
  OBVIOUS
<1>4. Len(q) \in 1..13 /\ Len(q) - 1 <= 13
  BY <1>1, <1>2, <1>3
<1>5. Head(q) = q[1] /\ Tail(q) \in Seq(FileNames) /\ Len(Tail(q)) = Len(q) - 1
  BY <1>1, <1>2
<1>6. Head(q) = DestroySteps[14 - Len(q)]
  <2>1. 1 \in 1..Len(q) /\ 13 - Len(q) + 1 = 14 - Len(q)
    BY <1>1, <1>2, <1>3
  <2> QED
    BY <1>5, <2>1 DEF EndOfSteps
<1>7. ASSUME NEW j \in 1..(Len(q) - 1) PROVE Tail(q)[j] = DestroySteps[13 - (Len(q) - 1) + j]
  <2>1. j + 1 \in 1..Len(q) /\ 13 - Len(q) + (j + 1) = 13 - (Len(q) - 1) + j
    BY <1>4
  <2>2. Tail(q)[j] = q[j + 1]
    BY <1>1, <2>1
  <2> QED
    BY <2>1, <2>2 DEF EndOfSteps
<1> QED
  BY <1>4, <1>5, <1>6, <1>7 DEF EndOfSteps

LEMMA StepFiles == FilesInv /\ [AppNext]_appVars => FilesInv'
<1> SUFFICES ASSUME FilesInv, [AppNext]_appVars PROVE FilesInv'
  OBVIOUS
<1>t. EndOfSteps(destroying) /\ WritesLeft /\ FilesFit /\ PassedAreGone
  BY DEF FilesInv
<1>e. EndOfSteps(<<>>)
  BY DEF EndOfSteps
<1>n. \A S : <<>> \in Seq(S) /\ 1..Len(<<>>) = {}
  OBVIOUS
<1>b. containerApp \in BOOLEAN /\ force \in BOOLEAN /\ raced \in BOOLEAN
  BY <1>t DEF FilesFit
\* The destroy goes on: the file at its head is gone, or the step was not for one that must go.
<1>1. ASSUME destroying # <<>>, Next1, Rest1, files' \subseteq files, ~raced /\ "acme certs" \in files' => "acme link" \in files',
             Head(destroying) \in Destroyable /\ Head(destroying) \in files' => force /\ Head(destroying) = "containers"
      PROVE  FilesInv'
  <2>1. EndOfSteps(destroying)' /\ Len(destroying') = Len(destroying) - 1 /\ Len(destroying) \in 1..13
        /\ Head(destroying) = DestroySteps[14 - Len(destroying)]
    BY <1>1, <1>t, HeadAndTail DEF Next1, EndOfSteps
  <2>2. WritesLeft' /\ FilesFit'
    BY <1>1, <1>t DEF Rest1, WritesLeft, FilesFit
  <2>3. ASSUME ~raced, NEW i \in 1..(13 - (Len(destroying) - 1)) PROVE Gone(i)'
    <3>1. i = 14 - Len(destroying) \/ i \in 1..(13 - Len(destroying))
      BY <2>1
    <3>2. CASE i = 14 - Len(destroying)
      BY <1>1, <2>1, <3>2 DEF Gone, Rest1
    <3>3. CASE i \in 1..(13 - Len(destroying))
      <4>1. Gone(i)
        BY <1>1, <1>t, <2>3, <3>3 DEF PassedAreGone
      <4> QED
        BY <1>1, <4>1 DEF Gone, Rest1
    <3> QED
      BY <3>1, <3>2, <3>3
  <2>4. PassedAreGone'
    BY <1>1, <2>1, <2>3 DEF PassedAreGone, Rest1
  <2> QED
    BY <2>1, <2>2, <2>4 DEF FilesInv
\* The destroy ends.
<1>2. ASSUME destroying' = <<>>, Rest1, files' \subseteq files, ~raced /\ "acme certs" \in files' => "acme link" \in files'
      PROVE  FilesInv'
  <2>1. WritesLeft' /\ FilesFit'
    BY <1>2, <1>t DEF Rest1, WritesLeft, FilesFit
  <2>2. PassedAreGone' /\ EndOfSteps(destroying)'
    BY <1>2, <1>e DEF PassedAreGone, EndOfSteps
  <2> QED
    BY <2>1, <2>2 DEF FilesInv
\* Nothing of the destroy changes, and it is not alone or gets nothing back.
<1>3. ASSUME UNCHANGED <<destroying, force>>, WritesLeft', FilesFit', raced => raced',
             destroying # <<>> /\ ~raced' => files' \cap Destroyable \subseteq files \cup {"app"}
      PROVE  FilesInv'
  <2>1. ASSUME destroying # <<>>, ~raced', NEW i \in 1..(13 - Len(destroying)) PROVE Gone(i)'
    <3>1. Gone(i) /\ Len(destroying) \in 1..13
      BY <1>3, <1>t, <2>1, HeadAndTail DEF PassedAreGone
    <3>2. \A m \in 1..13 : \A k \in 1..(13 - m) : k \in 1..13 /\ k # 13
      OBVIOUS
    <3>3. DestroySteps[i] # "app"
      <4>1. i \in 1..13 /\ i # 13
        BY <3>1, <3>2
      <4> QED
        BY <4>1, WhichStep
    <3> QED
      BY <1>3, <2>1, <3>1, <3>3 DEF Gone
  <2>2. PassedAreGone' /\ EndOfSteps(destroying)'
    BY <1>3, <1>t, <2>1 DEF PassedAreGone, EndOfSteps
  <2> QED
    BY <1>3, <2>2 DEF FilesInv
<1>4. CASE EngineChanges \/ Backup
  <2>1. UNCHANGED <<files, containerApp, deploying, destroying, force, raced>> /\ archive' \subseteq Components
    BY <1>4, <1>t DEF EngineChanges, Backup, FilesFit
  <2>2. WritesLeft' /\ FilesFit'
    BY <1>t, <2>1 DEF WritesLeft, FilesFit
  <2> QED
    BY <1>3, <2>1, <2>2
<1>5. CASE CmdAppsCreate
  <2>1. UNCHANGED <<containerApp, deploying, destroying, force, raced, archive>>
        /\ files \subseteq files' /\ files' \subseteq files \cup {"app", "repo"}
    BY <1>5 DEF CmdAppsCreate
  <2>2. WritesLeft' /\ FilesFit'
    BY <1>t, <2>1 DEF WritesLeft, FilesFit
  <2>3. files' \cap Destroyable \subseteq files \cup {"app"}
    BY <2>1 DEF Destroyable, Kept
  <2> QED
    BY <1>3, <2>1, <2>2, <2>3
<1>6. CASE BeginDeploy
  <2>1. UNCHANGED <<files, containerApp, destroying, force, archive>> /\ deploying' = DeployWrites
        /\ deploying = <<>> /\ raced' = (raced \/ destroying # <<>> \/ deploying # <<>>)
    BY <1>6 DEF BeginDeploy, Beside
  <2>2. DeployWrites \in Seq(DeployNames) /\ \A j \in 1..Len(DeployWrites) : DeployWrites[j] = "containers" => containerApp
    <3>1. CASE containerApp
      <4>1. DeployWrites = <<"log", "env", "containers", "route">>
        BY <3>1 DEF DeployWrites
      <4> QED
        BY <3>1, <4>1 DEF DeployNames
    <3>2. CASE ~containerApp
      <4>1. DeployWrites = <<"log", "env", "plugin", "available", "enabled", "route", "static">>
        BY <3>2 DEF DeployWrites
      <4>2. DeployWrites \in Seq(DeployNames)
        BY <4>1 DEF DeployNames
      <4>3. ASSUME NEW j \in 1..7 PROVE DeployWrites[j] # "containers"
        <5>1. j = 1 \/ j = 2 \/ j = 3 \/ j = 4 \/ j = 5 \/ j = 6 \/ j = 7
          OBVIOUS
        <5> QED
          BY <4>1, <5>1
      <4>4. Len(DeployWrites) = 7
        BY <4>1
      <4> QED
        BY <4>2, <4>3, <4>4
    <3> QED
      BY <3>1, <3>2
  <2>3. WritesLeft'
    BY <2>1, <2>2 DEF WritesLeft
  <2>4. FilesFit'
    BY <1>t, <2>1 DEF FilesFit
  <2> QED
    BY <1>3, <1>b, <2>1, <2>3, <2>4
<1>7. CASE DeployStep
  <2>1. UNCHANGED <<containerApp, archive, destroying, force, raced>> /\ deploying # <<>>
        /\ deploying \in Seq(DeployNames) /\ (deploying' = <<>> \/ deploying' = Tail(deploying))
    BY <1>7, <1>t DEF DeployStep, WritesLeft
  <2>2. \/ files' = files
        \/ files' = files \union {Head(deploying)} \union (IF Head(deploying) = "route" THEN {"acme certs", "acme link"} ELSE {})
    BY <1>7 DEF DeployStep
  <2>3. WritesLeft'
    <3>1. CASE deploying' = <<>>
      BY <2>1, <3>1 DEF WritesLeft
    <3>2. CASE deploying' = Tail(deploying)
      <4>1. Tail(deploying) \in Seq(DeployNames) /\ Len(Tail(deploying)) = Len(deploying) - 1 /\ Len(deploying) \in Nat
        BY <2>1
      <4>2. ASSUME NEW j \in 1..(Len(deploying) - 1) PROVE Tail(deploying)[j] = deploying[j + 1] /\ j + 1 \in 1..Len(deploying)
        BY <2>1, <4>1
      <4> QED
        BY <1>t, <2>1, <3>2, <4>1, <4>2 DEF WritesLeft
    <3> QED
      BY <2>1, <3>1, <3>2
  <2>4. (Head(deploying) = "containers" => containerApp) /\ Head(deploying) # "acme certs"
    <3>1. Head(deploying) = deploying[1] /\ 1 \in 1..Len(deploying)
      BY <2>1
    <3>2. deploying[1] \in DeployNames
      BY <2>1, <3>1
    <3>3. deploying[1] = "containers" => containerApp
      BY <1>t, <3>1 DEF WritesLeft
    <3> QED
      BY <3>1, <3>2, <3>3 DEF DeployNames
  <2>5. FilesFit'
    BY <1>t, <2>1, <2>2, <2>4 DEF FilesFit
  <2> QED
    BY <1>3, <1>t, <2>1, <2>3, <2>5 DEF FilesFit
<1>8. CASE EnsureRepoSymlink
  <2>1. UNCHANGED <<containerApp, deploying, destroying, force, archive>> /\ files' = files \union {"repo link", "app"}
        /\ raced' = (raced \/ destroying # <<>> \/ deploying # <<>>)
    BY <1>8 DEF EnsureRepoSymlink, Beside
  <2>2. WritesLeft' /\ FilesFit'
    BY <1>b, <1>t, <2>1 DEF WritesLeft, FilesFit
  <2> QED
    BY <1>3, <1>b, <2>1, <2>2
<1>9. CASE Restore
  <2>1. UNCHANGED <<containerApp, deploying, destroying, force, archive>> /\ files \subseteq files' /\ files' \subseteq files \cup archive
        /\ raced' = (raced \/ destroying # <<>> \/ deploying # <<>>)
    BY <1>9 DEF Restore, Beside
  <2>2. WritesLeft' /\ FilesFit'
    BY <1>b, <1>t, <2>1 DEF WritesLeft, FilesFit, Components
  <2> QED
    BY <1>3, <1>b, <2>1, <2>2
<1>10. CASE CmdDestroy
  <2>1. UNCHANGED <<files, containerApp, deploying, archive>> /\ destroying' = DestroySteps /\ destroying = <<>> /\ force' \in BOOLEAN
        /\ raced' = (raced \/ deploying # <<>>)
    BY <1>10 DEF CmdDestroy
  <2>2. WritesLeft' /\ FilesFit'
    BY <1>b, <1>t, <2>1 DEF WritesLeft, FilesFit
  <2>3. EndOfSteps(DestroySteps)
    <3>1. DestroySteps \in Seq(FileNames)
      BY DEF DestroySteps, FileNames
    <3>2. \A j \in 1..13 : 13 - 13 + j = j
      OBVIOUS
    <3> QED
      <4>1. Len(DestroySteps) = 13
        BY StepsAre
      <4>2. \A j \in 1..13 : DestroySteps[j] = DestroySteps[13 - 13 + j]
        BY <3>2
      <4> QED
        BY <3>1, <4>1, <4>2 DEF EndOfSteps
  <2>4. PassedAreGone'
    <3>1. 1..(13 - 13) = {}
      OBVIOUS
    <3> QED
      BY <2>1, <3>1, StepsAre DEF PassedAreGone
  <2> QED
    BY <2>1, <2>2, <2>3, <2>4 DEF FilesInv, EndOfSteps
<1>c. ("containers" \in files => containerApp) /\ (~raced /\ "acme certs" \in files => "acme link" \in files)
  BY <1>t DEF FilesFit
<1>11. CASE ContainerCleanup
  <2>1. destroying # <<>> /\ Head(destroying) = "containers" /\ files' \subseteq files /\ Rest1
        /\ (~raced /\ "acme certs" \in files' => "acme link" \in files')
    BY <1>11, <1>c DEF ContainerCleanup, AtStep
  <2>2. (Next1 /\ ("containers" \in files' => force)) \/ destroying' = <<>>
    BY <1>11, <1>c DEF ContainerCleanup, Stop1
  <2> QED
    BY <1>1, <1>2, <2>1, <2>2
<1>12. CASE PluginCleanup
  <2>1. destroying # <<>> /\ Head(destroying) = "plugin" /\ files' \subseteq files /\ Rest1 /\ Next1
        /\ (~raced /\ "acme certs" \in files' => "acme link" \in files')
    BY <1>12, <1>c DEF PluginCleanup, AtStep
  <2> QED
    BY <1>1, <2>1, DestroyableAre
<1>13. CASE RemoveRoute \/ RemoveWorkerConfigs \/ RemoveRepoLink \/ RemoveDirIfPresent \/ RemoveAppDir
  <2>1. destroying # <<>> /\ files' \subseteq files /\ Rest1 /\ (~raced /\ "acme certs" \in files' => "acme link" \in files')
    BY <1>13, <1>c DEF RemoveRoute, RemoveWorkerConfigs, RemoveRepoLink, RemoveDirIfPresent, RemoveAppDir, AtStep
  <2>2. (Next1 /\ Head(destroying) \notin files') \/ destroying' = <<>>
    BY <1>13 DEF RemoveRoute, RemoveWorkerConfigs, RemoveRepoLink, RemoveDirIfPresent, RemoveAppDir, AtStep, Stop1
  <2> QED
    BY <1>1, <1>2, <2>1, <2>2
<1>14. CASE RemoveAcmeCerts
  <2>1. destroying # <<>> /\ Rest1
    BY <1>14 DEF RemoveAcmeCerts
  <2>2. CASE Head(destroying) = "acme certs" /\ Next1 /\ files' = files \ {"acme certs"}
    BY <1>1, <2>1, <2>2
  <2>3. CASE Stop1 /\ UNCHANGED files
    BY <1>2, <1>c, <2>1, <2>3 DEF Stop1
  <2>4. CASE Head(destroying) = "acme link" /\ Next1 /\ (files' = files \ {"acme link"} \/ files' = files)
    <3>1. ~raced => "acme certs" \notin files
      <4>1. Len(destroying) \in 1..13 /\ DestroySteps[14 - Len(destroying)] = "acme link"
        BY <1>t, <2>1, <2>4, HeadAndTail
      <4>2. \A m \in 1..13 : 14 - m \in 1..13 /\ (14 - m = 11 => 10 \in 1..(13 - m))
        OBVIOUS
      <4>3. 10 \in 1..(13 - Len(destroying))
        BY <4>1, <4>2, WhichStep
      <4>4. "acme certs" \in Destroyable
        <5>1. 10 \in DOMAIN DestroySteps
          BY DEF DestroySteps
        <5> QED
          BY <5>1, StepsAre DEF Destroyable, Pieces, Kept
      <4> QED
        BY <1>t, <2>1, <4>3, <4>4, StepsAre DEF PassedAreGone, Gone
    <3> QED
      BY <1>1, <2>1, <2>4, <3>1, DestroyableAre
  <2>5. CASE Head(destroying) = "acme certs" /\ ~({"acme certs", "acme link"} \subseteq files) /\ UNCHANGED files
             /\ destroying' = Tail(Tail(destroying))
    <3> DEFINE q == Tail(destroying)
    <3>1. Len(destroying) \in 1..13 /\ DestroySteps[14 - Len(destroying)] = "acme certs" /\ EndOfSteps(q) /\ Len(q) = Len(destroying) - 1
      BY <1>t, <2>1, <2>5, HeadAndTail
    <3> HIDE DEF q
    <3>2. \A m \in 1..13 : 14 - m \in 1..13 /\ (14 - m = 10 => m = 4)
      OBVIOUS
    <3>3. Len(destroying) = 4 /\ Len(q) = 3
      <4>1. 14 - Len(destroying) = 10
        BY <3>1, <3>2, WhichStep
      <4>2. Len(destroying) = 4
        BY <3>1, <3>2, <4>1
      <4>3. Len(q) = Len(destroying) - 1
        BY <3>1
      <4> QED
        BY <4>2, <4>3
    <3>4. EndOfSteps(destroying') /\ Len(destroying') = 2
      <4>1. q # <<>>
        BY <3>3
      <4>2. Len(Tail(q)) = Len(q) - 1 /\ EndOfSteps(Tail(q))
        BY <3>1, <4>1, HeadAndTail
      <4>3. Len(Tail(q)) = 2
        BY <3>3, <4>2
      <4>4. destroying' = Tail(q)
        BY <2>5 DEF q
      <4> QED
        BY <4>2, <4>3, <4>4
    <3>5. WritesLeft' /\ FilesFit'
      BY <1>c, <1>t, <2>1, <2>5 DEF Rest1, WritesLeft, FilesFit
    <3>6. ASSUME ~raced, NEW i \in 1..11 PROVE Gone(i)'
      <4>1. i = 10 \/ i = 11 \/ i \in 1..(13 - 4)
        OBVIOUS
      <4>2. CASE i \in 1..(13 - 4)
        <5>1. Gone(i)
          BY <1>t, <2>1, <3>3, <3>6, <4>2 DEF PassedAreGone
        <5> QED
          BY <2>1, <2>5, <5>1 DEF Gone, Rest1
      <4>3. CASE i = 10
        BY <1>c, <2>1, <2>5, <3>6, <4>3, StepsAre DEF Gone, Rest1
      <4>4. CASE i = 11
        BY <4>4, StepsAre, DestroyableAre DEF Gone
      <4> QED
        BY <4>1, <4>2, <4>3, <4>4
    <3>7. PassedAreGone'
      <4>1. 13 - 2 = 11
        OBVIOUS
      <4> QED
        BY <2>1, <3>4, <3>6, <4>1 DEF PassedAreGone, Rest1
    <3> QED
      BY <3>4, <3>5, <3>7 DEF FilesInv, EndOfSteps
  <2> QED
    BY <1>14, <2>2, <2>3, <2>4, <2>5 DEF RemoveAcmeCerts, AtStep
<1>15. CASE KillCommand
  <2>1. UNCHANGED <<files, containerApp, archive, force, raced>>
    BY <1>15 DEF KillCommand
  <2>2. CASE deploying' = <<>> /\ UNCHANGED destroying
    <3>1. WritesLeft' /\ FilesFit'
      BY <1>n, <1>t, <2>1, <2>2 DEF WritesLeft, FilesFit
    <3> QED
      BY <1>3, <2>1, <2>2, <3>1
  <2>3. CASE destroying' = <<>> /\ UNCHANGED deploying
    <3>1. WritesLeft' /\ FilesFit'
      BY <1>t, <2>1, <2>3 DEF WritesLeft, FilesFit
    <3> QED
      BY <1>e, <2>3, <3>1 DEF FilesInv, PassedAreGone, EndOfSteps
  <2> QED
    BY <1>15, <2>2, <2>3 DEF KillCommand
<1>16. CASE UNCHANGED appVars
  <2>1. WritesLeft' /\ FilesFit' /\ UNCHANGED <<destroying, force, files, raced>>
    BY <1>t, <1>16 DEF WritesLeft, FilesFit, appVars
  <2> QED
    BY <1>3, <2>1
<1> QED
  BY <1>4, <1>5, <1>6, <1>7, <1>8, <1>9, <1>10, <1>11, <1>12, <1>13, <1>14, <1>15, <1>16 DEF AppNext

(***************************************************************************)
(* The app's directory, without which destroy is refused, goes last, at    *)
(* whatever file earlier destroys failed or were killed.                   *)
(***************************************************************************)
THEOREM DestroyCanBeRepeated == AppSpec => DirectoryGoesLast
<1>1. AppInit => FilesInv
  <2>1. EndOfSteps(<<>>)
    BY DEF EndOfSteps
  <2>2. <<>> \in Seq(DeployNames) /\ 1..Len(<<>>) = {}
    OBVIOUS
  <2>3. AppInit => WritesLeft
    BY <2>2 DEF AppInit, WritesLeft
  <2>4. AppInit => FilesFit /\ PassedAreGone
    BY DEF AppInit, FilesFit, PassedAreGone
  <2> QED
    BY <2>1, <2>3, <2>4 DEF AppInit, FilesInv
<1> DEFINE Last == ("app" \in files /\ "app" \notin files' /\ ~raced)
                     => files' \intersect Destroyable \subseteq (IF force THEN {"containers"} ELSE {})
<1>2. FilesInv /\ [AppNext]_appVars => [Last]_appVars
  <2> SUFFICES ASSUME FilesInv, AppNext, "app" \in files, "app" \notin files', ~raced
               PROVE  files' \intersect Destroyable \subseteq (IF force THEN {"containers"} ELSE {})
    OBVIOUS
  <2>1. RemoveAppDir
    <3>1. CASE EngineChanges \/ CmdAppsCreate \/ BeginDeploy \/ DeployStep \/ EnsureRepoSymlink \/ Backup \/ Restore \/ CmdDestroy \/ KillCommand
      BY <3>1 DEF EngineChanges, CmdAppsCreate, BeginDeploy, DeployStep, EnsureRepoSymlink, Backup, Restore, CmdDestroy, KillCommand
    <3>2. CASE ContainerCleanup \/ PluginCleanup \/ RemoveRoute \/ RemoveWorkerConfigs \/ RemoveRepoLink \/ RemoveDirIfPresent \/ RemoveAcmeCerts
      BY <3>2 DEF ContainerCleanup, PluginCleanup, RemoveRoute, RemoveWorkerConfigs, RemoveRepoLink, RemoveDirIfPresent, RemoveAcmeCerts, AtStep
    <3> QED
      BY <3>1, <3>2 DEF AppNext
  <2>2. destroying # <<>> /\ Head(destroying) = "app" /\ files' = files \ {"app"}
    BY <2>1 DEF RemoveAppDir, AtStep
  <2>3. ASSUME NEW i \in 1..12 PROVE Gone(i)
    <3>1. Len(destroying) \in 1..13 /\ DestroySteps[14 - Len(destroying)] = "app"
      BY <2>2, HeadAndTail DEF FilesInv
    <3>2. \A m \in 1..13 : 14 - m \in 1..13 /\ (14 - m = 13 => 1..12 = 1..(13 - m))
      OBVIOUS
    <3>3. i \in 1..(13 - Len(destroying))
      BY <3>1, <3>2, WhichStep
    <3> QED
      BY <2>2, <3>3 DEF FilesInv, PassedAreGone
  <2>4. ASSUME NEW x \in files', x \in Destroyable PROVE force /\ x = "containers"
    <3>1. PICK i \in 1..13 : x = DestroySteps[i]
      BY <2>4, DestroyableAre
    <3>2. i \in 1..12
      <4>1. i # 13
        BY <2>2, <3>1, StepsAre
      <4> QED
        BY <4>1
    <3> QED
      BY <2>2, <2>3, <2>4, <3>1, <3>2 DEF Gone
  <2> QED
    BY <2>4
<1> QED
  BY <1>1, <1>2, StepFiles, PTL DEF AppSpec, DirectoryGoesLast

-----------------------------------------------------------------------------
(* Container rollout.                                                      *)

Copy == [svc : Services, n : Slots, img : Nat, st : {"healthy", "exited", "unhealthy"}]
Counting == UNION {[D -> Nat] : D \in SUBSET (Services \cup {"web"})}
CmdPlaces == {"none", "load", "counts", "images", "release", "run", "wait", "workers", "deps", "swap", "dropped", "unroute",
              "park", "stopped", "discard", "forget", "scale", "pull", "remove", "network", "clear", "record"}
CmdKinds == {"none", "deploy", "restart", "stop", "scale", "update", "destroy"}
CmdRecord == [kind : CmdKinds, at : CmdPlaces, todo : Seq(Services), svc : Services \cup {"all"}, want : Nat, counts : Counting]

\* The indexes that a service's copies have, and their addresses.
Used(s) == {c.n : c \in ContainersOf(s)}
AddressesOf(s) == {<<s, n>> : n \in Used(s)}

DataTypes ==
    /\ checkout \in DOMAIN Projects \cup {0}
    /\ images \in [Services -> Nat] /\ registry \in [Services -> Nat]
    /\ copies \subseteq Copy
    /\ \A c, d \in copies : c.svc = d.svc /\ c.n = d.n => c = d
    /\ scaling \in Counting
\* A command that is under way has not answered.
CmdTypes ==
    /\ cmd \in CmdRecord
    /\ cmd.kind = "none" <=> cmd.at = "none"
    /\ cmd.kind # "none" => checkout # 0 /\ answer.ok = FALSE
    /\ answer.ok \in BOOLEAN /\ (answer.ok => checkout # 0)

\* The service has its copies, of its image, and the requests if they are its.
Rolled(s) ==
    /\ Cardinality(Used(s)) = CountOf(s)
    /\ \A c \in ContainersOf(s) : c.img = images[s]
    /\ s = P.routed => route = AddressesOf(s)

RollPlaces == {"deps", "swap"}
AfterRolls == {"dropped", "unroute", "park", "stopped", "discard", "forget"}
DeployGoes ==
    LET at == cmd.at IN
    /\ at \in {"load", "counts", "images", "release", "run", "wait", "workers"} \cup RollPlaces \cup AfterRolls
    /\ at \notin {"load", "counts"} => \A s \in RangeOf(P.order) : CountOf(s) > 0
    /\ at \in {"workers"} \cup RollPlaces \cup AfterRolls => (P.release => box = "none")
    /\ at \in RollPlaces => \A s \in RangeOf(P.order) \ RangeOf(cmd.todo) : Rolled(s)
    /\ at \in AfterRolls => \A s \in RangeOf(P.order) : Rolled(s)
    /\ at \in AfterRolls \ {"dropped"} => \A c \in copies : c.svc \in RangeOf(P.order)
    /\ at \in AfterRolls \ {"dropped", "unroute"} => (P.routed = "none" => route = {})
    /\ at \in {"stopped", "discard", "forget"} => workers # "running"
RestartGoes ==
    /\ cmd.at \in {"load"} \cup RollPlaces
    /\ cmd.at \in RollPlaces =>
          /\ cmd.svc \in RangeOf(P.order) \cup {"all"}
          /\ \A s \in RangeOf(Chosen(cmd.svc)) \ RangeOf(cmd.todo) : Rolled(s)
StopGoes ==
    /\ cmd.at \in {"load", "unroute", "remove"}
    /\ cmd.at = "remove" => (P.routed # "none" /\ cmd.svc \in {"all", P.routed} => route = {})
DestroyGoes ==
    /\ cmd.at \in {"load", "remove", "network"} /\ cmd.svc = "all"
    /\ cmd.at = "network" => copies = {}
ScaleGoes ==
    /\ cmd.at \in {"load", "scale", "clear", "record"} /\ cmd.svc \in Services /\ cmd.want \in 1..MaxContainers
    /\ cmd.at \in {"clear", "record"} => Cardinality(Used(cmd.svc)) = cmd.want
UpdateGoes == cmd.at \in {"load", "pull"} \cup RollPlaces /\ cmd.svc \in Services

CmdGoes ==
    /\ cmd.at = "swap" => cmd.todo # <<>>
    /\ cmd.kind = "deploy" => DeployGoes
    /\ cmd.kind = "restart" => RestartGoes
    /\ cmd.kind = "stop" => StopGoes
    /\ cmd.kind = "destroy" => DestroyGoes
    /\ cmd.kind = "scale" => ScaleGoes
    /\ cmd.kind = "update" => UpdateGoes

\* What OkMeansDone says, in indexes.
DeployDone ==
    /\ \A c \in copies : c.svc \in RangeOf(P.order)
    /\ \A s \in RangeOf(P.order) : Rolled(s) /\ CountOf(s) > 0
    /\ P.routed = "none" => route = {}
    /\ P.release => box = "none"
    /\ workers # "running"
RestartDone ==
    \A s \in RangeOf(P.order) : answer.svc \in {"all", s} => Cardinality(Used(s)) = CountOf(s) /\ (s = P.routed => route = AddressesOf(s))
StopDone ==
    /\ \A c \in copies : ~(answer.svc \in {"all", c.svc})
    /\ P.routed # "none" /\ answer.svc \in {"all", P.routed} => route = {}
ScaleDone == Cardinality(Used(answer.svc)) = CountOf(answer.svc) /\ CountOf(answer.svc) = answer.want
RolloutDone ==
    answer.ok =>
       /\ answer.kind = "deploy" => DeployDone
       /\ answer.kind = "restart" => RestartDone
       /\ answer.kind = "stop" => StopDone
       /\ answer.kind = "scale" => ScaleDone
       /\ answer.kind = "destroy" => copies = {}

RolloutInv == DataTypes /\ CmdTypes /\ CmdGoes /\ RolloutDone

\* Copies with indexes of their own are as many as their indexes.
LEMMA IndexCount ==
  ASSUME NEW C, \A c \in C : c.n \in Slots, \A c, d \in C : c.n = d.n => c = d
  PROVE  IsFiniteSet({c.n : c \in C}) /\ IsFiniteSet(C) /\ Cardinality(C) = Cardinality({c.n : c \in C})
<1> DEFINE N == {c.n : c \in C}
<1> DEFINE f == [c \in C |-> c.n]
<1>1. IsFiniteSet(Slots)
  BY RolloutAssumption, FS_Interval DEF Slots
<1>2. N \in SUBSET Slots
  OBVIOUS
<1>3. IsFiniteSet(N)
  BY <1>1, <1>2, FS_Subset
<1>4. f \in [C -> N] /\ \A c, d \in C : f[c] = f[d] => c = d
  OBVIOUS
<1>5. \A n \in N : \E c \in C : f[c] = n
  OBVIOUS
<1> HIDE DEF N, f
<1>6. f \in Injection(C, N) /\ f \in Surjection(C, N)
  BY <1>4, <1>5, Fun_IsInj, Fun_IsSurj
<1>7. IsFiniteSet(C) /\ Cardinality(C) = Cardinality(N)
  BY <1>3, <1>6, FS_Injection
<1> QED
  BY <1>3, <1>7 DEF N

\* The k lowest elements of a set of numbers.
Lowest(X, k) == {n \in X : Cardinality({m \in X : m < n}) < k}

\* The k lowest elements of a set with at least k.
LEMMA LowestOf ==
  ASSUME NEW F \in SUBSET Nat, IsFiniteSet(F), NEW k \in Nat, k <= Cardinality(F)
  PROVE  Cardinality({n \in F : Cardinality({m \in F : m < n}) < k}) = k
<1> DEFINE Below(n) == {m \in F : m < n}
<1> DEFINE r == [n \in F |-> Cardinality(Below(n))]
<1> DEFINE Z(i) == 0..(i - 1)
<1>1. Cardinality(F) \in Nat
  BY FS_CardinalityType
<1>2. \A n \in F : IsFiniteSet(Below(n)) /\ Cardinality(Below(n)) \in Nat /\ Cardinality(Below(n)) < Cardinality(F)
  <2> SUFFICES ASSUME NEW n \in F PROVE IsFiniteSet(Below(n)) /\ Cardinality(Below(n)) \in Nat /\ Cardinality(Below(n)) < Cardinality(F)
    OBVIOUS
  <2>1. Below(n) \in SUBSET F /\ n \notin Below(n)
    OBVIOUS
  <2> HIDE DEF Below
  <2>2. IsFiniteSet(Below(n)) /\ Cardinality(Below(n)) <= Cardinality(F) /\ Cardinality(F) # Cardinality(Below(n))
    BY <2>1, FS_Subset
  <2>3. Cardinality(Below(n)) \in Nat
    BY <2>2, FS_CardinalityType
  <2> QED
    BY <1>1, <2>2, <2>3
<1>3. ASSUME NEW m \in F, NEW n \in F, m < n PROVE Cardinality(Below(m)) < Cardinality(Below(n))
  <2>0. \A x \in F : x \in Nat
    OBVIOUS
  <2>a. \A x, y, z \in Nat : x < y /\ y < z => x < z
    OBVIOUS
  <2>b. m \in Below(n) /\ m \notin Below(m)
    BY <1>3, <2>0
  <2>1. Below(m) \in SUBSET Below(n) /\ m \in Below(n) /\ m \notin Below(m)
    BY <1>3, <2>0, <2>a, <2>b
  <2>2. IsFiniteSet(Below(n)) /\ Cardinality(Below(n)) \in Nat /\ Cardinality(Below(m)) \in Nat
    BY <1>2
  <2> HIDE DEF Below
  <2>3. Cardinality(Below(m)) <= Cardinality(Below(n)) /\ Cardinality(Below(n)) # Cardinality(Below(m))
    BY <2>1, <2>2, FS_Subset
  <2> QED
    BY <2>2, <2>3
<1>4. \A n \in F : r[n] = Cardinality(Below(n))
  OBVIOUS
<1>5. r \in [F -> Z(Cardinality(F))]
  <2>1. \A n \in F : Cardinality(Below(n)) \in Z(Cardinality(F))
    BY <1>1, <1>2
  <2> HIDE DEF Below, Z
  <2> QED
    BY <2>1
<1> HIDE DEF r, Below
<1>6. ASSUME NEW m \in F, NEW n \in F, r[m] = r[n] PROVE m = n
  <2>1. r[m] \in Nat /\ r[n] \in Nat
    BY <1>2, <1>4
  <2>2. m < n \/ n < m \/ m = n
    OBVIOUS
  <2> QED
    BY <1>3, <1>4, <1>6, <2>1, <2>2
<1>7. \A i \in Nat : IsFiniteSet(Z(i)) /\ Cardinality(Z(i)) = i
  <2> SUFFICES ASSUME NEW i \in Nat PROVE IsFiniteSet(Z(i)) /\ Cardinality(Z(i)) = i
    OBVIOUS
  <2>1. IsFiniteSet(0..(i - 1)) /\ Cardinality(0..(i - 1)) = IF 0 > i - 1 THEN 0 ELSE i - 1 - 0 + 1
    BY FS_Interval
  <2> QED
    BY <2>1
<1>8. \A i \in Z(k) : i \in Z(Cardinality(F)) /\ i < k
  BY <1>1
<1>9. \A i \in Nat : i < k => i \in Z(k)
  OBVIOUS
<1> HIDE DEF Z
<1>10. \A i \in Z(Cardinality(F)) : \E n \in F : r[n] = i
  <2>1. r \in Injection(F, Z(Cardinality(F)))
    BY <1>5, <1>6, Fun_IsInj
  <2>2. r \in Surjection(F, Z(Cardinality(F)))
    BY <1>1, <1>7, <2>1, FS_Injection
  <2> QED
    BY <2>2, Fun_SurjectionProperties
<1> DEFINE L == {n \in F : r[n] < k}
<1> DEFINE g == [n \in L |-> r[n]]
<1>11. g \in [L -> Z(k)]
  <2>1. \A n \in L : r[n] \in Z(k)
    BY <1>2, <1>4, <1>9
  <2> QED
    BY <2>1
<1>12. \A m, n \in L : g[m] = g[n] => m = n
  BY <1>6
<1>13. \A i \in Z(k) : \E n \in L : g[n] = i
  BY <1>8, <1>10
<1>14. L = {n \in F : Cardinality(Below(n)) < k}
  BY <1>4
<1> HIDE DEF L, g
<1>15. g \in Injection(L, Z(k)) /\ g \in Surjection(L, Z(k))
  BY <1>11, <1>12, <1>13, Fun_IsInj, Fun_IsSurj
<1>16. Cardinality(L) = Cardinality(Z(k))
  BY <1>7, <1>15, FS_Injection
<1> QED
  BY <1>7, <1>14, <1>16 DEF Below

\* What a service has, in indexes.
LEMMA UsedCount ==
  ASSUME DataTypes, NEW s
  PROVE  /\ Cardinality(ContainersOf(s)) = Cardinality(Used(s)) /\ IsFiniteSet(Used(s)) /\ Cardinality(Used(s)) \in Nat
         /\ Addresses(ContainersOf(s)) = AddressesOf(s) /\ Used(s) \subseteq Slots
<1>1. \A c \in ContainersOf(s) : c.n \in Slots
  BY DEF DataTypes, ContainersOf, Copy
<1>2. \A c, d \in ContainersOf(s) : c.n = d.n => c = d
  BY DEF DataTypes, ContainersOf
<1>3. Addresses(ContainersOf(s)) = AddressesOf(s)
  BY DEF Addresses, AddressesOf, Used, ContainersOf
<1>4. IsFiniteSet(Used(s)) /\ Cardinality(ContainersOf(s)) = Cardinality(Used(s))
  BY <1>1, <1>2, IndexCount DEF Used
<1> QED
  BY <1>1, <1>3, <1>4, FS_CardinalityType DEF Used

-----------------------------------------------------------------------------
\* How a step leaves the command.

LEMMA NoCmdType == NoCmd \in CmdRecord /\ NoCmd.kind = "none" /\ NoCmd.at = "none" /\ NoCmd.todo = <<>>
<1>1. NoCounts \in [{} -> Nat]
  BY DEF NoCounts
<1>2. {} \in SUBSET (Services \cup {"web"})
  OBVIOUS
<1>3. NoCounts \in Counting
  BY <1>1, <1>2 DEF Counting
<1>4. <<>> \in Seq(Services)
  OBVIOUS
<1> QED
  BY <1>3, <1>4 DEF NoCmd, CmdRecord, CmdKinds, CmdPlaces

\* A command that ends without success, or is killed, promises nothing.
LEMMA Fails ==
  ASSUME DataTypes', cmd' = NoCmd, answer'.ok = FALSE
  PROVE  RolloutInv'
<1>1. CmdTypes' /\ CmdGoes'
  BY NoCmdType DEF CmdTypes, CmdGoes
<1> QED
  BY <1>1 DEF RolloutInv, RolloutDone

LEMMA FailsEnd ==
  ASSUME DataTypes', End(FALSE)
  PROVE  RolloutInv'
<1>1. answer'.ok = FALSE /\ cmd' = NoCmd
  BY DEF End
<1> QED
  BY <1>1, Fails

LEMMA Succeeds ==
  ASSUME DataTypes', End(TRUE), checkout' # 0, RolloutDone'
  PROVE  RolloutInv'
<1>1. answer'.ok = TRUE /\ cmd' = NoCmd
  BY DEF End
<1>2. CmdTypes' /\ CmdGoes'
  BY <1>1, NoCmdType DEF CmdTypes, CmdGoes
<1> QED
  BY <1>2 DEF RolloutInv

LEMMA GoesOn ==
  ASSUME RolloutInv, cmd.kind # "none", DataTypes', UNCHANGED <<checkout, answer>>, cmd' \in CmdRecord,
         cmd'.kind # "none", cmd'.at # "none", CmdGoes'
  PROVE  RolloutInv'
<1>1. CmdTypes' /\ answer'.ok = FALSE
  BY DEF RolloutInv, CmdTypes
<1> QED
  BY <1>1 DEF RolloutInv, RolloutDone

LEMMA GotoAt ==
  ASSUME CmdTypes, NEW s \in CmdPlaces, Goto(s)
  PROVE  /\ cmd' \in CmdRecord /\ cmd'.at = s /\ cmd'.kind = cmd.kind /\ cmd'.todo = cmd.todo
         /\ cmd'.svc = cmd.svc /\ cmd'.want = cmd.want /\ cmd'.counts = cmd.counts /\ UNCHANGED answer
<1>1. cmd \in CmdRecord /\ cmd' = [cmd EXCEPT !.at = s] /\ UNCHANGED answer
  BY DEF Goto, CmdTypes
<1> QED
  BY <1>1 DEF CmdRecord

\* What is not touched stays as it was.
LEMMA SameData ==
  ASSUME DataTypes, UNCHANGED <<checkout, images, copies, scaling>>, registry' \in [Services -> Nat]
  PROVE  DataTypes'
BY DEF DataTypes

LEMMA StaysRolled ==
  ASSUME NEW s, UNCHANGED <<checkout, scaling>>, Used(s)' = Used(s), s = P.routed => route' = route, images'[s] = images[s],
         Rolled(s), \A c \in ContainersOf(s)' : \E d \in ContainersOf(s) : c.img = d.img
  PROVE  Rolled(s)'
BY DEF Rolled, CountOf, AddressesOf, P

LEMMA AllStayRolled ==
  ASSUME UNCHANGED <<checkout, scaling, route, images, copies>>
  PROVE  /\ P' = P /\ (\A s : Rolled(s)' <=> Rolled(s)) /\ (\A s : CountOf(s)' = CountOf(s)) /\ (\A s : Used(s)' = Used(s))
BY DEF P, Rolled, CountOf, AddressesOf, Used, ContainersOf

LEMMA OrderOf ==
  ASSUME RolloutInv, cmd.kind # "none"
  PROVE  /\ checkout \in DOMAIN Projects /\ checkout # 0 /\ P.order \in Seq(Services) /\ RangeOf(P.order) \subseteq Services
         /\ P.routed \in RangeOf(P.order) \cup {"none"} /\ "none" \notin Services /\ "all" \notin Services
<1>1. checkout \in DOMAIN Projects /\ checkout # 0
  BY DEF RolloutInv, CmdTypes, DataTypes
<1>2. P.order \in Seq(Services) /\ P.routed \in RangeOf(P.order) \cup {"none"}
  BY <1>1, RolloutAssumption DEF P
<1>3. "none" \notin Services /\ "all" \notin Services
  BY RolloutAssumption
<1> QED
  BY <1>1, <1>2, <1>3 DEF RangeOf

LEMMA DeployOn ==
  ASSUME RolloutInv, cmd.kind = "deploy", DataTypes', UNCHANGED <<checkout, answer>>, cmd' \in CmdRecord, cmd'.kind = "deploy",
         cmd'.at # "none", cmd'.at = "swap" => cmd'.todo # <<>>, DeployGoes'
  PROVE  RolloutInv'
<1>1. CmdGoes'
  BY DEF CmdGoes
<1> QED
  BY <1>1, GoesOn

-----------------------------------------------------------------------------
\* Steps that leave the containers, their images, the route and the counts alone.

LEMMA StepQuiet ==
  ASSUME RolloutInv,
         \/ BeginOperation \/ (\E r \in DOMAIN Projects : BeginContainerDeploy(r)) \/ (\E s \in Services : BeginUpdate(s))
         \/ LoadApp \/ PrepareCounts \/ NoRelease \/ LoadWorkers \/ WaitForDependencies \/ RolledOut \/ WaitStopped
         \/ RemoveNetwork \/ Kill
  PROVE  RolloutInv'
<1>t. DataTypes /\ CmdTypes /\ CmdGoes
  BY DEF RolloutInv
<1>q. registry \in [Services -> Nat] /\ cmd \in CmdRecord
  BY <1>t DEF DataTypes, CmdTypes
<1>1. CASE Kill
  <2>1. UNCHANGED <<checkout, images, copies, scaling, registry>> /\ cmd' = NoCmd /\ answer' = NoAnswer
    BY <1>1 DEF Kill, disk, engine
  <2>2. NoAnswer.ok = FALSE
    BY DEF NoAnswer
  <2> QED
    BY <1>q, <1>t, <2>1, <2>2, SameData, Fails
<1>2. ASSUME NEW kind \in CmdKinds \ {"none"}, NEW svc \in Services \cup {"all"}, NEW want \in Nat, StartCommand(kind, svc, want),
             checkout' \in DOMAIN Projects,
             kind = "scale" => svc \in Services /\ want \in 1..MaxContainers, kind = "destroy" => svc = "all",
             kind = "update" => svc \in Services
      PROVE  RolloutInv'
  <2>1. UNCHANGED <<images, copies, scaling, registry>>
    BY <1>2 DEF StartCommand, engine
  <2>2. DataTypes'
    BY <1>2, <1>t, <2>1 DEF DataTypes
  <2> DEFINE k == [NoCmd EXCEPT !.kind = kind, !.at = "load", !.svc = svc, !.want = want]
  <2>3. k \in CmdRecord /\ k.kind = kind /\ k.at = "load" /\ k.svc = svc /\ k.want = want
    BY NoCmdType DEF CmdRecord, CmdPlaces
  <2>4. cmd' = k /\ answer' = NoAnswer
    BY <1>2 DEF StartCommand
  <2> HIDE DEF k
  <2>5. answer'.ok = FALSE
    BY <2>4 DEF NoAnswer
  <2>6. checkout' # 0
    BY <1>2, RolloutAssumption
  <2>7. CmdTypes'
    BY <2>3, <2>4, <2>5, <2>6 DEF CmdTypes
  <2>8. CmdGoes'
    BY <1>2, <2>3, <2>4 DEF CmdGoes, DeployGoes, RestartGoes, StopGoes, DestroyGoes, ScaleGoes, UpdateGoes, RollPlaces, AfterRolls
  <2> QED
    BY <2>2, <2>5, <2>7, <2>8 DEF RolloutInv, RolloutDone
<1>3. CASE BeginOperation
  <2>1. checkout' \in DOMAIN Projects
    BY <1>3, <1>t DEF BeginOperation, DataTypes
  <2>2. \A n \in 1..MaxContainers : n \in Nat
    BY RolloutAssumption
  <2>3. 0 \in Nat /\ {"restart", "stop", "scale", "destroy"} \subseteq CmdKinds \ {"none"}
    BY DEF CmdKinds
  <2> QED
    BY <1>2, <1>3, <2>1, <2>2, <2>3 DEF BeginOperation
<1>4. ASSUME NEW r \in DOMAIN Projects, BeginContainerDeploy(r) PROVE RolloutInv'
  BY <1>2, <1>4 DEF BeginContainerDeploy, CmdKinds
<1>5. ASSUME NEW s \in Services, BeginUpdate(s) PROVE RolloutInv'
  <2>1. checkout' \in DOMAIN Projects
    BY <1>5, <1>t DEF BeginUpdate, DataTypes
  <2> QED
    BY <1>2, <1>5, <2>1 DEF BeginUpdate, CmdKinds
\* The rest goes on with the same data.
<1>6. ASSUME UNCHANGED <<disk, engine, registry, route>>
      PROVE  /\ DataTypes' /\ UNCHANGED <<checkout, scaling, workers, images, copies, box, route>>
             /\ P' = P /\ (\A s : Rolled(s)' <=> Rolled(s)) /\ (\A s : CountOf(s)' = CountOf(s)) /\ (\A s : Used(s)' = Used(s))
  <2>1. UNCHANGED <<checkout, scaling, workers, images, copies, box, route, registry>>
    BY <1>6 DEF disk, engine
  <2>2. DataTypes'
    BY <1>q, <1>t, <2>1, SameData
  <2> QED
    BY <2>1, <2>2, AllStayRolled
<1>7. ASSUME cmd.kind # "none" PROVE P.order \in Seq(Services) /\ checkout # 0 /\ RangeOf(P.order) \subseteq Services
  BY <1>7, OrderOf
<1>8. CASE LoadApp
  <2>1. cmd.at = "load" /\ UNCHANGED <<disk, engine, registry, route>> /\ cmd.kind # "none" /\ cmd.kind \in CmdKinds
    BY <1>8, <1>t, <1>q DEF LoadApp, CmdTypes, CmdRecord
  <2>2. CASE End(FALSE)
    BY <1>6, <2>1, <2>2, FailsEnd
  <2> DEFINE at == CASE cmd.kind = "deploy" -> "counts"
                     [] cmd.kind = "restart" -> "deps"
                     [] cmd.kind = "stop" -> "unroute"
                     [] cmd.kind = "scale" -> "scale"
                     [] cmd.kind = "update" -> "pull"
                     [] cmd.kind = "destroy" -> "remove"
  <2> DEFINE rest == IF cmd.kind = "restart" THEN Chosen(cmd.svc) ELSE <<>>
  <2>3. CASE /\ cmd.svc \in RangeOf(P.order) \cup {"all"} /\ UNCHANGED answer
             /\ cmd' = [cmd EXCEPT !.at = at, !.todo = rest]
    <3>1. /\ cmd.kind = "deploy" => at = "counts"
          /\ cmd.kind = "restart" => at = "deps"
          /\ cmd.kind = "stop" => at = "unroute"
          /\ cmd.kind = "scale" => at = "scale"
          /\ cmd.kind = "update" => at = "pull"
          /\ cmd.kind = "destroy" => at = "remove"
      OBVIOUS
    <3>2. at \in CmdPlaces \ {"none", "swap"}
      BY <2>1, <3>1 DEF CmdPlaces, CmdKinds
    <3>3. rest \in Seq(Services) /\ (cmd.kind = "restart" => rest = Chosen(cmd.svc))
      BY <1>7, <2>1, <2>3 DEF Chosen
    <3> HIDE DEF at, rest
    <3>4. /\ cmd' \in CmdRecord /\ cmd'.at = at /\ cmd'.kind = cmd.kind /\ cmd'.todo = rest
          /\ cmd'.svc = cmd.svc /\ cmd'.want = cmd.want
      BY <1>q, <2>3, <3>2, <3>3 DEF CmdRecord
    <3>5. P' = P /\ DataTypes' /\ checkout' = checkout
      BY <1>6, <2>1
    <3>6. cmd.kind = "deploy" => DeployGoes'
      BY <3>1, <3>4 DEF DeployGoes, RollPlaces, AfterRolls
    <3>7. cmd.kind = "restart" => RestartGoes'
      BY <2>3, <3>1, <3>3, <3>4, <3>5 DEF RestartGoes, RollPlaces, Chosen
    <3>8. cmd.kind = "stop" => StopGoes'
      BY <3>1, <3>4 DEF StopGoes
    <3>9. cmd.kind = "destroy" => DestroyGoes'
      BY <1>t, <3>1, <3>4 DEF DestroyGoes, CmdGoes
    <3>10. cmd.kind = "scale" => ScaleGoes'
      BY <1>t, <3>1, <3>4 DEF ScaleGoes, CmdGoes
    <3>11. cmd.kind = "update" => UpdateGoes'
      BY <1>t, <3>1, <3>4 DEF UpdateGoes, CmdGoes
    <3>12. CmdGoes'
      BY <3>2, <3>4, <3>6, <3>7, <3>8, <3>9, <3>10, <3>11 DEF CmdGoes
    <3> QED
      BY <2>1, <2>3, <3>2, <3>4, <3>5, <3>12, GoesOn
  <2> QED
    BY <1>8, <2>2, <2>3 DEF LoadApp
<1>10. CASE PrepareCounts
  <2>1. cmd.kind = "deploy" /\ cmd.at = "counts" /\ UNCHANGED <<disk, engine, registry, route>>
    BY <1>10 DEF PrepareCounts, In
  <2>2. CASE End(FALSE)
    BY <1>6, <2>1, <2>2, FailsEnd
  <2>3. CASE CheckCounts /\ cmd' = [cmd EXCEPT !.at = "images", !.todo = P.order] /\ UNCHANGED answer
    <3>1. cmd' \in CmdRecord /\ cmd'.at = "images" /\ cmd'.kind = "deploy"
      BY <1>7, <1>q, <2>1, <2>3 DEF CmdRecord, CmdPlaces
    <3>2. \A s \in RangeOf(P.order) : CountOf(s) > 0
      BY <2>3 DEF CheckCounts, CheckScale
    <3>3. DeployGoes'
      BY <1>6, <2>1, <3>1, <3>2 DEF DeployGoes, RollPlaces, AfterRolls
    <3> QED
      BY <1>6, <2>1, <2>3, <3>1, <3>3, DeployOn
  <2> QED
    BY <1>10, <2>2, <2>3 DEF PrepareCounts
<1>11. CASE NoRelease
  <2>1. cmd.kind = "deploy" /\ cmd.at = "release" /\ ~P.release /\ Goto("workers") /\ UNCHANGED <<disk, engine, registry, route>>
    BY <1>11 DEF NoRelease, In
  <2>2. cmd' \in CmdRecord /\ cmd'.at = "workers" /\ cmd'.kind = cmd.kind /\ UNCHANGED answer
    BY <1>t, <2>1, GotoAt DEF CmdPlaces
  <2>3. DeployGoes'
    BY <1>6, <1>t, <2>1, <2>2 DEF DeployGoes, CmdGoes, RollPlaces, AfterRolls
  <2> QED
    BY <1>6, <2>1, <2>2, <2>3, DeployOn
<1>12. CASE LoadWorkers
  <2>1. cmd.kind = "deploy" /\ cmd.at = "workers" /\ UNCHANGED <<disk, engine, registry, route>>
    BY <1>12 DEF LoadWorkers, In
  <2>2. CASE End(FALSE)
    BY <1>6, <2>1, <2>2, FailsEnd
  <2>3. CASE UNCHANGED answer /\ cmd' = [cmd EXCEPT !.at = "deps", !.todo = P.order]
    <3>1. cmd' \in CmdRecord /\ cmd'.at = "deps" /\ cmd'.kind = "deploy" /\ cmd'.todo = P.order
      BY <1>7, <1>q, <2>1, <2>3 DEF CmdRecord, CmdPlaces
    <3>2. DeployGoes'
      BY <1>6, <1>t, <2>1, <3>1 DEF DeployGoes, CmdGoes, RollPlaces, AfterRolls
    <3> QED
      BY <1>6, <2>1, <2>3, <3>1, <3>2, DeployOn
  <2> QED
    BY <1>12, <2>2, <2>3 DEF LoadWorkers
<1>13. CASE WaitForDependencies
  <2>1. cmd.at = "deps" /\ cmd.todo # <<>> /\ UNCHANGED <<disk, engine, registry, route>> /\ cmd.kind # "none" /\ cmd.kind \in CmdKinds
    BY <1>13, <1>t, <1>q DEF WaitForDependencies, CmdTypes, CmdRecord
  <2>2. CASE End(FALSE)
    BY <1>6, <2>1, <2>2, FailsEnd
  <2>3. CASE Goto("swap")
    <3>1. /\ cmd' \in CmdRecord /\ cmd'.at = "swap" /\ cmd'.kind = cmd.kind /\ cmd'.todo = cmd.todo
          /\ cmd'.svc = cmd.svc /\ UNCHANGED answer
      BY <1>t, <2>3, GotoAt DEF CmdPlaces
    <3>2. cmd.kind = "deploy" => DeployGoes'
      BY <1>6, <1>t, <2>1, <3>1 DEF DeployGoes, CmdGoes, RollPlaces, AfterRolls
    <3>3. cmd.kind = "restart" => RestartGoes'
      BY <1>6, <1>t, <2>1, <3>1 DEF RestartGoes, CmdGoes, RollPlaces, Chosen
    <3>4. cmd.kind = "update" => UpdateGoes'
      BY <1>t, <2>1, <3>1 DEF UpdateGoes, CmdGoes, RollPlaces
    <3>5. cmd.kind \notin {"stop", "scale", "destroy"}
      BY <1>t, <2>1 DEF StopGoes, ScaleGoes, DestroyGoes, CmdGoes
    <3>6. CmdGoes'
      BY <2>1, <3>1, <3>2, <3>3, <3>4, <3>5 DEF CmdGoes
    <3> QED
      BY <1>6, <2>1, <3>1, <3>6, GoesOn
  <2> QED
    BY <1>13, <2>2, <2>3 DEF WaitForDependencies
<1>14. CASE RolledOut
  <2>1. /\ cmd.at = "deps" /\ cmd.todo = <<>> /\ UNCHANGED <<disk, engine, registry, route>> /\ cmd.kind # "none" /\ cmd.kind \in CmdKinds
        /\ RangeOf(cmd.todo) = {}
    BY <1>14, <1>t, <1>q DEF RolledOut, CmdTypes, CmdRecord, RangeOf
  <2>2. CASE cmd.kind = "deploy"
    <3>1. Goto("dropped")
      BY <1>14, <2>2 DEF RolledOut
    <3>2. cmd' \in CmdRecord /\ cmd'.at = "dropped" /\ cmd'.kind = cmd.kind /\ UNCHANGED answer
      BY <1>t, <3>1, GotoAt DEF CmdPlaces
    <3>3. DeployGoes'
      BY <1>6, <1>t, <2>1, <2>2, <3>2 DEF DeployGoes, CmdGoes, RollPlaces, AfterRolls
    <3> QED
      BY <1>6, <2>1, <2>2, <3>2, <3>3, DeployOn
  <2>3. CASE cmd.kind = "restart"
    <3>1. End(TRUE)
      BY <1>14, <2>3 DEF RolledOut
    <3>2. answer'.ok = TRUE /\ answer'.kind = "restart" /\ answer'.svc = cmd.svc
      BY <2>3, <3>1 DEF End
    <3>3. \A s \in RangeOf(Chosen(cmd.svc)) : Rolled(s)
      BY <1>t, <2>1, <2>3 DEF CmdGoes, RestartGoes, RollPlaces
    <3>4. \A s \in RangeOf(P.order) : cmd.svc \in {"all", s} => s \in RangeOf(Chosen(cmd.svc))
      BY DEF Chosen, RangeOf
    <3>5. \A s \in RangeOf(P.order) : cmd.svc \in {"all", s} => Rolled(s)'
      BY <1>6, <2>1, <3>3, <3>4
    <3>6. RestartDone'
      BY <1>6, <2>1, <3>2, <3>5 DEF RestartDone, Rolled
    <3>7. RolloutDone'
      BY <3>2, <3>6 DEF RolloutDone
    <3> QED
      BY <1>6, <1>7, <2>1, <3>1, <3>7, Succeeds
  <2>4. CASE cmd.kind \notin {"deploy", "restart"}
    <3>1. End(TRUE)
      BY <1>14, <2>4 DEF RolledOut
    <3>2. cmd.kind = "update"
      BY <1>t, <2>1, <2>4 DEF CmdKinds, StopGoes, ScaleGoes, DestroyGoes, CmdGoes
    <3>3. answer'.kind = "update"
      BY <3>1, <3>2 DEF End
    <3>4. RolloutDone'
      BY <3>3 DEF RolloutDone
    <3> QED
      BY <1>6, <1>7, <2>1, <3>1, <3>4, Succeeds
  <2> QED
    BY <2>2, <2>3, <2>4
<1>15. CASE WaitStopped
  <2>1. cmd.kind = "deploy" /\ cmd.at = "stopped" /\ UNCHANGED <<disk, engine, registry, route>>
    BY <1>15 DEF WaitStopped, In
  <2>2. CASE End(FALSE)
    BY <1>6, <2>1, <2>2, FailsEnd
  <2>3. CASE Goto("discard")
    <3>1. cmd' \in CmdRecord /\ cmd'.at = "discard" /\ cmd'.kind = cmd.kind /\ UNCHANGED answer
      BY <1>t, <2>3, GotoAt DEF CmdPlaces
    <3>2. DeployGoes'
      BY <1>6, <1>t, <2>1, <3>1 DEF DeployGoes, CmdGoes, RollPlaces, AfterRolls
    <3> QED
      BY <1>6, <2>1, <3>1, <3>2, DeployOn
  <2> QED
    BY <1>15, <2>2, <2>3 DEF WaitStopped
<1>16. CASE RemoveNetwork
  <2>1. cmd.kind = "destroy" /\ cmd.at = "network" /\ UNCHANGED <<disk, engine, registry, route>>
    BY <1>16 DEF RemoveNetwork, In
  <2>2. CASE End(FALSE)
    BY <1>6, <2>1, <2>2, FailsEnd
  <2>3. CASE End(TRUE)
    <3>1. answer'.kind = "destroy"
      BY <2>1, <2>3 DEF End
    <3>2. copies' = {}
      BY <1>6, <1>t, <2>1 DEF CmdGoes, DestroyGoes
    <3>3. RolloutDone'
      BY <3>1, <3>2 DEF RolloutDone
    <3> QED
      BY <1>6, <1>7, <2>1, <2>3, <3>3, Succeeds
  <2> QED
    BY <1>16, <2>2, <2>3 DEF RemoveNetwork
<1> QED
  BY <1>1, <1>3, <1>4, <1>5, <1>8, <1>10, <1>11, <1>12, <1>13, <1>14, <1>15, <1>16

-----------------------------------------------------------------------------
\* Steps of the world: what every service has, by index, stays.

LEMMA WorldKeeps ==
  ASSUME RolloutInv, DataTypes', UNCHANGED <<checkout, scaling, route, images, workers, cmd, answer>>,
         \A s : Used(s)' = Used(s), \A c \in copies' : \E d \in copies : c.svc = d.svc /\ c.img = d.img,
         box' = box \/ box = "running"
  PROVE  RolloutInv'
<1>t. DataTypes /\ CmdTypes /\ CmdGoes /\ RolloutDone
  BY DEF RolloutInv
<1>1. P' = P /\ (\A s : CountOf(s)' = CountOf(s)) /\ \A s : AddressesOf(s)' = AddressesOf(s)
  BY DEF P, CountOf, AddressesOf
<1>2. \A s : \A c \in ContainersOf(s)' : \E d \in ContainersOf(s) : c.img = d.img
  BY DEF ContainersOf
<1>3. ASSUME NEW s, Rolled(s) PROVE Rolled(s)'
  BY <1>2, <1>3, StaysRolled
<1>4. CmdTypes'
  BY <1>t DEF CmdTypes
<1>5. (P.release => box = "none") => (P'.release => box' = "none")
  BY <1>1
<1>6. (\A c \in copies : c.svc \in RangeOf(P.order)) => (\A c \in copies' : c.svc \in RangeOf(P'.order))
  BY <1>1
<1>7. cmd.kind = "deploy" => DeployGoes'
  <2> SUFFICES ASSUME cmd.kind = "deploy" PROVE DeployGoes'
    OBVIOUS
  <2>1. DeployGoes
    BY <1>t DEF CmdGoes
  <2> QED
    BY <1>1, <1>3, <1>5, <1>6, <2>1 DEF DeployGoes
<1>8. cmd.kind = "restart" => RestartGoes'
  BY <1>1, <1>3, <1>t DEF RestartGoes, CmdGoes, Chosen
<1>9. cmd.kind = "stop" => StopGoes'
  BY <1>1, <1>t DEF StopGoes, CmdGoes
<1>10. cmd.kind = "destroy" => DestroyGoes'
  BY <1>t DEF DestroyGoes, CmdGoes
<1>11. cmd.kind = "scale" => ScaleGoes'
  BY <1>t DEF ScaleGoes, CmdGoes
<1>12. cmd.kind = "update" => UpdateGoes'
  BY <1>t DEF UpdateGoes, CmdGoes
<1>13. CmdGoes'
  BY <1>t, <1>7, <1>8, <1>9, <1>10, <1>11, <1>12 DEF CmdGoes
<1>14. DeployDone => DeployDone'
  BY <1>1, <1>3, <1>5, <1>6 DEF DeployDone
<1>15. RestartDone => RestartDone'
  BY <1>1 DEF RestartDone
<1>16. StopDone => StopDone'
  BY <1>1 DEF StopDone
<1>17. ScaleDone => ScaleDone'
  BY <1>1 DEF ScaleDone
<1>18. RolloutDone'
  BY <1>t, <1>14, <1>15, <1>16, <1>17 DEF RolloutDone
<1> QED
  BY <1>4, <1>13, <1>18 DEF RolloutInv

LEMMA StepWorld ==
  ASSUME RolloutInv, World \/ UNCHANGED rolloutVars
  PROVE  RolloutInv'
<1>t. DataTypes
  BY DEF RolloutInv
<1>q. registry \in [Services -> Nat] /\ copies \subseteq Copy
  BY <1>t DEF DataTypes
<1>1. CASE ReleaseExits \/ UNCHANGED rolloutVars
  <2>1. UNCHANGED <<checkout, scaling, workers, images, copies, registry, route, cmd, answer>> /\ (box' = box \/ box = "running")
    BY <1>1 DEF ReleaseExits, rolloutVars, disk
  <2>2. DataTypes' /\ \A s : Used(s)' = Used(s)
    BY <1>q, <1>t, <2>1, SameData DEF Used, ContainersOf
  <2> QED
    BY <2>1, <2>2, WorldKeeps
<1>2. ASSUME NEW s \in Services, TagMoves(s) PROVE RolloutInv'
  <2>1. UNCHANGED <<checkout, scaling, workers, images, copies, box, route, cmd, answer>> /\ registry' \in [Services -> Nat]
    BY <1>2, <1>q DEF TagMoves, disk, engine
  <2>2. DataTypes' /\ \A t : Used(t)' = Used(t)
    BY <1>t, <2>1, SameData DEF Used, ContainersOf
  <2> QED
    BY <2>1, <2>2, WorldKeeps
<1>3. ASSUME NEW c \in copies, Sicken(c) PROVE RolloutInv'
  <2>1. PICK st \in {"exited", "unhealthy"} : copies' = (copies \ {c}) \cup {[c EXCEPT !.st = st]}
    BY <1>3 DEF Sicken
  <2>2. UNCHANGED <<checkout, scaling, workers, images, box, route, cmd, answer, registry>>
    BY <1>3 DEF Sicken, disk
  <2> DEFINE d == [c EXCEPT !.st = st]
  <2>3. d \in Copy /\ d.svc = c.svc /\ d.n = c.n /\ d.img = c.img
    BY <1>q DEF Copy
  <2> HIDE DEF d
  <2>4. copies' = (copies \ {c}) \cup {d}
    BY <2>1 DEF d
  <2>5. copies' \subseteq Copy /\ \A a, b \in copies' : a.svc = b.svc /\ a.n = b.n => a = b
    BY <1>t, <2>3, <2>4 DEF DataTypes
  <2>6. DataTypes'
    BY <1>t, <2>2, <2>5 DEF DataTypes
  <2>7. \A s : Used(s)' = Used(s)
    BY <2>3, <2>4 DEF Used, ContainersOf
  <2>8. \A a \in copies' : \E b \in copies : a.svc = b.svc /\ a.img = b.img
    BY <2>3, <2>4
  <2> QED
    BY <2>2, <2>6, <2>7, <2>8, WorldKeeps
<1> QED
  BY <1>1, <1>2, <1>3 DEF World

-----------------------------------------------------------------------------
\* Steps of a deploy.

LEMMA StepDeploy ==
  ASSUME RolloutInv,
         \/ PrepareImages \/ RemoveStale \/ StartRelease \/ RunToExit \/ RemoveDropped \/ RollOutApp \/ ParkWorkers \/ Discard
         \/ ForgetScaling
  PROVE  RolloutInv'
<1>t. DataTypes /\ CmdTypes /\ CmdGoes
  BY DEF RolloutInv
<1>q. registry \in [Services -> Nat] /\ cmd \in CmdRecord
  BY <1>t DEF DataTypes, CmdTypes
<1>k. cmd.kind = "deploy" /\ cmd.kind # "none"
  BY DEF PrepareImages, RemoveStale, StartRelease, RunToExit, RemoveDropped, RollOutApp, ParkWorkers, Discard, ForgetScaling, In
<1>o. /\ checkout \in DOMAIN Projects /\ checkout # 0 /\ P.order \in Seq(Services) /\ RangeOf(P.order) \subseteq Services
      /\ P.routed \in RangeOf(P.order) \cup {"none"} /\ "none" \notin Services
  BY <1>k, OrderOf
<1>g. DeployGoes
  BY <1>t, <1>k DEF CmdGoes
<1>1. CASE PrepareImages
  <2>1. cmd.at = "images" /\ UNCHANGED <<checkout, scaling, workers, copies, box, registry, route>>
    BY <1>1 DEF PrepareImages, In, disk
  <2>2. P' = P /\ \A s : CountOf(s)' = CountOf(s)
    BY <2>1 DEF P, CountOf
  <2>3. CASE End(FALSE) /\ UNCHANGED images
    BY <1>q, <1>t, <2>1, <2>3, SameData, FailsEnd
  <2>4. CASE Goto("release") /\ UNCHANGED images
    <3>1. cmd' \in CmdRecord /\ cmd'.at = "release" /\ cmd'.kind = cmd.kind /\ UNCHANGED answer
      BY <1>t, <2>4, GotoAt DEF CmdPlaces
    <3>2. DeployGoes'
      BY <1>g, <2>1, <2>2, <3>1 DEF DeployGoes, RollPlaces, AfterRolls
    <3>3. DataTypes'
      BY <1>q, <1>t, <2>1, <2>4, SameData
    <3> QED
      BY <1>k, <2>1, <3>1, <3>2, <3>3, DeployOn
  <2>5. CASE /\ cmd.todo # <<>> /\ images' = [images EXCEPT ![Head(cmd.todo)] = PrepareService(Head(cmd.todo))]
             /\ cmd' = [cmd EXCEPT !.todo = Tail(@)] /\ UNCHANGED answer
    <3>1. cmd.todo \in Seq(Services)
      BY <1>q DEF CmdRecord
    <3>2. Head(cmd.todo) \in Services /\ Tail(cmd.todo) \in Seq(Services)
      BY <2>5, <3>1
    <3>3. checkout \in Nat
      BY <1>o, RolloutAssumption
    <3>4. PrepareService(Head(cmd.todo)) \in Nat
      BY <1>q, <3>2, <3>3 DEF PrepareService
    <3>5. images' \in [Services -> Nat]
      BY <1>t, <2>5, <3>4 DEF DataTypes
    <3>6. DataTypes'
      BY <1>t, <2>1, <3>5 DEF DataTypes
    <3>7. cmd' \in CmdRecord /\ cmd'.at = "images" /\ cmd'.kind = "deploy"
      BY <1>k, <1>q, <2>1, <2>5, <3>2 DEF CmdRecord
    <3>8. DeployGoes'
      BY <1>g, <2>1, <2>2, <3>7 DEF DeployGoes, RollPlaces, AfterRolls
    <3> QED
      BY <1>k, <2>1, <2>5, <3>6, <3>7, <3>8, DeployOn
  <2> QED
    BY <1>1, <2>3, <2>4, <2>5 DEF PrepareImages
<1>2. ASSUME UNCHANGED <<disk, images, copies, registry, route>>
      PROVE  /\ DataTypes' /\ UNCHANGED <<checkout, scaling, workers, images, copies, route>>
             /\ P' = P /\ (\A s : Rolled(s)' <=> Rolled(s)) /\ (\A s : CountOf(s)' = CountOf(s))
  <2>1. UNCHANGED <<checkout, scaling, workers, images, copies, registry, route>>
    BY <1>2 DEF disk
  <2>2. DataTypes'
    BY <1>q, <1>t, <2>1, SameData
  <2> QED
    BY <2>1, <2>2, AllStayRolled
<1>3. CASE RemoveStale
  <2>1. cmd.at = "release" /\ UNCHANGED <<disk, images, copies, registry, route>>
    BY <1>3 DEF RemoveStale, In
  <2>2. CASE End(FALSE)
    BY <1>2, <2>1, <2>2, FailsEnd
  <2>3. CASE Goto("run")
    <3>1. cmd' \in CmdRecord /\ cmd'.at = "run" /\ cmd'.kind = cmd.kind /\ UNCHANGED answer
      BY <1>t, <2>3, GotoAt DEF CmdPlaces
    <3>2. DeployGoes'
      BY <1>2, <1>g, <2>1, <3>1 DEF DeployGoes, RollPlaces, AfterRolls
    <3> QED
      BY <1>2, <1>k, <2>1, <3>1, <3>2, DeployOn
  <2> QED
    BY <1>3, <2>2, <2>3 DEF RemoveStale
<1>4. CASE StartRelease
  <2>1. cmd.at = "run" /\ UNCHANGED <<disk, images, copies, registry, route>>
    BY <1>4 DEF StartRelease, In
  <2>2. CASE End(FALSE)
    BY <1>2, <2>1, <2>2, FailsEnd
  <2>3. CASE Goto("wait")
    <3>1. cmd' \in CmdRecord /\ cmd'.at = "wait" /\ cmd'.kind = cmd.kind /\ UNCHANGED answer
      BY <1>t, <2>3, GotoAt DEF CmdPlaces
    <3>2. DeployGoes'
      BY <1>2, <1>g, <2>1, <3>1 DEF DeployGoes, RollPlaces, AfterRolls
    <3> QED
      BY <1>2, <1>k, <2>1, <3>1, <3>2, DeployOn
  <2> QED
    BY <1>4, <2>2, <2>3 DEF StartRelease
<1>5. CASE RunToExit
  <2>1. cmd.at = "wait" /\ UNCHANGED <<disk, images, copies, registry, route>>
    BY <1>5 DEF RunToExit, In
  <2>2. CASE End(FALSE)
    BY <1>2, <2>1, <2>2, FailsEnd
  <2>3. CASE box' = "none" /\ Goto("workers")
    <3>1. cmd' \in CmdRecord /\ cmd'.at = "workers" /\ cmd'.kind = cmd.kind /\ UNCHANGED answer
      BY <1>t, <2>3, GotoAt DEF CmdPlaces
    <3>2. DeployGoes'
      BY <1>2, <1>g, <2>1, <2>3, <3>1 DEF DeployGoes, RollPlaces, AfterRolls
    <3> QED
      BY <1>2, <1>k, <2>1, <3>1, <3>2, DeployOn
  <2> QED
    BY <1>5, <2>2, <2>3 DEF RunToExit
<1>6. CASE RemoveDropped
  <2>1. cmd.at = "dropped" /\ UNCHANGED <<checkout, scaling, workers, images, box, registry, route>>
    BY <1>6 DEF RemoveDropped, In, disk
  <2>2. CASE UNCHANGED copies /\ End(FALSE)
    BY <1>q, <1>t, <2>1, <2>2, SameData, FailsEnd
  <2>3. CASE DroppedContainers = {} /\ Goto("unroute") /\ UNCHANGED copies
    <3>1. cmd' \in CmdRecord /\ cmd'.at = "unroute" /\ cmd'.kind = cmd.kind /\ UNCHANGED answer
      BY <1>t, <2>3, GotoAt DEF CmdPlaces
    <3>2. DataTypes' /\ P' = P /\ (\A s : Rolled(s)' <=> Rolled(s)) /\ (\A s : CountOf(s)' = CountOf(s))
      BY <1>q, <1>t, <2>1, <2>3, SameData, AllStayRolled
    <3>3. \A c \in copies : c.svc \in RangeOf(P.order)
      BY <2>3 DEF DroppedContainers
    <3>4. DeployGoes'
      BY <1>g, <2>1, <2>3, <3>1, <3>2, <3>3 DEF DeployGoes, RollPlaces, AfterRolls
    <3> QED
      BY <1>k, <2>1, <3>1, <3>2, <3>4, DeployOn
  <2>4. ASSUME NEW c \in DroppedContainers, copies' = copies \ {c}, UNCHANGED <<cmd, answer>> PROVE RolloutInv'
    <3>1. DataTypes'
      BY <1>t, <2>1, <2>4 DEF DataTypes
    <3>2. P' = P /\ \A s : CountOf(s)' = CountOf(s)
      BY <2>1 DEF P, CountOf
    <3>3. \A s \in RangeOf(P.order) : ContainersOf(s)' = ContainersOf(s)
      BY <2>4 DEF ContainersOf, DroppedContainers
    <3>4. \A s \in RangeOf(P.order) : Used(s)' = Used(s) /\ AddressesOf(s)' = AddressesOf(s)
      BY <3>3 DEF Used, AddressesOf
    <3>5. \A s \in RangeOf(P.order) : Rolled(s) => Rolled(s)'
      BY <2>1, <3>2, <3>3, <3>4 DEF Rolled
    <3>6. DeployGoes'
      BY <1>g, <2>1, <2>4, <3>2, <3>5 DEF DeployGoes, RollPlaces, AfterRolls
    <3> QED
      BY <1>k, <1>q, <2>1, <2>4, <3>1, <3>6, DeployOn
  <2> QED
    BY <1>6, <2>2, <2>3, <2>4 DEF RemoveDropped
<1>7. CASE RollOutApp
  <2>1. cmd.at = "unroute" /\ UNCHANGED <<checkout, scaling, workers, images, copies, box, registry>>
    BY <1>7 DEF RollOutApp, In, disk, engine
  <2>2. DataTypes' /\ P' = P /\ \A s : CountOf(s)' = CountOf(s)
    BY <1>q, <1>t, <2>1, SameData DEF P, CountOf
  <2>3. CASE End(FALSE)
    BY <2>2, <2>3, FailsEnd
  <2>4. CASE Goto("park") /\ route' = IF P.routed = "none" THEN {} ELSE route
    <3>1. cmd' \in CmdRecord /\ cmd'.at = "park" /\ cmd'.kind = cmd.kind /\ UNCHANGED answer
      BY <1>t, <2>4, GotoAt DEF CmdPlaces
    <3>2. \A s \in RangeOf(P.order) : s = P.routed => route' = route
      BY <1>o, <2>4
    <3>3. \A s : ContainersOf(s)' = ContainersOf(s) /\ Used(s)' = Used(s)
      BY <2>1 DEF ContainersOf, Used
    <3>4. \A s \in RangeOf(P.order) : Rolled(s) => Rolled(s)'
      BY <2>1, <3>2, <3>3, StaysRolled
    <3>5. DeployGoes'
      BY <1>g, <2>1, <2>2, <2>4, <3>1, <3>4 DEF DeployGoes, RollPlaces, AfterRolls
    <3> QED
      BY <1>k, <2>1, <2>2, <3>1, <3>5, DeployOn
  <2> QED
    BY <1>7, <2>3, <2>4 DEF RollOutApp
<1>8. CASE ParkWorkers \/ Discard
  <2>1. cmd.at \in {"park", "discard"} /\ UNCHANGED <<checkout, scaling, images, copies, box, registry, route>>
    BY <1>8 DEF ParkWorkers, Discard, In, engine
  <2>2. DataTypes' /\ P' = P /\ (\A s : Rolled(s)' <=> Rolled(s)) /\ (\A s : CountOf(s)' = CountOf(s))
    BY <1>q, <1>t, <2>1, SameData, AllStayRolled
  <2>3. CASE End(FALSE)
    BY <2>2, <2>3, FailsEnd
  <2>4. CASE End(TRUE) /\ workers = "gone" /\ UNCHANGED workers
    <3>1. answer'.kind = "deploy"
      BY <1>k, <2>4 DEF End
    <3>2. DeployDone'
      BY <1>g, <2>1, <2>2, <2>4 DEF DeployDone, DeployGoes, RollPlaces, AfterRolls
    <3>3. RolloutDone'
      BY <3>1, <3>2 DEF RolloutDone
    <3> QED
      BY <1>o, <2>1, <2>2, <2>4, <3>3, Succeeds
  <2>5. ASSUME NEW at \in {"stopped", "forget"}, Goto(at), workers' # "running" PROVE RolloutInv'
    <3>1. cmd' \in CmdRecord /\ cmd'.at = at /\ cmd'.kind = cmd.kind /\ UNCHANGED answer
      BY <1>t, <2>5, GotoAt DEF CmdPlaces
    <3>2. DeployGoes'
      BY <1>g, <2>1, <2>2, <2>5, <3>1 DEF DeployGoes, RollPlaces, AfterRolls
    <3> QED
      BY <1>k, <2>1, <2>2, <3>1, <3>2, DeployOn
  <2>6. CASE Discard
    <3>1. workers # "running"
      BY <1>g, <2>6 DEF DeployGoes, Discard, In
    <3> QED
      BY <2>5, <2>6, <3>1 DEF Discard
  <2> QED
    BY <1>8, <2>3, <2>4, <2>5, <2>6 DEF ParkWorkers
<1>9. CASE ForgetScaling
  <2>1. cmd.at = "forget" /\ UNCHANGED <<checkout, workers, images, copies, box, registry, route>> /\ End(TRUE)
    BY <1>9 DEF ForgetScaling, In, engine
  <2>2. scaling' = scaling \/ scaling' = [s \in DOMAIN scaling \cap RangeOf(P.order) |-> scaling[s]]
    BY <1>9 DEF ForgetScaling
  <2>3. scaling \in Counting
    BY <1>t DEF DataTypes
  <2>4. PICK D \in SUBSET (Services \cup {"web"}) : scaling \in [D -> Nat]
    BY <2>3 DEF Counting
  <2>5. [s \in DOMAIN scaling \cap RangeOf(P.order) |-> scaling[s]] \in [D \cap RangeOf(P.order) -> Nat]
    BY <2>4
  <2>6. D \cap RangeOf(P.order) \in SUBSET (Services \cup {"web"})
    OBVIOUS
  <2>7. scaling' \in Counting
    BY <2>2, <2>3, <2>5, <2>6 DEF Counting
  <2>8. \A s \in RangeOf(P.order) : CountOf(s)' = CountOf(s)
    BY <2>2 DEF CountOf
  <2>9. DataTypes' /\ P' = P
    BY <1>t, <2>1, <2>7 DEF DataTypes, P
  <2>10. \A s : ContainersOf(s)' = ContainersOf(s) /\ Used(s)' = Used(s) /\ AddressesOf(s)' = AddressesOf(s)
    BY <2>1 DEF ContainersOf, Used, AddressesOf
  <2>11. \A s \in RangeOf(P.order) : Rolled(s) => Rolled(s)'
    BY <2>1, <2>8, <2>9, <2>10 DEF Rolled
  <2>12. DeployDone'
    BY <1>g, <2>1, <2>8, <2>9, <2>11 DEF DeployDone, DeployGoes, RollPlaces, AfterRolls
  <2>13. answer'.kind = "deploy"
    BY <1>k, <2>1 DEF End
  <2>14. RolloutDone'
    BY <2>12, <2>13 DEF RolloutDone
  <2> QED
    BY <1>o, <2>1, <2>9, <2>14, Succeeds
<1> QED
  BY <1>1, <1>3, <1>4, <1>5, <1>6, <1>7, <1>8, <1>9

-----------------------------------------------------------------------------
\* Steps that make containers.

LEMMA ImageType ==
  ASSUME DataTypes, NEW s \in Services
  PROVE  ImageOf(s) \in Nat
BY DEF DataTypes, ImageOf

\* Keeping some containers of a service and adding others at free indexes.
LEMMA Replaced ==
  ASSUME DataTypes, NEW s \in Services, NEW K \in SUBSET ContainersOf(s), NEW N \in SUBSET Slots, \A c \in K : c.n \notin N,
         NEW R \in SUBSET NewContainers(s, N), copies' = (copies \ ContainersOf(s)) \cup K \cup R,
         UNCHANGED <<checkout, scaling, registry>>, images' = [images EXCEPT ![s] = ImageOf(s)]
  PROVE  /\ DataTypes' /\ ContainersOf(s)' = K \cup R /\ images'[s] = ImageOf(s)
         /\ \A t : t # s => images'[t] = images[t] /\ ContainersOf(t)' = ContainersOf(t) /\ Used(t)' = Used(t)
<1>1. ImageOf(s) \in Nat /\ images \in [Services -> Nat]
  BY ImageType DEF DataTypes
<1>2. images' \in [Services -> Nat] /\ images'[s] = ImageOf(s) /\ \A t : t # s => images'[t] = images[t]
  BY <1>1
<1>3. \A c \in R : c \in Copy /\ c.svc = s /\ c.n \in N
  BY <1>1 DEF NewContainers, Copy
<1>4. \A c, d \in R : c.n = d.n => c = d
  BY DEF NewContainers
<1>5. \A c \in K : c \in copies /\ c.svc = s
  BY DEF ContainersOf
<1>6. copies' \subseteq Copy
  BY <1>3, <1>5 DEF DataTypes
<1>7. ASSUME NEW c \in copies', NEW d \in copies', c.svc = d.svc, c.n = d.n PROVE c = d
  <2>1. \A x \in copies' : (x \in copies /\ x.svc # s) \/ x \in K \/ x \in R
    BY DEF ContainersOf
  <2>2. CASE c \in R \/ d \in R
    BY <1>3, <1>4, <1>5, <1>7, <2>1, <2>2
  <2>3. CASE c \notin R /\ d \notin R
    BY <1>5, <1>7, <2>1, <2>3 DEF DataTypes
  <2> QED
    BY <2>2, <2>3
<1>8. DataTypes'
  BY <1>2, <1>6, <1>7 DEF DataTypes
<1>9. ContainersOf(s)' = K \cup R
  BY <1>3, <1>5 DEF ContainersOf
<1>10. \A t : t # s => ContainersOf(t)' = ContainersOf(t)
  BY <1>3, <1>5 DEF ContainersOf
<1>11. \A t : t # s => Used(t)' = Used(t)
  BY <1>10 DEF Used
<1> QED
  BY <1>2, <1>8, <1>9, <1>10, <1>11

LEMMA NewIndexes ==
  ASSUME NEW s, NEW N
  PROVE  {c.n : c \in NewContainers(s, N)} = N /\ Addresses(NewContainers(s, N)) = {<<s, n>> : n \in N}
<1> DEFINE C == NewContainers(s, N)
<1>1. \A c \in C : c.svc = s /\ c.n \in N
  BY DEF NewContainers
<1>2. \A n \in N : \E c \in C : c.svc = s /\ c.n = n
  <2> SUFFICES ASSUME NEW n \in N PROVE \E c \in C : c.svc = s /\ c.n = n
    OBVIOUS
  <2> DEFINE c == [svc |-> s, n |-> n, img |-> ImageOf(s), st |-> "healthy"]
  <2>1. c \in C
    BY DEF NewContainers
  <2>2. c.svc = s /\ c.n = n
    OBVIOUS
  <2> QED
    BY <2>1, <2>2
<1> HIDE DEF C
<1>3. {c.n : c \in C} = N /\ {<<c.svc, c.n>> : c \in C} = {<<s, n>> : n \in N}
  BY <1>1, <1>2
<1> QED
  BY <1>3 DEF C, Addresses

LEMMA StepRoll ==
  ASSUME RolloutInv, RollService
  PROVE  RolloutInv'
<1>0. PICK s : s = Head(cmd.todo)
  OBVIOUS
<1>t. DataTypes /\ CmdTypes /\ CmdGoes
  BY DEF RolloutInv
<1>q. cmd \in CmdRecord /\ cmd.at = "swap" /\ cmd.kind # "none" /\ cmd.kind \in CmdKinds
  BY <1>t DEF CmdTypes, RollService, CmdRecord
<1>s. cmd.todo \in Seq(Services) /\ cmd.todo # <<>>
  BY <1>q, <1>t DEF CmdGoes, CmdRecord
<1>1. s \in Services /\ Tail(cmd.todo) \in Seq(Services) /\ RangeOf(cmd.todo) \subseteq {s} \cup RangeOf(Tail(cmd.todo))
  <2>1. s \in Services /\ Tail(cmd.todo) \in Seq(Services) /\ Len(Tail(cmd.todo)) = Len(cmd.todo) - 1 /\ Len(cmd.todo) \in Nat
    BY <1>0, <1>s
  <2>2. \A i \in 1..Len(cmd.todo) : i = 1 \/ (i - 1 \in 1..Len(Tail(cmd.todo)) /\ cmd.todo[i] = Tail(cmd.todo)[i - 1])
    BY <1>s, <2>1
  <2>3. DOMAIN cmd.todo = 1..Len(cmd.todo) /\ DOMAIN Tail(cmd.todo) = 1..Len(Tail(cmd.todo)) /\ cmd.todo[1] = s
    BY <1>0, <1>s, <2>1
  <2>4. ASSUME NEW i \in DOMAIN cmd.todo PROVE cmd.todo[i] \in {s} \cup RangeOf(Tail(cmd.todo))
    BY <2>2, <2>3, <2>4 DEF RangeOf
  <2>5. RangeOf(cmd.todo) = {cmd.todo[i] : i \in DOMAIN cmd.todo}
    BY DEF RangeOf
  <2> QED
    BY <2>1, <2>4, <2>5
<1>o. /\ checkout \in DOMAIN Projects /\ checkout # 0 /\ P.order \in Seq(Services) /\ RangeOf(P.order) \subseteq Services
      /\ P.routed \in RangeOf(P.order) \cup {"none"} /\ "none" \notin Services
  BY <1>q, OrderOf
<1>2. UNCHANGED <<checkout, scaling, workers, registry, box>> /\ images' = [images EXCEPT ![s] = ImageOf(s)]
  BY <1>0 DEF RollService, disk
<1>3. P' = P /\ \A t : CountOf(t)' = CountOf(t)
  BY <1>2 DEF P, CountOf
<1>4. ASSUME NEW N \in SlotSets(CountOf(s)), copies' = (copies \ ContainersOf(s)) \cup NewContainers(s, N),
             route' = IF s = P.routed THEN Addresses(NewContainers(s, N)) ELSE route,
             cmd' = [cmd EXCEPT !.at = "deps", !.todo = Tail(@)], UNCHANGED answer
      PROVE  RolloutInv'
  <2>1. N \in SUBSET Slots /\ Cardinality(N) = CountOf(s)
    BY DEF SlotSets
  <2>2. {} \in SUBSET ContainersOf(s) /\ copies' = (copies \ ContainersOf(s)) \cup {} \cup NewContainers(s, N)
    BY <1>4
  <2>3. /\ DataTypes' /\ ContainersOf(s)' = NewContainers(s, N) /\ images'[s] = ImageOf(s)
        /\ \A t : t # s => images'[t] = images[t] /\ ContainersOf(t)' = ContainersOf(t) /\ Used(t)' = Used(t)
    <3>1. \A R \in SUBSET NewContainers(s, N) : copies' = (copies \ ContainersOf(s)) \cup {} \cup R =>
             /\ DataTypes' /\ ContainersOf(s)' = {} \cup R /\ images'[s] = ImageOf(s)
             /\ \A t : t # s => images'[t] = images[t] /\ ContainersOf(t)' = ContainersOf(t) /\ Used(t)' = Used(t)
      BY <1>1, <1>2, <1>t, <2>1, <2>2, Replaced
    <3> QED
      BY <2>2, <3>1
  <2>4. Used(s)' = N
    BY <2>3, NewIndexes DEF Used
  <2>5. Addresses(NewContainers(s, N)) = AddressesOf(s)'
    BY <2>4, NewIndexes DEF AddressesOf
  <2>6. \A c \in ContainersOf(s)' : c.img = images'[s]
    BY <2>3 DEF NewContainers
  <2>7. Rolled(s)'
    BY <1>3, <1>4, <2>1, <2>4, <2>5, <2>6 DEF Rolled
  <2>8. \A t : t # s /\ Rolled(t) => Rolled(t)'
    <3> SUFFICES ASSUME NEW t, t # s, Rolled(t) PROVE Rolled(t)'
      OBVIOUS
    <3>1. t = P.routed => route' = route
      BY <1>4
    <3> QED
      BY <1>2, <2>3, <3>1, StaysRolled
  <2>9. /\ cmd' \in CmdRecord /\ cmd'.at = "deps" /\ cmd'.kind = cmd.kind /\ cmd'.todo = Tail(cmd.todo)
        /\ cmd'.svc = cmd.svc
    BY <1>1, <1>4, <1>q DEF CmdRecord, CmdPlaces
  <2>10. ASSUME NEW X, \A t \in X \ RangeOf(cmd.todo) : Rolled(t) PROVE \A t \in X \ RangeOf(cmd'.todo) : Rolled(t)'
    BY <1>1, <2>7, <2>8, <2>9, <2>10
  <2>11. cmd.kind = "deploy" => DeployGoes'
    <3> SUFFICES ASSUME cmd.kind = "deploy" PROVE DeployGoes'
      OBVIOUS
    <3>1. /\ \A t \in RangeOf(P.order) : CountOf(t) > 0
          /\ P.release => box = "none"
          /\ \A t \in RangeOf(P.order) \ RangeOf(cmd.todo) : Rolled(t)
      BY <1>q, <1>t DEF CmdGoes, DeployGoes, RollPlaces
    <3>2. \A t \in RangeOf(P.order) \ RangeOf(cmd'.todo) : Rolled(t)'
      BY <2>10, <3>1
    <3> QED
      BY <1>2, <1>3, <2>9, <3>1, <3>2 DEF DeployGoes, RollPlaces, AfterRolls
  <2>12. cmd.kind = "restart" => RestartGoes'
    <3> SUFFICES ASSUME cmd.kind = "restart" PROVE RestartGoes'
      OBVIOUS
    <3>1. cmd.svc \in RangeOf(P.order) \cup {"all"} /\ \A t \in RangeOf(Chosen(cmd.svc)) \ RangeOf(cmd.todo) : Rolled(t)
      BY <1>q, <1>t DEF CmdGoes, RestartGoes, RollPlaces
    <3>2. \A t \in RangeOf(Chosen(cmd.svc)) \ RangeOf(cmd'.todo) : Rolled(t)'
      BY <2>10, <3>1
    <3>3. Chosen(cmd.svc)' = Chosen(cmd.svc)
      BY <1>3, <2>9 DEF Chosen
    <3> QED
      BY <1>3, <2>9, <3>1, <3>2, <3>3 DEF RestartGoes, RollPlaces
  <2>13. cmd.kind = "update" => UpdateGoes'
    BY <1>t, <2>9 DEF UpdateGoes, CmdGoes, RollPlaces
  <2>14. cmd.kind \notin {"stop", "scale", "destroy"}
    BY <1>t, <1>q DEF StopGoes, ScaleGoes, DestroyGoes, CmdGoes
  <2>15. CmdGoes'
    BY <2>9, <2>11, <2>12, <2>13, <2>14 DEF CmdGoes
  <2> QED
    BY <1>2, <1>4, <1>q, <2>3, <2>9, <2>15, GoesOn
<1>5. ASSUME NEW old \in SUBSET ContainersOf(s), NEW N \in SUBSET Slots, NEW some \in SUBSET NewContainers(s, N), some = {} \/ some = NewContainers(s, N),
             Addresses(old) \cap Addresses(some) = {}, copies' = (copies \ ContainersOf(s)) \cup old \cup some, End(FALSE)
      PROVE  RolloutInv'
  <2>1. PICK M \in SUBSET Slots : some = NewContainers(s, M) /\ \A c \in old : c.n \notin M
    <3>1. \A c \in old : c.svc = s
      BY DEF ContainersOf
    <3>2. CASE some = {}
      <4>1. some = NewContainers(s, {})
        BY <3>2 DEF NewContainers
      <4> QED
        BY <4>1
    <3>3. CASE some = NewContainers(s, N)
      <4>1. \A n \in N : <<s, n>> \in Addresses(some)
        BY <3>3, NewIndexes
      <4>2. \A c \in old : <<s, c.n>> \in Addresses(old)
        BY <3>1 DEF Addresses
      <4> QED
        BY <1>5, <3>3, <4>1, <4>2
    <3> QED
      BY <1>5, <3>2, <3>3
  <2>2. \A R \in SUBSET NewContainers(s, M) : copies' = (copies \ ContainersOf(s)) \cup old \cup R => DataTypes'
    BY <1>1, <1>2, <1>t, <2>1, Replaced
  <2>3. DataTypes'
    BY <1>5, <2>1, <2>2
  <2> QED
    BY <1>5, <2>3, FailsEnd
<1> QED
  BY <1>0, <1>4, <1>5 DEF RollService

-----------------------------------------------------------------------------
\* Stop, destroy, update and the SCALING file.

LEMMA StepOther ==
  ASSUME RolloutInv, StopUnroutes \/ RemoveContainers \/ UpdateService \/ ClearScaling \/ WriteScaling
  PROVE  RolloutInv'
<1>t. DataTypes /\ CmdTypes /\ CmdGoes
  BY DEF RolloutInv
<1>k. cmd.kind # "none" /\ cmd.kind \in CmdKinds /\ cmd \in CmdRecord
  BY <1>t DEF CmdTypes, CmdRecord, StopUnroutes, RemoveContainers, UpdateService, ClearScaling, WriteScaling, In
<1>o. checkout # 0
  BY <1>k, OrderOf
<1>c. registry \in [Services -> Nat] /\ scaling \in Counting
  BY <1>t DEF DataTypes
<1>1. CASE StopUnroutes
  <2>1. cmd.kind = "stop" /\ cmd.at = "unroute" /\ UNCHANGED <<checkout, scaling, workers, images, copies, registry>>
    BY <1>1 DEF StopUnroutes, In, disk, engine
  <2>2. DataTypes' /\ P' = P
    BY <1>c, <1>t, <2>1, SameData DEF P
  <2>3. CASE End(FALSE)
    BY <2>2, <2>3, FailsEnd
  <2>4. CASE Goto("remove") /\ (P.routed # "none" /\ cmd.svc \in {"all", P.routed} => route' = {})
    <3>1. cmd' \in CmdRecord /\ cmd'.at = "remove" /\ cmd'.kind = cmd.kind /\ cmd'.svc = cmd.svc /\ UNCHANGED answer
      BY <1>t, <2>4, GotoAt DEF CmdPlaces
    <3>2. StopGoes'
      BY <2>2, <2>4, <3>1 DEF StopGoes
    <3>3. CmdGoes'
      BY <2>1, <3>1, <3>2 DEF CmdGoes
    <3> QED
      BY <1>k, <2>1, <2>2, <3>1, <3>3, GoesOn
  <2> QED
    BY <1>1, <2>3, <2>4 DEF StopUnroutes
<1>2. CASE RemoveContainers
  <2>1. cmd.at = "remove" /\ UNCHANGED <<checkout, scaling, workers, images, box, registry, route>> /\ copies' \subseteq copies
    BY <1>2 DEF RemoveContainers, disk
  <2>2. DataTypes' /\ P' = P
    BY <1>t, <2>1 DEF DataTypes, P
  <2>3. cmd.kind \in {"stop", "destroy"}
    BY <1>k, <1>t, <2>1 DEF CmdKinds, CmdGoes, DeployGoes, RestartGoes, ScaleGoes, UpdateGoes, RollPlaces, AfterRolls
  <2>4. CASE End(FALSE)
    BY <2>2, <2>4, FailsEnd
  <2>5. CASE UNCHANGED <<cmd, answer>>
    <3>1. cmd.kind = "stop" => StopGoes'
      BY <1>t, <2>1, <2>2, <2>5 DEF CmdGoes, StopGoes
    <3>2. cmd.kind = "destroy" => DestroyGoes'
      BY <1>t, <2>1, <2>5 DEF CmdGoes, DestroyGoes
    <3>3. CmdGoes'
      BY <2>1, <2>3, <2>5, <3>1, <3>2 DEF CmdGoes
    <3> QED
      BY <1>k, <2>1, <2>2, <2>5, <3>3, GoesOn
  <2>6. CASE Targets = {} /\ UNCHANGED copies /\ cmd.kind = "stop" /\ End(TRUE)
    <3>1. answer'.kind = "stop" /\ answer'.svc = cmd.svc
      BY <2>6 DEF End
    <3>2. \A c \in copies : cmd.svc \notin {"all", c.svc}
      BY <2>6 DEF Targets, ContainersOf
    <3>3. P.routed # "none" /\ cmd.svc \in {"all", P.routed} => route = {}
      BY <1>t, <2>1, <2>6 DEF CmdGoes, StopGoes
    <3>4. StopDone'
      BY <2>1, <2>2, <2>6, <3>1, <3>2, <3>3 DEF StopDone
    <3>5. RolloutDone'
      BY <3>1, <3>4 DEF RolloutDone
    <3> QED
      BY <1>o, <2>1, <2>2, <2>6, <3>5, Succeeds
  <2>7. CASE Targets = {} /\ UNCHANGED copies /\ cmd.kind # "stop" /\ Goto("network")
    <3>1. cmd' \in CmdRecord /\ cmd'.at = "network" /\ cmd'.kind = cmd.kind /\ cmd'.svc = cmd.svc /\ UNCHANGED answer
      BY <1>t, <2>7, GotoAt DEF CmdPlaces
    <3>2. cmd.svc = "all" /\ copies = {}
      BY <1>t, <2>3, <2>7 DEF CmdGoes, DestroyGoes, Targets
    <3>3. DestroyGoes'
      BY <2>7, <3>1, <3>2 DEF DestroyGoes
    <3>4. CmdGoes'
      BY <2>3, <2>7, <3>1, <3>3 DEF CmdGoes
    <3> QED
      BY <1>k, <2>1, <2>2, <3>1, <3>4, GoesOn
  <2> QED
    BY <1>2, <2>4, <2>5, <2>6, <2>7 DEF RemoveContainers
<1>3. CASE UpdateService
  <2>1. cmd.kind = "update" /\ cmd.at = "pull" /\ UNCHANGED <<checkout, scaling, workers, copies, registry>>
    BY <1>3 DEF UpdateService, In, disk
  <2>2. cmd.svc \in Services
    BY <1>t, <2>1 DEF CmdGoes, UpdateGoes
  <2>3. images' \in [Services -> Nat]
    BY <1>3, <1>c, <1>t, <2>2 DEF UpdateService, DataTypes
  <2>4. DataTypes'
    BY <1>t, <2>1, <2>3 DEF DataTypes
  <2>5. CASE End(FALSE)
    BY <2>4, <2>5, FailsEnd
  <2>6. CASE End(TRUE)
    <3>1. answer'.kind = "update"
      BY <2>1, <2>6 DEF End
    <3>2. RolloutDone'
      BY <3>1 DEF RolloutDone
    <3> QED
      BY <1>o, <2>1, <2>4, <2>6, <3>2, Succeeds
  <2>7. CASE cmd' = [cmd EXCEPT !.at = "deps", !.todo = <<cmd.svc>>] /\ UNCHANGED answer
    <3>00. <<cmd.svc>> \in Seq(Services)
      BY <2>2
    <3>0. PICK q : q \in Seq(Services) /\ q = <<cmd.svc>>
      BY <3>00
    <3>1. cmd' \in CmdRecord /\ cmd'.at = "deps" /\ cmd'.kind = "update" /\ cmd'.svc = cmd.svc
      BY <1>k, <2>1, <2>7, <3>0 DEF CmdRecord, CmdPlaces
    <3>2. UpdateGoes'
      BY <2>2, <3>1 DEF UpdateGoes, RollPlaces
    <3>3. CmdGoes'
      BY <3>1, <3>2 DEF CmdGoes
    <3> QED
      BY <1>k, <2>1, <2>4, <2>7, <3>1, <3>3, GoesOn
  <2> QED
    BY <1>3, <2>5, <2>6, <2>7 DEF UpdateService
<1>4. CASE ClearScaling
  <2>1. cmd.kind = "scale" /\ cmd.at = "clear" /\ UNCHANGED <<checkout, workers, images, copies, registry, route>>
    BY <1>4 DEF ClearScaling, In, engine
  <2>2. CASE End(FALSE) /\ UNCHANGED scaling
    BY <1>c, <1>t, <2>1, <2>2, SameData, FailsEnd
  <2>3. CASE cmd' = [cmd EXCEPT !.at = "record", !.counts = scaling] /\ UNCHANGED answer /\ scaling' = NoCounts
    <3>1. NoCounts \in Counting
      BY NoCmdType DEF NoCmd, CmdRecord
    <3>2. DataTypes'
      BY <1>t, <2>1, <2>3, <3>1 DEF DataTypes
    <3>3. cmd' \in CmdRecord /\ cmd'.at = "record" /\ cmd'.kind = "scale" /\ cmd'.svc = cmd.svc /\ cmd'.want = cmd.want
      BY <1>c, <1>k, <2>1, <2>3 DEF CmdRecord, CmdPlaces
    <3>4. PICK s : s = cmd.svc
      OBVIOUS
    <3>5. Used(s)' = Used(s)
      BY <2>1 DEF Used, ContainersOf
    <3>6. ScaleGoes'
      BY <1>t, <2>1, <3>3, <3>4, <3>5 DEF CmdGoes, ScaleGoes
    <3>7. CmdGoes'
      BY <3>3, <3>6 DEF CmdGoes
    <3> QED
      BY <1>k, <2>1, <2>3, <3>2, <3>3, <3>7, GoesOn
  <2> QED
    BY <1>4, <2>2, <2>3 DEF ClearScaling
<1>5. CASE WriteScaling
  <2>1. cmd.kind = "scale" /\ cmd.at = "record" /\ End(TRUE) /\ UNCHANGED <<checkout, workers, images, copies, registry, route>>
    BY <1>5 DEF WriteScaling, In, engine
  <2>2. PICK s : s = cmd.svc
    OBVIOUS
  <2>3. s \in Services /\ cmd.want \in Nat /\ Cardinality(Used(s)) = cmd.want
    BY <1>t, <1>k, <2>1, <2>2 DEF CmdGoes, ScaleGoes, CmdRecord
  <2>4. cmd.counts \in Counting
    BY <1>k DEF CmdRecord
  <2>5. PICK D \in SUBSET (Services \cup {"web"}) : cmd.counts \in [D -> Nat]
    BY <2>4 DEF Counting
  <2>6. scaling' = [k \in D \cup {s} |-> IF k = s THEN cmd.want ELSE cmd.counts[k]]
    BY <1>5, <2>2, <2>5 DEF WriteScaling
  <2>7. scaling' \in [D \cup {s} -> Nat] /\ D \cup {s} \in SUBSET (Services \cup {"web"})
    BY <2>3, <2>5, <2>6
  <2>8. DataTypes'
    BY <1>t, <2>1, <2>7 DEF DataTypes, Counting
  <2>9. CountOf(s)' = cmd.want /\ Used(s)' = Used(s)
    BY <2>1, <2>6 DEF CountOf, Used, ContainersOf
  <2>10. answer'.kind = "scale" /\ answer'.svc = s /\ answer'.want = cmd.want
    BY <2>1, <2>2 DEF End
  <2>11. ScaleDone'
    BY <2>3, <2>9, <2>10 DEF ScaleDone
  <2>12. RolloutDone'
    BY <2>10, <2>11 DEF RolloutDone
  <2> QED
    BY <1>o, <2>1, <2>8, <2>12, Succeeds
<1> QED
  BY <1>1, <1>2, <1>3, <1>4, <1>5

-----------------------------------------------------------------------------
\* Scale.

\* The indexes that are left after a scale are as many as were asked for.
LEMMA ScaleCount ==
  ASSUME NEW U \in SUBSET Slots, NEW want \in 1..MaxContainers
  PROVE  Cardinality(Lowest(U, want) \cup Lowest(Slots \ U, IF Cardinality(U) < want THEN want - Cardinality(U) ELSE 0)) = want
<1> DEFINE F == Slots \ U
<1> DEFINE lack == IF Cardinality(U) < want THEN want - Cardinality(U) ELSE 0
<1> DEFINE K == Lowest(U, want)
<1> DEFINE A == Lowest(F, lack)
<1>0. K = {n \in U : Cardinality({m \in U : m < n}) < want} /\ A = {n \in F : Cardinality({m \in F : m < n}) < lack}
  BY DEF Lowest
<1>a. F = Slots \ U /\ lack = IF Cardinality(U) < want THEN want - Cardinality(U) ELSE 0
  OBVIOUS
<1> HIDE DEF F, lack, K, A
<1>1. IsFiniteSet(Slots) /\ Cardinality(Slots) = MaxContainers + 1 /\ Slots \in SUBSET Nat
  <2>1. MaxContainers \in Nat
    BY RolloutAssumption
  <2>2. IsFiniteSet(Slots) /\ Cardinality(Slots) = IF 1 > MaxContainers + 1 THEN 0 ELSE MaxContainers + 1 - 1 + 1
    BY <2>1, FS_Interval DEF Slots
  <2> QED
    BY <2>1, <2>2 DEF Slots
<1>2. IsFiniteSet(U) /\ IsFiniteSet(F) /\ U \in SUBSET Nat /\ F \in SUBSET Nat
  BY <1>1, <1>a, FS_Subset
<1>3. Cardinality(U) \in Nat /\ Cardinality(F) \in Nat
  BY <1>2, FS_CardinalityType
<1>4. Cardinality(F) = Cardinality(Slots) - Cardinality(U)
  <2>1. Cardinality(Slots \ U) = Cardinality(Slots) - Cardinality(Slots \cap U)
    BY <1>1, <1>2, FS_Difference
  <2>2. Slots \cap U = U
    OBVIOUS
  <2> QED
    BY <1>a, <2>1, <2>2
<1>5. want \in Nat /\ want <= MaxContainers /\ MaxContainers \in Nat
  BY RolloutAssumption
<1>6. \A X \in SUBSET Nat : IsFiniteSet(X) => \A n \in X : Cardinality({m \in X : m < n}) \in Nat
  <2> SUFFICES ASSUME NEW X \in SUBSET Nat, IsFiniteSet(X), NEW n \in X PROVE Cardinality({m \in X : m < n}) \in Nat
    OBVIOUS
  <2>1. IsFiniteSet({m \in X : m < n})
    BY FS_Subset
  <2> QED
    BY <2>1, FS_CardinalityType
<1>7. ASSUME Cardinality(U) < want PROVE Cardinality(K \cup A) = want
  <2>1. lack = want - Cardinality(U) /\ lack \in Nat /\ lack <= Cardinality(F)
    BY <1>1, <1>3, <1>4, <1>5, <1>7, <1>a
  <2>2. Cardinality(A) = lack
    BY <1>0, <1>2, <2>1, LowestOf
  <2>3. K = U
    <3>1. \A n \in U : Cardinality({m \in U : m < n}) < want
      <4> SUFFICES ASSUME NEW n \in U PROVE Cardinality({m \in U : m < n}) < want
        OBVIOUS
      <4>1. Cardinality({m \in U : m < n}) <= Cardinality(U)
        BY <1>2, FS_Subset
      <4>2. Cardinality({m \in U : m < n}) \in Nat
        BY <1>2, <1>6
      <4> QED
        BY <1>3, <1>5, <1>7, <4>1, <4>2
    <3> QED
      BY <1>0, <3>1
  <2>4. IsFiniteSet(A) /\ U \cap A = {}
    BY <1>0, <1>2, <1>a, FS_Subset
  <2>5. Cardinality(U \cup A) = Cardinality(U) + Cardinality(A) - Cardinality(U \cap A)
    BY <1>2, <2>4, FS_Union
  <2>6. Cardinality(U \cap A) = 0
    BY <2>4, FS_EmptySet
  <2>7. Cardinality(K \cup A) = Cardinality(U) + (want - Cardinality(U)) - 0
    BY <2>1, <2>2, <2>3, <2>5, <2>6
  <2> QED
    BY <1>3, <1>5, <2>7
<1>8. ASSUME ~(Cardinality(U) < want) PROVE Cardinality(K \cup A) = want
  <2>1. lack = 0 /\ want <= Cardinality(U)
    BY <1>3, <1>5, <1>8, <1>a
  <2>2. A = {}
    <3>1. \A n \in F : Cardinality({m \in F : m < n}) \in Nat
      BY <1>2, <1>6
    <3> QED
      BY <1>0, <2>1, <3>1
  <2>3. Cardinality(K) = want
    BY <1>0, <1>2, <1>5, <2>1, LowestOf
  <2>4. K \cup A = K
    BY <2>2
  <2> QED
    BY <2>3, <2>4
<1> QED
  BY <1>7, <1>8 DEF F, lack, K, A

LEMMA StepScale ==
  ASSUME RolloutInv, ScaleTo
  PROVE  RolloutInv'
<1>t. DataTypes /\ CmdTypes /\ CmdGoes
  BY DEF RolloutInv
<1>k. cmd.kind = "scale" /\ cmd.at = "scale" /\ cmd \in CmdRecord
  BY <1>t DEF CmdTypes, ScaleTo, In
<1>0. PICK s : s = cmd.svc
  OBVIOUS
<1>w. s \in Services /\ cmd.want \in 1..MaxContainers /\ cmd.want \in Nat
  BY <1>0, <1>k, <1>t DEF CmdGoes, ScaleGoes, CmdRecord
<1>1. UNCHANGED <<checkout, scaling, workers, registry, box>> /\ images' = [images EXCEPT ![s] = ImageOf(s)]
  BY <1>0 DEF ScaleTo, disk
<1> DEFINE have == ContainersOf(s)
<1> DEFINE below(c) == {d \in have : d.n < c.n}
<1> DEFINE free == {n \in Slots : ~\E c \in have : c.n = n}
<1> DEFINE lack == IF Cardinality(have) < cmd.want THEN cmd.want - Cardinality(have) ELSE 0
<1> DEFINE gone == {c \in have : Cardinality(below(c)) >= cmd.want}
<1> DEFINE N == Lowest(free, lack)
<1> DEFINE K == Lowest(Used(s), cmd.want)
<1>2. /\ Cardinality(have) = Cardinality(Used(s)) /\ IsFiniteSet(Used(s)) /\ Used(s) \in SUBSET Slots
  BY <1>t, UsedCount
<1>3. free = Slots \ Used(s)
  BY DEF Used
<1>4. Cardinality(K \cup N) = cmd.want
  <2>1. lack = IF Cardinality(Used(s)) < cmd.want THEN cmd.want - Cardinality(Used(s)) ELSE 0
    BY <1>2
  <2> HIDE DEF lack, free, have, below, gone
  <2> QED
    BY <1>2, <1>3, <1>w, <2>1, ScaleCount
<1>5. {c.n : c \in have \ gone} = K
  <2>0. \A c \in have : c.n \in Slots
    BY <1>2 DEF Used
  <2>1. \A c, d \in have : c.n = d.n => c = d
    BY <1>t DEF DataTypes, ContainersOf
  <2>2. ASSUME NEW c \in have PROVE Cardinality(below(c)) = Cardinality({m \in Used(s) : m < c.n}) /\ Cardinality(below(c)) \in Nat
    <3>1. {d.n : d \in below(c)} = {m \in Used(s) : m < c.n}
      BY DEF Used
    <3>2. (\A d \in below(c) : d.n \in Slots) /\ \A d, e \in below(c) : d.n = e.n => d = e
      BY <2>0, <2>1
    <3> HIDE DEF below
    <3>3. IsFiniteSet(below(c)) /\ Cardinality(below(c)) = Cardinality({d.n : d \in below(c)})
      BY <3>2, IndexCount
    <3> QED
      BY <3>1, <3>3, FS_CardinalityType
  <2>3. \A c \in have : c \in gone <=> ~(Cardinality({m \in Used(s) : m < c.n}) < cmd.want)
    BY <1>w, <2>2
  <2>4. \A c \in have : c \in gone <=> c.n \notin K
    BY <2>3 DEF Used, Lowest
  <2>5. Used(s) = {c.n : c \in have}
    BY DEF Used
  <2> HIDE DEF gone, have
  <2>6. gone \subseteq have
    BY DEF gone
  <2>7. K \subseteq Used(s)
    BY DEF Lowest
  <2> HIDE DEF K
  <2> QED
    BY <2>4, <2>5, <2>6, <2>7
<1>6. N \in SUBSET Slots /\ \A c \in have : c.n \notin N
  BY DEF Lowest
<1> DEFINE add == NewContainers(s, N)
<1>7. have \ gone \in SUBSET have
  OBVIOUS
<1> HIDE DEF N, K, gone, have, free, lack
<1>8. ASSUME NEW keep \in SUBSET have, NEW R \in SUBSET add, copies' = (copies \ have) \cup keep \cup R
      PROVE  DataTypes' /\ ContainersOf(s)' = keep \cup R
  <2>1. \A c \in keep : c.n \notin N
    BY <1>6
  <2>2. keep \in SUBSET ContainersOf(s) /\ copies' = (copies \ ContainersOf(s)) \cup keep \cup R
    BY <1>8 DEF have
  <2> QED
    BY <1>1, <1>6, <1>t, <1>w, <1>8, <2>1, <2>2, Replaced
<1>9. CASE End(FALSE) /\ UNCHANGED copies
  <2>1. ImageOf(s) \in Nat
    BY <1>t, <1>w, ImageType
  <2>2. DataTypes'
    BY <1>1, <1>9, <1>t, <2>1 DEF DataTypes
  <2> QED
    BY <1>9, <2>2, FailsEnd
<1>10. CASE copies' = (copies \ have) \cup ((have \ gone) \cup add) /\ Goto("clear")
  <2>1. copies' = (copies \ have) \cup (have \ gone) \cup add
    BY <1>10
  <2>2. DataTypes' /\ ContainersOf(s)' = (have \ gone) \cup add
    BY <1>7, <1>8, <2>1
  <2>3. Used(s)' = {c.n : c \in have \ gone} \cup {c.n : c \in add}
    BY <2>2 DEF Used
  <2>4. Used(s)' = K \cup N
    BY <1>5, <2>3, NewIndexes
  <2>5. /\ cmd' \in CmdRecord /\ cmd'.at = "clear" /\ cmd'.kind = cmd.kind /\ cmd'.svc = s /\ cmd'.want = cmd.want
        /\ UNCHANGED answer
    BY <1>0, <1>10, <1>t, GotoAt DEF CmdPlaces
  <2>6. ScaleGoes'
    BY <1>4, <1>w, <2>4, <2>5 DEF ScaleGoes
  <2>7. CmdGoes'
    BY <1>k, <2>5, <2>6 DEF CmdGoes
  <2> QED
    BY <1>1, <1>k, <2>2, <2>5, <2>7, GoesOn
<1>11. ASSUME NEW fewer \in SUBSET gone, NEW more \in SUBSET add, copies' = (copies \ fewer) \cup more, End(FALSE)
       PROVE  RolloutInv'
  <2>1. fewer \subseteq have /\ have \subseteq copies
    BY <1>11 DEF gone, have, ContainersOf
  <2>2. copies' = (copies \ have) \cup (have \ fewer) \cup more /\ have \ fewer \in SUBSET have
    BY <1>11, <2>1
  <2>3. DataTypes'
    BY <1>8, <2>2
  <2> QED
    BY <1>11, <2>3, FailsEnd
<1>12. \/ End(FALSE) /\ UNCHANGED copies
       \/ copies' = (copies \ have) \cup ((have \ gone) \cup add) /\ Goto("clear")
       \/ \E fewer \in SUBSET gone : \E more \in SUBSET add : copies' = (copies \ fewer) \cup more /\ End(FALSE)
  BY <1>0 DEF ScaleTo, have, gone, free, lack, N, Lowest
<1> QED
  BY <1>9, <1>10, <1>11, <1>12

-----------------------------------------------------------------------------
LEMMA RolloutInvHolds == RolloutSpec => []RolloutInv
<1>1. RolloutInit => RolloutInv
  <2> SUFFICES ASSUME RolloutInit PROVE RolloutInv
    OBVIOUS
  <2>1. checkout = 0 /\ copies = {} /\ cmd = NoCmd /\ answer = NoAnswer
    BY DEF RolloutInit
  <2>2. images \in [Services -> Nat] /\ registry \in [Services -> Nat]
    BY DEF RolloutInit
  <2>3. scaling \in [{"web"} -> Nat] /\ {"web"} \in SUBSET (Services \cup {"web"})
    BY DEF RolloutInit
  <2>4. DataTypes
    BY <2>1, <2>2, <2>3 DEF DataTypes, Counting
  <2>5. answer.ok = FALSE
    BY <2>1 DEF NoAnswer
  <2>6. CmdTypes /\ CmdGoes
    BY <2>1, <2>5, NoCmdType DEF CmdTypes, CmdGoes
  <2> QED
    BY <2>4, <2>5, <2>6 DEF RolloutInv, RolloutDone
<1>2. RolloutInv /\ [RolloutNext]_rolloutVars => RolloutInv'
  BY StepQuiet, StepWorld, StepDeploy, StepRoll, StepOther, StepScale DEF RolloutNext, Starts, Deploy, Rolls, OtherSteps
<1> QED
  BY <1>1, <1>2, PTL DEF RolloutSpec

\* A deploy that reported success has the services of its compose file and no
\* others, at their counts, on its images, routed; a restart its services whole; a
\* stop none left; a scale the number on record; a destroy nothing: whatever
\* commands that failed or were killed left behind.
THEOREM CommandsDoWhatTheyReport == RolloutSpec => []OkMeansDone
<1>1. RolloutInv => OkMeansDone
  <2> SUFFICES ASSUME RolloutInv PROVE OkMeansDone
    OBVIOUS
  <2>t. DataTypes /\ RolloutDone
    BY DEF RolloutInv
  <2>1. \A s : Cardinality(ContainersOf(s)) = Cardinality(Used(s)) /\ Addresses(ContainersOf(s)) = AddressesOf(s)
    BY <2>t, UsedCount
  <2>2. answer.ok => checkout \in DOMAIN Projects
    BY DEF RolloutInv, CmdTypes, DataTypes
  <2>3. answer.ok => P.routed \in RangeOf(P.order) \cup {"none"}
    BY <2>2, RolloutAssumption DEF P
  <2>4. ASSUME NEW s, Rolled(s), CountOf(s) > 0 PROVE \E c \in copies : c.svc = s
    <3>1. Used(s) # {}
      BY <2>4, FS_EmptySet DEF Rolled
    <3> QED
      BY <3>1 DEF Used, ContainersOf
  <2>5. answer.ok /\ answer.kind = "deploy" =>
          /\ {c.svc : c \in copies} = RangeOf(P.order)
          /\ \A s \in RangeOf(P.order) : Cardinality(ContainersOf(s)) = CountOf(s) /\ \A c \in ContainersOf(s) : c.img = images[s]
          /\ P.routed # "none" => route = Addresses(ContainersOf(P.routed))
          /\ P.routed = "none" => route = {}
          /\ P.release => box = "none"
          /\ workers # "running"
    <3> SUFFICES ASSUME answer.ok, answer.kind = "deploy" PROVE
          /\ {c.svc : c \in copies} = RangeOf(P.order)
          /\ \A s \in RangeOf(P.order) : Cardinality(ContainersOf(s)) = CountOf(s) /\ \A c \in ContainersOf(s) : c.img = images[s]
          /\ P.routed # "none" => route = Addresses(ContainersOf(P.routed))
          /\ P.routed = "none" => route = {}
          /\ P.release => box = "none"
          /\ workers # "running"
      OBVIOUS
    <3>1. DeployDone
      BY <2>t DEF RolloutDone
    <3>2. {c.svc : c \in copies} = RangeOf(P.order)
      BY <2>4, <3>1 DEF DeployDone
    <3>3. \A s \in RangeOf(P.order) : Cardinality(ContainersOf(s)) = CountOf(s) /\ \A c \in ContainersOf(s) : c.img = images[s]
      BY <2>1, <3>1 DEF DeployDone, Rolled
    <3>4. P.routed # "none" => route = Addresses(ContainersOf(P.routed))
      BY <2>1, <2>3, <3>1 DEF DeployDone, Rolled
    <3> QED
      BY <3>1, <3>2, <3>3, <3>4 DEF DeployDone
  <2>6. answer.ok /\ answer.kind = "restart" =>
          /\ \A s \in RangeOf(P.order) : answer.svc \in {"all", s} => Cardinality(ContainersOf(s)) = CountOf(s)
          /\ answer.svc \in {"all", P.routed} => (P.routed # "none" => route = Addresses(ContainersOf(P.routed)))
    BY <2>1, <2>3, <2>t DEF RolloutDone, RestartDone
  <2>7. answer.ok /\ answer.kind = "stop" => StopDone
    BY <2>t DEF RolloutDone
  <2>8. answer.ok /\ answer.kind = "scale" => Cardinality(ContainersOf(answer.svc)) = CountOf(answer.svc) /\ CountOf(answer.svc) = answer.want
    BY <2>1, <2>t DEF RolloutDone, ScaleDone
  <2>9. answer.ok /\ answer.kind = "destroy" => copies = {}
    BY <2>t DEF RolloutDone
  <2> QED
    BY <2>5, <2>6, <2>7, <2>8, <2>9 DEF OkMeansDone, StopDone
<1> QED
  BY <1>1, RolloutInvHolds, PTL

\* The Procfile workers stop in one place only, when the new app has all its copies
\* and the router sends to them.
THEOREM SwitchesKeepServing == RolloutSpec => SwitchKeepsServing
<1> DEFINE KeptServing == workers = "running" /\ workers' # "running" =>
        /\ \A s \in RangeOf(P.order) : Cardinality(ContainersOf(s)) = CountOf(s)
        /\ P.routed # "none" => route = Addresses(ContainersOf(P.routed))
<1>1. RolloutInv /\ [RolloutNext]_rolloutVars => [KeptServing]_rolloutVars
  <2> SUFFICES ASSUME RolloutInv, RolloutNext, workers = "running", workers' # "running"
               PROVE  /\ \A s \in RangeOf(P.order) : Cardinality(ContainersOf(s)) = CountOf(s)
                      /\ P.routed # "none" => route = Addresses(ContainersOf(P.routed))
    BY DEF rolloutVars
  <2>t. DataTypes /\ CmdTypes /\ CmdGoes
    BY DEF RolloutInv
  <2>1. \A s : Cardinality(ContainersOf(s)) = Cardinality(Used(s)) /\ Addresses(ContainersOf(s)) = AddressesOf(s)
    BY <2>t, UsedCount
  <2>2. ~Starts
    BY DEF Starts, BeginOperation, BeginContainerDeploy, BeginUpdate, StartCommand
  <2>3. ~(LoadApp \/ Rolls \/ OtherSteps)
    BY DEF LoadApp, Rolls, OtherSteps, WaitForDependencies, RollService, RolledOut, StopUnroutes, RemoveContainers, RemoveNetwork,
           ScaleTo, ClearScaling, WriteScaling, UpdateService, disk
  <2>4. ~(World \/ Kill)
    BY DEF World, ReleaseExits, TagMoves, Sicken, Kill, disk
  <2>5. Discard \/ ParkWorkers
    <3>1. Deploy
      BY <2>2, <2>3, <2>4 DEF RolloutNext
    <3> QED
      BY <3>1 DEF Deploy, PrepareCounts, PrepareImages, RemoveStale, NoRelease, StartRelease, RunToExit, LoadWorkers, RemoveDropped,
           RollOutApp, WaitStopped, ForgetScaling, disk
  <2>6. cmd.kind = "deploy" /\ cmd.at \in {"park", "discard"}
    BY <2>5 DEF Discard, ParkWorkers, In
  <2>7. \A s \in RangeOf(P.order) : Rolled(s)
    BY <2>6, <2>t DEF CmdGoes, DeployGoes, AfterRolls
  <2>8. P.routed \in RangeOf(P.order) \cup {"none"}
    BY <2>6, OrderOf
  <2> QED
    BY <2>1, <2>7, <2>8 DEF Rolled
<1> QED
  BY <1>1, RolloutInvHolds, PTL DEF RolloutSpec, SwitchKeepsServing
=============================================================================
