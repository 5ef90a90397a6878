--------------------------- MODULE RouterHelperProofs ---------------------------
(***************************************************************************)
(* The helper, for any apps, either router and any number of requests: a   *)
(* confirmed route stays, whatever fails; until a restore fails or a kill  *)
(* hits a request half-way, no refused config is left behind, and the      *)
(* helper implements the route table.                                      *)
(***************************************************************************)
EXTENDS RouterHelper, TLAPS

(* How many requests have been answered. *)
Answered == Len(asks) - Len(queue)

(* The backlog holds the requests sent after those, in the order sent, and *)
(* the helper is at work only for the first of them.                       *)
QueueOK ==
  /\ Len(queue) <= Len(asks)
  /\ \A i \in 1..Len(queue) : queue[i] = Answered + i
  /\ \A r \in Requests : r > Len(asks) => reply[r] = "none"
  /\ \A r \in Requests : r <= Len(asks) /\ r > Answered => reply[r] = "open"
  /\ \A r \in Requests : r <= Answered => reply[r] \in {"ok", "failed"}
  /\ pc # "idle" => queue # <<>>

(* Every file there is was written by a request that was sent. *)
SentOK ==
  /\ \A f \in Files : before[f] <= Len(asks)
  /\ \A a \in Apps, f \in Files : disk[a][f] <= Len(asks) /\ live[a][f] <= Len(asks)

BaseInv == TypeOK /\ QueueOK /\ SentOK

-----------------------------------------------------------------------------
(* The invariant that holds whatever fails. *)

(* The request being served was sent, and has an app and no answer. *)
LEMMA ServedApp ==
  ASSUME BaseInv, queue # <<>>
  PROVE  /\ Served = Answered + 1 /\ Served \in Requests
         /\ Served \in 1..Len(asks) /\ Answered \in Nat
         /\ asks[Served] \in Ask /\ App \in Apps
         /\ reply[Served] = "open"
<1>1. /\ asks \in Seq(Ask) /\ queue \in Seq(Requests) /\ Len(asks) <= MaxRequests
      /\ Len(queue) <= Len(asks) /\ \A i \in 1..Len(queue) : queue[i] = Answered + i
  BY DEF BaseInv, TypeOK, QueueOK
<1>2. Len(queue) \in Nat /\ Len(queue) >= 1 /\ Len(asks) \in Nat /\ Served = queue[1]
  BY <1>1 DEF Served
<1>3. Served = Answered + 1 /\ Answered \in Nat
  BY <1>1, <1>2 DEF Answered
<1>4. Served \in 1..Len(asks)
  BY <1>1, <1>2, <1>3 DEF Answered
<1>5. Served \in Requests
  BY <1>1, <1>2, <1>4, MaxRequestsAssumption DEF Requests
<1>6. asks[Served] \in Ask
  BY <1>1, <1>4
<1>7. reply[Served] = "open"
  BY <1>3, <1>4, <1>5 DEF BaseInv, QueueOK, Answered
<1> QED
  BY <1>3, <1>4, <1>5, <1>6, <1>7 DEF App, Ask

(* The plan of a request gives every file a content. *)
LEMMA PlanType ==
  ASSUME NEW r \in Requests
  PROVE  Plan(r) \in [Files -> 0..MaxRequests] /\ \A f \in Files : Plan(r)[f] \in {0, r}
BY MaxRequestsAssumption DEF Plan, Requests

(* The first file and the site are files of either router. *)
LEMMA FileFacts ==
  ASSUME TypeOK
  PROVE  /\ FileCount \in {1, 3}
         /\ 1 \in Files /\ Site \in Files
         /\ Files \subseteq Nat
         /\ \A f \in Files : f < FileCount => f + 1 \in Files
BY RoutersAssumption DEF TypeOK, Files, FileCount, Site

LEMMA InitBase == Init => BaseInv
<1> SUFFICES ASSUME Init PROVE BaseInv
  OBVIOUS
<1>1. TypeOK
  BY RoutersAssumption, MaxRequestsAssumption
  DEF Init, TypeOK, NoFiles, Files, FileCount, Requests
<1>2. QueueOK
  BY MaxRequestsAssumption DEF Init, QueueOK, Answered, Requests
<1>3. SentOK
  BY FileFacts, <1>1 DEF Init, SentOK, NoFiles
<1> QED BY <1>1, <1>2, <1>3 DEF BaseInv

(* A client's request goes to the end of the backlog and touches no file;  *)
(* what was sent before it stays as it is.                                 *)
LEMMA SendBase ==
  ASSUME BaseInv, NEW ask \in Ask, Send(ask)
  PROVE  /\ BaseInv'
         /\ Len(asks) \in Nat /\ Len(asks') = Len(asks) + 1 /\ Len(asks') \in Requests
         /\ asks'[Len(asks')] = ask /\ \A r \in 1..Len(asks) : asks'[r] = asks[r]
         /\ reply' = [reply EXCEPT ![Len(asks')] = "open"]
         /\ queue # <<>> => Served' = Served /\ App' = App
         /\ UNCHANGED <<router, pc, next, before, disk, live, whole>> /\ Files' = Files
<1>1. /\ asks \in Seq(Ask) /\ queue \in Seq(Requests)
      /\ Len(asks) \in Nat /\ Len(asks) < MaxRequests
      /\ asks' = Append(asks, ask) /\ queue' = Append(queue, Len(asks'))
      /\ reply' = [reply EXCEPT ![Len(asks')] = "open"]
      /\ UNCHANGED <<router, pc, next, before, disk, live, whole>> /\ Files' = Files
  BY DEF BaseInv, TypeOK, Send, Sent, fileVars, Files, FileCount
<1>2. Len(asks') = Len(asks) + 1 /\ asks' \in Seq(Ask) /\ Len(asks') \in Requests
  BY <1>1, MaxRequestsAssumption DEF Requests
<1>3. asks'[Len(asks')] = ask /\ \A r \in 1..Len(asks) : asks'[r] = asks[r]
  BY <1>1
<1>4. /\ queue' \in Seq(Requests) /\ Len(queue') = Len(queue) + 1 /\ Len(queue) \in Nat /\ queue' # <<>>
      /\ queue'[Len(queue')] = Len(asks') /\ \A i \in 1..Len(queue) : queue'[i] = queue[i]
  BY <1>1, <1>2
<1>5. TypeOK'
  BY <1>1, <1>2, <1>4, MaxRequestsAssumption DEF BaseInv, TypeOK
<1>6. Answered' = Answered /\ Answered \in Nat
  BY <1>1, <1>2, <1>4 DEF Answered, BaseInv, QueueOK
<1>7. QueueOK'
  <2>1. Len(queue') <= Len(asks')
    BY <1>1, <1>2, <1>4 DEF BaseInv, QueueOK
  <2>2. \A i \in 1..Len(queue') : queue'[i] = Answered + i
    <3> SUFFICES ASSUME NEW i \in 1..Len(queue') PROVE queue'[i] = Answered + i
      OBVIOUS
    <3>1. CASE i \in 1..Len(queue)
      BY <1>4, <3>1 DEF BaseInv, QueueOK
    <3>2. CASE i = Len(queue')
      BY <1>1, <1>2, <1>4, <3>2 DEF Answered
    <3> QED BY <1>4, <3>1, <3>2
  <2>3. \A r \in Requests : reply'[r] = IF r = Len(asks') THEN "open" ELSE reply[r]
    BY <1>1, <1>2 DEF BaseInv, TypeOK
  <2>4. \A r \in Requests : r \in Nat
    BY DEF Requests
  <2>5. \A r \in Requests : r > Len(asks') => reply'[r] = "none"
    BY <1>1, <1>2, <2>3, <2>4 DEF BaseInv, QueueOK
  <2>6. \A r \in Requests : r <= Len(asks') /\ r > Answered => reply'[r] = "open"
    BY <1>1, <1>2, <2>3, <2>4 DEF BaseInv, QueueOK
  <2>7. \A r \in Requests : r <= Answered => reply'[r] \in {"ok", "failed"}
    <3>1. \A r \in Requests : r <= Answered => r # Len(asks')
      BY <1>1, <1>2, <1>4, <2>4 DEF Answered
    <3> QED BY <2>3, <3>1 DEF BaseInv, QueueOK
  <2> QED BY <1>4, <1>6, <2>1, <2>2, <2>5, <2>6, <2>7 DEF QueueOK
<1>8. SentOK'
  <2>1. \A x \in 0..MaxRequests : x <= Len(asks) => x <= Len(asks')
    BY <1>1, <1>2, MaxRequestsAssumption
  <2>2. /\ \A f \in Files : before[f] \in 0..MaxRequests
        /\ \A a \in Apps, f \in Files : disk[a][f] \in 0..MaxRequests /\ live[a][f] \in 0..MaxRequests
    BY DEF BaseInv, TypeOK
  <2> QED BY <1>1, <2>1, <2>2 DEF BaseInv, SentOK
<1>9. queue # <<>> => Served' = Served /\ App' = App
  <2>1. queue # <<>> => Served' = Served
    BY <1>1, <1>4 DEF Served
  <2> QED BY <1>3, <2>1, ServedApp DEF App
<1> QED BY <1>1, <1>2, <1>3, <1>5, <1>7, <1>8, <1>9 DEF BaseInv

(* A step of the helper that goes on with the same request. *)
LEMMA GotoBase ==
  ASSUME BaseInv, queue # <<>>, NEW s \in {"install", "check", "reload", "restore", "answer"}, Goto(s)
  PROVE  /\ QueueOK' /\ pc' = s /\ UNCHANGED <<router, asks, queue, reply>>
         /\ Served' = Served /\ App' = App /\ Files' = Files /\ FileCount' = FileCount
BY DEF BaseInv, QueueOK, Answered, Goto, App, Served, Files, FileCount

(* An answer takes the request off the backlog. *)
LEMMA ReplyBase ==
  ASSUME BaseInv, queue # <<>>, NEW result \in {"ok", "failed"}, Reply(result)
  PROVE  /\ QueueOK'
         /\ queue' \in Seq(Requests)
         /\ reply' = [reply EXCEPT ![Served] = result]
         /\ reply' \in [Requests -> {"none", "open", "ok", "failed"}]
         /\ pc' = "idle"
         /\ UNCHANGED <<router, asks>> /\ Files' = Files
<1>1. /\ queue \in Seq(Requests) /\ queue' = Tail(queue) /\ asks' = asks
      /\ pc' = "idle" /\ router' = router /\ Files' = Files
      /\ reply' = [reply EXCEPT ![Served] = result]
  BY DEF BaseInv, TypeOK, Reply, Files, FileCount
<1>2. /\ Len(queue) \in Nat /\ Len(queue) >= 1
      /\ queue' \in Seq(Requests) /\ Len(queue') = Len(queue) - 1
      /\ \A i \in 1..Len(queue') : i + 1 \in 1..Len(queue) /\ queue'[i] = queue[i + 1]
  BY <1>1
<1>3. /\ Served = Answered + 1 /\ Served \in Requests /\ Served <= Len(asks) /\ Answered \in Nat
      /\ Len(asks) \in Nat
  BY ServedApp
<1>4. Answered' = Answered + 1
  BY <1>1, <1>2, <1>3 DEF Answered
<1>5. \A r \in Requests : r \in Nat /\ reply'[r] = IF r = Served THEN result ELSE reply[r]
  BY <1>1 DEF Requests, BaseInv, TypeOK
<1>6. QueueOK'
  <2>1. Len(queue') <= Len(asks')
    BY <1>1, <1>2, <1>3 DEF BaseInv, QueueOK
  <2>2. \A i \in 1..Len(queue') : queue'[i] = Answered' + i
    BY <1>2, <1>3, <1>4 DEF BaseInv, QueueOK
  <2>3. \A r \in Requests : r > Len(asks') => reply'[r] = "none"
    BY <1>1, <1>3, <1>5 DEF BaseInv, QueueOK
  <2>4. \A r \in Requests : r <= Len(asks') /\ r > Answered' => reply'[r] = "open"
    BY <1>1, <1>3, <1>4, <1>5 DEF BaseInv, QueueOK
  <2>5. \A r \in Requests : r <= Answered' => reply'[r] \in {"ok", "failed"}
    BY <1>1, <1>3, <1>4, <1>5 DEF BaseInv, QueueOK
  <2> QED BY <1>1, <2>1, <2>2, <2>3, <2>4, <2>5 DEF QueueOK
<1>7. reply' \in [Requests -> {"none", "open", "ok", "failed"}]
  BY <1>1, <1>3 DEF BaseInv, TypeOK
<1> QED BY <1>1, <1>2, <1>6, <1>7

(* Every step of the helper keeps the backlog and the types, whatever      *)
(* fails.                                                                  *)
LEMMA HelperBase ==
  ASSUME BaseInv, HelperStep
  PROVE  BaseInv'
<1>0. TypeOK /\ QueueOK /\ SentOK
  BY DEF BaseInv
<1>1. CASE Refuse \/ RemoveNothing \/ Answer
  <2>1. PICK result \in {"ok", "failed"} : Reply(result)
    BY <1>1 DEF Refuse, RemoveNothing, Answer
  <2>2. queue # <<>> /\ UNCHANGED <<next, before, disk, live, whole>>
    BY <1>0, <1>1 DEF Refuse, RemoveNothing, Answer, Idle, fileVars, QueueOK
  <2>3. TypeOK' /\ QueueOK' /\ SentOK'
    BY <1>0, <2>1, <2>2, ReplyBase DEF TypeOK, SentOK
  <2> QED BY <2>3 DEF BaseInv
<1>2. CASE Begin
  <2>1. queue # <<>> /\ Goto("install") /\ before' = disk[App] /\ next' = 1 /\ UNCHANGED <<disk, live, whole>>
    BY <1>2 DEF Begin, Idle
  <2>2. App \in Apps /\ 1 \in Files
    BY <1>0, <2>1, ServedApp, FileFacts
  <2>3. QueueOK' /\ pc' = "install" /\ UNCHANGED <<router, asks, queue, reply>> /\ Files' = Files
    BY <2>1, GotoBase
  <2>4. TypeOK' /\ SentOK'
    BY <1>0, <2>1, <2>2, <2>3 DEF TypeOK, SentOK
  <2> QED BY <2>3, <2>4 DEF BaseInv
<1>3. CASE InstallFile
  <2>1. /\ queue # <<>> /\ UNCHANGED <<before, live, whole>>
        /\ disk' = [disk EXCEPT ![App][next] = Plan(Served)[next]]
    BY <1>0, <1>3 DEF InstallFile, QueueOK
  <2>2. \E s \in {"install", "check", "reload"} : Goto(s)
    BY <1>3 DEF InstallFile
  <2>3. next' = 1 \/ (next < FileCount /\ next' = next + 1)
    BY <1>3 DEF InstallFile
  <2>4. /\ QueueOK' /\ pc' \in {"install", "check", "reload"} /\ UNCHANGED <<router, asks, queue, reply>>
        /\ Files' = Files
    BY <2>1, <2>2, GotoBase
  <2>5. App \in Apps /\ Served \in Requests /\ Served <= Len(asks) /\ Len(asks) \in Nat
    BY <2>1, ServedApp
  <2>6. Plan(Served)[next] \in 0..MaxRequests /\ Plan(Served)[next] <= Len(asks) /\ next \in Files
    <3>1. next \in Files
      BY <1>0 DEF TypeOK
    <3>2. Plan(Served)[next] \in 0..MaxRequests /\ Plan(Served)[next] \in {0, Served}
      BY <2>5, <3>1, PlanType
    <3> QED BY <2>5, <3>1, <3>2 DEF Requests
  <2>7. next' \in Files
    BY <1>0, <2>3, <2>6, FileFacts
  <2>8. disk' \in [Apps -> [Files -> 0..MaxRequests]]
    BY <1>0, <2>1, <2>5, <2>6 DEF TypeOK
  <2>9. \A a \in Apps, f \in Files : disk'[a][f] \in {disk[a][f], Plan(Served)[next]}
    BY <1>0, <2>1, <2>5, <2>6 DEF TypeOK
  <2>10. SentOK'
    BY <1>0, <2>1, <2>4, <2>6, <2>9 DEF SentOK
  <2>11. TypeOK'
    BY <1>0, <2>1, <2>4, <2>7, <2>8 DEF TypeOK
  <2> QED BY <2>4, <2>10, <2>11 DEF BaseInv
<1>4. CASE InstallFails \/ CheckFails \/ ReloadFails \/ Check \/ Reload
  <2>1. /\ queue # <<>> /\ UNCHANGED <<before, disk, whole>> /\ live' \in {live, disk} /\ next' \in {next, 1}
        /\ \E s \in {"restore", "reload", "answer"} : Goto(s)
    BY <1>0, <1>4 DEF InstallFails, CheckFails, ReloadFails, Rollback, Check, Reload, QueueOK, fileVars
  <2>2. /\ QueueOK' /\ pc' \in {"restore", "reload", "answer"} /\ UNCHANGED <<router, asks, queue, reply>>
        /\ Files' = Files
    BY <2>1, GotoBase
  <2>3. TypeOK' /\ SentOK'
    BY <1>0, <2>1, <2>2, FileFacts DEF TypeOK, SentOK
  <2> QED BY <2>2, <2>3 DEF BaseInv
<1>5. ASSUME NEW ok \in BOOLEAN, RestoreFile(ok) PROVE BaseInv'
  <2>1. /\ queue # <<>> /\ UNCHANGED <<before, live>>
        /\ disk' \in {disk, [disk EXCEPT ![App][next] = before[next]]}
    BY <1>0, <1>5 DEF RestoreFile, QueueOK
  <2>w. whole' \in BOOLEAN
    BY <1>0, <1>5, Zenon DEF RestoreFile, TypeOK
  <2>2. App \in Apps /\ next \in Files /\ before[next] \in 0..MaxRequests
    BY <1>0, <2>1, ServedApp DEF TypeOK
  <2>3. /\ disk' \in [Apps -> [Files -> 0..MaxRequests]]
        /\ \A a \in Apps, f \in Files : disk'[a][f] \in {disk[a][f], before[next]}
    <3>1. CASE disk' = disk
      BY <1>0, <3>1 DEF TypeOK
    <3>2. CASE disk' = [disk EXCEPT ![App][next] = before[next]]
      BY <1>0, <2>2, <3>2 DEF TypeOK
    <3> QED BY <2>1, <3>1, <3>2
  <2>5. \A a \in Apps, f \in Files : disk'[a][f] <= Len(asks)
    BY <1>0, <2>2, <2>3 DEF SentOK
  <2>6. CASE next < FileCount
    <3>1. next' = next + 1 /\ Goto("restore")
      BY <1>5, <2>6 DEF RestoreFile
    <3>2. QueueOK' /\ pc' = "restore" /\ UNCHANGED <<router, asks, queue, reply>> /\ Files' = Files
      BY <2>1, <3>1, GotoBase
    <3>3. next' \in Files
      BY <1>0, <2>2, <2>6, <3>1, FileFacts
    <3>4. TypeOK'
      BY <1>0, <2>1, <2>w, <2>3, <3>2, <3>3 DEF TypeOK
    <3>5. SentOK'
      BY <1>0, <2>1, <2>5, <3>2 DEF SentOK
    <3> QED BY <3>2, <3>4, <3>5 DEF BaseInv
  <2>7. CASE ~(next < FileCount)
    <3>1. next' = 1 /\ Reply("failed")
      BY <1>5, <2>7 DEF RestoreFile
    <3>2. /\ QueueOK' /\ pc' = "idle" /\ Files' = Files /\ UNCHANGED <<router, asks>>
          /\ queue' \in Seq(Requests) /\ reply' \in [Requests -> {"none", "open", "ok", "failed"}]
      BY <2>1, <3>1, ReplyBase
    <3>3. TypeOK'
      BY <1>0, <2>1, <2>w, <2>3, <3>1, <3>2, FileFacts DEF TypeOK
    <3>4. SentOK'
      BY <1>0, <2>1, <2>5, <3>2 DEF SentOK
    <3> QED BY <3>2, <3>3, <3>4 DEF BaseInv
  <2> QED BY <2>6, <2>7
<1> QED BY <1>1, <1>2, <1>3, <1>4, <1>5 DEF HelperStep

LEMMA StepBase == BaseInv /\ [Next]_vars => BaseInv'
<1> SUFFICES ASSUME BaseInv, [Next]_vars PROVE BaseInv'
  OBVIOUS
<1>1. CASE UNCHANGED vars
  BY <1>1 DEF BaseInv, TypeOK, QueueOK, SentOK, Answered, Files, FileCount, vars
<1>2. CASE \E ask \in Ask : Send(ask)
  BY <1>2, SendBase
<1>3. CASE HelperStep
  BY <1>3, HelperBase
<1>4. CASE Crash
  <2>1. /\ pc' = "idle" /\ queue' = <<>> /\ UNCHANGED <<router, asks, next, before, disk, live>>
        /\ reply' = [r \in Requests |-> IF reply[r] = "open" THEN "failed" ELSE reply[r]]
    BY <1>4 DEF Crash
  <2>w. whole' \in BOOLEAN
    BY <1>4, Zenon DEF Crash, BaseInv, TypeOK
  <2>2. asks \in Seq(Ask) /\ Len(asks) \in Nat /\ Answered' = Len(asks) /\ Files' = Files /\ queue' \in Seq(Requests)
        /\ Len(queue') = 0
    BY <2>1 DEF BaseInv, TypeOK, Answered, Files, FileCount
  <2>3. TypeOK' /\ SentOK'
    BY <2>1, <2>w, <2>2 DEF BaseInv, TypeOK, SentOK
  <2>4. QueueOK'
    <3>1. \A r \in Requests : r \in Nat /\ reply'[r] = IF reply[r] = "open" THEN "failed" ELSE reply[r]
      BY <2>1 DEF Requests
    <3>2. \A r \in Requests : r > Len(asks) => reply'[r] = "none"
      BY <3>1 DEF BaseInv, QueueOK
    <3>3. Answered \in Nat
      BY DEF BaseInv, TypeOK, QueueOK, Answered
    <3>4. \A r \in Requests : r <= Len(asks) => r <= Answered \/ r > Answered
      BY <3>1, <3>3
    <3>5. \A r \in Requests : r <= Len(asks) => reply'[r] \in {"ok", "failed"}
      BY <3>1, <3>4 DEF BaseInv, QueueOK
    <3>6. \A r \in Requests : ~(r <= Len(asks) /\ r > Len(asks))
      BY <2>2, <3>1
    <3> QED BY <2>1, <2>2, <3>2, <3>5, <3>6 DEF QueueOK
  <2> QED BY <2>3, <2>4 DEF BaseInv
<1> QED BY <1>1, <1>2, <1>3, <1>4 DEF Next

(* The state of the helper is well-typed for any apps, either router, any  *)
(* number of requests and any failures: among others, the file it writes   *)
(* next is one the router has.                                             *)
THEOREM TypeCorrect == Spec => []TypeOK
<1>1. BaseInv => TypeOK
  BY DEF BaseInv
<1> QED BY <1>1, InitBase, StepBase, PTL DEF Spec

-----------------------------------------------------------------------------
(* Confirmed routes stay, whatever fails. *)

(* The served request's files are its plan as far as they are written, and *)
(* the router has them before the answer.                                  *)
InstalledOK ==
  /\ pc = "install" => \A f \in Files : f < next => disk[App][f] = Plan(Served)[f]
  /\ pc \in {"check", "reload", "answer"} => disk[App] = Plan(Served)
  /\ pc = "answer" => live[App] = Plan(Served)

Confirmed(r) == reply[r] = "ok" /\ Newest(r) /\ ~IsRemoval(r)

(* The files of a confirmed route, on disk and loaded, are its plan: a     *)
(* later reload, for another app, loads them again.                        *)
ConfirmedOK ==
  \A r \in Requests : Confirmed(r) => disk[asks[r].app] = Plan(r) /\ live[asks[r].app] = Plan(r)

RouteInv == BaseInv /\ InstalledOK /\ ConfirmedOK

(* A request answered Ok was sent, and before the one being served, so     *)
(* that one is of another app if no later request is of the same.          *)
LEMMA ConfirmedApart ==
  ASSUME BaseInv, NEW r \in Requests, reply[r] = "ok"
  PROVE  /\ r \in 1..Len(asks) /\ asks[r] \in Ask /\ asks[r].app \in Apps
         /\ queue # <<>> => r # Served /\ (Newest(r) => asks[r].app # App)
<1>1. r \in Nat /\ r >= 1 /\ Len(asks) \in Nat /\ Answered \in Nat /\ Answered <= Len(asks)
  BY DEF BaseInv, TypeOK, QueueOK, Answered, Requests
<1>2. r <= Answered
  BY <1>1 DEF BaseInv, QueueOK
<1>3. r \in 1..Len(asks)
  BY <1>1, <1>2
<1>4. asks[r] \in Ask
  BY <1>3 DEF BaseInv, TypeOK
<1>5. queue # <<>> => Served \in (r + 1)..Len(asks)
  BY <1>1, <1>2, ServedApp
<1>6. queue # <<>> => r # Served
  BY <1>1, <1>5
<1> QED BY <1>3, <1>4, <1>5, <1>6 DEF Ask, Newest, App

(* Plans depend on the router and on the request. *)
LEMMA PlanStays ==
  ASSUME NEW r, router' = router, asks'[r] = asks[r]
  PROVE  Plan(r)' = Plan(r) /\ IsRemoval(r)' = IsRemoval(r)
BY DEF Plan, IsRemoval, Files, FileCount, Site

(* A step that answers no request Ok, and touches no files but those of    *)
(* the app being served, keeps confirmed routes.                           *)
LEMMA OthersStay ==
  ASSUME RouteInv, UNCHANGED <<router, asks>>,
         \A r \in Requests : reply'[r] = "ok" => reply[r] = "ok",
         \A a \in Apps : (queue = <<>> \/ a # App) => disk'[a] = disk[a],
         live' \in {live, disk}
  PROVE  ConfirmedOK'
<1> SUFFICES ASSUME NEW r \in Requests, Confirmed(r)'
             PROVE  disk'[asks[r].app] = Plan(r) /\ live'[asks[r].app] = Plan(r)
  BY PlanStays DEF ConfirmedOK
<1>1. Confirmed(r)
  BY PlanStays DEF Confirmed, Newest
<1>2. disk[asks[r].app] = Plan(r) /\ live[asks[r].app] = Plan(r)
  BY <1>1 DEF RouteInv, ConfirmedOK
<1>3. asks[r].app \in Apps /\ (queue # <<>> => asks[r].app # App)
  BY <1>1, ConfirmedApart DEF Confirmed, RouteInv
<1> QED BY <1>2, <1>3

LEMMA StepRoute == RouteInv /\ [Next]_vars => RouteInv'
<1> SUFFICES ASSUME RouteInv, [Next]_vars PROVE RouteInv'
  OBVIOUS
<1>0. BaseInv /\ InstalledOK /\ ConfirmedOK /\ TypeOK /\ BaseInv'
  BY StepBase DEF RouteInv, BaseInv
<1>1. CASE UNCHANGED vars
  <2>1. InstalledOK'
    BY <1>0, <1>1 DEF vars, InstalledOK, App, Served, Plan, IsRemoval, Files, FileCount, Site
  <2>2. ConfirmedOK'
    BY <1>1, OthersStay DEF vars
  <2> QED BY <1>0, <2>1, <2>2 DEF RouteInv
<1>2. ASSUME NEW ask \in Ask, Send(ask) PROVE RouteInv'
  <2>1. /\ Len(asks) \in Nat /\ Len(asks') = Len(asks) + 1 /\ \A r \in 1..Len(asks) : asks'[r] = asks[r]
        /\ reply' = [reply EXCEPT ![Len(asks')] = "open"]
        /\ queue # <<>> => Served' = Served /\ App' = App
        /\ UNCHANGED <<router, pc, next, before, disk, live>> /\ Files' = Files
    BY <1>0, <1>2, SendBase
  <2>2. InstalledOK'
    <3>1. CASE pc = "idle"
      BY <2>1, <3>1 DEF InstalledOK
    <3>2. CASE pc # "idle"
      <4>1. PICK q : q = Served
        OBVIOUS
      <4>2. queue # <<>> /\ q \in 1..Len(asks) /\ Served' = q /\ App' = App
        BY <1>0, <2>1, <3>2, <4>1, ServedApp DEF BaseInv, QueueOK
      <4>3. Plan(q)' = Plan(q)
        BY <2>1, <4>2, PlanStays
      <4> QED BY <1>0, <2>1, <4>1, <4>2, <4>3 DEF InstalledOK
    <3> QED BY <3>1, <3>2
  <2>3. ConfirmedOK'
    <3> SUFFICES ASSUME NEW r \in Requests, Confirmed(r)'
                 PROVE  disk'[asks'[r].app] = Plan(r)' /\ live'[asks'[r].app] = Plan(r)'
      BY DEF ConfirmedOK
    <3>1. reply[r] = "ok"
      BY <1>0, <2>1 DEF Confirmed, TypeOK
    <3>2. r \in 1..Len(asks) /\ asks'[r] = asks[r]
      BY <1>0, <2>1, <3>1, ConfirmedApart
    <3>3. Plan(r)' = Plan(r) /\ IsRemoval(r)' = IsRemoval(r)
      BY <2>1, <3>2, PlanStays
    <3>4. Newest(r)
      <4>1. \A q \in (r + 1)..Len(asks) : q \in (r + 1)..Len(asks') /\ q \in 1..Len(asks)
        BY <2>1, <3>2
      <4> QED BY <2>1, <3>2, <4>1 DEF Confirmed, Newest
    <3>5. Confirmed(r)
      BY <3>1, <3>3, <3>4 DEF Confirmed
    <3> QED BY <1>0, <2>1, <3>2, <3>3, <3>5 DEF ConfirmedOK
  <2> QED BY <1>0, <2>2, <2>3 DEF RouteInv
<1>3. CASE Refuse
  <2>1. queue # <<>> /\ Reply("failed") /\ UNCHANGED <<disk, live>>
    BY <1>3 DEF Refuse, Idle, fileVars
  <2>2. pc' = "idle" /\ UNCHANGED <<router, asks>> /\ reply' = [reply EXCEPT ![Served] = "failed"]
    BY <1>0, <2>1, ReplyBase
  <2>3. \A r \in Requests : reply'[r] = "ok" => reply[r] = "ok"
    BY <1>0, <2>2 DEF TypeOK
  <2> QED BY <1>0, <2>1, <2>2, <2>3, OthersStay DEF RouteInv, InstalledOK
<1>4. CASE RemoveNothing \/ Answer
  <2>1. /\ queue # <<>> /\ Reply("ok") /\ UNCHANGED <<disk, live>>
        /\ IsRemoval(Served) \/ pc = "answer"
    BY <1>0, <1>4 DEF RemoveNothing, Answer, Idle, fileVars, BaseInv, QueueOK
  <2>2. pc' = "idle" /\ UNCHANGED <<router, asks>> /\ reply' = [reply EXCEPT ![Served] = "ok"]
    BY <1>0, <2>1, ReplyBase
  <2>3. ConfirmedOK'
    <3> SUFFICES ASSUME NEW r \in Requests, Confirmed(r)'
                 PROVE  disk[asks[r].app] = Plan(r) /\ live[asks[r].app] = Plan(r)
      BY <2>1, <2>2, PlanStays DEF ConfirmedOK
    <3>1. CASE r = Served
      <4>1. pc = "answer"
        BY <2>1, <2>2, <3>1, PlanStays DEF Confirmed
      <4> QED BY <1>0, <3>1, <4>1 DEF InstalledOK, App
    <3>2. CASE r # Served
      <4>1. Confirmed(r)
        BY <1>0, <2>2, <3>2, PlanStays DEF Confirmed, Newest, TypeOK
      <4> QED BY <1>0, <4>1 DEF ConfirmedOK
    <3> QED BY <3>1, <3>2
  <2> QED BY <1>0, <2>2, <2>3 DEF RouteInv, InstalledOK
<1>5. CASE Begin
  <2>1. queue # <<>> /\ Goto("install") /\ next' = 1 /\ UNCHANGED <<disk, live>>
    BY <1>5 DEF Begin, Idle
  <2>2. pc' = "install" /\ UNCHANGED <<router, asks, queue, reply>> /\ Files' = Files
    BY <1>0, <2>1, GotoBase
  <2>3. \A f \in Files : ~(f < 1)
    BY DEF Files
  <2> QED BY <1>0, <2>1, <2>2, <2>3, OthersStay DEF RouteInv, InstalledOK
<1>6. CASE InstallFile
  <2>1. /\ queue # <<>> /\ pc = "install" /\ live' = live
        /\ disk' = [disk EXCEPT ![App][next] = Plan(Served)[next]]
        /\ \E s \in {"install", "check", "reload"} : Goto(s)
    BY <1>0, <1>6 DEF InstallFile, BaseInv, QueueOK
  <2>2. /\ pc' \in {"install", "check", "reload"} /\ UNCHANGED <<router, asks, queue, reply>>
        /\ Served' = Served /\ App' = App /\ Files' = Files
    BY <1>0, <2>1, GotoBase
  <2>3. App \in Apps /\ next \in Files /\ Files \subseteq Nat /\ Served \in Requests
    BY <1>0, <2>1, ServedApp, FileFacts DEF TypeOK
  <2>4. /\ \A a \in Apps : a # App => disk'[a] = disk[a]
        /\ \A f \in Files : disk'[App][f] = IF f = next THEN Plan(Served)[next] ELSE disk[App][f]
        /\ disk'[App] \in [Files -> 0..MaxRequests]
    BY <1>0, <2>1, <2>2, <2>3 DEF TypeOK, BaseInv
  <2>5. \A f \in Files : f < next + 1 => disk'[App][f] = Plan(Served)[f]
    <3>1. \A f \in Files : f < next + 1 => f = next \/ f < next
      BY <2>3
    <3> QED BY <1>0, <2>1, <2>4, <3>1 DEF InstalledOK
  <2>6. PICK q : q = Served
    OBVIOUS
  <2>7. Plan(q)' = Plan(q)
    BY <2>2, PlanStays
  <2>8. CASE next < FileCount
    <3>1. pc' = "install" /\ next' = next + 1
      BY <1>6, <2>8 DEF InstallFile, Goto
    <3>2. InstalledOK'
      BY <2>2, <2>5, <2>6, <2>7, <3>1 DEF InstalledOK
    <3> QED BY <1>0, <2>1, <2>2, <2>4, <3>2, OthersStay DEF RouteInv
  <2>9. CASE ~(next < FileCount)
    <3>1. pc' \in {"check", "reload"}
      BY <1>6, <2>9 DEF InstallFile, Goto
    <3>2. \A f \in Files : f < next + 1
      BY <1>0, <2>3, <2>9, FileFacts DEF Files
    <3>3. disk'[App] = Plan(Served)
      <4>1. Plan(Served) \in [Files -> 0..MaxRequests]
        BY <2>3, PlanType
      <4>2. \A f \in Files : disk'[App][f] = Plan(Served)[f]
        BY <2>5, <3>2
      <4> QED BY <2>4, <4>1, <4>2
    <3>4. InstalledOK'
      BY <2>2, <2>6, <2>7, <3>1, <3>3 DEF InstalledOK
    <3> QED BY <1>0, <2>1, <2>2, <2>4, <3>4, OthersStay DEF RouteInv
  <2> QED BY <2>8, <2>9
<1>7. CASE InstallFails \/ CheckFails \/ ReloadFails
  <2>1. queue # <<>> /\ Goto("restore") /\ UNCHANGED <<disk, live>>
    BY <1>0, <1>7 DEF InstallFails, CheckFails, ReloadFails, Rollback, BaseInv, QueueOK
  <2>2. pc' = "restore" /\ UNCHANGED <<router, asks, queue, reply>>
    BY <1>0, <2>1, GotoBase
  <2> QED BY <1>0, <2>1, <2>2, OthersStay DEF RouteInv, InstalledOK
<1>8. CASE Check \/ Reload
  <2>1. /\ queue # <<>> /\ disk' = disk /\ pc \in {"check", "reload"}
        /\ (Goto("reload") /\ live' = live) \/ (Goto("answer") /\ live' = disk)
    BY <1>0, <1>8 DEF Check, Reload, fileVars, BaseInv, QueueOK
  <2>2. /\ UNCHANGED <<router, asks, queue, reply>> /\ Served' = Served /\ App' = App
        /\ pc' = "reload" \/ (pc' = "answer" /\ live' = disk)
    BY <1>0, <2>1, GotoBase
  <2>3. PICK q : q = Served
    OBVIOUS
  <2>4. Plan(q)' = Plan(q)
    BY <2>2, PlanStays
  <2>5. disk[App] = Plan(q)
    BY <1>0, <2>1, <2>3 DEF InstalledOK
  <2>6. InstalledOK'
    BY <2>1, <2>2, <2>3, <2>4, <2>5 DEF InstalledOK
  <2> QED BY <1>0, <2>1, <2>2, <2>6, OthersStay DEF RouteInv
<1>9. ASSUME NEW ok \in BOOLEAN, RestoreFile(ok) PROVE RouteInv'
  <2>1. /\ queue # <<>> /\ live' = live
        /\ disk' \in {disk, [disk EXCEPT ![App][next] = before[next]]}
        /\ Goto("restore") \/ Reply("failed")
    BY <1>0, <1>9 DEF RestoreFile, BaseInv, QueueOK
  <2>2. \A a \in Apps : a # App => disk'[a] = disk[a]
    BY <1>0, <2>1 DEF TypeOK
  <2>3. /\ UNCHANGED <<router, asks>> /\ pc' \in {"restore", "idle"}
        /\ reply' = reply \/ reply' = [reply EXCEPT ![Served] = "failed"]
    BY <2>1 DEF Goto, Reply
  <2>4. \A r \in Requests : reply'[r] = "ok" => reply[r] = "ok"
    BY <1>0, <2>3 DEF TypeOK
  <2> QED BY <1>0, <2>1, <2>2, <2>3, <2>4, OthersStay DEF RouteInv, InstalledOK
<1>10. CASE Crash
  <2>1. /\ pc' = "idle" /\ UNCHANGED <<router, asks, disk, live>>
        /\ reply' = [r \in Requests |-> IF reply[r] = "open" THEN "failed" ELSE reply[r]]
    BY <1>10 DEF Crash
  <2>2. \A r \in Requests : reply'[r] = "ok" => reply[r] = "ok"
    BY <2>1
  <2> QED BY <1>0, <2>1, <2>2, OthersStay DEF RouteInv, InstalledOK
<1> QED
  BY <1>1, <1>2, <1>3, <1>4, <1>5, <1>6, <1>7, <1>8, <1>9, <1>10 DEF Next, HelperStep

LEMMA RouteInvHolds == Spec => []RouteInv
<1>1. Init => RouteInv
  <2> SUFFICES ASSUME Init PROVE RouteInv
    OBVIOUS
  <2>1. ConfirmedOK
    BY DEF Init, ConfirmedOK, Confirmed
  <2> QED BY <2>1, InitBase DEF Init, RouteInv, InstalledOK
<1> QED BY <1>1, StepRoute, PTL DEF Spec

(* A route whose request was answered Ok is the one the router runs until  *)
(* the app's next request: neither a restore that fails, nor a killed      *)
(* helper, nor the requests of other apps change it.                       *)
THEOREM ConfirmedRouteStays == Spec => []NewestApplied
<1>1. RouteInv => NewestApplied
  BY DEF RouteInv, ConfirmedOK, Confirmed, NewestApplied
<1> QED BY <1>1, RouteInvHolds, PTL

-----------------------------------------------------------------------------
(* Until a restore fails or a kill hits a request nothing refused is left. *)

(* The steps during which the files of the served app are in between. *)
Writing == pc \in {"install", "check", "reload", "restore"}

(* While it writes, the snapshot is what the router runs for the app, the  *)
(* files of all other apps are what the router runs, and those the restore *)
(* has been through are back.                                              *)
SnapshotOK ==
  /\ ~Writing => disk = live
  /\ Writing => /\ before = live[App]
                /\ \A a \in Apps : a # App => disk[a] = live[a]
  /\ pc = "restore" => \A f \in Files : f < next => disk[App][f] = before[f]

(* What is broken stays broken. *)
LEMMA BrokenStays ==
  ASSUME BaseInv, [Next]_vars, whole'
  PROVE  whole
<1>1. CASE HelperStep
  <2>1. ASSUME NEW ok \in BOOLEAN, RestoreFile(ok) PROVE whole
    BY <2>1, Zenon DEF RestoreFile
  <2>2. CASE Refuse \/ RemoveNothing \/ Begin \/ InstallFile \/ InstallFails \/ Check \/ CheckFails
             \/ Reload \/ ReloadFails \/ Answer
    BY <2>2 DEF Refuse, RemoveNothing, Begin, InstallFile, InstallFails, Check, CheckFails,
                Reload, ReloadFails, Answer, Rollback, fileVars
  <2> QED BY <1>1, <2>1, <2>2 DEF HelperStep
<1>2. ASSUME NEW ask \in Ask, Send(ask) PROVE whole
  BY <1>2, SendBase
<1>3. CASE Crash
  BY <1>3, Zenon DEF Crash
<1>4. CASE UNCHANGED vars
  BY <1>4 DEF vars
<1> QED BY <1>1, <1>2, <1>3, <1>4 DEF Next

LEMMA StepSnapshot ==
  ASSUME BaseInv, SnapshotOK, [Next]_vars, whole'
  PROVE  SnapshotOK'
<1>0. TypeOK /\ (pc # "idle" => queue # <<>>)
  BY DEF BaseInv, QueueOK
<1>1. CASE UNCHANGED vars
  BY <1>1 DEF SnapshotOK, Writing, App, Served, Files, FileCount, vars
<1>2. ASSUME NEW ask \in Ask, Send(ask) PROVE SnapshotOK'
  <2>1. /\ queue # <<>> => App' = App
        /\ UNCHANGED <<router, pc, next, before, disk, live>> /\ Files' = Files
    BY <1>2, SendBase
  <2> QED BY <1>0, <2>1 DEF SnapshotOK, Writing
<1>3. CASE Refuse \/ RemoveNothing \/ Answer
  BY <1>3 DEF Refuse, RemoveNothing, Answer, Idle, Reply, fileVars, SnapshotOK, Writing
<1>4. CASE Begin
  <2>1. /\ queue # <<>> /\ pc = "idle" /\ Goto("install") /\ before' = disk[App] /\ UNCHANGED <<disk, live>>
    BY <1>4 DEF Begin, Idle
  <2>2. pc' = "install" /\ App' = App
    BY <2>1, GotoBase
  <2> QED BY <2>1, <2>2 DEF SnapshotOK, Writing
<1>5. CASE InstallFile
  <2>1. /\ pc = "install" /\ queue # <<>> /\ UNCHANGED <<before, live>>
        /\ disk' = [disk EXCEPT ![App][next] = Plan(Served)[next]]
        /\ \E s \in {"install", "check", "reload"} : Goto(s)
    BY <1>0, <1>5 DEF InstallFile
  <2>2. pc' \in {"install", "check", "reload"} /\ App' = App
    BY <2>1, GotoBase
  <2>3. \A a \in Apps : a # App => disk'[a] = disk[a]
    BY <1>0, <2>1 DEF TypeOK
  <2> QED BY <2>1, <2>2, <2>3 DEF SnapshotOK, Writing
<1>6. CASE InstallFails \/ CheckFails \/ ReloadFails
  <2>1. /\ pc \in {"install", "check", "reload"} /\ queue # <<>> /\ next' = 1 /\ Goto("restore")
        /\ UNCHANGED <<before, disk, live>>
    BY <1>0, <1>6 DEF InstallFails, CheckFails, ReloadFails, Rollback
  <2>2. pc' = "restore" /\ App' = App /\ Files' = Files
    BY <2>1, GotoBase
  <2>3. \A f \in Files : ~(f < 1)
    BY DEF Files
  <2> QED BY <2>1, <2>2, <2>3 DEF SnapshotOK, Writing
<1>7. CASE Check
  <2>1. pc = "check" /\ queue # <<>> /\ Goto("reload") /\ UNCHANGED <<before, disk, live>>
    BY <1>0, <1>7 DEF Check, fileVars
  <2>2. pc' = "reload" /\ App' = App
    BY <2>1, GotoBase
  <2> QED BY <2>1, <2>2 DEF SnapshotOK, Writing
<1>8. CASE Reload
  BY <1>8 DEF Reload, Goto, SnapshotOK, Writing
<1>9. ASSUME NEW ok \in BOOLEAN, RestoreFile(ok) PROVE SnapshotOK'
  <2>0. ok
    BY <1>9, Zenon DEF RestoreFile
  <2>1. /\ pc = "restore" /\ queue # <<>> /\ Writing /\ UNCHANGED <<before, live>>
        /\ disk' = [disk EXCEPT ![App][next] = before[next]]
    BY <1>0, <1>9, <2>0 DEF RestoreFile, Writing
  <2>2. App \in Apps /\ next \in Files
    BY <1>0, <2>1, ServedApp DEF TypeOK
  <2>3. before = live[App] /\ before \in [Files -> 0..MaxRequests]
    BY <1>0, <2>1 DEF SnapshotOK, TypeOK
  <2>4. /\ disk' \in [Apps -> [Files -> 0..MaxRequests]]
        /\ \A a \in Apps : a # App => disk'[a] = live[a]
        /\ \A f \in Files : f < next + 1 => disk'[App][f] = before[f]
    <3>1. \A a \in Apps : a # App => disk'[a] = disk[a] /\ disk[a] = live[a]
      BY <1>0, <2>1 DEF TypeOK, SnapshotOK
    <3>2. \A f \in Files : f < next => disk[App][f] = before[f]
      BY <2>1 DEF SnapshotOK
    <3>3. \A f \in Files : f < next + 1 => f < next \/ f = next
      BY <1>0, <2>2, FileFacts
    <3>4. \A f \in Files : disk'[App][f] = IF f = next THEN before[next] ELSE disk[App][f]
      BY <1>0, <2>1, <2>2 DEF TypeOK
    <3>5. disk' \in [Apps -> [Files -> 0..MaxRequests]]
      BY <1>0, <2>1, <2>2, <2>3 DEF TypeOK
    <3> QED BY <3>1, <3>2, <3>3, <3>4, <3>5
  <2>5. CASE next < FileCount
    <3>1. next' = next + 1 /\ Goto("restore")
      BY <1>9, <2>5 DEF RestoreFile
    <3>2. pc' = "restore" /\ App' = App /\ Files' = Files
      BY <2>1, <3>1, GotoBase
    <3> QED BY <2>1, <2>3, <2>4, <3>1, <3>2 DEF SnapshotOK, Writing
  <2>6. CASE ~(next < FileCount)
    <3>1. pc' = "idle"
      BY <1>9, <2>6 DEF RestoreFile, Reply
    <3>2. \A f \in Files : f < next + 1
      BY <1>0, <2>2, <2>6, FileFacts DEF Files
    <3>3. disk'[App] = live[App]
      BY <2>2, <2>3, <2>4, <3>2
    <3>4. disk' = live
      BY <1>0, <2>4, <3>3 DEF TypeOK
    <3> QED BY <2>1, <3>1, <3>4 DEF SnapshotOK, Writing
  <2> QED BY <2>5, <2>6
<1>10. CASE Crash
  <2>1. disk = live /\ pc' = "idle" /\ UNCHANGED <<disk, live>>
    BY <1>10 DEF Crash
  <2> QED BY <2>1 DEF SnapshotOK, Writing
<1> QED
  BY <1>1, <1>2, <1>3, <1>4, <1>5, <1>6, <1>7, <1>8, <1>9, <1>10 DEF Next, HelperStep

WholeInv == whole => SnapshotOK

LEMMA SnapshotHolds == Spec => [](BaseInv /\ WholeInv)
<1>1. Init => WholeInv
  BY DEF Init, WholeInv, SnapshotOK, Writing
<1>2. BaseInv /\ WholeInv /\ [Next]_vars => WholeInv'
  <2> SUFFICES ASSUME BaseInv, WholeInv, [Next]_vars, whole' PROVE SnapshotOK'
    BY Zenon DEF WholeInv
  <2>1. whole
    BY BrokenStays
  <2>2. SnapshotOK
    BY <2>1 DEF WholeInv
  <2> QED BY <2>2, StepSnapshot
<1> QED BY <1>1, <1>2, InitBase, StepBase, PTL DEF Spec

(* "A refused config is never left for the next reload to pick up"         *)
(* (nginx_apply.rs, caddy_apply.rs): between two requests the files on     *)
(* disk are what the router runs, although install, check, reload and each *)
(* file of the restore are separate steps, until a restore fails or a kill *)
(* comes between them.                                                     *)
THEOREM NothingRefusedLeft == Spec => []RefusedNeverLeft
<1>1. WholeInv => RefusedNeverLeft
  BY DEF WholeInv, SnapshotOK, Writing, RefusedNeverLeft
<1> QED BY <1>1, SnapshotHolds, PTL

-----------------------------------------------------------------------------
(* The refinement of the route table, step by step. *)

TableInv == RouteInv /\ WholeInv

(* The abstract state. *)
table == [a \in Apps |-> RouteOf(live[a])]
askOf == [r \in Requests |->
            IF r <= Len(asks) THEN [app |-> asks[r].app, remove |-> IsRemoval(r)] ELSE [app |-> 0]]
outcome == [r \in Requests |-> Decision(r)]

(* A plan is the route of its request, a removal's is no route. *)
LEMMA RouteOfPlan ==
  ASSUME TypeOK, NEW r \in Requests
  PROVE  RouteOf(Plan(r)) = IF IsRemoval(r) THEN 0 ELSE r
<1>1. Site \in Files /\ r # 0
  BY FileFacts DEF Requests
<1>2. CASE IsRemoval(r)
  <2>1. Plan(r) = NoFiles /\ Plan(r)[Site] = 0
    BY <1>1, <1>2 DEF Plan, NoFiles, IsRemoval
  <2> QED BY <1>2, <2>1 DEF RouteOf
<1>3. CASE ~IsRemoval(r)
  <2>1. Plan(r)[Site] = r /\ NoFiles[Site] = 0
    BY <1>1, <1>3 DEF Plan, NoFiles
  <2>2. Plan(r) # NoFiles
    BY <1>1, <2>1
  <2> QED BY <1>1, <1>3, <2>1, <2>2 DEF RouteOf
<1> QED BY <1>2, <1>3

(* A route stays the route of its files when another request is sent. *)
LEMMA RouteOfStays ==
  ASSUME TypeOK, router' = router, NEW files \in [Files -> 0..MaxRequests],
         files[Site] # 0 => asks'[files[Site]] = asks[files[Site]]
  PROVE  RouteOf(files)' = RouteOf(files)
<1>1. NoFiles' = NoFiles /\ Site' = Site
  BY DEF NoFiles, Files, FileCount, Site
<1>2. files[Site] # 0 => Plan(files[Site])' = Plan(files[Site])
  <2>1. PICK r : r = files[Site]
    OBVIOUS
  <2>2. r # 0 => Plan(r)' = Plan(r)
    BY <2>1, PlanStays
  <2> QED BY <1>1, <2>1, <2>2
<1> QED BY <1>1, <1>2 DEF RouteOf

(* The requests are decided in the order sent: those before the one served *)
(* are, and it and those after it are not.                                 *)
LEMMA OutcomeIs ==
  ASSUME BaseInv
  PROVE  /\ \A r \in Requests : outcome[r] = Decision(r)
         /\ pc # "answer" => outcome = reply
         /\ \A r \in Requests : outcome[r] = "none" <=> r > Len(asks)
         /\ queue # <<>> /\ pc # "answer" =>
              outcome[Served] = "open" /\ \A q \in 1..(Served - 1) : q \in Requests /\ outcome[q] # "open"
<1>1. \A r \in Requests : outcome[r] = Decision(r)
  BY DEF outcome
<1>2. pc # "answer" => outcome = reply
  BY DEF outcome, Decision, BaseInv, TypeOK
<1>3. Answered \in Nat /\ Len(asks) \in Nat /\ Answered <= Len(asks) /\ \A r \in Requests : r \in Nat
  BY DEF BaseInv, TypeOK, QueueOK, Answered, Requests
<1>4. \A r \in Requests : reply[r] = "none" <=> r > Len(asks)
  <2>1. \A r \in Requests : r > Len(asks) \/ r <= Answered \/ (r <= Len(asks) /\ r > Answered)
    BY <1>3
  <2> QED BY <2>1, <1>3 DEF BaseInv, QueueOK
<1>5. pc = "answer" => Served \in Requests /\ Served <= Len(asks) /\ Served \in Nat
  BY ServedApp, <1>3 DEF BaseInv, QueueOK
<1>6. \A r \in Requests : outcome[r] = "none" <=> r > Len(asks)
  <2> SUFFICES ASSUME NEW r \in Requests PROVE outcome[r] = "none" <=> r > Len(asks)
    OBVIOUS
  <2>1. CASE pc = "answer" /\ r = Served
    <3>1. outcome[r] = "ok"
      BY <1>1, <2>1 DEF Decision
    <3> QED BY <1>3, <1>5, <2>1, <3>1
  <2>2. CASE ~(pc = "answer" /\ r = Served)
    BY <1>1, <1>4, <2>2 DEF Decision
  <2> QED BY <2>1, <2>2
<1>7. ASSUME queue # <<>>, pc # "answer"
      PROVE  outcome[Served] = "open" /\ \A q \in 1..(Served - 1) : q \in Requests /\ outcome[q] # "open"
  <2>1. Served \in Requests /\ reply[Served] = "open" /\ Served = Answered + 1
    BY <1>7, ServedApp
  <2>2. \A q \in 1..(Served - 1) : q \in Requests /\ q <= Answered
    BY <1>3, <2>1, MaxRequestsAssumption DEF Requests
  <2>3. \A q \in 1..(Served - 1) : reply[q] # "open"
    BY <2>2 DEF BaseInv, QueueOK
  <2> QED BY <1>2, <1>7, <2>1, <2>2, <2>3
<1> QED BY <1>1, <1>2, <1>6, <1>7

(* A step that loads nothing, sends nothing and answers nothing is none of *)
(* the table's.                                                            *)
LEMMA Stutters ==
  ASSUME TableInv, UNCHANGED <<router, asks, live, whole>>, outcome' = outcome
  PROVE  UNCHANGED Table!vars
<1>1. askOf' = askOf
  BY DEF askOf, IsRemoval
<1>2. table' = table
  <2>1. \A a \in Apps : RouteOf(live[a])' = RouteOf(live[a])
    BY DEF RouteOf, NoFiles, Plan, IsRemoval, Files, FileCount, Site
  <2> QED BY <2>1 DEF table
<1> QED BY <1>1, <1>2 DEF Table!vars, table, askOf, outcome

LEMMA StepTable ==
  ASSUME TableInv, [Next]_vars, TableInv', whole'
  PROVE  [Table!Next]_(Table!vars)
<1>w. whole
  BY BrokenStays DEF TableInv, RouteInv
<1>s. whole' = whole
  <2>1. whole \in BOOLEAN /\ whole' \in BOOLEAN
    BY DEF TableInv, RouteInv, BaseInv, TypeOK
  <2> QED BY <1>w, <2>1, Zenon
<1>0. BaseInv /\ BaseInv' /\ TypeOK /\ TypeOK' /\ InstalledOK /\ InstalledOK' /\ SnapshotOK
      /\ (pc # "idle" => queue # <<>>)
  BY <1>w DEF TableInv, WholeInv, RouteInv, BaseInv, QueueOK
<1>1. CASE UNCHANGED vars
  <2>1. outcome' = outcome
    BY <1>1 DEF outcome, Decision, Served, vars
  <2> QED BY <1>1, <2>1, Stutters DEF vars
<1>2. ASSUME NEW ask \in Ask, Send(ask) PROVE Table!Next
  <2>0. PICK n \in Requests : n = Len(asks') /\ asks'[n] = ask
    BY <1>0, <1>2, SendBase
  <2>1. /\ Len(asks) \in Nat /\ n = Len(asks) + 1 /\ n \in Requests /\ asks'[n] = ask
        /\ Len(asks') = n
        /\ \A r \in 1..Len(asks) : asks'[r] = asks[r]
        /\ reply' = [reply EXCEPT ![n] = "open"]
        /\ queue # <<>> => Served' = Served
        /\ UNCHANGED <<router, pc, live>> /\ Files' = Files
    BY <1>0, <1>2, <2>0, SendBase
  <2> DEFINE remove == ask.what = "remove"
  <2>2. ask.app \in Apps /\ remove \in BOOLEAN
    BY DEF Ask
  <2>3. outcome[n] = "none" /\ \A q \in 1..(n - 1) : outcome[q] # "none"
    <3>1. \A q \in 1..(n - 1) : q \in Requests /\ ~(q > Len(asks))
      BY <2>1, MaxRequestsAssumption DEF Requests
    <3>2. n > Len(asks)
      BY <2>1
    <3> QED BY <1>0, <2>1, <3>1, <3>2, OutcomeIs
  <2>4. outcome' = [outcome EXCEPT ![n] = "open"]
    <3>1. \A r \in Requests : Decision(r)' = IF r = n THEN "open" ELSE Decision(r)
      <4> SUFFICES ASSUME NEW r \in Requests PROVE Decision(r)' = IF r = n THEN "open" ELSE Decision(r)
        OBVIOUS
      <4>1. reply'[r] = IF r = n THEN "open" ELSE reply[r]
        BY <1>0, <2>1 DEF TypeOK
      <4>2. pc = "answer" => Served' = Served /\ Served # n
        BY <1>0, <2>1, ServedApp
      <4> QED BY <2>1, <4>1, <4>2 DEF Decision
    <3> QED BY <2>1, <3>1 DEF outcome
  <2>5. askOf' = [askOf EXCEPT ![n] = [app |-> ask.app, remove |-> remove]]
    <3>1. \A r \in Requests : r <= Len(asks) => asks'[r] = asks[r]
      BY <2>1 DEF Requests
    <3>2. \A r \in Requests : r <= n <=> r <= Len(asks) \/ r = n
      BY <2>1 DEF Requests
    <3>3. \A r \in Requests : askOf'[r] = IF r = n THEN [app |-> ask.app, remove |-> remove] ELSE askOf[r]
      <4> SUFFICES ASSUME NEW r \in Requests
                   PROVE  askOf'[r] = IF r = n THEN [app |-> ask.app, remove |-> remove] ELSE askOf[r]
        OBVIOUS
      <4>1. askOf'[r] = IF r <= n THEN [app |-> asks'[r].app, remove |-> asks'[r].what = "remove"] ELSE [app |-> 0]
        BY <2>1 DEF askOf, IsRemoval
      <4>2. askOf[r] = IF r <= Len(asks) THEN [app |-> asks[r].app, remove |-> asks[r].what = "remove"] ELSE [app |-> 0]
        BY DEF askOf, IsRemoval
      <4>3. CASE r = n
        BY <2>1, <3>2, <4>1, <4>3
      <4>4. CASE r # n
        BY <3>1, <3>2, <4>1, <4>2, <4>4
      <4> QED BY <4>3, <4>4
    <3> QED BY <2>1, <3>3 DEF askOf
  <2>6. table' = table
    <3>1. \A a \in Apps : RouteOf(live[a])' = RouteOf(live[a])
      <4> SUFFICES ASSUME NEW a \in Apps PROVE RouteOf(live[a])' = RouteOf(live[a])
        OBVIOUS
      <4>1. PICK files \in [Files -> 0..MaxRequests] : files = live[a] /\ live'[a] = files
        BY <1>0, <2>1 DEF TypeOK
      <4>2. Site \in Files
        BY <1>0, FileFacts
      <4>3. files[Site] <= Len(asks) /\ files[Site] \in Nat
        BY <1>0, <4>1, <4>2 DEF BaseInv, SentOK
      <4>4. files[Site] # 0 => asks'[files[Site]] = asks[files[Site]]
        BY <2>1, <4>3
      <4>5. RouteOf(files)' = RouteOf(files)
        BY <1>0, <2>1, <4>4, RouteOfStays
      <4> QED BY <4>1, <4>5
    <3> QED BY <3>1 DEF table
  <2>7. Table!Send(n, ask.app, remove)
    BY <1>s, <2>3, <2>4, <2>5, <2>6 DEF Table!Send, table, askOf, outcome
  <2> QED BY <2>1, <2>2, <2>7 DEF Table!Next, Table!Requests, Requests
<1>3. ASSUME queue # <<>>, pc # "answer", Reply("failed"), live' = live PROVE Table!Next
  <2>1. pc' = "idle" /\ reply' = [reply EXCEPT ![Served] = "failed"] /\ UNCHANGED <<router, asks>>
    BY <1>0, <1>3, ReplyBase
  <2>2. Served \in Requests /\ outcome[Served] = "open" /\ \A q \in 1..(Served - 1) : outcome[q] # "open"
    BY <1>0, <1>3, ServedApp, OutcomeIs
  <2>3. outcome' = [outcome EXCEPT ![Served] = "failed"]
    <3>1. outcome = reply
      BY <1>0, <1>3, OutcomeIs
    <3>2. outcome' = reply'
      BY <1>0, <2>1 DEF outcome, Decision, TypeOK
    <3> QED BY <2>1, <3>1, <3>2
  <2>4. table' = table /\ askOf' = askOf
    BY <1>3, <2>1 DEF table, askOf, IsRemoval, RouteOf, NoFiles, Plan, Files, FileCount, Site
  <2>5. Table!Refuse(Served)
    BY <1>s, <2>2, <2>3, <2>4 DEF Table!Refuse, Table!IsNext, table, askOf, outcome
  <2> QED BY <2>2, <2>5 DEF Table!Next, Table!Requests, Requests
(* The table takes a request when the files of its app are its plan, the   *)
(* other apps keep theirs, and its outcome becomes Ok.                     *)
<1>4. ASSUME queue # <<>>, pc # "answer", UNCHANGED <<router, asks>>,
             \A a \in Apps : live'[a] = IF a = App THEN Plan(Served) ELSE live[a],
             outcome' = [outcome EXCEPT ![Served] = "ok"]
      PROVE  Table!Next
  <2>1. /\ Served \in Requests /\ outcome[Served] = "open" /\ \A q \in 1..(Served - 1) : outcome[q] # "open"
        /\ Served <= Len(asks) /\ App \in Apps
    BY <1>0, <1>4, ServedApp, OutcomeIs
  <2>2. askOf' = askOf
    BY <1>4 DEF askOf, IsRemoval
  <2>3. askOf[Served].app = App /\ askOf[Served].remove = IsRemoval(Served)
    BY <2>1 DEF askOf, App
  <2>4. RouteOf(Plan(Served)) = IF IsRemoval(Served) THEN 0 ELSE Served
    BY <1>0, <2>1, RouteOfPlan
  <2>5. table' = [table EXCEPT ![App] = IF IsRemoval(Served) THEN 0 ELSE Served]
    <3>1. \A a \in Apps : table'[a] = IF a = App THEN RouteOf(Plan(Served)) ELSE table[a]
      <4> SUFFICES ASSUME NEW a \in Apps PROVE table'[a] = IF a = App THEN RouteOf(Plan(Served)) ELSE table[a]
        OBVIOUS
      <4>1. PICK files : files = live'[a]
        OBVIOUS
      <4>2. RouteOf(files)' = RouteOf(files)
        BY <1>4 DEF RouteOf, NoFiles, Plan, IsRemoval, Files, FileCount, Site
      <4>3. table'[a] = RouteOf(files)'
        BY <4>1 DEF table
      <4>4. table[a] = RouteOf(live[a])
        BY DEF table
      <4>5. files = IF a = App THEN Plan(Served) ELSE live[a]
        BY <1>4, <4>1
      <4> QED BY <4>2, <4>3, <4>4, <4>5
    <3> QED BY <2>1, <2>4, <3>1 DEF table
  <2>6. Table!Commit(Served)
    BY <1>s, <1>4, <2>1, <2>2, <2>3, <2>5 DEF Table!Commit, Table!IsNext, table, askOf, outcome
  <2> QED BY <2>1, <2>6 DEF Table!Next, Table!Requests, Requests
<1>5. CASE Refuse
  BY <1>3, <1>5 DEF Refuse, Idle, fileVars
<1>6. CASE RemoveNothing
  <2>1. /\ queue # <<>> /\ pc = "idle" /\ Reply("ok") /\ live' = live
        /\ IsRemoval(Served) /\ disk[App] = NoFiles /\ disk = live
    BY <1>0, <1>6 DEF RemoveNothing, Idle, fileVars, SnapshotOK, Writing
  <2>2. pc' = "idle" /\ reply' = [reply EXCEPT ![Served] = "ok"] /\ UNCHANGED <<router, asks>>
    BY <1>0, <2>1, ReplyBase
  <2>3. Plan(Served) = NoFiles
    BY <2>1 DEF Plan, NoFiles, IsRemoval
  <2>4. outcome' = [outcome EXCEPT ![Served] = "ok"]
    <3>1. outcome = reply
      BY <1>0, <2>1, OutcomeIs
    <3>2. outcome' = reply'
      BY <1>0, <2>2 DEF outcome, Decision, TypeOK
    <3> QED BY <2>2, <3>1, <3>2
  <2> QED BY <1>4, <2>1, <2>2, <2>3, <2>4
<1>7. CASE Reload
  <2>1. queue # <<>> /\ pc = "reload" /\ Goto("answer") /\ live' = disk
    BY <1>0, <1>7 DEF Reload
  <2>2. pc' = "answer" /\ UNCHANGED <<router, asks, queue, reply>> /\ Served' = Served
    BY <1>0, <2>1, GotoBase
  <2>3. \A a \in Apps : live'[a] = IF a = App THEN Plan(Served) ELSE live[a]
    BY <1>0, <2>1 DEF InstalledOK, SnapshotOK, Writing
  <2>4. outcome' = [outcome EXCEPT ![Served] = "ok"]
    <3>1. \A r \in Requests : Decision(r)' = IF r = Served THEN "ok" ELSE Decision(r)
      BY <2>1, <2>2 DEF Decision
    <3> QED BY <3>1 DEF outcome
  <2> QED BY <1>4, <2>1, <2>2, <2>3, <2>4
<1>8. CASE Answer
  <2>1. queue # <<>> /\ pc = "answer" /\ Reply("ok") /\ live' = live
    BY <1>0, <1>8 DEF Answer, fileVars
  <2>2. pc' = "idle" /\ reply' = [reply EXCEPT ![Served] = "ok"] /\ UNCHANGED <<router, asks>>
    BY <1>0, <2>1, ReplyBase
  <2>3. outcome' = outcome
    <3>1. \A r \in Requests : Decision(r)' = Decision(r)
      BY <1>0, <2>1, <2>2 DEF Decision, TypeOK
    <3> QED BY <3>1 DEF outcome
  <2> QED BY <1>s, <2>1, <2>2, <2>3, Stutters
<1>9. CASE Begin \/ InstallFile \/ InstallFails \/ Check \/ CheckFails \/ ReloadFails
  <2>1. /\ UNCHANGED <<router, asks, live, reply>> /\ pc # "answer" /\ pc' # "answer"
    BY <1>9 DEF Begin, InstallFile, InstallFails, Check, CheckFails, ReloadFails, Rollback, Goto, Idle, fileVars
  <2>2. outcome' = outcome
    BY <2>1 DEF outcome, Decision
  <2> QED BY <1>s, <2>1, <2>2, Stutters
<1>10. ASSUME NEW ok \in BOOLEAN, RestoreFile(ok) PROVE [Table!Next]_(Table!vars)
  <2>1. queue # <<>> /\ pc = "restore" /\ live' = live
    BY <1>0, <1>10 DEF RestoreFile
  <2>2. CASE Goto("restore")
    <3>1. UNCHANGED <<router, asks, reply>> /\ pc' = "restore"
      BY <2>2 DEF Goto
    <3>2. outcome' = outcome
      BY <2>1, <3>1 DEF outcome, Decision
    <3> QED BY <1>s, <2>1, <3>1, <3>2, Stutters
  <2>3. CASE Reply("failed")
    BY <1>3, <2>1, <2>3
  <2> QED BY <1>10, <2>2, <2>3 DEF RestoreFile
<1>11. CASE Crash
  <2>1. /\ pc # "answer" /\ pc' = "idle" /\ UNCHANGED <<router, asks, live>>
        /\ reply' = [r \in Requests |-> IF reply[r] = "open" THEN "failed" ELSE reply[r]]
    BY <1>11 DEF Crash
  <2>2. outcome = reply /\ outcome' = reply'
    BY <1>0, <2>1 DEF outcome, Decision, TypeOK
  <2>3. table' = table /\ askOf' = askOf
    BY <2>1 DEF table, askOf, IsRemoval, RouteOf, NoFiles, Plan, Files, FileCount, Site
  <2>4. Table!RefuseAll
    BY <1>s, <2>1, <2>2, <2>3 DEF Table!RefuseAll, Table!Requests, Requests, table, askOf, outcome
  <2> QED BY <2>4 DEF Table!Next
<1> QED
  BY <1>1, <1>2, <1>5, <1>6, <1>7, <1>8, <1>9, <1>10, <1>11 DEF Next, HelperStep

(* The helper implements the route table, for any apps, either router and  *)
(* any failures: every step is a step of the table or none, up to a        *)
(* restore that fails or a kill in the middle of a request.                *)
THEOREM HelperImplementsTable == Spec => ImplementsTable
<1>1. Init => Table!Init
  <2> SUFFICES ASSUME Init PROVE Table!Init
    OBVIOUS
  <2>1. \A r \in Requests : ~(r <= Len(asks)) /\ Decision(r) = "none"
    BY DEF Init, Requests, Decision
  <2>2. \A a \in Apps : RouteOf(live[a]) = 0
    <3>1. NoFiles[Site] = 0
      BY RoutersAssumption DEF Init, NoFiles, Files, FileCount, Site
    <3>2. \A a \in Apps : live[a] = NoFiles
      BY DEF Init
    <3> QED BY <3>1, <3>2 DEF RouteOf
  <2> QED BY <2>1, <2>2 DEF Init, Table!Init, Table!Requests, Table!NotSent, Requests
<1>2. TableInv /\ [Next]_vars /\ TableInv' => [Table!Next]_(Table!vars)
  <2> SUFFICES ASSUME TableInv, [Next]_vars, TableInv' PROVE [Table!Next]_(Table!vars)
    OBVIOUS
  <2>1. CASE whole'
    BY <2>1, StepTable
  <2>2. CASE ~whole'
    BY <2>2 DEF Table!Next, Table!Break
  <2> QED BY <2>1, <2>2
<1>3. Spec => []TableInv
  BY RouteInvHolds, SnapshotHolds, PTL DEF TableInv
<1> QED BY <1>1, <1>2, <1>3, PTL DEF Spec, ImplementsTable, Table!Spec
=============================================================================
