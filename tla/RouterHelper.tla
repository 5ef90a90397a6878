----------------------------- MODULE RouterHelper -----------------------------
(***************************************************************************)
(* The router helper (riku-route) and its clients (riku-deploy/src/router):*)
(* one request at a time, in the order of the listen backlog, is written   *)
(* to an app's site files, checked, loaded by the router, and rolled back  *)
(* file by file when any of that fails.  A client that waited for its      *)
(* whole time limit gives up, but its request stays in the backlog.        *)
(***************************************************************************)
EXTENDS Naturals, Sequences

CONSTANTS
  Apps,
  Routers,      \* the routers a server of this instance may have
  MaxRequests,  \* bound on the number of requests
  Faults        \* the failures this instance lets happen

AllFaults ==
  { "restore",  \* a file of the snapshot cannot be put back
    "crash" }   \* the helper is killed and started again

ASSUME AppsAssumption == 0 \notin Apps
ASSUME RoutersAssumption == Routers \subseteq {"nginx", "caddy"}
ASSUME MaxRequestsAssumption == MaxRequests \in Nat
ASSUME FaultsAssumption == Faults \subseteq AllFaults

Requests == 1..MaxRequests

VARIABLES
  router,  \* the router of the server
  asks,    \* the requests sent so far
  queue,   \* those not answered yet, the one being served first
  pc,      \* what the helper does
  next,    \* the file it writes next
  before,  \* the snapshot of the app's files
  disk,    \* per app and file, the request that wrote it, 0 for no file
  live,    \* what the router has loaded
  reply,   \* the answer to each request
  whole    \* history: no restore failed and no kill left files half applied
           \* or an applied request without its answer

vars == <<router, asks, queue, pc, next, before, disk, live, reply, whole>>

(* The planned files in the order they are written: for nginx the key, the *)
(* certificate and the site, for Caddy the site alone.                     *)
FileCount == IF router = "nginx" THEN 3 ELSE 1
Files == 1..FileCount
Site == FileCount

(* A route with or without TLS, one the helper's own check accepts and the *)
(* router refuses, or a removal.                                           *)
Ask == [app : Apps, what : {"http", "https", "bad", "remove"}]

TypeOK ==
  /\ router \in Routers
  /\ asks \in Seq(Ask) /\ Len(asks) <= MaxRequests
  /\ queue \in Seq(Requests)
  /\ pc \in {"idle", "install", "check", "reload", "restore", "answer"}
  /\ next \in Files
  /\ before \in [Files -> 0..MaxRequests]
  /\ disk \in [Apps -> [Files -> 0..MaxRequests]]
  /\ live \in [Apps -> [Files -> 0..MaxRequests]]
  /\ reply \in [Requests -> {"none", "open", "ok", "failed"}]
  /\ whole \in BOOLEAN

NoFiles == [f \in Files |-> 0]

Init ==
  /\ router \in Routers
  /\ asks = <<>> /\ queue = <<>>
  /\ pc = "idle"
  /\ next = 1 /\ before = NoFiles
  /\ disk = [a \in Apps |-> NoFiles]
  /\ live = [a \in Apps |-> NoFiles]
  /\ reply = [r \in Requests |-> "none"]
  /\ whole = TRUE

fileVars == <<next, before, disk, live, whole>>

-----------------------------------------------------------------------------
(* The clients. *)

Sent(ask) ==
  /\ Len(asks) < MaxRequests
  /\ asks' = Append(asks, ask)
  /\ reply' = [reply EXCEPT ![Len(asks')] = "open"]
  /\ UNCHANGED <<router, pc>> /\ UNCHANGED fileVars

(* Mutant: the newest request is served first. *)
SendFirst(ask) ==
  /\ Sent(ask)
  /\ queue' = IF pc = "idle" THEN <<Len(asks')>> \o queue
              ELSE <<Head(queue), Len(asks')>> \o Tail(queue)

(* send_to, up to the wait.  Deploys of one app are serialised by its      *)
(* lock, but router-renew and destroy take none, so requests of one app    *)
(* may be open together.  A client whose time limit passes goes away and   *)
(* changes nothing here: the helper serves its request all the same.       *)
Send(ask) == Sent(ask) /\ queue' = Append(queue, Len(asks'))

-----------------------------------------------------------------------------
(* The helper. *)

Served == Head(queue)
App == asks[Served].app

IsRemoval(r) == asks[r].what = "remove"

(* plan: what each file holds after request r. *)
Plan(r) ==
  [f \in Files |->
     IF asks[r].what = "https" \/ (f = Site /\ ~IsRemoval(r)) THEN r ELSE 0]

Reply(result) ==
  /\ pc' = "idle"
  /\ reply' = [reply EXCEPT ![Served] = result]
  /\ queue' = Tail(queue)
  /\ UNCHANGED <<router, asks>>

Goto(s) == pc' = s /\ UNCHANGED <<router, asks, queue, reply>>

Idle == pc = "idle" /\ queue # <<>>

(* The route gate, the rendering, the directories or the snapshot fail. *)
Refuse ==
  /\ Idle
  /\ Reply("failed")
  /\ UNCHANGED fileVars

(* A removal that finds no file is Ok and does not reload. *)
RemoveNothing ==
  /\ Idle
  /\ IsRemoval(Served) /\ disk[App] = NoFiles
  /\ Reply("ok")
  /\ UNCHANGED fileVars

(* Mutant: the snapshot is not taken. *)
BeginNoSnapshot ==
  /\ Idle
  /\ ~(IsRemoval(Served) /\ disk[App] = NoFiles)
  /\ next' = 1
  /\ Goto("install")
  /\ UNCHANGED <<before, disk, live, whole>>

(* commit: Snapshot::take. *)
Begin ==
  /\ Idle
  /\ ~(IsRemoval(Served) /\ disk[App] = NoFiles)
  /\ before' = disk[App]
  /\ next' = 1
  /\ Goto("install")
  /\ UNCHANGED <<disk, live, whole>>

(* install: one file is moved into place or removed.  Caddy checks a       *)
(* config only when it reloads.                                            *)
InstallFile ==
  /\ pc = "install"
  /\ disk' = [disk EXCEPT ![App][next] = Plan(Served)[next]]
  /\ IF next < FileCount
       THEN next' = next + 1 /\ Goto("install")
       ELSE next' = 1 /\ Goto(IF router = "nginx" THEN "check" ELSE "reload")
  /\ UNCHANGED <<before, live, whole>>

Rollback(s) ==
  /\ pc = s
  /\ next' = 1
  /\ Goto("restore")
  /\ UNCHANGED <<before, disk, live, whole>>

InstallFails == Rollback("install")

(* The router reads the files of every app: each site it finds must be one *)
(* it accepts, and one with TLS needs a key that belongs to a certificate. *)
Accepts(d) ==
  \A a \in Apps : d[a][Site] # 0 =>
    LET what == asks[d[a][Site]].what
    IN  /\ what # "bad"
        /\ what = "https" =>
             \A f, g \in Files \ {Site} : d[a][f] # 0 /\ d[a][f] = d[a][g]

(* nginx -t passes. *)
Check ==
  /\ pc = "check"
  /\ Accepts(disk)
  /\ Goto("reload")
  /\ UNCHANGED fileVars

(* nginx -t refuses the files, or cannot run. *)
CheckFails == Rollback("check")

(* The router loads the files of every app. *)
Reload ==
  /\ pc = "reload"
  /\ Accepts(disk)
  /\ live' = disk
  /\ Goto("answer")
  /\ UNCHANGED <<next, before, disk, whole>>

(* Mutant: a failed reload is not noticed. *)
ReloadUnconfirmed ==
  /\ pc = "reload"
  /\ Goto("answer")
  /\ UNCHANGED fileVars

(* The router refuses the files, or is not running. *)
ReloadFails == Rollback("reload")

Answer ==
  /\ pc = "answer"
  /\ Reply("ok")
  /\ UNCHANGED fileVars

(* rolled_back: every file is put back, whether or not one before it could *)
(* be, and the request is answered Failed.                                 *)
RestoreFile(ok) ==
  /\ pc = "restore"
  /\ ok \/ "restore" \in Faults
  /\ disk' = IF ok THEN [disk EXCEPT ![App][next] = before[next]] ELSE disk
  /\ IF next < FileCount
       THEN next' = next + 1 /\ Goto("restore")
       ELSE next' = 1 /\ Reply("failed")
  /\ whole' = (whole /\ ok)
  /\ UNCHANGED <<before, live>>

(* The helper is killed and started again.  The files stay as they are,    *)
(* and every client in the backlog sees its connection closed.             *)
Crash ==
  /\ "crash" \in Faults
  /\ queue # <<>>
  /\ pc' = "idle"
  /\ queue' = <<>>
  /\ reply' = [r \in Requests |-> IF reply[r] = "open" THEN "failed" ELSE reply[r]]
  /\ whole' = (whole /\ disk = live /\ pc # "answer")
  /\ UNCHANGED <<router, asks, next, before, disk, live>>

HelperStep ==
  \/ Refuse \/ RemoveNothing \/ Begin
  \/ InstallFile \/ InstallFails
  \/ Check \/ CheckFails \/ Reload \/ ReloadFails \/ Answer
  \/ \E ok \in BOOLEAN : RestoreFile(ok)

Next ==
  \/ \E ask \in Ask : Send(ask)
  \/ HelperStep
  \/ Crash

Spec == Init /\ [][Next]_vars

-----------------------------------------------------------------------------
(* Properties. *)

(* "A refused config is never left for the next reload to pick up":        *)
(* between two requests the files on disk are the ones the router runs,    *)
(* until a restore fails or the helper is killed in the middle of one.     *)
RefusedNeverLeft == whole /\ pc = "idle" => disk = live

Newest(r) == r <= Len(asks) /\ \A q \in (r + 1)..Len(asks) : asks[q].app # asks[r].app

(* A route whose request was answered Ok is the one the router runs until  *)
(* the app's next request, whatever becomes of older requests whose client *)
(* gave up, of other apps' requests, and of the helper.                    *)
NewestApplied ==
  \A r \in Requests :
    reply[r] = "ok" /\ Newest(r) /\ ~IsRemoval(r) => live[asks[r].app] = Plan(r)

(* An app whose removal was answered Ok is out of the router.  Not so when *)
(* the helper died between removing the files and the reload: the retried  *)
(* removal finds no file and is answered Ok.                               *)
RemovalTakesEffect ==
  \A r \in Requests :
    reply[r] = "ok" /\ Newest(r) /\ IsRemoval(r) => live[asks[r].app] = NoFiles

(* The helper's decision on a request: made when the router has loaded the *)
(* files.                                                                  *)
Decision(r) == IF pc = "answer" /\ r = Served THEN "ok" ELSE reply[r]

(* The request whose plan an app's files are; a mixture is no route.       *)
RouteOf(files) ==
  CASE files = NoFiles -> 0
    [] files[Site] # 0 /\ files = Plan(files[Site]) -> files[Site]
    [] OTHER -> MaxRequests + 1

Table == INSTANCE RouteTable WITH
  table <- [a \in Apps |-> RouteOf(live[a])],
  ask <- [r \in Requests |->
            IF r <= Len(asks) THEN [app |-> asks[r].app, remove |-> IsRemoval(r)]
            ELSE [app |-> 0]],
  outcome <- [r \in Requests |-> Decision(r)],
  broken <- ~whole

(* The helper implements the route table: a change is all or nothing, in   *)
(* the order sent, and its answer is true, also when the helper is killed  *)
(* and started again between two requests, until a restore fails or a kill *)
(* comes in the middle of a request.  That every request is answered is    *)
(* not said: nginx runs without a time limit.                              *)
ImplementsTable == Table!Spec
=============================================================================
