-------------------------------- MODULE Push --------------------------------
(***************************************************************************)
(* Commands that deploy one app: git pushes through riku git-receive-pack  *)
(* and the post-receive hook, rollbacks, plain deploys and deploys from a  *)
(* path or a bare repository.  Each runs do_deploy under the deploy lock,  *)
(* which syncs the checkout, builds and starts what is there, and records  *)
(* the revision as a release.                                              *)
(*                                                                         *)
(* A contender for the lock is refused or waits (DeployLock).  Starting    *)
(* the workers or the containers is one step here: Rolling and Rollout.    *)
(***************************************************************************)
EXTENDS Budget, Sequences, FiniteSets

CONSTANTS
    Callers,    \* commands that may be under way at once
    Revs,       \* pushed revisions, numbered in the order they are pushed
    MaxCalls    \* bound: commands

NoRev == 0      \* the newrev of a deleted branch, and files of no revision
AnyRev == 99    \* no newrev: deploy what the directory holds; or a mix of trees
ASSUME PushAssumption == Revs \subseteq Nat \ {NoRev, AnyRev} /\ "none" \notin Callers

VARIABLES
    hooked,     \* the bare repository has riku's post-receive hook
    refs,       \* revisions in the bare repository
    dir,        \* the app directory: "none", "empty", "checkout" or "files" without .git
    tree,       \* what is in it: a revision, or NoRev for files of no revision
    runs,       \* what the app's processes run: a tree, or AnyRev for a mix
    log,        \* the release log
    lockedBy,   \* who holds the deploy lock
    call,       \* each caller's command
    calls,
    last,       \* history: how the last do_deploy under the lock ended, and whether it recorded its release
    swapped     \* history: the directory was replaced while another command ran

pushVars == <<hooked, refs, dir, tree, runs, log, lockedBy, call, calls, last, swapped, faults>>

Rest == [kind |-> "none", at |-> "none", todo |-> <<>>, rev |-> AnyRev, status |-> "empty",
         done |-> 0, asked |-> 0, silent |-> FALSE, exit |-> "none"]

PushInit ==
    /\ hooked = FALSE /\ refs = {} /\ dir \in {"none", "empty"} /\ tree = NoRev
    /\ runs = NoRev /\ log = <<>> /\ lockedBy = "none"
    /\ call = [c \in Callers |-> Rest] /\ calls = 0
    /\ last = "none" /\ swapped = FALSE /\ faults = 0

-----------------------------------------------------------------------------
\* The steps of do_deploy, for a Procfile app.  Those of a container app are
\* fewer; what they do to this state is the same.

Hooks == {"pre-deploy", "pre-build", "post-build"}
OneShots == {"preflight", "release"}

Steps == <<"sync", "env", "procfile", "scaling", "preflight", "pre-deploy", "detect", "pre-build",
           "build", "post-build", "release", "live-env", "workers", "router", "record">>
After(s) == Steps[1 + CHOOSE i \in 1..(Len(Steps) - 1) : Steps[i] = s]

\* A one-shot command that fails ends the process; a failed step returns an error.
OnFailure(s) == IF s \in OneShots THEN "exit" ELSE "error"

At(c, s) == call[c].at = s
Move(c, s) == call' = [call EXCEPT ![c].at = s]
Others(c) == {d \in Callers \ {c} : call[d].at \notin {"none", "end"}}

\* do_deploy returns: the lock file is closed.
Return(c, s) ==
    /\ lockedBy' = IF lockedBy = c THEN "none" ELSE lockedBy
    /\ last' = IF lockedBy = c THEN (IF s = "ok" THEN "ok" ELSE "failed") ELSE last
    /\ Move(c, s)

-----------------------------------------------------------------------------
\* The commands.

Begin(c, kind, todo) ==
    /\ call[c].at \in {"none", "end"} /\ calls < MaxCalls /\ calls' = calls + 1
    /\ call' = [call EXCEPT ![c] = [Rest EXCEPT !.kind = kind, !.todo = todo,
                                    !.asked = Len(todo), !.at = kind]]
    /\ UNCHANGED <<hooked, refs, dir, tree, runs, log, lockedBy, last, swapped, faults>>

\* A push of one or two refs, each to a revision or deleted.
BeginPush(c) ==
    \E r \in Revs :
        /\ \A q \in refs : r >= q
        /\ \/ Begin(c, "push", <<r>>)
           \/ Begin(c, "push", <<r, NoRev>>)

BeginCommand(c) ==
    \/ dir # "none" /\ Begin(c, "rollback", <<>>)
    \/ dir # "none" /\ Begin(c, "deploy", <<>>)
    \/ Begin(c, "path", <<>>)
    \/ refs # {} /\ Begin(c, "bare", <<>>)

\* The repository and its hook are made if they are missing, and git receives
\* the refs; a failure of its own is the push's exit status.
ReceivePack(c) ==
    /\ At(c, "push")
    /\ \/ /\ NoFault
          /\ hooked' = TRUE
          /\ refs' = refs \union ({call[c].todo[i] : i \in DOMAIN call[c].todo} \ {NoRev})
          /\ Move(c, "hook")
       \/ /\ Fault /\ UNCHANGED refs /\ hooked' \in {hooked, TRUE}
          /\ call' = [call EXCEPT ![c].at = "end", ![c].exit = "failed"]
    /\ UNCHANGED <<dir, tree, runs, log, lockedBy, calls, last, swapped>>

\* The hook validates the app's name and the repository it is called from.
LinkExternalRepo(c) ==
    /\ At(c, "hook")
    /\ \/ NoFault /\ Move(c, "refs")
       \/ Fault /\ Move(c, "error")
    /\ UNCHANGED <<hooked, refs, dir, tree, runs, log, lockedBy, calls, last, swapped>>

NeedsClone == dir # "checkout"

\* git refuses to clone into a directory with files; a failed clone may leave none.
CloneApp(c) ==
    /\ At(c, "clone")
    /\ \/ /\ dir \in {"none", "empty"} /\ NoFault
          /\ dir' = "checkout"
          /\ tree' \in refs
          /\ Move(c, "exists")
       \/ /\ IF dir \in {"none", "empty"} THEN Fault ELSE NoFault
          /\ dir' = IF dir = "none" THEN "empty" ELSE dir
          /\ Move(c, "error") /\ UNCHANGED tree
    /\ UNCHANGED <<hooked, refs, runs, log, lockedBy, calls, last, swapped>>

\* The hook deploys each pushed ref in turn, whatever its name, and stops at the
\* first that fails.
DeployPushedRefs(c) ==
    /\ At(c, "refs")
    /\ IF call[c].todo = <<>> THEN Move(c, "status")
       ELSE call' = [call EXCEPT ![c].at = IF NeedsClone THEN "clone" ELSE "exists",
                                 ![c].rev = Head(call[c].todo), ![c].todo = Tail(@)]
    /\ UNCHANGED <<hooked, refs, dir, tree, runs, log, lockedBy, calls, last, swapped, faults>>

\* The most recent release that differs from the current one, read before the
\* lock is taken.
Previous ==
    LET older == {i \in DOMAIN log : log[i] # log[Len(log)]}
    IN  {log[i] : i \in {k \in older : \A j \in older : j <= k}}

Rollback(c) ==
    /\ At(c, "rollback")
    /\ IF Previous = {} THEN Move(c, "error")
       ELSE \E r \in Previous : call' = [call EXCEPT ![c].at = "exists", ![c].rev = r]
    /\ UNCHANGED <<hooked, refs, dir, tree, runs, log, lockedBy, calls, last, swapped, faults>>

CmdDeploy(c) ==
    /\ At(c, "deploy")
    /\ Move(c, "exists")
    /\ UNCHANGED <<hooked, refs, dir, tree, runs, log, lockedBy, calls, last, swapped, faults>>

\* Files are copied beside the app directory, which is removed and replaced,
\* without the lock and without the source's .git.
DeployFromPath(c) ==
    /\ At(c, "path")
    /\ \/ NoFault /\ dir' = "none" /\ tree' = NoRev /\ Move(c, "rename")
          /\ swapped' = (swapped \/ Others(c) # {})
       \/ Fault /\ Move(c, "error") /\ UNCHANGED <<dir, tree, swapped>>
    /\ UNCHANGED <<hooked, refs, runs, log, lockedBy, calls, last>>

RenameDir(c) ==
    /\ At(c, "rename")
    /\ \/ /\ dir \in {"none", "empty"} /\ NoFault
          /\ dir' = "files" /\ tree' = NoRev /\ Move(c, "exists")
       \/ /\ IF dir \in {"none", "empty"} THEN Fault ELSE NoFault
          /\ Move(c, "error") /\ UNCHANGED <<dir, tree>>
    /\ UNCHANGED <<hooked, refs, runs, log, lockedBy, calls, last, swapped>>

\* The files of the bare repository's HEAD are extracted and its hook is set up.
ExtractBareRepo(c) ==
    /\ At(c, "bare")
    /\ \/ NoFault /\ hooked' = TRUE /\ dir' = "files" /\ tree' \in refs /\ Move(c, "exists")
       \/ Fault /\ dir' \in {dir, "none", "empty", "files"} /\ Move(c, "error") /\ UNCHANGED <<hooked, tree>>
    /\ swapped' = (swapped \/ Others(c) # {})
    /\ UNCHANGED <<refs, runs, log, lockedBy, calls, last>>

-----------------------------------------------------------------------------
\* do_deploy.

AppExists(c) ==
    /\ At(c, "exists")
    /\ Move(c, IF dir = "none" THEN "error" ELSE "lock")
    /\ UNCHANGED <<hooked, refs, dir, tree, runs, log, lockedBy, calls, last, swapped, faults>>

AcquireLock(c) ==
    /\ At(c, "lock")
    /\ \/ lockedBy = "none" /\ lockedBy' = c /\ Move(c, "sync")
       \/ lockedBy # "none" /\ Move(c, "error") /\ UNCHANGED lockedBy
    /\ UNCHANGED <<hooked, refs, dir, tree, runs, log, calls, last, swapped, faults>>

\* Fetch, then reset to the revision asked for; without one the tree stays.
SyncAppRepo(c) ==
    LET rev == call[c].rev
        can == rev = AnyRev \/ (dir = "checkout" /\ rev \in refs) IN
    /\ At(c, "sync") /\ lockedBy = c
    /\ \/ can /\ NoFault /\ tree' = (IF rev = AnyRev THEN tree ELSE rev)
          /\ Move(c, "env") /\ UNCHANGED <<lockedBy, last>>
       \/ (IF can THEN Fault ELSE NoFault) /\ Return(c, "error") /\ UNCHANGED tree
    /\ UNCHANGED <<hooked, refs, dir, runs, log, calls, swapped>>

Detected == dir \in {"checkout", "files"}

\* A step that leaves this state alone; it fails at once when it cannot work, and
\* may fail otherwise.
Prepare(c, s, can) ==
    /\ At(c, s)
    /\ \/ can /\ NoFault /\ Move(c, After(s)) /\ UNCHANGED <<lockedBy, last>>
       \/ (IF can THEN Fault ELSE NoFault) /\ Return(c, OnFailure(s))
    /\ UNCHANGED <<hooked, refs, dir, tree, runs, log, calls, swapped>>

LoadEnv(c) == Prepare(c, "env", TRUE)
ReadWorkers(c) == Prepare(c, "procfile", dir # "none")
ReadScaling(c) == Prepare(c, "scaling", TRUE)
RunPreflight(c) == Prepare(c, "preflight", dir # "none")
RunHook(c) == \E h \in Hooks : Prepare(c, h, TRUE)
\* No runtime plugin matches a directory without files.
DetectRuntime(c) == Prepare(c, "detect", Detected)
BuildWithPlugin(c) == Prepare(c, "build", Detected)
RunRelease(c) == Prepare(c, "release", dir # "none")
WriteLiveEnv(c) == Prepare(c, "live-env", TRUE)

\* The processes of every kind are replaced by ones of the tree; a failure
\* half-way leaves some of each.
CreateWorkers(c) ==
    /\ At(c, "workers")
    /\ \/ dir # "none" /\ NoFault /\ runs' = tree /\ Move(c, "router") /\ UNCHANGED <<lockedBy, last>>
       \/ (IF dir = "none" THEN NoFault ELSE Fault)
          /\ runs' \in {runs, AnyRev} /\ Return(c, "error")
    /\ UNCHANGED <<hooked, refs, dir, tree, log, calls, swapped>>

\* The router is configured and the supervisor told; only the router can fail.
SpawnApp(c) ==
    /\ At(c, "router")
    /\ \/ NoFault /\ Move(c, "record") /\ UNCHANGED <<lockedBy, last>>
       \/ Fault /\ Return(c, "error")
    /\ UNCHANGED <<hooked, refs, dir, tree, runs, log, calls, swapped>>

HeadSha == IF dir = "checkout" THEN {tree} ELSE {}
Recorded(l, r) == IF l # <<>> /\ l[Len(l)] = r THEN l ELSE Append(l, r)

\* Post-deploy hooks only warn, and so does a log that cannot be written.
FinishDeploy(c) ==
    /\ At(c, "record")
    /\ \/ HeadSha # {} /\ NoFault /\ log' = Recorded(log, tree) /\ Return(c, "ok")
       \/ /\ IF HeadSha = {} THEN NoFault ELSE Fault
          /\ UNCHANGED log
          /\ lockedBy' = "none" /\ last' = "unrecorded" /\ Move(c, "ok")
    /\ UNCHANGED <<hooked, refs, dir, tree, runs, calls, swapped>>

-----------------------------------------------------------------------------
\* How a command ends.

\* A deploy that worked: the next ref of a push, or the end.
Deployed(c) ==
    /\ At(c, "ok")
    /\ call' = [call EXCEPT ![c].done = @ + 1,
                            ![c].at = IF call[c].kind = "push" THEN "refs" ELSE "end",
                            ![c].exit = IF call[c].kind = "push" THEN "none" ELSE "ok"]
    /\ UNCHANGED <<hooked, refs, dir, tree, runs, log, lockedBy, calls, last, swapped, faults>>

\* MUTANT: the hook only returns its error, which git ignores.
ReturnDeployFailure(c) ==
    /\ At(c, "error") /\ NoFault
    /\ call' = [call EXCEPT ![c].at = IF call[c].kind = "push" THEN "status" ELSE "end",
                            ![c].exit = IF call[c].kind = "push" THEN "none" ELSE "failed"]
    /\ UNCHANGED <<hooked, refs, dir, tree, runs, log, lockedBy, calls, last, swapped>>

\* An error is written to the push's status file; that may fail too.
RecordDeployFailure(c) ==
    /\ At(c, "error")
    /\ IF call[c].kind = "push"
       THEN \/ NoFault /\ call' = [call EXCEPT ![c].at = "status", ![c].status = "failed"]
            \/ Fault /\ call' = [call EXCEPT ![c].at = "status", ![c].silent = TRUE]
       ELSE NoFault /\ call' = [call EXCEPT ![c].at = "end", ![c].exit = "failed"]
    /\ UNCHANGED <<hooked, refs, dir, tree, runs, log, lockedBy, calls, last, swapped>>

\* A one-shot command ended the process itself.
ProcessExits(c) ==
    /\ At(c, "exit")
    /\ call' = [call EXCEPT ![c].at = IF call[c].kind = "push" THEN "status" ELSE "end",
                            ![c].silent = TRUE,
                            ![c].exit = IF call[c].kind = "push" THEN "none" ELSE "failed"]
    /\ UNCHANGED <<hooked, refs, dir, tree, runs, log, lockedBy, calls, last, swapped, faults>>

\* git ignores the status of post-receive; the status file decides.
PushExitCode(c) ==
    /\ At(c, "status")
    /\ call' = [call EXCEPT ![c].at = "end", ![c].exit = IF call[c].status = "empty" THEN "ok" ELSE "failed"]
    /\ UNCHANGED <<hooked, refs, dir, tree, runs, log, lockedBy, calls, last, swapped, faults>>

Killed(c) ==
    /\ call[c].at \notin {"none", "end", "status", "push"} /\ Fault
    /\ lockedBy' = IF lockedBy = c THEN "none" ELSE lockedBy
    /\ last' = IF lockedBy = c THEN "failed" ELSE last
    /\ call' = [call EXCEPT ![c].at = IF call[c].kind = "push" THEN "status" ELSE "end",
                            ![c].silent = TRUE]
    /\ runs' \in IF At(c, "workers") THEN {runs, AnyRev} ELSE {runs}
    /\ UNCHANGED <<hooked, refs, dir, tree, log, calls, swapped>>

DoDeploy(c) ==
    \/ AppExists(c) \/ AcquireLock(c) \/ SyncAppRepo(c)
    \/ LoadEnv(c) \/ ReadWorkers(c) \/ ReadScaling(c) \/ RunPreflight(c) \/ RunHook(c)
    \/ DetectRuntime(c) \/ BuildWithPlugin(c) \/ RunRelease(c) \/ WriteLiveEnv(c)
    \/ CreateWorkers(c) \/ SpawnApp(c) \/ FinishDeploy(c)

PushNext ==
    \E c \in Callers :
        \/ BeginPush(c) \/ BeginCommand(c)
        \/ ReceivePack(c) \/ LinkExternalRepo(c) \/ DeployPushedRefs(c) \/ CloneApp(c)
        \/ Rollback(c) \/ CmdDeploy(c) \/ DeployFromPath(c) \/ RenameDir(c) \/ ExtractBareRepo(c)
        \/ DoDeploy(c)
        \/ Deployed(c) \/ RecordDeployFailure(c) \/ ProcessExits(c) \/ PushExitCode(c)
        \/ Killed(c)

PushSpec == PushInit /\ [][PushNext]_pushVars

-----------------------------------------------------------------------------
\* A push that exits 0 has deployed every ref it pushed, whatever ran beside it,
\* unless the hook's process ended before it could say otherwise.
PushTellsTruth ==
    \A c \in Callers :
        (call[c].kind = "push" /\ call[c].exit = "ok" /\ ~call[c].silent) => call[c].done = call[c].asked

\* When nobody deploys and the last deploy went through, the current release is
\* the revision that runs, so that a rollback starts from it, unless a command
\* has swapped the directory under a running deploy or that deploy was of files of
\* no commit.
ReleaseIsWhatRuns ==
    (lockedBy = "none" /\ last = "ok" /\ ~swapped) => log # <<>> /\ log[Len(log)] = runs

\* What a push and the release log say of a deploy is what was deployed.
DeploysToldTruly == PushTellsTruth /\ ReleaseIsWhatRuns

\* A failed deploy makes the push exit non-zero.  Not so: the language runtimes end
\* the hook's process where the deploy stands, and no failure is recorded.
PushReportsFailure ==
    \A c \in Callers : (call[c].kind = "push" /\ call[c].exit = "ok") => call[c].done = call[c].asked

\* The hook that a deploy from a bare repository sets up deploys later pushes.  Not
\* so: the app directory it leaves is no clone.
HookedAppTakesPushes ==
    \A c \in Callers : ~(At(c, "clone") /\ dir = "files" /\ tree # NoRev /\ hooked)
=============================================================================
