------------------------------ MODULE AppFiles ------------------------------
(***************************************************************************)
(* What one app has on the host, from riku apps create over deploys and    *)
(* restores to riku destroy: its directories, worker configs, site,        *)
(* certificates and containers.  Any command may fail or be killed between *)
(* two files, and the next one starts from what is left.  Only the removal *)
(* of containers and a restore take the deploy lock.                       *)
(***************************************************************************)
EXTENDS Budget, Sequences, FiniteSets

CONSTANTS MaxCommands   \* bound: commands

VARIABLES
    files,      \* the pieces of the app that are there
    containerApp, \* the app has a compose file
    engineUp,   \* the container engine answers
    archive,    \* pieces in the backup, {} for none
    deploying,  \* pieces that a deploy under way still has to write
    destroying, \* steps that a destroy under way still has to take
    force,      \* its mode
    holder,     \* who holds the deploy lock
    raced,      \* history: a deploy or a restore ran beside a destroy
    commands

appVars == <<files, containerApp, engineUp, archive, deploying, destroying, force, holder, raced,
             commands, faults>>

\* In the order destroy removes them.
DestroySteps == <<"containers", "plugin", "route", "enabled", "available", "repo link", "env", "git",
                  "log", "acme certs", "acme link", "static", "app">>
Components == {"app", "env", "data", "repo"}
Kept == {"data", "repo"}
Pieces == {DestroySteps[i] : i \in DOMAIN DestroySteps} \union Kept

AppInit ==
    /\ files = {} /\ containerApp \in BOOLEAN /\ engineUp = TRUE /\ archive = {}
    /\ deploying = <<>> /\ destroying = <<>> /\ force = FALSE /\ holder = "none" /\ raced = FALSE
    /\ commands = 0 /\ faults = 0

Command == commands < MaxCommands /\ commands' = commands + 1
Unlock(who) == holder' = IF holder = who THEN "none" ELSE holder
Beside == raced' = (raced \/ destroying # <<>> \/ deploying # <<>>)

EngineChanges ==
    /\ Fault /\ engineUp' = ~engineUp
    /\ UNCHANGED <<files, containerApp, archive, deploying, destroying, force, holder, raced, commands>>

\* The directory, then the repository and its hook; a failure leaves what was made.
CmdAppsCreate ==
    /\ "app" \notin files /\ Command
    /\ \/ NoFault /\ files' = files \union {"app", "repo"}
       \/ Fault /\ \E made \in {{"app"}, {}} : files' = files \union made
    /\ UNCHANGED <<containerApp, engineUp, archive, deploying, destroying, force, holder, raced>>

DeployWrites ==
    IF containerApp THEN <<"log", "env", "containers", "route">>
                    ELSE <<"log", "env", "plugin", "available", "enabled", "route", "static">>

BeginDeploy ==
    /\ "app" \in files /\ holder = "none" /\ deploying = <<>> /\ Command
    /\ holder' = "deploy" /\ deploying' = DeployWrites /\ Beside
    /\ UNCHANGED <<files, containerApp, engineUp, archive, destroying, force, faults>>

DeployStep ==
    /\ deploying # <<>>
    /\ \/ /\ NoFault
          /\ files' = files \union {Head(deploying)}
                        \union (IF Head(deploying) = "route" THEN {"acme certs", "acme link"} ELSE {})
          /\ deploying' = Tail(deploying)
          /\ IF Len(deploying) = 1 THEN Unlock("deploy") ELSE UNCHANGED holder
       \/ Fault /\ deploying' = <<>> /\ Unlock("deploy") /\ UNCHANGED files
    /\ UNCHANGED <<containerApp, engineUp, archive, destroying, force, raced, commands>>

\* A push through an external repository makes a link instead of a repository.
EnsureRepoSymlink ==
    /\ "repo" \notin files /\ "repo link" \notin files /\ Command
    /\ files' = files \union {"repo link", "app"} /\ Beside
    /\ UNCHANGED <<containerApp, engineUp, archive, deploying, destroying, force, holder, faults>>

Backup ==
    /\ files \intersect Components # {} /\ Command
    /\ \/ NoFault /\ archive' = files \intersect Components
       \/ Fault /\ UNCHANGED archive
    /\ UNCHANGED <<files, containerApp, engineUp, deploying, destroying, force, holder, raced>>

\* tar extracts over what is there; the app directory comes first in the archive.
Restore ==
    /\ archive # {} /\ holder = "none" /\ Command /\ Beside
    /\ \/ NoFault /\ files' = files \union archive
       \/ Fault /\ \E got \in SUBSET archive :
            files' = files \union got /\ (got # {} /\ "app" \in archive => "app" \in got)
    /\ UNCHANGED <<containerApp, engineUp, archive, deploying, destroying, force, holder>>

-----------------------------------------------------------------------------
\* Destroy.  It is refused for an app without a directory.
CmdDestroy ==
    /\ "app" \in files /\ destroying = <<>> /\ Command
    /\ destroying' = DestroySteps /\ force' \in BOOLEAN
    /\ raced' = (raced \/ deploying # <<>>)
    /\ UNCHANGED <<files, containerApp, engineUp, archive, deploying, holder, faults>>

Next1 == destroying' = Tail(destroying)
Stop1 == destroying' = <<>>
AtStep(s) == destroying # <<>> /\ Head(destroying) = s
Rest1 == UNCHANGED <<containerApp, engineUp, archive, deploying, force, raced, commands, holder>>

\* MUTANT: an engine that does not answer is no reason to stop.
ContainerCleanupGoesOn ==
    /\ AtStep("containers") /\ NoFault
    /\ files' = IF engineUp THEN files \ {"containers"} ELSE files
    /\ Next1 /\ Rest1

\* Only for a container app, under the lock; an engine that does not answer stops
\* destroy unless it is forced, and so does any other failure.
ContainerCleanup ==
    /\ AtStep("containers")
    /\ \/ ~containerApp /\ NoFault /\ Next1 /\ UNCHANGED files
       \/ containerApp /\ holder # "none" /\ NoFault /\ Stop1 /\ UNCHANGED files
       \/ containerApp /\ holder = "none" /\ engineUp /\ NoFault /\ Next1 /\ files' = files \ {"containers"}
       \/ containerApp /\ holder = "none" /\ engineUp /\ Fault /\ Stop1 /\ files' \in {files, files \ {"containers"}}
       \/ containerApp /\ holder = "none" /\ ~engineUp /\ NoFault /\ UNCHANGED files
          /\ IF force THEN Next1 ELSE Stop1
    /\ Rest1

\* What the plugin started is its own affair: a failure is only shown.
PluginCleanup ==
    /\ AtStep("plugin")
    /\ (NoFault /\ files' = files \ {"plugin"}) \/ (Fault /\ UNCHANGED files)
    /\ Next1 /\ Rest1

RemoveRoute ==
    /\ AtStep("route")
    /\ (NoFault /\ files' = files \ {"route"} /\ Next1) \/ (Fault /\ UNCHANGED files /\ Stop1)
    /\ Rest1

\* Enabled links first: their configs say whose they are.
RemoveWorkerConfigs ==
    /\ destroying # <<>> /\ Head(destroying) \in {"enabled", "available"}
    /\ (NoFault /\ files' = files \ {Head(destroying)} /\ Next1) \/ (Fault /\ UNCHANGED files /\ Stop1)
    /\ Rest1

\* Only a link goes, never a repository.
RemoveRepoLink ==
    /\ AtStep("repo link")
    /\ (NoFault /\ files' = files \ {"repo link"} /\ Next1) \/ (Fault /\ UNCHANGED files /\ Stop1)
    /\ Rest1

RemoveDirIfPresent ==
    /\ destroying # <<>> /\ Head(destroying) \in {"env", "git", "log", "static"}
    /\ (NoFault /\ files' = files \ {Head(destroying)} /\ Next1) \/ (Fault /\ UNCHANGED files /\ Stop1)
    /\ Rest1

\* A link whose certificates are gone already does not "exist" and stays; one that
\* cannot be removed is only warned about.
RemoveAcmeCerts ==
    /\ destroying # <<>> /\ Head(destroying) \in {"acme certs", "acme link"}
    /\ \/ AtStep("acme certs") /\ {"acme certs", "acme link"} \subseteq files
          /\ ((NoFault /\ files' = files \ {"acme certs"} /\ Next1) \/ (Fault /\ UNCHANGED files /\ Stop1))
       \/ AtStep("acme certs") /\ ~({"acme certs", "acme link"} \subseteq files)
          /\ NoFault /\ UNCHANGED files /\ destroying' = Tail(Tail(destroying))
       \/ AtStep("acme link") /\ Next1
          /\ ((NoFault /\ files' = files \ {"acme link"}) \/ (Fault /\ UNCHANGED files))
    /\ Rest1

RemoveAppDir ==
    /\ AtStep("app")
    /\ (NoFault /\ files' = files \ {"app"} /\ Next1) \/ (Fault /\ UNCHANGED files /\ Stop1)
    /\ Rest1

KillCommand ==
    /\ Fault
    /\ \/ deploying # <<>> /\ deploying' = <<>> /\ Unlock("deploy") /\ UNCHANGED destroying
       \/ destroying # <<>> /\ destroying' = <<>> /\ UNCHANGED <<deploying, holder>>
    /\ UNCHANGED <<files, containerApp, engineUp, archive, force, raced, commands>>

AppNext ==
    \/ EngineChanges \/ CmdAppsCreate \/ BeginDeploy \/ DeployStep \/ EnsureRepoSymlink
    \/ Backup \/ Restore \/ CmdDestroy \/ ContainerCleanup \/ PluginCleanup \/ RemoveRoute
    \/ RemoveWorkerConfigs \/ RemoveRepoLink \/ RemoveDirIfPresent \/ RemoveAcmeCerts
    \/ RemoveAppDir \/ KillCommand

AppSpec == AppInit /\ [][AppNext]_appVars

-----------------------------------------------------------------------------
Destroyable == Pieces \ (Kept \union {"plugin", "acme link"})

\* Destroy can be run again after it failed or was killed at any file: the app's
\* directory, without which it is refused, goes only when nothing else is left to
\* remove but what a plugin kept, containers of an engine that a forced destroy
\* could not reach and a dangling certificate link, unless a deploy ran beside it.
DirectoryGoesLast ==
    [][("app" \in files /\ "app" \notin files' /\ ~raced)
        => files' \intersect Destroyable \subseteq (IF force THEN {"containers"} ELSE {})]_appVars
=============================================================================
