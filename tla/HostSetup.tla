------------------------------ MODULE HostSetup ------------------------------
(***************************************************************************)
(* "riku init" (riku-cli setup/): what it puts on a host, step by step, as *)
(* root or as the deploy user, for nginx, Caddy or a router plugin.  It    *)
(* may fail or be killed between any two steps, it may be run again, with  *)
(* a newer binary or for another router, and the host may reboot.          *)
(*                                                                         *)
(* A binary is the number of the run that brought it; a run may also be    *)
(* one of the installed binary.  The host may not run systemd.             *)
(***************************************************************************)
EXTENDS Budget

CONSTANTS
    MaxInits,       \* bound: runs of riku init
    MaxReboots      \* bound: reboots

Routers == {"nginx", "caddy", "plugin"}

VARIABLES
    hstep,      \* where the run is; "idle" between runs
    asRoot,     \* it is root's
    want,       \* RIKU_ROUTER, or "unset"
    withUnits,  \* no --no-systemd
    image,      \* the binary that runs
    ended,      \* how the last run ended
    inits, reboots,
    routerFile, \* the ROUTER file: a router, or "none"
    binary,     \* the installed binary, 0 when there is none
    host,       \* what is in place
    stale,      \* what older versions left behind
    helper,     \* the binary that the running router helper was started from
    service,    \* the same of the supervisor
    caddy,      \* Caddy's admin endpoint: "port", "socket" or "down"
    systemd,    \* the host runs systemd
    tmpfiles,   \* it has systemd-tmpfiles
    confd       \* it has nginx's include directory
setupState == <<hstep, asRoot, want, withUnits, image, ended, inits, reboots, routerFile, binary,
                host, stale, helper, service, caddy, systemd, tmpfiles, confd>>
setupVars == <<setupState, faults>>

SetupInit ==
    /\ hstep = "idle" /\ asRoot = TRUE /\ want = "unset" /\ withUnits = TRUE /\ image = 0 /\ ended = "none"
    /\ inits = 0 /\ reboots = 0 /\ routerFile = "none" /\ binary = 0 /\ host = {}
    /\ stale \in {{}, {"user binary", "deploy files", "foreign sites", "watchers"}}
    /\ helper = 0 /\ service = 0 /\ caddy = "port"
    /\ systemd \in BOOLEAN /\ tmpfiles \in BOOLEAN /\ confd \in BOOLEAN
    /\ faults = 0

Run == <<asRoot, want, withUnits, image, inits, reboots, systemd, tmpfiles, confd>>
Services == <<helper, service, caddy>>
\* Router::load: no file is nginx.
Router == IF routerFile = "none" THEN "nginx" ELSE routerFile

At(here, next) == hstep = here /\ hstep' = next /\ UNCHANGED <<Run, ended>> /\ NoFault
\* A step that puts one thing in place, whatever was there.
Puts(here, thing, next) ==
    /\ At(here, next)
    /\ host' = host \cup {thing}
    /\ UNCHANGED <<routerFile, binary, stale, Services>>
Clears(here, thing, next) ==
    /\ At(here, next)
    /\ stale' = stale \ {thing}
    /\ UNCHANGED <<routerFile, binary, host, Services>>

CmdInit(root, r, units, new) ==
    /\ hstep = "idle" /\ inits < MaxInits
    /\ new \/ binary # 0
    /\ image' = IF new THEN inits + 1 ELSE binary
    /\ hstep' = IF root THEN "binary" ELSE "require"
    /\ asRoot' = root /\ want' = r /\ withUnits' = units
    /\ inits' = inits + 1 /\ ended' = "running"
    /\ UNCHANGED <<reboots, routerFile, binary, host, stale, Services, systemd, tmpfiles, confd>> /\ NoFault

-----------------------------------------------------------------------------
(* root_init, to the steps it runs as the deploy user.                     *)

\* Renamed into place: a service that runs keeps the old one.  The installed binary
\* itself is not copied.
InstallRootBinary ==
    /\ At("binary", "account")
    /\ binary' = image
    /\ UNCHANGED <<routerFile, host, stale, Services>>
EnsureAccount == Puts("account", "account", "router file")
\* A run without root wants the binary there.
RequireRootBinary ==
    /\ binary # 0
    /\ At("require", "router file")
    /\ UNCHANGED <<routerFile, binary, host, stale, Services>>

-----------------------------------------------------------------------------
(* user_init, as the deploy user.                                          *)

PersistRouter ==
    /\ At("router file", "tree")
    /\ routerFile' = IF want = "unset" THEN routerFile ELSE want
    /\ UNCHANGED <<binary, host, stale, Services>>
CreateDirectoryStructure == Puts("tree", "tree", "hook")
CreateGitHook == Puts("hook", "hook", "branch")
SetDefaultBranch == Puts("branch", "branch", IF asRoot THEN "stale binary" ELSE "user service")
RemoveStaleBinary == Clears("stale binary", "user binary", "keys")
SetupUserService ==
    \/ withUnits /\ Puts("user service", "user unit", "keys")
    \/ ~withUnits /\ At("user service", "keys") /\ UNCHANGED <<routerFile, binary, host, stale, Services>>
\* Keys are given, asked for, or left for later.
AfterKeys == IF asRoot THEN "group" ELSE "done"
AddDeployKeys == Puts("keys", "key", AfterKeys)
NoDeployKeys ==
    /\ At("keys", AfterKeys)
    /\ UNCHANGED <<routerFile, binary, host, stale, Services>>

-----------------------------------------------------------------------------
(* The rest of root_init.                                                  *)

EnsureGroup == Puts("group", "socket group", "socket dir")
PrepareSocketRoot == Puts("socket dir", "socket dir", "tmpfiles")
KeepAfterReboot ==
    \/ tmpfiles /\ Puts("tmpfiles", "tmpfiles", "var root")
    \/ ~tmpfiles /\ At("tmpfiles", "var root") /\ UNCHANGED <<routerFile, binary, host, stale, Services>>
SetupVarRoot ==
    Puts("var root", "var root",
         CASE Router = "nginx" -> "clear" [] Router = "caddy" -> "caddy root" [] OTHER -> "units")

\* setup_nginx_host: without the include directory it only warns.
ClearDeployOwnedRouterFiles == Clears("clear", "deploy files", IF confd THEN "nginx root" ELSE "units")
PrepareNginxRoot == Puts("nginx root", "nginx root", "include")
InstallInclude == Puts("include", "include", "worker")
GrantNginxSockets == Puts("worker", "worker in group", "units")

\* setup_caddy_host, whose last step restarts Caddy onto its admin socket.
PrepareCaddyRoot == Puts("caddy root", "caddy root", "foreign")
ClearForeignEntries == Clears("foreign", "foreign sites", "caddyfile")
AddCaddyfileImport == Puts("caddyfile", "caddyfile", "drop-in")
WriteDropIn == Puts("drop-in", "drop-in", "run dir")
\* Before it, systemd reads the drop-in, or the run fails.
CreateRunDir == systemd /\ Puts("run dir", "run dir", "caddy restart")
RestartCaddy ==
    /\ hstep = "caddy restart"
    /\ \/ hstep' = "units" /\ caddy' = "socket" /\ UNCHANGED ended /\ NoFault
       \/ hstep' = "idle" /\ caddy' = "down" /\ ended' = "failed" /\ Fault
    /\ UNCHANGED <<Run, routerFile, binary, host, stale, helper, service>>

\* The units: a plugin router has no helper, and without systemd root is only told
\* how to start it.
SkipUnits ==
    /\ ~withUnits
    /\ At("units", "done")
    /\ UNCHANGED <<routerFile, binary, host, stale, Services>>
ToService ==
    /\ withUnits /\ (Router = "plugin" \/ ~systemd)
    /\ At("units", "service unit")
    /\ UNCHANGED <<routerFile, binary, host, stale, Services>>
WriteHelperUnit ==
    withUnits /\ Router # "plugin" /\ systemd /\ Puts("units", "helper unit", "helper enable")
EnableHelper == Puts("helper enable", "helper enabled", "helper start")
\* restart, not start: it runs the new binary, or dies of it.
RestartHelper ==
    /\ hstep = "helper start" /\ hstep' = "helper check"
    /\ \/ helper' = binary /\ NoFault
       \/ helper' = 0 /\ Fault
    /\ UNCHANGED <<Run, ended, routerFile, binary, host, stale, service, caddy>>
HelperIsActive ==
    /\ helper # 0
    /\ At("helper check", "service unit")
    /\ UNCHANGED <<routerFile, binary, host, stale, Services>>
WriteSystemUnit == Puts("service unit", "service unit", "service start")
\* start_riku_service: start, not restart; no failure of systemctl is an error.
StartRikuService(enabled, started) ==
    /\ hstep = "service start" /\ hstep' = "watchers"
    /\ started => systemd
    /\ host' = IF enabled THEN host \cup {"service enabled"} ELSE host
    /\ service' = IF started /\ service = 0 THEN binary ELSE service
    /\ IF systemd => enabled /\ started THEN NoFault ELSE Fault
    /\ UNCHANGED <<Run, ended, routerFile, binary, stale, helper, caddy>>
RemoveOldWatchers == Clears("watchers", "watchers", "done")

FinishInit ==
    /\ hstep = "done" /\ hstep' = "idle" /\ ended' = "ok"
    /\ UNCHANGED <<Run, routerFile, binary, host, stale, Services>> /\ NoFault
\* What a run cannot go on without: an installed binary, systemd for Caddy, its helper.
Refused ==
    \/ hstep = "require" /\ binary = 0
    \/ hstep = "run dir" /\ ~systemd
    \/ hstep = "helper check" /\ helper = 0
\* MUTANT: the exit code of the steps run as the deploy user is not looked at
FailUnseen ==
    /\ hstep # "idle"
    /\ IF asRoot /\ hstep \in {"router file", "tree", "hook", "branch", "stale binary", "keys"}
         THEN hstep' = "group" /\ UNCHANGED ended
         ELSE hstep' = "idle" /\ ended' = "failed"
    /\ IF Refused THEN NoFault ELSE Fault
    /\ UNCHANGED <<Run, routerFile, binary, host, stale, Services>>
\* A step fails, or the run is killed: what was done stays.
FailInit ==
    /\ hstep # "idle" /\ hstep' = "idle" /\ ended' = "failed"
    /\ IF Refused THEN NoFault ELSE Fault
    /\ UNCHANGED <<Run, routerFile, binary, host, stale, Services>>

-----------------------------------------------------------------------------
\* /run is empty after a reboot, but for what tmpfiles and Caddy's drop-in make;
\* systemd starts the enabled services from the installed binary, and Caddy reads its file.
Kept == IF "tmpfiles" \in host THEN {"socket dir"} ELSE {}
Made == IF systemd /\ "drop-in" \in host THEN {"run dir"} ELSE {}
Reboot ==
    /\ hstep = "idle" /\ reboots < MaxReboots
    /\ reboots' = reboots + 1
    /\ host' = (host \ {"socket dir", "run dir"}) \cup (host \cap Kept) \cup (host \cap Made)
    /\ helper' = IF systemd /\ "helper enabled" \in host THEN binary ELSE 0
    /\ service' = IF systemd /\ "service enabled" \in host THEN binary ELSE 0
    /\ caddy' = IF "caddyfile" \notin host THEN "port" ELSE IF Made # {} THEN "socket" ELSE "down"
    /\ UNCHANGED <<hstep, asRoot, want, withUnits, image, ended, inits, routerFile, binary, stale,
                   systemd, tmpfiles, confd>>
    /\ NoFault

SetupNext ==
    \/ \E root, units, new \in BOOLEAN, r \in Routers \cup {"unset"} : CmdInit(root, r, units, new)
    \/ InstallRootBinary \/ EnsureAccount \/ RequireRootBinary \/ PersistRouter
    \/ CreateDirectoryStructure \/ CreateGitHook \/ SetDefaultBranch \/ RemoveStaleBinary
    \/ SetupUserService \/ AddDeployKeys \/ NoDeployKeys
    \/ EnsureGroup \/ PrepareSocketRoot \/ KeepAfterReboot \/ SetupVarRoot
    \/ ClearDeployOwnedRouterFiles \/ PrepareNginxRoot \/ InstallInclude \/ GrantNginxSockets
    \/ PrepareCaddyRoot \/ ClearForeignEntries \/ AddCaddyfileImport \/ WriteDropIn \/ CreateRunDir
    \/ RestartCaddy \/ SkipUnits \/ ToService \/ WriteHelperUnit \/ EnableHelper \/ RestartHelper
    \/ HelperIsActive \/ WriteSystemUnit \/ (\E e, s \in BOOLEAN : StartRikuService(e, s)) \/ RemoveOldWatchers \/ FinishInit \/ FailInit \/ Reboot

SetupSpec == SetupInit /\ [][SetupNext]_setupVars

-----------------------------------------------------------------------------
Needed ==
    {"account", "tree", "hook", "branch", "socket group", "var root"}
    \cup (IF tmpfiles \/ reboots = 0 THEN {"socket dir"} ELSE {})
    \cup (IF Router = "nginx" /\ confd THEN {"nginx root", "include", "worker in group"} ELSE {})
    \cup (IF Router = "caddy" THEN {"caddy root", "caddyfile", "run dir"} ELSE {})
    \cup (IF withUnits THEN {"service unit"} ELSE {})
\* After a root init that ended well, whatever earlier runs left half done, for
\* whichever router, and after any reboot since: all that this router needs is in
\* place, nothing that older versions left is loaded, Caddy listens on the socket
\* the helper uses, the installed binary is the one that was run, and where systemd
\* runs and the units were wanted, the helper runs that binary too.
InitLeavesHostWhole ==
    hstep = "idle" /\ ended = "ok" /\ asRoot =>
        /\ Needed \subseteq host
        /\ binary = image /\ binary # 0
        /\ Router = "nginx" => "deploy files" \notin stale
        /\ Router = "caddy" => "foreign sites" \notin stale /\ caddy = "socket"
        /\ systemd /\ withUnits /\ Router # "plugin" => helper = binary
=============================================================================
