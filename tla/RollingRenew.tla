----------------------------- MODULE RollingRenew -----------------------------
(***************************************************************************)
(* Rolling together with `riku router-renew`, which acme.sh runs whenever  *)
(* it has renewed a certificate (riku-deploy/src/router/renew.rs).  It     *)
(* lists the app's backends and publishes them as a deploy does, but it    *)
(* takes no deploy lock, so a run of Rolling may go on between the two.    *)
(***************************************************************************)
EXTENDS Rolling

VARIABLES
  listed,  \* the backends a renewal has listed and not published yet
  alone    \* no renewal was under way since the current run began

renewVars == <<vars, listed, alone>>

RenewInit == Init /\ listed = {} /\ alone = TRUE

(* routed_backends: the running containers, proven or not, or every worker *)
(* config.  An app without any is refused.                                 *)
CurrentBackends == IF Runtime = "container" THEN up ELSE exists

RenewLists ==
  /\ listed = {}
  /\ CurrentBackends # {}
  /\ listed' = CurrentBackends
  /\ alone' = FALSE
  /\ UNCHANGED vars

(* apply_nginx_site: the router confirms the listed backends. *)
RenewApplies ==
  /\ listed # {}
  /\ routes' = listed
  /\ listed' = {}
  /\ UNCHANGED <<alone, pc, run, job, exists, up, proven>> /\ UNCHANGED planVars

(* The renewal fails before the router has the new route. *)
RenewFails ==
  /\ listed # {}
  /\ listed' = {}
  /\ UNCHANGED alone /\ UNCHANGED vars

(* A step of Rolling; a run that begins while no renewal is under way is   *)
(* alone until one lists the backends.                                     *)
Deploying ==
  /\ Next
  /\ alone' = IF run' # run THEN listed = {} ELSE alone
  /\ UNCHANGED listed

RenewNext == Deploying \/ RenewLists \/ RenewApplies \/ RenewFails

RenewSpec == RenewInit /\ [][RenewNext]_renewVars

(* Whatever a stale renewal published, the next replacement that no        *)
(* renewal runs beside leaves the router with exactly the copies that run, *)
(* although its Ok depends only on its own calls.                          *)
NextRunRepairs ==
  [][pc' = "done" /\ job'.op = "replace_all" /\ alone' => routes' = exists']_renewVars
=============================================================================
