----------------------------- MODULE MCDeployLock -----------------------------
(***************************************************************************)
(* Two deploys, one other operation, one restart and one probe contend for *)
(* one app's lock.  A grace of 1 tick and a restart wait of 2 leave room   *)
(* for waits below, between and beyond the two limits.                     *)
(***************************************************************************)
EXTENDS DeployLock

CONSTANTS d1, d2, o1, r1, q1
=============================================================================
