------------------------------ MODULE MCRolling ------------------------------
(***************************************************************************)
(* Instances of Rolling for TLC.  Three runs in a row let the first one    *)
(* build the service, the second one fail somewhere, and the third one     *)
(* find what was left; want up to 2 has a surplus copy, an old copy to     *)
(* replace and a copy to add in one run.                                   *)
(***************************************************************************)
EXTENDS Rolling

BothOrders == {"Overlap", "StopFirst"}
=============================================================================
