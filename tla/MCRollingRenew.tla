---------------------------- MODULE MCRollingRenew ----------------------------
(***************************************************************************)
(* Instances of RollingRenew: a first run builds the service, a renewal    *)
(* overlaps the second, and a third one finds the routes it left.          *)
(***************************************************************************)
EXTENDS RollingRenew

BothOrders == {"Overlap", "StopFirst"}
=============================================================================
