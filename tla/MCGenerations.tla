----------------------------- MODULE MCGenerations -----------------------------
(***************************************************************************)
(* One worker and five configs: one without a health check (the fourth)    *)
(* and one whose process never answers (the third).  A hot reload writes   *)
(* the same config again, so the first three share a port, which the       *)
(* stable process answers on while a canary is probed; the last two have   *)
(* another, as after PORT was set.                                         *)
(***************************************************************************)
EXTENDS Generations

PortsOfReloads == [c \in Configs |-> IF c <= 3 THEN 1 ELSE 2]
=============================================================================
