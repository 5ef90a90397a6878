------------------------------- MODULE Budget -------------------------------
(***************************************************************************)
(* The failures and kills that a behaviour may still have, shared by the   *)
(* modules of the host's commands and daemons.                             *)
(***************************************************************************)
EXTENDS Naturals

CONSTANT MaxFaults      \* bound: failed calls and killed processes

VARIABLE faults

Fault == faults < MaxFaults /\ faults' = faults + 1
NoFault == UNCHANGED faults
=============================================================================
