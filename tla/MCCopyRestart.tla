--------------------------- MODULE MCCopyRestart ---------------------------
(***************************************************************************)
(* Two slots, so that a failed restart may leave another copy serving.     *)
(***************************************************************************)
EXTENDS CopyRestart

MCSlots == 1..2
=============================================================================
