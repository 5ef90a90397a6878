---------------------------- MODULE MCRouterHelper ----------------------------
(***************************************************************************)
(* Two apps behind one router, nginx or Caddy: a request can find what     *)
(* another one, of its own or of the other app, has left behind.           *)
(***************************************************************************)
EXTENDS RouterHelper

CONSTANTS a1, a2
=============================================================================
