----------------------------- MODULE MCGateway -----------------------------
(***************************************************************************)
(* Gateway on a small instance: one session suffices, because sessions meet *)
(* only in their runners; two requests can be about it at the same time.   *)
(***************************************************************************)
EXTENDS Gateway
=============================================================================
