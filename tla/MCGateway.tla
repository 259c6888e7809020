---------------------------- MODULE MCGateway ----------------------------
(* A small instance of Gateway. *)
EXTENDS Gateway
=============================================================================
