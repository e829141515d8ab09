------------------------------ MODULE MCServer ------------------------------
(* Server with two acceptors and three connections. *)
EXTENDS Server
=============================================================================
