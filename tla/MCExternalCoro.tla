--------------------------- MODULE MCExternalCoro ---------------------------
(* Chains of every mixture of kinds, up to a bounded length. *)
EXTENDS ExternalCoro
=============================================================================
