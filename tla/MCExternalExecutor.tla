------------------------- MODULE MCExternalExecutor -------------------------
(* Two runners, one foreign poster and three work items. *)
EXTENDS ExternalExecutor
=============================================================================
