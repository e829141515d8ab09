-------------------------- MODULE MCBatchProcessor --------------------------
(* A queue to which at most MaxPosts elements are posted. *)
EXTENDS BatchProcessor
=============================================================================
