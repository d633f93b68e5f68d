-------------------------- MODULE MCFeedExecution --------------------------
(* Two executions of one feed that may overlap. *)
EXTENDS FeedExecution, TLC
=============================================================================
