---------------------------- MODULE MCLifecycle ----------------------------
(* Small instances of the pipeline lifecycle for TLC.                      *)
EXTENDS Lifecycle
=============================================================================
