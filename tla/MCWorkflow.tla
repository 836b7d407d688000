----------------------------- MODULE MCWorkflow -----------------------------
(* Small instances of the saga for TLC.                                    *)
EXTENDS Workflow
=============================================================================
