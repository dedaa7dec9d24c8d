-------------------------- MODULE MC_TriageWorkflow --------------------------
(***************************************************************************)
(* Instances of TriageWorkflow for TLC.                                    *)
(***************************************************************************)
EXTENDS TriageWorkflow, TLC

CONSTANT w1
=============================================================================
