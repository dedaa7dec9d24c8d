----------------------- MODULE MC_OptimisationWorkflow -----------------------
(***************************************************************************)
(* Instances of OptimisationWorkflow for TLC.                              *)
(***************************************************************************)
EXTENDS OptimisationWorkflow, TLC

CONSTANTS downsize, delete, vol, db

\* Two actions suggested for one resource.
OneResource == [i \in Instances |-> vol]
=============================================================================
