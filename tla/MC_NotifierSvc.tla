--------------------------- MODULE MC_NotifierSvc ---------------------------
(***************************************************************************)
(* Instances of NotifierSvc for TLC.                                       *)
(***************************************************************************)
EXTENDS NotifierSvc, TLC

CONSTANTS t1, t2, r1, odd
=============================================================================
