--------------------------- MODULE WorkflowCatalog ---------------------------
(***************************************************************************)
(* What triage-svc and its engine promise about workflow instances.  An ID *)
(* is started while no workflow runs under it: for the first time, or anew *)
(* after the end of the one before if the engine reuses such IDs.  However *)
(* often an ID is started, the catalogue names it at most once: it is a    *)
(* list of IDs that were started, in no particular order, that only grows  *)
(* at its end.                                                             *)
(***************************************************************************)
EXTENDS Naturals, Sequences

CONSTANTS Instances, Reuses

VARIABLES
  started,  \* the IDs that were ever started
  running,  \* those a workflow runs under
  ids       \* the catalogue

Init == started = {} /\ running = {} /\ ids = <<>>

Start(i) ==
  /\ i \notin started
  /\ started' = started \cup {i}
  /\ running' = running \cup {i}
  /\ UNCHANGED ids

StartAnew(i) ==
  /\ Reuses
  /\ i \in started \ running
  /\ running' = running \cup {i}
  /\ UNCHANGED <<started, ids>>

End(i) ==
  /\ i \in running
  /\ running' = running \ {i}
  /\ UNCHANGED <<started, ids>>

Catalogue(i) ==
  /\ i \in started
  /\ \A n \in 1..Len(ids) : ids[n] # i
  /\ ids' = Append(ids, i)
  /\ UNCHANGED <<started, running>>

Next ==
  \E i \in Instances : Start(i) \/ StartAnew(i) \/ End(i) \/ Catalogue(i)

Spec == Init /\ [][Next]_<<started, running, ids>>
=============================================================================
