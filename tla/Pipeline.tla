------------------------------- MODULE Pipeline -------------------------------
(***************************************************************************)
(* The way of a line item from POST /ingest into its rollup: ingest-svc    *)
(* and rollup-svc, joined by the topic line-item.enriched.                 *)
(*                                                                         *)
(* The two services share the variable published and nothing else: every   *)
(* publication of ingest-svc is a Publish step of RollupSvc, and all other *)
(* steps are steps of one service alone.  They fail and restart on their   *)
(* own.  The rows are those that Enrich and FromLineItem give a line       *)
(* (services/shared/finops/enrich.go, lineitem.go, rollup.go).             *)
(***************************************************************************)
EXTENDS IngestSvc

CONSTANTS
  DayOf, ServiceOf, CostUSD,  \* fields of the line items that decode
  TeamOf,                    \* team_id of a cost center of the seed
  Subscribers,               \* goroutines of rollup-svc
  MaxETagRetries,            \* attempts of rollup-svc at a merge
  MaxRollupFaults            \* bound: faults of rollup-svc

ASSUME SubscribersAssumption ==
  IsFiniteSet(Subscribers) /\ MaxETagRetries \in Nat \ {0}

ASSUME ItemsAssumption ==
  /\ IsFiniteSet(Items) /\ IsFiniteSet(Bodies)
  /\ \A l \in Items : DayOf[l] \in Int /\ CostUSD[l] \in Int
  /\ MaxRollupFaults \in Nat

VARIABLES queue, acked, processed, rollup, marker, announced, subscriber, job,
          probe, scan, scans, rollupFaults, exhausted, tripped, late, torn,
          reported  \* history: IDs of owned lines in batches without a failure

rollupSide == <<queue, acked, processed, rollup, marker, announced, subscriber,
                job, probe, scan, scans, rollupFaults, exhausted, tripped, late,
                torn>>

\* Enrich fails for a tag nobody owns, so that such a line is not published.
Team(l) == IF CenterOf[l] \in Centers THEN TeamOf[CenterOf[l]] ELSE NoTag

RowOf(l) == <<DayOf[l], <<Team(l), ServiceOf[l]>>>>

\* Everything RollupSvc is given, as constants that are evaluated once.
RowOfItem   == [l \in Items |-> RowOf(l)]
IdOfItem    == [l \in Items |-> ItemId[l]]
CostOfItem  == [l \in Items |-> CostUSD[l]]
ItemDays    == {DayOf[l] : l \in Items}
ItemGroups  == {RowOf(l)[2] : l \in Items}
ItemCopies  == MaxPosts * Cardinality(Bodies)

Rollup == INSTANCE RollupSvc WITH
  Events <- Items, Malformed <- {}, LineId <- IdOfItem,
  Days <- ItemDays, Groups <- ItemGroups,
  EventKey <- RowOfItem, EventCost <- CostOfItem,
  Handlers <- Subscribers, Scanners <- {}, Grid <- <<>>,
  BaselineDays <- 0, PctNum <- 3, PctDen <- 2,
  MinBaselineUSD <- 10, MaxCopies <- ItemCopies,
  MaxScans <- 0, MaxFaults <- MaxRollupFaults, NoEvent <- NoLine,
  pc <- subscriber, faults <- rollupFaults

\* This handler is about to answer for a batch in which nothing failed and
\* which has an owned item with this ID before the place it stopped at.
ReportsAll(h, id) ==
  /\ AtEnd(h)
  /\ batch[h]["failed"] = 0
  /\ \E n \in 1..pos[h] : LET l == Batch[body[h]][n] IN
       l \in Items /\ ~Unowned(l) /\ ItemId[l] = id

PipelineInit == Init /\ Rollup!Init /\ reported = {}

\* A publication that reaches the broker is on the queue of the subscriber.
IngestStep ==
  /\ Next
  /\ \/ published' = published /\ UNCHANGED rollupSide
     \/ \E l \in Items : Rollup!Publish(l)

RollupStep == UNCHANGED vars /\ Rollup!Next

Observe == reported' = reported \cup {id \in Ids : \E h \in Handlers : ReportsAll(h, id)}

PipelineNext == (IngestStep \/ RollupStep) /\ Observe

PipelineSpec ==
  /\ PipelineInit
  /\ [][PipelineNext]_<<vars, rollupSide, reported>>
  /\ Fairness

Counted(id) == Rollup!CountedAs(id) # {}

(***************************************************************************)
(* Properties                                                              *)
(***************************************************************************)
\* main.go:101-109: whatever fails, is posted again or corrected, a rollup
\* contains only items that can be looked up in the store, in the row of the
\* team that owns them and the service they name.
CountedIsBacked ==
  \A l \in Items, k \in Rollup!Key : rollup[k].merged[l] > 0 =>
    /\ stored[ItemId[l]] # NoLine
    /\ ~Unowned(l)
    /\ k = <<DayOf[l], <<TeamOf[CenterOf[l]], ServiceOf[l]>>>>

\* At rest, a batch that reported no failure is counted in full, under the IDs
\* of its lines, and so are the lines before one that stopped the scanner.
\* What comes in between is a fault of rollup-svc, or a merge that lost the
\* race for its row as often as it is tried: its event is marked processed
\* then, and lost (rollup main.go:365, 409).
CleanBatchIsCounted ==
  Rollup!Quiet =>
    \A id \in reported : Counted(id) \/ exhausted \/ rollupFaults > 0
=============================================================================
