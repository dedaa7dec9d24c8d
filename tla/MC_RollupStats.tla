---------------------------- MODULE MC_RollupStats ----------------------------
(***************************************************************************)
(* Instances of RollupStats for TLC.                                       *)
(***************************************************************************)
EXTENDS RollupStats, MC_RollupSvc

\* A scan that visits a pair twice, as two cost centers of one team make it
\* do.
TwiceGrid == <<g, g>>

\* A row and its baseline of two days move while a scan is under way: day 3
\* costs 2, 4 or 6, day 2 costs 6 and day 1 costs 1.  Day 3 at 4 is not over
\* 150% of days 1 and 2, but over 150% of day 1 alone: a scan that has read
\* day 2 before it was written, and day 1 after, announces what never was.
\* e1 is e0 with another day: only the first of them counts.
MovingDays == {1, 2, 3}
MovingEvents == {e0, e1, e2, e3}
MovingLineId == e0 :> i0 @@ e1 :> i0 @@ e2 :> i1 @@ e3 :> i2
MovingKey == e0 :> <<3, g>> @@ e1 :> <<2, g>> @@ e2 :> <<1, g>> @@ e3 :> <<3, g>>
MovingCost == e0 :> 2 @@ e1 :> 6 @@ e2 :> 1 @@ e3 :> 4
=============================================================================
