---------------------------- MODULE MC_RollupSvc ----------------------------
(***************************************************************************)
(* Instances of RollupSvc for TLC.                                         *)
(***************************************************************************)
EXTENDS RollupSvc, TLC

CONSTANTS e0, e1, e2, e3, bad, i0, i1, i2, g, q, h1, h2, s1

TwoHandlers == {h1, h2}
OneScanner == {s1}
NoScanners == {}
NoGrid == <<>>

\* Applying: e1 and e2 carry the same id but belong to different rows (a
\* corrected line item posted again); e0, e2 and e3 meet in one row.
ApplyEvents == {e0, e1, e2, e3}
ApplyLineId == e0 :> i0 @@ e1 :> i1 @@ e2 :> i1 @@ e3 :> i2
ApplyKey == [e \in ApplyEvents |-> IF e = e1 THEN <<1, g>> ELSE <<1, q>>]
ApplyCost == [e \in ApplyEvents |-> 1]
ApplyDays == {1}
ApplyGroups == {g, q}

\* Detecting: day 1 costs 2, day 2 costs 2 + 2 and only the second event puts
\* it over 150% of its baseline.
DetectEvents == {e0, e1, e2}
DetectLineId == e0 :> i0 @@ e1 :> i1 @@ e2 :> i2
DetectKey == e0 :> <<1, g>> @@ e1 :> <<2, g>> @@ e2 :> <<2, g>>
DetectCost == [e \in DetectEvents |-> 2]
DetectDays == {1, 2}
DetectGroups == {g}
DetectGrid == <<g>>

\* A poison message next to two good ones.
PoisonEvents == {e0, e1, e2, bad}
PoisonLineId == DetectLineId @@ bad :> i0
PoisonKey == DetectKey @@ bad :> <<1, g>>
PoisonCost == [e \in PoisonEvents |-> 2]
OnlyBad == {bad}

\* The handlers are alike, and so are the two events of day 2 with their IDs.
Swaps == {e1 :> e1 @@ e2 :> e2 @@ i1 :> i1 @@ i2 :> i2,
          e1 :> e2 @@ e2 :> e1 @@ i1 :> i2 @@ i2 :> i1}
Alike == {p @@ r : p \in Permutations(Handlers), r \in Swaps}
=============================================================================
