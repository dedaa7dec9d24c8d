----------------------------- MODULE MC_Pipeline -----------------------------
(***************************************************************************)
(* Instances of Pipeline for TLC.                                          *)
(***************************************************************************)
EXTENDS Pipeline, TLC

CONSTANTS l1, l2, fixed, blank, garbled, untagged, unknown, long, i1, i2,
          b1, b2, cc1, cc2, cc3, t1, t2, ec2, h1, h2, r1, r2

\* fixed is l2 with another cost center: the same ID in another row.  unknown
\* has the ID of l1 and a tag nobody owns.
AllLines == {l1, l2, fixed, blank, garbled, untagged, unknown, long}
Tags == [l \in AllLines |-> CASE l = l1 -> cc1 [] l \in {l2, long} -> cc2
                              [] l = fixed -> cc1 [] l = unknown -> cc3
                              [] OTHER -> NoTag]
ItemIds == [l \in AllLines |-> IF l \in {l2, fixed} THEN i2 ELSE i1]
SeedOrder == <<cc1, cc2>>
Teams == cc1 :> t1 @@ cc2 :> t2

\* b1 and b2 have every kind of line; b2 has an ID of b1 again, corrects
\* a line of b1 and stops at a line that is too long.
MixedBatches ==
  b1 :> <<l1, l2>> @@ b2 :> <<blank, untagged, garbled, unknown, fixed, long>>

OneDay == [l \in AllLines |-> 1]
OneService == [l \in AllLines |-> ec2]
Cents == [l \in AllLines |-> 1]
=============================================================================
