---------------------------- MODULE RollupLedger ----------------------------
(***************************************************************************)
(* What rollup-svc promises about spend and alerts, without handlers,      *)
(* ETags, markers or faults: a line item that was submitted may enter the  *)
(* ledger once, under one of the payloads submitted with its id and in     *)
(* the row that payload names, entries are never changed, and a row with   *)
(* an entry may be announced as an anomaly once.                           *)
(***************************************************************************)
EXTENDS Integers

CONSTANTS Events, LineId, EventKey, Key

VARIABLES
  submitted,  \* events published to line-item.enriched
  ledger,     \* per row, how often each event was added
  announced   \* per row, anomaly.detected events

vars == <<submitted, ledger, announced>>

Entered(id) == \E e \in Events : LineId[e] = id /\ ledger[EventKey[e]][e] > 0

Init ==
  /\ submitted = {}
  /\ ledger = [k \in Key |-> [e \in Events |-> 0]]
  /\ announced = [k \in Key |-> 0]

Submit(e) ==
  /\ submitted' = submitted \cup {e}
  /\ UNCHANGED <<ledger, announced>>

Enter(e) ==
  /\ e \in submitted
  /\ ~Entered(LineId[e])
  /\ ledger' = [ledger EXCEPT ![EventKey[e]] = [@ EXCEPT ![e] = 1]]
  /\ UNCHANGED <<submitted, announced>>

Announce(k) ==
  /\ announced[k] = 0
  /\ \E e \in Events : ledger[k][e] > 0
  /\ announced' = [announced EXCEPT ![k] = 1]
  /\ UNCHANGED <<submitted, ledger>>

Next ==
  \/ \E e \in Events : Submit(e) \/ Enter(e)
  \/ \E k \in Key : Announce(k)

Spec == Init /\ [][Next]_vars
=============================================================================
