----------------------- MODULE TriageWorkflow_proofs -----------------------
(***************************************************************************)
(* Proofs about TriageWorkflow, for every set of instances, every set of   *)
(* limits and every bound on acks, faults and roll-outs.                   *)
(*                                                                         *)
(* TypeOK alone is not inductive: the count of an acked instance is        *)
(* round - 1, a number only because a wait belongs to a round.  The other  *)
(* invariants speak about instances that have ended and need to know how   *)
(* they got there.  So all are proved together, a lemma for each.          *)
(***************************************************************************)
EXTENDS TriageWorkflow, TLAPS

Inv == TypeOK /\ WorkflowInv /\ NaggingIsBounded /\ OutcomeIsExact

\* The invariant holds before any instance is started.
LEMMA InitInv == Init => Inv
<1> SUFFICES ASSUME Init PROVE Inv
  OBVIOUS
<1>1. TypeOK
  BY LimitsAssumption, WorkflowBoundsAssumption
  DEF Init, TypeOK, Stage, Ended, Call, Mail, Ack
<1>2. WorkflowInv
  BY LimitsAssumption
  DEF Init, WorkflowInv, RoundsWereNotified, OutcomeWasNotified, Page, renderTriageOutcome,
      LoopIsInLimit,
      AckIsKept, RepeatsHaveACause, QuietRun, NothingHappened, Sent, Ended
<1>3. NaggingIsBounded /\ OutcomeIsExact
  BY LimitsAssumption DEF Init, NaggingIsBounded, OutcomeIsExact
<1> QED
  BY <1>1, <1>2, <1>3 DEF Inv

USE DEF Stage, Ended, Call, Mail, Ack

\* Every step keeps the types and the bounds.
LEMMA TypeStep ==
  ASSUME Inv, [Next]_vars
  PROVE  TypeOK'
<1> USE LimitsAssumption, WorkflowBoundsAssumption
<1>0. TypeOK /\ RoundsWereNotified
  BY DEF Inv, WorkflowInv
<1>1. ASSUME NEW i \in Instances, Start(i) PROVE TypeOK'
  BY <1>0, <1>1 DEF TypeOK, Start
<1>2. ASSUME NEW i \in Instances, InvokeNotifier(i) PROVE TypeOK'
  BY <1>0, <1>2 DEF TypeOK, InvokeNotifier, history, ghosts
<1>3. ASSUME NEW i \in Instances, InvokeNotifierFails(i) PROVE TypeOK'
  BY <1>0, <1>3 DEF TypeOK, InvokeNotifierFails, Fault, history, ghosts
<1>4. ASSUME NEW i \in Instances, NEW ack \in Ack, RaiseAck(i, ack)
      PROVE TypeOK'
  BY <1>0, <1>4 DEF TypeOK, RaiseAck
<1>5. ASSUME NEW i \in Instances, TimerFires(i) PROVE TypeOK'
  BY <1>0, <1>5 DEF TypeOK, TimerFires, ghosts
<1>6. ASSUME NEW i \in Instances, NotifyDone(i) PROVE TypeOK'
  <2>1. round[i] <= limit
    BY <1>6 DEF NotifyDone, Replayable, Escalated
  <2>2. \A j \in Instances : \E n \in Limits : round'[j] <= n + 1
    BY <1>0, <1>6, <2>1 DEF TypeOK, NotifyDone, RoundAfter
  <2> QED
    BY <1>0, <1>6, <2>2 DEF TypeOK, NotifyDone, RoundAfter, ghosts
<1>7. ASSUME NEW i \in Instances, NotifyFailed(i) PROVE TypeOK'
  BY <1>0, <1>7 DEF TypeOK, NotifyFailed, NotifyFailure, ghosts
<1>8. ASSUME NEW i \in Instances, NEW s \in Ended, NEW n \in Nat, End(i, s, n)
      PROVE  TypeOK'
  BY <1>0, <1>8 DEF TypeOK, End, ghosts
<1>9. ASSUME NEW i \in Instances, ObserveAck(i) PROVE TypeOK'
  <2>1. round[i] - 1 \in Nat
    BY <1>0, <1>9 DEF ObserveAck, RoundsWereNotified, TypeOK
  <2> QED
    BY <1>8, <1>9, <2>1 DEF ObserveAck
<1>10. ASSUME NEW i \in Instances, ObserveGarbled(i) PROVE TypeOK'
  BY <1>8, <1>10 DEF ObserveGarbled
<1>11. ASSUME NEW i \in Instances, Escalate(i) PROVE TypeOK'
  BY <1>0, <1>11 DEF TypeOK, Escalate, ghosts
<1>12. ASSUME NEW i \in Instances, GiveUp(i) PROVE TypeOK'
  BY <1>0, <1>8, <1>12 DEF GiveUp, TypeOK
<1>13. ASSUME NEW i \in Instances, Diverge(i) PROVE TypeOK'
  BY <1>0, <1>13 DEF TypeOK, Diverge, ghosts
<1>14. ASSUME Crash PROVE TypeOK'
  BY <1>0, <1>14 DEF TypeOK, Crash, Fault, history, ghosts
<1>15. ASSUME NEW n \in Limits, Redeploy(n) PROVE TypeOK'
  BY <1>0, <1>15 DEF TypeOK, Redeploy, history, ghosts
<1>16. ASSUME UNCHANGED vars PROVE TypeOK'
  BY <1>0, <1>16 DEF TypeOK, vars, history, ghosts
<1> QED
  BY <1>1, <1>2, <1>3, <1>4, <1>5, <1>6, <1>7, <1>9, <1>10, <1>11, <1>12,
     <1>13,
     <1>14, <1>15, <1>16 DEF Next, Turn

\* The loop variable, the limit and the counts are numbers.
LEMMA Numbers ==
  ASSUME TypeOK
  PROVE  /\ \A i \in Instances :
              round[i] \in Nat /\ delivered[i] \in Nat /\ escalations[i] \in Nat
         /\ limit \in Nat /\ redeploys \in Nat
BY LimitsAssumption, WorkflowBoundsAssumption DEF TypeOK

\* A round is entered only after its notification was sent.
LEMMA RoundsStep ==
  ASSUME Inv, [Next]_vars
  PROVE  RoundsWereNotified'
<1>0. TypeOK /\ RoundsWereNotified
  BY DEF Inv, WorkflowInv
<1> USE Numbers
<1>1. ASSUME NEW i \in Instances, Start(i) PROVE RoundsWereNotified'
  BY <1>0, <1>1 DEF TypeOK, RoundsWereNotified, Start
<1>2. ASSUME NEW i \in Instances, InvokeNotifier(i) PROVE RoundsWereNotified'
  BY <1>0, <1>2 DEF TypeOK, RoundsWereNotified, InvokeNotifier, history, ghosts
<1>3. ASSUME NEW i \in Instances, InvokeNotifierFails(i)
      PROVE  RoundsWereNotified'
  BY <1>0, <1>3
  DEF TypeOK, RoundsWereNotified, InvokeNotifierFails, Fault, history,
      ghosts
<1>4. ASSUME NEW i \in Instances, NEW ack \in Ack, RaiseAck(i, ack)
      PROVE  RoundsWereNotified'
  BY <1>0, <1>4 DEF TypeOK, RoundsWereNotified, RaiseAck, Waiting
<1>5. ASSUME NEW i \in Instances, TimerFires(i) PROVE RoundsWereNotified'
  BY <1>0, <1>5
  DEF TypeOK, RoundsWereNotified, TimerFires, TimerArmed, Waiting, ghosts
<1>6. ASSUME NEW i \in Instances, NotifyDone(i) PROVE RoundsWereNotified'
  BY <1>0, <1>6
  DEF TypeOK, RoundsWereNotified, NotifyDone, RoundAfter, Replayable,
      Escalated, ghosts
<1>7. ASSUME NEW i \in Instances, NotifyFailed(i) PROVE RoundsWereNotified'
  BY <1>0, <1>7
  DEF TypeOK, RoundsWereNotified, NotifyFailed, NotifyFailure, ghosts
<1>8. ASSUME NEW i \in Instances, ObserveAck(i) PROVE RoundsWereNotified'
  BY <1>0, <1>8
  DEF TypeOK, RoundsWereNotified, ObserveAck, End, ghosts, Replayable,
      Escalated
<1>9. ASSUME NEW i \in Instances, ObserveGarbled(i) PROVE RoundsWereNotified'
  BY <1>0, <1>9
  DEF TypeOK, RoundsWereNotified, ObserveGarbled, End, ghosts, Replayable
<1>10. ASSUME NEW i \in Instances, Escalate(i) PROVE RoundsWereNotified'
  BY <1>0, <1>10 DEF TypeOK, RoundsWereNotified, Escalate, MayEscalate, ghosts
<1>11. ASSUME NEW i \in Instances, GiveUp(i) PROVE RoundsWereNotified'
  BY <1>0, <1>11
  DEF TypeOK, RoundsWereNotified, GiveUp, MayEscalate, Replayable,
      Escalated, End, ghosts
<1>12. ASSUME NEW i \in Instances, Diverge(i) PROVE RoundsWereNotified'
  BY <1>0, <1>12
  DEF TypeOK, RoundsWereNotified, Diverge, Replayable, Escalated, ghosts
<1>13. ASSUME Crash PROVE RoundsWereNotified'
  BY <1>0, <1>13 DEF TypeOK, RoundsWereNotified, Crash, Fault, history, ghosts
<1>14. ASSUME NEW n \in Limits, Redeploy(n) PROVE RoundsWereNotified'
  BY <1>0, <1>14 DEF TypeOK, RoundsWereNotified, Redeploy, history, ghosts
<1>15. ASSUME UNCHANGED vars PROVE RoundsWereNotified'
  BY <1>0, <1>15 DEF TypeOK, RoundsWereNotified, vars, history, ghosts
<1> QED
  BY <1>1, <1>2, <1>3, <1>4, <1>5, <1>6, <1>7, <1>8,
     <1>9, <1>10, <1>11, <1>12, <1>13, <1>14, <1>15 DEF Next, Turn

\* An outcome counts no escalation that was not sent.
LEMMA OutcomeStep ==
  ASSUME Inv, [Next]_vars
  PROVE  OutcomeWasNotified'
<1>0. TypeOK /\ RoundsWereNotified /\ OutcomeWasNotified
  BY DEF Inv, WorkflowInv
<1> USE Numbers
<1>1. ASSUME NEW i \in Instances, Start(i) PROVE OutcomeWasNotified'
  BY <1>0, <1>1 DEF TypeOK, RoundsWereNotified, OutcomeWasNotified, Page, renderTriageOutcome,
      Start
<1>2. ASSUME NEW i \in Instances, InvokeNotifier(i) PROVE OutcomeWasNotified'
  BY <1>0, <1>2
  DEF TypeOK, RoundsWereNotified, OutcomeWasNotified, Page, renderTriageOutcome,
      InvokeNotifier,
      history, ghosts
<1>3. ASSUME NEW i \in Instances, InvokeNotifierFails(i)
      PROVE  OutcomeWasNotified'
  BY <1>0, <1>3
  DEF TypeOK, RoundsWereNotified, OutcomeWasNotified, Page, renderTriageOutcome,
      InvokeNotifierFails,
      Fault, history, ghosts
<1>4. ASSUME NEW i \in Instances, NEW ack \in Ack, RaiseAck(i, ack)
      PROVE  OutcomeWasNotified'
  BY <1>0, <1>4
  DEF TypeOK, RoundsWereNotified, OutcomeWasNotified, Page, renderTriageOutcome,
      RaiseAck, Waiting
<1>5. ASSUME NEW i \in Instances, TimerFires(i) PROVE OutcomeWasNotified'
  BY <1>0, <1>5
  DEF TypeOK, RoundsWereNotified, OutcomeWasNotified, Page, renderTriageOutcome,
      TimerFires,
      TimerArmed, Waiting, ghosts
<1>6. ASSUME NEW i \in Instances, NotifyDone(i) PROVE OutcomeWasNotified'
  BY <1>0, <1>6
  DEF TypeOK, RoundsWereNotified, OutcomeWasNotified, Page, renderTriageOutcome,
      NotifyDone,
      RoundAfter, Replayable, Escalated, ghosts
<1>7. ASSUME NEW i \in Instances, NotifyFailed(i) PROVE OutcomeWasNotified'
  BY <1>0, <1>7
  DEF TypeOK, RoundsWereNotified, OutcomeWasNotified, Page, renderTriageOutcome,
      NotifyFailed,
      NotifyFailure, ghosts
<1>8. ASSUME NEW i \in Instances, ObserveAck(i) PROVE OutcomeWasNotified'
  BY <1>0, <1>8
  DEF TypeOK, RoundsWereNotified, OutcomeWasNotified, Page, renderTriageOutcome,
      ObserveAck, End,
      ghosts, Replayable, Escalated
<1>9. ASSUME NEW i \in Instances, ObserveGarbled(i) PROVE OutcomeWasNotified'
  BY <1>0, <1>9
  DEF TypeOK, RoundsWereNotified, OutcomeWasNotified, Page, renderTriageOutcome,
      ObserveGarbled, End,
      ghosts, Replayable
<1>10. ASSUME NEW i \in Instances, Escalate(i) PROVE OutcomeWasNotified'
  BY <1>0, <1>10
  DEF TypeOK, RoundsWereNotified, OutcomeWasNotified, Page, renderTriageOutcome,
      Escalate, MayEscalate,
      ghosts
<1>11. ASSUME NEW i \in Instances, GiveUp(i) PROVE OutcomeWasNotified'
  BY <1>0, <1>11
  DEF TypeOK, RoundsWereNotified, OutcomeWasNotified, Page, renderTriageOutcome,
      GiveUp, MayEscalate,
      Replayable, Escalated, End, ghosts
<1>12. ASSUME NEW i \in Instances, Diverge(i) PROVE OutcomeWasNotified'
  BY <1>0, <1>12
  DEF TypeOK, RoundsWereNotified, OutcomeWasNotified, Page, renderTriageOutcome,
      Diverge, Replayable,
      Escalated, ghosts
<1>13. ASSUME Crash PROVE OutcomeWasNotified'
  BY <1>0, <1>13
  DEF TypeOK, RoundsWereNotified, OutcomeWasNotified, Page, renderTriageOutcome,
      Crash, Fault, history,
      ghosts
<1>14. ASSUME NEW n \in Limits, Redeploy(n) PROVE OutcomeWasNotified'
  BY <1>0, <1>14
  DEF TypeOK, RoundsWereNotified, OutcomeWasNotified, Page, renderTriageOutcome,
      Redeploy, history,
      ghosts
<1>15. ASSUME UNCHANGED vars PROVE OutcomeWasNotified'
  BY <1>0, <1>15
  DEF TypeOK, RoundsWereNotified, OutcomeWasNotified, Page, renderTriageOutcome,
      vars, history, ghosts
<1> QED
  BY <1>1, <1>2, <1>3, <1>4, <1>5, <1>6, <1>7, <1>8,
     <1>9, <1>10, <1>11, <1>12, <1>13, <1>14, <1>15 DEF Next, Turn

\* As long as nobody changes the limit the loop stays within it.
LEMMA LoopStep ==
  ASSUME Inv, [Next]_vars
  PROVE  LoopIsInLimit'
<1>0. TypeOK /\ RoundsWereNotified /\ LoopIsInLimit
  BY DEF Inv, WorkflowInv
<1> USE Numbers
<1>1. ASSUME NEW i \in Instances, Start(i) PROVE LoopIsInLimit'
  BY <1>0, <1>1 DEF TypeOK, RoundsWereNotified, LoopIsInLimit, Escalated, Start
<1>2. ASSUME NEW i \in Instances, InvokeNotifier(i) PROVE LoopIsInLimit'
  BY <1>0, <1>2
  DEF TypeOK, LoopIsInLimit, Escalated, InvokeNotifier, history, ghosts
<1>3. ASSUME NEW i \in Instances, InvokeNotifierFails(i) PROVE LoopIsInLimit'
  BY <1>0, <1>3
  DEF TypeOK, LoopIsInLimit, Escalated, InvokeNotifierFails, Fault, history,
      ghosts
<1>4. ASSUME NEW i \in Instances, NEW ack \in Ack, RaiseAck(i, ack)
      PROVE  LoopIsInLimit'
  BY <1>0, <1>4 DEF TypeOK, LoopIsInLimit, Escalated, RaiseAck, Waiting
<1>5. ASSUME NEW i \in Instances, TimerFires(i) PROVE LoopIsInLimit'
  BY <1>0, <1>5
  DEF TypeOK, LoopIsInLimit, Escalated, TimerFires, TimerArmed, Waiting,
      ghosts
<1>6. ASSUME NEW i \in Instances, NotifyDone(i) PROVE LoopIsInLimit'
  BY <1>0, <1>6
  DEF TypeOK, LoopIsInLimit, Escalated, NotifyDone, RoundAfter, Replayable,
      Escalated, ghosts
<1>7. ASSUME NEW i \in Instances, NotifyFailed(i) PROVE LoopIsInLimit'
  BY <1>0, <1>7
  DEF TypeOK, LoopIsInLimit, Escalated, NotifyFailed, NotifyFailure, ghosts
<1>8. ASSUME NEW i \in Instances, ObserveAck(i) PROVE LoopIsInLimit'
  BY <1>0, <1>8
  DEF TypeOK, LoopIsInLimit, Escalated, ObserveAck, End, ghosts, Replayable,
      Escalated
<1>9. ASSUME NEW i \in Instances, ObserveGarbled(i) PROVE LoopIsInLimit'
  BY <1>0, <1>9
  DEF TypeOK, LoopIsInLimit, Escalated, ObserveGarbled, End, ghosts,
      Replayable
<1>10. ASSUME NEW i \in Instances, Escalate(i) PROVE LoopIsInLimit'
  BY <1>0, <1>10
  DEF TypeOK, LoopIsInLimit, Escalated, Escalate, MayEscalate, ghosts
<1>11. ASSUME NEW i \in Instances, GiveUp(i) PROVE LoopIsInLimit'
  BY <1>0, <1>11
  DEF TypeOK, LoopIsInLimit, Escalated, GiveUp, MayEscalate, Replayable,
      Escalated, End, ghosts
<1>12. ASSUME NEW i \in Instances, Diverge(i) PROVE LoopIsInLimit'
  BY <1>0, <1>12
  DEF TypeOK, LoopIsInLimit, Escalated, Diverge, Replayable, Escalated,
      ghosts
<1>13. ASSUME Crash PROVE LoopIsInLimit'
  BY <1>0, <1>13
  DEF TypeOK, LoopIsInLimit, Escalated, Crash, Fault, history, ghosts
<1>14. ASSUME NEW n \in Limits, Redeploy(n) PROVE LoopIsInLimit'
  BY <1>0, <1>14
  DEF TypeOK, LoopIsInLimit, Escalated, Redeploy, history, ghosts
<1>15. ASSUME UNCHANGED vars PROVE LoopIsInLimit'
  BY <1>0, <1>15 DEF TypeOK, LoopIsInLimit, Escalated, vars, history, ghosts
<1> QED
  BY <1>1, <1>2, <1>3, <1>4, <1>5, <1>6, <1>7, <1>8,
     <1>9, <1>10, <1>11, <1>12, <1>13, <1>14, <1>15 DEF Next, Turn

\* An ack that came in time stays what the wait returns.
LEMMA AckStep ==
  ASSUME Inv, [Next]_vars
  PROVE  AckIsKept'
<1>0. TypeOK /\ LoopIsInLimit /\ AckIsKept
  BY DEF Inv, WorkflowInv
<1> USE Numbers
<1>1. ASSUME NEW i \in Instances, Start(i) PROVE AckIsKept'
  BY <1>0, <1>1 DEF TypeOK, LoopIsInLimit, AckIsKept, Start
<1>2. ASSUME NEW i \in Instances, InvokeNotifier(i) PROVE AckIsKept'
  BY <1>0, <1>2
  DEF TypeOK, LoopIsInLimit, AckIsKept, InvokeNotifier, history, ghosts
<1>3. ASSUME NEW i \in Instances, InvokeNotifierFails(i) PROVE AckIsKept'
  BY <1>0, <1>3
  DEF TypeOK, LoopIsInLimit, AckIsKept, InvokeNotifierFails, Fault, history,
      ghosts
<1>4. ASSUME NEW i \in Instances, NEW ack \in Ack, RaiseAck(i, ack)
      PROVE  AckIsKept'
  BY <1>0, <1>4 DEF TypeOK, LoopIsInLimit, AckIsKept, RaiseAck, Waiting
<1>5. ASSUME NEW i \in Instances, TimerFires(i) PROVE AckIsKept'
  BY <1>0, <1>5
  DEF TypeOK, LoopIsInLimit, AckIsKept, TimerFires, TimerArmed, Waiting,
      ghosts
<1>6. ASSUME NEW i \in Instances, NotifyDone(i) PROVE AckIsKept'
  BY <1>0, <1>6
  DEF TypeOK, LoopIsInLimit, AckIsKept, NotifyDone, RoundAfter, Replayable,
      Escalated, ghosts
<1>7. ASSUME NEW i \in Instances, NotifyFailed(i) PROVE AckIsKept'
  BY <1>0, <1>7
  DEF TypeOK, LoopIsInLimit, AckIsKept, NotifyFailed, NotifyFailure, ghosts
<1>8. ASSUME NEW i \in Instances, ObserveAck(i) PROVE AckIsKept'
  BY <1>0, <1>8
  DEF TypeOK, LoopIsInLimit, AckIsKept, ObserveAck, End, ghosts, Replayable,
      Escalated
<1>9. ASSUME NEW i \in Instances, ObserveGarbled(i) PROVE AckIsKept'
  BY <1>0, <1>9
  DEF TypeOK, LoopIsInLimit, AckIsKept, ObserveGarbled, End, ghosts,
      Replayable
<1>10. ASSUME NEW i \in Instances, Escalate(i) PROVE AckIsKept'
  BY <1>0, <1>10
  DEF TypeOK, LoopIsInLimit, AckIsKept, Escalate, MayEscalate, ghosts
<1>11. ASSUME NEW i \in Instances, GiveUp(i) PROVE AckIsKept'
  BY <1>0, <1>11
  DEF TypeOK, LoopIsInLimit, AckIsKept, GiveUp, MayEscalate, Replayable,
      Escalated, End, ghosts
<1>12. ASSUME NEW i \in Instances, Diverge(i) PROVE AckIsKept'
  BY <1>0, <1>12
  DEF TypeOK, LoopIsInLimit, AckIsKept, Diverge, Replayable, Escalated,
      ghosts
<1>13. ASSUME Crash PROVE AckIsKept'
  BY <1>0, <1>13
  DEF TypeOK, LoopIsInLimit, AckIsKept, Crash, Fault, history, ghosts
<1>14. ASSUME NEW n \in Limits, Redeploy(n) PROVE AckIsKept'
  BY <1>0, <1>14
  DEF TypeOK, LoopIsInLimit, AckIsKept, Redeploy, history, ghosts
<1>15. ASSUME UNCHANGED vars PROVE AckIsKept'
  BY <1>0, <1>15 DEF TypeOK, LoopIsInLimit, AckIsKept, vars, history, ghosts
<1> QED
  BY <1>1, <1>2, <1>3, <1>4, <1>5, <1>6, <1>7, <1>8,
     <1>9, <1>10, <1>11, <1>12, <1>13, <1>14, <1>15 DEF Next, Turn

\* A repetition is paid for by a fault or a roll-out.
LEMMA RepeatStep ==
  ASSUME Inv, [Next]_vars
  PROVE  RepeatsHaveACause'
<1>0. TypeOK /\ RoundsWereNotified /\ RepeatsHaveACause
  BY DEF Inv, WorkflowInv
<1> USE Numbers, LimitsAssumption
<1>1. ASSUME NEW i \in Instances, Start(i) PROVE RepeatsHaveACause'
  BY <1>0, <1>1 DEF TypeOK, RoundsWereNotified, RepeatsHaveACause, Sent, Start
<1>2. ASSUME NEW i \in Instances, InvokeNotifier(i) PROVE RepeatsHaveACause'
  BY <1>0, <1>2
  DEF TypeOK, RoundsWereNotified, RepeatsHaveACause, Sent, InvokeNotifier,
      history, ghosts
<1>3. ASSUME NEW i \in Instances, InvokeNotifierFails(i)
      PROVE  RepeatsHaveACause'
  BY <1>0, <1>3
  DEF TypeOK, RoundsWereNotified, RepeatsHaveACause, Sent,
      InvokeNotifierFails, Fault, history, ghosts
<1>4. ASSUME NEW i \in Instances, NEW ack \in Ack, RaiseAck(i, ack)
      PROVE  RepeatsHaveACause'
  BY <1>0, <1>4
  DEF TypeOK, RoundsWereNotified, RepeatsHaveACause, Sent, RaiseAck, Waiting
<1>5. ASSUME NEW i \in Instances, TimerFires(i) PROVE RepeatsHaveACause'
  BY <1>0, <1>5
  DEF TypeOK, RoundsWereNotified, RepeatsHaveACause, Sent, TimerFires,
      TimerArmed, Waiting, ghosts
<1>6. ASSUME NEW i \in Instances, NotifyDone(i) PROVE RepeatsHaveACause'
  BY <1>0, <1>6
  DEF TypeOK, RoundsWereNotified, RepeatsHaveACause, Sent, NotifyDone,
      RoundAfter, Replayable, Escalated, ghosts
<1>7. ASSUME NEW i \in Instances, NotifyFailed(i) PROVE RepeatsHaveACause'
  BY <1>0, <1>7
  DEF TypeOK, RoundsWereNotified, RepeatsHaveACause, Sent, NotifyFailed,
      NotifyFailure, ghosts
<1>8. ASSUME NEW i \in Instances, ObserveAck(i) PROVE RepeatsHaveACause'
  BY <1>0, <1>8
  DEF TypeOK, RoundsWereNotified, RepeatsHaveACause, Sent, ObserveAck, End,
      ghosts
<1>9. ASSUME NEW i \in Instances, ObserveGarbled(i) PROVE RepeatsHaveACause'
  BY <1>0, <1>9
  DEF TypeOK, RoundsWereNotified, RepeatsHaveACause, Sent, ObserveGarbled,
      End, ghosts
<1>10. ASSUME NEW i \in Instances, Escalate(i) PROVE RepeatsHaveACause'
  BY <1>0, <1>10
  DEF TypeOK, RoundsWereNotified, RepeatsHaveACause, Sent, Escalate,
      MayEscalate, ghosts
<1>11. ASSUME NEW i \in Instances, GiveUp(i) PROVE RepeatsHaveACause'
  BY <1>0, <1>11
  DEF TypeOK, RoundsWereNotified, RepeatsHaveACause, Sent, GiveUp,
      MayEscalate, Replayable, Escalated, End, ghosts
<1>12. ASSUME NEW i \in Instances, Diverge(i) PROVE RepeatsHaveACause'
  BY <1>0, <1>12
  DEF TypeOK, RoundsWereNotified, RepeatsHaveACause, Sent, Diverge,
      Replayable, Escalated, ghosts
<1>13. ASSUME Crash PROVE RepeatsHaveACause'
  BY <1>0, <1>13
  DEF TypeOK, RoundsWereNotified, RepeatsHaveACause, Sent, Crash, Fault,
      history, ghosts
<1>14. ASSUME NEW n \in Limits, Redeploy(n) PROVE RepeatsHaveACause'
  BY <1>0, <1>14
  DEF TypeOK, RoundsWereNotified, RepeatsHaveACause, Sent, Redeploy,
      history, ghosts
<1>15. ASSUME UNCHANGED vars PROVE RepeatsHaveACause'
  BY <1>0, <1>15
  DEF TypeOK, RoundsWereNotified, RepeatsHaveACause, Sent, vars, history,
      ghosts
<1> QED
  BY <1>1, <1>2, <1>3, <1>4, <1>5, <1>6, <1>7, <1>8,
     <1>9, <1>10, <1>11, <1>12, <1>13, <1>14, <1>15 DEF Next, Turn

\* The owner is sent no more than the limits, the faults and the roll-outs
\* account for.
LEMMA BoundStep ==
  ASSUME Inv, [Next]_vars
  PROVE  NaggingIsBounded'
<1>0. TypeOK /\ RoundsWereNotified /\ RepeatsHaveACause /\ NaggingIsBounded
  BY DEF Inv, WorkflowInv
<1> USE Numbers, LimitsAssumption
<1>1. ASSUME NEW i \in Instances, Start(i) PROVE NaggingIsBounded'
  BY <1>0, <1>1
  DEF TypeOK, RoundsWereNotified, RepeatsHaveACause, NaggingIsBounded, Sent,
      Start
<1>2. ASSUME NEW i \in Instances, InvokeNotifier(i) PROVE NaggingIsBounded'
  BY <1>0, <1>2
  DEF TypeOK, RoundsWereNotified, RepeatsHaveACause, NaggingIsBounded, Sent,
      InvokeNotifier, history, ghosts
<1>3. ASSUME NEW i \in Instances, InvokeNotifierFails(i)
      PROVE  NaggingIsBounded'
  BY <1>0, <1>3
  DEF TypeOK, RoundsWereNotified, RepeatsHaveACause, NaggingIsBounded, Sent,
      InvokeNotifierFails, Fault, history, ghosts
<1>4. ASSUME NEW i \in Instances, NEW ack \in Ack, RaiseAck(i, ack)
      PROVE  NaggingIsBounded'
  BY <1>0, <1>4
  DEF TypeOK, RoundsWereNotified, RepeatsHaveACause, NaggingIsBounded, Sent,
      RaiseAck, Waiting
<1>5. ASSUME NEW i \in Instances, TimerFires(i) PROVE NaggingIsBounded'
  BY <1>0, <1>5
  DEF TypeOK, RoundsWereNotified, RepeatsHaveACause, NaggingIsBounded, Sent,
      TimerFires, TimerArmed, Waiting, ghosts
<1>6. ASSUME NEW i \in Instances, NotifyDone(i) PROVE NaggingIsBounded'
  BY <1>0, <1>6
  DEF TypeOK, RoundsWereNotified, RepeatsHaveACause, NaggingIsBounded, Sent,
      NotifyDone, RoundAfter, Replayable, Escalated, ghosts
<1>7. ASSUME NEW i \in Instances, NotifyFailed(i) PROVE NaggingIsBounded'
  BY <1>0, <1>7
  DEF TypeOK, RoundsWereNotified, RepeatsHaveACause, NaggingIsBounded, Sent,
      NotifyFailed, NotifyFailure, ghosts
<1>8. ASSUME NEW i \in Instances, ObserveAck(i) PROVE NaggingIsBounded'
  BY <1>0, <1>8
  DEF TypeOK, RoundsWereNotified, RepeatsHaveACause, NaggingIsBounded, Sent,
      ObserveAck, End, ghosts
<1>9. ASSUME NEW i \in Instances, ObserveGarbled(i) PROVE NaggingIsBounded'
  BY <1>0, <1>9
  DEF TypeOK, RoundsWereNotified, RepeatsHaveACause, NaggingIsBounded, Sent,
      ObserveGarbled, End, ghosts
<1>10. ASSUME NEW i \in Instances, Escalate(i) PROVE NaggingIsBounded'
  BY <1>0, <1>10
  DEF TypeOK, RoundsWereNotified, RepeatsHaveACause, NaggingIsBounded, Sent,
      Escalate, MayEscalate, ghosts
<1>11. ASSUME NEW i \in Instances, GiveUp(i) PROVE NaggingIsBounded'
  BY <1>0, <1>11
  DEF TypeOK, RoundsWereNotified, RepeatsHaveACause, NaggingIsBounded, Sent,
      GiveUp, MayEscalate, Replayable, Escalated, End, ghosts
<1>12. ASSUME NEW i \in Instances, Diverge(i) PROVE NaggingIsBounded'
  BY <1>0, <1>12
  DEF TypeOK, RoundsWereNotified, RepeatsHaveACause, NaggingIsBounded, Sent,
      Diverge, Replayable, Escalated, ghosts
<1>13. ASSUME Crash PROVE NaggingIsBounded'
  BY <1>0, <1>13
  DEF TypeOK, RoundsWereNotified, RepeatsHaveACause, NaggingIsBounded, Sent,
      Crash, Fault, history, ghosts
<1>14. ASSUME NEW n \in Limits, Redeploy(n) PROVE NaggingIsBounded'
  BY <1>0, <1>14
  DEF TypeOK, RoundsWereNotified, RepeatsHaveACause, NaggingIsBounded, Sent,
      Redeploy, history, ghosts
<1>15. ASSUME UNCHANGED vars PROVE NaggingIsBounded'
  BY <1>0, <1>15
  DEF TypeOK, RoundsWereNotified, RepeatsHaveACause, NaggingIsBounded, Sent,
      vars, history, ghosts
<1> QED
  BY <1>1, <1>2, <1>3, <1>4, <1>5, <1>6, <1>7, <1>8,
     <1>9, <1>10, <1>11, <1>12, <1>13, <1>14, <1>15 DEF Next, Turn

\* Until something happens rounds and notifications are the same.
LEMMA QuietStep ==
  ASSUME Inv, [Next]_vars
  PROVE  QuietRun'
<1>0. TypeOK /\ RoundsWereNotified /\ QuietRun
  BY DEF Inv, WorkflowInv
<1> USE Numbers, LimitsAssumption
<1>1. ASSUME NEW i \in Instances, Start(i) PROVE QuietRun'
  BY <1>0, <1>1
  DEF TypeOK, RoundsWereNotified, QuietRun, NothingHappened, Sent, Start
<1>2. ASSUME NEW i \in Instances, InvokeNotifier(i) PROVE QuietRun'
  BY <1>0, <1>2
  DEF TypeOK, RoundsWereNotified, QuietRun, NothingHappened, Sent,
      InvokeNotifier, history, ghosts
<1>3. ASSUME NEW i \in Instances, InvokeNotifierFails(i) PROVE QuietRun'
  BY <1>0, <1>3
  DEF TypeOK, RoundsWereNotified, QuietRun, NothingHappened, Sent,
      InvokeNotifierFails, Fault, history, ghosts
<1>4. ASSUME NEW i \in Instances, NEW ack \in Ack, RaiseAck(i, ack)
      PROVE  QuietRun'
  BY <1>0, <1>4
  DEF TypeOK, RoundsWereNotified, QuietRun, NothingHappened, Sent, RaiseAck,
      Waiting
<1>5. ASSUME NEW i \in Instances, TimerFires(i) PROVE QuietRun'
  BY <1>0, <1>5
  DEF TypeOK, RoundsWereNotified, QuietRun, NothingHappened, Sent,
      TimerFires, TimerArmed, Waiting, ghosts
<1>6. ASSUME NEW i \in Instances, NotifyDone(i) PROVE QuietRun'
  BY <1>0, <1>6
  DEF TypeOK, RoundsWereNotified, QuietRun, NothingHappened, Sent,
      NotifyDone, RoundAfter, Replayable, Escalated, ghosts
<1>7. ASSUME NEW i \in Instances, NotifyFailed(i) PROVE QuietRun'
  BY <1>0, <1>7
  DEF TypeOK, RoundsWereNotified, QuietRun, NothingHappened, Sent,
      NotifyFailed, NotifyFailure, ghosts
<1>8. ASSUME NEW i \in Instances, ObserveAck(i) PROVE QuietRun'
  BY <1>0, <1>8
  DEF TypeOK, RoundsWereNotified, QuietRun, NothingHappened, Sent,
      ObserveAck, End, ghosts
<1>9. ASSUME NEW i \in Instances, ObserveGarbled(i) PROVE QuietRun'
  BY <1>0, <1>9
  DEF TypeOK, RoundsWereNotified, QuietRun, NothingHappened, Sent,
      ObserveGarbled, End, ghosts
<1>10. ASSUME NEW i \in Instances, Escalate(i) PROVE QuietRun'
  BY <1>0, <1>10
  DEF TypeOK, RoundsWereNotified, QuietRun, NothingHappened, Sent, Escalate,
      MayEscalate, ghosts
<1>11. ASSUME NEW i \in Instances, GiveUp(i) PROVE QuietRun'
  BY <1>0, <1>11
  DEF TypeOK, RoundsWereNotified, QuietRun, NothingHappened, Sent, GiveUp,
      MayEscalate, Replayable, Escalated, End, ghosts
<1>12. ASSUME NEW i \in Instances, Diverge(i) PROVE QuietRun'
  BY <1>0, <1>12
  DEF TypeOK, RoundsWereNotified, QuietRun, NothingHappened, Sent, Diverge,
      Replayable, Escalated, ghosts
<1>13. ASSUME Crash PROVE QuietRun'
  BY <1>0, <1>13
  DEF TypeOK, RoundsWereNotified, QuietRun, NothingHappened, Sent, Crash,
      Fault, history, ghosts
<1>14. ASSUME NEW n \in Limits, Redeploy(n) PROVE QuietRun'
  BY <1>0, <1>14
  DEF TypeOK, RoundsWereNotified, QuietRun, NothingHappened, Sent, Redeploy,
      history, ghosts
<1>15. ASSUME UNCHANGED vars PROVE QuietRun'
  BY <1>0, <1>15
  DEF TypeOK, RoundsWereNotified, QuietRun, NothingHappened, Sent, vars,
      history, ghosts
<1> QED
  BY <1>1, <1>2, <1>3, <1>4, <1>5, <1>6, <1>7, <1>8,
     <1>9, <1>10, <1>11, <1>12, <1>13, <1>14, <1>15 DEF Next, Turn

\* Until something happens an outcome tells what was sent and answered.
LEMMA ExactStep ==
  ASSUME Inv, [Next]_vars
  PROVE  OutcomeIsExact'
<1>0. TypeOK /\ RoundsWereNotified /\ LoopIsInLimit /\ AckIsKept /\ QuietRun /\ OutcomeIsExact
  BY DEF Inv, WorkflowInv
<1> USE Numbers, LimitsAssumption
<1>1. ASSUME NEW i \in Instances, Start(i) PROVE OutcomeIsExact'
  BY <1>0, <1>1
  DEF TypeOK, RoundsWereNotified, LoopIsInLimit, AckIsKept, QuietRun,
      OutcomeIsExact, NothingHappened, Sent, Start
<1>2. ASSUME NEW i \in Instances, InvokeNotifier(i) PROVE OutcomeIsExact'
  BY <1>0, <1>2
  DEF TypeOK, RoundsWereNotified, LoopIsInLimit, AckIsKept, QuietRun,
      OutcomeIsExact, NothingHappened, Sent, InvokeNotifier, history, ghosts
<1>3. ASSUME NEW i \in Instances, InvokeNotifierFails(i) PROVE OutcomeIsExact'
  BY <1>0, <1>3
  DEF TypeOK, RoundsWereNotified, LoopIsInLimit, AckIsKept, QuietRun,
      OutcomeIsExact, NothingHappened, Sent, InvokeNotifierFails, Fault,
      history, ghosts
<1>4. ASSUME NEW i \in Instances, NEW ack \in Ack, RaiseAck(i, ack)
      PROVE  OutcomeIsExact'
  BY <1>0, <1>4
  DEF TypeOK, RoundsWereNotified, LoopIsInLimit, AckIsKept, QuietRun,
      OutcomeIsExact, NothingHappened, Sent, RaiseAck, Waiting
<1>5. ASSUME NEW i \in Instances, TimerFires(i) PROVE OutcomeIsExact'
  BY <1>0, <1>5
  DEF TypeOK, RoundsWereNotified, LoopIsInLimit, AckIsKept, QuietRun,
      OutcomeIsExact, NothingHappened, Sent, TimerFires, TimerArmed,
      Waiting, ghosts
<1>6. ASSUME NEW i \in Instances, NotifyDone(i) PROVE OutcomeIsExact'
  BY <1>0, <1>6
  DEF TypeOK, RoundsWereNotified, LoopIsInLimit, AckIsKept, QuietRun,
      OutcomeIsExact, NothingHappened, Sent, NotifyDone, RoundAfter,
      Replayable, Escalated, ghosts
<1>7. ASSUME NEW i \in Instances, NotifyFailed(i) PROVE OutcomeIsExact'
  BY <1>0, <1>7
  DEF TypeOK, RoundsWereNotified, LoopIsInLimit, AckIsKept, QuietRun,
      OutcomeIsExact, NothingHappened, Sent, NotifyFailed, NotifyFailure,
      ghosts
<1>8. ASSUME NEW i \in Instances, ObserveAck(i) PROVE OutcomeIsExact'
  BY <1>0, <1>8
  DEF TypeOK, RoundsWereNotified, LoopIsInLimit, AckIsKept, QuietRun,
      OutcomeIsExact, NothingHappened, Sent, ObserveAck, End, ghosts
<1>9. ASSUME NEW i \in Instances, ObserveGarbled(i) PROVE OutcomeIsExact'
  BY <1>0, <1>9
  DEF TypeOK, RoundsWereNotified, LoopIsInLimit, AckIsKept, QuietRun,
      OutcomeIsExact, NothingHappened, Sent, ObserveGarbled, End, ghosts
<1>10. ASSUME NEW i \in Instances, Escalate(i) PROVE OutcomeIsExact'
  BY <1>0, <1>10
  DEF TypeOK, RoundsWereNotified, LoopIsInLimit, AckIsKept, QuietRun,
      OutcomeIsExact, NothingHappened, Sent, Escalate, MayEscalate, ghosts
<1>11. ASSUME NEW i \in Instances, GiveUp(i) PROVE OutcomeIsExact'
  BY <1>0, <1>11
  DEF TypeOK, RoundsWereNotified, LoopIsInLimit, AckIsKept, QuietRun,
      OutcomeIsExact, NothingHappened, Sent, GiveUp, MayEscalate,
      Replayable, Escalated, End, ghosts
<1>12. ASSUME NEW i \in Instances, Diverge(i) PROVE OutcomeIsExact'
  BY <1>0, <1>12
  DEF TypeOK, RoundsWereNotified, LoopIsInLimit, AckIsKept, QuietRun,
      OutcomeIsExact, NothingHappened, Sent, Diverge, Replayable, Escalated,
      ghosts
<1>13. ASSUME Crash PROVE OutcomeIsExact'
  BY <1>0, <1>13
  DEF TypeOK, RoundsWereNotified, LoopIsInLimit, AckIsKept, QuietRun,
      OutcomeIsExact, NothingHappened, Sent, Crash, Fault, history, ghosts
<1>14. ASSUME NEW n \in Limits, Redeploy(n) PROVE OutcomeIsExact'
  BY <1>0, <1>14
  DEF TypeOK, RoundsWereNotified, LoopIsInLimit, AckIsKept, QuietRun,
      OutcomeIsExact, NothingHappened, Sent, Redeploy, history, ghosts
<1>15. ASSUME UNCHANGED vars PROVE OutcomeIsExact'
  BY <1>0, <1>15
  DEF TypeOK, RoundsWereNotified, LoopIsInLimit, AckIsKept, QuietRun,
      OutcomeIsExact, NothingHappened, Sent, vars, history, ghosts
<1> QED
  BY <1>1, <1>2, <1>3, <1>4, <1>5, <1>6, <1>7, <1>8,
     <1>9, <1>10, <1>11, <1>12, <1>13, <1>14, <1>15 DEF Next, Turn

-----------------------------------------------------------------------------
\* The invariants are inductive together.
LEMMA Invariance == Spec => []Inv
<1>1. Inv /\ [Next]_vars => Inv'
  BY TypeStep, RoundsStep, OutcomeStep, LoopStep, AckStep, RepeatStep,
     BoundStep,
     QuietStep, ExactStep DEF Inv, WorkflowInv
<1> QED
  BY InitInv, <1>1, PTL DEF Spec

\* Every variable keeps its shape and the loop makes no more rounds than the
\* largest limit asks for (main.go:124-125), for every limit and bound.
THEOREM TypeCorrect == Spec => []TypeOK
<1>1. Inv => TypeOK
  BY DEF Inv
<1> QED
  BY Invariance, <1>1, PTL

\* main.go:1067-1073: whatever crashes, lost answers and changes of the limit
\* there are, an outcome counts only escalations the owner was sent, and an ack
\* that came in time stays what its wait returns.
THEOREM OutcomeIsEarned == Spec => []WorkflowInv
<1>1. Inv => WorkflowInv
  BY DEF Inv
<1> QED
  BY Invariance, <1>1, PTL

\* main.go:124-125: over any number of crashes and roll-outs the owner is sent
\* one initial notification and at most the largest limit more, and one
\* repetition for each fault or roll-out.
THEOREM OwnerIsNotNagged == Spec => []NaggingIsBounded
<1>1. Inv => NaggingIsBounded
  BY DEF Inv
<1> QED
  BY Invariance, <1>1, PTL

\* main.go:117-160: as long as nothing fails and nobody changes the limit, the
\* outcome is exactly what was sent, waited for and acknowledged.
THEOREM OutcomeIsTheTruth == Spec => []OutcomeIsExact
<1>1. Inv => OutcomeIsExact
  BY DEF Inv
<1> QED
  BY Invariance, <1>1, PTL

\* One step never turns an ack that came in time into another notification, and
\* under one limit into no other outcome.
LEMMA AckStands ==
  ASSUME Inv, [Next]_vars, NEW i \in inTime
  PROVE  /\ stage'[i] # "notify"
         /\ redeploys' = 0 => stage'[i] \in {"wait", "acked"}
<1>1. inTime \subseteq inTime'
  BY DEF Next, Turn, vars, history, ghosts, Start, InvokeNotifier,
         InvokeNotifierFails, RaiseAck, TimerFires, NotifyDone, NotifyFailed,
         ObserveAck, ObserveGarbled, Escalate, GiveUp, End, Diverge, Crash, Redeploy
<1>2. AckIsKept' /\ redeploys' \in Nat
  BY AckStep, TypeStep, Numbers, WorkflowBoundsAssumption DEF TypeOK
<1> QED
  BY <1>1, <1>2 DEF AckIsKept

\* main.go:126-138: an ack that arrives while the wait is open ends the
\* notifications, and without a roll-out the instance ends as acked.
THEOREM AckInTimeWins == Spec => InTimeAckWins
<1>1. Inv /\ [Next]_vars =>
        [\A i \in inTime :
           /\ stage'[i] # "notify"
           /\ redeploys' = 0 => stage'[i] \in {"wait", "acked"}]_vars
  BY AckStands
<1> QED
  BY Invariance, <1>1, PTL DEF Spec, InTimeAckWins
=============================================================================
