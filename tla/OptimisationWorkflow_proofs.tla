-------------------- MODULE OptimisationWorkflow_proofs --------------------
(***************************************************************************)
(* Proofs about OptimisationWorkflow, for every set of instances and       *)
(* resources and every bound on events and faults.                         *)
(*                                                                         *)
(* What a decision goes back to is lost on the way from the event to the   *)
(* record, so the invariant follows it: an answer in the mailbox was       *)
(* raised, nothing is in the mailbox before the wait, an instance that     *)
(* wrote its record has decided, and an activity that did not write it     *)
(* failed.                                                                 *)
(***************************************************************************)
EXTENDS OptimisationWorkflow, TLAPS

\* What waits in the mailbox or is kept for it was posted to this instance.
AnswersWereRaised ==
  \A i \in Instances :
    /\ mail[i] \in Event => mail[i] \in raised[i]
    /\ early[i] \in Event => early[i] \in raised[i]

\* An event that comes before the wait is kept aside.
MailNeedsTheWait ==
  \A i \in Instances : stage[i] \in {"none", "notify"} => mail[i] = "none"

\* Where an instance is tells whether its record was written.
RecordFollowsStage ==
  \A i \in Instances :
    /\ i \in saved => stage[i] \in {"record", "ended"}
    /\ stage[i] = "record" /\ call[i] = "okay" => i \in saved
    /\ stage[i] = "ended" => i \in saved \/ faults > 0
    /\ call[i] = "error" => faults > 0
    /\ call[i] # "none" => stage[i] \in {"notify", "record"}

\* The first half of RecordIsADecision.
RecordHasAnAuthor ==
  \A r \in Resources :
    record[r].by # NoRecord =>
      /\ record[r].by \in saved
      /\ ResourceOf[record[r].by] = r
      /\ record[r].decision = verdict[record[r].by]

Inv ==
  /\ TypeOK
  /\ AnswersWereRaised
  /\ MailNeedsTheWait
  /\ DecidedByRequest
  /\ RecordFollowsStage
  /\ RecordHasAnAuthor

USE DEF Ended, Stage, Call, Choice, Verdict, Event, Mail
USE ResourcesAssumption, DecisionBoundsAssumption

\* Before anything is started there is no answer and no record.
LEMMA InitInv == Init => Inv
BY DEF Init, Inv, TypeOK, AnswersWereRaised, MailNeedsTheWait,
       DecidedByRequest, RecordFollowsStage, RecordHasAnAuthor

\* The activities and the engine touch the variables of one instance.
USE DEF Goto, Calls, history, ghosts

\* Every step keeps the types, and a verdict where the stage says so.
LEMMA TypeStep ==
  ASSUME TypeOK, MailNeedsTheWait, [Next]_vars
  PROVE  TypeOK'
<1>1. ASSUME NEW i \in Instances, Start(i) PROVE TypeOK'
  BY <1>1 DEF TypeOK, Start
<1>2. ASSUME NEW i \in Instances, InvokeNotifier(i) PROVE TypeOK'
  BY <1>2 DEF TypeOK, InvokeNotifier
<1>3. ASSUME NEW i \in Instances, InvokeNotifierFails(i) PROVE TypeOK'
  BY <1>3 DEF TypeOK, InvokeNotifierFails, Fault
<1>4. ASSUME NEW i \in Instances, NotifyDone(i) PROVE TypeOK'
  BY <1>4 DEF TypeOK, NotifyDone
<1>5. ASSUME NEW i \in Instances, NotifyFailed(i) PROVE TypeOK'
  BY <1>5 DEF TypeOK, NotifyFailed
<1>6. ASSUME NEW i \in Instances, NEW e \in Event, RaiseDecision(i, e)
      PROVE  TypeOK'
  BY <1>6 DEF TypeOK, RaiseDecision
<1>7. ASSUME NEW i \in Instances, TimerFires(i) PROVE TypeOK'
  BY <1>7 DEF TypeOK, TimerFires
<1>8. ASSUME NEW i \in Instances, Decide(i) PROVE TypeOK'
  BY <1>8 DEF TypeOK, Decide, VerdictOn
<1>9. ASSUME NEW i \in Instances, DecideFails(i) PROVE TypeOK'
  BY <1>9 DEF TypeOK, DecideFails, DecodeFailure
<1>10. ASSUME NEW i \in Instances, SaveDecision(i) PROVE TypeOK'
  BY <1>10 DEF TypeOK, SaveDecision, Save, Content
<1>11. ASSUME NEW i \in Instances, SaveDecisionFails(i) PROVE TypeOK'
  BY <1>11 DEF TypeOK, SaveDecisionFails, Save, Content, Fault
<1>12. ASSUME NEW i \in Instances, Complete(i) PROVE TypeOK'
  BY <1>12 DEF TypeOK, Complete
<1>13. ASSUME Crash PROVE TypeOK'
  BY <1>13 DEF TypeOK, Crash, Fault
<1>14. ASSUME UNCHANGED vars PROVE TypeOK'
  BY <1>14 DEF TypeOK, vars
<1> QED
  BY <1>1, <1>2, <1>3, <1>4, <1>5, <1>6, <1>7, <1>8, <1>9, <1>10, <1>11,
     <1>12, <1>13, <1>14 DEF Next, Turn, Activity

\* No answer is made up: the mailbox is filled from events and the timer.
LEMMA AnswersStep ==
  ASSUME TypeOK, AnswersWereRaised, MailNeedsTheWait, [Next]_vars
  PROVE  AnswersWereRaised' /\ MailNeedsTheWait'
<1> DEFINE Goal == AnswersWereRaised /\ MailNeedsTheWait
<1> USE DEF TypeOK, AnswersWereRaised, MailNeedsTheWait
<1>1. ASSUME NEW i \in Instances, Start(i) PROVE Goal'
  BY <1>1 DEF Start
<1>2. ASSUME NEW i \in Instances, NotifyDone(i) PROVE Goal'
  BY <1>2 DEF NotifyDone
<1>3. ASSUME NEW i \in Instances, NotifyFailed(i) PROVE Goal'
  BY <1>3 DEF NotifyFailed
<1>4. ASSUME NEW i \in Instances, NEW e \in Event, RaiseDecision(i, e)
      PROVE  Goal'
  BY <1>4 DEF RaiseDecision, TakesEvent, Waiting
<1>5. ASSUME NEW i \in Instances, TimerFires(i) PROVE Goal'
  BY <1>5 DEF TimerFires, TimerArmed, Waiting
<1>6. ASSUME NEW i \in Instances, Decide(i) PROVE Goal'
  BY <1>6 DEF Decide
<1>7. ASSUME NEW i \in Instances, DecideFails(i) PROVE Goal'
  BY <1>7 DEF DecideFails, DecodeFailure
<1>8. ASSUME NEW i \in Instances, Complete(i) PROVE Goal'
  BY <1>8 DEF Complete
<1>9. ASSUME UNCHANGED <<stage, mail, early, raised>> PROVE Goal'
  BY <1>9
<1> HIDE DEF Goal
<1>10. ASSUME NEW i \in Instances, InvokeNotifier(i) \/ InvokeNotifierFails(i)
                                     \/ SaveDecision(i) \/ SaveDecisionFails(i)
       PROVE  Goal'
  BY <1>9, <1>10
  DEF InvokeNotifier, InvokeNotifierFails, SaveDecision, SaveDecisionFails
<1>11. Crash \/ UNCHANGED vars => Goal'
  BY <1>9 DEF Crash, vars
<1>12. Goal'
  BY <1>1, <1>2, <1>3, <1>4, <1>5, <1>6, <1>7, <1>8, <1>10, <1>11
  DEF Next, Turn, Activity
<1> QED
  BY <1>12 DEF Goal

\* A verdict is made of the answer in the mailbox, and answers stay raised.
LEMMA DecidedStep ==
  ASSUME TypeOK, AnswersWereRaised, DecidedByRequest, [Next]_vars
  PROVE  DecidedByRequest'
<1> USE DEF TypeOK, DecidedByRequest
<1>1. ASSUME NEW i \in Instances, NEW e \in Event, RaiseDecision(i, e)
      PROVE  DecidedByRequest'
  BY <1>1 DEF RaiseDecision
<1>2. ASSUME NEW i \in Instances, Decide(i) PROVE DecidedByRequest'
  BY <1>2 DEF Decide, VerdictOn, AnswersWereRaised
<1>3. ASSUME UNCHANGED <<verdict, raised>> PROVE DecidedByRequest'
  BY <1>3
<1>4. ASSUME NEW i \in Instances,
             \/ Start(i) \/ InvokeNotifier(i) \/ InvokeNotifierFails(i)
             \/ NotifyDone(i) \/ NotifyFailed(i) \/ TimerFires(i)
             \/ DecideFails(i) \/ SaveDecision(i) \/ SaveDecisionFails(i)
             \/ Complete(i)
      PROVE  DecidedByRequest'
  BY <1>3, <1>4
  DEF Start, InvokeNotifier, InvokeNotifierFails, NotifyDone, NotifyFailed,
      TimerFires, DecideFails, SaveDecision, SaveDecisionFails, Complete
<1>5. Crash \/ UNCHANGED vars => DecidedByRequest'
  BY <1>3 DEF Crash, vars
<1> QED
  BY <1>1, <1>2, <1>4, <1>5 DEF Next, Turn, Activity

\* An instance ends by itself only after its activity wrote or failed.
LEMMA StageStep ==
  ASSUME TypeOK, RecordFollowsStage, [Next]_vars
  PROVE  RecordFollowsStage'
<1> USE DEF TypeOK, RecordFollowsStage
<1>1. ASSUME NEW i \in Instances, Start(i) PROVE RecordFollowsStage'
  BY <1>1 DEF Start
<1>2. ASSUME NEW i \in Instances, InvokeNotifier(i) PROVE RecordFollowsStage'
  BY <1>2 DEF InvokeNotifier
<1>3. ASSUME NEW i \in Instances, InvokeNotifierFails(i)
      PROVE  RecordFollowsStage'
  BY <1>3 DEF InvokeNotifierFails, Fault
<1>4. ASSUME NEW i \in Instances, NotifyDone(i) PROVE RecordFollowsStage'
  BY <1>4 DEF NotifyDone
<1>5. ASSUME NEW i \in Instances, NotifyFailed(i) PROVE RecordFollowsStage'
  BY <1>5 DEF NotifyFailed
<1>6. ASSUME NEW i \in Instances, NEW e \in Event, RaiseDecision(i, e)
      PROVE  RecordFollowsStage'
  BY <1>6 DEF RaiseDecision
<1>7. ASSUME NEW i \in Instances, TimerFires(i) PROVE RecordFollowsStage'
  BY <1>7 DEF TimerFires
<1>8. ASSUME NEW i \in Instances, Decide(i) PROVE RecordFollowsStage'
  BY <1>8 DEF Decide
<1>9. ASSUME NEW i \in Instances, DecideFails(i) PROVE RecordFollowsStage'
  BY <1>9 DEF DecideFails, DecodeFailure
<1>10. ASSUME NEW i \in Instances, SaveDecision(i) PROVE RecordFollowsStage'
  BY <1>10 DEF SaveDecision, Save
<1>11. ASSUME NEW i \in Instances, SaveDecisionFails(i)
       PROVE  RecordFollowsStage'
  BY <1>11 DEF SaveDecisionFails, Save, Fault
<1>12. ASSUME NEW i \in Instances, Complete(i) PROVE RecordFollowsStage'
  BY <1>12 DEF Complete, Awaited
<1>13. ASSUME Crash PROVE RecordFollowsStage'
  BY <1>13 DEF Crash, Fault
<1>14. ASSUME UNCHANGED vars PROVE RecordFollowsStage'
  BY <1>14 DEF vars
<1> QED
  BY <1>1, <1>2, <1>3, <1>4, <1>5, <1>6, <1>7, <1>8, <1>9, <1>10, <1>11,
     <1>12, <1>13, <1>14 DEF Next, Turn, Activity

\* Writing under a resource makes the writer the author of that record.
LEMMA SaveKeepsAuthors ==
  ASSUME TypeOK, RecordHasAnAuthor, NEW i \in Instances, Save(i),
         UNCHANGED verdict
  PROVE  RecordHasAnAuthor'
<1> SUFFICES ASSUME NEW r \in Resources, record'[r].by # NoRecord
             PROVE  /\ record'[r].by \in saved'
                    /\ ResourceOf[record'[r].by] = r
                    /\ record'[r].decision = verdict'[record'[r].by]
  BY DEF RecordHasAnAuthor
<1>1. CASE r = ResourceOf[i]
  <2>1. record'[r] = [by |-> i, decision |-> verdict[i]]
    BY <1>1 DEF Save, Content, TypeOK
  <2> QED
    BY <1>1, <2>1 DEF Save
<1>2. CASE r # ResourceOf[i]
  BY <1>2 DEF Save, TypeOK, RecordHasAnAuthor
<1> QED
  BY <1>1, <1>2

\* A record outlives every step, and the verdict it holds is final.
LEMMA AuthorStep ==
  ASSUME TypeOK, RecordFollowsStage, RecordHasAnAuthor, [Next]_vars
  PROVE  RecordHasAnAuthor'
<1>1. ASSUME NEW i \in Instances, SaveDecision(i) PROVE RecordHasAnAuthor'
  BY <1>1, SaveKeepsAuthors DEF SaveDecision
<1>2. ASSUME UNCHANGED <<record, saved, verdict>> PROVE RecordHasAnAuthor'
  BY <1>2 DEF RecordHasAnAuthor
<1>3. ASSUME NEW i \in Instances, SaveDecisionFails(i)
      PROVE  RecordHasAnAuthor'
  BY <1>2, <1>3, SaveKeepsAuthors DEF SaveDecisionFails
<1>4. ASSUME NEW i \in Instances, Decide(i) PROVE RecordHasAnAuthor'
  <2>1. i \notin saved
    BY <1>4 DEF Decide, RecordFollowsStage
  <2>2. \A j \in Instances : j # i => verdict'[j] = verdict[j]
    BY <1>4 DEF Decide, TypeOK
  <2> QED
    BY <1>4, <2>1, <2>2 DEF Decide, TypeOK, RecordHasAnAuthor
<1>5. ASSUME NEW i \in Instances,
             \/ Start(i) \/ InvokeNotifier(i) \/ InvokeNotifierFails(i)
             \/ NotifyDone(i) \/ NotifyFailed(i) \/ TimerFires(i)
             \/ DecideFails(i) \/ Complete(i)
             \/ \E e \in Event : RaiseDecision(i, e)
      PROVE  RecordHasAnAuthor'
  BY <1>2, <1>5
  DEF Start, InvokeNotifier, InvokeNotifierFails, NotifyDone, NotifyFailed,
      TimerFires, DecideFails, Complete, RaiseDecision
<1>6. Crash \/ UNCHANGED vars => RecordHasAnAuthor'
  BY <1>2 DEF Crash, vars
<1> QED
  BY <1>1, <1>3, <1>4, <1>5, <1>6 DEF Next, Turn, Activity

\* The first answer ends the wait, and what was decided of it stays.
LEMMA FinalStep ==
  ASSUME TypeOK, MailNeedsTheWait, [Next]_vars, NEW i \in Instances
  PROVE  /\ verdict[i] # "none" => verdict'[i] = verdict[i]
         /\ mail[i] # "none" => mail'[i] = mail[i]
<1> DEFINE Goal == /\ verdict[i] # "none" => verdict'[i] = verdict[i]
                   /\ mail[i] # "none" => mail'[i] = mail[i]
<1>1. ASSUME NEW j \in Instances, NotifyDone(j) PROVE Goal
  BY <1>1 DEF NotifyDone, MailNeedsTheWait, TypeOK
<1>2. ASSUME NEW j \in Instances, NEW e \in Event, RaiseDecision(j, e)
      PROVE  Goal
  BY <1>2 DEF RaiseDecision, TakesEvent, Waiting, TypeOK
<1>3. ASSUME NEW j \in Instances, TimerFires(j) PROVE Goal
  BY <1>3 DEF TimerFires, TimerArmed, Waiting, TypeOK
<1>4. ASSUME NEW j \in Instances, Decide(j) PROVE Goal
  BY <1>4 DEF Decide, TypeOK
<1>5. ASSUME UNCHANGED <<mail, verdict>> PROVE Goal
  BY <1>5
<1>6. ASSUME NEW j \in Instances,
             \/ Start(j) \/ InvokeNotifier(j) \/ InvokeNotifierFails(j)
             \/ NotifyFailed(j) \/ DecideFails(j) \/ SaveDecision(j)
             \/ SaveDecisionFails(j) \/ Complete(j)
      PROVE  Goal
  BY <1>5, <1>6
  DEF Start, InvokeNotifier, InvokeNotifierFails, NotifyFailed, DecideFails,
      SaveDecision, SaveDecisionFails, Complete
<1>7. Crash \/ UNCHANGED vars => Goal
  BY <1>5 DEF Crash, vars
<1> HIDE DEF Goal
<1>8. Goal
  BY <1>1, <1>2, <1>3, <1>4, <1>6, <1>7 DEF Next, Turn, Activity
<1> QED
  BY <1>8 DEF Goal

\* The invariant is inductive.
LEMMA NextInv == Inv /\ [Next]_vars => Inv'
BY TypeStep, AnswersStep, DecidedStep, StageStep, AuthorStep DEF Inv

\* Every behaviour of the workflow stays within the invariant.
LEMMA InvAlways == Spec => []Inv
BY InitInv, NextInv, PTL DEF Spec

\* main.go:248-305: instances, mailboxes, records and history keep their
\* shape, and exactly the instances that record or have ended have a verdict.
THEOREM WorkflowTypeOK == Spec => []TypeOK
<1>1. Inv => TypeOK
  BY DEF Inv
<1> QED
  BY InvAlways, <1>1, PTL

\* main.go:282-294: nothing is approved or rejected unasked, in whatever
\* order approve, reject, bodies that do not decode and the timeout arrive.
THEOREM DecisionsWereRequested == Spec => []DecidedByRequest
<1>1. Inv => DecidedByRequest
  BY DEF Inv
<1> QED
  BY InvAlways, <1>1, PTL

\* main.go:339-341: a record is the final decision of an instance about that
\* resource, and a page only shows a decision that was recorded, unless a
\* call failed.
THEOREM RecordsAreDecisions == Spec => []RecordIsADecision
<1>1. Inv => RecordIsADecision
  <2> SUFFICES ASSUME Inv PROVE RecordIsADecision
    OBVIOUS
  <2>1. \A i \in Instances : Page(i) \in Verdict => i \in saved \/ faults > 0
    BY DEF Inv, RecordFollowsStage, TypeOK, Page, renderOptimisationOutcome
  <2> QED
    BY <2>1 DEF Inv, RecordHasAnAuthor, RecordIsADecision
<1> QED
  BY InvAlways, <1>1, PTL

\* main.go:219: the first decision that reaches the wait is the decision.
THEOREM TheFirstDecisionCounts == Spec => DecisionIsFinal
<1>1. Inv /\ [Next]_vars =>
        [\A i \in Instances :
           /\ verdict[i] # "none" => verdict'[i] = verdict[i]
           /\ mail[i] # "none" => mail'[i] = mail[i]]_vars
  BY FinalStep DEF Inv
<1> QED
  BY InvAlways, <1>1, PTL DEF Spec, DecisionIsFinal
=============================================================================
