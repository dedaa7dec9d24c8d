---------------------------- MODULE TriageWorkflow ----------------------------
(***************************************************************************)
(* The life of a TriageWorkflow instance (services/triage-svc/main.go):    *)
(* notify the owner, wait for an ack, escalate on timeout, give up after   *)
(* MAX_ESCALATIONS.                                                        *)
(*                                                                         *)
(* The workflow function is replayed from its history on every turn, so    *)
(* what survives a restart is the history: the activities that completed   *)
(* and the event that ended each wait.  An activity whose result is not in *)
(* the history yet runs again.  MAX_ESCALATIONS is read on every replay,   *)
(* the timeout of a wait only when the wait is created.                    *)
(*                                                                         *)
(* The engine itself is external.  NOTES.md:549 observed that an event     *)
(* raised while nobody waits is dropped and that the documentation says it *)
(* is buffered: both are modelled.                                         *)
(***************************************************************************)
EXTENDS Integers, FiniteSets

CONSTANTS
  Instances,
  Limits,        \* values MAX_ESCALATIONS may be given
  MaxAcks,       \* bound: POST /workflows/{id}/ack per instance
  MaxFaults,     \* bound: failed calls and crashes
  MaxRedeploys   \* bound: roll-outs with another MAX_ESCALATIONS

ASSUME LimitsAssumption == Limits \subseteq Nat /\ Limits # {}

ASSUME WorkflowBoundsAssumption ==
  MaxAcks \in Nat /\ MaxFaults \in Nat /\ MaxRedeploys \in Nat

VARIABLES
  stage,        \* where the function of an instance has got to
  round,        \* the loop variable; 0 before the loop
  call,         \* the activity that runs and is not in the history yet
  mail,         \* what ended the current wait
  early,        \* an event the engine kept for the next wait
  escalations,  \* the count in the workflow's output
  limit,        \* MAX_ESCALATIONS of the running pod
  delivered,    \* /notify calls that reached notifier-svc for an instance
  acks,         \* acks raised so far
  limitAtStart, \* history: limit when the instance was started
  accepted,     \* history: instances with a well-formed ack answered 200
  inTime,       \* history: those whose ack came while the wait was open
  faults, redeploys

history == <<stage, round, mail, early, escalations>>
ghosts  == <<limitAtStart, accepted, inTime>>
vars    == <<history, call, limit, delivered, acks, ghosts, faults, redeploys>>

Ended == {"acked", "unacked", "failed"}
Stage == {"none", "notify", "wait"} \cup Ended
Call  == {"none", "okay", "error"}

\* An ack that decodes as an ackEvent, and one that does not.
Ack  == {"ack", "garbled"}
Mail == Ack \cup {"none", "timeout"}

Fault == faults < MaxFaults /\ faults' = faults + 1

Init ==
  /\ stage = [i \in Instances |-> "none"]
  /\ round = [i \in Instances |-> 0]
  /\ call = [i \in Instances |-> "none"]
  /\ mail = [i \in Instances |-> "none"]
  /\ early = [i \in Instances |-> "none"]
  /\ escalations = [i \in Instances |-> 0]
  /\ limit \in Limits
  /\ delivered = [i \in Instances |-> 0]
  /\ acks = [i \in Instances |-> 0]
  /\ limitAtStart = [i \in Instances |-> 0]
  /\ accepted = {}
  /\ inTime = {}
  /\ faults = 0
  /\ redeploys = 0

Start(i) ==
  /\ stage[i] = "none"
  /\ stage' = [stage EXCEPT ![i] = "notify"]
  /\ limitAtStart' = [limitAtStart EXCEPT ![i] = limit]
  /\ UNCHANGED <<round, mail, early, escalations, call, limit, delivered, acks,
                 accepted, inTime, faults, redeploys>>

(***************************************************************************)
(* NotifyOwnerActivity: round 0 is the initial notification, round n the   *)
(* n-th escalation.                                                        *)
(***************************************************************************)
InvokeNotifier(i) ==
  /\ stage[i] = "notify"
  /\ call[i] = "none"
  /\ call' = [call EXCEPT ![i] = "okay"]
  /\ delivered' = [delivered EXCEPT ![i] = @ + 1]
  /\ UNCHANGED <<history, limit, acks, ghosts, faults, redeploys>>

\* notifier-svc cannot be reached, answers 502, or its answer is lost.
InvokeNotifierFails(i) ==
  /\ Fault
  /\ stage[i] = "notify"
  /\ call[i] = "none"
  /\ call' = [call EXCEPT ![i] = "error"]
  /\ \/ UNCHANGED delivered
     \/ delivered' = [delivered EXCEPT ![i] = @ + 1]
  /\ UNCHANGED <<history, limit, acks, ghosts, redeploys>>

\* The escalations the history holds, completed or not.
Escalated(i) == IF stage[i] = "wait" THEN round[i] - 1 ELSE round[i]

\* A replay takes the same path as the history as long as the loop still
\* runs that far.
Replayable(i) == Escalated(i) <= limit

\* Mistake: the loop advances twice.
RoundAfterSkipped(i) == round[i] + 2

RoundAfter(i) == round[i] + 1

NotifyDone(i) ==
  /\ stage[i] = "notify"
  /\ call[i] = "okay"
  /\ Replayable(i)
  /\ call' = [call EXCEPT ![i] = "none"]
  /\ stage' = [stage EXCEPT ![i] = "wait"]
  /\ round' = [round EXCEPT ![i] = RoundAfter(i)]
  /\ mail' = [mail EXCEPT ![i] = early[i]]
  /\ early' = [early EXCEPT ![i] = "none"]
  /\ UNCHANGED <<escalations, limit, delivered, acks, ghosts, faults, redeploys>>

\* Mistake: a failed notification is taken for one that nobody acknowledged.
IgnoreFailure == "unacked"

NotifyFailure == "failed"

NotifyFailed(i) ==
  /\ stage[i] = "notify"
  /\ call[i] = "error"
  /\ Replayable(i)
  /\ call' = [call EXCEPT ![i] = "none"]
  /\ stage' = [stage EXCEPT ![i] = NotifyFailure]
  /\ UNCHANGED <<round, mail, early, escalations, limit, delivered, acks,
                 ghosts, faults, redeploys>>

(***************************************************************************)
(* WaitForExternalEvent(ack, timeout)                                      *)
(***************************************************************************)
Waiting(i) == stage[i] = "wait" /\ mail[i] = "none"

\* POST /workflows/{id}/ack on a running instance is answered 200; on one that
\* has ended the engine refuses it and the answer is 502.
RaiseAck(i, ack) ==
  /\ stage[i] \in {"notify", "wait"}
  /\ acks[i] < MaxAcks
  /\ acks' = [acks EXCEPT ![i] = @ + 1]
  /\ IF Waiting(i)
       THEN mail' = [mail EXCEPT ![i] = ack] /\ UNCHANGED early
       ELSE early' \in {early, [early EXCEPT ![i] = ack]} /\ UNCHANGED mail
  /\ accepted' = IF ack = "ack" THEN accepted \cup {i} ELSE accepted
  /\ inTime' = IF ack = "ack" /\ Waiting(i) THEN inTime \cup {i} ELSE inTime
  /\ UNCHANGED <<stage, round, escalations, call, limit, delivered,
                 limitAtStart, faults, redeploys>>

\* Mistakes: only the first wait has a timeout; an ack does not cancel it.
FirstWaitOnly(i) == Waiting(i) /\ round[i] = 1
NeverCancelled(i) == stage[i] = "wait" /\ mail[i] # "timeout"

TimerArmed(i) == Waiting(i)

TimerFires(i) ==
  /\ TimerArmed(i)
  /\ mail' = [mail EXCEPT ![i] = "timeout"]
  /\ UNCHANGED <<stage, round, early, escalations, call, limit, delivered, acks,
                 ghosts, faults, redeploys>>

End(i, status, n) ==
  /\ stage' = [stage EXCEPT ![i] = status]
  /\ escalations' = [escalations EXCEPT ![i] = n]
  /\ UNCHANGED <<round, mail, early, call, limit, delivered, acks, ghosts,
                 faults, redeploys>>

ObserveAck(i) ==
  /\ stage[i] = "wait"
  /\ mail[i] = "ack"
  /\ Replayable(i)
  /\ End(i, "acked", round[i] - 1)

\* The payload does not decode: an error that is no timeout.
ObserveGarbled(i) ==
  /\ stage[i] = "wait"
  /\ mail[i] = "garbled"
  /\ Replayable(i)
  /\ End(i, "failed", 0)

\* Mistake: the last round escalates as well.
EscalatesOnceMore(i) == round[i] <= limit + 1

MayEscalate(i) == round[i] <= limit

Escalate(i) ==
  /\ stage[i] = "wait"
  /\ mail[i] = "timeout"
  /\ Replayable(i)
  /\ MayEscalate(i)
  /\ stage' = [stage EXCEPT ![i] = "notify"]
  /\ mail' = [mail EXCEPT ![i] = "none"]
  /\ UNCHANGED <<round, early, escalations, call, limit, delivered, acks,
                 ghosts, faults, redeploys>>

GiveUp(i) ==
  /\ stage[i] = "wait"
  /\ mail[i] = "timeout"
  /\ Replayable(i)
  /\ ~MayEscalate(i)
  /\ End(i, "unacked", limit)

(***************************************************************************)
(* Restarts                                                                *)
(***************************************************************************)
\* The pod dies: histories stay, running activities will run again.
Crash ==
  /\ Fault
  /\ call' = [i \in Instances |-> "none"]
  /\ UNCHANGED <<history, limit, delivered, acks, ghosts, redeploys>>

Redeploy(n) ==
  /\ redeploys < MaxRedeploys
  /\ redeploys' = redeploys + 1
  /\ limit' = n
  /\ call' = [i \in Instances |-> "none"]
  /\ UNCHANGED <<history, delivered, acks, ghosts, faults>>

\* A history with more escalations than the new limit allows: the function
\* returns unacked after limit of them, and the engine takes its word or fails
\* the instance for not following its history.
Diverge(i) ==
  /\ \/ stage[i] = "notify" /\ call[i] # "none"
     \/ stage[i] = "wait" /\ mail[i] # "none"
  /\ ~Replayable(i)
  /\ \E status \in {"unacked", "failed"} :
       stage' = [stage EXCEPT ![i] = status]
  /\ escalations' = [escalations EXCEPT ![i] = limit]
  /\ call' = [call EXCEPT ![i] = "none"]
  /\ UNCHANGED <<round, mail, early, limit, delivered, acks, ghosts, faults,
                 redeploys>>

\* What the page says of an instance that does not run: its output, which a
\* failed one does not have.
renderTriageOutcome(i) ==
  IF stage[i] \in {"acked", "unacked"} THEN stage[i] ELSE "no output"

\* GET /workflows/{id}/page: the button while the instance runs.
Page(i) ==
  IF stage[i] \in {"acked", "unacked", "failed"}
    THEN renderTriageOutcome(i) ELSE "button"

(***************************************************************************)
(* The specification                                                       *)
(***************************************************************************)
\* One turn of the workflow function.
Turn(i) ==
  \/ NotifyDone(i) \/ NotifyFailed(i)
  \/ ObserveAck(i) \/ ObserveGarbled(i) \/ Escalate(i) \/ GiveUp(i)
  \/ Diverge(i)

Next ==
  \/ \E i \in Instances :
       \/ Start(i) \/ InvokeNotifier(i) \/ InvokeNotifierFails(i)
       \/ \E ack \in Ack : RaiseAck(i, ack)
       \/ TimerFires(i) \/ Turn(i)
  \/ Crash
  \/ \E n \in Limits : Redeploy(n)

Spec == Init /\ [][Next]_vars

\* The worker runs its activities and turns, and a timer of the engine fires.
Fairness ==
  \A i \in Instances :
    WF_vars(InvokeNotifier(i)) /\ WF_vars(TimerFires(i)) /\ WF_vars(Turn(i))

FairSpec == Spec /\ Fairness

(***************************************************************************)
(* Properties                                                              *)
(***************************************************************************)
\* Every variable has the shape the code gives it, and the loop makes no more
\* rounds than the largest limit asks for.
TypeOK ==
  /\ stage \in [Instances -> Stage]
  /\ round \in [Instances -> Nat]
  /\ \A i \in Instances : \E n \in Limits : round[i] <= n + 1
  /\ call \in [Instances -> Call]
  /\ mail \in [Instances -> Mail]
  /\ early \in [Instances -> Ack \cup {"none"}]
  /\ escalations \in [Instances -> Nat]
  /\ limit \in Limits
  /\ delivered \in [Instances -> Nat]
  /\ acks \in [Instances -> 0..MaxAcks]
  /\ limitAtStart \in [Instances -> Nat]
  /\ accepted \subseteq Instances
  /\ inTime \subseteq accepted
  /\ faults \in 0..MaxFaults
  /\ redeploys \in 0..MaxRedeploys

\* main.go:1067-1073 "All notifications were delivered": the count on
\* the page never exceeds what the owner was sent, across crashes, lost answers
\* and changes of the limit.
OutcomeWasNotified ==
  \A i \in Instances :
    Page(i) \in {"acked", "unacked"} => delivered[i] >= escalations[i] + 1

\* main.go:124-125: the owner is sent one initial notification and at most
\* MAX_ESCALATIONS more; each fault or roll-out repeats at most one of them.
NaggingIsBounded ==
  \A i \in Instances :
    \E n \in Limits :
      delivered[i] <= n + 1 + faults + redeploys

\* Under one limit and without faults the outcome tells exactly what happened.
OutcomeIsExact ==
  \A i \in Instances :
    faults = 0 /\ redeploys = 0 =>
      /\ stage[i] \in {"acked", "unacked"} => delivered[i] = escalations[i] + 1
      /\ stage[i] = "unacked" => escalations[i] = limitAtStart[i]
      /\ stage[i] = "acked" => i \in accepted
      /\ stage[i] = "failed" => i \notin inTime

\* main.go:126-138: an ack that arrives while the wait is open ends the
\* notifications and is never turned into unacked, whatever restarts follow.
InTimeAckWins ==
  [][\A i \in inTime :
       /\ stage'[i] # "notify"
       /\ redeploys' = 0 => stage'[i] \in {"wait", "acked"}]_vars

\* NOTES.md:531 "No dangling job, no zombie timer": every started instance
\* comes to an end, by its timers if nobody acknowledges.
Terminates ==
  \A i \in Instances : stage[i] # "none" ~> stage[i] \in Ended

(***************************************************************************)
(* Why the outcome can be trusted                                          *)
(***************************************************************************)
\* Every round the function has entered was preceded by its notification, and
\* only a round that is being notified has an activity running.
RoundsWereNotified ==
  \A i \in Instances :
    /\ stage[i] = "none" => round[i] = 0
    /\ call[i] # "none" => stage[i] = "notify"
    /\ stage[i] = "wait" => round[i] >= 1 /\ delivered[i] >= round[i]
    /\ stage[i] = "notify" =>
         delivered[i] >= round[i] + (IF call[i] = "okay" THEN 1 ELSE 0)

\* Under one limit the loop stays within it.
LoopIsInLimit ==
  \A i \in Instances :
    redeploys = 0 /\ stage[i] \in {"notify", "wait"} => Escalated(i) <= limit

\* An ack that came in time stays what the wait will return.
AckIsKept ==
  \A i \in inTime :
    \/ stage[i] = "wait" /\ mail[i] = "ack"
    \/ stage[i] = "acked"
    \/ stage[i] \in Ended /\ redeploys > 0

Sent(i) == round[i] + (IF call[i] = "okay" THEN 1 ELSE 0)

\* Only a fault or a roll-out makes a notification repeat, and every round that
\* notifies was allowed by a limit the service has had.
RepeatsHaveACause ==
  \A i \in Instances :
    /\ stage[i] \notin Ended => delivered[i] <= Sent(i) + faults + redeploys
    /\ stage[i] = "notify" => \E n \in Limits : round[i] <= n

\* Until the first fault or roll-out the rounds are the notifications, the
\* limit is the one of the start, and a wait ends with the ack somebody sent.
NothingHappened == faults = 0 /\ redeploys = 0

QuietRun ==
  \A i \in Instances :
    /\ mail[i] = "ack" \/ early[i] = "ack" => i \in accepted
    /\ NothingHappened => call[i] # "error"
    /\ NothingHappened /\ stage[i] # "none" => limitAtStart[i] = limit
    /\ NothingHappened /\ stage[i] \notin Ended => delivered[i] = Sent(i)

\* Why an outcome can be trusted, an ack in time is not lost and the owner is
\* not nagged: with TypeOK, NaggingIsBounded and OutcomeIsExact this is inductive.
WorkflowInv ==
  /\ RoundsWereNotified /\ OutcomeWasNotified
  /\ LoopIsInLimit /\ AckIsKept
  /\ RepeatsHaveACause /\ QuietRun
=============================================================================
