------------------------- MODULE OptimisationWorkflow -------------------------
(***************************************************************************)
(* The life of an OptimisationWorkflow instance                            *)
(* (services/triage-svc/main.go): notify the owner, wait once for approve  *)
(* or reject, record the outcome under optimisation-decision:<resource>    *)
(* and end.  What the engine does with events and with activities that a   *)
(* restart interrupts is modelled as in TriageWorkflow.                    *)
(***************************************************************************)
EXTENDS Integers, FiniteSets

CONSTANTS
  Instances,    \* one per (team, resource, suggested action)
  Resources,
  ResourceOf,   \* the resource an instance is about
  MaxEvents,    \* bound: POST .../approve and .../reject per instance
  MaxFaults,    \* bound: failed calls and crashes
  NoRecord

ASSUME ResourcesAssumption ==
  /\ ResourceOf \in [Instances -> Resources]
  /\ NoRecord \notin Instances

ASSUME DecisionBoundsAssumption == MaxEvents \in Nat /\ MaxFaults \in Nat

VARIABLES
  stage,    \* where the function of an instance has got to
  call,     \* the activity that runs and is not in the history yet
  mail,     \* what ended the wait
  early,    \* an event the engine kept for the wait
  verdict,  \* decision.Decision of the instance
  record,   \* optimisation-decision:<resource>: who wrote it, and what
  events,   \* events raised so far
  raised,   \* history: the answers each instance was given with a 200
  saved,    \* history: instances that wrote their record
  faults

history == <<stage, mail, early, verdict>>
ghosts  == <<raised, saved>>
vars    == <<history, call, record, events, ghosts, faults>>

Ended   == {"ended", "failed"}
Stage   == {"none", "notify", "wait", "record"} \cup Ended
Call    == {"none", "okay", "error"}
Choice  == {"approve", "reject"}
Verdict == {"approved", "rejected", "expired"}

\* A body that does not decode as a decisionEvent spoils the event, whatever
\* the route injects.
Event == Choice \cup {"garbled"}
Mail  == Event \cup {"none", "timeout"}

Fault == faults < MaxFaults /\ faults' = faults + 1

Init ==
  /\ stage = [i \in Instances |-> "none"]
  /\ call = [i \in Instances |-> "none"]
  /\ mail = [i \in Instances |-> "none"]
  /\ early = [i \in Instances |-> "none"]
  /\ verdict = [i \in Instances |-> "none"]
  /\ record = [r \in Resources |-> [by |-> NoRecord, decision |-> "none"]]
  /\ events = [i \in Instances |-> 0]
  /\ raised = [i \in Instances |-> {}]
  /\ saved = {}
  /\ faults = 0

Goto(i, label) == stage' = [stage EXCEPT ![i] = label]
Calls(i, result) == call' = [call EXCEPT ![i] = result]

Start(i) ==
  /\ stage[i] = "none"
  /\ Goto(i, "notify")
  /\ UNCHANGED <<mail, early, verdict, call, record, events, ghosts, faults>>

(***************************************************************************)
(* NotifyOptimisationActivity                                              *)
(***************************************************************************)
InvokeNotifier(i) ==
  /\ stage[i] = "notify"
  /\ call[i] = "none"
  /\ Calls(i, "okay")
  /\ UNCHANGED <<history, record, events, ghosts, faults>>

InvokeNotifierFails(i) ==
  /\ Fault
  /\ stage[i] = "notify"
  /\ call[i] = "none"
  /\ Calls(i, "error")
  /\ UNCHANGED <<history, record, events, ghosts>>

NotifyDone(i) ==
  /\ stage[i] = "notify"
  /\ call[i] = "okay"
  /\ Calls(i, "none")
  /\ Goto(i, "wait")
  /\ mail' = [mail EXCEPT ![i] = early[i]]
  /\ early' = [early EXCEPT ![i] = "none"]
  /\ UNCHANGED <<verdict, record, events, ghosts, faults>>

NotifyFailed(i) ==
  /\ stage[i] = "notify"
  /\ call[i] = "error"
  /\ Calls(i, "none")
  /\ Goto(i, "failed")
  /\ UNCHANGED <<mail, early, verdict, record, events, ghosts, faults>>

(***************************************************************************)
(* WaitForExternalEvent(decision, timeout), one wait                       *)
(***************************************************************************)
Waiting(i) == stage[i] = "wait" /\ mail[i] = "none"

\* Mistake: a later event replaces the one that ended the wait.
LastEventWins(i) == stage[i] = "wait"

TakesEvent(i) == Waiting(i)

\* 200 while the instance runs, 502 when it has ended.
RaiseDecision(i, e) ==
  /\ stage[i] \in {"notify", "wait", "record"}
  /\ events[i] < MaxEvents
  /\ events' = [events EXCEPT ![i] = @ + 1]
  /\ raised' = [raised EXCEPT ![i] = @ \cup {e}]
  /\ IF TakesEvent(i)
       THEN mail' = [mail EXCEPT ![i] = e] /\ UNCHANGED early
       ELSE early' \in {early, [early EXCEPT ![i] = e]} /\ UNCHANGED mail
  /\ UNCHANGED <<stage, verdict, call, record, saved, faults>>

\* Mistake: a timeout of zero, which the engine takes for "wait forever".
NoTimer(i) == FALSE

\* decisionTimeout is never zero.
TimerArmed(i) == Waiting(i)

TimerFires(i) ==
  /\ TimerArmed(i)
  /\ mail' = [mail EXCEPT ![i] = "timeout"]
  /\ UNCHANGED <<stage, early, verdict, call, record, events, ghosts, faults>>

\* Mistake: everything but a rejection approves.
ApprovedUnlessRejected(m) == IF m = "reject" THEN "rejected" ELSE "approved"

VerdictOn(m) ==
  CASE m = "approve" -> "approved"
    [] m = "reject"  -> "rejected"
    [] m = "timeout" -> "expired"

Decide(i) ==
  /\ stage[i] = "wait"
  /\ mail[i] \in Choice \cup {"timeout"}
  /\ verdict' = [verdict EXCEPT ![i] = VerdictOn(mail[i])]
  /\ Goto(i, "record")
  /\ UNCHANGED <<mail, early, call, record, events, ghosts, faults>>

\* Mistake: the default branch falls through to the record.
FallsThrough == "record"

DecodeFailure == "failed"

DecideFails(i) ==
  /\ stage[i] = "wait"
  /\ mail[i] = "garbled"
  /\ Goto(i, DecodeFailure)
  /\ UNCHANGED <<mail, early, verdict, call, record, events, ghosts, faults>>

(***************************************************************************)
(* RecordDecisionActivity: a plain SaveState under the resource            *)
(***************************************************************************)
\* Mistake: the event is recorded, not what was made of it.
RawEvent(i) == [by |-> i, decision |-> mail[i]]

Content(i) == [by |-> i, decision |-> verdict[i]]

Save(i) ==
  /\ record' = [record EXCEPT ![ResourceOf[i]] = Content(i)]
  /\ saved' = saved \cup {i}

SaveDecision(i) ==
  /\ stage[i] = "record"
  /\ call[i] = "none"
  /\ Save(i)
  /\ Calls(i, "okay")
  /\ UNCHANGED <<history, events, raised, faults>>

SaveDecisionFails(i) ==
  /\ Fault
  /\ stage[i] = "record"
  /\ call[i] = "none"
  /\ Save(i) \/ UNCHANGED <<record, saved>>
  /\ Calls(i, "error")
  /\ UNCHANGED <<history, events, raised>>

Awaited(i) == call[i] # "none"

\* An error of the activity is logged; the instance completes all the same.
Complete(i) ==
  /\ stage[i] = "record"
  /\ Awaited(i)
  /\ Calls(i, "none")
  /\ Goto(i, "ended")
  /\ UNCHANGED <<mail, early, verdict, record, events, ghosts, faults>>

\* The pod dies: histories stay, running activities will run again.
Crash ==
  /\ Fault
  /\ call' = [i \in Instances |-> "none"]
  /\ UNCHANGED <<history, record, events, ghosts>>

\* What the page says of an instance that does not run: its output, which a
\* failed one does not have.
renderOptimisationOutcome(i) ==
  IF stage[i] = "ended" THEN verdict[i] ELSE "no output"

\* GET /workflows/{id}/page: the two buttons while the instance runs.
Page(i) ==
  CASE stage[i] = "none"              -> "not found"
    [] stage[i] \in {"ended", "failed"} -> renderOptimisationOutcome(i)
    [] OTHER                          -> "buttons"

(***************************************************************************)
(* The specification                                                       *)
(***************************************************************************)
Turn(i) ==
  NotifyDone(i) \/ NotifyFailed(i) \/ Decide(i) \/ DecideFails(i) \/ Complete(i)

Activity(i) == InvokeNotifier(i) \/ SaveDecision(i)

Next ==
  \/ \E i \in Instances :
       \/ Start(i) \/ Activity(i) \/ Turn(i) \/ TimerFires(i)
       \/ InvokeNotifierFails(i) \/ SaveDecisionFails(i)
       \/ \E e \in Event : RaiseDecision(i, e)
  \/ Crash

Spec == Init /\ [][Next]_vars

\* The worker runs its activities and turns, and a timer of the engine fires.
Fairness ==
  \A i \in Instances :
    WF_vars(Activity(i)) /\ WF_vars(TimerFires(i)) /\ WF_vars(Turn(i))

FairSpec == Spec /\ Fairness

(***************************************************************************)
(* Properties                                                              *)
(***************************************************************************)
\* Every variable has the shape the code gives it, and the instances that
\* decided are those that record or have ended.
TypeOK ==
  /\ stage \in [Instances -> Stage]
  /\ call \in [Instances -> Call]
  /\ mail \in [Instances -> Mail]
  /\ early \in [Instances -> Event \cup {"none"}]
  /\ verdict \in [Instances -> Verdict \cup {"none"}]
  /\ record \in [Resources -> [by : Instances \cup {NoRecord},
                               decision : Verdict \cup {"none"}]]
  /\ events \in [Instances -> 0..MaxEvents]
  /\ raised \in [Instances -> SUBSET Event]
  /\ saved \subseteq Instances
  /\ faults \in 0..MaxFaults
  /\ \A i \in Instances :
       verdict[i] # "none" <=> stage[i] \in {"record", "ended"}

\* main.go:282-294: nothing is approved or rejected without somebody having
\* asked for it, in whatever order approve, reject and the timeout arrive.
DecidedByRequest ==
  \A i \in Instances :
    /\ verdict[i] = "approved" => "approve" \in raised[i]
    /\ verdict[i] = "rejected" => "reject" \in raised[i]

\* main.go:219: the first decision that reaches the wait is the decision;
\* neither a contrary one, nor a crash, nor another run of an activity
\* changes it.
DecisionIsFinal ==
  [][\A i \in Instances :
       /\ verdict[i] # "none" => verdict'[i] = verdict[i]
       /\ mail[i] # "none" => mail'[i] = mail[i]]_vars

\* main.go:339-341: a record is the final decision of the instance that wrote
\* it, however often the activity runs; and a page that shows a decision, with
\* "Decision recorded to state-postgres" (main.go:1110), is about one that was
\* recorded, unless a call failed.
RecordIsADecision ==
  /\ \A r \in Resources :
       LET i == record[r].by IN
         i # NoRecord =>
           /\ i \in saved /\ ResourceOf[i] = r
           /\ record[r].decision = verdict[i]
  /\ \A i \in Instances : Page(i) \in Verdict => i \in saved \/ faults > 0

\* main.go:226-227 "Keyed by IdleResource.ID()", main.go:700-705: what the
\* list shows for an instance that recorded its decision is that decision.
ShowsOwnDecision ==
  \A i \in saved : record[ResourceOf[i]].decision = verdict[i]

\* main.go:248: every started instance comes to an end.
Terminates ==
  \A i \in Instances : stage[i] # "none" ~> stage[i] \in Ended
=============================================================================
