------------------------------ MODULE TriageSvc ------------------------------
(***************************************************************************)
(* triage-svc, the part that starts workflows and lists them               *)
(* (services/triage-svc/main.go): the subscriber of anomaly.detected,      *)
(* POST /triage, POST /optimisation, the workflow index they append to and *)
(* GET /workflows and /optimisations that read it.                         *)
(*                                                                         *)
(* The three entry points share one shape: decode, schedule the instance   *)
(* under a deterministic ID, append the ID to the index, answer.  They     *)
(* differ in who retries: a pub/sub delivery answered RETRY comes back,    *)
(* the client of a POST gets its 502 and may or may not post again.        *)
(*                                                                         *)
(* As in RollupSvc, every call that leaves the process is one action.      *)
(***************************************************************************)
EXTENDS Integers, Sequences, FiniteSets, SequencesExt

CONSTANTS
  Requests,         \* distinct bodies sent to one of the entry points
  Malformed,        \* those that do not decode
  FromBroker,       \* those that arrive on anomaly.detected
  Instances,        \* workflow instance IDs
  InstanceOf,       \* workflowInstanceID, optimisationInstanceID
  Optimisations,    \* the instances whose ID starts with "opt-"
  Handlers,         \* goroutines serving a request
  Readers,          \* goroutines serving a listing
  MaxIndexRetries,  \* workflowIndexMaxRetries
  ReusesFinished,   \* whether the engine takes the ID of a finished instance
  MaxCopies,        \* bound: times one body is sent
  MaxLists,         \* bound: GET requests
  MaxFaults,        \* bound: failed calls, lost connections and crashes
  NoRequest

ASSUME RequestsAssumption ==
  /\ IsFiniteSet(Requests)
  /\ Malformed \subseteq Requests
  /\ FromBroker \subseteq Requests
  /\ InstanceOf \in [Requests -> Instances]
  /\ Optimisations \subseteq Instances
  /\ NoRequest \notin Requests

ASSUME TriageWorkersAssumption ==
  /\ IsFiniteSet(Handlers)
  /\ Handlers \cap Readers = {}

ASSUME TriageBoundsAssumption ==
  /\ MaxIndexRetries \in Nat \ {0}
  /\ ReusesFinished \in BOOLEAN
  /\ MaxCopies \in Nat /\ MaxLists \in Nat /\ MaxFaults \in Nat

Workers == Handlers \cup Readers

VARIABLES
  queue,      \* requests that wait for a handler
  sent,       \* how often each body was sent
  answered,   \* requests answered SUCCESS or 200
  scheduled,  \* instance IDs the engine has
  finished,   \* those whose workflow has ended
  index,      \* workflow-index:__all__ and its ETag
  pc, job,    \* handlers: the request, the attempt and the index as read
  view,       \* readers: the IDs as read, the next one, the answer so far
  lists,      \* listings so far
  faults,     \* faults so far
  stats,      \* /stats: in memory, so a restart starts from zero
  exhausted   \* history: some append used up its retries

requests == <<queue, sent, answered>>
engine   == <<scheduled, finished>>
vars     == <<requests, engine, index, pc, job, view, lists, faults, stats,
              exhausted>>

(***************************************************************************)
(* Local states                                                            *)
(***************************************************************************)
Index == [etag : Nat, ids : Seq(Instances)]

\* A key that was never written: no value and an empty ETag.
NoIndex == [etag |-> 0, ids |-> <<>>]

Job == [req : Requests \cup {NoRequest}, owned : BOOLEAN,
        attempt : 1..MaxIndexRetries, base : Index]

JobOf(r) == [req |-> r, owned |-> TRUE, attempt |-> 1, base |-> NoIndex]
NoJob == JobOf(NoRequest)

View == [ids : Seq(Instances), next : Nat, out : Seq(Instances),
         only : SUBSET Instances]

NoView == [ids |-> <<>>, next |-> 1, out |-> <<>>, only |-> Instances]

Counter == {"received", "started", "duplicate", "bad_env", "failed"}
NoStats == [c \in Counter |-> 0]

Count(c) == stats' = [stats EXCEPT ![c] = @ + 1]

\* Mistake: a malformed body is received and then forgotten.
CountReceivedOnly == Count("received")

CountRejected ==
  stats' = [stats EXCEPT !["received"] = @ + 1, !["bad_env"] = @ + 1]

Answers == {"SUCCESS", "RETRY"}
HandlerPC == {"idle", "schedule", "read", "write"} \cup Answers
ReaderPC == {"idle", "list", "fetch", "done"}

Target(h) == InstanceOf[job[h].req]

Goto(w, label) == pc' = [pc EXCEPT ![w] = label]

Fault == faults < MaxFaults /\ faults' = faults + 1

Init ==
  /\ queue = [r \in Requests |-> 0]
  /\ sent = [r \in Requests |-> 0]
  /\ answered = {}
  /\ scheduled = {}
  /\ finished = {}
  /\ index = NoIndex
  /\ pc = [w \in Workers |-> "idle"]
  /\ job = [h \in Handlers |-> NoJob]
  /\ view = [v \in Readers |-> NoView]
  /\ lists = 0
  /\ faults = 0
  /\ stats = NoStats
  /\ exhausted = FALSE

(***************************************************************************)
(* Requests                                                                *)
(***************************************************************************)
Send(r) ==
  /\ sent[r] < MaxCopies
  /\ sent' = [sent EXCEPT ![r] = @ + 1]
  /\ queue' = [queue EXCEPT ![r] = @ + 1]
  /\ UNCHANGED <<answered, engine, index, pc, job, view, lists, faults, stats,
                 exhausted>>

Receive(h, r) ==
  /\ pc[h] = "idle"
  /\ queue[r] > 0
  /\ r \notin Malformed
  /\ queue' = [queue EXCEPT ![r] = @ - 1]
  /\ job' = [job EXCEPT ![h] = JobOf(r)]
  /\ Count("received")
  /\ Goto(h, "schedule")
  /\ UNCHANGED <<sent, answered, engine, index, view, lists, faults, exhausted>>

\* DROP for a delivery, 400 for a POST: no call is made.
RejectMalformed(h, r) ==
  /\ pc[h] = "idle"
  /\ queue[r] > 0
  /\ r \in Malformed
  /\ queue' = [queue EXCEPT ![r] = @ - 1]
  /\ CountRejected
  /\ UNCHANGED <<sent, answered, engine, index, pc, job, view, lists, faults,
                 exhausted>>

\* Only the broker puts a request back; a POST has its answer.
Requeued(r) == IF r \in FromBroker THEN [queue EXCEPT ![r] = @ + 1] ELSE queue

Respond(h) ==
  /\ pc[h] \in Answers
  /\ queue' = IF pc[h] = "RETRY" /\ job[h].owned
                THEN Requeued(job[h].req) ELSE queue
  /\ answered' = IF pc[h] = "SUCCESS"
                   THEN answered \cup {job[h].req} ELSE answered
  /\ job' = [job EXCEPT ![h] = NoJob]
  /\ Goto(h, "idle")
  /\ UNCHANGED <<sent, engine, index, view, lists, faults, stats, exhausted>>

\* The broker gives up on a handler that is still at work.
Redeliver(h) ==
  /\ Fault
  /\ pc[h] # "idle"
  /\ job[h].owned
  /\ job[h].req \in FromBroker
  /\ job' = [job EXCEPT ![h].owned = FALSE]
  /\ queue' = Requeued(job[h].req)
  /\ UNCHANGED <<sent, answered, engine, index, pc, view, lists, stats,
                 exhausted>>

InFlight(r) ==
  {h \in Handlers : pc[h] # "idle" /\ job[h].owned /\ job[h].req = r}

\* The pod dies: deliveries come back, POSTs and listings do not, the
\* counters start again.
Crash ==
  /\ Fault
  /\ queue' = [r \in Requests |->
                 queue[r] + IF r \in FromBroker
                              THEN Cardinality(InFlight(r)) ELSE 0]
  /\ pc' = [w \in Workers |-> "idle"]
  /\ job' = [h \in Handlers |-> NoJob]
  /\ view' = [v \in Readers |-> NoView]
  /\ stats' = NoStats
  /\ UNCHANGED <<sent, answered, engine, index, lists, exhausted>>

(***************************************************************************)
(* ScheduleNewWorkflow                                                     *)
(***************************************************************************)
\* The engine refuses the ID of an instance it has.
IsDuplicateInstance(i) == i \in scheduled /\ ~(ReusesFinished /\ i \in finished)

\* What the engine does when it takes an ID.
Start(i) ==
  /\ scheduled' = scheduled \cup {i}
  /\ finished' = finished \ {i}

Schedule(h) ==
  /\ pc[h] = "schedule"
  /\ ~IsDuplicateInstance(Target(h))
  /\ Start(Target(h))
  /\ Count("started")
  /\ Goto(h, "read")
  /\ UNCHANGED <<requests, index, job, view, lists, faults, exhausted>>

ScheduleDuplicate(h) ==
  /\ pc[h] = "schedule"
  /\ IsDuplicateInstance(Target(h))
  /\ Count("duplicate")
  /\ Goto(h, "SUCCESS")
  /\ UNCHANGED <<requests, engine, index, job, view, lists, faults, exhausted>>

\* Mistake: a failed call is acknowledged like a duplicate.
FailureIsDuplicate == "SUCCESS"

ScheduleFailure == "RETRY"

\* The call fails; the engine may have started the instance all the same.
ScheduleFails(h) ==
  /\ Fault
  /\ pc[h] = "schedule"
  /\ \/ UNCHANGED engine
     \/ ~IsDuplicateInstance(Target(h)) /\ Start(Target(h))
  /\ Count("failed")
  /\ Goto(h, ScheduleFailure)
  /\ UNCHANGED <<requests, index, job, view, lists, exhausted>>

\* A workflow ends (its own life is the subject of TriageWorkflow).
Finish(i) ==
  /\ i \in scheduled \ finished
  /\ finished' = finished \cup {i}
  /\ UNCHANGED <<requests, scheduled, index, pc, job, view, lists, faults,
                 stats, exhausted>>

(***************************************************************************)
(* appendToWorkflowIndex.  Its errors are logged and the answer is SUCCESS *)
(* in every case.                                                          *)
(***************************************************************************)
\* Mistake: the ID is appended again.
NeverIndexed(ids, i) == FALSE

AlreadyIndexed(ids, i) == Contains(ids, i)

ReadIndex(h) ==
  /\ pc[h] = "read"
  /\ IF AlreadyIndexed(index.ids, Target(h))
       THEN Goto(h, "SUCCESS") /\ UNCHANGED job
       ELSE Goto(h, "write") /\ job' = [job EXCEPT ![h].base = index]
  /\ UNCHANGED <<requests, engine, index, view, lists, faults, stats,
                 exhausted>>

ReadIndexFails(h) ==
  /\ Fault
  /\ pc[h] = "read"
  /\ Goto(h, "SUCCESS")
  /\ UNCHANGED <<requests, engine, index, job, view, lists, stats, exhausted>>

\* Mistake: the last writer wins.
AnyVersion(h) == TRUE

\* With an ETag, the one that was read; without, FirstWrite.
ETagMatches(h) == index.etag = job[h].base.etag

StoreIndex(h) ==
  index' = [etag |-> index.etag + 1, ids |-> Append(job[h].base.ids, Target(h))]

WriteIndex(h) ==
  /\ pc[h] = "write"
  /\ ETagMatches(h)
  /\ StoreIndex(h)
  /\ Goto(h, "SUCCESS")
  /\ UNCHANGED <<requests, engine, job, view, lists, faults, stats, exhausted>>

\* Mistake: one attempt too many.
AfterLastAttempt(h) == job[h].attempt > MaxIndexRetries

LastAttempt(h) == job[h].attempt = MaxIndexRetries

RetryIndex(h) ==
  /\ pc[h] = "write"
  /\ ~ETagMatches(h)
  /\ ~LastAttempt(h)
  /\ job' = [job EXCEPT ![h].attempt = @ + 1]
  /\ Goto(h, "read")
  /\ UNCHANGED <<requests, engine, index, view, lists, faults, stats,
                 exhausted>>

ExhaustIndex(h) ==
  /\ pc[h] = "write"
  /\ ~ETagMatches(h)
  /\ LastAttempt(h)
  /\ exhausted' = TRUE
  /\ Goto(h, "SUCCESS")
  /\ UNCHANGED <<requests, engine, index, job, view, lists, faults, stats>>

\* An error that is no conflict, whether or not the write took effect.
WriteIndexFails(h) ==
  /\ Fault
  /\ pc[h] = "write"
  /\ \/ UNCHANGED index
     \/ ETagMatches(h) /\ StoreIndex(h)
  /\ Goto(h, "SUCCESS")
  /\ UNCHANGED <<requests, engine, job, view, lists, stats, exhausted>>

(***************************************************************************)
(* GET /workflows and GET /optimisations: one GET of the index, then one   *)
(* FetchWorkflowMetadata per ID; an ID that cannot be fetched is skipped.  *)
(***************************************************************************)
List(v, only) ==
  /\ pc[v] = "idle"
  /\ lists < MaxLists
  /\ lists' = lists + 1
  /\ view' = [view EXCEPT ![v] = [NoView EXCEPT !.only = only]]
  /\ Goto(v, "list")
  /\ UNCHANGED <<requests, engine, index, job, faults, stats, exhausted>>

ListIndex(v) ==
  /\ pc[v] = "list"
  /\ view' = [view EXCEPT ![v].ids = index.ids]
  /\ Goto(v, "fetch")
  /\ UNCHANGED <<requests, engine, index, job, lists, faults, stats, exhausted>>

\* The index cannot be read: 502.
ListFails(v) ==
  /\ Fault
  /\ pc[v] = "list"
  /\ view' = [view EXCEPT ![v] = NoView]
  /\ Goto(v, "idle")
  /\ UNCHANGED <<requests, engine, index, job, lists, stats, exhausted>>

Fetching(v) == pc[v] = "fetch" /\ view[v].next <= Len(view[v].ids)

FetchMetadata(v) ==
  /\ Fetching(v)
  /\ LET i == view[v].ids[view[v].next] IN
       view' = [view EXCEPT
         ![v].next = @ + 1,
         ![v].out = IF i \in view[v].only /\ i \in scheduled
                      THEN Append(@, i) ELSE @]
  /\ UNCHANGED <<requests, engine, index, pc, job, lists, faults, stats,
                 exhausted>>

FetchMetadataFails(v) ==
  /\ Fault
  /\ Fetching(v)
  /\ view[v].ids[view[v].next] \in view[v].only
  /\ view' = [view EXCEPT ![v].next = @ + 1]
  /\ UNCHANGED <<requests, engine, index, pc, job, lists, stats, exhausted>>

AnswerList(v) ==
  /\ pc[v] = "fetch"
  /\ view[v].next > Len(view[v].ids)
  /\ Goto(v, "done")
  /\ UNCHANGED <<requests, engine, index, job, view, lists, faults, stats,
                 exhausted>>

\* The answer has left; the goroutine is free.
EndList(v) ==
  /\ pc[v] = "done"
  /\ view' = [view EXCEPT ![v] = NoView]
  /\ Goto(v, "idle")
  /\ UNCHANGED <<requests, engine, index, job, lists, faults, stats, exhausted>>

(***************************************************************************)
(* The specification                                                       *)
(***************************************************************************)
Accept(h) == \E r \in Requests : Receive(h, r) \/ RejectMalformed(h, r)

Serve(h) ==
  \/ Schedule(h) \/ ScheduleDuplicate(h)
  \/ ReadIndex(h) \/ WriteIndex(h) \/ RetryIndex(h) \/ ExhaustIndex(h)
  \/ Respond(h)

ServeList(v) ==
  ListIndex(v) \/ FetchMetadata(v) \/ AnswerList(v) \/ EndList(v)

Disturb ==
  \/ Crash
  \/ \E h \in Handlers :
       Redeliver(h) \/ ScheduleFails(h) \/ ReadIndexFails(h) \/ WriteIndexFails(h)
  \/ \E v \in Readers : ListFails(v) \/ FetchMetadataFails(v)

Next ==
  \/ \E r \in Requests : Send(r)
  \/ \E h \in Handlers : Accept(h) \/ Serve(h)
  \/ \E v \in Readers :
       ServeList(v) \/ \E only \in {Instances, Optimisations} : List(v, only)
  \/ \E i \in Instances : Finish(i)
  \/ Disturb

Spec == Init /\ [][Next]_vars

\* The broker delivers to a free handler and goroutines that can run do run.
Fairness == \A h \in Handlers : WF_vars(Accept(h)) /\ WF_vars(Serve(h))

FairSpec == Spec /\ Fairness

(***************************************************************************)
(* Properties                                                              *)
(***************************************************************************)
StoreTypeOK ==
  /\ queue \in [Requests -> Nat]
  /\ sent \in [Requests -> 0..MaxCopies]
  /\ answered \subseteq Requests
  /\ scheduled \subseteq Instances
  /\ finished \subseteq scheduled
  /\ index \in Index
  /\ lists \in 0..MaxLists
  /\ faults \in 0..MaxFaults
  /\ stats \in [Counter -> Nat]
  /\ exhausted \in BOOLEAN

LocalTypeOK ==
  /\ pc \in [Workers -> HandlerPC \cup ReaderPC]
  /\ job \in [Handlers -> Job]
  /\ view \in [Readers -> View]
  /\ \A h \in Handlers : /\ pc[h] \in HandlerPC
                         /\ pc[h] # "idle" => job[h].req \in Requests
  /\ \A v \in Readers : pc[v] \in ReaderPC

\* Every variable has the shape the code gives it, and a handler that runs
\* has a request.
TypeOK == StoreTypeOK /\ LocalTypeOK

Indexed == {index.ids[n] : n \in 1..Len(index.ids)}

\* main.go:1217-1218, tasks T11.5 "do not corrupt the index": the index names
\* instances that exist, each once, however many handlers append at a time
\* and however often an ID is scheduled anew.
IndexedOnce ==
  /\ Indexed \subseteq scheduled
  /\ \A m, n \in 1..Len(index.ids) : index.ids[m] = index.ids[n] => m = n

\* main.go:513-523: what was answered SUCCESS has its workflow; a failed call
\* is never acknowledged, in contrast to the marker of rollup-svc.
AnsweredIsScheduled == \A r \in answered : InstanceOf[r] \in scheduled

\* main.go:460-471: whatever the interleaving, /stats accounts for every
\* request: it started a workflow, was a duplicate, was malformed, failed, or
\* waits for the engine.
StatsAddUp ==
  stats["received"] =
    stats["started"] + stats["duplicate"] + stats["bad_env"] + stats["failed"]
      + Cardinality({h \in Handlers : pc[h] = "schedule"})

Quiet == /\ \A r \in Requests : queue[r] = 0
         /\ \A h \in Handlers : pc[h] = "idle"

\* main.go:528-533: when all requests are done and nothing failed, every
\* instance is in the index.
EveryStartIsIndexed ==
  Quiet /\ faults = 0 /\ ~exhausted => scheduled \subseteq Indexed

\* A listing names instances that exist and belong to it, each once; without
\* faults, all those the index had when it was read.
ListIsFaithful ==
  \A v \in Readers : pc[v] = "done" =>
    /\ IsInjective(view[v].out)
    /\ ToSet(view[v].out) \subseteq scheduled \cap view[v].only
    /\ faults = 0 =>
         ToSet(view[v].out) = ToSet(view[v].ids) \cap view[v].only

\* main.go:506-523, 1217-1218: seen from outside, an ID is started only while
\* no workflow runs under it -- not once for all: anew after the end of the one
\* before if the engine reuses such IDs, which is not the "one anomaly, one
\* workflow" of main.go:543-546 -- and however often it is started, it is
\* catalogued at most once.
Catalog == INSTANCE WorkflowCatalog WITH
  Reuses  <- ReusesFinished,
  started <- scheduled,
  running <- scheduled \ finished,
  ids     <- index.ids

ImplementsCatalog == Catalog!Spec

\* A published anomaly gets its workflow, whatever fails on the way: the
\* answer to a failed call is RETRY and nothing was marked before it.
AnomalyIsScheduled ==
  \A r \in FromBroker \ Malformed :
    sent[r] > 0 ~> InstanceOf[r] \in scheduled

(***************************************************************************)
(* Why the index is what it is                                             *)
(***************************************************************************)
\* The index a handler is about to extend is an earlier version of the stored
\* one, lacks the handler's ID, and is the stored one if the ETag says so.
SnapshotFresh ==
  \A h \in Handlers : pc[h] = "write" =>
    /\ job[h].base.etag <= index.etag
    /\ job[h].base.etag = index.etag => job[h].base = index
    /\ ~Contains(job[h].base.ids, Target(h))

\* Only started instances are appended.
AppendsStarted ==
  \A h \in Handlers : pc[h] \in {"read", "write", "SUCCESS"} =>
    Target(h) \in scheduled

\* Without faults and with retries left, a started instance is in the index or
\* a handler is on its way to append it.
StartIsUnderway ==
  faults = 0 /\ ~exhausted =>
    \A i \in scheduled :
      \/ i \in Indexed
      \/ \E h \in Handlers : pc[h] \in {"read", "write"} /\ Target(h) = i

\* main.go:1217-1218: what the handlers hold, and that the index follows from it.
IndexInv ==
  /\ SnapshotFresh /\ AppendsStarted /\ StartIsUnderway
  /\ IndexedOnce /\ AnsweredIsScheduled
=============================================================================
