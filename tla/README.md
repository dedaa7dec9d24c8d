# Verification of the FinOps services

TLA+ models of the four services of this repository (`services/ingest-svc`,
`services/rollup-svc`, `services/triage-svc`, `services/notifier-svc`, and the
pure package `services/shared/finops` they use), TLC configurations that check
small instances of them, and TLAPS proofs of the main properties for every
value of the constants. Paths below are relative to the repository's root;
`rollup main.go` stands for `services/rollup-svc/main.go`, and so on.

## 1. Inventory

```
   NDJSON            line-item.enriched            anomaly.detected
 ─────────▶ ingest-svc ──────────────▶ rollup-svc ────────────────▶ triage-svc ──▶ notifier-svc
            seed, /ingest  (RabbitMQ)  upsert, detect   (RabbitMQ)  workflows      inbox, webhook
             │                          │                            │
             ▼                          ▼                            ▼
        Redis, Postgres             Postgres                    Postgres, actors (Dapr workflow engine)
```

All calls between them, and to the stores and queues, go through Dapr sidecars
(retry, at-least-once delivery, ETags), which are not part of the repository.

| Part | State it keeps | Operations | What is hard | What makes it correct |
|---|---|---|---|---|
| **ingest-svc** | cost centers (Redis), line items (Postgres), in-memory `/stats` | seed at startup; `POST /ingest` line by line: decode, lookup, save, publish | three calls per line and each may fail, with or without effect; two bodies at once; restart in the middle of the seed | every line ends in one tally; nothing is "unmapped" because of a half seed; a clean summary is true |
| **rollup-svc, counting** | `processed:<id>` markers, rollup rows with ETag | subscriber: marker (FirstWrite), then read-merge-write with at most 8 attempts, SUCCESS or RETRY | redelivery, duplicates, concurrent merges in one row, answers lost after the write, crash between marker and merge | each id counted at most once, no lost update, delivered implies counted unless a call failed |
| **rollup-svc, detection** | anomaly markers, published anomalies, in-memory `/stats` | `runDetection` after each merge and for each pair of `POST /detect`: read the row, read the prior days one by one, compare, save the marker, publish | several handlers and the scan on one row; rows move while they are read; marker and event are two calls; the scan tells what it did from counters that everybody changes | one event per (day, team, service); every row over the threshold is announced; nothing else is; the scan's answer is true of the scan |
| **triage-svc, starting** | workflow index with ETag, in-memory `/stats` | `anomaly.detected`, `POST /triage`, `POST /optimisation`: schedule under a deterministic id, append to the index; `GET /workflows`, `/optimisations` | the same anomaly twice, concurrent appends, start without append, listing while all this runs | one instance per anomaly, the index names each once, listings are faithful |
| **triage-svc, TriageWorkflow** | the instance's history in the engine | notify, wait for ack or timer, escalate up to `MAX_ESCALATIONS`, give up | replay after a crash, an activity that runs again, an ack that races the timer, a limit that changes under a running instance | the outcome is what happened; an ack in time wins; bounded nagging; it ends |
| **triage-svc, OptimisationWorkflow** | history; decision record per resource | notify, wait for approve or reject, record, end | contradictory answers, answers that race the timer, two instances of one resource | a decision was asked for, is final and is the one recorded |
| **notifier-svc** | bounded inbox, counters, one lock | `POST /notify` (webhook, then inbox), `GET /inbox` | threads, an append and a trim under the lock and a count outside it, a webhook that times out after it took the message | the inbox is the newest entries, counters match entries, the lock is released |
| **shared/finops** | none | `Enrich`, `Merge`, `Detect`, keys and ids | zero baselines, boundary of the threshold, id collisions | the operators the models are built from |
| generator, overhead scripts, Makefile, Tiltfile, HTML markup | none of the system's | | | not modelled, see section 7 |

`PROJECT.json` lists the same parts with their sources and status, and under
"hazards" every place in the code where one of the hard behaviours bites.

## 2. Modules

One action is one call that leaves the process (a GET, a SAVE, a PUBLISH, an
HTTP answer): goroutines and threads interleave exactly there. What a function
does between two calls is local and is part of the action before or after it.
Every call has an action in which it fails; where the callee may have done its
work before the answer was lost, the failing action chooses between both. A
crash empties every local variable and every in-memory counter, keeps the
stores, and gives unanswered deliveries back to the queue.

| Module | Models | Correspondence |
|---|---|---|
| `RollupSvc` | rollup main.go, finops/rollup.go, finops/anomaly.go | `pc[h]` is the place in `handleLineItemEnriched` / `applyRollup` / `runDetection`, `job`, `probe` and `scan` their locals; `processed`, `rollup`, `marker` are the store; a stored row is its ETag and the bag of events merged into it, from which cost, quantity and count follow; a history is a function from days back to rows, because two days may hold equal rows; `tripped`, `late` and `torn` (histories) are the rows that were over their threshold, whose baseline moved after them, and whose detection a write overtook |
| `RollupStats` | rollup main.go: `/stats`, the answer of `POST /detect` | every action is an action of `RollupSvc` with the counters it bumps; `report` holds the locals of `handleDetectBatch`, `seen` (history) what a scan really did. A counter changes in the step it counts and the two loads before a pair are one step: the loads and additions are adjacent in the code |
| `RollupLedger` | (abstract) | what rollup-svc promises without handlers, ETags, markers and faults: submit, enter once, announce once |
| `TriageSvc` | triage main.go, starting and listing | the three entry points share one shape and one set of actions; they differ in who retries (`FromBroker`) |
| `WorkflowCatalog` | (abstract) | an ID is started only while nothing runs under it, a second time only if the engine reuses the IDs of ended instances, and is catalogued at most once, in a list that only grows at its end |
| `TriageWorkflow` | triage main.go, the workflow function and `NotifyOwnerActivity` | the variables of `history` are what the engine's history lets a replay reconstruct; `call` is an activity whose result is not in it yet and is lost by a crash, so that it runs again |
| `OptimisationWorkflow` | triage main.go, the second workflow, its two activities, the record and who shows it | as above, with `record` keyed by resource |
| `IngestSvc` | ingest main.go, finops/enrich.go, lineitem.go | `pc[h]`, `body`, `pos` are the place in the scan of a body; `batch` is its summary, `stats` the process's |
| `Pipeline` | ingest main.go and rollup main.go over `line-item.enriched`, finops/enrich.go, `FromLineItem` | an ingest step that publishes is a `Publish` step of an instance of `RollupSvc`, any other step is one of a single service; the row of a line is what `Enrich` and `FromLineItem` make of it; `reported` (history) is what clean summaries claim |
| `Identity` | finops `Key` and the two `ID`s, triage main.go:1272-1283 | strings as sequences of letters, the words in front as one letter |
| `NotifierSvc` | notifier.py | `pc[t]` is the place of a server thread, `lock` is `_inbox_lock`; `log` (history) is every entry since the start |
| `RollupSvc_proofs`, `RollupStats_proofs`, `TriageSvc_proofs`, `TriageWorkflow_proofs`, `OptimisationWorkflow_proofs`, `Pipeline_proofs`, `NotifierSvc_proofs`, `Identity_proofs` | | theorems and proofs; those about `IngestSvc` are in `Pipeline_proofs`, `RollupStats_proofs` extends `RollupSvc_proofs` |
| `MC_*` | | constants for TLC |

What the models abstract, and why that is sound for the properties:

* Payloads, ids, teams and services are model values, and rows are kept under
  tuples instead of strings; `Identity_proofs` says for which names that is sound. Two payloads may share an
  id (`LineId`), which is what posting a corrected line item again does.
* The ETag is a counter per row. Only equality of ETags is ever used.
* The kinds of lines of `IngestSvc` may overlap, and are told apart in the order
  of the code: a blank line is skipped before it is decoded (ingest main.go:130-132).
* Costs are integers and the threshold a fraction, so `Detect` compares products
  and there is no rounding.
* An operator marked "Mistake" in a comment is a plausible wrong version of the
  definition after it. No action uses it. `PROJECT.json` names, for every
  property, the mistake that must make TLC report a violation.

Assumptions about what is not in the repository, taken from how the code uses
it:

* pub/sub: at least once, in any order; an answer RETRY (rollup main.go:49-50)
  puts the message back, an answer SUCCESS removes it; a delivery is repeated
  while its handler still runs if the connection drops;
* the state store: FirstWrite without an ETag fails iff the key exists, with an
  ETag iff it is not the stored one; a failed call may have taken effect;
* the workflow engine: turns of one instance do not overlap, completed
  activities are not repeated, interrupted ones are; timers are durable.
  NOTES.md:549 observed that an event that comes while nobody waits is dropped
  and says that the documentation has it buffered: `early` allows both. Whether
  the engine takes the id of a finished instance again is the constant
  `ReusesFinished`; the checked value TRUE allows the more behaviour.

## 3. Runs

| Run | Instance | Checks |
|---|---|---|
| `rollup_apply` | 2 handlers, 4 payloads of 3 ids (one id with two payloads in two rows; three payloads in one row), 2 attempts, 1 fault, no baseline | types; `NoDoubleCount`; `ContentionBound`: the retries run out only on a row that others wrote that often; refinement of `RollupLedger` (its announcements do not occur without a baseline: `LedgerIsImplemented` has them); `PublishedIsCounted` and `Drains` under fairness |
| `rollup_detect` | 2 handlers, 1 scan, a poison message, 2 days, 1 fault | `AnnouncedOnce`; `OverThresholdIsAnnounced` at rest |
| `rollup_scan` | 1 handler, 1 scan with a grid that has a row twice (two cost centers of one team), a baseline of 2 days, 4 events on 3 days (two of them payloads of one id) of costs that let a row and its baseline grow while they are read, 1 fault | `StatsAddUp`: `/stats` accounts for every delivery; `ScanReportsItsWork`: the answer leaves out nothing the scan did and is exact if it was alone; `ScanCatchesUp`: the scan announces what late history kept the subscriber from seeing, and misses no row whose baseline stands still; `AnnouncedHadTripped`: nothing is announced that never was over its threshold, unless a write to its rows came between the reads of its detection |
| `triage_start` | 2 handlers, 5 requests through the three entry points, two of them with one id, one malformed, 2 attempts, 1 fault | `/stats` adds up; `IndexInv`, and with it that every start is indexed at rest; refinement of `WorkflowCatalog`, with the starts of an ID whose instance has ended; instance IDs over short strings (assumptions of `MC_TriageSvc`) |
| `triage_list` | 3 requests for 2 instances, one of them an optimisation, 2 handlers, 1 listing, 1 fault | `ListIsFaithful`; a published anomaly gets its workflow under fairness |
| `workflow` | 1 instance, limits 0 to 2, 2 acks, 2 faults, 2 roll-outs with another limit | outcome against what was sent and acknowledged; an ack in time wins; bounded nagging; it ends |
| `optimisation` | 2 instances on one resource, 2 answers each, 1 fault | a decision was asked for, is final, is recorded; it ends |
| `pipeline` | 2 bodies with every kind of line (good, blank, garbled, untagged, unknown tag, too long, and a line of the other body corrected under its ID), 2 ingest handlers with 1 fault, 2 subscribers with 1 attempt each that meet in a row | accounting per body and per process; unmapped means unowned; `CountedIsBacked`: rollups hold only what is stored and owned, in the owner's row; `CleanBatchIsCounted`: at rest a batch that reported no failure is counted, unless a merge lost its races; requests end, the pod comes up |
| `notifier` | 2 threads, 6 calls, inbox of 3, page of 2, 1 crash | counters, trimming, listings, lock |

**Why these bounds.** The hazards are races between two workers on one row,
one index, one inbox, or one wait: two workers are the smallest number that
shows them, and in `rollup_apply` a third payload for the row makes a handler
lose twice and use up its (two) attempts. In
`rollup_scan` the two workers are the handler and the scan, which leaves room for the
fourth event that a torn read takes; two days are the shortest baseline whose
reads can be torn, and the code's default of seven differs from it only in that
there are more reads to come between. One fault suffices to separate any
two steps; `workflow` has two because there a fault can hide another, and
`pipeline` has its
one at ingest-svc: what a failure of rollup-svc does to a batch is the subject of
`rollup_apply` and `rollup_lost_on_fault`. Two subscribers with one attempt each are
enough there for a merge to lose, and then the event of a clean batch, without any failure. An inbox of three and six calls trims repeatedly. Roll-outs change
the limit up and down while an instance waits or notifies. For the proved
properties the bounds play no part.

**Deadlock** is not checked because every bounded model stops when its inputs
are used up; what must not stop is stated as liveness.

**Fairness.** Per worker, weak fairness of the steps of a goroutine (it is
runnable until it answers) and of the broker's delivery to it while it is free (a
queued message is offered until it is taken). `pipeline` assumes only that of
ingest-svc, because what it says of rollup-svc is about the state at rest. Of failing calls, crashes and
clients nothing is assumed. For workflows: weak fairness of the engine's turns,
of activities, and of timers, which are durable; none for acks and answers. For
the seed: the pod restarts until it is up. `NotifierSvc` has strong fairness
for each thread's step, because the lock is contended and Python hands it to a
waiting thread at some time; without contention weak fairness would do.
`Drains` and `PublishedIsCounted` hold because faults are bounded: nothing is
claimed for a store that fails forever.

**Symmetry** of handlers is used in `rollup_detect` and `triage_start`, which
check no liveness; in the first also of the two events of the second day, whose
costs are equal.

## 4. Disagreements between the code and its documentation

Three runs expect a violation, each of one property:

| Run | Says | Does |
|---|---|---|
| `rollup_lost_on_fault` (`AckedIsCounted`) | rollup main.go:118-121, tasks/dapr-finops-v1.md:183: each event updates a row, a failed call is redelivered | the marker is written first (main.go:143); a failure after it makes the redelivery a duplicate that is acknowledged and never counted |
| `rollup_marked_only` (`MarkedIsAnnounced`) | NOTES.md:351 "exactly-once semantics across triggers" | at most once: when the publication fails (main.go:270), or the answer to the marker's save is lost (main.go:267), the marker stays and no event comes |
| `optimisation_shared` (`ShowsOwnDecision`) | triage main.go:226-227 keyed by the resource's id | two instances for one resource, with different actions or teams, share one record, and the list shows the later decision for both |

Met while modelling, without a run of their own:

* An event is also lost by contention alone: eight lost races answer RETRY
  (rollup main.go:120, :409), but the redelivery is a duplicate; NOTES.md:379
  says "no lost updates under concurrent handlers". `PublishedIsCounted` and `CleanBatchIsCounted` exclude it by
  `exhausted`, `ContentionBound` says what it takes. So the summary of a batch may report no
  failure (ingest main.go:101-109), nothing may fail after it, and a line may
  still be in no row.
* NOTES.md:425 says "one anomaly, one workflow" and NOTES.md:530 has a second
  POST of an anomaly as a no-op. The code relies on the engine for it
  (`isDuplicateInstance`, triage main.go:1286-1297; the comment at main.go:543-546),
  and does not look at the index or the store. If the engine takes the ID of an
  instance that has ended, a second POST after the end starts a second workflow and
  notifies the owner again. Whether it does cannot be told from this repository, so
  `WorkflowCatalog` has both: an ID is started anew only if `Reuses`, and only when
  nothing runs under it.
* A crash between scheduling and appending (triage main.go:514-531) leaves an
  instance no listing shows: the redelivery is a duplicate and does not append.
  Hence `faults = 0` in `EveryStartIsIndexed`.
* Any failure of `FetchWorkflowMetadata` is taken for a purged instance (triage
  main.go:1179, where the comment has it purged). Hence `faults = 0` in the last
  part of `ListIsFaithful`.
* An ack before the wait or after the last one is answered 200 (triage
  main.go:807) and may be dropped (NOTES.md:549); NOTES.md:528 says that the event
  is raised "and the workflow resumes". `InTimeAckWins` speaks of acks that come while a wait is open.
* `MAX_ESCALATIONS` is read on every replay (triage main.go:112), so a roll-out
  changes running instances, and can end one as failed; NOTES.md:546 says
  "Env vars only affect NEW workflow instances". `NaggingIsBounded` and `InTimeAckWins` say what
  is left of the promise.
* The page says "Decision recorded to state-postgres" also when the save failed
  (triage main.go:303, :1110). Hence `faults > 0` in `RecordIsADecision`. And its
  script writes "Recorded" on the button for every 200 (triage main.go:872), also
  for an ack that is dropped.
* Makefile:269 takes the difference of two inbox counts for the number of
  notifications, which is too small once the inbox has INBOX_MAX entries
  (notifier.py:36).
* A `null` body makes the ack handlers write to a nil map (triage
  main.go:801-805); net/http recovers the panic.
* Instance ids replace colons by dashes (triage main.go:1275), so two
  different anomalies can get one id: "a-b" with service "c" and "a" with "b-c"
  (`DashesCollide` in `MC_TriageSvc`). The services of rollup main.go:30 have no
  dash, and for those `TriageInstancesDiffer` excludes it.
* With ANOMALY_MIN_BASELINE_USD at 0 a row over a history of zero cost is an
  anomaly whose DeltaPct is infinite (finops/anomaly.go:74), which JSON cannot
  hold: the marker is saved with an empty body (rollup main.go:257 drops the
  error) and the event cannot be published. The default is 10.
* The days of a baseline are read one by one (rollup main.go:306). With two days
  or more, and handlers that commit to them meanwhile, the mean can mix rows of
  different times and announce a row that was over its threshold in no state of
  the store: 6 on the second day and then 1 on the first, next to 2 on the third,
  when the second is read before its 6 and the first after its 1. tasks/dapr-finops-v1.md:211 has no event for
  such a day. With one day only a credit to the row can do the same. `AnnouncedHadTripped`
  therefore excuses the rows in `torn`, whose detection was overtaken by a write to a
  day it had read, or by a credit, and no others: for them `NoFalseAlarms` holds with
  every baseline. For the same reason a scan can miss a row
  that is over its threshold all the time: it reads the row, then the row and its
  baseline both grow, and the old row is compared with the new baseline
  (`rollup_scan`). `ScanCatchesUp` therefore speaks of rows whose baseline
  stands still during the scan.
* `POST /detect` counts as its own hit any anomaly that a subscriber publishes
  during a pair (rollup main.go:213). `ScanReportsItsWork` is exact only for a
  scan that was alone.

## 5. Proofs

For every finite set of events, handlers and requests and every bound:

| Module | Theorem | States |
|---|---|---|
| `RollupSvc_proofs` | `TypeCorrect` | `Spec => []TypeOK` |
| | `CountedOnce` | `Spec => []NoDoubleCount` |
| | `NothingIsLost` | `Spec => NoLostUpdate` |
| | `OneAnnouncement` | `Spec => []AnnouncedOnce` |
| | `InductiveHolds` | `Spec => []InductiveInv` |
| | `LedgerIsImplemented` | `Spec => ImplementsLedger` |
| | `RacesAreWonByCommits` | `Spec => []ContentionBound` |
| | `NothingIsMissed` | `Spec => []OverThresholdIsAnnounced` |
| | `FaultlessMarkersAreAnnounced` | `Spec => [](faults = 0 => MarkedIsAnnounced)` |
| | `NoFalseAlarms` | `Spec => []AnnouncedHadTripped` |
| | `WhatIsPublishedIsCounted` | `Spec => []PublishedAtRest` |
| `RollupStats_proofs` | `StatsOnlyWatch` | `StatsSpec => Spec` |
| | `CountersAddUp` | `StatsSpec => []StatsAddUp` |
| | `ScansReportTheirWork` | `StatsSpec => []ScanReportsItsWork` |
| | `ScansCatchUp` | `StatsSpec => []ScanCatchesUp` |
| `TriageSvc_proofs` | `TypeCorrect` | `Spec => []TypeOK` |
| | `IndexIsSound` | `Spec => []IndexInv` |
| | `StartsAreIndexed` | `Spec => []EveryStartIsIndexed` |
| | `CatalogIsImplemented` | `Spec => ImplementsCatalog` |
| | `StatsAreComplete` | `Spec => []StatsAddUp` |
| | `ListingsAreFaithful` | `Spec => []ListIsFaithful` |
| `TriageWorkflow_proofs` | `TypeCorrect` | `Spec => []TypeOK` |
| | `OutcomeIsEarned` | `Spec => []WorkflowInv` |
| | `OwnerIsNotNagged` | `Spec => []NaggingIsBounded` |
| | `OutcomeIsTheTruth` | `Spec => []OutcomeIsExact` |
| | `AckInTimeWins` | `Spec => InTimeAckWins` |
| `OptimisationWorkflow_proofs` | `WorkflowTypeOK` | `Spec => []TypeOK` |
| | `DecisionsWereRequested` | `Spec => []DecidedByRequest` |
| | `RecordsAreDecisions` | `Spec => []RecordIsADecision` |
| | `TheFirstDecisionCounts` | `Spec => DecisionIsFinal` |
| `Pipeline_proofs` | `IngestTypeOK` | `Spec => []TypeOK` (of `IngestSvc`) |
| | `LinesAddUp` | `Spec => []EveryLineIsAccountedFor` |
| | `UnmappedHasNoOwner` | `Spec => []UnmappedIsUnowned` |
| | `PipelineIsIngest` | `PipelineSpec => Spec` |
| | `PipelineIsRollup` | `PipelineSpec => Rollup!Spec` |
| | `RollupsAreBacked` | `PipelineSpec => []CountedIsBacked` |
| | `CleanBatchesAreCounted` | `PipelineSpec => []CleanBatchIsCounted` |
| `NotifierSvc_proofs` | `NotifierTypeOK` | `Spec => []TypeOK` |
| | `CountersMatchEntries` | `Spec => []StatsMatchEntries` |
| | `InboxKeepsTheNewest` | `Spec => []InboxIsNewest` |
| | `ListingsAreCurrent` | `Spec => ListingIsCurrent` |
| `Identity_proofs` | `RollupKeysDiffer`, `MarkersDiffer` | equal keys (marker ids) are of the same day, team and service, if days and teams have no colon |
| | `TriageInstancesDiffer` | equal triage instance ids are of the same row, if also services have neither colon nor dash and the days have one length |
| | `OptimisationInstancesDiffer` | equal optimisation instance ids are of the same team, resource and action, if actions have no dash and neither team's ID goes on after the other's with a dash |

They rest on the assumptions on constants that the modules name (checked by TLC
in every run of the module) and, where the table says so, on what it says. Every
safety invariant and every action property of a passing run is stated by one of
them.

**Counting.** `NoDoubleCount` alone is not inductive: a write overwrites the
whole row, so one must know what the writer read. `CountInv` adds three facts.
`SnapshotFresh`: what a handler read is an earlier version of the row, and the
very row if the ETags agree, hence an accepted write is the stored row plus one
event. `HolderIsAlone`: between its marker and its merge a handler is the only
one with its id, and no row contains that id, hence what is added was not there.
`CountedIsMarked`: an id in some row has its marker, hence nobody can get to
hold it again. Lost answers only help: after one, the handler stops holding.
`NoLostUpdate` follows from `SnapshotFresh` step by step.

**Announcing.** `AnnounceInv`: a worker about to publish a row is alone with
it, the row is marked and not yet announced (`PublisherIsAlone`), and what is
announced is marked, so that the marker, which is never removed, stops everyone
else. A lost answer to the marker's save ends the run without an event: at most
once, never exactly once.

**Ledger.** The refinement mapping takes a row to its bag of events. A
publication is `Submit`, an accepted write (answered or not) is `Enter`, a
publication of an anomaly is `Announce`, everything else stutters
(`WhoChangesWhat`). The guards of the abstract actions come from the invariants:
`HolderIsAlone` (not entered yet), `DeliveredIsPublished` (submitted),
`PublisherIsAlone` and `MarkedIsStored` (not announced, and the row has an entry).

**Contention.** An ETag counts the commits to its row and never goes back
(`EtagsStep`). `ContentionInv` compares it with the attempts: a handler that
reads for the n-th time has seen n - 1 commits by others, and when it writes,
the copy it read had them already, so that a mismatch at the write means one
commit more. The retries run out on a row with as many commits as attempts.

**Nothing missed.** At rest every row over its threshold must have been
announced; on the way there `Attended` says that each such row has somebody who
deals with it: a worker in `runDetection` that has read nothing of it which is
out of date (`Watches`), or one that already found it anomalous. A commit to the
row starts such a worker, namely the one that committed. A commit to a day of
its baseline may leave the row without one; those rows are `late`, and the
property excludes them. A worker that comes to "no anomaly" has, when it had
read everything, the history of that moment (`HistoryStep`), hence the row is not over
its threshold. Exhausted retries need no exception: they leave the row alone.

**No false alarms.** A worker concludes from a row it read first and from days it
read after it, one by one. `TripInv` says what its reads are worth while the row is
not in `torn`: the days read so far are those in the store (`HistoryStays`: a
write to another row does not touch them), and the row in the store costs at least
what the copy did. A step keeps that or puts the row into `torn` (`ReadsStay`),
where it stays. So when the last day is read the store holds the very history, and
`Detect` is monotone in the cost (`DetectGrows`): the row is over its threshold in
that state and is recorded in `tripped` (`ReadingIsTrue`). Nothing is assumed
of the length of the baseline or of the sign of costs: a write that takes cost away
from the row is one of those that tear. That the fold of costs is an integer, which the arithmetic
needs, is an induction over data. It is proved without the library's
induction theorems, which take an operator: `SubsetInduction` is an induction
principle whose parameter is a set of subsets, from the well-foundedness of strict
inclusion on the finite sets; with it, `SumsExist` and `SumsAgree` give the fold
its recursion equation.

**At rest.** `RestInv` follows an event: what was published is queued, or about to be
marked, or its id is marked, or a call failed; and an id that is marked is in a row,
or in the hands of a handler, or the retries ran out, or a call failed. At rest
nothing is queued and nobody holds anything, so what was published is in a row
(`WhatIsPublishedIsCounted`).

**Counters and scans.** The counters only watch (`StatsOnlyWatch`), so every
invariant above is one of `RollupStats` too. Deliveries that are in the
subscriber's hands are the cardinality of a set that changes by at most one
element per step (`WorkAddsUp`). `ReportInv` relates the scan's locals to
`seen`, what it really did, pair by pair: between the two loads of a pair the
counters are at least what they were before it, and equal while nobody else
detects. `CatchInv` goes along the grid: the pairs behind the scan whose rows
stand still are announced or being announced, and at its own pair it has read
nothing that is out of date. Its attempted proof for rows that were merely over
their threshold all the while failed at the row that is read before its
baseline grows, and TLC then showed the behaviour of section 4: `steady` now asks that
the baseline stands still.

**Listings.** `ListInv`: the ids a listing holds are instances, each once; what
it lists is among those it has passed; without faults, it is all of those that
belong to it.

**Lines.** `IngestInv` has the counters with what is in hand added: per batch
the received lines are the ones of its body that are not blank, up to the
scanner's place, and each is tallied or being worked on; `UnmappedIsUnowned`
follows from a bound on unmapped lines by the unowned ones, which needs that a
server that listens has all cost centers (`SeedInv`). Without the order of the checks the
proof does not go through: a line that is blank and does not decode would count
as failed without having been received.

**Pipeline.** Both services are implemented by the composition
(`PipelineIsIngest`, `PipelineIsRollup`), so each one's invariants hold in it.
`CountedIsBacked` relates them: an item in a row, or in the copy a subscriber is
about to write, or in the queue, was published (`FromPublished`), and what was
published is stored and has an owner, because it was saved before
(`PublishedIsStored`) and what is stored is only ever replaced.

**Clean batches.** `Forwarded`: in a batch that has no failure so far every owned
line behind the scanner is published, but for the one in hand. So what a clean
summary reports is published (`ReportedIsPublished`), and by the theorem on the state at
rest it is counted (`CleanBatchesAreCounted`). That theorem is used through `RP`, an
instance of `RollupSvc_proofs` with the substitution of `Pipeline`'s `Rollup`;
`SameSpec` says that the two instances are one specification, and
`RollupAssumptions` that the pipeline's constants satisfy what `RollupSvc` assumes.

**Decisions.** A decision goes from the event to the mailbox to the verdict to
the record; `AnswersWereRaised`, `MailNeedsTheWait`, `RecordFollowsStage` and
`RecordHasAnAuthor` follow it there.

**Inbox.** `InboxFollowsLog` is the strengthening that matters: at every moment
the inbox is the newest entries of the log, one more than INBOX_MAX while the
lock is held between append and trim. `ListedIsThere` carries a page's length to
the count that is read after it.

**Catalogue.** A schedule of a new ID is `Start`, one of an ID that has ended is
`StartAnew`, and the engine's end of an instance is `End`; `running` is mapped to the
instances that have not ended, so no start is a stutter and each must find
nothing running under its ID. The rest, that the list only grows at its end and
names no ID twice, comes from `IndexInv`.

**Index.** `IndexInv`: the index a handler extends is fresh under its ETag and
lacks its id; only started instances are appended; a started instance is listed
or on its way unless a fault or exhaustion intervened. `StatsAddUp` is proved
with the number of handlers at the engine's call, whose change by at most one
per step is a lemma on cardinalities.

**Workflow.** `WorkflowInv`: every round entered was notified before, repeats
have a fault or a roll-out as their cause, the loop stays in its limit as long
as the limit stays, an ack in time stays in the mail or is the outcome, and
until anything happens the rounds are the notifications. With `TypeOK`,
`NaggingIsBounded` and `OutcomeIsExact` it is inductive.

**Names.** Strings of any length over any letters. With colons, the first one
ends the first part: if two equal strings had it at different places, it would
stand inside the longer part (`SamePlace`, `OtherPlace`, `FirstSplit`). With
dashes only, the place of every letter of an instance id is computed
(`InstanceLetters`); the third part, without a dash, fixes the place of the last
separator (`LastPart`), and the length of the day, or that no team's ID goes on after
another's, the place of the first.

**Only model-checked.** All liveness, which is outside the prover's reach
(`PublishedIsCounted`, `Drains`, `AnomalyIsScheduled`, `RequestsEnd`,
`CallsEnd`, and `Terminates` of both workflows); the
three disagreements of section 4, which are violations; and the assumptions of
the `MC_*` modules about short strings.

## 6. How to run

    tlc -workers 2 -config MC_Apply.cfg MC_RollupSvc.tla
    tlapm RollupSvc_proofs.tla

The pairs of module and configuration are the runs of `PROJECT.json`. The
longest, `rollup_apply`, `triage_start` and `pipeline`, need one to three minutes,
`RollupSvc_proofs` and `Pipeline_proofs` some more.

## 7. Not modelled

* The markup of the workflow page, its escaping and the browser's script. Which
  block it shows and what an outcome claims is `Page` of the two workflow modules.
* Logging and the health endpoints: no state.
* The generator and the overhead scripts: sequential, without state of the
  system.
* Build and deployment. Replica counts and restart policy enter as the
  possibility of several handlers and of crashes.
* Dapr, RabbitMQ, Postgres, Redis: external, by the assumptions of section 2.
* The rounding of float costs: `Detect` and `Merge` are exact here, so that sums
  do not depend on the order of events as they do in the last digit of a float.
* A service outside `knownServices` (rollup main.go:30) has no pair in the scan's
  grid: a choice of the code. `ScanCatchesUp` speaks of the rows in the grid.
* ingest-svc and rollup-svc are composed, triage-svc and notifier-svc are not
  composed with them: `anomaly.detected` reaches `TriageSvc` as `Send`, at most
  once per row by `AnnouncedOnce`, and by `TriageInstancesDiffer` under one id per
  row.

## 8. Plan

Done: one module per service component, the counters and reports, the
composition of ingest-svc and rollup-svc, the abstract ledger and catalogue, the
names, the runs above, and a theorem for every safety invariant and action
property they check. What is left:

1. The state at rest of the whole chain: `PublishedAtRest` and
   `OverThresholdIsAnnounced` together say what an idle rollup-svc has announced, and
   `IndexInv` what an idle triage-svc has started; composing the two over
   `anomaly.detected`, as `Pipeline` does for the first topic, would join them.
2. `ScanCatchesUp` for a baseline that moves but ends before the scan does.
