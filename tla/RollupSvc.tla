------------------------------ MODULE RollupSvc ------------------------------
(***************************************************************************)
(* rollup-svc: the subscriber of line-item.enriched and the batch detector *)
(* (services/rollup-svc/main.go), with the pure logic it calls             *)
(* (services/shared/finops/rollup.go, anomaly.go).                         *)
(*                                                                         *)
(* Every call that leaves the process -- a GET, a SAVE, a PUBLISH, the     *)
(* HTTP answer to the sidecar -- is one action, because the goroutines of  *)
(* the service interleave exactly there.  What runs between two calls is   *)
(* local and belongs to the action of the call it follows or precedes.     *)
(*                                                                         *)
(* A worker is a Handler (one goroutine serving one pub/sub delivery) or a *)
(* Scanner (one goroutine serving POST /detect); both run runDetection.    *)
(*                                                                         *)
(* Merge adds cost, quantity and count field by field, so a stored rollup  *)
(* is represented by what was added into it: the bag of merged events.     *)
(***************************************************************************)
EXTENDS Integers, Sequences, FiniteSets, FiniteSetsExt

CONSTANTS
  Events,          \* distinct payloads on line-item.enriched
  Malformed,       \* those that do not decode as an EnrichedLineItem
  Ids, LineId,     \* line_item_id of an event; two events may share one
  Days, Groups,    \* a group is a (team, service) pair
  EventKey,        \* the rollup an event belongs to: <<day, group>>
  EventCost,       \* its cost_usd, as an integer number of units
  Handlers, Scanners,
  Grid,            \* cost centers x knownServices, the order /detect visits
  MaxETagRetries, BaselineDays,
  PctNum, PctDen,  \* PctThreshold as a fraction
  MinBaselineUSD,
  MaxCopies,       \* bound: publications of one event
  MaxScans,        \* bound: POST /detect calls
  MaxFaults,       \* bound: failed calls, lost connections and crashes
  NoEvent

Key == Days \X Groups

Bag == [Events -> Nat]

ASSUME EventsAssumption ==
  /\ IsFiniteSet(Events)
  /\ Malformed \subseteq Events
  /\ NoEvent \notin Events
  /\ Days \subseteq Int
  /\ LineId \in [Events -> Ids]
  /\ EventKey \in [Events -> Key]
  /\ EventCost \in [Events -> Int]

ASSUME WorkersAssumption ==
  /\ IsFiniteSet(Handlers)
  /\ Handlers \cap Scanners = {}
  /\ Grid \in Seq(Groups)

ASSUME BoundsAssumption ==
  /\ MaxETagRetries \in Nat \ {0}
  /\ BaselineDays \in Nat
  /\ PctNum \in Nat /\ PctDen \in Nat \ {0}
  /\ MinBaselineUSD \in Int
  /\ MaxCopies \in Nat /\ MaxScans \in Nat /\ MaxFaults \in Nat

Workers == Handlers \cup Scanners

VARIABLES
  queue,      \* ready deliveries of each event on the subscription queue
  published,  \* how often each event has been published
  acked,      \* events some delivery of which was answered SUCCESS
  processed,  \* ids with a processed:<id> marker
  rollup,     \* rollup:<day>:<team>:<service> rows
  marker,     \* keys with an anomaly:<day>:<team>:<service> marker
  announced,  \* anomaly.detected events published for each key
  pc,         \* where each worker is
  job,        \* locals of handleLineItemEnriched and applyRollup
  probe,      \* locals of runDetection
  scan,       \* locals of handleDetectBatch
  scans,      \* POST /detect calls so far
  faults,     \* faults so far
  exhausted,  \* history: some upsert used up its retries
  tripped,    \* history: keys that were over the threshold in some state
  late,       \* history: keys whose baseline moved after their last commit
  torn        \* history: keys whose rows changed under a detection

broker == <<queue, published, acked>>
store  == <<processed, rollup>>
alarms == <<marker, announced>>
locals == <<pc, job, probe, scan>>
ghosts == <<exhausted, tripped, late, torn>>
vars   == <<broker, store, alarms, locals, scans, faults, ghosts>>

(***************************************************************************)
(* Rollups and the detector                                                *)
(***************************************************************************)
EmptyBag == [e \in Events |-> 0]

\* A row that was never written: GetState answers no value and no ETag.
Absent == [etag |-> 0, merged |-> EmptyBag]

Row == [etag : Nat, merged : Bag]

\* Mistake: the delta replaces what was there.
Overwrite(row, e) ==
  [etag |-> row.etag + 1, merged |-> [EmptyBag EXCEPT ![e] = 1]]

\* The ETag is new with every write; a counter per row stands for it.
Merge(row, e) ==
  [etag |-> row.etag + 1, merged |-> [row.merged EXCEPT ![e] = @ + 1]]

CostOf(bag) == MapThenSumSet(LAMBDA e : bag[e] * EventCost[e], Events)

\* What fetchHistory has found: a row for some of the days before, by how
\* many days.  Detect adds them up, so their order does not matter.
Histories == UNION {[days -> Bag] : days \in SUBSET (1..BaselineDays)}

NoHistory == [n \in {} |-> EmptyBag]

WithDay(history, n, bag) ==
  [m \in DOMAIN history \cup {n} |-> IF m = n THEN bag ELSE history[m]]

\* Detect: the mean of the history is compared without dividing.
Detect(current, history) ==
  LET n   == Cardinality(DOMAIN history)
      sum == MapThenSumSet(LAMBDA d : CostOf(history[d]), DOMAIN history)
  IN  /\ CostOf(current) > 0
      /\ n > 0
      /\ sum >= MinBaselineUSD * n
      /\ CostOf(current) * n * PctDen >= sum * PctNum

\* fetchRollup: a key that is not there, and a day nothing was ever stored
\* for, both answer (_, false, nil).
Present(rows, k) == k \in Key /\ rows[k].etag > 0

Prior(k, n) == <<k[1] - n, k[2]>>

\* What fetchHistory would return if it could read this many days at once.
HistoryTo(rows, k, last) ==
  [n \in {m \in 1..last : Present(rows, Prior(k, m))} |-> rows[Prior(k, n)].merged]

History(rows, k) == HistoryTo(rows, k, BaselineDays)

Trips(rows, k) ==
  /\ Present(rows, k)
  /\ Detect(rows[k].merged, History(rows, k))

(***************************************************************************)
(* Local states                                                            *)
(***************************************************************************)
Job == [evt : Events \cup {NoEvent}, owned : BOOLEAN,
        attempt : 1..MaxETagRetries, base : Row]

Probe == [key : Key \cup {<<>>}, n : 1..(BaselineDays + 1),
          current : Bag, history : Histories]

Scan == [day : Days \cup {0}, pos : 0..Len(Grid)]

NoJob == [evt |-> NoEvent, owned |-> FALSE, attempt |-> 1, base |-> Absent]
JobFor(e) == [evt |-> e, owned |-> TRUE, attempt |-> 1, base |-> Absent]

\* Mistake: today is part of its own baseline.
ProbeFromToday(k) ==
  [key |-> k, n |-> 0, current |-> EmptyBag, history |-> NoHistory]

ProbeOf(k) ==
  [key |-> k, n |-> 1, current |-> EmptyBag, history |-> NoHistory]
NoProbe == ProbeOf(<<>>)

NoScan == [day |-> 0, pos |-> 0]

Probing == {"current", "prior", "marker", "publish"}
Answers == {"SUCCESS", "RETRY"}
HandlerPC == {"idle", "mark", "read", "write"} \cup Probing \cup Answers
ScannerPC == {"idle", "next"} \cup Probing

IdOf(h)  == LineId[job[h].evt]
KeyOf(h) == EventKey[job[h].evt]

\* Where a worker goes when runDetection returns, with or without an error.
Done(w) == IF w \in Handlers THEN "SUCCESS" ELSE "next"

Goto(w, label) == pc' = [pc EXCEPT ![w] = label]

Fault == faults < MaxFaults /\ faults' = faults + 1

Init ==
  /\ queue = [e \in Events |-> 0]
  /\ published = [e \in Events |-> 0]
  /\ acked = {}
  /\ processed = {}
  /\ rollup = [k \in Key |-> Absent]
  /\ marker = {}
  /\ announced = [k \in Key |-> 0]
  /\ pc = [w \in Workers |-> "idle"]
  /\ job = [h \in Handlers |-> NoJob]
  /\ probe = [w \in Workers |-> NoProbe]
  /\ scan = [s \in Scanners |-> NoScan]
  /\ scans = 0
  /\ faults = 0
  /\ exhausted = FALSE
  /\ tripped = {}
  /\ late = {}
  /\ torn = {}

(***************************************************************************)
(* The broker and the sidecar: delivery is at least once                   *)
(***************************************************************************)
\* ingest-svc publishes an event; posting a batch again publishes it again.
Publish(e) ==
  /\ published[e] < MaxCopies
  /\ published' = [published EXCEPT ![e] = @ + 1]
  /\ queue' = [queue EXCEPT ![e] = @ + 1]
  /\ UNCHANGED <<acked, store, alarms, locals, scans, faults, ghosts>>

Deliver(h, e) ==
  /\ pc[h] = "idle"
  /\ queue[e] > 0
  /\ e \notin Malformed
  /\ queue' = [queue EXCEPT ![e] = @ - 1]
  /\ job' = [job EXCEPT ![h] = JobFor(e)]
  /\ Goto(h, "mark")
  /\ UNCHANGED <<published, acked, store, alarms, probe, scan, scans,
                 faults, ghosts>>

\* A poison message is acknowledged without a single call to the store.
DropMalformed(h, e) ==
  /\ pc[h] = "idle"
  /\ queue[e] > 0
  /\ e \in Malformed
  /\ queue' = [queue EXCEPT ![e] = @ - 1]
  /\ UNCHANGED <<published, acked, store, alarms, locals, scans, faults,
                 ghosts>>

\* The answer ends the delivery: SUCCESS removes the message, RETRY puts it
\* back.  The answer to a delivery the broker gave up on changes nothing.
Respond(h) ==
  /\ pc[h] \in Answers
  /\ IF job[h].owned
       THEN /\ queue' = IF pc[h] = "RETRY"
                          THEN [queue EXCEPT ![job[h].evt] = @ + 1]
                          ELSE queue
            /\ acked' = IF pc[h] = "SUCCESS"
                          THEN acked \cup {job[h].evt} ELSE acked
       ELSE UNCHANGED <<queue, acked>>
  /\ job' = [job EXCEPT ![h] = NoJob]
  /\ probe' = [probe EXCEPT ![h] = NoProbe]
  /\ Goto(h, "idle")
  /\ UNCHANGED <<published, store, alarms, scan, scans, faults, ghosts>>

\* The connection to the broker drops while a handler runs: the message is
\* delivered again, and the handler, whose context is not cancelled, goes on.
Redeliver(h) ==
  /\ Fault
  /\ pc[h] # "idle"
  /\ job[h].owned
  /\ job' = [job EXCEPT ![h].owned = FALSE]
  /\ queue' = [queue EXCEPT ![job[h].evt] = @ + 1]
  /\ UNCHANGED <<published, acked, store, alarms, pc, probe, scan, scans,
                 ghosts>>

InFlight(e) ==
  {h \in Handlers : pc[h] # "idle" /\ job[h].owned /\ job[h].evt = e}

\* The pod dies: every goroutine is gone and what it held is requeued.
Crash ==
  /\ Fault
  /\ queue' = [e \in Events |-> queue[e] + Cardinality(InFlight(e))]
  /\ pc' = [w \in Workers |-> "idle"]
  /\ job' = [h \in Handlers |-> NoJob]
  /\ probe' = [w \in Workers |-> NoProbe]
  /\ scan' = [s \in Scanners |-> NoScan]
  /\ UNCHANGED <<published, acked, store, alarms, scans, ghosts>>

(***************************************************************************)
(* markProcessed: FirstWrite on processed:<id>                             *)
(***************************************************************************)
\* Mistake: a plain SaveState, which never reports a conflict.
NeverDuplicate(h) == FALSE

\* FirstWrite conflicts exactly when the key is there already.
IsDuplicate(h) == IdOf(h) \in processed

MarkProcessed(h) ==
  /\ pc[h] = "mark"
  /\ ~IsDuplicate(h)
  /\ processed' = processed \cup {IdOf(h)}
  /\ Goto(h, "read")
  /\ UNCHANGED <<broker, rollup, alarms, job, probe, scan, scans, faults,
                 ghosts>>

\* Mistake: a duplicate is answered RETRY.
DuplicateRetried == "RETRY"

DuplicateAnswer == "SUCCESS"

SkipDuplicate(h) ==
  /\ pc[h] = "mark"
  /\ IsDuplicate(h)
  /\ Goto(h, DuplicateAnswer)
  /\ UNCHANGED <<broker, store, alarms, job, probe, scan, scans, faults,
                 ghosts>>

\* The call fails, before or after the marker was written.
MarkProcessedFails(h) ==
  /\ Fault
  /\ pc[h] = "mark"
  /\ processed' \in {processed, processed \cup {IdOf(h)}}
  /\ Goto(h, "RETRY")
  /\ UNCHANGED <<broker, rollup, alarms, job, probe, scan, scans, ghosts>>

(***************************************************************************)
(* applyRollup: read, merge, write under the ETag that was read            *)
(***************************************************************************)
ReadRollup(h) ==
  /\ pc[h] = "read"
  /\ job' = [job EXCEPT ![h].base = rollup[KeyOf(h)]]
  /\ Goto(h, "write")
  /\ UNCHANGED <<broker, store, alarms, probe, scan, scans, faults, ghosts>>

ReadRollupFails(h) ==
  /\ Fault
  /\ pc[h] = "read"
  /\ Goto(h, "RETRY")
  /\ UNCHANGED <<broker, store, alarms, job, probe, scan, scans, ghosts>>

\* Mistake: the last writer wins.
AnyETag(h) == TRUE

\* The row is still the one that was read; no row at all is ETag 0, which is
\* what FirstWrite without an ETag asks for.
ETagMatches(h) == rollup[KeyOf(h)].etag = job[h].base.etag

\* The keys some worker reads the days of and has not read them all, if this
\* write makes what it has read so far a thing of the past: another value of a
\* prior day, or less cost on the day itself, which only a credit brings.
TornBy(k, row) ==
  LET Tears(w) ==
        \/ \E n \in 1..(probe[w].n - 1) : Prior(probe[w].key, n) = k
        \/ probe[w].key = k /\ CostOf(row.merged) < CostOf(rollup[k].merged)
  IN  {probe[w].key : w \in {v \in Workers :
         pc[v] = "prior" /\ probe[v].n <= BaselineDays /\ Tears(v)}}

\* What the store does with a write it accepts, and the history of it.
StoreRollup(k, row) ==
  /\ rollup' = [rollup EXCEPT ![k] = row]
  /\ tripped' = tripped \cup {q \in Key : Trips(rollup', q)}
  /\ late' = (late \ {k}) \cup
             {q \in Key : \E n \in 1..BaselineDays : Prior(q, n) = k}
  /\ torn' = torn \cup TornBy(k, row)

CommitRollup(h) ==
  /\ pc[h] = "write"
  /\ ETagMatches(h)
  /\ StoreRollup(KeyOf(h), Merge(job[h].base, job[h].evt))
  /\ probe' = [probe EXCEPT ![h] = ProbeOf(KeyOf(h))]
  /\ Goto(h, "current")
  /\ UNCHANGED <<broker, processed, alarms, job, scan, scans, faults,
                 exhausted>>

\* Mistakes: one attempt too many, one too few.
AfterLastAttempt(h) == job[h].attempt > MaxETagRetries
BeforeLastAttempt(h) == job[h].attempt >= MaxETagRetries - 1

LastAttempt(h) == job[h].attempt = MaxETagRetries

\* Somebody else won the race: read and merge again.
RetryRollup(h) ==
  /\ pc[h] = "write"
  /\ ~ETagMatches(h)
  /\ ~LastAttempt(h)
  /\ job' = [job EXCEPT ![h].attempt = @ + 1]
  /\ Goto(h, "read")
  /\ UNCHANGED <<broker, store, alarms, probe, scan, scans, faults, ghosts>>

ExhaustRollup(h) ==
  /\ pc[h] = "write"
  /\ ~ETagMatches(h)
  /\ LastAttempt(h)
  /\ exhausted' = TRUE
  /\ Goto(h, "RETRY")
  /\ UNCHANGED <<broker, store, alarms, job, probe, scan, scans, faults,
                 tripped, late, torn>>

\* An error that is no conflict, with or without the write taking effect.
WriteRollupFails(h) ==
  /\ Fault
  /\ pc[h] = "write"
  /\ \/ UNCHANGED <<rollup, tripped, late, torn>>
     \/ /\ ETagMatches(h)
        /\ StoreRollup(KeyOf(h), Merge(job[h].base, job[h].evt))
  /\ Goto(h, "RETRY")
  /\ UNCHANGED <<broker, processed, alarms, job, probe, scan, scans,
                 exhausted>>

(***************************************************************************)
(* runDetection, called by a handler for its own row and by a scanner for  *)
(* each pair of the grid.  An error ends it and nothing else: the handler  *)
(* still answers SUCCESS, the scanner goes on with the next pair.          *)
(***************************************************************************)
FetchCurrent(w) ==
  /\ pc[w] = "current"
  /\ LET k == probe[w].key IN
       IF Present(rollup, k)
         THEN /\ probe' = [probe EXCEPT ![w].current = rollup[k].merged]
              /\ Goto(w, "prior")
         ELSE /\ Goto(w, Done(w))
              /\ UNCHANGED probe
  /\ UNCHANGED <<broker, store, alarms, job, scan, scans, faults, ghosts>>

\* One GET per prior day; a day without a row is skipped.
FetchPrior(w) ==
  /\ pc[w] = "prior"
  /\ probe[w].n <= BaselineDays
  /\ LET k == Prior(probe[w].key, probe[w].n) IN
       probe' = [probe EXCEPT
         ![w].n = @ + 1,
         ![w].history = IF Present(rollup, k)
                          THEN WithDay(@, probe[w].n, rollup[k].merged) ELSE @]
  /\ UNCHANGED <<broker, store, alarms, pc, job, scan, scans, faults, ghosts>>

FetchFails(w) ==
  /\ Fault
  /\ pc[w] = "current" \/ (pc[w] = "prior" /\ probe[w].n <= BaselineDays)
  /\ Goto(w, Done(w))
  /\ UNCHANGED <<broker, store, alarms, job, probe, scan, scans, ghosts>>

\* Mistake: every row with a history is an anomaly.
AnyHistory(w) == DOMAIN probe[w].history # {}

IsAnomaly(w) == Detect(probe[w].current, probe[w].history)

\* Detect is local: it decides whether there is a next call.
RunDetect(w) ==
  /\ pc[w] = "prior"
  /\ probe[w].n > BaselineDays
  /\ Goto(w, IF IsAnomaly(w) THEN "marker" ELSE Done(w))
  /\ UNCHANGED <<broker, store, alarms, job, probe, scan, scans, faults,
                 ghosts>>

\* Mistake: a plain SaveState of the marker.
NeverMarked(w) == FALSE

AlreadyMarked(w) == probe[w].key \in marker

SaveMarker(w) ==
  /\ pc[w] = "marker"
  /\ ~AlreadyMarked(w)
  /\ marker' = marker \cup {probe[w].key}
  /\ Goto(w, "publish")
  /\ UNCHANGED <<broker, store, announced, job, probe, scan, scans, faults,
                 ghosts>>

DetectedDup(w) ==
  /\ pc[w] = "marker"
  /\ AlreadyMarked(w)
  /\ Goto(w, Done(w))
  /\ UNCHANGED <<broker, store, alarms, job, probe, scan, scans, faults,
                 ghosts>>

SaveMarkerFails(w) ==
  /\ Fault
  /\ pc[w] = "marker"
  /\ marker' \in {marker, marker \cup {probe[w].key}}
  /\ Goto(w, Done(w))
  /\ UNCHANGED <<broker, store, announced, job, probe, scan, scans, ghosts>>

PublishAnomaly(w) ==
  /\ pc[w] = "publish"
  /\ announced' = [announced EXCEPT ![probe[w].key] = @ + 1]
  /\ Goto(w, Done(w))
  /\ UNCHANGED <<broker, store, marker, job, probe, scan, scans, faults,
                 ghosts>>

PublishAnomalyFails(w) ==
  /\ Fault
  /\ pc[w] = "publish"
  /\ \/ announced' = [announced EXCEPT ![probe[w].key] = @ + 1]
     \/ UNCHANGED announced
  /\ Goto(w, Done(w))
  /\ UNCHANGED <<broker, store, marker, job, probe, scan, scans, ghosts>>

(***************************************************************************)
(* handleDetectBatch: POST /detect?day=...                                 *)
(***************************************************************************)
StartScan(s, d) ==
  /\ pc[s] = "idle"
  /\ scans < MaxScans
  /\ scans' = scans + 1
  /\ scan' = [scan EXCEPT ![s] = [day |-> d, pos |-> 0]]
  /\ Goto(s, "next")
  /\ UNCHANGED <<broker, store, alarms, job, probe, faults, ghosts>>

NextPair(s) ==
  /\ pc[s] = "next"
  /\ scan[s].pos < Len(Grid)
  /\ LET i == scan[s].pos + 1 IN
       /\ scan' = [scan EXCEPT ![s].pos = i]
       /\ probe' = [probe EXCEPT ![s] = ProbeOf(<<scan[s].day, Grid[i]>>)]
  /\ Goto(s, "current")
  /\ UNCHANGED <<broker, store, alarms, job, scans, faults, ghosts>>

EndScan(s) ==
  /\ pc[s] = "next"
  /\ scan[s].pos = Len(Grid)
  /\ scan' = [scan EXCEPT ![s] = NoScan]
  /\ probe' = [probe EXCEPT ![s] = NoProbe]
  /\ Goto(s, "idle")
  /\ UNCHANGED <<broker, store, alarms, job, scans, faults, ghosts>>

(***************************************************************************)
(* The specification                                                       *)
(***************************************************************************)
\* The steps of a running goroutine that nothing disturbs.
Apply(h) ==
  \/ MarkProcessed(h) \/ SkipDuplicate(h)
  \/ ReadRollup(h) \/ CommitRollup(h) \/ RetryRollup(h) \/ ExhaustRollup(h)
  \/ Respond(h)

RunDetection(w) ==
  \/ FetchCurrent(w) \/ FetchPrior(w) \/ RunDetect(w)
  \/ SaveMarker(w) \/ DetectedDup(w) \/ PublishAnomaly(w)

ScanStep(s) == NextPair(s) \/ EndScan(s)

Receive(h) == \E e \in Events : Deliver(h, e) \/ DropMalformed(h, e)

Disturb ==
  \/ Crash
  \/ \E h \in Handlers :
       \/ Redeliver(h) \/ MarkProcessedFails(h)
       \/ ReadRollupFails(h) \/ WriteRollupFails(h)
  \/ \E w \in Workers :
       FetchFails(w) \/ SaveMarkerFails(w) \/ PublishAnomalyFails(w)

Next ==
  \/ \E e \in Events : Publish(e)
  \/ \E h \in Handlers : Receive(h) \/ Apply(h)
  \/ \E w \in Workers : RunDetection(w)
  \/ \E s \in Scanners : ScanStep(s) \/ \E d \in Days : StartScan(s, d)
  \/ Disturb

Spec == Init /\ [][Next]_vars

\* Goroutines that can run do run, and the broker delivers to a free one.  What
\* a worker can do next depends on where it is, so one condition per worker
\* says it for all its actions.
Fairness ==
  /\ \A h \in Handlers : WF_vars(Receive(h) \/ Apply(h) \/ RunDetection(h))
  /\ \A s \in Scanners : WF_vars(ScanStep(s) \/ RunDetection(s))

FairSpec == Spec /\ Fairness

(***************************************************************************)
(* Properties                                                              *)
(***************************************************************************)
DataTypeOK ==
  /\ queue \in [Events -> Nat]
  /\ published \in [Events -> 0..MaxCopies]
  /\ acked \subseteq Events
  /\ processed \subseteq Ids
  /\ rollup \in [Key -> Row]
  /\ marker \subseteq Key
  /\ announced \in [Key -> Nat]
  /\ scans \in 0..MaxScans
  /\ faults \in 0..MaxFaults
  /\ exhausted \in BOOLEAN
  /\ tripped \subseteq Key
  /\ late \subseteq Key
  /\ torn \subseteq Key

LocalTypeOK ==
  /\ pc \in [Workers -> HandlerPC \cup ScannerPC]
  /\ job \in [Handlers -> Job]
  /\ probe \in [Workers -> Probe]
  /\ scan \in [Scanners -> Scan]
  /\ \A h \in Handlers : /\ pc[h] \in HandlerPC
                         /\ pc[h] # "idle" => job[h].evt \in Events
  /\ \A s \in Scanners : /\ pc[s] \in ScannerPC
                         /\ pc[s] # "idle" => scan[s].day \in Days
  /\ \A w \in Workers : pc[w] \in Probing => probe[w].key \in Key

\* Every variable has the shape the code gives it, and a goroutine that runs
\* works on an event, a row or a day.
TypeOK == DataTypeOK /\ LocalTypeOK

\* The events with this id that some rollup contains.
CountedAs(id) ==
  {e \in Events : LineId[e] = id /\ rollup[EventKey[e]].merged[e] > 0}

\* A handler that won the marker of this id and has not merged it yet.
Holding(id) ==
  {h \in Handlers : pc[h] \in {"read", "write"} /\ IdOf(h) = id}

\* main.go:121, tasks T8 "does not double-count": however often an id is
\* delivered, concurrently or again after a crash, with the same payload or
\* another, it is merged at most once, and into the row it belongs to.
NoDoubleCount ==
  /\ \A e \in Events, k \in Key :
       /\ rollup[k].merged[e] <= 1
       /\ rollup[k].merged[e] > 0 => EventKey[e] = k
  /\ \A id \in Ids : \A e, f \in CountedAs(id) : e = f

\* main.go:365-409: each lost race was won by a commit to the same row, so a
\* handler never starts attempt n + 1 before n commits happened, and the
\* retries run out only on a row with MaxETagRetries commits of others.
ContentionBound ==
  /\ \A h \in Handlers :
       /\ pc[h] = "read" => job[h].attempt - 1 <= rollup[KeyOf(h)].etag
       /\ pc[h] = "write" => job[h].attempt - 1 <= job[h].base.etag
  /\ exhausted => \E k \in Key : rollup[k].etag >= MaxETagRetries

\* main.go:386-399: a write replaces exactly the row it was computed from, so
\* a merge that was committed is never undone by a concurrent one.
NoLostUpdate ==
  [][\A k \in Key, e \in Events :
       rollup'[k].merged[e] >= rollup[k].merged[e]]_vars

\* main.go:254-256: one anomaly.detected event per (day, team, service),
\* whatever the triggers, the crashes and the failed publications.
AnnouncedOnce == \A k \in Key : announced[k] <= 1

\* What is announced is marked, and the marker is for a row that exists.
AnnouncedIsMarked ==
  \A k \in Key : announced[k] > 0 => k \in marker /\ rollup[k].etag > 0

Quiet == /\ \A e \in Events : queue[e] = 0
         /\ \A w \in Workers : pc[w] = "idle"

\* main.go:164-170: when all deliveries are done, every row over its
\* threshold has its marker and its event, provided no call failed and the
\* baseline was in place before the row's last update.
OverThresholdIsAnnounced ==
  Quiet /\ faults = 0 =>
    \A k \in Key \ late : Trips(rollup, k) => announced[k] = 1

\* main.go:216-252, 306: an anomaly is only ever announced for a row that was
\* over its threshold in some state of the store, or whose detection was torn:
\* a prior day was written after it was read, or the row lost cost, before the
\* last day was read.
AnnouncedHadTripped ==
  \A k \in Key : announced[k] > 0 => k \in tripped \cup torn

\* NOTES.md:351 "exactly-once semantics across triggers": a marked anomaly
\* was published, or the worker that marked it is about to publish it.
MarkedIsAnnounced ==
  \A k \in marker :
    \/ announced[k] = 1
    \/ \E w \in Workers : pc[w] = "publish" /\ probe[w].key = k

\* main.go:118-121, tasks T8 "for each event, updates a rollup row": what was
\* answered SUCCESS is counted, under its id.
AckedIsCounted == \A e \in acked : CountedAs(LineId[e]) # {} \/ Holding(LineId[e]) # {}

\* Through the stored rows, the service does nothing but what the abstract
\* ledger allows, in every interleaving and under every fault.
Ledger == INSTANCE RollupLedger WITH
  submitted <- {e \in Events : published[e] > 0},
  ledger    <- [k \in Key |-> rollup[k].merged]

ImplementsLedger == Ledger!Spec

\* Every well-formed event that is published ends up counted, unless a fault
\* or contention comes in between.
PublishedIsCounted ==
  \A e \in Events \ Malformed :
    published[e] > 0 ~> (CountedAs(LineId[e]) # {} \/ exhausted \/ faults > 0)

\* The queue drains: no delivery is answered RETRY forever, because retries
\* end with the faults that cause them and exhaustion turns into a duplicate.
Drains == <>[]Quiet

(***************************************************************************)
(* Inductive invariants: why the properties hold                           *)
(***************************************************************************)
Holds(h) == pc[h] \in {"read", "write"}

\* A row read for an update is an earlier version of the stored row, and the
\* stored row itself if the ETag is still the same.
SnapshotFresh ==
  \A h \in Handlers : pc[h] = "write" =>
    /\ job[h].base.etag <= rollup[KeyOf(h)].etag
    /\ job[h].base.etag = rollup[KeyOf(h)].etag => job[h].base = rollup[KeyOf(h)]

\* Between the marker and the merge a handler is alone with its id, and
\* nothing with that id is in any row.
HolderIsAlone ==
  \A h \in Handlers : Holds(h) =>
    /\ IdOf(h) \in processed
    /\ CountedAs(IdOf(h)) = {}
    /\ \A f \in Handlers : Holds(f) /\ IdOf(f) = IdOf(h) => f = h

CountedIsMarked ==
  \A e \in Events, k \in Key : rollup[k].merged[e] > 0 => LineId[e] \in processed

CountInv == SnapshotFresh /\ HolderIsAlone /\ CountedIsMarked /\ NoDoubleCount

\* At most one worker is about to announce a row, and the row is marked and
\* not announced yet.
PublisherIsAlone ==
  \A w \in Workers : pc[w] = "publish" =>
    /\ probe[w].key \in marker
    /\ announced[probe[w].key] = 0
    /\ \A v \in Workers :
         pc[v] = "publish" /\ probe[v].key = probe[w].key => v = w

\* Only stored rows are detected on and marked.
MarkedIsStored ==
  /\ \A w \in Workers :
       pc[w] \in {"prior", "marker", "publish"} => rollup[probe[w].key].etag > 0
  /\ \A k \in marker : rollup[k].etag > 0

AnnounceInv ==
  PublisherIsAlone /\ MarkedIsStored /\ AnnouncedOnce /\ AnnouncedIsMarked

\* Nothing is delivered that was not published, and a stored row has an entry.
DeliveredIsPublished ==
  /\ \A e \in Events : queue[e] > 0 => published[e] > 0
  /\ \A h \in Handlers : pc[h] # "idle" => published[job[h].evt] > 0
  /\ \A k \in Key : rollup[k].etag > 0 => \E e \in Events : rollup[k].merged[e] > 0

\* Why each id is counted once and each anomaly announced once: the three
\* invariants the proofs rest on, for every reachable state.
InductiveInv == CountInv /\ AnnounceInv /\ DeliveredIsPublished
=============================================================================
