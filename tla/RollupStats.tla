----------------------------- MODULE RollupStats -----------------------------
(***************************************************************************)
(* What rollup-svc says about its work: the counters behind GET /stats and *)
(* the answer of POST /detect (services/rollup-svc/main.go).               *)
(*                                                                         *)
(* Every step is a step of RollupSvc with its counters, so what holds of   *)
(* RollupSvc holds here.  The counters are atomic and live in memory.  The *)
(* batch scan finds out what runDetection did by reading two of them       *)
(* before and after the call, while the subscribers change them as well.   *)
(***************************************************************************)
EXTENDS RollupSvc

VARIABLES
  stats,   \* GET /stats
  report,  \* locals of handleDetectBatch that make up its answer
  seen     \* history: what a scan did itself, and what went on meanwhile

talk == <<stats, report, seen>>

Counter == {"received", "applied", "duplicate", "bad_env", "failed",
            "detected", "detected_dup"}

NoStats  == [c \in Counter |-> 0]
NoReport == [before |-> 0, beforeDup |-> 0, ok |-> TRUE, hits |-> 0, dups |-> 0]

\* alone: nobody else detected anything; steady: rows over their threshold
\* in every state since the scan began, and their baseline never written.
NotSeen == [hits |-> 0, dups |-> 0, alone |-> TRUE, steady |-> {}]

StatsInit ==
  /\ Init
  /\ stats = NoStats
  /\ report = [s \in Scanners |-> NoReport]
  /\ seen = [s \in Scanners |-> NotSeen]

Count(counters) ==
  stats' = [c \in Counter |-> stats[c] + IF c \in counters THEN 1 ELSE 0]

Tripping == {k \in Key : Trips(rollup, k)}

\* A write to the store may end what a scan can rely on.  A baseline that
\* moves does, even if the row stays over its threshold: runDetection reads
\* the row and the days before it one by one, and may compare an old row with
\* a newer baseline.
Watch ==
  seen' = [s \in Scanners |->
            [seen[s] EXCEPT !.steady =
              {k \in @ : /\ Trips(rollup', k)
                         /\ History(rollup', k) = History(rollup, k)}]]

(***************************************************************************)
(* The subscriber                                                          *)
(***************************************************************************)
Uncounted ==
  /\ \/ \E e \in Events : Publish(e)
     \/ \E h \in Handlers : MarkProcessed(h) \/ ReadRollup(h) \/ RetryRollup(h)
                              \/ Respond(h) \/ Redeliver(h)
     \/ \E w \in Workers : FetchCurrent(w) \/ FetchPrior(w) \/ RunDetect(w)
                             \/ SaveMarker(w)
  /\ UNCHANGED talk

CountReceived(h) ==
  /\ \/ /\ \E e \in Events : Deliver(h, e)
        /\ Count({"received"})
     \/ /\ \E e \in Events : DropMalformed(h, e)
        /\ Count({"received", "bad_env"})
  /\ UNCHANGED <<report, seen>>

CountApplied(h) ==
  /\ CommitRollup(h)
  /\ Count({"applied"})
  /\ Watch
  /\ UNCHANGED report

\* Mistake: every delivery that is answered SUCCESS counts as applied.
DuplicateApplied(h) ==
  /\ SkipDuplicate(h)
  /\ Count({"duplicate", "applied"})
  /\ UNCHANGED <<report, seen>>

CountDuplicate(h) ==
  /\ SkipDuplicate(h)
  /\ Count({"duplicate"})
  /\ UNCHANGED <<report, seen>>

\* Whatever keeps an update from being applied.
UpdateFails(h) ==
  MarkProcessedFails(h) \/ ReadRollupFails(h) \/ WriteRollupFails(h) \/ ExhaustRollup(h)

CountFailed(h) ==
  /\ UpdateFails(h)
  /\ Count({"failed"})
  /\ Watch
  /\ UNCHANGED report

(***************************************************************************)
(* runDetection: counted when it published, or found the marker            *)
(***************************************************************************)
\* What the scans see of a detection that worker w counts.
Witness(w, what) ==
  seen' = [s \in Scanners |->
            IF s = w THEN [seen[s] EXCEPT ![what] = @ + 1]
            ELSE [seen[s] EXCEPT !.alone = FALSE]]

CountDetected(w) ==
  /\ PublishAnomaly(w)
  /\ Count({"detected"})
  /\ Witness(w, "hits")
  /\ UNCHANGED report

CountDetectedDup(w) ==
  /\ DetectedDup(w)
  /\ Count({"detected_dup"})
  /\ Witness(w, "dups")
  /\ UNCHANGED report

\* An error is logged by the handler; the scan counts nothing for the pair.
DetectionFails(w) ==
  /\ FetchFails(w) \/ SaveMarkerFails(w) \/ PublishAnomalyFails(w)
  /\ report' = [s \in Scanners |->
                 IF s = w THEN [report[s] EXCEPT !.ok = FALSE] ELSE report[s]]
  /\ UNCHANGED <<stats, seen>>

(***************************************************************************)
(* handleDetectBatch                                                       *)
(***************************************************************************)
BeginReport(s) ==
  /\ \E d \in Days : StartScan(s, d)
  /\ report' = [report EXCEPT ![s] = NoReport]
  /\ seen' = [seen EXCEPT ![s] = [NotSeen EXCEPT !.steady = Tripping]]
  /\ UNCHANGED stats

\* The answer after the pair that was scanned last: a hit if the process
\* published anything since, else a duplicate if it met any marker.
Attributed(s) ==
  LET r       == report[s]
      scanned == scan[s].pos > 0 /\ r.ok
  IN  IF scanned /\ stats["detected"] > r.before
        THEN [r EXCEPT !.hits = @ + 1]
      ELSE IF scanned /\ stats["detected_dup"] > r.beforeDup
        THEN [r EXCEPT !.dups = @ + 1]
      ELSE r

\* Mistake: the counters are read once, before the first pair.
BeforeScan(s) ==
  IF scan[s].pos = 0
    THEN [Attributed(s) EXCEPT !.before = stats["detected"],
                               !.beforeDup = stats["detected_dup"]]
    ELSE [Attributed(s) EXCEPT !.ok = TRUE]

BeforePair(s) ==
  [Attributed(s) EXCEPT !.before = stats["detected"],
                        !.beforeDup = stats["detected_dup"], !.ok = TRUE]

ReportPair(s) ==
  /\ NextPair(s)
  /\ report' = [report EXCEPT ![s] = BeforePair(s)]
  /\ UNCHANGED <<stats, seen>>

\* 200 with Attributed(s).
AnswerReport(s) ==
  /\ EndScan(s)
  /\ report' = [report EXCEPT ![s] = NoReport]
  /\ seen' = [seen EXCEPT ![s] = NotSeen]
  /\ UNCHANGED stats

Restart ==
  /\ Crash
  /\ stats' = NoStats
  /\ report' = [s \in Scanners |-> NoReport]
  /\ seen' = [s \in Scanners |-> NotSeen]

StatsNext ==
  \/ Uncounted \/ Restart
  \/ \E h \in Handlers : CountReceived(h) \/ CountApplied(h)
                           \/ CountDuplicate(h) \/ CountFailed(h)
  \/ \E w \in Workers :
       CountDetected(w) \/ CountDetectedDup(w) \/ DetectionFails(w)
  \/ \E s \in Scanners : BeginReport(s) \/ ReportPair(s) \/ AnswerReport(s)

StatsSpec == StatsInit /\ [][StatsNext]_<<vars, talk>>

(***************************************************************************)
(* Properties                                                              *)
(***************************************************************************)
InWork == {h \in Handlers : pc[h] \in {"mark", "read", "write"}}

\* main.go:32-41: whatever interleaves, fails and restarts, /stats accounts
\* for every delivery, and in a process that saw no fault the detections it
\* counts are the anomalies that were published.
StatsAddUp ==
  /\ stats["received"] = stats["applied"] + stats["duplicate"] + stats["bad_env"]
                           + stats["failed"] + Cardinality(InWork)
  /\ faults = 0 =>
       stats["detected"] = Cardinality({k \in Key : announced[k] > 0})

AtEnd(s) == pc[s] = "next" /\ scan[s].pos = Len(Grid)

\* main.go:203-219, NOTES.md:351 "all 10 came back as duplicate": the answer
\* of a scan leaves out nothing the scan did itself, counts no pair twice,
\* and is exact if nobody else detected anything meanwhile.
ScanReportsItsWork ==
  \A s \in Scanners : AtEnd(s) =>
    LET answer == Attributed(s) IN
      /\ answer.hits >= seen[s].hits
      /\ answer.hits + answer.dups >= seen[s].hits + seen[s].dups
      /\ answer.hits + answer.dups <= Len(Grid)
      /\ seen[s].alone =>
           answer.hits = seen[s].hits /\ answer.dups = seen[s].dups

\* main.go:176-179: a scan without faults announces every row of its day and
\* its grid that was over the threshold all the while on a baseline that
\* stood still, also where history that arrived before the scan, but after
\* the row, kept the subscriber from noticing.
ScanCatchesUp ==
  faults = 0 =>
    \A s \in Scanners : AtEnd(s) =>
      \A k \in seen[s].steady :
        k[1] = scan[s].day /\ (\E i \in 1..Len(Grid) : Grid[i] = k[2]) =>
          \/ announced[k] = 1
          \/ \E w \in Workers : pc[w] = "publish" /\ probe[w].key = k
=============================================================================
