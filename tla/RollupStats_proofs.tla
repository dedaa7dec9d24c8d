------------------------- MODULE RollupStats_proofs -------------------------
(***************************************************************************)
(* Proofs about RollupStats: the counters of /stats and the answer of      *)
(* POST /detect, for every number of handlers and scanners, every grid and *)
(* every baseline.                                                         *)
(***************************************************************************)
EXTENDS RollupStats, RollupSvc_proofs

USE DEF Goto, IsDuplicate, LastAttempt, AlreadyMarked, DuplicateAnswer

-----------------------------------------------------------------------------
\* Counting leaves the service as it is.
LEMMA StatsStep ==
  ASSUME [StatsNext]_<<vars, talk>>
  PROVE  [Next]_vars
<1>1. ASSUME Uncounted PROVE Next
  <2>1. ASSUME NEW h \in Handlers,
               MarkProcessed(h) \/ ReadRollup(h) \/ RetryRollup(h) \/ Respond(h)
        PROVE  Next
    BY <2>1 DEF Next, Apply
  <2>2. ASSUME NEW w \in Workers,
               FetchCurrent(w) \/ FetchPrior(w) \/ RunDetect(w) \/ SaveMarker(w)
        PROVE  Next
    BY <2>2 DEF Next, RunDetection
  <2> QED
    BY <1>1, <2>1, <2>2 DEF Uncounted, Next, Disturb
<1>2. ASSUME NEW h \in Handlers,
             \/ CountReceived(h) \/ CountApplied(h)
             \/ CountDuplicate(h) \/ CountFailed(h)
      PROVE  Next
  <2>1. CASE CountReceived(h)
    BY <2>1 DEF CountReceived, Next, Receive
  <2>2. CASE CountApplied(h) \/ CountDuplicate(h) \/ ExhaustRollup(h)
    BY <2>2 DEF CountApplied, CountDuplicate, Next, Apply
  <2>3. CASE CountFailed(h) /\ ~ExhaustRollup(h)
    BY <2>3 DEF CountFailed, UpdateFails, Next, Disturb
  <2> QED
    BY <1>2, <2>1, <2>2, <2>3
<1>3. ASSUME NEW w \in Workers,
             CountDetected(w) \/ CountDetectedDup(w) \/ DetectionFails(w)
      PROVE  Next
  BY <1>3 DEF CountDetected, CountDetectedDup, DetectionFails, Next,
              RunDetection, Disturb
<1>4. ASSUME NEW s \in Scanners,
             BeginReport(s) \/ ReportPair(s) \/ AnswerReport(s)
      PROVE  Next
  BY <1>4 DEF BeginReport, ReportPair, AnswerReport, Next, ScanStep
<1>5. ASSUME Restart PROVE Next
  BY <1>5 DEF Restart, Next, Disturb
<1>6. CASE UNCHANGED <<vars, talk>>
  BY <1>6
<1> QED
  BY <1>1, <1>2, <1>3, <1>4, <1>5, <1>6 DEF StatsNext

\* main.go:32-41: the counters only watch, so what holds of RollupSvc holds
\* of the service that counts.
THEOREM StatsOnlyWatch == StatsSpec => Spec
<1>1. StatsInit => Init
  BY DEF StatsInit
<1>2. [StatsNext]_<<vars, talk>> => [Next]_vars
  BY StatsStep
<1> QED
  BY <1>1, <1>2, PTL DEF StatsSpec, Spec

LEMMA StatsInvariants ==
  StatsSpec => [](TypeOK /\ AnnounceInv /\ InductiveInv)
<1>1. InductiveInv => AnnounceInv
  BY DEF InductiveInv
<1> QED
  BY StatsOnlyWatch, TypeCorrect, InductiveHolds, <1>1, PTL

-----------------------------------------------------------------------------
(***************************************************************************)
(* /stats accounts for every delivery                                      *)
(***************************************************************************)
Working == {"mark", "read", "write"}

\* Counting counts what it names, once.
LEMMA Counted ==
  ASSUME stats \in [Counter -> Nat], NEW counters, Count(counters)
  PROVE  /\ stats' \in [Counter -> Nat]
         /\ \A c \in Counter :
              /\ c \in counters => stats'[c] = stats[c] + 1
              /\ c \notin counters => stats'[c] = stats[c]
BY DEF Count

\* There are finitely many handlers at work.
LEMMA InWorkFinite == IsFiniteSet(InWork) /\ Cardinality(InWork) \in Nat
BY WorkersAssumption, FS_Subset, FS_CardinalityType DEF InWork

\* One worker moves: the handlers at work change by it alone.
LEMMA InWorkStep ==
  ASSUME TypeOK, NEW w \in Workers,
         \A v \in Workers \ {w} : pc'[v] = pc[v]
  PROVE  /\ IsFiniteSet(InWork) /\ Cardinality(InWork) \in Nat
         /\ (w \notin Handlers \/ (pc[w] \in Working <=> pc'[w] \in Working)) =>
              InWork' = InWork
         /\ w \in Handlers /\ pc[w] \notin Working /\ pc'[w] \in Working =>
              Cardinality(InWork') = Cardinality(InWork) + 1
         /\ w \in Handlers /\ pc[w] \in Working /\ pc'[w] \notin Working =>
              Cardinality(InWork') = Cardinality(InWork) - 1
<1>0. \A h \in Handlers : h \in Workers
  BY DEF Workers
<1>1. IsFiniteSet(InWork) /\ Cardinality(InWork) \in Nat
  BY InWorkFinite
<1>3. (w \notin Handlers \/ (pc[w] \in Working <=> pc'[w] \in Working)) =>
        InWork' = InWork
  BY <1>0 DEF InWork, Working
<1>4. ASSUME w \in Handlers, pc[w] \notin Working, pc'[w] \in Working
      PROVE  Cardinality(InWork') = Cardinality(InWork) + 1
  <2>1. InWork' = InWork \cup {w} /\ w \notin InWork
    BY <1>0, <1>4 DEF InWork, Working
  <2> QED
    BY <1>1, <2>1, FS_AddElement
<1>5. ASSUME w \in Handlers, pc[w] \in Working, pc'[w] \notin Working
      PROVE  Cardinality(InWork') = Cardinality(InWork) - 1
  <2>1. InWork' = InWork \ {w} /\ w \in InWork
    BY <1>0, <1>5 DEF InWork, Working
  <2> QED
    BY <1>1, <2>1, FS_RemoveElement
<1> QED
  BY <1>1, <1>3, <1>4, <1>5

WorkAddsUp ==
  /\ stats \in [Counter -> Nat]
  /\ stats["received"] = stats["applied"] + stats["duplicate"]
                           + stats["bad_env"] + stats["failed"]
                           + Cardinality(InWork)

\* What leaves the five counters and the handlers at work alone.
LEMMA WorkStays ==
  ASSUME WorkAddsUp, InWork' = InWork, stats' \in [Counter -> Nat],
         \A c \in Counter \ {"detected", "detected_dup"} : stats'[c] = stats[c]
  PROVE  WorkAddsUp'
<1>1. /\ stats'["received"] = stats["received"]
      /\ stats'["applied"] = stats["applied"]
      /\ stats'["duplicate"] = stats["duplicate"]
      /\ stats'["bad_env"] = stats["bad_env"]
      /\ stats'["failed"] = stats["failed"]
  BY DEF Counter
<1>2. Cardinality(InWork') = Cardinality(InWork)
  OBVIOUS
<1> QED
  BY <1>1, <1>2 DEF WorkAddsUp

\* What takes a handler out of work is counted once.
LEMMA WorkDone ==
  ASSUME TypeOK, WorkAddsUp, NEW h \in Handlers,
         \A v \in Workers \ {h} : pc'[v] = pc[v],
         pc[h] \in Working, pc'[h] \notin Working,
         NEW c \in {"applied", "duplicate", "failed"}, Count({c})
  PROVE  WorkAddsUp'
<1>1. h \in Workers
  BY DEF Workers
<1>2. Cardinality(InWork) \in Nat
      /\ Cardinality(InWork') = Cardinality(InWork) - 1
  BY <1>1, InWorkStep
<1>3. /\ stats' \in [Counter -> Nat]
      /\ \A d \in Counter : /\ d = c => stats'[d] = stats[d] + 1
                            /\ d # c => stats'[d] = stats[d]
  BY Counted DEF WorkAddsUp
<1>4. /\ stats'["received"] = stats["received"]
      /\ stats'["bad_env"] = stats["bad_env"]
  BY <1>3 DEF Counter
<1>5. /\ stats["received"] \in Nat /\ stats["applied"] \in Nat
      /\ stats["duplicate"] \in Nat /\ stats["bad_env"] \in Nat
      /\ stats["failed"] \in Nat
  BY DEF WorkAddsUp, Counter
<1>6. stats'["applied"] + stats'["duplicate"] + stats'["failed"]
        = stats["applied"] + stats["duplicate"] + stats["failed"] + 1
  <2>1. CASE c = "applied"
    <3>1. /\ stats'["applied"] = stats["applied"] + 1
          /\ stats'["duplicate"] = stats["duplicate"]
          /\ stats'["failed"] = stats["failed"]
      BY <1>3, <2>1 DEF Counter
    <3> QED
      BY <1>5, <3>1
  <2>2. CASE c = "duplicate"
    <3>1. /\ stats'["applied"] = stats["applied"]
          /\ stats'["duplicate"] = stats["duplicate"] + 1
          /\ stats'["failed"] = stats["failed"]
      BY <1>3, <2>2 DEF Counter
    <3> QED
      BY <1>5, <3>1
  <2>3. CASE c = "failed"
    <3>1. /\ stats'["applied"] = stats["applied"]
          /\ stats'["duplicate"] = stats["duplicate"]
          /\ stats'["failed"] = stats["failed"] + 1
      BY <1>3, <2>3 DEF Counter
    <3> QED
      BY <1>5, <3>1
  <2> QED
    BY <2>1, <2>2, <2>3
<1>7. /\ stats'["applied"] \in Nat /\ stats'["duplicate"] \in Nat
      /\ stats'["failed"] \in Nat
  BY <1>3 DEF Counter
<1>8. stats'["received"] = stats'["applied"] + stats'["duplicate"]
                             + stats'["bad_env"] + stats'["failed"]
                             + Cardinality(InWork')
  BY <1>2, <1>4, <1>5, <1>6, <1>7 DEF WorkAddsUp
<1> QED
  BY <1>3, <1>8 DEF WorkAddsUp

\* A step of a worker that neither takes up nor finishes an update.
LEMMA WorkElsewhere ==
  ASSUME TypeOK, WorkAddsUp, NEW w \in Workers,
         \A v \in Workers \ {w} : pc'[v] = pc[v],
         w \notin Handlers \/ (pc[w] \in Working <=> pc'[w] \in Working),
         stats' \in [Counter -> Nat],
         \A c \in Counter \ {"detected", "detected_dup"} : stats'[c] = stats[c]
  PROVE  WorkAddsUp'
BY InWorkStep, WorkStays

\* No step loses track of a delivery.
LEMMA WorkNext ==
  ASSUME TypeOK, WorkAddsUp, [StatsNext]_<<vars, talk>>
  PROVE  WorkAddsUp'
<1>0. /\ pc \in [Workers -> HandlerPC \cup ScannerPC]
      /\ \A h \in Handlers : h \in Workers
      /\ \A s \in Scanners : s \in Workers /\ s \notin Handlers
      /\ stats \in [Counter -> Nat]
  BY WorkersAssumption DEF TypeOK, LocalTypeOK, Workers, WorkAddsUp
<1>d. \A w \in Workers : Done(w) \notin Working
  BY DEF Done, Working
<1>1. ASSUME UNCHANGED <<pc, stats>> PROVE WorkAddsUp'
  <2>1. InWork' = InWork
    BY <1>1 DEF InWork
  <2> QED
    BY <1>0, <1>1, <2>1, WorkStays
<1>2. ASSUME Uncounted PROVE WorkAddsUp'
  <2>0. stats' = stats
    BY <1>2 DEF Uncounted, talk
  <2>1. ASSUME NEW e \in Events, Publish(e) PROVE WorkAddsUp'
    BY <1>1, <2>0, <2>1 DEF Publish, locals
  <2>2. ASSUME NEW h \in Handlers,
               MarkProcessed(h) \/ ReadRollup(h) \/ RetryRollup(h) \/ Respond(h)
        PROVE  WorkAddsUp'
    <3>1. /\ \A v \in Workers \ {h} : pc'[v] = pc[v]
          /\ pc[h] \in Working <=> pc'[h] \in Working
      BY <1>0, <2>2 DEF MarkProcessed, ReadRollup, RetryRollup, Respond,
                        Answers, Working
    <3> QED
      BY <1>0, <2>0, <3>1, WorkElsewhere
  <2>3. ASSUME NEW h \in Handlers, Redeliver(h) PROVE WorkAddsUp'
    BY <1>1, <2>0, <2>3 DEF Redeliver
  <2>4. ASSUME NEW w \in Workers,
               FetchCurrent(w) \/ FetchPrior(w) \/ RunDetect(w) \/ SaveMarker(w)
        PROVE  WorkAddsUp'
    <3>1. /\ \A v \in Workers \ {w} : pc'[v] = pc[v]
          /\ pc[w] \notin Working
      BY <1>0, <2>4 DEF FetchCurrent, FetchPrior, RunDetect, SaveMarker, Working
    <3>2. pc'[w] \notin Working
      BY <1>0, <1>d, <2>4
         DEF FetchCurrent, FetchPrior, RunDetect, SaveMarker, Working
    <3> QED
      BY <1>0, <2>0, <3>1, <3>2, WorkElsewhere
  <2> QED
    BY <1>2, <2>1, <2>2, <2>3, <2>4 DEF Uncounted
<1>3. ASSUME NEW h \in Handlers, CountReceived(h) PROVE WorkAddsUp'
  <2>1. ASSUME NEW e \in Events, Deliver(h, e), Count({"received"})
        PROVE  WorkAddsUp'
    <3>1. /\ \A v \in Workers \ {h} : pc'[v] = pc[v]
          /\ pc[h] \notin Working /\ pc'[h] \in Working
      BY <1>0, <2>1 DEF Deliver, Working
    <3>2. Cardinality(InWork) \in Nat
          /\ Cardinality(InWork') = Cardinality(InWork) + 1
      BY <1>0, <3>1, InWorkStep
    <3>3. /\ stats' \in [Counter -> Nat]
          /\ stats'["received"] = stats["received"] + 1
          /\ stats'["applied"] = stats["applied"]
          /\ stats'["duplicate"] = stats["duplicate"]
          /\ stats'["bad_env"] = stats["bad_env"]
          /\ stats'["failed"] = stats["failed"]
      BY <1>0, <2>1, Counted DEF Counter
    <3>4. /\ stats["received"] \in Nat /\ stats["applied"] \in Nat
          /\ stats["duplicate"] \in Nat /\ stats["bad_env"] \in Nat
          /\ stats["failed"] \in Nat
      BY <1>0 DEF Counter
    <3> QED
      BY <3>2, <3>3, <3>4 DEF WorkAddsUp
  <2>2. ASSUME NEW e \in Events, DropMalformed(h, e),
               Count({"received", "bad_env"})
        PROVE  WorkAddsUp'
    <3>1. InWork' = InWork
      BY <2>2 DEF DropMalformed, locals, InWork
    <3>2. Cardinality(InWork') = Cardinality(InWork)
      BY <3>1
    <3>3. /\ stats' \in [Counter -> Nat]
          /\ stats'["received"] = stats["received"] + 1
          /\ stats'["applied"] = stats["applied"]
          /\ stats'["duplicate"] = stats["duplicate"]
          /\ stats'["bad_env"] = stats["bad_env"] + 1
          /\ stats'["failed"] = stats["failed"]
      BY <1>0, <2>2, Counted DEF Counter
    <3>4. /\ stats["received"] \in Nat /\ stats["applied"] \in Nat
          /\ stats["duplicate"] \in Nat /\ stats["bad_env"] \in Nat
          /\ stats["failed"] \in Nat
      BY <1>0 DEF Counter
    <3>5. Cardinality(InWork) \in Nat
      BY <1>0, InWorkFinite
    <3> QED
      BY <3>2, <3>3, <3>4, <3>5 DEF WorkAddsUp
  <2> QED
    BY <1>3, <2>1, <2>2 DEF CountReceived
<1>4. ASSUME NEW h \in Handlers,
             CountApplied(h) \/ CountDuplicate(h) \/ CountFailed(h)
      PROVE  WorkAddsUp'
  <2>1. /\ \A v \in Workers \ {h} : pc'[v] = pc[v]
        /\ pc[h] \in Working /\ pc'[h] \notin Working
    BY <1>0, <1>4
       DEF CountApplied, CountDuplicate, CountFailed, UpdateFails, Working,
           CommitRollup, SkipDuplicate, MarkProcessedFails, ReadRollupFails,
           WriteRollupFails, ExhaustRollup
  <2>2. \E c \in {"applied", "duplicate", "failed"} : Count({c})
    BY <1>4 DEF CountApplied, CountDuplicate, CountFailed
  <2> QED
    BY <2>1, <2>2, WorkDone
<1>5. ASSUME NEW w \in Workers,
             CountDetected(w) \/ CountDetectedDup(w) \/ DetectionFails(w)
      PROVE  WorkAddsUp'
  <2>1. /\ \A v \in Workers \ {w} : pc'[v] = pc[v]
        /\ pc[w] \notin Working /\ pc'[w] = Done(w)
    BY <1>0, <1>5
       DEF CountDetected, CountDetectedDup, DetectionFails, Working,
           PublishAnomaly, DetectedDup, FetchFails, SaveMarkerFails,
           PublishAnomalyFails
  <2>2. \/ Count({"detected"}) \/ Count({"detected_dup"}) \/ stats' = stats
    BY <1>5 DEF CountDetected, CountDetectedDup, DetectionFails
  <2>3. /\ stats' \in [Counter -> Nat]
        /\ \A c \in Counter \ {"detected", "detected_dup"} : stats'[c] = stats[c]
    BY <1>0, <2>2, Counted
  <2> QED
    BY <1>d, <2>1, <2>3, WorkElsewhere
<1>6. ASSUME NEW s \in Scanners,
             BeginReport(s) \/ ReportPair(s) \/ AnswerReport(s)
      PROVE  WorkAddsUp'
  <2>1. /\ \A v \in Workers \ {s} : pc'[v] = pc[v]
        /\ stats' = stats
    BY <1>0, <1>6 DEF BeginReport, ReportPair, AnswerReport, StartScan,
                      NextPair, EndScan
  <2> QED
    BY <1>0, <2>1, WorkElsewhere
<1>7. ASSUME Restart PROVE WorkAddsUp'
  <2>1. InWork' = {}
    BY <1>0, <1>7 DEF Restart, Crash, InWork
  <2>2. Cardinality(InWork') = 0
    BY <2>1, FS_EmptySet
  <2>3. /\ stats' \in [Counter -> Nat]
        /\ stats'["received"] = 0 /\ stats'["applied"] = 0
        /\ stats'["duplicate"] = 0 /\ stats'["bad_env"] = 0
        /\ stats'["failed"] = 0
    BY <1>7 DEF Restart, NoStats, Counter
  <2> QED
    BY <2>2, <2>3 DEF WorkAddsUp
<1>8. CASE UNCHANGED <<vars, talk>>
  BY <1>1, <1>8 DEF vars, locals, talk
<1> QED
  BY <1>2, <1>3, <1>4, <1>5, <1>6, <1>7, <1>8 DEF StatsNext

LEMMA WorkInit == StatsInit => WorkAddsUp
<1> SUFFICES ASSUME StatsInit PROVE WorkAddsUp
  OBVIOUS
<1>1. InWork = {}
  BY DEF StatsInit, Init, InWork, Workers
<1>2. Cardinality(InWork) = 0
  BY <1>1, FS_EmptySet
<1>3. /\ stats \in [Counter -> Nat]
      /\ stats["received"] = 0 /\ stats["applied"] = 0
      /\ stats["duplicate"] = 0 /\ stats["bad_env"] = 0
      /\ stats["failed"] = 0
  BY DEF StatsInit, NoStats, Counter
<1> QED
  BY <1>2, <1>3 DEF WorkAddsUp

-----------------------------------------------------------------------------
(***************************************************************************)
(* The detections of a process are the anomalies that were published       *)
(***************************************************************************)
Announced == {k \in Key : announced[k] > 0}

DetectedAddsUp ==
  /\ IsFiniteSet(Announced)
  /\ faults = 0 => stats["detected"] = Cardinality(Announced)

\* What publishes nothing, or is a fault.
LEMMA DetectedStays ==
  ASSUME TypeOK, DetectedAddsUp, announced' = announced,
         faults' # 0 \/ (faults' = faults /\ stats'["detected"] = stats["detected"])
  PROVE  DetectedAddsUp'
BY DEF DetectedAddsUp, Announced

\* A publication announces one row more.
LEMMA DetectedGrows ==
  ASSUME TypeOK, AnnounceInv, NEW w \in Workers, pc[w] = "publish",
         IsFiniteSet(Announced),
         announced' = [announced EXCEPT ![probe[w].key] = @ + 1]
  PROVE  /\ IsFiniteSet(Announced')
         /\ Cardinality(Announced') = Cardinality(Announced) + 1
<1> DEFINE q == probe[w].key
<1>1. /\ q \in Key /\ announced \in [Key -> Nat] /\ announced[q] = 0
      /\ announced' = [announced EXCEPT ![q] = @ + 1]
  BY DEF TypeOK, DataTypeOK, LocalTypeOK, Probing, AnnounceInv,
         PublisherIsAlone
<1> HIDE DEF q
<1>2. Announced' = Announced \cup {q} /\ q \notin Announced
  BY <1>1 DEF Announced
<1> QED
  BY <1>2, FS_AddElement

LEMMA DetectedNext ==
  ASSUME TypeOK, AnnounceInv, WorkAddsUp, DetectedAddsUp,
         [StatsNext]_<<vars, talk>>
  PROVE  DetectedAddsUp'
<1>0. faults \in Nat /\ stats \in [Counter -> Nat]
  BY DEF TypeOK, DataTypeOK, WorkAddsUp
<1>f. ASSUME Fault PROVE faults' # 0
  BY <1>0, <1>f DEF Fault
<1>1. ASSUME Uncounted PROVE DetectedAddsUp'
  <2>1. announced' = announced /\ stats' = stats
    BY <1>1 DEF Uncounted, talk, alarms, Publish, MarkProcessed, ReadRollup,
                RetryRollup, Respond, Redeliver, FetchCurrent, FetchPrior,
                RunDetect, SaveMarker
  <2>2. faults' = faults \/ Fault
    BY <1>1 DEF Uncounted, Publish, MarkProcessed, ReadRollup, RetryRollup,
                Respond, Redeliver, FetchCurrent, FetchPrior, RunDetect,
                SaveMarker
  <2> QED
    BY <1>f, <2>1, <2>2, DetectedStays
<1>2. ASSUME NEW h \in Handlers,
             \/ CountReceived(h) \/ CountApplied(h)
             \/ CountDuplicate(h) \/ CountFailed(h)
      PROVE  DetectedAddsUp'
  <2>1. announced' = announced /\ (faults' = faults \/ Fault)
    BY <1>2 DEF CountReceived, CountApplied, CountDuplicate, CountFailed,
                UpdateFails, alarms, Deliver, DropMalformed, CommitRollup,
                SkipDuplicate, MarkProcessedFails, ReadRollupFails,
                WriteRollupFails, ExhaustRollup
  <2>2. \E c \in {{"received"}, {"received", "bad_env"}, {"applied"},
                  {"duplicate"}, {"failed"}} : Count(c)
    BY <1>2 DEF CountReceived, CountApplied, CountDuplicate, CountFailed
  <2>3. stats'["detected"] = stats["detected"]
    BY <1>0, <2>2, Counted DEF Counter
  <2> QED
    BY <1>f, <2>1, <2>3, DetectedStays
<1>3. ASSUME NEW w \in Workers, CountDetected(w) PROVE DetectedAddsUp'
  <2>1. /\ pc[w] = "publish" /\ faults' = faults
        /\ announced' = [announced EXCEPT ![probe[w].key] = @ + 1]
        /\ Count({"detected"})
    BY <1>3 DEF CountDetected, PublishAnomaly
  <2>2. stats'["detected"] = stats["detected"] + 1
    BY <1>0, <2>1, Counted DEF Counter
  <2> QED
    BY <2>1, <2>2, DetectedGrows DEF DetectedAddsUp
<1>4. ASSUME NEW w \in Workers, CountDetectedDup(w) PROVE DetectedAddsUp'
  <2>1. announced' = announced /\ faults' = faults /\ Count({"detected_dup"})
    BY <1>4 DEF CountDetectedDup, DetectedDup, alarms
  <2>2. stats'["detected"] = stats["detected"]
    BY <1>0, <2>1, Counted DEF Counter
  <2> QED
    BY <2>1, <2>2, DetectedStays
<1>5. ASSUME NEW w \in Workers, DetectionFails(w) PROVE DetectedAddsUp'
  <2>1. Fault
    BY <1>5 DEF DetectionFails, FetchFails, SaveMarkerFails,
                PublishAnomalyFails
  <2>2. CASE announced' = announced
    BY <1>f, <2>1, <2>2, DetectedStays
  <2>3. CASE announced' # announced
    <3>1. PublishAnomalyFails(w)
      BY <1>5, <2>3 DEF DetectionFails, FetchFails, SaveMarkerFails, alarms
    <3>2. pc[w] = "publish"
          /\ announced' = [announced EXCEPT ![probe[w].key] = @ + 1]
      BY <2>3, <3>1 DEF PublishAnomalyFails
    <3> QED
      BY <1>f, <2>1, <3>2, DetectedGrows DEF DetectedAddsUp
  <2> QED
    BY <2>2, <2>3
<1>6. ASSUME NEW s \in Scanners,
             BeginReport(s) \/ ReportPair(s) \/ AnswerReport(s)
      PROVE  DetectedAddsUp'
  <2>1. announced' = announced /\ faults' = faults /\ stats' = stats
    BY <1>6 DEF BeginReport, ReportPair, AnswerReport, StartScan, NextPair,
                EndScan, alarms
  <2> QED
    BY <2>1, DetectedStays
<1>7. ASSUME Restart PROVE DetectedAddsUp'
  BY <1>f, <1>7, DetectedStays DEF Restart, Crash, alarms
<1>8. CASE UNCHANGED <<vars, talk>>
  BY <1>8, DetectedStays DEF vars, alarms, talk
<1> QED
  BY <1>1, <1>2, <1>3, <1>4, <1>5, <1>6, <1>7, <1>8 DEF StatsNext

LEMMA DetectedInit == StatsInit => DetectedAddsUp
<1> SUFFICES ASSUME StatsInit PROVE DetectedAddsUp
  OBVIOUS
<1>1. Announced = {}
  BY DEF StatsInit, Init, Announced
<1>2. IsFiniteSet(Announced) /\ Cardinality(Announced) = 0
  BY <1>1, FS_EmptySet
<1>3. stats["detected"] = 0
  BY DEF StatsInit, NoStats, Counter
<1> QED
  BY <1>2, <1>3 DEF DetectedAddsUp

\* main.go:32-41: /stats accounts for every delivery, and the detections a
\* process without faults counts are the anomalies that were published, for
\* every number of handlers, scans, retries, faults and restarts.
THEOREM CountersAddUp == StatsSpec => []StatsAddUp
<1>1. TypeOK /\ AnnounceInv /\ WorkAddsUp /\ DetectedAddsUp
        /\ [StatsNext]_<<vars, talk>> => (WorkAddsUp /\ DetectedAddsUp)'
  BY WorkNext, DetectedNext
<1>2. WorkAddsUp /\ DetectedAddsUp => StatsAddUp
  BY DEF WorkAddsUp, DetectedAddsUp, Announced, StatsAddUp
<1>3. StatsInit => WorkAddsUp /\ DetectedAddsUp
  BY WorkInit, DetectedInit
<1> QED
  BY StatsInvariants, <1>1, <1>2, <1>3, PTL DEF StatsSpec

-----------------------------------------------------------------------------
(***************************************************************************)
(* The answer of a scan covers what the scan did                           *)
(***************************************************************************)
Report == [before : Nat, beforeDup : Nat, ok : BOOLEAN, hits : Nat, dups : Nat]
Seen == [hits : Nat, dups : Nat, alone : BOOLEAN, steady : SUBSET Key]

TalkTypes ==
  report \in [Scanners -> Report] /\ seen \in [Scanners -> Seen]

Covers(hits, dups, s) ==
  /\ hits >= seen[s].hits
  /\ hits + dups >= seen[s].hits + seen[s].dups
  /\ seen[s].alone => hits = seen[s].hits /\ dups = seen[s].dups

\* Inside a pair the answer covers the pairs before it, and nothing of this
\* pair is counted yet; between two pairs it covers the last one as well.
ReportSound(s) ==
  /\ report[s].before <= stats["detected"]
  /\ report[s].beforeDup <= stats["detected_dup"]
  /\ pc[s] \in Probing =>
       /\ report[s].ok
       /\ scan[s].pos > 0
       /\ report[s].hits + report[s].dups <= scan[s].pos - 1
       /\ Covers(report[s].hits, report[s].dups, s)
       /\ seen[s].alone =>
            /\ report[s].before = stats["detected"]
            /\ report[s].beforeDup = stats["detected_dup"]
  /\ pc[s] = "next" =>
       /\ Covers(Attributed(s).hits, Attributed(s).dups, s)
       /\ report[s].hits + report[s].dups
            <= IF scan[s].pos = 0 THEN 0 ELSE scan[s].pos - 1

ReportInv == TalkTypes /\ \A s \in Scanners : ReportSound(s)

\* The last pair is a hit, a duplicate, or nothing.
LEMMA AnswerOf ==
  ASSUME NEW r \in Report, NEW scanned \in BOOLEAN, NEW d, NEW u, NEW a,
         a = IF scanned /\ d > r.before THEN [r EXCEPT !.hits = @ + 1]
             ELSE IF scanned /\ u > r.beforeDup THEN [r EXCEPT !.dups = @ + 1]
             ELSE r
  PROVE  /\ a \in Report
         /\ scanned /\ d > r.before =>
              a.hits = r.hits + 1 /\ a.dups = r.dups
         /\ scanned /\ ~(d > r.before) /\ u > r.beforeDup =>
              a.hits = r.hits /\ a.dups = r.dups + 1
         /\ ~scanned \/ (~(d > r.before) /\ ~(u > r.beforeDup)) => a = r
<1> DEFINE hit == d > r.before
           dup == u > r.beforeDup
<1> HIDE DEF hit, dup
<1>1. CASE scanned /\ hit
  BY <1>1 DEF hit, dup, Report
<1>2. CASE scanned /\ ~hit /\ dup
  BY <1>2 DEF hit, dup, Report
<1>3. CASE ~scanned \/ (~hit /\ ~dup)
  BY <1>3 DEF hit, dup, Report
<1> QED
  BY <1>1, <1>2, <1>3

Scanned(s) == scan[s].pos > 0 /\ report[s].ok

LEMMA AttributedIs ==
  ASSUME NEW s \in Scanners, TalkTypes
  PROVE  /\ Attributed(s) \in Report
         /\ Scanned(s) /\ stats["detected"] > report[s].before =>
              /\ Attributed(s).hits = report[s].hits + 1
              /\ Attributed(s).dups = report[s].dups
         /\ Scanned(s) /\ ~(stats["detected"] > report[s].before)
              /\ stats["detected_dup"] > report[s].beforeDup =>
              /\ Attributed(s).hits = report[s].hits
              /\ Attributed(s).dups = report[s].dups + 1
         /\ ~Scanned(s) \/ (/\ ~(stats["detected"] > report[s].before)
                            /\ ~(stats["detected_dup"] > report[s].beforeDup)) =>
              Attributed(s) = report[s]
<1>1. Scanned(s) \in BOOLEAN /\ report[s] \in Report
  BY DEF Scanned, TalkTypes
<1>2. Attributed(s) = IF Scanned(s) /\ stats["detected"] > report[s].before
                        THEN [report[s] EXCEPT !.hits = @ + 1]
                      ELSE IF Scanned(s) /\ stats["detected_dup"] > report[s].beforeDup
                        THEN [report[s] EXCEPT !.dups = @ + 1]
                      ELSE report[s]
  BY DEF Attributed, Scanned
<1> QED
  BY <1>1, <1>2, AnswerOf

\* Everything the answer of a scan is made from, as numbers.
LEMMA ScanTypes ==
  ASSUME TypeOK, WorkAddsUp, TalkTypes, NEW s \in Scanners
  PROVE  /\ report[s].before \in Nat /\ report[s].beforeDup \in Nat
         /\ report[s].hits \in Nat /\ report[s].dups \in Nat
         /\ report[s].ok \in BOOLEAN
         /\ seen[s].hits \in Nat /\ seen[s].dups \in Nat
         /\ seen[s].alone \in BOOLEAN
         /\ Attributed(s).hits \in Nat /\ Attributed(s).dups \in Nat
         /\ scan[s].pos \in Nat /\ scan[s].pos <= Len(Grid) /\ Len(Grid) \in Nat
         /\ stats["detected"] \in Nat /\ stats["detected_dup"] \in Nat
<1>1. Attributed(s) \in Report /\ report[s] \in Report /\ seen[s] \in Seen
  BY AttributedIs DEF TalkTypes
<1>2. scan[s] \in Scan /\ Len(Grid) \in Nat
  BY WorkersAssumption DEF TypeOK, LocalTypeOK
<1>3. stats["detected"] \in Nat /\ stats["detected_dup"] \in Nat
  BY DEF WorkAddsUp, Counter
<1>4. report[s].ok \in BOOLEAN /\ seen[s].alone \in BOOLEAN
  BY <1>1 DEF Report, Seen
<1>5. /\ report[s].before \in Nat /\ report[s].beforeDup \in Nat
      /\ report[s].hits \in Nat /\ report[s].dups \in Nat
      /\ seen[s].hits \in Nat /\ seen[s].dups \in Nat
      /\ Attributed(s).hits \in Nat /\ Attributed(s).dups \in Nat
  BY <1>1 DEF Report, Seen
<1>6. scan[s].pos \in Nat /\ scan[s].pos <= Len(Grid)
  BY <1>2 DEF Scan
<1> QED
  BY <1>2, <1>3, <1>4, <1>5, <1>6

\* What a scanner works with stays: its locals and the two counters.
SameScan(s) ==
  /\ report'[s] = report[s]
  /\ scan'[s] = scan[s]
  /\ seen'[s].hits = seen[s].hits
  /\ seen'[s].dups = seen[s].dups
  /\ seen'[s].alone = seen[s].alone
  /\ stats'["detected"] = stats["detected"]
  /\ stats'["detected_dup"] = stats["detected_dup"]

LEMMA SameAnswer ==
  ASSUME NEW s, SameScan(s)
  PROVE  Attributed(s)' = Attributed(s)
BY DEF SameScan, Attributed

LEMMA ReportFrame ==
  ASSUME NEW s \in Scanners, ReportSound(s), SameScan(s), pc'[s] = pc[s]
  PROVE  ReportSound(s)'
<1>1. Attributed(s)' = Attributed(s)
  BY SameAnswer
<1> QED
  BY <1>1 DEF ReportSound, SameScan, Covers

\* The scanner goes on with its pair, or ends it with nothing to count.
LEMMA ReportWalks ==
  ASSUME TypeOK, WorkAddsUp, TalkTypes,
         NEW s \in Scanners, ReportSound(s), SameScan(s),
         pc[s] \in Probing, pc'[s] \in Probing \cup {"next"}
  PROVE  ReportSound(s)'
<1>1. Attributed(s)' = Attributed(s)
  BY SameAnswer
<1>2. "next" \notin Probing
  BY DEF Probing
<1>3. /\ report[s].before <= stats["detected"]
      /\ report[s].beforeDup <= stats["detected_dup"]
      /\ report[s].ok
      /\ scan[s].pos > 0
      /\ report[s].hits + report[s].dups <= scan[s].pos - 1
      /\ Covers(report[s].hits, report[s].dups, s)
      /\ seen[s].alone =>
           /\ report[s].before = stats["detected"]
           /\ report[s].beforeDup = stats["detected_dup"]
  BY DEF ReportSound
<1>4. Covers(Attributed(s).hits, Attributed(s).dups, s)
  <2> DEFINE a == Attributed(s)
             r == report[s]
  <2>1. /\ r.hits \in Nat /\ r.dups \in Nat
        /\ seen[s].hits \in Nat /\ seen[s].dups \in Nat
    BY ScanTypes
  <2>2. \/ a.hits = r.hits + 1 /\ a.dups = r.dups
        \/ a.hits = r.hits /\ a.dups = r.dups + 1
        \/ a.hits = r.hits /\ a.dups = r.dups
    BY AttributedIs
  <2>3. seen[s].alone => a.hits = r.hits /\ a.dups = r.dups
    <3>1. seen[s].alone => /\ ~(stats["detected"] > r.before)
                           /\ ~(stats["detected_dup"] > r.beforeDup)
      BY <1>3, ScanTypes
    <3> QED
      BY <3>1, AttributedIs
  <2>4. Covers(r.hits, r.dups, s)
    BY <1>3
  <2> HIDE DEF a, r
  <2>5. Covers(a.hits, a.dups, s)
    BY <2>1, <2>2, <2>3, <2>4 DEF Covers
  <2> QED
    BY <2>5 DEF a
<1>5. Covers(Attributed(s).hits, Attributed(s).dups, s)'
  BY <1>1, <1>4 DEF Covers, SameScan
<1>6. CASE pc'[s] = "next"
  BY <1>1, <1>2, <1>3, <1>5, <1>6 DEF ReportSound, SameScan
<1>7. CASE pc'[s] \in Probing
  BY <1>2, <1>3, <1>7 DEF ReportSound, SameScan, Covers
<1> QED
  BY <1>6, <1>7

\* Somebody else's detection is counted: the scan may claim it as well, but
\* then it was not alone.
LEMMA ReportOthers ==
  ASSUME TypeOK, WorkAddsUp, TalkTypes, TalkTypes', WorkAddsUp',
         NEW s \in Scanners, ReportSound(s),
         pc'[s] = pc[s], report'[s] = report[s], scan'[s] = scan[s],
         seen'[s].hits = seen[s].hits, seen'[s].dups = seen[s].dups,
         ~seen'[s].alone,
         stats["detected"] <= stats'["detected"],
         stats["detected_dup"] <= stats'["detected_dup"]
  PROVE  ReportSound(s)'
<1>0. PICK a, b : a = Attributed(s) /\ b = Attributed(s)'
  OBVIOUS
<1> DEFINE r == report[s]
           ok == Scanned(s)
           hit == stats["detected"] > r.before
           dup == stats["detected_dup"] > r.beforeDup
           hit2 == stats'["detected"] > r.before
           dup2 == stats'["detected_dup"] > r.beforeDup
<1>1. /\ r.before \in Nat /\ r.beforeDup \in Nat
      /\ r.hits \in Nat /\ r.dups \in Nat
      /\ seen[s].hits \in Nat /\ seen[s].dups \in Nat
      /\ stats["detected"] \in Nat /\ stats["detected_dup"] \in Nat
  BY ScanTypes
<1>2. stats'["detected"] \in Nat /\ stats'["detected_dup"] \in Nat
  BY DEF WorkAddsUp, Counter
<1>3. /\ a \in Report
      /\ ok /\ hit => a.hits = r.hits + 1 /\ a.dups = r.dups
      /\ ok /\ ~hit /\ dup => a.hits = r.hits /\ a.dups = r.dups + 1
      /\ ~ok \/ (~hit /\ ~dup) => a = r
  BY <1>0, AttributedIs
<1>4. b = IF ok /\ hit2 THEN [r EXCEPT !.hits = @ + 1]
          ELSE IF ok /\ dup2 THEN [r EXCEPT !.dups = @ + 1]
          ELSE r
  BY <1>0 DEF Attributed, Scanned
<1>5. /\ b \in Report
      /\ ok /\ hit2 => b.hits = r.hits + 1 /\ b.dups = r.dups
      /\ ok /\ ~hit2 /\ dup2 => b.hits = r.hits /\ b.dups = r.dups + 1
      /\ ~ok \/ (~hit2 /\ ~dup2) => b = r
  <2>1. r \in Report /\ ok \in BOOLEAN
    BY DEF TalkTypes, Scanned
  <2> HIDE DEF r, ok
  <2> QED
    BY <1>4, <2>1, AnswerOf
<1>6. (hit => hit2) /\ (dup => dup2)
  BY <1>1, <1>2
<1>7. /\ a.hits \in Nat /\ a.dups \in Nat /\ b.hits \in Nat /\ b.dups \in Nat
  BY <1>3, <1>5 DEF Report
<1> HIDE DEF r, ok, hit, hit2, dup, dup2
<1>8. a.hits <= b.hits /\ a.hits + a.dups <= b.hits + b.dups
  <2>1. CASE ok /\ hit
    <3>1. a.hits = b.hits /\ a.dups = b.dups
      BY <1>3, <1>5, <1>6, <2>1
    <3> QED
      BY <1>7, <3>1
  <2>2. CASE ok /\ ~hit /\ dup
    <3>1. a.hits = r.hits /\ a.dups = r.dups + 1
      BY <1>3, <2>2
    <3>2. \/ b.hits = r.hits + 1 /\ b.dups = r.dups
          \/ b.hits = r.hits /\ b.dups = r.dups + 1
      BY <1>5, <1>6, <2>2
    <3> QED
      BY <1>1, <3>1, <3>2
  <2>3. CASE ~ok \/ (~hit /\ ~dup)
    <3>1. a.hits = r.hits /\ a.dups = r.dups
      BY <1>3, <2>3
    <3>2. \/ b.hits = r.hits + 1 /\ b.dups = r.dups
          \/ b.hits = r.hits /\ b.dups = r.dups + 1
          \/ b.hits = r.hits /\ b.dups = r.dups
      BY <1>5
    <3> QED
      BY <1>1, <3>1, <3>2
  <2> QED
    BY <2>1, <2>2, <2>3
<1>9. pc[s] = "next" => Covers(b.hits, b.dups, s)'
  <2>1. pc[s] = "next" => Covers(a.hits, a.dups, s)
    BY <1>0 DEF ReportSound
  <2> QED
    BY <1>1, <1>7, <1>8, <2>1 DEF Covers
<1>10. pc[s] \in Probing => Covers(report[s].hits, report[s].dups, s)'
  BY DEF ReportSound, Covers
<1>11. /\ report[s].before <= stats'["detected"]
       /\ report[s].beforeDup <= stats'["detected_dup"]
  BY <1>1, <1>2 DEF ReportSound, r
<1> QED
  BY <1>0, <1>9, <1>10, <1>11 DEF ReportSound

\* The types of what a scan talks about.
LEMMA TalkTypesNext ==
  ASSUME TypeOK, TypeOK', WorkAddsUp, TalkTypes, [StatsNext]_<<vars, talk>>
  PROVE  TalkTypes'
<1>0. report \in [Scanners -> Report] /\ seen \in [Scanners -> Seen]
  BY DEF TalkTypes
<1>s. stats["detected"] \in Nat /\ stats["detected_dup"] \in Nat
  BY DEF WorkAddsUp, Counter
<1>n. NoReport \in Report /\ NotSeen \in Seen
  BY DEF NoReport, NotSeen, Report, Seen
<1>1. ASSUME UNCHANGED <<report, seen>> PROVE TalkTypes'
  BY <1>0, <1>1 DEF TalkTypes
<1>2. ASSUME Watch PROVE seen' \in [Scanners -> Seen]
  BY <1>0, <1>2 DEF Watch, Seen
<1>3. ASSUME NEW h \in Handlers,
             \/ CountReceived(h) \/ CountApplied(h)
             \/ CountDuplicate(h) \/ CountFailed(h)
      PROVE  TalkTypes'
  BY <1>0, <1>2, <1>3 DEF CountReceived, CountApplied, CountDuplicate,
                          CountFailed, TalkTypes
<1>4. ASSUME NEW w, NEW what \in {"hits", "dups"}, Witness(w, what)
      PROVE  seen' \in [Scanners -> Seen]
  <2>1. ASSUME NEW s \in Scanners
        PROVE  /\ [seen[s] EXCEPT ![what] = @ + 1] \in Seen
               /\ [seen[s] EXCEPT !.alone = FALSE] \in Seen
    <3>1. seen[s] \in Seen
      BY <1>0
    <3>2. [seen[s] EXCEPT !.alone = FALSE] \in Seen
      BY <3>1 DEF Seen
    <3>3. /\ [seen[s] EXCEPT !.hits = @ + 1] \in Seen
          /\ [seen[s] EXCEPT !.dups = @ + 1] \in Seen
      BY <3>1 DEF Seen
    <3>4. [seen[s] EXCEPT ![what] = @ + 1] \in Seen
      <4>1. CASE what = "hits"
        BY <3>3, <4>1
      <4>2. CASE what = "dups"
        BY <3>3, <4>2
      <4> QED
        BY <4>1, <4>2
    <3> QED
      BY <3>2, <3>4
  <2> QED
    BY <1>4, <2>1 DEF Witness
<1>5. ASSUME NEW w \in Workers,
             CountDetected(w) \/ CountDetectedDup(w) \/ DetectionFails(w)
      PROVE  TalkTypes'
  <2>1. CASE CountDetected(w) \/ CountDetectedDup(w)
    BY <1>0, <1>4, <2>1 DEF CountDetected, CountDetectedDup, TalkTypes
  <2>2. CASE DetectionFails(w)
    <3>1. \A s \in Scanners : [report[s] EXCEPT !.ok = FALSE] \in Report
      BY <1>0 DEF Report
    <3> QED
      BY <1>0, <2>2, <3>1 DEF DetectionFails, TalkTypes
  <2> QED
    BY <1>5, <2>1, <2>2
<1>6. ASSUME NEW s \in Scanners, BeginReport(s) PROVE TalkTypes'
  <2>1. [NotSeen EXCEPT !.steady = Tripping] \in Seen
    BY DEF NotSeen, Seen, Tripping
  <2> QED
    BY <1>0, <1>n, <1>6, <2>1 DEF BeginReport, TalkTypes
<1>7. ASSUME NEW s \in Scanners, ReportPair(s) PROVE TalkTypes'
  <2>1. Attributed(s) \in Report
    BY AttributedIs
  <2>2. BeforePair(s) \in Report
    BY <1>s, <2>1 DEF BeforePair, Report
  <2> QED
    BY <1>0, <1>7, <2>2 DEF ReportPair, TalkTypes
<1>8. ASSUME NEW s \in Scanners, AnswerReport(s) PROVE TalkTypes'
  BY <1>0, <1>n, <1>8 DEF AnswerReport, TalkTypes
<1>9. ASSUME Restart PROVE TalkTypes'
  BY <1>n, <1>9 DEF Restart, TalkTypes
<1>10. ASSUME Uncounted PROVE TalkTypes'
  BY <1>1, <1>10 DEF Uncounted, talk
<1>11. CASE UNCHANGED <<vars, talk>>
  BY <1>1, <1>11 DEF talk
<1> QED
  BY <1>3, <1>5, <1>6, <1>7, <1>8, <1>9, <1>10, <1>11 DEF StatsNext

\* The scan counts a detection of its own.
LEMMA ReportOwn ==
  ASSUME TypeOK, WorkAddsUp, TalkTypes, NEW s \in Scanners, ReportSound(s),
         \/ CountDetected(s)
         \/ CountDetectedDup(s)
  PROVE  ReportSound(s)'
<1> DEFINE r == report[s]
<1>0. /\ s \in Workers /\ s \notin Handlers
      /\ pc \in [Workers -> HandlerPC \cup ScannerPC]
      /\ seen \in [Scanners -> Seen]
      /\ r \in Report
      /\ stats \in [Counter -> Nat]
  BY WorkersAssumption
     DEF Workers, TypeOK, LocalTypeOK, TalkTypes, WorkAddsUp
<1>1. /\ pc[s] \in Probing /\ pc'[s] = "next"
      /\ report' = report /\ scan' = scan
  BY <1>0 DEF CountDetected, CountDetectedDup, PublishAnomaly, DetectedDup,
              Done, Probing
<1>2. /\ r.before \in Nat /\ r.beforeDup \in Nat
      /\ r.hits \in Nat /\ r.dups \in Nat
      /\ seen[s].hits \in Nat /\ seen[s].dups \in Nat
      /\ stats["detected"] \in Nat /\ stats["detected_dup"] \in Nat
      /\ scan[s].pos \in Nat
  BY ScanTypes
<1>3. /\ r.before <= stats["detected"]
      /\ r.beforeDup <= stats["detected_dup"]
      /\ r.ok = TRUE /\ scan[s].pos > 0
      /\ r.hits + r.dups <= scan[s].pos - 1
      /\ Covers(r.hits, r.dups, s)
      /\ seen[s].alone => /\ r.before = stats["detected"]
                          /\ r.beforeDup = stats["detected_dup"]
  BY <1>0, <1>1 DEF ReportSound, Report
<1>4. PICK b : b = Attributed(s)'
  OBVIOUS
<1>5. b = IF Scanned(s) /\ stats'["detected"] > r.before
            THEN [r EXCEPT !.hits = @ + 1]
          ELSE IF Scanned(s) /\ stats'["detected_dup"] > r.beforeDup
            THEN [r EXCEPT !.dups = @ + 1]
          ELSE r
  BY <1>1, <1>4 DEF Attributed, Scanned
<1>6. Scanned(s) = TRUE
  BY <1>3 DEF Scanned
<1> HIDE DEF r
<1>7. CASE CountDetected(s)
  <2>1. /\ stats'["detected"] = stats["detected"] + 1
        /\ stats'["detected_dup"] = stats["detected_dup"]
    BY <1>0, <1>7, Counted DEF CountDetected, Counter
  <2>2. /\ seen'[s].hits = seen[s].hits + 1 /\ seen'[s].dups = seen[s].dups
        /\ seen'[s].alone = seen[s].alone
    BY <1>0, <1>7 DEF CountDetected, Witness, Seen
  <2>3. stats'["detected"] > r.before
    BY <1>2, <1>3, <2>1
  <2>4. b.hits = r.hits + 1 /\ b.dups = r.dups
    BY <1>0, <1>5, <1>6, <2>3 DEF Report
  <2>5. Covers(b.hits, b.dups, s)'
    BY <1>2, <1>3, <2>2, <2>4 DEF Covers
  <2>6. /\ r.before <= stats'["detected"]
        /\ r.beforeDup <= stats'["detected_dup"]
    BY <1>2, <1>3, <2>1
  <2>7. r.hits + r.dups <= IF scan[s].pos = 0 THEN 0 ELSE scan[s].pos - 1
    BY <1>2, <1>3
  <2> QED
    BY <1>1, <1>4, <2>5, <2>6, <2>7 DEF ReportSound, Probing, r
<1>8. CASE CountDetectedDup(s)
  <2>1. /\ stats'["detected"] = stats["detected"]
        /\ stats'["detected_dup"] = stats["detected_dup"] + 1
    BY <1>0, <1>8, Counted DEF CountDetectedDup, Counter
  <2>2. /\ seen'[s].hits = seen[s].hits /\ seen'[s].dups = seen[s].dups + 1
        /\ seen'[s].alone = seen[s].alone
    BY <1>0, <1>8 DEF CountDetectedDup, Witness, Seen
  <2>3. stats'["detected_dup"] > r.beforeDup
    BY <1>2, <1>3, <2>1
  <2>4. \/ /\ b.hits = r.hits + 1 /\ b.dups = r.dups
           /\ stats'["detected"] > r.before
        \/ b.hits = r.hits /\ b.dups = r.dups + 1
    BY <1>0, <1>5, <1>6, <2>3 DEF Report
  <2>5. seen[s].alone => ~(stats'["detected"] > r.before)
    BY <1>2, <1>3, <2>1
  <2>6. Covers(b.hits, b.dups, s)'
    BY <1>2, <1>3, <2>2, <2>4, <2>5 DEF Covers
  <2>7. /\ r.before <= stats'["detected"]
        /\ r.beforeDup <= stats'["detected_dup"]
    BY <1>2, <1>3, <2>1
  <2>8. r.hits + r.dups <= IF scan[s].pos = 0 THEN 0 ELSE scan[s].pos - 1
    BY <1>2, <1>3
  <2> QED
    BY <1>1, <1>4, <2>6, <2>7, <2>8 DEF ReportSound, Probing, r
<1> QED
  BY <1>7, <1>8

\* No step makes a scan's answer leave out what the scan did.
LEMMA ReportNext ==
  ASSUME TypeOK, WorkAddsUp, ReportInv, TalkTypes', WorkAddsUp',
         [StatsNext]_<<vars, talk>>, NEW s \in Scanners
  PROVE  ReportSound(s)'
<1>0. /\ pc \in [Workers -> HandlerPC \cup ScannerPC]
      /\ s \in Workers /\ s \notin Handlers
      /\ \A h \in Handlers : h \in Workers /\ h # s
      /\ TalkTypes /\ ReportSound(s)
      /\ report \in [Scanners -> Report]
      /\ seen \in [Scanners -> Seen] /\ seen' \in [Scanners -> Seen]
      /\ stats \in [Counter -> Nat]
  BY WorkersAssumption
     DEF TypeOK, LocalTypeOK, Workers, ReportInv, TalkTypes, WorkAddsUp
<1>1. ASSUME UNCHANGED <<scan, talk>>, pc'[s] = pc[s] PROVE ReportSound(s)'
  BY <1>0, <1>1, ReportFrame DEF talk, SameScan
<1>2. ASSUME Uncounted PROVE ReportSound(s)'
  <2>0. UNCHANGED talk
    BY <1>2 DEF Uncounted
  <2>1. ASSUME NEW e \in Events, Publish(e) PROVE ReportSound(s)'
    BY <1>1, <2>0, <2>1 DEF Publish, locals
  <2>2. ASSUME NEW h \in Handlers,
               \/ MarkProcessed(h) \/ ReadRollup(h) \/ RetryRollup(h)
               \/ Respond(h) \/ Redeliver(h)
        PROVE  ReportSound(s)'
    <3>1. pc'[s] = pc[s] /\ scan' = scan
      BY <1>0, <2>2 DEF MarkProcessed, ReadRollup, RetryRollup, Respond,
                        Redeliver
    <3> QED
      BY <1>1, <2>0, <3>1
  <2>3. ASSUME NEW w \in Workers,
               FetchCurrent(w) \/ FetchPrior(w) \/ RunDetect(w) \/ SaveMarker(w)
        PROVE  ReportSound(s)'
    <3>1. scan' = scan
      BY <2>3 DEF FetchCurrent, FetchPrior, RunDetect, SaveMarker
    <3>2. CASE w # s
      <4>1. pc'[s] = pc[s]
        BY <1>0, <2>3, <3>2 DEF FetchCurrent, FetchPrior, RunDetect,
                                SaveMarker
      <4> QED
        BY <1>1, <2>0, <3>1, <4>1
    <3>3. CASE w = s
      <4>1. pc[s] \in Probing /\ pc'[s] \in Probing \cup {"next"}
        BY <1>0, <2>3, <3>3 DEF FetchCurrent, FetchPrior, RunDetect,
                                SaveMarker, Probing, Done
      <4> QED
        BY <1>0, <2>0, <3>1, <4>1, ReportWalks DEF SameScan, talk
    <3> QED
      BY <3>2, <3>3
  <2> QED
    BY <1>2, <2>1, <2>2, <2>3 DEF Uncounted
<1>3. ASSUME NEW h \in Handlers,
             \/ CountReceived(h) \/ CountApplied(h)
             \/ CountDuplicate(h) \/ CountFailed(h)
      PROVE  ReportSound(s)'
  <2>1. pc'[s] = pc[s] /\ scan' = scan /\ report' = report
    BY <1>0, <1>3
       DEF CountReceived, CountApplied, CountDuplicate, CountFailed,
           UpdateFails, locals, Deliver, DropMalformed, CommitRollup,
           SkipDuplicate, MarkProcessedFails, ReadRollupFails,
           WriteRollupFails, ExhaustRollup
  <2>2. \E c \in {{"received"}, {"received", "bad_env"}, {"applied"},
                  {"duplicate"}, {"failed"}} : Count(c)
    BY <1>3 DEF CountReceived, CountApplied, CountDuplicate, CountFailed
  <2>3. /\ stats'["detected"] = stats["detected"]
        /\ stats'["detected_dup"] = stats["detected_dup"]
    BY <1>0, <2>2, Counted DEF Counter
  <2>4. seen' = seen \/ Watch
    BY <1>3 DEF CountReceived, CountApplied, CountDuplicate, CountFailed
  <2>5. /\ seen'[s].hits = seen[s].hits /\ seen'[s].dups = seen[s].dups
        /\ seen'[s].alone = seen[s].alone
    BY <1>0, <2>4 DEF Watch, Seen
  <2> QED
    BY <1>0, <2>1, <2>3, <2>5, ReportFrame DEF SameScan
<1>4. ASSUME NEW w \in Workers, CountDetected(w) \/ CountDetectedDup(w)
      PROVE  ReportSound(s)'
  <2>1. CASE w = s
    BY <1>0, <1>4, <2>1, ReportOwn
  <2>2. CASE w # s
    <3>1. pc'[s] = pc[s] /\ scan' = scan /\ report' = report
      BY <1>0, <1>4, <2>2 DEF CountDetected, CountDetectedDup,
                              PublishAnomaly, DetectedDup
    <3>2. \E what \in {"hits", "dups"} : Witness(w, what)
      BY <1>4 DEF CountDetected, CountDetectedDup
    <3>3. /\ seen'[s].hits = seen[s].hits /\ seen'[s].dups = seen[s].dups
          /\ seen'[s].alone = FALSE
      BY <1>0, <2>2, <3>2 DEF Witness, Seen
    <3>4. Count({"detected"}) \/ Count({"detected_dup"})
      BY <1>4 DEF CountDetected, CountDetectedDup
    <3>5. /\ stats["detected"] <= stats'["detected"]
          /\ stats["detected_dup"] <= stats'["detected_dup"]
      BY <1>0, <3>4, Counted DEF Counter
    <3> QED
      BY <1>0, <3>1, <3>3, <3>5, ReportOthers
  <2> QED
    BY <2>1, <2>2
<1>5. ASSUME NEW w \in Workers, DetectionFails(w) PROVE ReportSound(s)'
  <2>1. scan' = scan /\ stats' = stats /\ seen' = seen
    BY <1>5 DEF DetectionFails, FetchFails, SaveMarkerFails,
                PublishAnomalyFails
  <2>2. CASE w # s
    <3>1. pc'[s] = pc[s] /\ report'[s] = report[s]
      BY <1>0, <1>5, <2>2 DEF DetectionFails, FetchFails, SaveMarkerFails,
                              PublishAnomalyFails
    <3> QED
      BY <1>0, <2>1, <3>1, ReportFrame DEF SameScan
  <2>3. CASE w = s
    <3>1. /\ pc[s] \in Probing /\ pc'[s] = "next"
          /\ report'[s] = [report[s] EXCEPT !.ok = FALSE]
      BY <1>0, <1>5, <2>3 DEF DetectionFails, FetchFails, SaveMarkerFails,
                              PublishAnomalyFails, Probing, Done
    <3>2. /\ report'[s].ok = FALSE
          /\ report'[s].before = report[s].before
          /\ report'[s].beforeDup = report[s].beforeDup
          /\ report'[s].hits = report[s].hits
          /\ report'[s].dups = report[s].dups
      BY <1>0, <3>1 DEF Report
    <3>3. Attributed(s)' = report'[s]
      BY <3>2 DEF Attributed
    <3>4. /\ report[s].before <= stats["detected"]
          /\ report[s].beforeDup <= stats["detected_dup"]
          /\ scan[s].pos > 0
          /\ report[s].hits + report[s].dups <= scan[s].pos - 1
          /\ Covers(report[s].hits, report[s].dups, s)
      BY <1>0, <3>1 DEF ReportSound
    <3>5. Covers(report[s].hits, report[s].dups, s)'
      BY <2>1, <3>2, <3>4 DEF Covers
    <3>6. report[s].hits + report[s].dups
            <= IF scan[s].pos = 0 THEN 0 ELSE scan[s].pos - 1
      BY <3>4
    <3> QED
      BY <2>1, <3>1, <3>2, <3>3, <3>4, <3>5, <3>6 DEF ReportSound, Probing
  <2> QED
    BY <2>2, <2>3
<1>6. ASSUME NEW r \in Scanners, r # s,
             BeginReport(r) \/ ReportPair(r) \/ AnswerReport(r)
      PROVE  ReportSound(s)'
  <2>1. /\ pc'[s] = pc[s] /\ scan'[s] = scan[s] /\ stats' = stats
        /\ report'[s] = report[s] /\ seen'[s] = seen[s]
    BY <1>0, <1>6 DEF BeginReport, ReportPair, AnswerReport, StartScan,
                      NextPair, EndScan, TypeOK, LocalTypeOK
  <2> QED
    BY <1>0, <2>1, ReportFrame DEF SameScan
<1>7. ASSUME BeginReport(s) PROVE ReportSound(s)'
  <2>1. /\ pc'[s] = "next" /\ scan'[s].pos = 0 /\ stats' = stats
        /\ report'[s] = NoReport
        /\ seen'[s] = [NotSeen EXCEPT !.steady = Tripping]
    BY <1>0, <1>7 DEF BeginReport, StartScan, TypeOK, LocalTypeOK
  <2>2. Attributed(s)' = NoReport
    BY <2>1 DEF Attributed
  <2>3. stats["detected"] \in Nat /\ stats["detected_dup"] \in Nat
    BY <1>0 DEF Counter
  <2> QED
    BY <2>1, <2>2, <2>3 DEF ReportSound, Covers, NoReport, NotSeen, Probing
<1>8. ASSUME ReportPair(s) PROVE ReportSound(s)'
  <2> DEFINE a == Attributed(s)
             b == BeforePair(s)
  <2>1. /\ pc[s] = "next" /\ pc'[s] = "current"
        /\ scan'[s].pos = scan[s].pos + 1
        /\ stats' = stats /\ seen' = seen /\ report'[s] = b
    BY <1>0, <1>8 DEF ReportPair, NextPair, TypeOK, LocalTypeOK, Scan
  <2>2. a \in Report
    BY <1>0, AttributedIs
  <2> HIDE DEF a
  <2>3. b = [a EXCEPT !.before = stats["detected"],
                      !.beforeDup = stats["detected_dup"], !.ok = TRUE]
    BY DEF BeforePair, a
  <2>4. /\ b.hits = a.hits /\ b.dups = a.dups /\ b.ok
        /\ b.before = stats["detected"]
        /\ b.beforeDup = stats["detected_dup"]
    BY <2>2, <2>3 DEF Report
  <2> HIDE DEF b
  <2>5. /\ report[s].hits \in Nat /\ report[s].dups \in Nat
        /\ scan[s].pos \in Nat
        /\ stats["detected"] \in Nat /\ stats["detected_dup"] \in Nat
    BY <1>0, ScanTypes
  <2>6. /\ report[s].hits + report[s].dups
             <= IF scan[s].pos = 0 THEN 0 ELSE scan[s].pos - 1
        /\ Covers(a.hits, a.dups, s)
    BY <1>0, <2>1 DEF ReportSound, a
  <2>7. \/ scan[s].pos = 0 /\ a = report[s]
        \/ /\ scan[s].pos > 0
           /\ \/ a.hits = report[s].hits + 1 /\ a.dups = report[s].dups
              \/ a.hits = report[s].hits /\ a.dups = report[s].dups + 1
              \/ a.hits = report[s].hits /\ a.dups = report[s].dups
    <3>1. CASE scan[s].pos = 0
      BY <1>0, <3>1, AttributedIs DEF Scanned, a
    <3>2. CASE scan[s].pos # 0
      BY <1>0, <2>5, <3>2, AttributedIs DEF a
    <3> QED
      BY <3>1, <3>2
  <2>8. a.hits + a.dups <= scan[s].pos
    BY <2>5, <2>6, <2>7
  <2>9. b.hits + b.dups <= scan'[s].pos - 1 /\ scan'[s].pos > 0
    BY <2>1, <2>4, <2>5, <2>8
  <2>10. Covers(report[s].hits, report[s].dups, s)'
    BY <2>1, <2>4, <2>6 DEF Covers
  <2>11. stats["detected"] <= stats["detected"]
         /\ stats["detected_dup"] <= stats["detected_dup"]
    BY <2>5
  <2> QED
    BY <2>1, <2>4, <2>9, <2>10, <2>11 DEF ReportSound
<1>9. ASSUME AnswerReport(s) PROVE ReportSound(s)'
  <2>1. pc'[s] = "idle" /\ stats' = stats /\ report'[s] = NoReport
    BY <1>0, <1>9 DEF AnswerReport, EndScan
  <2>2. stats["detected"] \in Nat /\ stats["detected_dup"] \in Nat
    BY <1>0 DEF Counter
  <2> QED
    BY <2>1, <2>2 DEF ReportSound, NoReport, Probing
<1>10. ASSUME Restart PROVE ReportSound(s)'
  <2>1. pc'[s] = "idle" /\ stats' = NoStats /\ report'[s] = NoReport
    BY <1>0, <1>10 DEF Restart, Crash
  <2> QED
    BY <2>1 DEF ReportSound, NoReport, NoStats, Counter, Probing
<1>11. CASE UNCHANGED <<vars, talk>>
  BY <1>1, <1>11 DEF vars, locals
<1> QED
  BY <1>2, <1>3, <1>4, <1>5, <1>6, <1>7, <1>8, <1>9, <1>10, <1>11
     DEF StatsNext

LEMMA ReportInit == StatsInit => ReportInv
<1> SUFFICES ASSUME StatsInit PROVE ReportInv
  OBVIOUS
<1>1. NoReport \in Report /\ NotSeen \in Seen
  BY DEF NoReport, NotSeen, Report, Seen
<1>2. TalkTypes
  BY <1>1 DEF StatsInit, TalkTypes
<1>3. ASSUME NEW s \in Scanners PROVE ReportSound(s)
  BY DEF StatsInit, Init, ReportSound, NoReport, NoStats, Counter, Probing,
         Workers
<1> QED
  BY <1>2, <1>3 DEF ReportInv

\* What the invariant says of a scan that is about to answer.
LEMMA ReportSays ==
  ASSUME TypeOK, WorkAddsUp, ReportInv
  PROVE  ScanReportsItsWork
<1>1. SUFFICES ASSUME NEW s \in Scanners, AtEnd(s)
               PROVE  /\ Covers(Attributed(s).hits, Attributed(s).dups, s)
                      /\ Attributed(s).hits + Attributed(s).dups <= Len(Grid)
  BY DEF ScanReportsItsWork, Covers
<1> DEFINE a == Attributed(s)
<1>2. /\ report[s].hits \in Nat /\ report[s].dups \in Nat
      /\ scan[s].pos \in Nat /\ scan[s].pos = Len(Grid)
  BY <1>1, ScanTypes DEF ReportInv, AtEnd
<1>3. /\ Covers(a.hits, a.dups, s)
      /\ report[s].hits + report[s].dups
           <= IF scan[s].pos = 0 THEN 0 ELSE scan[s].pos - 1
  BY <1>1 DEF ReportInv, ReportSound, AtEnd
<1>4. \/ scan[s].pos = 0 /\ a = report[s]
      \/ /\ scan[s].pos > 0
         /\ \/ a.hits = report[s].hits + 1 /\ a.dups = report[s].dups
            \/ a.hits = report[s].hits /\ a.dups = report[s].dups + 1
            \/ a.hits = report[s].hits /\ a.dups = report[s].dups
  <2>1. CASE scan[s].pos = 0
    BY <2>1, AttributedIs DEF ReportInv, Scanned
  <2>2. CASE scan[s].pos # 0
    BY <1>2, <2>2, AttributedIs DEF ReportInv
  <2> QED
    BY <2>1, <2>2
<1> HIDE DEF a
<1>5. a.hits + a.dups <= Len(Grid)
  BY <1>2, <1>3, <1>4
<1> QED
  BY <1>3, <1>5 DEF a

\* main.go:203-219: for every grid, however many scans and subscribers
\* change the two counters it reads, the answer of POST /detect leaves out
\* nothing the scan did and is exact if nobody else detected anything.
THEOREM ScansReportTheirWork == StatsSpec => []ScanReportsItsWork
<1>1. TypeOK /\ TypeOK' /\ WorkAddsUp /\ ReportInv
        /\ [StatsNext]_<<vars, talk>> => (WorkAddsUp /\ ReportInv)'
  <2> SUFFICES ASSUME TypeOK, TypeOK', WorkAddsUp, ReportInv,
                      [StatsNext]_<<vars, talk>>
               PROVE  WorkAddsUp' /\ ReportInv'
    OBVIOUS
  <2>1. WorkAddsUp'
    BY WorkNext
  <2>2. TalkTypes'
    BY TalkTypesNext DEF ReportInv
  <2>3. \A s \in Scanners : ReportSound(s)'
    BY <2>1, <2>2, ReportNext
  <2> QED
    BY <2>1, <2>2, <2>3 DEF ReportInv
<1>2. TypeOK /\ WorkAddsUp /\ ReportInv => ScanReportsItsWork
  BY ReportSays
<1>3. StatsInit => WorkAddsUp /\ ReportInv
  BY WorkInit, ReportInit
<1> QED
  BY StatsInvariants, <1>1, <1>2, <1>3, PTL DEF StatsSpec

-----------------------------------------------------------------------------
(***************************************************************************)
(* A scan catches up with what the subscribers missed                      *)
(***************************************************************************)
Handled(k) ==
  \/ announced[k] = 1
  \/ \E w \in Workers : pc[w] = "publish" /\ probe[w].key = k

\* The scanner is at row k and what it has read of it puts it over the
\* threshold, if it has read anything.
Looks(s, k) ==
  \/ pc[s] \in {"current", "marker", "publish"}
  \/ /\ pc[s] = "prior"
     /\ Detect(probe[s].current, History(rollup, k))
     /\ probe[s].history = HistoryTo(rollup, k, probe[s].n - 1)

SteadyTrips ==
  \A s \in Scanners : \A k \in seen[s].steady : k \in Key /\ Trips(rollup, k)

OnPair ==
  \A s \in Scanners : pc[s] \in Probing =>
    /\ scan[s].pos \in 1..Len(Grid)
    /\ probe[s].key = <<scan[s].day, Grid[scan[s].pos]>>

\* The pairs before the one the scanner is at are dealt with.
CaughtUp(s) ==
  pc[s] # "idle" =>
    \A k \in seen[s].steady, i \in 1..scan[s].pos :
      k[1] = scan[s].day /\ Grid[i] = k[2] =>
        IF pc[s] \in Probing /\ i = scan[s].pos THEN Looks(s, k) ELSE Handled(k)

CatchInv ==
  SteadyTrips /\ OnPair /\ (faults = 0 => \A s \in Scanners : CaughtUp(s))

\* Without a fault, a worker that is about to publish does.
LEMMA PublisherStays ==
  ASSUME TypeOK, [Next]_vars, ~Fault, NEW w \in Workers, pc[w] = "publish"
  PROVE  \/ pc'[w] = "publish" /\ probe'[w] = probe[w]
         \/ announced' = [announced EXCEPT ![probe[w].key] = @ + 1]
<1>0. /\ pc \in [Workers -> HandlerPC \cup ScannerPC]
      /\ probe \in [Workers -> Probe]
      /\ \A h \in Handlers : h \in Workers
      /\ \A s \in Scanners : s \in Workers
  BY DEF TypeOK, LocalTypeOK, Workers
<1>1. ASSUME NEW e \in Events, Publish(e)
      PROVE  pc'[w] = "publish" /\ probe'[w] = probe[w]
  BY <1>1 DEF Publish, locals
<1>2. ASSUME NEW h \in Handlers, Receive(h)
      PROVE  pc'[w] = "publish" /\ probe'[w] = probe[w]
  BY <1>0, <1>2 DEF Receive, Deliver, DropMalformed, locals
<1>3. ASSUME NEW h \in Handlers, Apply(h)
      PROVE  pc'[w] = "publish" /\ probe'[w] = probe[w]
  <2>1. pc[h] # "publish"
    BY <1>3 DEF Apply, MarkProcessed, SkipDuplicate, ReadRollup, CommitRollup,
                RetryRollup, ExhaustRollup, Respond, Answers
  <2>2. pc'[w] = pc[w] /\ probe'[w] = probe[w]
    BY <1>0, <1>3, <2>1
       DEF Apply, MarkProcessed, SkipDuplicate, ReadRollup, CommitRollup,
           RetryRollup, ExhaustRollup, Respond
  <2> QED
    BY <2>2
<1>4. ASSUME NEW v \in Workers, RunDetection(v), ~PublishAnomaly(v)
      PROVE  pc'[w] = "publish" /\ probe'[w] = probe[w]
  <2>1. v # w
    BY <1>4 DEF RunDetection, FetchCurrent, FetchPrior, RunDetect,
                SaveMarker, DetectedDup
  <2>2. pc'[w] = pc[w] /\ probe'[w] = probe[w]
    BY <1>0, <1>4, <2>1 DEF RunDetection, FetchCurrent, FetchPrior,
                            RunDetect, SaveMarker, DetectedDup
  <2> QED
    BY <2>2
<1>5. ASSUME NEW v \in Workers, PublishAnomaly(v)
      PROVE  \/ pc'[w] = "publish" /\ probe'[w] = probe[w]
             \/ announced' = [announced EXCEPT ![probe[w].key] = @ + 1]
  <2>1. CASE v = w
    BY <1>5, <2>1 DEF PublishAnomaly
  <2>2. CASE v # w
    BY <1>0, <1>5, <2>2 DEF PublishAnomaly
  <2> QED
    BY <2>1, <2>2
<1>6. ASSUME NEW s \in Scanners,
             ScanStep(s) \/ \E d \in Days : StartScan(s, d)
      PROVE  pc'[w] = "publish" /\ probe'[w] = probe[w]
  <2>1. pc[s] # "publish"
    BY <1>6 DEF ScanStep, NextPair, EndScan, StartScan
  <2>2. pc'[w] = pc[w] /\ probe'[w] = probe[w]
    BY <1>0, <1>6, <2>1 DEF ScanStep, NextPair, EndScan, StartScan
  <2> QED
    BY <2>2
<1>7. ~Disturb
  BY DEF Disturb, Crash, Redeliver, MarkProcessedFails, ReadRollupFails,
         WriteRollupFails, FetchFails, SaveMarkerFails, PublishAnomalyFails
<1>8. CASE UNCHANGED vars
  BY <1>8 DEF vars, locals
<1> QED
  BY <1>1, <1>2, <1>3, <1>4, <1>5, <1>6, <1>7, <1>8 DEF Next

LEMMA HandledStays ==
  ASSUME TypeOK, AnnounceInv, [Next]_vars, ~Fault, NEW k \in Key, Handled(k)
  PROVE  Handled(k)'
<1>1. announced \in [Key -> Nat]
  BY DEF TypeOK, DataTypeOK
<1>2. \/ announced' = announced
      \/ \E w \in Workers :
           /\ pc[w] = "publish"
           /\ announced' = [announced EXCEPT ![probe[w].key] = @ + 1]
  BY WhoChangesWhat
<1>3. \A w \in Workers : pc[w] = "publish" =>
        probe[w].key \in Key /\ announced[probe[w].key] = 0
  BY DEF TypeOK, LocalTypeOK, Probing, AnnounceInv, PublisherIsAlone
<1>4. CASE announced[k] = 1
  <2>1. announced'[k] = 1
    BY <1>1, <1>2, <1>3, <1>4
  <2> QED
    BY <2>1 DEF Handled
<1>5. ASSUME NEW w \in Workers, pc[w] = "publish", probe[w].key = k
      PROVE  Handled(k)'
  <2>1. CASE pc'[w] = "publish" /\ probe'[w] = probe[w]
    BY <1>5, <2>1 DEF Handled
  <2>2. CASE announced' = [announced EXCEPT ![k] = @ + 1]
    <3>1. announced'[k] = 1
      BY <1>1, <1>3, <1>5, <2>2
    <3> QED
      BY <3>1 DEF Handled
  <2> QED
    BY <1>5, <2>1, <2>2, PublisherStays
<1> QED
  BY <1>4, <1>5 DEF Handled

\* Two stores with the same history of a row agree on each part of it.
LEMMA HistoryPrefix ==
  ASSUME NEW k, NEW l \in 0..BaselineDays,
         History(rollup', k) = History(rollup, k)
  PROVE  HistoryTo(rollup', k, l) = HistoryTo(rollup, k, l)
<1> DEFINE P(m) == Present(rollup, Prior(k, m))
           Q(m) == Present(rollup', Prior(k, m))
           R(m) == rollup[Prior(k, m)].merged
           S(m) == rollup'[Prior(k, m)].merged
           D == {m \in 1..BaselineDays : P(m)}
           E == {m \in 1..BaselineDays : Q(m)}
<1>1. [m \in E |-> S(m)] = [m \in D |-> R(m)]
  BY DEF History, HistoryTo
<1>2. HistoryTo(rollup', k, l) = [m \in {n \in 1..l : Q(n)} |-> S(m)]
      /\ HistoryTo(rollup, k, l) = [m \in {n \in 1..l : P(n)} |-> R(m)]
  BY DEF HistoryTo
<1> HIDE DEF P, Q, R, S
<1>3. D = E
  <2>1. DOMAIN [m \in E |-> S(m)] = E /\ DOMAIN [m \in D |-> R(m)] = D
    OBVIOUS
  <2> QED
    BY <1>1, <2>1
<1>4. \A m \in D : S(m) = R(m)
  <2> HIDE DEF D, E
  <2>1. ASSUME NEW m \in D PROVE S(m) = R(m)
    <3>1. [n \in E |-> S(n)][m] = S(m)
      BY <1>3
    <3>2. [n \in D |-> R(n)][m] = R(m)
      OBVIOUS
    <3> QED
      BY <1>1, <3>1, <3>2
  <2> QED
    BY <2>1
<1>5. \A m \in 1..l : m \in 1..BaselineDays
  BY BoundsAssumption
<1>6. \A m \in 1..l : (P(m) <=> Q(m)) /\ (P(m) => S(m) = R(m))
  BY <1>3, <1>4, <1>5
<1>7. [m \in {n \in 1..l : Q(n)} |-> S(m)] = [m \in {n \in 1..l : P(n)} |-> R(m)]
  BY <1>6
<1> QED
  BY <1>2, <1>7

\* Which steps write to the rows.
LEMMA WhoWrites ==
  ASSUME [StatsNext]_<<vars, talk>>
  PROVE  \/ UNCHANGED rollup
         \/ Watch /\ \E h \in Handlers : CountApplied(h) \/ CountFailed(h)
<1>1. ASSUME Uncounted PROVE UNCHANGED rollup
  BY <1>1 DEF Uncounted, store, Publish, MarkProcessed, ReadRollup,
              RetryRollup, Respond, Redeliver, FetchCurrent, FetchPrior,
              RunDetect, SaveMarker
<1>2. ASSUME NEW h \in Handlers, CountReceived(h) \/ CountDuplicate(h)
      PROVE  UNCHANGED rollup
  BY <1>2 DEF CountReceived, CountDuplicate, store, Deliver, DropMalformed,
              SkipDuplicate
<1>3. ASSUME NEW h \in Handlers, CountApplied(h) \/ CountFailed(h)
      PROVE  Watch
  BY <1>3 DEF CountApplied, CountFailed
<1>4. ASSUME NEW w \in Workers,
             CountDetected(w) \/ CountDetectedDup(w) \/ DetectionFails(w)
      PROVE  UNCHANGED rollup
  BY <1>4 DEF CountDetected, CountDetectedDup, DetectionFails, store,
              PublishAnomaly, DetectedDup, FetchFails, SaveMarkerFails,
              PublishAnomalyFails
<1>5. ASSUME NEW s \in Scanners,
             BeginReport(s) \/ ReportPair(s) \/ AnswerReport(s)
      PROVE  UNCHANGED rollup
  BY <1>5 DEF BeginReport, ReportPair, AnswerReport, store, StartScan,
              NextPair, EndScan
<1>6. ASSUME Restart PROVE UNCHANGED rollup
  BY <1>6 DEF Restart, Crash, store
<1>7. CASE UNCHANGED <<vars, talk>>
  BY <1>7 DEF vars, store
<1> QED
  BY <1>1, <1>2, <1>3, <1>4, <1>5, <1>6, <1>7 DEF StatsNext

\* What may happen to the rows a scan relies on: it begins with those that
\* are over their threshold, and then they only get fewer.
LEMMA SteadyStep ==
  ASSUME TalkTypes, [StatsNext]_<<vars, talk>>, NEW s \in Scanners
  PROVE  \/ /\ seen'[s].steady \subseteq seen[s].steady
            /\ UNCHANGED rollup
         \/ /\ seen'[s].steady \subseteq seen[s].steady
            /\ \A k \in seen'[s].steady :
                 /\ Trips(rollup', k)
                 /\ History(rollup', k) = History(rollup, k)
         \/ /\ seen'[s].steady = Tripping
            /\ UNCHANGED rollup
            /\ BeginReport(s)
<1>0. seen \in [Scanners -> Seen]
  BY DEF TalkTypes
<1>1. ASSUME Watch
      PROVE  /\ seen'[s].steady \subseteq seen[s].steady
             /\ \A k \in seen'[s].steady :
                  /\ Trips(rollup', k)
                  /\ History(rollup', k) = History(rollup, k)
  <2> DEFINE F(k) == /\ Trips(rollup', k)
                     /\ History(rollup', k) = History(rollup, k)
  <2>1. seen'[s] = [seen[s] EXCEPT !.steady = {k \in seen[s].steady : F(k)}]
    BY <1>1 DEF Watch
  <2> HIDE DEF F
  <2>2. seen'[s].steady = {k \in seen[s].steady : F(k)}
    BY <1>0, <2>1 DEF Seen
  <2> QED
    BY <2>2 DEF F
<1>2. ASSUME UNCHANGED seen
      PROVE  seen'[s].steady \subseteq seen[s].steady
  BY <1>2
<1>3. ASSUME NEW w \in Workers, CountDetected(w) \/ CountDetectedDup(w)
      PROVE  seen'[s].steady \subseteq seen[s].steady
  <2>1. \E what \in {"hits", "dups"} : Witness(w, what)
    BY <1>3 DEF CountDetected, CountDetectedDup
  <2> QED
    BY <1>0, <2>1 DEF Witness, Seen
<1>4. ASSUME NEW r \in Scanners, BeginReport(r)
      PROVE  \/ seen'[s].steady \subseteq seen[s].steady
             \/ r = s /\ seen'[s].steady = Tripping
  BY <1>0, <1>4 DEF BeginReport, NotSeen
<1>5. ASSUME (\E r \in Scanners : AnswerReport(r)) \/ Restart
      PROVE  seen'[s].steady \subseteq seen[s].steady
  BY <1>0, <1>5 DEF AnswerReport, Restart, NotSeen
<1>6. \/ UNCHANGED seen \/ Watch
      \/ \E w \in Workers : CountDetected(w) \/ CountDetectedDup(w)
      \/ \E r \in Scanners : BeginReport(r) \/ AnswerReport(r)
      \/ Restart
  BY DEF StatsNext, Uncounted, talk, CountReceived, CountApplied,
         CountDuplicate, CountFailed, DetectionFails, ReportPair
<1>7. UNCHANGED rollup \/ Watch
  BY WhoWrites
<1> QED
  BY <1>1, <1>2, <1>3, <1>4, <1>5, <1>6, <1>7

LEMMA SteadyNext ==
  ASSUME TalkTypes, TalkTypes', SteadyTrips, [StatsNext]_<<vars, talk>>
  PROVE  SteadyTrips'
<1>1. SUFFICES ASSUME NEW s \in Scanners, NEW k \in seen'[s].steady
               PROVE  k \in Key /\ Trips(rollup', k)
  BY DEF SteadyTrips
<1>2. k \in Key
  BY <1>1 DEF TalkTypes, Seen
<1>3. CASE seen'[s].steady \subseteq seen[s].steady /\ UNCHANGED rollup
  BY <1>1, <1>2, <1>3 DEF SteadyTrips
<1>4. CASE seen'[s].steady = Tripping /\ UNCHANGED rollup
  BY <1>1, <1>2, <1>4 DEF Tripping
<1> QED
  BY <1>1, <1>2, <1>3, <1>4, SteadyStep

\* A scanner inside a pair is at the row of that pair.
LEMMA OnPairNext ==
  ASSUME TypeOK, OnPair, [Next]_vars
  PROVE  OnPair'
<1>0. /\ pc \in [Workers -> HandlerPC \cup ScannerPC]
      /\ probe \in [Workers -> Probe]
      /\ scan \in [Scanners -> Scan]
      /\ Len(Grid) \in Nat
      /\ \A h \in Handlers : h \in Workers
      /\ \A s \in Scanners : s \in Workers /\ s \notin Handlers
  BY WorkersAssumption DEF TypeOK, LocalTypeOK, Workers
<1>1. SUFFICES ASSUME NEW s \in Scanners, pc'[s] \in Probing
               PROVE  /\ scan'[s].pos \in 1..Len(Grid)
                      /\ probe'[s].key = <<scan'[s].day, Grid[scan'[s].pos]>>
  BY DEF OnPair
<1>2. ASSUME pc[s] \in Probing, probe'[s].key = probe[s].key, scan'[s] = scan[s]
      PROVE  /\ scan'[s].pos \in 1..Len(Grid)
             /\ probe'[s].key = <<scan'[s].day, Grid[scan'[s].pos]>>
  BY <1>2 DEF OnPair
<1>3. ASSUME NextPair(s)
      PROVE  /\ scan'[s].pos \in 1..Len(Grid)
             /\ probe'[s].key = <<scan'[s].day, Grid[scan'[s].pos]>>
  <2> DEFINE i == scan[s].pos + 1
  <2>1. scan[s] \in Scan
    BY <1>0
  <2>2. scan'[s].pos = i /\ scan'[s].day = scan[s].day
    BY <1>0, <1>3, <2>1 DEF NextPair, Scan
  <2>3. probe'[s].key = <<scan[s].day, Grid[i]>>
    BY <1>0, <1>3 DEF NextPair, ProbeOf
  <2>4. i \in 1..Len(Grid)
    BY <1>0, <1>3, <2>1 DEF NextPair, Scan
  <2> QED
    BY <2>2, <2>3, <2>4
<1>4. ASSUME NEW h \in Handlers,
             \/ Receive(h) \/ Apply(h) \/ Redeliver(h) \/ MarkProcessedFails(h)
             \/ ReadRollupFails(h) \/ WriteRollupFails(h)
      PROVE  pc'[s] = pc[s] /\ probe'[s] = probe[s] /\ scan' = scan
  BY <1>0, <1>4
     DEF Receive, Deliver, DropMalformed, locals, Apply, MarkProcessed,
         SkipDuplicate, ReadRollup, CommitRollup, RetryRollup, ExhaustRollup,
         Respond, Redeliver, MarkProcessedFails, ReadRollupFails,
         WriteRollupFails
<1>5. ASSUME NEW w \in Workers,
             \/ RunDetection(w) \/ FetchFails(w) \/ SaveMarkerFails(w)
             \/ PublishAnomalyFails(w)
      PROVE  pc[s] \in Probing /\ probe'[s].key = probe[s].key /\ scan' = scan
  <2>1. scan' = scan
    BY <1>5 DEF RunDetection, FetchCurrent, FetchPrior, RunDetect, SaveMarker,
                DetectedDup, PublishAnomaly, FetchFails, SaveMarkerFails,
                PublishAnomalyFails
  <2>2. probe'[s].key = probe[s].key
    <3>1. CASE RunDetection(w)
      <4>1. CASE FetchCurrent(w)
        <5>1. \/ probe' = probe
              \/ \E b : probe' = [probe EXCEPT ![w].current = b]
          BY <4>1 DEF FetchCurrent
        <5> QED
          BY <1>0, <5>1 DEF Probe
      <4>2. CASE FetchPrior(w)
        BY <1>0, <4>2 DEF FetchPrior, Probe
      <4> QED
        BY <3>1, <4>1, <4>2 DEF RunDetection, RunDetect, SaveMarker,
                                DetectedDup, PublishAnomaly
    <3>2. CASE ~RunDetection(w)
      BY <1>5, <3>2 DEF FetchFails, SaveMarkerFails, PublishAnomalyFails
    <3> QED
      BY <3>1, <3>2
  <2>3. pc[w] \in Probing /\ \A v \in Workers \ {w} : pc'[v] = pc[v]
    BY <1>0, <1>5
       DEF RunDetection, FetchCurrent, FetchPrior, RunDetect, SaveMarker,
           DetectedDup, PublishAnomaly, FetchFails, SaveMarkerFails,
           PublishAnomalyFails, Probing
  <2> QED
    BY <1>0, <1>1, <2>1, <2>2, <2>3
<1>6. ASSUME NEW r \in Scanners, r # s,
             ScanStep(r) \/ \E d \in Days : StartScan(r, d)
      PROVE  pc'[s] = pc[s] /\ probe'[s] = probe[s] /\ scan'[s] = scan[s]
  BY <1>0, <1>6 DEF ScanStep, NextPair, EndScan, StartScan
<1>7. ~EndScan(s) /\ ~(\E d \in Days : StartScan(s, d)) /\ ~Crash
  BY <1>0, <1>1 DEF EndScan, StartScan, Crash, Probing
<1>8. ASSUME NEW e \in Events, Publish(e)
      PROVE  UNCHANGED <<pc, probe, scan>>
  BY <1>8 DEF Publish, locals
<1>9. ASSUME UNCHANGED vars PROVE UNCHANGED <<pc, probe, scan>>
  BY <1>9 DEF vars, locals
<1>10. \/ UNCHANGED <<pc, probe, scan>>
       \/ pc'[s] = pc[s] /\ probe'[s] = probe[s] /\ scan'[s] = scan[s]
       \/ pc[s] \in Probing /\ probe'[s].key = probe[s].key /\ scan' = scan
       \/ NextPair(s)
  BY <1>4, <1>5, <1>6, <1>7, <1>8, <1>9 DEF Next, Disturb, ScanStep
<1> QED
  BY <1>1, <1>2, <1>3, <1>10

\* The scanner stands still: what it has read and what is handled stays.
LEMMA CaughtFrame ==
  ASSUME TypeOK, NEW s \in Scanners, CaughtUp(s),
         pc'[s] = pc[s], probe'[s] = probe[s], scan'[s] = scan[s],
         seen'[s].steady \subseteq seen[s].steady,
         UNCHANGED rollup \/ \A k \in seen'[s].steady :
           History(rollup', k) = History(rollup, k),
         \A k \in seen[s].steady : Handled(k) => Handled(k)'
  PROVE  CaughtUp(s)'
<1>1. probe[s].n \in 1..(BaselineDays + 1)
  BY DEF TypeOK, LocalTypeOK, Probe, Workers
<1>2. probe[s].n - 1 \in 0..BaselineDays
  BY <1>1, BoundsAssumption
<1>3. ASSUME NEW k \in seen'[s].steady, Looks(s, k) PROVE Looks(s, k)'
  <2>1. History(rollup', k) = History(rollup, k)
    BY DEF History, HistoryTo, Present
  <2>2. HistoryTo(rollup', k, probe[s].n - 1) = HistoryTo(rollup, k, probe[s].n - 1)
    BY <1>2, <2>1, HistoryPrefix
  <2> QED
    BY <1>3, <2>1, <2>2 DEF Looks
<1> QED
  BY <1>3 DEF CaughtUp

\* The scanner goes on with its pair or ends it.
LEMMA CaughtWalks ==
  ASSUME TypeOK, SteadyTrips, OnPair, NEW s \in Scanners, CaughtUp(s),
         pc[s] \in Probing, pc'[s] \in Probing \cup {"next"},
         scan'[s] = scan[s], seen'[s].steady = seen[s].steady,
         \A k \in seen[s].steady : Handled(k) => Handled(k)',
         \A k \in seen[s].steady : k = probe[s].key /\ Looks(s, k) =>
           IF pc'[s] \in Probing THEN Looks(s, k)' ELSE Handled(k)'
  PROVE  CaughtUp(s)'
<1>0. scan[s].pos \in 1..Len(Grid)
      /\ probe[s].key = <<scan[s].day, Grid[scan[s].pos]>>
  BY DEF OnPair
<1>1. SUFFICES ASSUME NEW k \in seen[s].steady, NEW i \in 1..scan[s].pos,
                      k[1] = scan[s].day, Grid[i] = k[2]
               PROVE  IF pc'[s] \in Probing /\ i = scan[s].pos
                        THEN Looks(s, k)' ELSE Handled(k)'
  BY DEF CaughtUp
<1>2. IF i = scan[s].pos THEN Looks(s, k) ELSE Handled(k)
  <2>1. pc[s] # "idle"
    BY DEF Probing
  <2> QED
    BY <1>1, <2>1 DEF CaughtUp
<1>3. CASE i = scan[s].pos
  <2>1. k = probe[s].key
    <3>1. k = <<k[1], k[2]>>
      BY DEF SteadyTrips, Key
    <3> QED
      BY <1>0, <1>1, <1>3, <3>1
  <2> QED
    BY <1>2, <1>3, <2>1
<1>4. CASE i # scan[s].pos
  BY <1>2, <1>4
<1> QED
  BY <1>3, <1>4

\* What the scanner finds out about a row it can rely on.
LEMMA CaughtReads ==
  ASSUME TypeOK, StartsFresh, SteadyTrips, NEW s \in Scanners,
         FetchCurrent(s) \/ FetchPrior(s) \/ RunDetect(s),
         NEW k \in seen[s].steady, k = probe[s].key, Looks(s, k)
  PROVE  Looks(s, k)' /\ pc'[s] \in Probing
<1>0. /\ s \in Workers
      /\ pc \in [Workers -> HandlerPC \cup ScannerPC]
      /\ probe \in [Workers -> Probe]
      /\ UNCHANGED rollup
      /\ Trips(rollup, k)
  BY DEF Workers, TypeOK, LocalTypeOK, SteadyTrips, FetchCurrent, FetchPrior,
         RunDetect, store
<1>1. CASE FetchCurrent(s)
  <2>1. Present(rollup, probe[s].key)
    BY <1>0 DEF Trips
  <2>2. /\ pc[s] = "current" /\ pc'[s] = "prior"
        /\ probe' = [probe EXCEPT ![s].current = rollup[k].merged]
    BY <1>0, <1>1, <2>1 DEF FetchCurrent
  <2>3. /\ probe'[s].current = rollup[k].merged
        /\ probe'[s].n = 1 /\ probe'[s].history = NoHistory
    BY <1>0, <2>2 DEF StartsFresh, Probe
  <2>4. HistoryTo(rollup, k, 1 - 1) = NoHistory
    BY HistoryStart
  <2>5. HistoryTo(rollup', k, 1 - 1) = NoHistory
    BY <1>0, <2>4
  <2>6. Detect(rollup[k].merged, History(rollup, k))
    BY <1>0 DEF Trips
  <2>7. Detect(rollup[k].merged, History(rollup', k))
    BY <1>0, <2>6
  <2> QED
    BY <2>2, <2>3, <2>5, <2>7 DEF Looks, Probing
<1>2. CASE FetchPrior(s)
  <2> DEFINE n == probe[s].n
             p == Prior(k, n)
  <2>1. pc[s] = "prior" /\ pc'[s] = pc[s] /\ n \in 1..BaselineDays
    BY <1>0, <1>2, BoundsAssumption DEF FetchPrior, Probe
  <2>2. /\ probe'[s].current = probe[s].current
        /\ probe'[s].n = n + 1
        /\ probe'[s].history =
             IF Present(rollup, p)
               THEN WithDay(probe[s].history, n, rollup[p].merged)
               ELSE probe[s].history
    BY <1>0, <1>2 DEF FetchPrior, Probe
  <2>3. (n + 1) - 1 = n
    BY <2>1
  <2>4. /\ probe[s].history = HistoryTo(rollup, k, n - 1)
        /\ Detect(probe[s].current, History(rollup, k))
    BY <2>1 DEF Looks
  <2>5. probe'[s].history = HistoryTo(rollup, k, n)
    BY <2>1, <2>2, <2>4, HistoryStep
  <2>6. probe'[s].history = HistoryTo(rollup', k, probe'[s].n - 1)
    BY <1>0, <2>2, <2>3, <2>5
  <2>7. Detect(probe'[s].current, History(rollup', k))
    BY <1>0, <2>2, <2>4
  <2> QED
    BY <2>1, <2>6, <2>7 DEF Looks, Probing
<1>3. CASE RunDetect(s)
  <2>1. /\ pc[s] = "prior"
        /\ pc'[s] = IF IsAnomaly(s) THEN "marker" ELSE Done(s)
    BY <1>0, <1>3 DEF RunDetect
  <2>2. probe[s].n - 1 = BaselineDays
    BY <1>0, <1>3, BoundsAssumption DEF RunDetect, Probe
  <2>3. IsAnomaly(s)
    BY <2>1, <2>2 DEF Looks, IsAnomaly, History
  <2> QED
    BY <2>1, <2>3 DEF Looks, Probing
<1> QED
  BY <1>1, <1>2, <1>3

\* Without a fault, every scan deals with the rows it can rely on.
LEMMA CaughtNext ==
  ASSUME TypeOK, TalkTypes, TalkTypes', AnnounceInv, StartsFresh,
         MarkedIsAnnounced, SteadyTrips, OnPair, [StatsNext]_<<vars, talk>>,
         ~Fault, NEW s \in Scanners, CaughtUp(s)
  PROVE  CaughtUp(s)'
<1>0. /\ pc \in [Workers -> HandlerPC \cup ScannerPC]
      /\ probe \in [Workers -> Probe]
      /\ scan \in [Scanners -> Scan]
      /\ seen \in [Scanners -> Seen]
      /\ s \in Workers /\ s \notin Handlers
      /\ \A h \in Handlers : h \in Workers /\ h # s
  BY WorkersAssumption DEF TypeOK, LocalTypeOK, TalkTypes, Workers
<1>1. [Next]_vars
  BY StatsStep
<1>2. \A k \in seen[s].steady : Handled(k) => Handled(k)'
  BY <1>1, HandledStays DEF SteadyTrips
<1>3. ASSUME pc'[s] = pc[s], probe'[s] = probe[s], scan'[s] = scan[s],
             ~BeginReport(s)
      PROVE  CaughtUp(s)'
  BY <1>2, <1>3, SteadyStep, CaughtFrame
<1>4. ASSUME Uncounted PROVE CaughtUp(s)'
  <2>0. UNCHANGED talk
    BY <1>4 DEF Uncounted
  <2>1. ASSUME pc'[s] = pc[s], probe'[s] = probe[s], scan' = scan
        PROVE  CaughtUp(s)'
    <3>1. ~BeginReport(s)
      BY <1>0, <2>1 DEF BeginReport, StartScan
    <3> QED
      BY <1>3, <2>1, <3>1
  <2>2. ASSUME NEW e \in Events, Publish(e) PROVE CaughtUp(s)'
    BY <2>1, <2>2 DEF Publish, locals
  <2>3. ASSUME NEW h \in Handlers,
               \/ MarkProcessed(h) \/ ReadRollup(h) \/ RetryRollup(h)
               \/ Respond(h) \/ Redeliver(h)
        PROVE  CaughtUp(s)'
    <3>1. pc'[s] = pc[s] /\ probe'[s] = probe[s] /\ scan' = scan
      BY <1>0, <2>3 DEF MarkProcessed, ReadRollup, RetryRollup, Respond,
                        Redeliver
    <3> QED
      BY <2>1, <3>1
  <2>4. ASSUME NEW w \in Workers, w # s,
               FetchCurrent(w) \/ FetchPrior(w) \/ RunDetect(w) \/ SaveMarker(w)
        PROVE  CaughtUp(s)'
    <3>1. pc'[s] = pc[s] /\ probe'[s] = probe[s] /\ scan' = scan
      BY <1>0, <2>4 DEF FetchCurrent, FetchPrior, RunDetect, SaveMarker
    <3> QED
      BY <2>1, <3>1
  <2>5. ASSUME FetchCurrent(s) \/ FetchPrior(s) \/ RunDetect(s)
        PROVE  CaughtUp(s)'
    <3>1. /\ scan' = scan /\ seen' = seen
          /\ pc[s] \in Probing /\ pc'[s] \in Probing \cup {"next"}
      BY <1>0, <2>0, <2>5 DEF FetchCurrent, FetchPrior, RunDetect, Probing,
                              Done, talk
    <3>2. \A k \in seen[s].steady : k = probe[s].key /\ Looks(s, k) =>
            Looks(s, k)' /\ pc'[s] \in Probing
      BY <2>5, CaughtReads
    <3> QED
      BY <1>2, <3>1, <3>2, CaughtWalks
  <2>6. ASSUME SaveMarker(s) PROVE CaughtUp(s)'
    <3>1. /\ scan' = scan /\ seen' = seen
          /\ pc[s] \in Probing /\ pc'[s] = "publish"
      BY <1>0, <2>0, <2>6 DEF SaveMarker, Probing, talk
    <3>2. \A k \in seen[s].steady : Looks(s, k)'
      BY <3>1 DEF Looks
    <3> QED
      BY <1>2, <3>1, <3>2, CaughtWalks DEF Probing
  <2> QED
    BY <1>4, <2>2, <2>3, <2>4, <2>5, <2>6 DEF Uncounted
<1>5. ASSUME NEW h \in Handlers,
             \/ CountReceived(h) \/ CountApplied(h)
             \/ CountDuplicate(h) \/ CountFailed(h)
      PROVE  CaughtUp(s)'
  <2>1. pc'[s] = pc[s] /\ scan' = scan /\ probe'[s] = probe[s]
    BY <1>0, <1>5
       DEF CountReceived, CountApplied, CountDuplicate, CountFailed,
           UpdateFails, locals, Deliver, DropMalformed, CommitRollup,
           SkipDuplicate, MarkProcessedFails, ReadRollupFails,
           WriteRollupFails, ExhaustRollup
  <2>2. CASE BeginReport(s)
    BY <1>0, <2>1, <2>2 DEF BeginReport, StartScan
  <2> QED
    BY <1>3, <2>1, <2>2
<1>6. ASSUME NEW w \in Workers, CountDetected(w) \/ CountDetectedDup(w)
      PROVE  CaughtUp(s)'
  <2>1. scan' = scan /\ probe' = probe /\ UNCHANGED rollup
    BY <1>6 DEF CountDetected, CountDetectedDup, PublishAnomaly, DetectedDup,
                store
  <2>2. CASE w # s
    <3>1. pc'[s] = pc[s]
      BY <1>0, <1>6, <2>2 DEF CountDetected, CountDetectedDup,
                              PublishAnomaly, DetectedDup
    <3>2. ~BeginReport(s)
      BY <1>0, <3>1 DEF BeginReport, StartScan
    <3> QED
      BY <1>3, <2>1, <3>1, <3>2
  <2>3. CASE w = s
    <3>1. pc[s] \in Probing /\ pc'[s] = "next"
      BY <1>0, <1>6, <2>3 DEF CountDetected, CountDetectedDup,
                              PublishAnomaly, DetectedDup, Done, Probing
    <3>2. seen'[s].steady = seen[s].steady
      BY <1>0, <1>6, <2>3 DEF CountDetected, CountDetectedDup, Witness, Seen
    <3>3. ASSUME NEW k \in seen[s].steady, k = probe[s].key
          PROVE  Handled(k)'
      <4>0. k \in Key
        BY DEF SteadyTrips
      <4>1. CASE CountDetected(s)
        <5>1. /\ pc[s] = "publish"
              /\ announced' = [announced EXCEPT ![k] = @ + 1]
          BY <3>3, <4>1 DEF CountDetected, PublishAnomaly
        <5>2. announced[k] = 0 /\ announced \in [Key -> Nat]
          BY <1>0, <3>3, <5>1 DEF AnnounceInv, PublisherIsAlone, TypeOK,
                                  DataTypeOK
        <5>3. announced'[k] = 1
          BY <4>0, <5>1, <5>2
        <5> QED
          BY <5>3 DEF Handled
      <4>2. CASE CountDetectedDup(s)
        <5>1. k \in marker
          BY <3>3, <4>2 DEF CountDetectedDup, DetectedDup
        <5>2. Handled(k)
          BY <5>1 DEF MarkedIsAnnounced, Handled
        <5> QED
          BY <1>2, <5>2
      <4> QED
        BY <1>6, <2>3, <4>1, <4>2
    <3>4. pc'[s] \notin Probing
      BY <3>1 DEF Probing
    <3> QED
      BY <1>2, <2>1, <3>1, <3>2, <3>3, <3>4, CaughtWalks
  <2> QED
    BY <2>2, <2>3
<1>7. ~(\E w \in Workers : DetectionFails(w)) /\ ~Restart
  BY DEF DetectionFails, FetchFails, SaveMarkerFails, PublishAnomalyFails,
         Restart, Crash
<1>8. ASSUME NEW r \in Scanners, r # s,
             BeginReport(r) \/ ReportPair(r) \/ AnswerReport(r)
      PROVE  CaughtUp(s)'
  <2>1. pc'[s] = pc[s] /\ scan'[s] = scan[s] /\ probe'[s] = probe[s]
    BY <1>0, <1>8 DEF BeginReport, ReportPair, AnswerReport, StartScan,
                      NextPair, EndScan
  <2>2. ~BeginReport(s)
    BY <1>0, <2>1 DEF BeginReport, StartScan
  <2> QED
    BY <1>3, <2>1, <2>2
<1>9. ASSUME BeginReport(s) PROVE CaughtUp(s)'
  <2>1. scan'[s].pos = 0
    BY <1>0, <1>9 DEF BeginReport, StartScan
  <2>2. 1..0 = {}
    OBVIOUS
  <2> QED
    BY <2>1, <2>2 DEF CaughtUp
<1>10. ASSUME ReportPair(s) PROVE CaughtUp(s)'
  <2>1. /\ pc[s] = "next" /\ pc'[s] = "current" /\ seen' = seen
        /\ scan'[s].pos = scan[s].pos + 1 /\ scan'[s].day = scan[s].day
        /\ scan[s].pos \in Nat
    BY <1>0, <1>10 DEF ReportPair, NextPair, Scan
  <2>2. ASSUME NEW k \in seen[s].steady, NEW i \in 1..scan'[s].pos,
               k[1] = scan[s].day, Grid[i] = k[2], i # scan'[s].pos
        PROVE  Handled(k)'
    <3>1. i \in 1..scan[s].pos
      BY <2>1, <2>2
    <3>2. Handled(k)
      BY <2>1, <2>2, <3>1 DEF CaughtUp, Probing
    <3> QED
      BY <1>2, <3>2
  <2>3. \A k \in seen[s].steady : Looks(s, k)'
    BY <2>1 DEF Looks
  <2> QED
    BY <2>1, <2>2, <2>3 DEF CaughtUp, Probing
<1>11. ASSUME AnswerReport(s) PROVE CaughtUp(s)'
  BY <1>0, <1>11 DEF AnswerReport, EndScan, CaughtUp
<1>12. CASE UNCHANGED <<vars, talk>>
  <2>1. pc' = pc /\ probe' = probe /\ scan' = scan
    BY <1>12 DEF vars, locals
  <2>2. ~BeginReport(s)
    BY <1>0, <2>1 DEF BeginReport, StartScan
  <2> QED
    BY <1>3, <2>1, <2>2
<1> QED
  BY <1>4, <1>5, <1>6, <1>7, <1>8, <1>9, <1>10, <1>11, <1>12 DEF StatsNext

\* A step keeps the number of faults or adds one.
LEMMA FaultsGrow ==
  ASSUME TypeOK, [Next]_vars
  PROVE  faults' = 0 => faults = 0 /\ ~Fault
<1>0. faults \in Nat
  BY BoundsAssumption DEF TypeOK, DataTypeOK
<1>1. Fault => faults' # 0
  BY <1>0 DEF Fault
<1>2. faults' = faults \/ Fault
  <2>1. ASSUME NEW e \in Events, Publish(e) PROVE faults' = faults
    BY <2>1 DEF Publish
  <2>2. ASSUME NEW h \in Handlers, Receive(h) \/ Apply(h)
        PROVE  faults' = faults
    BY <2>2 DEF Receive, Deliver, DropMalformed, Apply, MarkProcessed,
                SkipDuplicate, ReadRollup, CommitRollup, RetryRollup,
                ExhaustRollup, Respond
  <2>3. ASSUME NEW w \in Workers, RunDetection(w) PROVE faults' = faults
    BY <2>3 DEF RunDetection, FetchCurrent, FetchPrior, RunDetect,
                SaveMarker, DetectedDup, PublishAnomaly
  <2>4. ASSUME NEW s \in Scanners,
               ScanStep(s) \/ \E d \in Days : StartScan(s, d)
        PROVE  faults' = faults
    BY <2>4 DEF ScanStep, NextPair, EndScan, StartScan
  <2>5. ASSUME Disturb PROVE Fault
    BY <2>5 DEF Disturb, Crash, Redeliver, MarkProcessedFails,
                ReadRollupFails, WriteRollupFails, FetchFails,
                SaveMarkerFails, PublishAnomalyFails
  <2>6. CASE UNCHANGED vars
    BY <2>6 DEF vars
  <2> QED
    BY <2>1, <2>2, <2>3, <2>4, <2>5, <2>6 DEF Next
<1> QED
  BY <1>1, <1>2

LEMMA CatchNext ==
  ASSUME TypeOK, TalkTypes, TalkTypes', AnnounceInv, AttendInv, CatchInv,
         [StatsNext]_<<vars, talk>>
  PROVE  CatchInv'
<1>1. [Next]_vars
  BY StatsStep
<1>2. SteadyTrips'
  BY SteadyNext DEF CatchInv
<1>3. OnPair'
  BY <1>1, OnPairNext DEF CatchInv
<1>4. ASSUME faults' = 0, NEW s \in Scanners PROVE CaughtUp(s)'
  <2>1. faults = 0 /\ ~Fault
    BY <1>1, <1>4, FaultsGrow
  <2>2. StartsFresh /\ MarkedIsAnnounced
    BY <2>1 DEF AttendInv
  <2>3. SteadyTrips /\ OnPair /\ CaughtUp(s)
    BY <2>1 DEF CatchInv
  <2> QED
    BY <2>1, <2>2, <2>3, CaughtNext
<1> QED
  BY <1>2, <1>3, <1>4 DEF CatchInv

\* Nothing is scanned yet.
LEMMA CatchInit == StatsInit => CatchInv
<1> SUFFICES ASSUME StatsInit PROVE CatchInv
  OBVIOUS
<1>1. \A s \in Scanners : seen[s].steady = {} /\ pc[s] = "idle"
  BY DEF StatsInit, Init, NotSeen, Workers
<1> QED
  BY <1>1 DEF CatchInv, SteadyTrips, OnPair, CaughtUp, Probing

\* main.go:176-179: for every grid and every number of handlers and scans, a
\* scan without faults has announced, or has somebody who is announcing, each
\* row of its day and its grid that it could rely on.
THEOREM ScansCatchUp == StatsSpec => []ScanCatchesUp
<1>1. TypeOK /\ TypeOK' /\ WorkAddsUp /\ TalkTypes /\ AnnounceInv /\ AttendInv
        /\ CatchInv /\ [StatsNext]_<<vars, talk>>
        => (WorkAddsUp /\ TalkTypes /\ CatchInv)'
  BY WorkNext, TalkTypesNext, CatchNext
<1>2. TypeOK /\ CatchInv => ScanCatchesUp
  <2> SUFFICES ASSUME CatchInv, faults = 0, NEW s \in Scanners, AtEnd(s),
                      NEW k \in seen[s].steady, k[1] = scan[s].day,
                      NEW i \in 1..Len(Grid), Grid[i] = k[2]
               PROVE  Handled(k)
    BY DEF ScanCatchesUp, Handled
  <2>1. pc[s] = "next" /\ scan[s].pos = Len(Grid)
    BY DEF AtEnd
  <2> QED
    BY <2>1 DEF CatchInv, CaughtUp, Probing
<1>3. StatsInit => WorkAddsUp /\ TalkTypes /\ CatchInv
  BY WorkInit, ReportInit, CatchInit DEF ReportInv
<1> QED
  BY StatsOnlyWatch, AttendHolds, <1>1, <1>2, <1>3, PTL DEF StatsSpec
=============================================================================
