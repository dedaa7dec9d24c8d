-------------------------- MODULE RollupSvc_proofs --------------------------
(***************************************************************************)
(* Proofs about RollupSvc, for every set of events, ids, days, groups,     *)
(* handlers and scanners and every value of the bounds.                    *)
(***************************************************************************)
EXTENDS RollupSvc, FiniteSetTheorems, TLAPS

USE DEF Goto, IsDuplicate, LastAttempt, AlreadyMarked, DuplicateAnswer

-----------------------------------------------------------------------------
\* The number of deliveries a crash puts back is a number.
LEMMA InFlightIsFinite ==
  ASSUME NEW e \in Events
  PROVE  Cardinality(InFlight(e)) \in Nat
<1>1. IsFiniteSet(Handlers)
  BY WorkersAssumption
<1>2. InFlight(e) \subseteq Handlers
  BY DEF InFlight
<1> QED
  BY <1>1, <1>2, FS_Subset, FS_CardinalityType

\* A detection that reads is of a row, so only rows are torn.
LEMMA TornType ==
  ASSUME LocalTypeOK, NEW k, NEW row
  PROVE  TornBy(k, row) \subseteq Key
BY DEF TornBy, LocalTypeOK, Probing

\* Merging an event into a well-typed row gives a well-typed row.
LEMMA MergeType ==
  ASSUME NEW row \in Row, NEW e \in Events
  PROVE  /\ Merge(row, e) \in Row
         /\ Merge(row, e).etag = row.etag + 1
         /\ Merge(row, e).merged = [row.merged EXCEPT ![e] = @ + 1]
BY DEF Merge, Row, Bag

\* A row that was never written is a row.
LEMMA AbsentType == Absent \in Row /\ EmptyBag \in Bag
BY DEF Absent, EmptyBag, Row, Bag

\* A history with one more day is a history.
LEMMA WithDayType ==
  ASSUME NEW history \in Histories, NEW n \in 1..BaselineDays, NEW bag \in Bag
  PROVE  WithDay(history, n, bag) \in Histories
<1>1. PICK days \in SUBSET (1..BaselineDays) : history \in [days -> Bag]
  BY DEF Histories
<1>2. WithDay(history, n, bag) \in [days \cup {n} -> Bag]
  BY <1>1 DEF WithDay
<1>3. days \cup {n} \in SUBSET (1..BaselineDays)
  OBVIOUS
<1> QED
  BY <1>2, <1>3 DEF Histories

\* What a worker holds before and at the start of its work has its type.
LEMMA StartType ==
  /\ NoJob \in Job
  /\ \A e \in Events : JobFor(e) \in Job /\ JobFor(e).evt = e
  /\ NoProbe \in Probe
  /\ \A k \in Key : ProbeOf(k) \in Probe /\ ProbeOf(k).key = k
<1>1. NoHistory \in Histories
  BY DEF NoHistory, Histories
<1>2. 1 \in 1..(BaselineDays + 1) /\ 1 \in 1..MaxETagRetries
  BY BoundsAssumption
<1>3. NoJob \in Job /\ \A e \in Events : JobFor(e) \in Job /\ JobFor(e).evt = e
  BY <1>2, AbsentType DEF NoJob, JobFor, Job
<1>4. \A k \in Key \cup {<<>>} : ProbeOf(k) \in Probe /\ ProbeOf(k).key = k
  BY <1>1, <1>2, AbsentType DEF ProbeOf, Probe
<1> QED
  BY <1>3, <1>4 DEF NoProbe

\* What an update of one local variable of a handler changes.
LEMMA JobUpdate ==
  ASSUME NEW j \in Job
  PROVE  /\ \A r \in Row :
              /\ [j EXCEPT !.base = r] \in Job
              /\ [j EXCEPT !.base = r].evt = j.evt
              /\ [j EXCEPT !.base = r].base = r
              /\ [j EXCEPT !.base = r].attempt = j.attempt
         /\ j.attempt < MaxETagRetries =>
              /\ [j EXCEPT !.attempt = @ + 1] \in Job
              /\ [j EXCEPT !.attempt = @ + 1].evt = j.evt
              /\ [j EXCEPT !.attempt = @ + 1].base = j.base
              /\ [j EXCEPT !.attempt = @ + 1].attempt = j.attempt + 1
         /\ [j EXCEPT !.owned = FALSE] \in Job
         /\ [j EXCEPT !.owned = FALSE].evt = j.evt
         /\ [j EXCEPT !.owned = FALSE].base = j.base
         /\ [j EXCEPT !.owned = FALSE].attempt = j.attempt
<1> USE BoundsAssumption DEF Job
<1>2. ASSUME NEW r \in Row
      PROVE  /\ [j EXCEPT !.base = r] \in Job
             /\ [j EXCEPT !.base = r].evt = j.evt
             /\ [j EXCEPT !.base = r].base = r
             /\ [j EXCEPT !.base = r].attempt = j.attempt
  OBVIOUS
<1>3. ASSUME j.attempt < MaxETagRetries
      PROVE  /\ [j EXCEPT !.attempt = @ + 1] \in Job
             /\ [j EXCEPT !.attempt = @ + 1].evt = j.evt
             /\ [j EXCEPT !.attempt = @ + 1].base = j.base
             /\ [j EXCEPT !.attempt = @ + 1].attempt = j.attempt + 1
  BY <1>3
<1>4. /\ [j EXCEPT !.owned = FALSE] \in Job
      /\ [j EXCEPT !.owned = FALSE].evt = j.evt
      /\ [j EXCEPT !.owned = FALSE].base = j.base
      /\ [j EXCEPT !.owned = FALSE].attempt = j.attempt
  OBVIOUS
<1> QED
  BY <1>2, <1>3, <1>4

\* What an update of the locals of runDetection changes.
LEMMA ProbeUpdate ==
  ASSUME NEW p \in Probe
  PROVE  /\ \A b \in Bag :
              /\ [p EXCEPT !.current = b] \in Probe
              /\ [p EXCEPT !.current = b].key = p.key
         /\ \A hist \in Histories : p.n <= BaselineDays =>
              /\ [p EXCEPT !.n = @ + 1, !.history = hist] \in Probe
              /\ [p EXCEPT !.n = @ + 1, !.history = hist].key = p.key
<1> USE BoundsAssumption DEF Probe
<1>1. \A b \in Bag : /\ [p EXCEPT !.current = b] \in Probe
                     /\ [p EXCEPT !.current = b].key = p.key
  OBVIOUS
<1>2. ASSUME NEW hist \in Histories, p.n <= BaselineDays
      PROVE  /\ [p EXCEPT !.n = @ + 1, !.history = hist] \in Probe
             /\ [p EXCEPT !.n = @ + 1, !.history = hist].key = p.key
  <2>1. p.n + 1 \in 1..(BaselineDays + 1)
    BY <1>2
  <2> QED
    BY <2>1
<1> QED
  BY <1>1, <1>2

\* What an update of the locals of handleDetectBatch changes.
LEMMA ScanUpdate ==
  /\ NoScan \in Scan
  /\ \A s \in Scan : \A i \in 0..Len(Grid) :
       /\ [s EXCEPT !.pos = i] \in Scan
       /\ [s EXCEPT !.pos = i].day = s.day
  /\ \A d \in Days : [day |-> d, pos |-> 0] \in Scan
<1> USE DEF Scan
<1>1. 0 \in 0..Len(Grid)
  BY WorkersAssumption
<1>2. NoScan \in Scan /\ \A d \in Days : [day |-> d, pos |-> 0] \in Scan
  BY <1>1 DEF NoScan
<1>3. ASSUME NEW s \in Scan, NEW i \in 0..Len(Grid)
      PROVE  /\ [s EXCEPT !.pos = i] \in Scan
             /\ [s EXCEPT !.pos = i].day = s.day
  OBVIOUS
<1> QED
  BY <1>2, <1>3

-----------------------------------------------------------------------------
(***************************************************************************)
(* Frames: what keeps the local types when only some locals change.        *)
(***************************************************************************)
\* A worker that is not idle goes on, inside runDetection only if its probe
\* has a key.
LEMMA GotoType ==
  ASSUME LocalTypeOK,
         NEW w \in Workers, NEW label,
         Goto(w, label),
         pc[w] # "idle",
         label \in IF w \in Handlers THEN HandlerPC ELSE ScannerPC,
         label \in Probing => probe[w].key \in Key,
         UNCHANGED <<job, probe, scan>>
  PROVE  LocalTypeOK'
<1> USE DEF LocalTypeOK, Workers
<1>1. label \in HandlerPC \cup ScannerPC
  OBVIOUS
<1>2. \A v \in Workers : pc'[v] = IF v = w THEN label ELSE pc[v]
  OBVIOUS
<1>3. pc' \in [Workers -> HandlerPC \cup ScannerPC]
  BY <1>1
<1> QED
  BY <1>2, <1>3, WorkersAssumption

\* A handler that is not idle gets new locals for the same or another event.
LEMMA JobStepType ==
  ASSUME LocalTypeOK,
         NEW h \in Handlers, NEW label \in HandlerPC, NEW j \in Job,
         Goto(h, label),
         job' = [job EXCEPT ![h] = j],
         j.evt \in Events,
         label \notin Probing,
         UNCHANGED <<probe, scan>>
  PROVE  LocalTypeOK'
<1> USE DEF LocalTypeOK, Workers
<1>1. \A v \in Workers : pc'[v] = IF v = h THEN label ELSE pc[v]
  OBVIOUS
<1>2. \A g \in Handlers : job'[g] = IF g = h THEN j ELSE job[g]
  OBVIOUS
<1>3. /\ pc' \in [Workers -> HandlerPC \cup ScannerPC]
      /\ job' \in [Handlers -> Job]
  OBVIOUS
<1> QED
  BY <1>1, <1>2, <1>3, WorkersAssumption

\* A worker that is not idle gets a new probe with a key.
LEMMA ProbeStepType ==
  ASSUME LocalTypeOK,
         NEW w \in Workers, NEW label \in Probing, NEW p \in Probe,
         Goto(w, label),
         probe' = [probe EXCEPT ![w] = p],
         p.key \in Key,
         pc[w] # "idle",
         UNCHANGED <<job, scan>>
  PROVE  LocalTypeOK'
<1> USE DEF LocalTypeOK, Workers
<1>1. \A v \in Workers : pc'[v] = IF v = w THEN label ELSE pc[v]
  OBVIOUS
<1>2. \A v \in Workers : probe'[v] = IF v = w THEN p ELSE probe[v]
  OBVIOUS
<1>3. label \in HandlerPC /\ label \in ScannerPC
  BY DEF HandlerPC, ScannerPC
<1>4. /\ pc' \in [Workers -> HandlerPC \cup ScannerPC]
      /\ probe' \in [Workers -> Probe]
  BY <1>3
<1> QED
  BY <1>1, <1>2, <1>3, <1>4, WorkersAssumption

\* runDetection returns to a place of its caller.
LEMMA DoneType ==
  ASSUME NEW w \in Workers
  PROVE  /\ Done(w) \in IF w \in Handlers THEN HandlerPC ELSE ScannerPC
         /\ Done(w) \notin Probing
BY DEF Done, HandlerPC, ScannerPC, Answers, Probing

\* A scanner moves on in its own locals.
LEMMA ScanStepType ==
  ASSUME LocalTypeOK,
         NEW s \in Scanners, NEW label \in ScannerPC,
         NEW c \in Scan, NEW p \in Probe,
         Goto(s, label),
         scan' = [scan EXCEPT ![s] = c],
         probe' = [probe EXCEPT ![s] = p],
         label # "idle" => c.day \in Days,
         label \in Probing => p.key \in Key,
         UNCHANGED job
  PROVE  LocalTypeOK'
<1> USE DEF LocalTypeOK, Workers
<1>1. \A v \in Workers : pc'[v] = IF v = s THEN label ELSE pc[v]
  OBVIOUS
<1>2. \A v \in Workers : probe'[v] = IF v = s THEN p ELSE probe[v]
  OBVIOUS
<1>3. \A t \in Scanners : scan'[t] = IF t = s THEN c ELSE scan[t]
  OBVIOUS
<1>4. /\ pc' \in [Workers -> HandlerPC \cup ScannerPC]
      /\ probe' \in [Workers -> Probe]
      /\ scan' \in [Scanners -> Scan]
  OBVIOUS
<1> QED
  BY <1>1, <1>2, <1>3, <1>4, WorkersAssumption

-----------------------------------------------------------------------------
\* Every variable keeps its type.
THEOREM TypeCorrect == Spec => []TypeOK
<1>1. Init => TypeOK
  <2> SUFFICES ASSUME Init PROVE TypeOK
    OBVIOUS
  <2>1. DataTypeOK
    <3>1. rollup \in [Key -> Row]
      BY AbsentType DEF Init
    <3>2. published \in [Events -> 0..MaxCopies]
      BY BoundsAssumption DEF Init
    <3>3. scans \in 0..MaxScans /\ faults \in 0..MaxFaults
      BY BoundsAssumption DEF Init
    <3> QED
      BY <3>1, <3>2, <3>3 DEF Init, DataTypeOK
  <2>2. /\ job \in [Handlers -> Job]
        /\ probe \in [Workers -> Probe]
        /\ scan \in [Scanners -> Scan]
    BY StartType, ScanUpdate DEF Init
  <2>3. LocalTypeOK
    BY <2>2 DEF Init, LocalTypeOK, Workers, HandlerPC, ScannerPC, Probing
  <2> QED
    BY <2>1, <2>3 DEF TypeOK
<1>2. TypeOK /\ [Next]_vars => TypeOK'
  <2> SUFFICES ASSUME TypeOK, [Next]_vars PROVE TypeOK'
    OBVIOUS
  <2>0. DataTypeOK /\ LocalTypeOK
    BY DEF TypeOK
  <2> USE DEF Probing, Answers
  <2>1. ASSUME NEW e \in Events, Publish(e) PROVE TypeOK'
    <3>1. DataTypeOK'
      BY <2>0, <2>1, BoundsAssumption
         DEF DataTypeOK, Publish, store, alarms, ghosts
    <3>2. LocalTypeOK'
      BY <2>0, <2>1 DEF LocalTypeOK, Publish, locals
    <3> QED
      BY <3>1, <3>2 DEF TypeOK
  <2>2. ASSUME NEW h \in Handlers, Receive(h) PROVE TypeOK'
    <3>1. ASSUME NEW e \in Events, Deliver(h, e) PROVE TypeOK'
      <4>1. DataTypeOK'
        BY <2>0, <3>1 DEF DataTypeOK, Deliver, store, alarms, ghosts
      <4>2. LocalTypeOK'
        BY <2>0, <3>1, StartType, JobStepType DEF Deliver, HandlerPC
      <4> QED
        BY <4>1, <4>2 DEF TypeOK
    <3>2. ASSUME NEW e \in Events, DropMalformed(h, e) PROVE TypeOK'
      <4>1. DataTypeOK'
        BY <2>0, <3>2 DEF DataTypeOK, DropMalformed, store, alarms, ghosts
      <4>2. LocalTypeOK'
        BY <2>0, <3>2 DEF LocalTypeOK, DropMalformed, locals
      <4> QED
        BY <4>1, <4>2 DEF TypeOK
    <3> QED
      BY <2>2, <3>1, <3>2 DEF Receive
  <2>3. ASSUME NEW h \in Handlers, Apply(h) PROVE TypeOK'
    <3>0. /\ h \in Workers
          /\ pc[h] # "idle" => job[h].evt \in Events /\ KeyOf(h) \in Key
          /\ pc[h] # "idle" => IdOf(h) \in Ids
      BY <2>0, EventsAssumption DEF LocalTypeOK, Workers, KeyOf, IdOf
    <3>1. CASE MarkProcessed(h)
      <4>1. DataTypeOK'
        BY <2>0, <3>0, <3>1 DEF DataTypeOK, MarkProcessed, broker, alarms,
                                ghosts
      <4>2. LocalTypeOK'
        BY <2>0, <3>0, <3>1, GotoType DEF MarkProcessed, HandlerPC
      <4> QED
        BY <4>1, <4>2 DEF TypeOK
    <3>2. CASE SkipDuplicate(h)
      <4>1. DataTypeOK'
        BY <2>0, <3>2 DEF DataTypeOK, SkipDuplicate, broker, store, alarms,
                          ghosts
      <4>2. LocalTypeOK'
        BY <2>0, <3>0, <3>2, GotoType DEF SkipDuplicate, HandlerPC
      <4> QED
        BY <4>1, <4>2 DEF TypeOK
    <3>3. CASE ReadRollup(h)
      <4>1. DataTypeOK'
        BY <2>0, <3>3 DEF DataTypeOK, ReadRollup, broker, store, alarms,
                          ghosts
      <4> DEFINE j == [job[h] EXCEPT !.base = rollup[KeyOf(h)]]
      <4>2. rollup[KeyOf(h)] \in Row /\ job[h] \in Job /\ job[h].evt \in Events
        BY <2>0, <3>0, <3>3 DEF DataTypeOK, LocalTypeOK, ReadRollup
      <4>3. j \in Job /\ j.evt \in Events
        BY <4>2, JobUpdate
      <4>4. job' = [job EXCEPT ![h] = j]
        BY <3>3 DEF ReadRollup
      <4> HIDE DEF j
      <4>5. LocalTypeOK'
        BY <2>0, <3>3, <4>3, <4>4, JobStepType DEF ReadRollup, HandlerPC
      <4> QED
        BY <4>1, <4>5 DEF TypeOK
    <3>4. CASE CommitRollup(h)
      <4>1. Merge(job[h].base, job[h].evt) \in Row
        BY <2>0, <3>0, <3>4, MergeType DEF LocalTypeOK, CommitRollup, Job
      <4>2. DataTypeOK'
        BY <2>0, <3>0, <3>4, <4>1, TornType
           DEF DataTypeOK, CommitRollup, StoreRollup, broker, alarms
      <4>3. LocalTypeOK'
        BY <2>0, <3>0, <3>4, StartType, ProbeStepType DEF CommitRollup
      <4> QED
        BY <4>2, <4>3 DEF TypeOK
    <3>5. CASE RetryRollup(h)
      <4>1. DataTypeOK'
        BY <2>0, <3>5 DEF DataTypeOK, RetryRollup, broker, store, alarms,
                          ghosts
      <4> DEFINE j == [job[h] EXCEPT !.attempt = @ + 1]
      <4>2. job[h] \in Job /\ job[h].attempt < MaxETagRetries
        <5>1. job[h] \in Job /\ job[h].attempt # MaxETagRetries
          BY <2>0, <3>5 DEF LocalTypeOK, RetryRollup
        <5>2. job[h].attempt \in 1..MaxETagRetries
          BY <5>1 DEF Job
        <5> QED
          BY <5>1, <5>2, BoundsAssumption
      <4>3. j \in Job /\ j.evt \in Events
        BY <2>0, <3>0, <3>5, <4>2, JobUpdate DEF RetryRollup
      <4>4. job' = [job EXCEPT ![h] = j]
        BY <3>5 DEF RetryRollup
      <4> HIDE DEF j
      <4>5. LocalTypeOK'
        BY <2>0, <3>5, <4>3, <4>4, JobStepType DEF RetryRollup, HandlerPC
      <4> QED
        BY <4>1, <4>5 DEF TypeOK
    <3>6. CASE ExhaustRollup(h)
      <4>1. DataTypeOK'
        BY <2>0, <3>6 DEF DataTypeOK, ExhaustRollup, broker, store, alarms,
                          ghosts
      <4>2. LocalTypeOK'
        BY <2>0, <3>0, <3>6, GotoType DEF ExhaustRollup, HandlerPC
      <4> QED
        BY <4>1, <4>2 DEF TypeOK
    <3>7. CASE Respond(h)
      <4>1. DataTypeOK'
        BY <2>0, <3>0, <3>7 DEF DataTypeOK, Respond, store, alarms, ghosts
      <4>2. /\ job' \in [Handlers -> Job]
            /\ probe' \in [Workers -> Probe]
            /\ pc' \in [Workers -> HandlerPC \cup ScannerPC]
        BY <2>0, <3>7, StartType DEF LocalTypeOK, Respond, HandlerPC
      <4>3. LocalTypeOK'
        BY <2>0, <3>7, <4>2, WorkersAssumption
           DEF LocalTypeOK, Respond, HandlerPC, Workers
      <4> QED
        BY <4>1, <4>3 DEF TypeOK
    <3> QED
      BY <2>3, <3>1, <3>2, <3>3, <3>4, <3>5, <3>6, <3>7 DEF Apply
  <2>4. ASSUME NEW w \in Workers, RunDetection(w) PROVE TypeOK'
    <3>0. pc[w] \in Probing => probe[w].key \in Key
      BY <2>0 DEF LocalTypeOK
    <3>1. CASE FetchCurrent(w)
      <4>1. DataTypeOK'
        BY <2>0, <3>1 DEF DataTypeOK, FetchCurrent, broker, store, alarms,
                          ghosts
      <4>2. CASE Present(rollup, probe[w].key)
        <5> DEFINE p == [probe[w] EXCEPT
                           !.current = rollup[probe[w].key].merged]
        <5>1. p \in Probe /\ p.key = probe[w].key
          BY <2>0, <4>2, ProbeUpdate
             DEF DataTypeOK, LocalTypeOK, Present, Row
        <5>2. probe' = [probe EXCEPT ![w] = p] /\ Goto(w, "prior")
          BY <3>1, <4>2 DEF FetchCurrent
        <5> HIDE DEF p
        <5>3. LocalTypeOK'
          BY <2>0, <3>0, <3>1, <5>1, <5>2, ProbeStepType DEF FetchCurrent
        <5> QED
          BY <4>1, <5>3 DEF TypeOK
      <4>3. CASE ~Present(rollup, probe[w].key)
        <5>1. LocalTypeOK'
          BY <2>0, <3>1, <4>3, GotoType, DoneType DEF FetchCurrent
        <5> QED
          BY <4>1, <5>1 DEF TypeOK
      <4> QED
        BY <4>2, <4>3
    <3>2. CASE FetchPrior(w)
      <4>1. DataTypeOK'
        BY <2>0, <3>2 DEF DataTypeOK, FetchPrior, broker, store, alarms,
                          ghosts
      <4> DEFINE k == Prior(probe[w].key, probe[w].n)
                 hist == IF Present(rollup, k)
                           THEN WithDay(probe[w].history, probe[w].n,
                                        rollup[k].merged)
                           ELSE probe[w].history
                 p == [probe[w] EXCEPT !.n = @ + 1, !.history = hist]
      <4>2. probe' = [probe EXCEPT ![w] = p]
        BY <3>2 DEF FetchPrior
      <4> HIDE DEF k
      <4>3. hist \in Histories
        <5>1. probe[w].history \in Histories /\ probe[w].n \in 1..BaselineDays
          BY <2>0, <3>2, BoundsAssumption DEF LocalTypeOK, Probe, FetchPrior
        <5>2. Present(rollup, k) => rollup[k].merged \in Bag
          BY <2>0 DEF DataTypeOK, Present, Row
        <5> QED
          BY <5>1, <5>2, WithDayType
      <4> HIDE DEF hist
      <4>4. p \in Probe /\ p.key = probe[w].key
        BY <2>0, <3>2, <4>3, ProbeUpdate DEF LocalTypeOK, FetchPrior
      <4> HIDE DEF p
      <4>5. Goto(w, "prior")
        BY <2>0, <3>2 DEF LocalTypeOK, FetchPrior
      <4>6. LocalTypeOK'
        BY <2>0, <3>0, <3>2, <4>2, <4>4, <4>5, ProbeStepType DEF FetchPrior
      <4> QED
        BY <4>1, <4>6 DEF TypeOK
    <3>3. CASE RunDetect(w)
      <4>1. DataTypeOK'
        BY <2>0, <3>3 DEF DataTypeOK, RunDetect, broker, store, alarms,
                          ghosts
      <4>2. LocalTypeOK'
        BY <2>0, <3>0, <3>3, GotoType, DoneType
           DEF RunDetect, HandlerPC, ScannerPC
      <4> QED
        BY <4>1, <4>2 DEF TypeOK
    <3>4. CASE SaveMarker(w)
      <4>1. DataTypeOK'
        BY <2>0, <3>0, <3>4 DEF DataTypeOK, SaveMarker, broker, store,
                                ghosts
      <4>2. LocalTypeOK'
        BY <2>0, <3>0, <3>4, GotoType DEF SaveMarker, HandlerPC, ScannerPC
      <4> QED
        BY <4>1, <4>2 DEF TypeOK
    <3>5. CASE DetectedDup(w)
      <4>1. DataTypeOK'
        BY <2>0, <3>5 DEF DataTypeOK, DetectedDup, broker, store, alarms,
                          ghosts
      <4>2. LocalTypeOK'
        BY <2>0, <3>5, GotoType, DoneType DEF DetectedDup
      <4> QED
        BY <4>1, <4>2 DEF TypeOK
    <3>6. CASE PublishAnomaly(w)
      <4>1. DataTypeOK'
        BY <2>0, <3>0, <3>6 DEF DataTypeOK, PublishAnomaly, broker, store,
                                ghosts
      <4>2. LocalTypeOK'
        BY <2>0, <3>6, GotoType, DoneType DEF PublishAnomaly
      <4> QED
        BY <4>1, <4>2 DEF TypeOK
    <3> QED
      BY <2>4, <3>1, <3>2, <3>3, <3>4, <3>5, <3>6 DEF RunDetection
  <2>5. ASSUME NEW s \in Scanners, ScanStep(s) PROVE TypeOK'
    <3>1. CASE NextPair(s)
      <4> DEFINE i == scan[s].pos + 1
                 c == [scan[s] EXCEPT !.pos = i]
                 k == <<scan[s].day, Grid[i]>>
      <4>1. /\ scan[s] \in Scan
            /\ scan[s].day \in Days
            /\ i \in 1..Len(Grid)
        BY <2>0, <3>1, WorkersAssumption DEF LocalTypeOK, NextPair, Scan
      <4>2. k \in Key
        BY <4>1, WorkersAssumption DEF Key
      <4>3. c \in Scan /\ c.day \in Days
        BY <4>1, ScanUpdate
      <4>4. /\ scan' = [scan EXCEPT ![s] = c]
            /\ probe' = [probe EXCEPT ![s] = ProbeOf(k)]
            /\ Goto(s, "current")
            /\ UNCHANGED <<broker, store, alarms, job, scans, faults, ghosts>>
        BY <3>1 DEF NextPair
      <4> HIDE DEF c, k
      <4>5. LocalTypeOK'
        BY <2>0, <4>2, <4>3, <4>4, StartType, ScanStepType DEF ScannerPC
      <4>6. DataTypeOK'
        BY <2>0, <4>4 DEF DataTypeOK, broker, store, alarms, ghosts
      <4> QED
        BY <4>5, <4>6 DEF TypeOK
    <3>2. CASE EndScan(s)
      <4>1. DataTypeOK'
        BY <2>0, <3>2 DEF DataTypeOK, EndScan, broker, store, alarms, ghosts
      <4>2. LocalTypeOK'
        BY <2>0, <3>2, StartType, ScanUpdate, ScanStepType
           DEF EndScan, ScannerPC
      <4> QED
        BY <4>1, <4>2 DEF TypeOK
    <3> QED
      BY <2>5, <3>1, <3>2 DEF ScanStep
  <2>6. ASSUME NEW s \in Scanners, NEW d \in Days, StartScan(s, d)
        PROVE  TypeOK'
    <3>1. DataTypeOK'
      BY <2>0, <2>6, BoundsAssumption
         DEF DataTypeOK, StartScan, broker, store, alarms, ghosts
    <3>2. /\ [day |-> d, pos |-> 0] \in Scan
          /\ [day |-> d, pos |-> 0].day \in Days
      BY ScanUpdate
    <3>3. probe[s] \in Probe /\ probe' = [probe EXCEPT ![s] = probe[s]]
      BY <2>0, <2>6 DEF LocalTypeOK, StartScan, Workers
    <3>4. LocalTypeOK'
      BY <2>0, <2>6, <3>2, <3>3, ScanStepType DEF StartScan, ScannerPC
    <3> QED
      BY <3>1, <3>4 DEF TypeOK
  <2>7. ASSUME Disturb PROVE TypeOK'
    <3>0. ASSUME Fault PROVE faults' \in 0..MaxFaults
      BY <2>0, <3>0, BoundsAssumption DEF DataTypeOK, Fault
    <3>1. CASE Crash
      <4>1. DataTypeOK'
        BY <2>0, <3>0, <3>1, InFlightIsFinite
           DEF DataTypeOK, Crash, store, alarms, ghosts
      <4>2. LocalTypeOK'
        BY <2>0, <3>1, StartType, ScanUpdate
           DEF LocalTypeOK, Crash, Workers, HandlerPC, ScannerPC
      <4> QED
        BY <4>1, <4>2 DEF TypeOK
    <3>2. ASSUME NEW h \in Handlers,
                 \/ Redeliver(h) \/ MarkProcessedFails(h)
                 \/ ReadRollupFails(h) \/ WriteRollupFails(h)
          PROVE  TypeOK'
      <4>0. /\ h \in Workers
            /\ pc[h] \in HandlerPC
            /\ pc[h] # "idle" => job[h].evt \in Events /\ KeyOf(h) \in Key
            /\ pc[h] # "idle" => IdOf(h) \in Ids
        BY <2>0, EventsAssumption DEF LocalTypeOK, Workers, KeyOf, IdOf
      <4>1. CASE Redeliver(h)
        <5>1. DataTypeOK'
          BY <2>0, <3>0, <4>0, <4>1
             DEF DataTypeOK, Redeliver, store, alarms, ghosts
        <5> DEFINE j == [job[h] EXCEPT !.owned = FALSE]
        <5>2. j \in Job /\ j.evt = job[h].evt
          BY <2>0, JobUpdate DEF LocalTypeOK
        <5>3. job' = [job EXCEPT ![h] = j]
          BY <4>1 DEF Redeliver
        <5> HIDE DEF j
        <5>4. /\ \A f \in Handlers : job'[f].evt = job[f].evt
              /\ job' \in [Handlers -> Job]
          BY <2>0, <5>2, <5>3 DEF LocalTypeOK
        <5>5. LocalTypeOK'
          BY <2>0, <4>1, <5>4 DEF LocalTypeOK, Redeliver
        <5> QED
          BY <5>1, <5>5 DEF TypeOK
      <4>2. CASE MarkProcessedFails(h)
        <5>1. processed' \subseteq Ids
          BY <2>0, <4>0, <4>2 DEF DataTypeOK, MarkProcessedFails
        <5>2. DataTypeOK'
          BY <2>0, <3>0, <4>2, <5>1
             DEF DataTypeOK, MarkProcessedFails, broker, alarms, ghosts
        <5>3. LocalTypeOK'
          BY <2>0, <4>0, <4>2, GotoType DEF MarkProcessedFails, HandlerPC
        <5> QED
          BY <5>2, <5>3 DEF TypeOK
      <4>3. CASE ReadRollupFails(h)
        <5>1. DataTypeOK'
          BY <2>0, <3>0, <4>3
             DEF DataTypeOK, ReadRollupFails, broker, store, alarms, ghosts
        <5>2. LocalTypeOK'
          BY <2>0, <4>0, <4>3, GotoType DEF ReadRollupFails, HandlerPC
        <5> QED
          BY <5>1, <5>2 DEF TypeOK
      <4>4. CASE WriteRollupFails(h)
        <5>1. Merge(job[h].base, job[h].evt) \in Row
          BY <2>0, <4>0, <4>4, MergeType
             DEF LocalTypeOK, WriteRollupFails, Job
        <5>3. /\ rollup' \in [Key -> Row]
              /\ tripped' \subseteq Key
              /\ late' \subseteq Key
              /\ torn' \subseteq Key
          BY <2>0, <4>0, <4>4, <5>1, TornType
             DEF DataTypeOK, WriteRollupFails, StoreRollup
        <5>4. DataTypeOK'
          BY <2>0, <3>0, <4>4, <5>3
             DEF DataTypeOK, WriteRollupFails, broker, alarms
        <5>5. LocalTypeOK'
          BY <2>0, <4>0, <4>4, GotoType DEF WriteRollupFails, HandlerPC
        <5> QED
          BY <5>4, <5>5 DEF TypeOK
      <4> QED
        BY <3>2, <4>1, <4>2, <4>3, <4>4
    <3>3. ASSUME NEW w \in Workers,
                 FetchFails(w) \/ SaveMarkerFails(w) \/ PublishAnomalyFails(w)
          PROVE  TypeOK'
      <4>0. pc[w] \in Probing => probe[w].key \in Key
        BY <2>0 DEF LocalTypeOK
      <4>1. CASE FetchFails(w)
        <5>1. DataTypeOK'
          BY <2>0, <3>0, <4>1
             DEF DataTypeOK, FetchFails, broker, store, alarms, ghosts
        <5>2. LocalTypeOK'
          BY <2>0, <4>1, GotoType, DoneType DEF FetchFails
        <5> QED
          BY <5>1, <5>2 DEF TypeOK
      <4>2. CASE SaveMarkerFails(w)
        <5>1. marker' \subseteq Key
          BY <2>0, <4>0, <4>2 DEF DataTypeOK, SaveMarkerFails
        <5>2. DataTypeOK'
          BY <2>0, <3>0, <4>2, <5>1
             DEF DataTypeOK, SaveMarkerFails, broker, store, ghosts
        <5>3. LocalTypeOK'
          BY <2>0, <4>2, GotoType, DoneType DEF SaveMarkerFails
        <5> QED
          BY <5>2, <5>3 DEF TypeOK
      <4>3. CASE PublishAnomalyFails(w)
        <5>1. announced' \in [Key -> Nat]
          BY <2>0, <4>3 DEF DataTypeOK, PublishAnomalyFails
        <5>2. DataTypeOK'
          BY <2>0, <3>0, <4>3, <5>1
             DEF DataTypeOK, PublishAnomalyFails, broker, store, ghosts
        <5>3. LocalTypeOK'
          BY <2>0, <4>3, GotoType, DoneType DEF PublishAnomalyFails
        <5> QED
          BY <5>2, <5>3 DEF TypeOK
      <4> QED
        BY <3>3, <4>1, <4>2, <4>3
    <3> QED
      BY <2>7, <3>1, <3>2, <3>3 DEF Disturb
  <2>8. CASE UNCHANGED vars
    BY <2>0, <2>8 DEF TypeOK, DataTypeOK, LocalTypeOK, vars, broker, store,
                      alarms, locals, ghosts
  <2> QED
    BY <2>1, <2>2, <2>3, <2>4, <2>5, <2>6, <2>7, <2>8 DEF Next
<1> QED
  BY <1>1, <1>2, PTL DEF Spec

-----------------------------------------------------------------------------
(***************************************************************************)
(* NoDoubleCount                                                           *)
(***************************************************************************)
\* The counting invariant survives every step that leaves the rows alone,
\* removes no marker and lets no handler start to hold an id; a handler may
\* pass from reading to writing with the row as it is now.
LEMMA CountFrame ==
  ASSUME TypeOK, CountInv,
         UNCHANGED rollup,
         processed \subseteq processed',
         \A h \in Handlers : pc'[h] \in {"read", "write"} =>
           /\ pc[h] \in {"read", "write"}
           /\ job'[h].evt = job[h].evt
           /\ pc'[h] = "write" =>
                \/ pc[h] = "write" /\ job'[h].base = job[h].base
                \/ job'[h].base = rollup[KeyOf(h)]
  PROVE  CountInv'
<1>1. \A h \in Handlers : Holds(h)' =>
        Holds(h) /\ IdOf(h)' = IdOf(h) /\ KeyOf(h)' = KeyOf(h)
  BY DEF Holds, IdOf, KeyOf
<1>2. \A id : CountedAs(id)' = CountedAs(id)
  BY DEF CountedAs
<1>3. SnapshotFresh'
  <2> SUFFICES ASSUME NEW h \in Handlers, pc'[h] = "write"
               PROVE  /\ job'[h].base.etag <= rollup[KeyOf(h)].etag
                      /\ job'[h].base.etag = rollup[KeyOf(h)].etag =>
                           job'[h].base = rollup[KeyOf(h)]
    BY <1>1 DEF SnapshotFresh, Holds
  <2>1. CASE pc[h] = "write" /\ job'[h].base = job[h].base
    BY <2>1 DEF CountInv, SnapshotFresh
  <2>2. CASE job'[h].base = rollup[KeyOf(h)]
    <3>1. KeyOf(h) \in Key
      BY EventsAssumption DEF TypeOK, LocalTypeOK, KeyOf
    <3>2. rollup[KeyOf(h)].etag \in Nat
      BY <3>1 DEF TypeOK, DataTypeOK, Row
    <3> QED
      BY <2>2, <3>2
  <2> QED
    BY <2>1, <2>2
<1>4. HolderIsAlone'
  BY <1>1, <1>2 DEF CountInv, HolderIsAlone
<1>5. CountedIsMarked' /\ NoDoubleCount'
  BY <1>2 DEF CountInv, CountedIsMarked, NoDoubleCount
<1> QED
  BY <1>3, <1>4, <1>5 DEF CountInv

\* What a write that the store accepts does to the rows: one more version of
\* one row, with one event that was in no row before.
LEMMA CommitEffect ==
  ASSUME TypeOK, CountInv,
         NEW h \in Handlers,
         pc[h] = "write",
         ETagMatches(h),
         StoreRollup(KeyOf(h), Merge(job[h].base, job[h].evt))
  PROVE  /\ job[h].evt \in Events
         /\ KeyOf(h) \in Key
         /\ \A k \in Key :
              rollup'[k].etag = IF k = KeyOf(h) THEN rollup[k].etag + 1
                                                ELSE rollup[k].etag
         /\ \A k \in Key : k # KeyOf(h) => rollup'[k] = rollup[k]
         /\ \A k \in Key, e \in Events :
              rollup'[k].merged[e] =
                IF k = KeyOf(h) /\ e = job[h].evt THEN 1
                                                  ELSE rollup[k].merged[e]
<1> DEFINE e0 == job[h].evt
           k0 == KeyOf(h)
<1>1. e0 \in Events /\ k0 \in Key /\ k0 = EventKey[e0]
  BY EventsAssumption DEF TypeOK, LocalTypeOK, KeyOf
<1>2. job[h].base = rollup[k0] /\ rollup[k0] \in Row
  BY <1>1 DEF CountInv, SnapshotFresh, ETagMatches, TypeOK, DataTypeOK
<1>3. rollup[k0].merged[e0] = 0
  <2>1. e0 \notin CountedAs(IdOf(h))
    BY DEF CountInv, HolderIsAlone, Holds
  <2>2. ~(rollup[k0].merged[e0] > 0)
    BY <1>1, <2>1 DEF CountedAs, IdOf
  <2>3. rollup[k0].merged[e0] \in Nat
    BY <1>1, <1>2 DEF Row, Bag
  <2> QED
    BY <2>2, <2>3
<1> DEFINE row == Merge(rollup[k0], e0)
<1>4. /\ row.etag = rollup[k0].etag + 1
      /\ row.merged = [rollup[k0].merged EXCEPT ![e0] = @ + 1]
  BY <1>1, <1>2, MergeType
<1>5. rollup' = [rollup EXCEPT ![k0] = row]
  BY <1>2 DEF StoreRollup
<1> HIDE DEF row, k0, e0
<1>6. /\ \A k \in Key : k # k0 => rollup'[k] = rollup[k]
      /\ rollup'[k0] = row
  BY <1>1, <1>5 DEF TypeOK, DataTypeOK
<1>7. \A e \in Events :
        row.merged[e] = IF e = e0 THEN 1 ELSE rollup[k0].merged[e]
  BY <1>1, <1>2, <1>3, <1>4 DEF Row, Bag
<1> QED
  BY <1>1, <1>4, <1>6, <1>7 DEF k0, e0

\* The counting invariant survives such a write when its handler stops
\* holding the id with it.
LEMMA CountCommit ==
  ASSUME TypeOK, CountInv,
         NEW h \in Handlers,
         pc[h] = "write",
         ETagMatches(h),
         StoreRollup(KeyOf(h), Merge(job[h].base, job[h].evt)),
         UNCHANGED <<processed, job>>,
         Goto(h, pc'[h]), pc'[h] \notin {"read", "write"}
  PROVE  CountInv'
<1> DEFINE e0 == job[h].evt
           k0 == KeyOf(h)
<1>1. /\ e0 \in Events
      /\ k0 \in Key
      /\ k0 = EventKey[e0]
      /\ LineId[e0] = IdOf(h)
      /\ IdOf(h) \in processed
      /\ CountedAs(IdOf(h)) = {}
      /\ \A f \in Handlers : Holds(f) /\ IdOf(f) = IdOf(h) => f = h
  BY CommitEffect DEF CountInv, HolderIsAlone, Holds, KeyOf, IdOf
<1>2. /\ \A k \in Key :
           rollup'[k].etag = IF k = k0 THEN rollup[k].etag + 1
                                       ELSE rollup[k].etag
      /\ \A k \in Key : k # k0 => rollup'[k] = rollup[k]
      /\ \A k \in Key, e \in Events :
           rollup'[k].merged[e] = IF k = k0 /\ e = e0 THEN 1
                                                      ELSE rollup[k].merged[e]
  BY CommitEffect
<1>3. \A f \in Handlers :
        /\ Holds(f)' => Holds(f) /\ f # h
        /\ IdOf(f)' = IdOf(f) /\ KeyOf(f)' = KeyOf(f)
        /\ pc'[f] = "write" => pc[f] = "write"
  BY DEF Holds, IdOf, KeyOf, TypeOK, LocalTypeOK, Workers
<1> HIDE DEF e0, k0
<1>4. \A e \in Events : EventKey[e] \in Key /\ LineId[e] \in Ids
  BY EventsAssumption
<1>5. \A id : CountedAs(id)' =
                IF id = IdOf(h) THEN CountedAs(id) \cup {e0} ELSE CountedAs(id)
  BY <1>1, <1>2, <1>4 DEF CountedAs
<1>6. SnapshotFresh'
  <2> SUFFICES ASSUME NEW f \in Handlers, pc'[f] = "write"
               PROVE  /\ job[f].base.etag <= rollup'[KeyOf(f)].etag
                      /\ job[f].base.etag = rollup'[KeyOf(f)].etag =>
                           job[f].base = rollup'[KeyOf(f)]
    BY <1>3 DEF SnapshotFresh
  <2>1. /\ pc[f] = "write"
        /\ job[f].base.etag <= rollup[KeyOf(f)].etag
        /\ job[f].base.etag = rollup[KeyOf(f)].etag =>
             job[f].base = rollup[KeyOf(f)]
    BY <1>3 DEF CountInv, SnapshotFresh
  <2>2. KeyOf(f) \in Key
    BY <1>4, <2>1 DEF TypeOK, LocalTypeOK, KeyOf
  <2>3. job[f].base.etag \in Nat /\ rollup[KeyOf(f)].etag \in Nat
    BY <2>2 DEF TypeOK, DataTypeOK, LocalTypeOK, Job, Row
  <2> QED
    BY <1>2, <2>1, <2>2, <2>3
<1>7. HolderIsAlone'
  BY <1>1, <1>3, <1>5 DEF CountInv, HolderIsAlone
<1>8. CountedIsMarked'
  BY <1>1, <1>2 DEF CountInv, CountedIsMarked
<1>9. NoDoubleCount'
  <2>1. \A e \in Events, k \in Key :
          /\ rollup'[k].merged[e] <= 1
          /\ rollup'[k].merged[e] > 0 => EventKey[e] = k
    BY <1>1, <1>2 DEF CountInv, NoDoubleCount
  <2>2. \A id \in Ids : \A e, f \in CountedAs(id)' : e = f
    BY <1>1, <1>5 DEF CountInv, NoDoubleCount
  <2> QED
    BY <2>1, <2>2 DEF NoDoubleCount
<1> QED
  BY <1>6, <1>7, <1>8, <1>9 DEF CountInv

\* A handler that wins the marker of an id starts to hold it; nobody else
\* holds it and nothing with it is counted, because it was not marked.
LEMMA CountMark ==
  ASSUME TypeOK, CountInv,
         NEW h \in Handlers,
         MarkProcessed(h)
  PROVE  CountInv'
<1>1. /\ IdOf(h) \notin processed
      /\ processed' = processed \cup {IdOf(h)}
      /\ UNCHANGED <<rollup, job>>
      /\ h \in Workers
  BY DEF MarkProcessed, Workers
<1>2. \A f \in Handlers :
        /\ pc'[f] = IF f = h THEN "read" ELSE pc[f]
        /\ IdOf(f)' = IdOf(f) /\ KeyOf(f)' = KeyOf(f)
  BY <1>1 DEF MarkProcessed, TypeOK, LocalTypeOK, IdOf, KeyOf, Workers
<1>3. \A id : CountedAs(id)' = CountedAs(id)
  BY <1>1 DEF CountedAs
<1>4. CountedAs(IdOf(h)) = {}
  BY <1>1, EventsAssumption DEF CountInv, CountedIsMarked, CountedAs
<1>5. \A f \in Handlers : Holds(f) => IdOf(f) # IdOf(h)
  BY <1>1 DEF CountInv, HolderIsAlone
<1>6. SnapshotFresh'
  BY <1>1, <1>2 DEF CountInv, SnapshotFresh
<1>7. HolderIsAlone'
  <2> SUFFICES ASSUME NEW f \in Handlers, Holds(f)'
               PROVE  /\ IdOf(f) \in processed'
                      /\ CountedAs(IdOf(f)) = {}
                      /\ \A v \in Handlers :
                           Holds(v)' /\ IdOf(v) = IdOf(f) => v = f
    BY <1>2, <1>3 DEF HolderIsAlone
  <2>1. \A v \in Handlers : Holds(v)' => Holds(v) \/ v = h
    BY <1>2 DEF Holds
  <2>2. CASE f = h
    BY <1>1, <1>4, <1>5, <2>1, <2>2
  <2>3. CASE f # h
    BY <1>1, <1>5, <2>1, <2>3 DEF CountInv, HolderIsAlone
  <2> QED
    BY <2>2, <2>3
<1>8. CountedIsMarked' /\ NoDoubleCount'
  BY <1>1, <1>3 DEF CountInv, CountedIsMarked, NoDoubleCount
<1> QED
  BY <1>6, <1>7, <1>8 DEF CountInv

\* Before anything happened nothing is counted.
LEMMA CountInit == Init => CountInv
BY EventsAssumption
   DEF Init, CountInv, SnapshotFresh, HolderIsAlone, CountedIsMarked,
       NoDoubleCount, Holds, CountedAs, Absent, EmptyBag, Workers

\* Every step keeps what counts each id once.
LEMMA CountNext == TypeOK /\ CountInv /\ [Next]_vars => CountInv'
<1> SUFFICES ASSUME TypeOK, CountInv, [Next]_vars PROVE CountInv'
  OBVIOUS
<1>0. /\ pc \in [Workers -> HandlerPC \cup ScannerPC]
      /\ job \in [Handlers -> Job]
      /\ \A h \in Handlers : h \in Workers
      /\ \A s \in Scanners : s \in Workers /\ s \notin Handlers
  BY WorkersAssumption DEF TypeOK, LocalTypeOK, Workers
<1>1. ASSUME NEW e \in Events, Publish(e) PROVE CountInv'
  BY <1>1, CountFrame DEF Publish, store, locals
<1>2. ASSUME NEW h \in Handlers, Receive(h) PROVE CountInv'
  <2>1. ASSUME NEW e \in Events, Deliver(h, e) PROVE CountInv'
    BY <1>0, <2>1, CountFrame DEF Deliver, store
  <2>2. ASSUME NEW e \in Events, DropMalformed(h, e) PROVE CountInv'
    BY <2>2, CountFrame DEF DropMalformed, store, locals
  <2> QED
    BY <1>2, <2>1, <2>2 DEF Receive
<1>3. ASSUME NEW h \in Handlers, Apply(h) PROVE CountInv'
  <2>1. CASE MarkProcessed(h)
    BY <2>1, CountMark
  <2>2. CASE SkipDuplicate(h)
    BY <1>0, <2>2, CountFrame DEF SkipDuplicate, store
  <2>3. CASE ReadRollup(h)
    <3>1. rollup[KeyOf(h)] \in Row /\ job[h] \in Job
      BY <1>0, <2>3, EventsAssumption
         DEF TypeOK, DataTypeOK, LocalTypeOK, ReadRollup, KeyOf
    <3> DEFINE j == [job[h] EXCEPT !.base = rollup[KeyOf(h)]]
    <3>2. j.evt = job[h].evt /\ j.base = rollup[KeyOf(h)]
      BY <3>1, JobUpdate
    <3>3. job' = [job EXCEPT ![h] = j]
      BY <2>3 DEF ReadRollup
    <3> HIDE DEF j
    <3> QED
      BY <1>0, <2>3, <3>2, <3>3, CountFrame DEF ReadRollup, store
  <2>4. CASE CommitRollup(h)
    BY <1>0, <2>4, CountCommit DEF CommitRollup
  <2>5. CASE RetryRollup(h)
    <3> DEFINE j == [job[h] EXCEPT !.attempt = @ + 1]
    <3>1. j.evt = job[h].evt
      BY <1>0 DEF Job
    <3>2. job' = [job EXCEPT ![h] = j]
      BY <2>5 DEF RetryRollup
    <3> HIDE DEF j
    <3> QED
      BY <1>0, <2>5, <3>1, <3>2, CountFrame DEF RetryRollup, store
  <2>6. CASE ExhaustRollup(h)
    BY <1>0, <2>6, CountFrame DEF ExhaustRollup, store
  <2>7. CASE Respond(h)
    BY <1>0, <2>7, CountFrame DEF Respond, store
  <2> QED
    BY <1>3, <2>1, <2>2, <2>3, <2>4, <2>5, <2>6, <2>7 DEF Apply
<1>4. ASSUME NEW w \in Workers, Goto(w, pc'[w]), pc[w] \in Probing,
             pc'[w] \notin {"read", "write"}, UNCHANGED <<store, job>>
      PROVE  CountInv'
  BY <1>0, <1>4, CountFrame DEF store
<1>5. ASSUME NEW w \in Workers, RunDetection(w) PROVE CountInv'
  <2>1. Done(w) \notin {"read", "write"}
    BY DEF Done
  <2>2. CASE FetchPrior(w)
    BY <1>0, <2>2, CountFrame DEF FetchPrior, store
  <2>3. CASE ~FetchPrior(w)
    BY <1>0, <1>4, <1>5, <2>1, <2>3
       DEF RunDetection, FetchCurrent, RunDetect, SaveMarker, DetectedDup,
           PublishAnomaly, Probing
  <2> QED
    BY <2>2, <2>3
<1>6. ASSUME NEW s \in Scanners,
             ScanStep(s) \/ \E d \in Days : StartScan(s, d)
      PROVE  CountInv'
  <2>1. UNCHANGED <<store, job>>
    BY <1>6 DEF ScanStep, NextPair, EndScan, StartScan
  <2>2. \A h \in Handlers : pc'[h] = pc[h]
    BY <1>0, <1>6 DEF ScanStep, NextPair, EndScan, StartScan
  <2> QED
    BY <2>1, <2>2, CountFrame DEF store
<1>7. ASSUME Disturb PROVE CountInv'
  <2>1. CASE Crash
    BY <1>0, <2>1, CountFrame DEF Crash, store
  <2>2. ASSUME NEW h \in Handlers, Redeliver(h) PROVE CountInv'
    <3> DEFINE j == [job[h] EXCEPT !.owned = FALSE]
    <3>1. j.evt = job[h].evt /\ j.base = job[h].base
      BY <1>0, JobUpdate
    <3>2. job' = [job EXCEPT ![h] = j]
      BY <2>2 DEF Redeliver
    <3> HIDE DEF j
    <3>3. \A f \in Handlers :
            job'[f].evt = job[f].evt /\ job'[f].base = job[f].base
      BY <1>0, <3>1, <3>2
    <3> QED
      BY <2>2, <3>3, CountFrame DEF Redeliver, store
  <2>3. ASSUME NEW h \in Handlers, MarkProcessedFails(h) PROVE CountInv'
    <3>1. processed \subseteq processed'
      BY <2>3 DEF MarkProcessedFails
    <3> QED
      BY <1>0, <2>3, <3>1, CountFrame DEF MarkProcessedFails
  <2>4. ASSUME NEW h \in Handlers, ReadRollupFails(h) PROVE CountInv'
    BY <1>0, <2>4, CountFrame DEF ReadRollupFails, store
  <2>5. ASSUME NEW h \in Handlers, WriteRollupFails(h) PROVE CountInv'
    <3>1. CASE UNCHANGED rollup
      BY <1>0, <2>5, <3>1, CountFrame DEF WriteRollupFails
    <3>2. CASE /\ ETagMatches(h)
               /\ StoreRollup(KeyOf(h), Merge(job[h].base, job[h].evt))
      BY <1>0, <2>5, <3>2, CountCommit DEF WriteRollupFails
    <3> QED
      BY <2>5, <3>1, <3>2 DEF WriteRollupFails
  <2>6. ASSUME NEW w \in Workers,
               FetchFails(w) \/ SaveMarkerFails(w) \/ PublishAnomalyFails(w)
        PROVE  CountInv'
    <3>1. Done(w) \notin {"read", "write"}
      BY DEF Done
    <3> QED
      BY <1>0, <1>4, <2>6, <3>1
         DEF FetchFails, SaveMarkerFails, PublishAnomalyFails, Probing
  <2> QED
    BY <1>7, <2>1, <2>2, <2>3, <2>4, <2>5, <2>6 DEF Disturb
<1>8. CASE UNCHANGED vars
  BY <1>8, CountFrame DEF vars, store, locals
<1> QED
  BY <1>1, <1>2, <1>3, <1>5, <1>6, <1>7, <1>8 DEF Next

\* Whatever is redelivered, raced or crashed, every id is counted at most
\* once, and in the row its event names.
THEOREM CountedOnce == Spec => []NoDoubleCount
<1>1. TypeOK /\ CountInv /\ [Next]_vars => CountInv'
  BY CountNext
<1>2. CountInv => NoDoubleCount
  BY DEF CountInv
<1> QED
  BY TypeCorrect, CountInit, <1>1, <1>2, PTL DEF Spec

-----------------------------------------------------------------------------
(***************************************************************************)
(* NoLostUpdate                                                            *)
(***************************************************************************)
\* A step leaves the rows alone, or a handler whose ETag is current writes.
LEMMA RowEffect ==
  ASSUME [Next]_vars
  PROVE  \/ rollup' = rollup
         \/ \E h \in Handlers :
              /\ pc[h] = "write"
              /\ ETagMatches(h)
              /\ StoreRollup(KeyOf(h), Merge(job[h].base, job[h].evt))
              /\ UNCHANGED <<broker, alarms>>
<1>1. ASSUME NEW h \in Handlers, CommitRollup(h) \/ WriteRollupFails(h)
      PROVE  \/ rollup' = rollup
             \/ /\ pc[h] = "write"
                /\ ETagMatches(h)
                /\ StoreRollup(KeyOf(h), Merge(job[h].base, job[h].evt))
                /\ UNCHANGED <<broker, alarms>>
  BY <1>1 DEF CommitRollup, WriteRollupFails
<1> QED
  BY <1>1
  DEF Next, Receive, Apply, RunDetection, ScanStep, Disturb, vars, store,
      Publish, Deliver, DropMalformed, Respond, Redeliver, Crash,
      MarkProcessed, SkipDuplicate, MarkProcessedFails, ReadRollup,
      ReadRollupFails, RetryRollup, ExhaustRollup, FetchCurrent, FetchPrior,
      FetchFails, RunDetect, SaveMarker, DetectedDup, SaveMarkerFails,
      PublishAnomaly, PublishAnomalyFails, StartScan, NextPair, EndScan

\* Rows only grow: by one event that was in none.
LEMMA RowsGrow ==
  ASSUME TypeOK, CountInv, [Next]_vars
  PROVE  \A k \in Key, e \in Events :
           rollup'[k].merged[e] >= rollup[k].merged[e]
<1>1. \A k \in Key, e \in Events :
        rollup[k].merged[e] \in Nat /\ rollup[k].merged[e] <= 1
  BY DEF TypeOK, DataTypeOK, Row, Bag, CountInv, NoDoubleCount
<1>2. CASE rollup' = rollup
  BY <1>1, <1>2
<1>3. ASSUME NEW h \in Handlers,
             pc[h] = "write",
             ETagMatches(h),
             StoreRollup(KeyOf(h), Merge(job[h].base, job[h].evt))
      PROVE  \A k \in Key, e \in Events :
               rollup'[k].merged[e] >= rollup[k].merged[e]
  BY <1>1, <1>3, CommitEffect
<1> QED
  BY <1>2, <1>3, RowEffect

\* main.go:386-399: a write never undoes a merge that was committed.
THEOREM NothingIsLost == Spec => NoLostUpdate
<1>1. TypeOK /\ CountInv /\ [Next]_vars => CountInv'
  BY CountNext
<1>2. TypeOK /\ CountInv /\ [Next]_vars =>
        [\A k \in Key, e \in Events :
           rollup'[k].merged[e] >= rollup[k].merged[e]]_vars
  BY RowsGrow
<1> QED
  BY TypeCorrect, CountInit, <1>1, <1>2, PTL DEF Spec, NoLostUpdate

-----------------------------------------------------------------------------
(***************************************************************************)
(* AnnouncedOnce                                                           *)
(***************************************************************************)
\* Inside runDetection, on a row that was found.
Detecting == {"prior", "marker", "publish"}

\* A stored row stays stored.
StoredStays == \A k \in Key : rollup[k].etag > 0 => rollup'[k].etag > 0

\* No row disappears.
LEMMA RowsStay ==
  ASSUME TypeOK, CountInv, [Next]_vars
  PROVE  StoredStays
<1>1. \A k \in Key : rollup[k].etag \in Nat
  BY DEF TypeOK, DataTypeOK, Row
<1>2. CASE rollup' = rollup
  BY <1>2 DEF StoredStays
<1>3. ASSUME NEW h \in Handlers,
             pc[h] = "write",
             ETagMatches(h),
             StoreRollup(KeyOf(h), Merge(job[h].base, job[h].evt))
      PROVE  StoredStays
  BY <1>1, <1>3, CommitEffect DEF StoredStays
<1> QED
  BY <1>2, <1>3, RowEffect

\* The announcing invariant survives every step that leaves markers and
\* announcements alone and brings a worker into runDetection only on a row
\* that is stored.
LEMMA AnnounceFrame ==
  ASSUME TypeOK, AnnounceInv,
         UNCHANGED alarms,
         StoredStays,
         \A w \in Workers : pc'[w] \in Detecting =>
           /\ probe'[w].key = probe[w].key
           /\ probe[w].key \in Key
           /\ pc'[w] = "publish" => pc[w] = "publish"
           /\ pc[w] \in Detecting \/ rollup[probe[w].key].etag > 0
  PROVE  AnnounceInv'
<1>1. PublisherIsAlone'
  BY DEF AnnounceInv, PublisherIsAlone, alarms, Detecting
<1>2. \A w \in Workers : pc'[w] \in Detecting => rollup'[probe'[w].key].etag > 0
  BY DEF StoredStays, AnnounceInv, MarkedIsStored, Detecting
<1>3. \A k \in Key : announced'[k] = announced[k] /\ (k \in marker <=> k \in marker')
  BY DEF alarms
<1>4. marker \subseteq Key
  BY DEF TypeOK, DataTypeOK
<1>5. MarkedIsStored'
  BY <1>2, <1>3, <1>4
    DEF StoredStays, AnnounceInv, MarkedIsStored, Detecting, alarms
<1>6. AnnouncedOnce' /\ AnnouncedIsMarked'
  BY <1>3 DEF StoredStays, AnnounceInv, AnnouncedOnce, AnnouncedIsMarked
<1> QED
  BY <1>1, <1>5, <1>6 DEF AnnounceInv

\* So it does when one worker stays out of runDetection or leaves it.
LEMMA LeaveFrame ==
  ASSUME TypeOK, AnnounceInv,
         UNCHANGED alarms,
         StoredStays,
         NEW w \in Workers,
         Goto(w, pc'[w]), pc'[w] \notin Detecting,
         \A v \in Workers \ {w} : probe'[v] = probe[v]
  PROVE  AnnounceInv'
<1>1. \A v \in Workers : pc'[v] \in Detecting =>
        v # w /\ pc'[v] = pc[v] /\ probe'[v] = probe[v]
  BY DEF TypeOK, LocalTypeOK
<1>2. \A v \in Workers : pc[v] \in Detecting => probe[v].key \in Key
  BY DEF TypeOK, LocalTypeOK, Detecting, Probing
<1> QED
  BY <1>1, <1>2, AnnounceFrame

\* The winner of the marker is the only one to announce the row.
LEMMA MarkerEffect ==
  ASSUME TypeOK, AnnounceInv,
         NEW w \in Workers,
         SaveMarker(w)
  PROVE  AnnounceInv'
<1> DEFINE k0 == probe[w].key
<1>0. /\ pc[w] = "marker" /\ k0 \in Key /\ k0 \notin marker
      /\ marker' = marker \cup {k0}
      /\ UNCHANGED <<announced, rollup, probe>>
  BY DEF SaveMarker, AlreadyMarked, TypeOK, LocalTypeOK, Probing, store
<1>1. \A v \in Workers : pc'[v] = IF v = w THEN "publish" ELSE pc[v]
  BY DEF SaveMarker, TypeOK, LocalTypeOK
<1>2. rollup[k0].etag > 0
  BY <1>0 DEF AnnounceInv, MarkedIsStored
<1>3. announced[k0] = 0
  <2>1. ~(announced[k0] > 0)
    BY <1>0 DEF AnnounceInv, AnnouncedIsMarked
  <2>2. announced[k0] \in Nat
    BY <1>0 DEF TypeOK, DataTypeOK
  <2> QED
    BY <2>1, <2>2
<1>4. \A v \in Workers : pc[v] = "publish" => probe[v].key # k0
  BY <1>0 DEF AnnounceInv, PublisherIsAlone
<1> HIDE DEF k0
<1>5. PublisherIsAlone'
  <2> SUFFICES ASSUME NEW v \in Workers, pc'[v] = "publish"
               PROVE  /\ probe[v].key \in marker'
                      /\ announced[probe[v].key] = 0
                      /\ \A u \in Workers :
                           pc'[u] = "publish" /\ probe[u].key = probe[v].key
                             => u = v
    BY <1>0 DEF PublisherIsAlone
  <2>1. CASE v = w
    BY <1>0, <1>1, <1>3, <1>4, <2>1 DEF k0
  <2>2. CASE v # w
    BY <1>0, <1>1, <1>4, <2>2 DEF AnnounceInv, PublisherIsAlone, k0
  <2> QED
    BY <2>1, <2>2
<1>6. MarkedIsStored'
  BY <1>0, <1>1, <1>2 DEF AnnounceInv, MarkedIsStored, k0
<1>7. AnnouncedOnce' /\ AnnouncedIsMarked'
  BY <1>0 DEF AnnounceInv, AnnouncedOnce, AnnouncedIsMarked
<1> QED
  BY <1>5, <1>6, <1>7 DEF AnnounceInv

\* A marker whose answer was lost belongs to nobody.
LEMMA LostMarkerEffect ==
  ASSUME TypeOK, AnnounceInv,
         NEW w \in Workers,
         pc[w] = "marker",
         marker' = marker \cup {probe[w].key},
         Goto(w, Done(w)),
         UNCHANGED <<announced, rollup, probe>>
  PROVE  AnnounceInv'
<1>1. rollup[probe[w].key].etag > 0
  BY DEF AnnounceInv, MarkedIsStored
<1>2. \A v \in Workers : pc'[v] \in Detecting => v # w /\ pc'[v] = pc[v]
  BY DEF TypeOK, LocalTypeOK, Done, Detecting
<1>3. PublisherIsAlone'
  BY <1>2 DEF AnnounceInv, PublisherIsAlone, Detecting
<1>4. MarkedIsStored'
  BY <1>1, <1>2 DEF AnnounceInv, MarkedIsStored, Detecting
<1>5. AnnouncedOnce' /\ AnnouncedIsMarked'
  BY DEF AnnounceInv, AnnouncedOnce, AnnouncedIsMarked
<1> QED
  BY <1>3, <1>4, <1>5 DEF AnnounceInv

\* The one that is about to announce a row announces it for the first time.
LEMMA AnnounceEffect ==
  ASSUME TypeOK, AnnounceInv,
         NEW w \in Workers,
         pc[w] = "publish",
         announced' = [announced EXCEPT ![probe[w].key] = @ + 1],
         Goto(w, Done(w)),
         UNCHANGED <<marker, rollup, probe>>
  PROVE  AnnounceInv'
<1> DEFINE k0 == probe[w].key
<1>0. /\ k0 \in Key /\ k0 \in marker /\ announced[k0] = 0
      /\ \A v \in Workers : pc[v] = "publish" /\ probe[v].key = k0 => v = w
  BY DEF TypeOK, LocalTypeOK, Probing, AnnounceInv, PublisherIsAlone
<1>1. \A k \in Key : announced'[k] = IF k = k0 THEN 1 ELSE announced[k]
  BY <1>0 DEF TypeOK, DataTypeOK
<1>2. \A v \in Workers : pc'[v] \in Detecting => v # w /\ pc'[v] = pc[v]
  BY DEF TypeOK, LocalTypeOK, Done, Detecting
<1>3. \A v \in Workers : pc[v] = "publish" => probe[v].key \in Key
  BY DEF TypeOK, LocalTypeOK, Probing
<1> HIDE DEF k0
<1>4. PublisherIsAlone'
  BY <1>0, <1>1, <1>2, <1>3 DEF AnnounceInv, PublisherIsAlone, Detecting
<1>5. MarkedIsStored'
  BY <1>2 DEF AnnounceInv, MarkedIsStored, Detecting
<1>6. AnnouncedOnce'
  BY <1>1 DEF AnnounceInv, AnnouncedOnce
<1>7. AnnouncedIsMarked'
  BY <1>0, <1>1 DEF AnnounceInv, AnnouncedIsMarked, MarkedIsStored
<1> QED
  BY <1>4, <1>5, <1>6, <1>7 DEF AnnounceInv

\* No step announces a row twice, or one that is not marked.
LEMMA AnnounceNext ==
  ASSUME TypeOK, CountInv, AnnounceInv, [Next]_vars
  PROVE  AnnounceInv'
<1> USE RowsStay
<1>0. /\ pc \in [Workers -> HandlerPC \cup ScannerPC]
      /\ probe \in [Workers -> Probe]
      /\ \A h \in Handlers : h \in Workers
      /\ \A s \in Scanners : s \in Workers
      /\ \A w \in Workers : pc[w] \in Detecting => probe[w].key \in Key
  BY DEF TypeOK, LocalTypeOK, Workers, Detecting, Probing
<1>1. ASSUME UNCHANGED <<alarms, pc, probe>> PROVE AnnounceInv'
  BY <1>0, <1>1, AnnounceFrame
<1>2. ASSUME NEW e \in Events, Publish(e) PROVE AnnounceInv'
  BY <1>1, <1>2 DEF Publish, locals
<1>3. ASSUME NEW h \in Handlers, Receive(h) PROVE AnnounceInv'
  <2>1. ASSUME NEW e \in Events, Deliver(h, e) PROVE AnnounceInv'
    BY <1>0, <2>1, LeaveFrame DEF Deliver, Detecting
  <2>2. ASSUME NEW e \in Events, DropMalformed(h, e) PROVE AnnounceInv'
    BY <1>1, <2>2 DEF DropMalformed, locals
  <2> QED
    BY <1>3, <2>1, <2>2 DEF Receive
<1>4. ASSUME NEW h \in Handlers, Apply(h) PROVE AnnounceInv'
  <2>1. CASE MarkProcessed(h)
    BY <1>0, <2>1, LeaveFrame DEF MarkProcessed, Detecting
  <2>2. CASE SkipDuplicate(h)
    BY <1>0, <2>2, LeaveFrame DEF SkipDuplicate, Detecting
  <2>3. CASE ReadRollup(h)
    BY <1>0, <2>3, LeaveFrame DEF ReadRollup, Detecting
  <2>4. CASE CommitRollup(h)
    BY <1>0, <2>4, LeaveFrame DEF CommitRollup, Detecting
  <2>5. CASE RetryRollup(h)
    BY <1>0, <2>5, LeaveFrame DEF RetryRollup, Detecting
  <2>6. CASE ExhaustRollup(h)
    BY <1>0, <2>6, LeaveFrame DEF ExhaustRollup, Detecting
  <2>7. CASE Respond(h)
    BY <1>0, <2>7, LeaveFrame DEF Respond, Detecting
  <2> QED
    BY <1>4, <2>1, <2>2, <2>3, <2>4, <2>5, <2>6, <2>7 DEF Apply
<1>5. \A w \in Workers : Done(w) \notin Detecting
  BY DEF Done, Detecting
<1>6. ASSUME NEW w \in Workers, Goto(w, Done(w)), UNCHANGED <<alarms, probe>>
      PROVE  AnnounceInv'
  <2>1. pc'[w] = Done(w)
    BY <1>0, <1>6
  <2> QED
    BY <1>5, <1>6, <2>1, LeaveFrame
<1>7. ASSUME NEW w \in Workers, RunDetection(w) PROVE AnnounceInv'
  <2>1. CASE FetchCurrent(w)
    <3>1. CASE Present(rollup, probe[w].key)
      <4>1. /\ UNCHANGED alarms
            /\ Goto(w, "prior")
            /\ probe' = [probe EXCEPT
                 ![w].current = rollup[probe[w].key].merged]
            /\ probe[w].key \in Key /\ rollup[probe[w].key].etag > 0
        BY <2>1, <3>1 DEF FetchCurrent, Present
      <4>2. \A v \in Workers : probe'[v].key = probe[v].key
        BY <1>0, <4>1 DEF Probe
      <4>3. \A v \in Workers : pc'[v] = IF v = w THEN "prior" ELSE pc[v]
        BY <1>0, <4>1
      <4> QED
        BY <1>0, <4>1, <4>2, <4>3, AnnounceFrame
    <3>2. CASE ~Present(rollup, probe[w].key)
      BY <1>6, <2>1, <3>2 DEF FetchCurrent
    <3> QED
      BY <3>1, <3>2
  <2>2. CASE FetchPrior(w)
    <3>1. \A v \in Workers : probe'[v].key = probe[v].key
      BY <1>0, <2>2 DEF FetchPrior, Probe
    <3> QED
      BY <1>0, <2>2, <3>1, AnnounceFrame DEF FetchPrior
  <2>3. CASE RunDetect(w)
    <3>1. CASE IsAnomaly(w)
      <4>1. /\ \A v \in Workers : pc'[v] = IF v = w THEN "marker" ELSE pc[v]
            /\ pc[w] \in Detecting
            /\ UNCHANGED <<alarms, probe>>
        BY <1>0, <2>3, <3>1 DEF RunDetect, Detecting
      <4> QED
        BY <1>0, <4>1, AnnounceFrame
    <3>2. CASE ~IsAnomaly(w)
      BY <1>6, <2>3, <3>2 DEF RunDetect
    <3> QED
      BY <3>1, <3>2
  <2>4. CASE SaveMarker(w)
    BY <2>4, MarkerEffect
  <2>5. CASE DetectedDup(w)
    BY <1>6, <2>5 DEF DetectedDup
  <2>6. CASE PublishAnomaly(w)
    BY <2>6, AnnounceEffect DEF PublishAnomaly, store
  <2> QED
    BY <1>7, <2>1, <2>2, <2>3, <2>4, <2>5, <2>6 DEF RunDetection
<1>8. ASSUME NEW s \in Scanners,
             ScanStep(s) \/ \E d \in Days : StartScan(s, d)
      PROVE  AnnounceInv'
  <2>1. CASE NextPair(s)
    BY <1>0, <2>1, LeaveFrame DEF NextPair, Detecting
  <2>2. CASE EndScan(s)
    BY <1>0, <2>2, LeaveFrame DEF EndScan, Detecting
  <2>3. ASSUME NEW d \in Days, StartScan(s, d) PROVE AnnounceInv'
    BY <1>0, <2>3, LeaveFrame DEF StartScan, Detecting
  <2> QED
    BY <1>8, <2>1, <2>2, <2>3 DEF ScanStep
<1>9. ASSUME Disturb PROVE AnnounceInv'
  <2>1. CASE Crash
    <3>1. \A w \in Workers : pc'[w] \notin Detecting
      BY <2>1 DEF Crash, Detecting
    <3> QED
      BY <2>1, <3>1, AnnounceFrame DEF Crash
  <2>2. ASSUME NEW h \in Handlers, Redeliver(h) PROVE AnnounceInv'
    BY <1>1, <2>2 DEF Redeliver
  <2>3. ASSUME NEW h \in Handlers, MarkProcessedFails(h) PROVE AnnounceInv'
    BY <1>0, <2>3, LeaveFrame DEF MarkProcessedFails, Detecting
  <2>4. ASSUME NEW h \in Handlers, ReadRollupFails(h) PROVE AnnounceInv'
    BY <1>0, <2>4, LeaveFrame DEF ReadRollupFails, Detecting
  <2>5. ASSUME NEW h \in Handlers, WriteRollupFails(h) PROVE AnnounceInv'
    BY <1>0, <2>5, LeaveFrame DEF WriteRollupFails, Detecting
  <2>6. ASSUME NEW w \in Workers, FetchFails(w) PROVE AnnounceInv'
    BY <1>6, <2>6 DEF FetchFails
  <2>7. ASSUME NEW w \in Workers, SaveMarkerFails(w) PROVE AnnounceInv'
    <3>1. CASE marker' = marker
      BY <1>6, <2>7, <3>1 DEF SaveMarkerFails, alarms
    <3>2. CASE marker' = marker \cup {probe[w].key}
      BY <2>7, <3>2, LostMarkerEffect DEF SaveMarkerFails, store
    <3> QED
      BY <2>7, <3>1, <3>2 DEF SaveMarkerFails
  <2>8. ASSUME NEW w \in Workers, PublishAnomalyFails(w) PROVE AnnounceInv'
    <3>1. CASE announced' = announced
      BY <1>6, <2>8, <3>1 DEF PublishAnomalyFails, alarms
    <3>2. CASE announced' = [announced EXCEPT ![probe[w].key] = @ + 1]
      BY <2>8, <3>2, AnnounceEffect DEF PublishAnomalyFails, store
    <3> QED
      BY <2>8, <3>1, <3>2 DEF PublishAnomalyFails
  <2> QED
    BY <1>9, <2>1, <2>2, <2>3, <2>4, <2>5, <2>6, <2>7, <2>8 DEF Disturb
<1>10. CASE UNCHANGED vars
  BY <1>1, <1>10 DEF vars, locals
<1> QED
  BY <1>2, <1>3, <1>4, <1>7, <1>8, <1>9, <1>10 DEF Next

\* Before anything happened nothing is marked or announced.
LEMMA AnnounceInit == Init => AnnounceInv
BY DEF Init, AnnounceInv, PublisherIsAlone, MarkedIsStored, AnnouncedOnce,
       AnnouncedIsMarked

\* main.go:254-256: whatever triggers, races and fails, a row is announced at
\* most once.
THEOREM OneAnnouncement == Spec => []AnnouncedOnce
<1>1. TypeOK /\ CountInv /\ [Next]_vars => CountInv'
  BY CountNext
<1>2. TypeOK /\ CountInv /\ AnnounceInv /\ [Next]_vars => AnnounceInv'
  BY AnnounceNext
<1>3. AnnounceInv => AnnouncedOnce
  BY DEF AnnounceInv
<1> QED
  BY TypeCorrect, CountInit, AnnounceInit, <1>1, <1>2, <1>3, PTL DEF Spec

-----------------------------------------------------------------------------
(***************************************************************************)
(* ImplementsLedger                                                        *)
(***************************************************************************)
\* What handlers have in hand was published, if new deliveries come from the
\* queue and only publications and deliveries in hand go into it.
LEMMA DeliveredFrame ==
  ASSUME TypeOK, CountInv, DeliveredIsPublished, [Next]_vars,
         \A e \in Events : published[e] > 0 => published'[e] > 0,
         \A e \in Events : queue'[e] > 0 => queue[e] > 0 \/ published'[e] > 0,
         \A h \in Handlers : pc'[h] # "idle" =>
           \/ pc[h] # "idle" /\ job'[h].evt = job[h].evt
           \/ job'[h].evt \in Events /\ published'[job'[h].evt] > 0
  PROVE  DeliveredIsPublished'
<1>1. \A e \in Events : queue'[e] > 0 => published'[e] > 0
  BY DEF DeliveredIsPublished
<1>2. \A h \in Handlers : pc'[h] # "idle" => published'[job'[h].evt] > 0
  BY DEF DeliveredIsPublished, TypeOK, LocalTypeOK
<1>3. \A k \in Key : rollup'[k].etag > 0 =>
        \E e \in Events : rollup'[k].merged[e] > 0
  <2>1. CASE rollup' = rollup
    BY <2>1 DEF DeliveredIsPublished
  <2>2. ASSUME NEW h \in Handlers,
               pc[h] = "write",
               ETagMatches(h),
               StoreRollup(KeyOf(h), Merge(job[h].base, job[h].evt))
        PROVE  \A k \in Key : rollup'[k].etag > 0 =>
                 \E e \in Events : rollup'[k].merged[e] > 0
    BY <2>2, CommitEffect DEF DeliveredIsPublished
  <2> QED
    BY <2>1, <2>2, RowEffect
<1> QED
  BY <1>1, <1>2, <1>3 DEF DeliveredIsPublished

\* Nothing that was not published is ever delivered.
LEMMA DeliveredNext ==
  ASSUME TypeOK, CountInv, DeliveredIsPublished, [Next]_vars
  PROVE  DeliveredIsPublished'
<1>0. /\ pc \in [Workers -> HandlerPC \cup ScannerPC]
      /\ job \in [Handlers -> Job]
      /\ queue \in [Events -> Nat] /\ published \in [Events -> Nat]
      /\ \A h \in Handlers : h \in Workers
      /\ \A s \in Scanners : s \in Workers /\ s \notin Handlers
      /\ \A h \in Handlers : pc[h] # "idle" =>
           job[h].evt \in Events /\ published[job[h].evt] > 0
      /\ \A e \in Events : queue[e] > 0 => published[e] > 0
  BY WorkersAssumption, BoundsAssumption
  DEF TypeOK, DataTypeOK, LocalTypeOK, Workers, DeliveredIsPublished
<1>1. ASSUME UNCHANGED <<queue, published>>,
             \A h \in Handlers : pc'[h] # "idle" =>
               pc[h] # "idle" /\ job'[h].evt = job[h].evt
      PROVE  DeliveredIsPublished'
  BY <1>0, <1>1, DeliveredFrame
<1>2. ASSUME NEW w \in Workers, Goto(w, pc'[w]), pc[w] # "idle" \/ w \in Scanners,
             UNCHANGED <<broker, job>>
      PROVE  DeliveredIsPublished'
  BY <1>0, <1>1, <1>2 DEF broker
<1>3. ASSUME NEW e \in Events, Publish(e) PROVE DeliveredIsPublished'
  <2>1. \A f \in Events : published'[f] = published[f] + IF f = e THEN 1 ELSE 0
    BY <1>0, <1>3 DEF Publish
  <2>2. \A f \in Events : queue'[f] = queue[f] + IF f = e THEN 1 ELSE 0
    BY <1>0, <1>3 DEF Publish
  <2>3. UNCHANGED <<pc, job>>
    BY <1>3 DEF Publish, locals
  <2>4. /\ \A f \in Events : published[f] > 0 => published'[f] > 0
        /\ \A f \in Events : queue'[f] > 0 => queue[f] > 0 \/ published'[f] > 0
    BY <1>0, <2>1, <2>2
  <2> QED
    BY <2>3, <2>4, DeliveredFrame
<1>4. ASSUME NEW h \in Handlers, Receive(h) PROVE DeliveredIsPublished'
  <2>1. ASSUME NEW e \in Events, Deliver(h, e) PROVE DeliveredIsPublished'
    <3>1. \A f \in Events : queue'[f] > 0 => queue[f] > 0
      BY <1>0, <2>1 DEF Deliver
    <3>2. JobFor(e).evt = e
      BY StartType
    <3>3. \A g \in Handlers :
            job'[g] = IF g = h THEN JobFor(e) ELSE job[g]
      BY <1>0, <2>1 DEF Deliver
    <3>4. \A g \in Handlers \ {h} : pc'[g] = pc[g]
      BY <1>0, <2>1 DEF Deliver
    <3>5. published' = published /\ published[e] > 0
      BY <1>0, <2>1 DEF Deliver
    <3> QED
      BY <3>1, <3>2, <3>3, <3>4, <3>5, DeliveredFrame
  <2>2. ASSUME NEW e \in Events, DropMalformed(h, e)
        PROVE DeliveredIsPublished'
    <3>1. \A f \in Events : queue'[f] > 0 => queue[f] > 0
      BY <1>0, <2>2 DEF DropMalformed
    <3> QED
      BY <2>2, <3>1, DeliveredFrame DEF DropMalformed, locals
  <2> QED
    BY <1>4, <2>1, <2>2 DEF Receive
<1>5. ASSUME NEW h \in Handlers, Apply(h) PROVE DeliveredIsPublished'
  <2>1. CASE MarkProcessed(h)
    BY <1>0, <1>2, <2>1 DEF MarkProcessed
  <2>2. CASE SkipDuplicate(h)
    BY <1>0, <1>2, <2>2 DEF SkipDuplicate
  <2>3. CASE ReadRollup(h)
    <3>1. rollup[KeyOf(h)] \in Row
      BY <1>0, <2>3, EventsAssumption DEF TypeOK, DataTypeOK, ReadRollup, KeyOf
    <3>2. \A g \in Handlers : job'[g].evt = job[g].evt
      BY <1>0, <2>3, <3>1, JobUpdate DEF ReadRollup
    <3> QED
      BY <1>0, <1>1, <2>3, <3>2 DEF ReadRollup, broker
  <2>4. CASE CommitRollup(h)
    BY <1>0, <1>2, <2>4 DEF CommitRollup
  <2>5. CASE RetryRollup(h)
    <3>1. \A g \in Handlers : job'[g].evt = job[g].evt
      BY <1>0, <2>5 DEF RetryRollup, Job
    <3> QED
      BY <1>0, <1>1, <2>5, <3>1 DEF RetryRollup, broker
  <2>6. CASE ExhaustRollup(h)
    BY <1>0, <1>2, <2>6 DEF ExhaustRollup
  <2>7. CASE Respond(h)
    <3>1. /\ published' = published
          /\ pc[h] # "idle" /\ pc'[h] = "idle"
          /\ \A g \in Handlers \ {h} : pc'[g] = pc[g] /\ job'[g] = job[g]
      BY <1>0, <2>7 DEF Respond, Answers
    <3>2. job[h].evt \in Events /\ published[job[h].evt] > 0
      BY <1>0, <3>1
    <3>3. \A f \in Events : queue'[f] > 0 => queue[f] > 0 \/ f = job[h].evt
      BY <1>0, <2>7, <3>2 DEF Respond
    <3> QED
      BY <3>1, <3>2, <3>3, DeliveredFrame
  <2> QED
    BY <1>5, <2>1, <2>2, <2>3, <2>4, <2>5, <2>6, <2>7 DEF Apply
<1>6. ASSUME NEW w \in Workers, RunDetection(w) PROVE DeliveredIsPublished'
  <2>1. pc[w] # "idle" /\ UNCHANGED <<broker, job>>
    BY <1>6 DEF RunDetection, FetchCurrent, FetchPrior, RunDetect, SaveMarker,
                DetectedDup, PublishAnomaly
  <2>2. \A h \in Handlers \ {w} : pc'[h] = pc[h]
    BY <1>0, <1>6 DEF RunDetection, FetchCurrent, FetchPrior, RunDetect,
                      SaveMarker, DetectedDup, PublishAnomaly
  <2> QED
    BY <1>1, <2>1, <2>2 DEF broker
<1>7. ASSUME NEW s \in Scanners,
             ScanStep(s) \/ \E d \in Days : StartScan(s, d)
      PROVE  DeliveredIsPublished'
  <2>1. UNCHANGED <<broker, job>>
    BY <1>7 DEF ScanStep, NextPair, EndScan, StartScan
  <2>2. \A h \in Handlers : pc'[h] = pc[h]
    BY <1>0, <1>7 DEF ScanStep, NextPair, EndScan, StartScan
  <2> QED
    BY <1>1, <2>1, <2>2 DEF broker
<1>8. ASSUME Disturb PROVE DeliveredIsPublished'
  <2>1. CASE Crash
    <3>1. \A e \in Events : queue'[e] > 0 => queue[e] > 0 \/ InFlight(e) # {}
      <4> TAKE e \in Events
      <4>1. queue'[e] = queue[e] + Cardinality(InFlight(e))
        BY <2>1 DEF Crash
      <4>2. InFlight(e) = {} => Cardinality(InFlight(e)) = 0
        BY FS_EmptySet
      <4> QED
        BY <1>0, <4>1, <4>2, InFlightIsFinite
    <3>2. \A e \in Events : InFlight(e) # {} => published[e] > 0
      BY <1>0 DEF InFlight
    <3>3. published' = published /\ \A h \in Handlers : pc'[h] = "idle"
      BY <1>0, <2>1 DEF Crash
    <3> QED
      BY <3>1, <3>2, <3>3, DeliveredFrame
  <2>2. ASSUME NEW h \in Handlers, Redeliver(h) PROVE DeliveredIsPublished'
    <3>1. \A g \in Handlers : job'[g].evt = job[g].evt
      BY <1>0, <2>2, JobUpdate DEF Redeliver
    <3>2. job[h].evt \in Events /\ published[job[h].evt] > 0
      BY <1>0, <2>2 DEF Redeliver
    <3>3. \A f \in Events : queue'[f] > 0 => queue[f] > 0 \/ f = job[h].evt
      BY <1>0, <2>2, <3>2 DEF Redeliver
    <3>4. UNCHANGED <<published, pc>>
      BY <2>2 DEF Redeliver
    <3> QED
      BY <3>1, <3>2, <3>3, <3>4, DeliveredFrame
  <2>3. ASSUME NEW h \in Handlers,
               \/ MarkProcessedFails(h)
               \/ ReadRollupFails(h) \/ WriteRollupFails(h)
        PROVE  DeliveredIsPublished'
    <3>1. pc[h] # "idle" /\ Goto(h, "RETRY") /\ UNCHANGED <<broker, job>>
      BY <2>3 DEF MarkProcessedFails, ReadRollupFails, WriteRollupFails
    <3> QED
      BY <1>0, <1>2, <3>1
  <2>4. ASSUME NEW w \in Workers,
               FetchFails(w) \/ SaveMarkerFails(w) \/ PublishAnomalyFails(w)
        PROVE  DeliveredIsPublished'
    <3>1. pc[w] # "idle" /\ Goto(w, Done(w)) /\ UNCHANGED <<broker, job>>
      BY <2>4 DEF FetchFails, SaveMarkerFails, PublishAnomalyFails
    <3> QED
      BY <1>0, <1>2, <3>1
  <2> QED
    BY <1>8, <2>1, <2>2, <2>3, <2>4 DEF Disturb
<1>9. CASE UNCHANGED vars
  BY <1>1, <1>9 DEF vars, broker, locals
<1> QED
  BY <1>3, <1>4, <1>5, <1>6, <1>7, <1>8, <1>9 DEF Next

\* Before anything happened nothing is published or stored.
LEMMA DeliveredInit == Init => DeliveredIsPublished
BY DEF Init, DeliveredIsPublished, Absent, Workers

-----------------------------------------------------------------------------
\* The abstract ledger's view of this state.
Submitted == {e \in Events : published[e] > 0}
Entries == [k \in Key |-> rollup[k].merged]

\* Only the publisher submits, only a commit enters, only a publication of
\* runDetection announces.
LEMMA WhoChangesWhat ==
  ASSUME [Next]_vars
  PROVE  \/ UNCHANGED <<published, rollup, announced>>
         \/ /\ \E e \in Events : Publish(e)
            /\ UNCHANGED <<rollup, announced>>
         \/ /\ \E h \in Handlers :
                 /\ pc[h] = "write"
                 /\ ETagMatches(h)
                 /\ StoreRollup(KeyOf(h), Merge(job[h].base, job[h].evt))
            /\ UNCHANGED <<published, announced>>
         \/ /\ \E w \in Workers :
                 /\ pc[w] = "publish"
                 /\ announced' = [announced EXCEPT ![probe[w].key] = @ + 1]
            /\ UNCHANGED <<published, rollup>>
<1> USE DEF broker, store, alarms
<1>1. ASSUME NEW e \in Events, Publish(e)
      PROVE  UNCHANGED <<rollup, announced>>
  BY <1>1 DEF Publish
<1>2. ASSUME NEW h \in Handlers, Receive(h)
      PROVE  UNCHANGED <<published, rollup, announced>>
  BY <1>2 DEF Receive, Deliver, DropMalformed
<1>3. ASSUME NEW h \in Handlers, Apply(h), ~CommitRollup(h)
      PROVE  UNCHANGED <<published, rollup, announced>>
  BY <1>3 DEF Apply, MarkProcessed, SkipDuplicate, ReadRollup, RetryRollup,
              ExhaustRollup, Respond
<1>4. ASSUME NEW w \in Workers, RunDetection(w), ~PublishAnomaly(w)
      PROVE  UNCHANGED <<published, rollup, announced>>
  BY <1>4 DEF RunDetection, FetchCurrent, FetchPrior, RunDetect, SaveMarker,
              DetectedDup
<1>5. ASSUME NEW s \in Scanners,
             ScanStep(s) \/ \E d \in Days : StartScan(s, d)
      PROVE  UNCHANGED <<published, rollup, announced>>
  BY <1>5 DEF ScanStep, NextPair, EndScan, StartScan
<1>6. ASSUME Crash PROVE UNCHANGED <<published, rollup, announced>>
  BY <1>6 DEF Crash
<1>7. ASSUME NEW h \in Handlers,
             Redeliver(h) \/ MarkProcessedFails(h) \/ ReadRollupFails(h)
      PROVE  UNCHANGED <<published, rollup, announced>>
  BY <1>7 DEF Redeliver, MarkProcessedFails, ReadRollupFails
<1>8. ASSUME NEW w \in Workers, FetchFails(w) \/ SaveMarkerFails(w)
      PROVE  UNCHANGED <<published, rollup, announced>>
  BY <1>8 DEF FetchFails, SaveMarkerFails
<1>9. ASSUME NEW h \in Handlers, CommitRollup(h) \/ WriteRollupFails(h)
      PROVE  \/ UNCHANGED <<published, rollup, announced>>
             \/ /\ pc[h] = "write"
                /\ ETagMatches(h)
                /\ StoreRollup(KeyOf(h), Merge(job[h].base, job[h].evt))
                /\ UNCHANGED <<published, announced>>
  BY <1>9 DEF CommitRollup, WriteRollupFails
<1>10. ASSUME NEW w \in Workers, PublishAnomaly(w) \/ PublishAnomalyFails(w)
       PROVE  \/ UNCHANGED <<published, rollup, announced>>
              \/ /\ pc[w] = "publish"
                 /\ announced' = [announced EXCEPT ![probe[w].key] = @ + 1]
                 /\ UNCHANGED <<published, rollup>>
  BY <1>10 DEF PublishAnomaly, PublishAnomalyFails
<1>11. CASE UNCHANGED vars
  BY <1>11 DEF vars
<1>12. ASSUME Disturb
       PROVE  \/ Crash
              \/ \E h \in Handlers :
                   \/ Redeliver(h) \/ MarkProcessedFails(h)
                   \/ ReadRollupFails(h) \/ WriteRollupFails(h)
              \/ \E w \in Workers :
                   FetchFails(w) \/ SaveMarkerFails(w) \/ PublishAnomalyFails(w)
  BY <1>12 DEF Disturb
<1> QED
  BY <1>1, <1>2, <1>3, <1>4, <1>5, <1>6, <1>7, <1>8, <1>9, <1>10, <1>11,
     <1>12 DEF Next

\* Every step of the service is a step of the ledger or leaves it alone.
LEMMA LedgerStep ==
  ASSUME TypeOK, CountInv, AnnounceInv, DeliveredIsPublished, [Next]_vars
  PROVE  [Ledger!Next]_<<Submitted, Entries, announced>>
<1>1. CASE UNCHANGED <<published, rollup, announced>>
  BY <1>1 DEF Submitted, Entries
<1>2. ASSUME NEW e \in Events, Publish(e), UNCHANGED <<rollup, announced>>
      PROVE  Ledger!Submit(e)
  <2>1. \A f \in Events : published'[f] = IF f = e THEN published[f] + 1
                                                   ELSE published[f]
    BY <1>2 DEF Publish, TypeOK, DataTypeOK
  <2>2. \A f \in Events : published[f] \in Nat
    BY BoundsAssumption DEF TypeOK, DataTypeOK
  <2>3. Submitted' = Submitted \cup {e}
    BY <2>1, <2>2 DEF Submitted
  <2> QED
    BY <1>2, <2>3 DEF Ledger!Submit, Submitted, Entries
<1>3. ASSUME NEW h \in Handlers,
             pc[h] = "write",
             ETagMatches(h),
             StoreRollup(KeyOf(h), Merge(job[h].base, job[h].evt)),
             UNCHANGED <<published, announced>>
      PROVE  job[h].evt \in Events /\ Ledger!Enter(job[h].evt)
  <2> DEFINE e == job[h].evt
  <2>1. /\ e \in Events /\ KeyOf(h) \in Key
        /\ \A k \in Key : k # KeyOf(h) => rollup'[k] = rollup[k]
        /\ \A k \in Key, f \in Events :
             rollup'[k].merged[f] = IF k = KeyOf(h) /\ f = e
                                      THEN 1 ELSE rollup[k].merged[f]
    BY <1>3, CommitEffect
  <2>2. e \in Submitted
    BY <1>3, <2>1 DEF DeliveredIsPublished, Submitted
  <2>3. ~Ledger!Entered(LineId[e])
    <3>1. CountedAs(LineId[e]) = {}
      BY <1>3 DEF CountInv, HolderIsAlone, Holds, IdOf
    <3>2. \A f \in Events : Entries[EventKey[f]] = rollup[EventKey[f]].merged
      BY EventsAssumption DEF Entries
    <3> QED
      BY <3>1, <3>2 DEF CountedAs, Ledger!Entered, Entries
  <2>4. Entries' = [Entries EXCEPT ![EventKey[e]] = [@ EXCEPT ![e] = 1]]
    <3>1. \A k \in Key : rollup[k].merged \in Bag
      BY DEF TypeOK, DataTypeOK, Row
    <3>2. rollup' = [rollup EXCEPT ![KeyOf(h)] = rollup'[KeyOf(h)]]
      BY <1>3, <2>1 DEF StoreRollup, TypeOK, DataTypeOK
    <3>3. rollup'[KeyOf(h)].merged \in Bag
      <4>1. job[h].base \in Row
        BY <1>3 DEF TypeOK, LocalTypeOK, Job
      <4>2. rollup'[KeyOf(h)] = Merge(job[h].base, job[h].evt)
        BY <1>3, <2>1 DEF StoreRollup, TypeOK, DataTypeOK
      <4> QED
        BY <2>1, <4>1, <4>2, MergeType DEF Row
    <3>4. rollup'[KeyOf(h)].merged = [rollup[KeyOf(h)].merged EXCEPT ![e] = 1]
      BY <2>1, <3>1, <3>3 DEF Bag
    <3> QED
      BY <2>1, <3>4 DEF Entries, KeyOf
  <2> QED
    BY <1>3, <2>1, <2>2, <2>3, <2>4 DEF Ledger!Enter, Submitted, Entries
<1>4. ASSUME NEW w \in Workers,
             pc[w] = "publish",
             announced' = [announced EXCEPT ![probe[w].key] = @ + 1],
             UNCHANGED <<published, rollup>>
      PROVE  probe[w].key \in Key /\ Ledger!Announce(probe[w].key)
  <2> DEFINE k == probe[w].key
  <2>1. k \in Key /\ announced[k] = 0
    BY <1>4 DEF TypeOK, LocalTypeOK, Probing, AnnounceInv, PublisherIsAlone
  <2>2. \E e \in Events : Entries[k][e] > 0
    BY <1>4, <2>1
    DEF AnnounceInv, MarkedIsStored, DeliveredIsPublished, Entries
  <2> QED
    BY <1>4, <2>1, <2>2 DEF Ledger!Announce, Submitted, Entries
<1>5. CASE /\ \E e \in Events : Publish(e)
           /\ UNCHANGED <<rollup, announced>>
  BY <1>2, <1>5 DEF Ledger!Next
<1>6. CASE /\ \E h \in Handlers :
                /\ pc[h] = "write"
                /\ ETagMatches(h)
                /\ StoreRollup(KeyOf(h), Merge(job[h].base, job[h].evt))
           /\ UNCHANGED <<published, announced>>
  <2>1. PICK h \in Handlers :
          /\ pc[h] = "write"
          /\ ETagMatches(h)
          /\ StoreRollup(KeyOf(h), Merge(job[h].base, job[h].evt))
    BY <1>6
  <2>2. job[h].evt \in Events /\ Ledger!Enter(job[h].evt)
    BY <1>3, <1>6, <2>1
  <2>3. \E e \in Events : Ledger!Enter(e)
    BY <2>2 DEF Ledger!Enter
  <2> QED
    BY <2>3 DEF Ledger!Next
<1>7. CASE /\ \E w \in Workers :
                /\ pc[w] = "publish"
                /\ announced' = [announced EXCEPT ![probe[w].key] = @ + 1]
           /\ UNCHANGED <<published, rollup>>
  <2>1. \E k \in Key : Ledger!Announce(k)
    BY <1>4, <1>7 DEF Ledger!Announce
  <2> QED
    BY <2>1 DEF Ledger!Next
<1> QED
  BY <1>1, <1>5, <1>6, <1>7, WhoChangesWhat

\* The properties' inductive strengthening holds in every reachable state.
THEOREM InductiveHolds == Spec => []InductiveInv
<1>1. Init => InductiveInv
  BY CountInit, AnnounceInit, DeliveredInit DEF InductiveInv
<1>2. TypeOK /\ InductiveInv /\ [Next]_vars => InductiveInv'
  BY CountNext, AnnounceNext, DeliveredNext DEF InductiveInv
<1> QED
  BY TypeCorrect, <1>1, <1>2, PTL DEF Spec

\* Seen through the stored rows, the service is the abstract ledger: an id
\* enters once, entries stay, a row is announced once, whatever interleaves
\* and fails.
THEOREM LedgerIsImplemented == Spec => ImplementsLedger
<1>1. Init => Ledger!Init
  BY DEF Init, Absent, EmptyBag, Ledger!Init
<1>2. TypeOK /\ InductiveInv /\ [Next]_vars =>
        [Ledger!Next]_<<Submitted, Entries, announced>>
  BY LedgerStep DEF InductiveInv
<1>3. TypeOK /\ InductiveInv /\ [Next]_vars => [Ledger!Next]_(Ledger!vars)
  BY <1>2 DEF Submitted, Entries, Ledger!vars
<1> QED
  BY TypeCorrect, InductiveHolds, <1>1, <1>3, PTL
  DEF Spec, ImplementsLedger, Ledger!Spec

-----------------------------------------------------------------------------
(***************************************************************************)
(* ContentionBound                                                         *)
(***************************************************************************)
\* A handler starts with its first attempt, and each further attempt was
\* preceded by a commit of somebody else to the same row.
AttemptBound(h) ==
  /\ pc[h] = "mark" => job[h].attempt = 1
  /\ pc[h] = "read" => job[h].attempt - 1 <= rollup[KeyOf(h)].etag
  /\ pc[h] = "write" => job[h].attempt - 1 <= job[h].base.etag

ContentionInv ==
  /\ \A h \in Handlers : AttemptBound(h)
  /\ exhausted => \E k \in Key : rollup[k].etag >= MaxETagRetries

\* No ETag goes back.
EtagsGrow == \A k \in Key : rollup[k].etag <= rollup'[k].etag

LEMMA EtagsStep ==
  ASSUME TypeOK, CountInv, [Next]_vars
  PROVE  EtagsGrow
<1>1. \A k \in Key : rollup[k].etag \in Nat
  BY DEF TypeOK, DataTypeOK, Row
<1>2. CASE rollup' = rollup
  BY <1>1, <1>2 DEF EtagsGrow
<1>3. ASSUME NEW h \in Handlers,
             pc[h] = "write",
             ETagMatches(h),
             StoreRollup(KeyOf(h), Merge(job[h].base, job[h].evt))
      PROVE  EtagsGrow
  BY <1>1, <1>3, CommitEffect DEF EtagsGrow
<1> QED
  BY <1>2, <1>3, RowEffect

\* A handler that is not applying an update, or goes on with it as before.
Unmoved(h) ==
  \/ pc'[h] \notin {"mark", "read", "write"}
  \/ /\ pc'[h] = pc[h]
     /\ job'[h].evt = job[h].evt
     /\ job'[h].attempt = job[h].attempt
     /\ job'[h].base = job[h].base

\* What a step has to show.
LEMMA ContentionFrame ==
  ASSUME TypeOK, TypeOK', ContentionInv, EtagsGrow,
         exhausted' => exhausted \/ \E k \in Key : rollup'[k].etag >= MaxETagRetries,
         \A h \in Handlers : Unmoved(h) \/ AttemptBound(h)'
  PROVE  ContentionInv'
<1>1. ASSUME NEW h \in Handlers, Unmoved(h) PROVE AttemptBound(h)'
  <2>1. CASE pc'[h] \notin {"mark", "read", "write"}
    BY <2>1 DEF AttemptBound
  <2>2. CASE /\ pc'[h] = pc[h] /\ job'[h].evt = job[h].evt
             /\ job'[h].attempt = job[h].attempt /\ job'[h].base = job[h].base
    <3>1. AttemptBound(h) /\ KeyOf(h)' = KeyOf(h)
      BY <2>2 DEF ContentionInv, KeyOf
    <3>2. ASSUME pc[h] = "read"
          PROVE  job[h].attempt - 1 <= rollup'[KeyOf(h)].etag
      <4>1. KeyOf(h) \in Key /\ job[h].attempt \in Nat
        BY <3>2, EventsAssumption, BoundsAssumption
        DEF KeyOf, TypeOK, LocalTypeOK, Job
      <4>2. rollup[KeyOf(h)].etag \in Nat /\ rollup'[KeyOf(h)].etag \in Nat
        BY <4>1 DEF TypeOK, DataTypeOK, Row
      <4> QED
        BY <3>1, <3>2, <4>1, <4>2 DEF AttemptBound, EtagsGrow
    <3> QED
      BY <2>2, <3>1, <3>2 DEF AttemptBound
  <2> QED
    BY <1>1, <2>1, <2>2 DEF Unmoved
<1>2. ASSUME NEW k \in Key, rollup[k].etag >= MaxETagRetries
      PROVE  rollup'[k].etag >= MaxETagRetries
  <2>1. rollup[k].etag \in Nat /\ rollup'[k].etag \in Nat /\ MaxETagRetries \in Nat
    BY BoundsAssumption DEF TypeOK, DataTypeOK, Row
  <2> QED
    BY <1>2, <2>1 DEF EtagsGrow
<1> QED
  BY <1>1, <1>2 DEF ContentionInv

\* Every lost race costs one attempt and was won by one commit.
LEMMA ContentionNext ==
  ASSUME TypeOK, TypeOK', CountInv, ContentionInv, [Next]_vars
  PROVE  ContentionInv'
<1>0. /\ pc \in [Workers -> HandlerPC \cup ScannerPC]
      /\ job \in [Handlers -> Job]
      /\ \A h \in Handlers : h \in Workers
      /\ \A s \in Scanners : s \in Workers /\ s \notin Handlers
  BY WorkersAssumption DEF TypeOK, LocalTypeOK, Workers
<1>1. EtagsGrow
  BY EtagsStep
<1>2. ASSUME exhausted' = exhausted, \A h \in Handlers : Unmoved(h) \/ AttemptBound(h)'
      PROVE  ContentionInv'
  BY <1>1, <1>2, ContentionFrame
<1>3. ASSUME NEW w \in Workers, Goto(w, pc'[w]), pc'[w] \notin {"mark", "read", "write"},
             job' = job
      PROVE  \A h \in Handlers : Unmoved(h)
  BY <1>0, <1>3 DEF Unmoved
<1>4. ASSUME NEW e \in Events, Publish(e) PROVE ContentionInv'
  BY <1>2, <1>4 DEF Publish, locals, ghosts, Unmoved
<1>5. ASSUME NEW h \in Handlers, Receive(h) PROVE ContentionInv'
  <2>1. ASSUME NEW e \in Events, Deliver(h, e) PROVE ContentionInv'
    <3>1. pc'[h] = "mark" /\ job'[h].attempt = 1
      BY <1>0, <2>1 DEF Deliver, JobFor
    <3>2. AttemptBound(h)'
      BY <3>1 DEF AttemptBound
    <3>3. \A g \in Handlers \ {h} : Unmoved(g)
      BY <1>0, <2>1 DEF Deliver, Unmoved
    <3> QED
      BY <1>2, <2>1, <3>2, <3>3 DEF Deliver, ghosts
  <2>2. ASSUME NEW e \in Events, DropMalformed(h, e) PROVE ContentionInv'
    BY <1>2, <2>2 DEF DropMalformed, locals, ghosts, Unmoved
  <2> QED
    BY <1>5, <2>1, <2>2 DEF Receive
<1>6. ASSUME NEW h \in Handlers, pc[h] \in {"mark", "read", "write"}
      PROVE  /\ job[h] \in Job /\ job[h].evt \in Events /\ KeyOf(h) \in Key
             /\ rollup[KeyOf(h)] \in Row /\ rollup[KeyOf(h)].etag \in Nat
             /\ job[h].attempt \in Nat /\ job[h].base.etag \in Nat
             /\ AttemptBound(h)
  BY <1>6, EventsAssumption, BoundsAssumption
  DEF TypeOK, DataTypeOK, LocalTypeOK, KeyOf, Job, Row, ContentionInv
<1>7. ASSUME NEW h \in Handlers, MarkProcessed(h) PROVE ContentionInv'
  <2>1. pc[h] = "mark" /\ pc'[h] = "read" /\ job' = job /\ rollup' = rollup
    BY <1>0, <1>7 DEF MarkProcessed
  <2>2. job[h].attempt = 1 /\ KeyOf(h)' = KeyOf(h) /\ rollup[KeyOf(h)].etag \in Nat
    BY <1>6, <2>1 DEF AttemptBound, KeyOf
  <2>3. job'[h].attempt - 1 <= rollup'[KeyOf(h)'].etag
    BY <2>1, <2>2
  <2>4. AttemptBound(h)'
    BY <2>1, <2>3 DEF AttemptBound
  <2>5. \A g \in Handlers \ {h} : Unmoved(g)
    BY <1>0, <1>7 DEF MarkProcessed, Unmoved
  <2> QED
    BY <1>2, <1>7, <2>4, <2>5 DEF MarkProcessed, ghosts
<1>8. ASSUME NEW h \in Handlers, ReadRollup(h) PROVE ContentionInv'
  <2>1. /\ pc[h] = "read" /\ pc'[h] = "write"
        /\ job' = [job EXCEPT ![h].base = rollup[KeyOf(h)]]
    BY <1>0, <1>8 DEF ReadRollup
  <2>2. job'[h].base = rollup[KeyOf(h)] /\ job'[h].attempt = job[h].attempt
    BY <1>0, <1>6, <2>1, JobUpdate
  <2>3. AttemptBound(h)'
    BY <1>6, <2>1, <2>2 DEF AttemptBound
  <2>4. \A g \in Handlers \ {h} : Unmoved(g)
    BY <1>0, <1>8 DEF ReadRollup, Unmoved
  <2> QED
    BY <1>2, <1>8, <2>3, <2>4 DEF ReadRollup, ghosts
<1>9. ASSUME NEW h \in Handlers, pc[h] = "write", ~ETagMatches(h)
      PROVE  job[h].attempt <= rollup[KeyOf(h)].etag
  <2>1. /\ job[h].attempt \in Nat /\ job[h].base.etag \in Nat
        /\ rollup[KeyOf(h)].etag \in Nat
        /\ job[h].attempt - 1 <= job[h].base.etag
    BY <1>6, <1>9 DEF AttemptBound
  <2>2. /\ job[h].base.etag <= rollup[KeyOf(h)].etag
        /\ job[h].base.etag # rollup[KeyOf(h)].etag
    BY <1>9 DEF CountInv, SnapshotFresh, ETagMatches
  <2> QED
    BY <2>1, <2>2
<1>10. ASSUME NEW h \in Handlers, RetryRollup(h) PROVE ContentionInv'
  <2>1. /\ pc[h] = "write" /\ ~ETagMatches(h) /\ ~LastAttempt(h) /\ pc'[h] = "read"
        /\ job' = [job EXCEPT ![h].attempt = @ + 1] /\ rollup' = rollup
    BY <1>0, <1>10 DEF RetryRollup, store
  <2>2. job[h].attempt < MaxETagRetries
    <3>1. MaxETagRetries \in Nat
      BY BoundsAssumption
    <3>2. job[h].attempt \in 1..MaxETagRetries
      BY <1>0 DEF Job
    <3>3. job[h].attempt # MaxETagRetries
      BY <2>1 DEF LastAttempt
    <3> QED
      BY ONLY <3>1, <3>2, <3>3
  <2>3. job'[h].attempt = job[h].attempt + 1 /\ job'[h].evt = job[h].evt
    BY <1>0, <2>1, <2>2, JobUpdate
  <2>4. KeyOf(h)' = KeyOf(h)
    BY <2>3 DEF KeyOf
  <2>5. job'[h].attempt - 1 <= rollup'[KeyOf(h)'].etag
    BY <1>6, <1>9, <2>1, <2>3, <2>4
  <2>6. AttemptBound(h)'
    BY <2>1, <2>5 DEF AttemptBound
  <2>7. \A g \in Handlers \ {h} : Unmoved(g)
    BY <1>0, <1>10 DEF RetryRollup, Unmoved
  <2> QED
    BY <1>2, <1>10, <2>6, <2>7 DEF RetryRollup, ghosts
<1>11. ASSUME NEW h \in Handlers, ExhaustRollup(h) PROVE ContentionInv'
  <2>1. /\ pc[h] = "write" /\ ~ETagMatches(h) /\ job[h].attempt = MaxETagRetries
        /\ rollup' = rollup /\ Goto(h, "RETRY") /\ job' = job
    BY <1>11 DEF ExhaustRollup, LastAttempt, store
  <2>2. KeyOf(h) \in Key /\ rollup[KeyOf(h)].etag \in Nat /\ MaxETagRetries \in Nat
    BY <1>6, <2>1, BoundsAssumption
  <2>3. rollup'[KeyOf(h)].etag >= MaxETagRetries
    BY <1>9, <2>1, <2>2
  <2>4. \A g \in Handlers : Unmoved(g)
    BY <1>0, <2>1 DEF Unmoved
  <2> QED
    BY <1>1, <2>2, <2>3, <2>4, ContentionFrame
<1>12. ASSUME NEW h \in Handlers, SkipDuplicate(h) \/ CommitRollup(h)
       PROVE  ContentionInv'
  <2>1. /\ Goto(h, "SUCCESS") \/ Goto(h, "current")
        /\ job' = job /\ exhausted' = exhausted
    BY <1>12 DEF SkipDuplicate, CommitRollup, DuplicateAnswer, ghosts
  <2>2. \A g \in Handlers : Unmoved(g)
    BY <1>0, <2>1 DEF Unmoved
  <2> QED
    BY <1>2, <2>1, <2>2
<1>13. ASSUME NEW h \in Handlers, Respond(h) PROVE ContentionInv'
  <2>1. \A g \in Handlers : Unmoved(g)
    BY <1>0, <1>13 DEF Respond, Unmoved
  <2> QED
    BY <1>2, <1>13, <2>1 DEF Respond, ghosts
<1>14. ASSUME NEW w \in Workers, RunDetection(w) PROVE ContentionInv'
  <2>1. Done(w) \notin {"mark", "read", "write"}
    BY DEF Done
  <2>2. job' = job /\ exhausted' = exhausted
    BY <1>14 DEF RunDetection, FetchCurrent, FetchPrior, RunDetect, SaveMarker,
       DetectedDup, PublishAnomaly, ghosts
  <2>3. CASE FetchPrior(w)
    BY <1>2, <2>2, <2>3 DEF FetchPrior, Unmoved
  <2>4. CASE ~FetchPrior(w)
    <3>1. Goto(w, pc'[w]) /\ pc'[w] \notin {"mark", "read", "write"}
      BY <1>0, <1>14, <2>1, <2>4 DEF RunDetection, FetchCurrent, RunDetect,
         SaveMarker, DetectedDup, PublishAnomaly
    <3> QED
      BY <1>2, <1>3, <2>2, <3>1
  <2> QED
    BY <2>3, <2>4
<1>15. ASSUME NEW s \in Scanners, ScanStep(s) \/ \E d \in Days : StartScan(s, d)
       PROVE  ContentionInv'
  <2>1. /\ job' = job /\ exhausted' = exhausted
        /\ \A h \in Handlers : pc'[h] = pc[h]
    BY <1>0, <1>15 DEF ScanStep, NextPair, EndScan, StartScan, ghosts
  <2> QED
    BY <1>2, <2>1 DEF Unmoved
<1>16. ASSUME Disturb PROVE ContentionInv'
  <2>1. CASE Crash
    BY <1>0, <1>2, <2>1 DEF Crash, Unmoved, ghosts
  <2>2. ASSUME NEW h \in Handlers, Redeliver(h) PROVE ContentionInv'
    <3>1. \A g \in Handlers :
            /\ job'[g].evt = job[g].evt /\ job'[g].base = job[g].base
            /\ job'[g].attempt = job[g].attempt
      BY <1>0, <2>2, JobUpdate DEF Redeliver
    <3> QED
      BY <1>2, <2>2, <3>1 DEF Redeliver, Unmoved, ghosts
  <2>3. ASSUME NEW h \in Handlers,
               \/ MarkProcessedFails(h)
               \/ ReadRollupFails(h) \/ WriteRollupFails(h)
        PROVE  ContentionInv'
    <3>1. Goto(h, "RETRY") /\ job' = job /\ exhausted' = exhausted
      BY <2>3 DEF MarkProcessedFails, ReadRollupFails, WriteRollupFails, ghosts
    <3>2. \A g \in Handlers : Unmoved(g)
      BY <1>0, <3>1 DEF Unmoved
    <3> QED
      BY <1>2, <3>1, <3>2
  <2>4. ASSUME NEW w \in Workers,
               FetchFails(w) \/ SaveMarkerFails(w) \/ PublishAnomalyFails(w)
        PROVE  ContentionInv'
    <3>1. Goto(w, Done(w)) /\ job' = job /\ exhausted' = exhausted
      BY <2>4 DEF FetchFails, SaveMarkerFails, PublishAnomalyFails, ghosts
    <3>2. Done(w) \notin {"mark", "read", "write"}
      BY DEF Done
    <3>3. \A g \in Handlers : Unmoved(g)
      BY <1>0, <3>1, <3>2 DEF Unmoved
    <3> QED
      BY <1>2, <3>1, <3>3
  <2> QED
    BY <1>16, <2>1, <2>2, <2>3, <2>4 DEF Disturb
<1>17. CASE UNCHANGED vars
  BY <1>2, <1>17 DEF vars, locals, ghosts, Unmoved
<1> QED
  BY <1>4, <1>5, <1>7, <1>8, <1>10, <1>11, <1>12, <1>13, <1>14, <1>15, <1>16,
     <1>17 DEF Next, Apply

LEMMA ContentionInit == Init => ContentionInv
BY DEF Init, ContentionInv, AttemptBound, Workers

\* main.go:365-409: the retries of an upsert are bounded by the commits of
\* others, and only run out on a row with as many commits.
THEOREM RacesAreWonByCommits == Spec => []ContentionBound
<1>1. TypeOK /\ TypeOK' /\ CountInv /\ ContentionInv /\ [Next]_vars => ContentionInv'
  BY ContentionNext
<1>2. ContentionInv => ContentionBound
  BY DEF ContentionInv, AttemptBound, ContentionBound
<1>3. TypeOK /\ CountInv /\ [Next]_vars => CountInv'
  BY CountNext
<1> QED
  BY TypeCorrect, CountInit, ContentionInit, <1>1, <1>2, <1>3, PTL DEF Spec

-----------------------------------------------------------------------------
(***************************************************************************)
(* Every row over its threshold has somebody who deals with it             *)
(***************************************************************************)
\* Worker w is in runDetection for row k and has seen nothing of it that is
\* out of date by now.
Watches(w, k) ==
  /\ probe[w].key = k
  /\ \/ pc[w] = "current"
     \/ /\ pc[w] = "prior"
        /\ probe[w].current = rollup[k].merged
        /\ probe[w].history = HistoryTo(rollup, k, probe[w].n - 1)
     \/ pc[w] \in {"marker", "publish"}

Attended ==
  \A k \in Key \ late : Trips(rollup, k) =>
    announced[k] = 1 \/ \E w \in Workers : Watches(w, k)

StartsFresh ==
  \A w \in Workers : pc[w] = "current" =>
    probe[w].n = 1 /\ probe[w].history = NoHistory

\* A failed call can leave a row, or a marker, that nobody deals with.
AttendInv == StartsFresh /\ (faults = 0 => Attended /\ MarkedIsAnnounced)

\* One more day read.
LEMMA HistoryStep ==
  ASSUME NEW k, NEW n \in 1..BaselineDays
  PROVE  HistoryTo(rollup, k, n) =
           IF Present(rollup, Prior(k, n))
             THEN WithDay(HistoryTo(rollup, k, n - 1), n,
                          rollup[Prior(k, n)].merged)
             ELSE HistoryTo(rollup, k, n - 1)
<1> DEFINE P(m) == Present(rollup, Prior(k, m))
           R(m) == rollup[Prior(k, m)].merged
           D(l) == {m \in 1..l : P(m)}
<1>1. BaselineDays \in Nat
  BY BoundsAssumption
<1>2. \A m : m \in 1..n <=> m \in 1..(n - 1) \/ m = n
  BY <1>1
<1>3. n \notin 1..(n - 1)
  BY <1>1
<1>4. \A l : HistoryTo(rollup, k, l) = [m \in D(l) |-> R(m)]
  BY DEF HistoryTo
<1> HIDE DEF P, R
<1>5. CASE P(n)
  <2>1. D(n) = D(n - 1) \cup {n}
    BY <1>2, <1>5
  <2>2. WithDay([m \in D(n - 1) |-> R(m)], n, R(n)) = [m \in D(n) |-> R(m)]
    <3>1. n \notin D(n - 1)
      BY <1>3
    <3> HIDE DEF D
    <3> QED
      BY <2>1, <3>1 DEF WithDay
  <2> QED
    BY <1>4, <1>5, <2>2 DEF P, R
<1>6. CASE ~P(n)
  <2>1. D(n) = D(n - 1)
    BY <1>2, <1>6
  <2> QED
    BY <1>4, <1>6, <2>1 DEF P
<1> QED
  BY <1>5, <1>6

\* Before the first.
LEMMA HistoryStart ==
  ASSUME NEW k
  PROVE  HistoryTo(rollup, k, 0) = NoHistory
<1>1. {m \in 1..0 : Present(rollup, Prior(k, m))} = {}
  OBVIOUS
<1> QED
  BY <1>1 DEF HistoryTo, NoHistory

\* While the store and the worker stand still, the worker goes on watching.
LEMMA WatchStays ==
  ASSUME NEW v, NEW k, UNCHANGED rollup,
         pc'[v] = pc[v], probe'[v] = probe[v], Watches(v, k)
  PROVE  Watches(v, k)'
BY DEF Watches, HistoryTo, Present

\* A step of one worker that leaves the rows alone: the other workers go on
\* watching, so only the rows this worker watched are of concern.
LEMMA AttendStep ==
  ASSUME Attended, UNCHANGED <<rollup, late>>,
         NEW w \in Workers,
         \A v \in Workers \ {w} : pc'[v] = pc[v] /\ probe'[v] = probe[v],
         \A k \in Key : announced[k] = 1 => announced'[k] = 1,
         \A k \in Key : Trips(rollup, k) /\ Watches(w, k) =>
           announced'[k] = 1 \/ \E v \in Workers : Watches(v, k)'
  PROVE  Attended'
<1>1. SUFFICES ASSUME NEW k \in Key \ late, Trips(rollup, k)
               PROVE  announced'[k] = 1 \/ \E v \in Workers : Watches(v, k)'
  BY DEF Attended
<1>2. CASE announced[k] = 1
  BY <1>2
<1>3. ASSUME NEW v \in Workers, Watches(v, k)
      PROVE  announced'[k] = 1 \/ \E u \in Workers : Watches(u, k)'
  <2>1. CASE v = w
    BY <1>1, <1>3, <2>1
  <2>2. CASE v # w
    BY <1>3, <2>2, WatchStays
  <2> QED
    BY <2>1, <2>2
<1> QED
  BY <1>1, <1>2, <1>3 DEF Attended

\* A step of a worker outside runDetection: into it, or not.
LEMMA AttendOutside ==
  ASSUME AttendInv, UNCHANGED <<rollup, late, alarms, faults>>,
         NEW w \in Workers, pc[w] \notin Probing,
         \A v \in Workers \ {w} : pc'[v] = pc[v] /\ probe'[v] = probe[v],
         pc'[w] = "current" => probe'[w].n = 1 /\ probe'[w].history = NoHistory
  PROVE  AttendInv'
<1>1. StartsFresh'
  BY DEF AttendInv, StartsFresh
<1>2. ASSUME faults = 0 PROVE Attended' /\ MarkedIsAnnounced'
  <2>1. Attended /\ MarkedIsAnnounced
    BY <1>2 DEF AttendInv
  <2>2. \A k \in Key : ~Watches(w, k)
    BY DEF Watches, Probing
  <2>3. Attended'
    BY <2>1, <2>2, AttendStep DEF alarms
  <2>4. MarkedIsAnnounced'
    BY <2>1 DEF MarkedIsAnnounced, alarms, Probing
  <2> QED
    BY <2>3, <2>4
<1> QED
  BY <1>1, <1>2 DEF AttendInv

\* Nothing that matters to the detection moves.
LEMMA AttendStutter ==
  ASSUME AttendInv, UNCHANGED <<rollup, late, alarms, faults, pc, probe>>
  PROVE  AttendInv'
<1>1. StartsFresh'
  BY DEF AttendInv, StartsFresh
<1>2. ASSUME faults = 0 PROVE Attended' /\ MarkedIsAnnounced'
  <2>1. Attended /\ MarkedIsAnnounced
    BY <1>2 DEF AttendInv
  <2>2. \A k \in Key, v \in Workers : Watches(v, k) => Watches(v, k)'
    BY WatchStays
  <2>3. Attended'
    BY <2>1, <2>2 DEF Attended, alarms
  <2>4. MarkedIsAnnounced'
    BY <2>1 DEF MarkedIsAnnounced, alarms
  <2> QED
    BY <2>3, <2>4
<1> QED
  BY <1>1, <1>2 DEF AttendInv

\* A fault: nothing is promised any more.
LEMMA AttendFault ==
  ASSUME AttendInv, TypeOK, Fault,
         \A v \in Workers : pc'[v] = "current" =>
           pc[v] = "current" /\ probe'[v] = probe[v]
  PROVE  AttendInv'
<1>1. StartsFresh'
  BY DEF AttendInv, StartsFresh
<1>2. faults' # 0
  BY DEF Fault, TypeOK, DataTypeOK
<1> QED
  BY <1>1, <1>2 DEF AttendInv

\* A step inside runDetection that ends with a watch of the same row, or on
\* a row that is not over its threshold.
LEMMA AttendInside ==
  ASSUME AttendInv, UNCHANGED <<rollup, late, alarms, faults>>,
         NEW w \in Workers, pc[w] # "publish", pc'[w] # "current",
         \A v \in Workers \ {w} : pc'[v] = pc[v] /\ probe'[v] = probe[v],
         faults = 0 => \A k \in Key : Trips(rollup, k) /\ Watches(w, k) =>
           announced[k] = 1 \/ \E v \in Workers : Watches(v, k)'
  PROVE  AttendInv'
<1>1. StartsFresh'
  BY DEF AttendInv, StartsFresh
<1>2. ASSUME faults = 0 PROVE Attended' /\ MarkedIsAnnounced'
  <2>1. Attended /\ MarkedIsAnnounced
    BY <1>2 DEF AttendInv
  <2>3. Attended'
    BY <1>2, <2>1, AttendStep DEF alarms
  <2>4. MarkedIsAnnounced'
    BY <2>1 DEF MarkedIsAnnounced, alarms
  <2> QED
    BY <2>3, <2>4
<1> QED
  BY <1>1, <1>2 DEF AttendInv

\* A commit moves the baseline of the rows that use its day, and the worker
\* that made it is about to look at the row it wrote.
LEMMA AttendCommit ==
  ASSUME TypeOK, AttendInv, NEW h \in Handlers, CommitRollup(h)
  PROVE  AttendInv'
<1> DEFINE q == KeyOf(h)
<1>0. /\ h \in Workers /\ pc[h] = "write" /\ pc'[h] = "current"
      /\ q \in Key
      /\ probe'[h] = ProbeOf(q)
      /\ \A v \in Workers \ {h} : pc'[v] = pc[v] /\ probe'[v] = probe[v]
      /\ UNCHANGED <<alarms, faults>>
  BY EventsAssumption
     DEF CommitRollup, TypeOK, LocalTypeOK, Workers, KeyOf
<1>1. /\ \A k \in Key \ {q} : rollup'[k] = rollup[k]
      /\ late' = (late \ {q}) \cup
                 {k \in Key : \E n \in 1..BaselineDays : Prior(k, n) = q}
  BY <1>0 DEF CommitRollup, StoreRollup, TypeOK, DataTypeOK
<1> HIDE DEF q
<1>2. StartsFresh'
  BY <1>0 DEF AttendInv, StartsFresh, ProbeOf
<1>3. ASSUME NEW k \in Key \ late', k # q
      PROVE  /\ k \notin late
             /\ rollup'[k] = rollup[k]
             /\ \A n \in 1..BaselineDays : Prior(k, n) # q
  BY <1>1, <1>3
<1>4. ASSUME NEW k \in Key \ late', k # q, NEW n \in 1..(BaselineDays + 1)
      PROVE  HistoryTo(rollup', k, n - 1) = HistoryTo(rollup, k, n - 1)
  <2>1. \A m \in 1..(n - 1) : m \in 1..BaselineDays
    BY BoundsAssumption
  <2>2. \A m \in 1..(n - 1) :
          /\ Present(rollup', Prior(k, m)) <=> Present(rollup, Prior(k, m))
          /\ Present(rollup, Prior(k, m)) =>
               rollup'[Prior(k, m)] = rollup[Prior(k, m)]
    BY <1>1, <1>3, <1>4, <2>1 DEF Present
  <2> QED
    BY <2>2 DEF HistoryTo
<1>5. ASSUME NEW k \in Key \ late', k # q
      PROVE  Trips(rollup', k) <=> Trips(rollup, k)
  <2>1. BaselineDays + 1 \in 1..(BaselineDays + 1)
        /\ (BaselineDays + 1) - 1 = BaselineDays
    BY BoundsAssumption
  <2>2. HistoryTo(rollup', k, (BaselineDays + 1) - 1)
          = HistoryTo(rollup, k, (BaselineDays + 1) - 1)
    BY <1>4, <1>5, <2>1
  <2>3. History(rollup', k) = History(rollup, k)
    BY <2>1, <2>2 DEF History
  <2> QED
    BY <1>3, <1>5, <2>3 DEF Trips, Present
<1>6. ASSUME NEW k \in Key \ late', k # q, NEW v \in Workers, Watches(v, k)
      PROVE  Watches(v, k)'
  <2>1. v # h
    BY <1>0, <1>6 DEF Watches
  <2>2. probe[v].n \in 1..(BaselineDays + 1)
    BY DEF TypeOK, LocalTypeOK, Probe
  <2>3. HistoryTo(rollup', k, probe[v].n - 1) = HistoryTo(rollup, k, probe[v].n - 1)
    BY <1>4, <1>6, <2>2
  <2> QED
    BY <1>0, <1>3, <1>6, <2>1, <2>3 DEF Watches
<1>7. ASSUME faults = 0 PROVE Attended' /\ MarkedIsAnnounced'
  <2>1. Attended /\ MarkedIsAnnounced
    BY <1>7 DEF AttendInv
  <2>2. ASSUME NEW k \in Key \ late', Trips(rollup', k)
        PROVE  announced'[k] = 1 \/ \E v \in Workers : Watches(v, k)'
    <3>1. CASE k = q
      <4>1. Watches(h, k)'
        BY <1>0, <3>1 DEF Watches, ProbeOf
      <4> QED
        BY <1>0, <4>1
    <3>2. CASE k # q
      <4>1. announced[k] = 1 \/ \E v \in Workers : Watches(v, k)
        BY <1>3, <1>5, <2>1, <2>2, <3>2 DEF Attended
      <4> QED
        BY <1>0, <1>6, <3>2, <4>1 DEF alarms
    <3> QED
      BY <3>1, <3>2
  <2>3. Attended'
    BY <2>2 DEF Attended
  <2>4. MarkedIsAnnounced'
    BY <1>0, <2>1 DEF MarkedIsAnnounced, alarms
  <2> QED
    BY <2>3, <2>4
<1> QED
  BY <1>0, <1>2, <1>7 DEF AttendInv

\* The reads of runDetection: what it has seen stays what is stored.
LEMMA AttendReads ==
  ASSUME TypeOK, AttendInv, NEW w \in Workers,
         FetchCurrent(w) \/ FetchPrior(w) \/ RunDetect(w)
  PROVE  AttendInv'
<1>0. /\ pc \in [Workers -> HandlerPC \cup ScannerPC]
      /\ probe \in [Workers -> Probe]
      /\ pc[w] # "publish"
      /\ \A v \in Workers \ {w} : pc'[v] = pc[v] /\ probe'[v] = probe[v]
      /\ UNCHANGED <<rollup, late, alarms, faults>>
  BY DEF TypeOK, LocalTypeOK, FetchCurrent, FetchPrior, RunDetect, store,
         ghosts
<1>1. CASE FetchCurrent(w)
  <2> DEFINE k == probe[w].key
  <2>1. probe[w].n = 1 /\ probe[w].history = NoHistory /\ pc[w] = "current"
    BY <1>1 DEF FetchCurrent, AttendInv, StartsFresh
  <2>2. CASE Present(rollup, k)
    <3>1. /\ pc'[w] = "prior" /\ probe'[w].key = k
          /\ probe'[w].current = rollup[k].merged
          /\ probe'[w].n = 1 /\ probe'[w].history = NoHistory
      BY <1>0, <1>1, <2>1, <2>2 DEF FetchCurrent, Probe
    <3>2. HistoryTo(rollup, k, 1 - 1) = NoHistory
      BY HistoryStart
    <3>3. HistoryTo(rollup', k, 1 - 1) = NoHistory
      BY <1>0, <3>2
    <3>4. ASSUME NEW l \in Key, Watches(w, l) PROVE Watches(w, l)'
      <4>1. l = k
        BY <3>4 DEF Watches
      <4> QED
        BY <1>0, <3>1, <3>3, <4>1 DEF Watches
    <3> QED
      BY <1>0, <3>1, <3>4, AttendInside
  <2>3. CASE ~Present(rollup, k)
    <3>1. \A l \in Key : Trips(rollup, l) => ~Watches(w, l)
      BY <2>3 DEF Trips, Watches
    <3>2. pc'[w] = Done(w)
      BY <1>0, <1>1, <2>3 DEF FetchCurrent
    <3> QED
      BY <1>0, <3>1, <3>2, AttendInside DEF Done
  <2> QED
    BY <2>2, <2>3
<1>2. CASE FetchPrior(w)
  <2> DEFINE k == probe[w].key
             n == probe[w].n
             p == Prior(k, n)
  <2>1. pc[w] = "prior" /\ pc'[w] = pc[w] /\ n \in 1..BaselineDays
    BY <1>0, <1>2, BoundsAssumption DEF FetchPrior, Probe
  <2>2. /\ probe'[w].key = k /\ probe'[w].current = probe[w].current
        /\ probe'[w].n = n + 1
        /\ probe'[w].history =
             IF Present(rollup, p)
               THEN WithDay(probe[w].history, n, rollup[p].merged)
               ELSE probe[w].history
    BY <1>0, <1>2 DEF FetchPrior, Probe
  <2>3. (n + 1) - 1 = n
    BY <2>1
  <2>4. ASSUME NEW l \in Key, Watches(w, l) PROVE Watches(w, l)'
    <3>1. /\ l = k
          /\ probe[w].current = rollup[k].merged
          /\ probe[w].history = HistoryTo(rollup, k, n - 1)
      BY <2>1, <2>4 DEF Watches
    <3>2. probe'[w].history = HistoryTo(rollup, k, n)
      BY <2>1, <2>2, <3>1, HistoryStep
    <3>3. probe'[w].history = HistoryTo(rollup', k, probe'[w].n - 1)
      BY <1>0, <2>2, <2>3, <3>2
    <3> QED
      BY <1>0, <2>1, <2>2, <3>1, <3>3 DEF Watches
  <2> QED
    BY <1>0, <2>1, <2>4, AttendInside
<1>3. CASE RunDetect(w)
  <2>1. /\ pc[w] = "prior" /\ probe' = probe
        /\ pc'[w] = IF IsAnomaly(w) THEN "marker" ELSE Done(w)
    BY <1>0, <1>3 DEF RunDetect
  <2>2. probe[w].n - 1 = BaselineDays
    BY <1>0, <1>3, BoundsAssumption DEF RunDetect, Probe
  <2>3. ASSUME NEW l \in Key, Trips(rollup, l), Watches(w, l)
        PROVE  Watches(w, l)'
    <3>1. /\ probe[w].key = l /\ probe[w].current = rollup[l].merged
          /\ probe[w].history = History(rollup, l)
      BY <2>1, <2>2, <2>3 DEF Watches, History
    <3>2. IsAnomaly(w)
      BY <2>3, <3>1 DEF IsAnomaly, Trips
    <3> QED
      BY <2>1, <3>1, <3>2 DEF Watches
  <2>4. pc'[w] # "current"
    BY <2>1 DEF Done
  <2> QED
    BY <1>0, <2>3, <2>4, AttendInside
<1> QED
  BY <1>1, <1>2, <1>3

\* The marker and the event: who finds a marker relies on the worker that
\* set it.
LEMMA AttendAlarms ==
  ASSUME TypeOK, AttendInv, AnnounceInv, NEW w \in Workers,
         SaveMarker(w) \/ DetectedDup(w) \/ PublishAnomaly(w)
  PROVE  AttendInv'
<1> DEFINE q == probe[w].key
<1>0. /\ pc \in [Workers -> HandlerPC \cup ScannerPC]
      /\ announced \in [Key -> Nat]
      /\ q \in Key
      /\ \A v \in Workers \ {w} : pc'[v] = pc[v]
      /\ UNCHANGED <<rollup, late, probe, faults>>
  BY DEF TypeOK, DataTypeOK, LocalTypeOK, Probing, SaveMarker, DetectedDup,
         PublishAnomaly, store, ghosts
<1>1. ASSUME pc'[w] # "current" PROVE StartsFresh'
  BY <1>0, <1>1 DEF AttendInv, StartsFresh
<1>2. CASE SaveMarker(w)
  <2>1. /\ pc[w] = "marker" /\ pc'[w] = "publish"
        /\ announced' = announced /\ marker' = marker \cup {q}
    BY <1>0, <1>2 DEF SaveMarker
  <2>2. ASSUME faults = 0 PROVE Attended' /\ MarkedIsAnnounced'
    <3>1. Attended /\ MarkedIsAnnounced
      BY <2>2 DEF AttendInv
    <3>2. \A l \in Key : Watches(w, l) => Watches(w, l)'
      BY <1>0, <2>1 DEF Watches
    <3>3. Attended'
      BY <1>0, <2>1, <3>1, <3>2, AttendStep
    <3>4. MarkedIsAnnounced'
      BY <1>0, <2>1, <3>1 DEF MarkedIsAnnounced
    <3> QED
      BY <3>3, <3>4
  <2> QED
    BY <1>0, <1>1, <2>1, <2>2 DEF AttendInv
<1>3. CASE DetectedDup(w)
  <2>1. /\ pc[w] = "marker" /\ pc'[w] = Done(w)
        /\ UNCHANGED alarms /\ q \in marker
    BY <1>0, <1>3 DEF DetectedDup
  <2>2. ASSUME faults = 0, NEW l \in Key, Watches(w, l)
        PROVE  announced[l] = 1 \/ \E v \in Workers : Watches(v, l)'
    <3>1. l \in marker
      BY <2>1, <2>2 DEF Watches
    <3>2. CASE announced[l] = 1
      BY <3>2
    <3>3. ASSUME NEW v \in Workers, pc[v] = "publish", probe[v].key = l
          PROVE  Watches(v, l)'
      BY <1>0, <2>1, <3>3 DEF Watches
    <3> QED
      BY <2>2, <3>1, <3>2, <3>3 DEF AttendInv, MarkedIsAnnounced
  <2>3. pc'[w] # "current"
    BY <2>1 DEF Done
  <2> QED
    BY <1>0, <2>1, <2>2, <2>3, AttendInside
<1>4. CASE PublishAnomaly(w)
  <2>1. /\ pc[w] = "publish" /\ pc'[w] = Done(w)
        /\ announced' = [announced EXCEPT ![q] = @ + 1]
        /\ marker' = marker
    BY <1>0, <1>4 DEF PublishAnomaly
  <2>2. announced[q] = 0
    BY <2>1 DEF AnnounceInv, PublisherIsAlone
  <2> HIDE DEF q
  <2>3. announced'[q] = 1 /\ \A l \in Key \ {q} : announced'[l] = announced[l]
    BY <1>0, <2>1, <2>2
  <2>4. ASSUME faults = 0 PROVE Attended' /\ MarkedIsAnnounced'
    <3>1. Attended /\ MarkedIsAnnounced
      BY <2>4 DEF AttendInv
    <3>2. \A l \in Key : announced[l] = 1 => announced'[l] = 1
      BY <2>3
    <3>3. \A l \in Key : Watches(w, l) => announced'[l] = 1
      BY <2>3 DEF Watches, q
    <3>4. Attended'
      BY <1>0, <3>1, <3>2, <3>3, AttendStep
    <3>5. ASSUME NEW l \in marker
          PROVE  \/ announced'[l] = 1
                 \/ \E v \in Workers : pc'[v] = "publish" /\ probe'[v].key = l
      <4>1. CASE l = q
        BY <2>3, <4>1
      <4>2. CASE l # q
        <5>1. l \in Key
          BY DEF TypeOK, DataTypeOK
        <5>2. probe[w].key # l
          BY <4>2 DEF q
        <5> QED
          BY <1>0, <2>3, <3>1, <4>2, <5>1, <5>2 DEF MarkedIsAnnounced
      <4> QED
        BY <4>1, <4>2
    <3>6. MarkedIsAnnounced'
      BY <2>1, <3>5 DEF MarkedIsAnnounced
    <3> QED
      BY <3>4, <3>6
  <2>5. pc'[w] # "current"
    BY <2>1 DEF Done
  <2> QED
    BY <1>0, <1>1, <2>4, <2>5 DEF AttendInv
<1> QED
  BY <1>2, <1>3, <1>4

\* Every step keeps an eye on every row over its threshold.
LEMMA AttendNext ==
  ASSUME TypeOK, AnnounceInv, AttendInv, [Next]_vars
  PROVE  AttendInv'
<1>0. /\ pc \in [Workers -> HandlerPC \cup ScannerPC]
      /\ probe \in [Workers -> Probe]
      /\ \A h \in Handlers : h \in Workers
      /\ \A s \in Scanners : s \in Workers
  BY DEF TypeOK, LocalTypeOK, Workers
<1> USE DEF store, ghosts, Probing
<1>1. ASSUME NEW e \in Events, Publish(e) PROVE AttendInv'
  BY <1>1, AttendStutter DEF Publish, locals
<1>2. ASSUME NEW h \in Handlers, Receive(h) PROVE AttendInv'
  <2>1. ASSUME NEW e \in Events, Deliver(h, e) PROVE AttendInv'
    BY <1>0, <2>1, AttendOutside DEF Deliver
  <2>2. ASSUME NEW e \in Events, DropMalformed(h, e) PROVE AttendInv'
    BY <2>2, AttendStutter DEF DropMalformed, locals
  <2> QED
    BY <1>2, <2>1, <2>2 DEF Receive
<1>3. ASSUME NEW h \in Handlers, Apply(h) PROVE AttendInv'
  <2>1. CASE MarkProcessed(h)
    BY <1>0, <2>1, AttendOutside DEF MarkProcessed
  <2>2. CASE SkipDuplicate(h)
    BY <1>0, <2>2, AttendOutside DEF SkipDuplicate
  <2>3. CASE ReadRollup(h)
    BY <1>0, <2>3, AttendOutside DEF ReadRollup
  <2>4. CASE CommitRollup(h)
    BY <2>4, AttendCommit
  <2>5. CASE RetryRollup(h)
    BY <1>0, <2>5, AttendOutside DEF RetryRollup
  <2>6. CASE ExhaustRollup(h)
    BY <1>0, <2>6, AttendOutside DEF ExhaustRollup
  <2>7. CASE Respond(h)
    BY <1>0, <2>7, AttendOutside DEF Respond, Answers
  <2> QED
    BY <1>3, <2>1, <2>2, <2>3, <2>4, <2>5, <2>6, <2>7 DEF Apply
<1>4. ASSUME NEW w \in Workers, RunDetection(w) PROVE AttendInv'
  BY <1>4, AttendReads, AttendAlarms DEF RunDetection
<1>5. ASSUME NEW s \in Scanners,
             ScanStep(s) \/ \E d \in Days : StartScan(s, d)
      PROVE  AttendInv'
  <2>1. CASE NextPair(s)
    BY <1>0, <2>1, AttendOutside DEF NextPair, ProbeOf
  <2>2. CASE EndScan(s)
    BY <1>0, <2>2, AttendOutside DEF EndScan
  <2>3. ASSUME NEW d \in Days, StartScan(s, d) PROVE AttendInv'
    BY <1>0, <2>3, AttendOutside DEF StartScan
  <2> QED
    BY <1>5, <2>1, <2>2, <2>3 DEF ScanStep
<1>6. ASSUME Disturb PROVE AttendInv'
  <2>1. CASE Crash
    <3>1. \A w \in Workers : pc'[w] # "current"
      BY <2>1 DEF Crash
    <3> QED
      BY <2>1, <3>1, AttendFault DEF Crash
  <2>2. ASSUME NEW h \in Handlers,
               \/ Redeliver(h) \/ MarkProcessedFails(h)
               \/ ReadRollupFails(h) \/ WriteRollupFails(h)
        PROVE  AttendInv'
    <3>1. Fault /\ probe' = probe
      BY <2>2 DEF Redeliver, MarkProcessedFails, ReadRollupFails,
                  WriteRollupFails
    <3>2. pc' = pc \/ Goto(h, "RETRY")
      BY <2>2 DEF Redeliver, MarkProcessedFails, ReadRollupFails,
                  WriteRollupFails
    <3> QED
      BY <1>0, <3>1, <3>2, AttendFault
  <2>3. ASSUME NEW w \in Workers,
               FetchFails(w) \/ SaveMarkerFails(w) \/ PublishAnomalyFails(w)
        PROVE  AttendInv'
    <3>1. Fault /\ probe' = probe /\ Goto(w, Done(w))
      BY <2>3 DEF FetchFails, SaveMarkerFails, PublishAnomalyFails
    <3>2. Done(w) # "current"
      BY DEF Done
    <3> QED
      BY <1>0, <3>1, <3>2, AttendFault
  <2> QED
    BY <1>6, <2>1, <2>2, <2>3 DEF Disturb
<1>7. CASE UNCHANGED vars
  BY <1>7, AttendStutter DEF vars, locals
<1> QED
  BY <1>1, <1>2, <1>3, <1>4, <1>5, <1>6, <1>7 DEF Next

\* No row is over its threshold before anything is stored.
LEMMA AttendInit == Init => AttendInv
<1> SUFFICES ASSUME Init PROVE AttendInv
  OBVIOUS
<1>1. \A k \in Key : ~Trips(rollup, k)
  BY DEF Init, Absent, Trips, Present
<1> QED
  BY <1>1 DEF Init, AttendInv, StartsFresh, Attended, MarkedIsAnnounced

LEMMA AttendHolds == Spec => [](TypeOK /\ AnnounceInv /\ AttendInv)
<1>1. TypeOK /\ AnnounceInv /\ AttendInv /\ [Next]_vars => AttendInv'
  BY AttendNext
<1>2. TypeOK /\ CountInv /\ AnnounceInv /\ [Next]_vars => AnnounceInv'
  BY AnnounceNext
<1>3. TypeOK /\ CountInv /\ [Next]_vars => CountInv'
  BY CountNext
<1> QED
  BY TypeCorrect, CountInit, AnnounceInit, AttendInit, <1>1, <1>2, <1>3,
     PTL DEF Spec

\* main.go:164-170: without faults, when the queue has drained and all
\* workers are idle, each row over its threshold was announced, unless its
\* baseline moved after its last update.
THEOREM NothingIsMissed == Spec => []OverThresholdIsAnnounced
<1>1. AttendInv => OverThresholdIsAnnounced
  BY DEF AttendInv, Attended, Watches, OverThresholdIsAnnounced, Quiet
<1> QED
  BY AttendHolds, <1>1, PTL

\* NOTES.md:351: as long as no call fails, a marked anomaly was published or
\* is being published; it takes a fault for one to be marked and not sent.
THEOREM FaultlessMarkersAreAnnounced ==
  Spec => [](faults = 0 => MarkedIsAnnounced)
<1>1. AttendInv => (faults = 0 => MarkedIsAnnounced)
  BY DEF AttendInv
<1> QED
  BY AttendHolds, <1>1, PTL

-----------------------------------------------------------------------------
(***************************************************************************)
(* At rest, what was published is counted                                  *)
(***************************************************************************)
\* This id is in a row, or on its way there, or was given up.
Cared(id) ==
  CountedAs(id) # {} \/ Holding(id) # {} \/ exhausted \/ faults > 0

\* Some handler is about to save the marker of this event.
Marking(e) == \E h \in Handlers : pc[h] = "mark" /\ job[h].evt = e

\* A published event waits in the queue, or is about to be marked, or its id is.
Pending(e) ==
  queue[e] > 0 \/ Marking(e) \/ LineId[e] \in processed \/ faults > 0

RestInv ==
  /\ \A id \in processed : Cared(id)
  /\ \A e \in Events \ Malformed : published[e] > 0 => Pending(e)

\* main.go:118-154: when nothing is queued and nobody works, each well-formed
\* event that was published is in a row, under its id, unless a call failed or
\* a merge lost all its races.
PublishedAtRest ==
  Quiet => \A e \in Events \ Malformed : published[e] > 0 =>
    CountedAs(LineId[e]) # {} \/ exhausted \/ faults > 0

\* A handler with an id keeps it, counts it or gives it up.
Follows(h) ==
  /\ pc[h] \in {"read", "write"} =>
       \/ pc'[h] \in {"read", "write"} /\ job'[h].evt = job[h].evt
       \/ \E e \in Events : LineId[e] = IdOf(h) /\ rollup'[EventKey[e]].merged[e] > 0
       \/ exhausted'
  /\ pc[h] = "mark" =>
       \/ pc'[h] = "mark" /\ job'[h].evt = job[h].evt
       \/ IdOf(h) \in processed'

\* What a step without a fault has to leave true.
LEMMA RestFrame ==
  ASSUME TypeOK, TypeOK', CountInv, RestInv, [Next]_vars,
         faults' = faults, exhausted => exhausted',
         processed \subseteq processed',
         \A id \in processed' \ processed : Holding(id)' # {},
         \A h \in Handlers : Follows(h),
         \A e \in Events \ Malformed :
           /\ published'[e] > 0 => published[e] > 0 \/ queue'[e] > 0
           /\ queue[e] > 0 => queue'[e] > 0 \/ Marking(e)'
  PROVE  RestInv'
<1>1. \A id : CountedAs(id) \subseteq CountedAs(id)'
  <2>1. \A e \in Events : EventKey[e] \in Key
    BY EventsAssumption
  <2>2. \A k \in Key, e \in Events :
          /\ rollup'[k].merged[e] >= rollup[k].merged[e]
          /\ rollup[k].merged[e] \in Nat
    BY RowsGrow DEF TypeOK, DataTypeOK, Row, Bag
  <2>4. \A k \in Key, e \in Events : rollup'[k].merged[e] \in Nat
    BY DEF TypeOK, DataTypeOK, Row, Bag
  <2>5. \A k \in Key, e \in Events :
          rollup[k].merged[e] > 0 => rollup'[k].merged[e] > 0
    BY <2>2, <2>4
  <2> QED
    BY <2>1, <2>5 DEF CountedAs
<1>2. ASSUME NEW id \in processed' PROVE Cared(id)'
  <2>1. CASE id \in processed
    <3>1. CASE CountedAs(id) # {}
      BY <1>1, <3>1 DEF Cared
    <3>2. CASE Holding(id) # {}
      <4>1. PICK h \in Handlers : pc[h] \in {"read", "write"} /\ IdOf(h) = id
        BY <3>2 DEF Holding
      <4>2. CASE pc'[h] \in {"read", "write"} /\ job'[h].evt = job[h].evt
        <5>1. h \in Holding(id)'
          BY <4>1, <4>2 DEF Holding, IdOf
        <5> QED
          BY <5>1 DEF Cared
      <4>3. ASSUME NEW e \in Events, LineId[e] = IdOf(h), rollup'[EventKey[e]].merged[e] > 0
            PROVE  Cared(id)'
        <5>1. e \in CountedAs(id)'
          BY <4>1, <4>3 DEF CountedAs
        <5> QED
          BY <5>1 DEF Cared
      <4>4. CASE exhausted'
        BY <4>4 DEF Cared
      <4> QED
        BY <4>1, <4>2, <4>3, <4>4 DEF Follows
    <3>3. CASE exhausted \/ faults > 0
      BY <3>3 DEF Cared
    <3> QED
      BY <2>1, <3>1, <3>2, <3>3 DEF RestInv, Cared
  <2>2. CASE id \notin processed
    BY <2>2 DEF Cared
  <2> QED
    BY <2>1, <2>2
<1>3. ASSUME NEW e \in Events \ Malformed, published'[e] > 0 PROVE Pending(e)'
  <2>1. CASE queue'[e] > 0
    BY <2>1 DEF Pending
  <2>2. CASE queue[e] > 0
    BY <2>2 DEF Pending
  <2>3. CASE Marking(e)
    <3>1. PICK h \in Handlers : pc[h] = "mark" /\ job[h].evt = e
      BY <2>3 DEF Marking
    <3> QED
      BY <3>1 DEF Follows, Pending, Marking, IdOf
  <2>4. CASE LineId[e] \in processed \/ faults > 0
    BY <2>4 DEF Pending
  <2> QED
    BY <1>3, <2>1, <2>2, <2>3, <2>4 DEF RestInv, Pending
<1> QED
  BY <1>2, <1>3 DEF RestInv

\* A step that touches no handler's place or job.
LEMMA FollowsStay ==
  ASSUME NEW h \in Handlers, pc'[h] = pc[h], job'[h].evt = job[h].evt
  PROVE  Follows(h)
BY DEF Follows

\* After a fault nothing is claimed.
LEMMA RestFault ==
  ASSUME TypeOK, Disturb
  PROVE  RestInv'
<1>1. faults \in Nat /\ faults' = faults + 1
  BY BoundsAssumption
     DEF TypeOK, DataTypeOK, Disturb, Crash, Redeliver, MarkProcessedFails,
         ReadRollupFails, WriteRollupFails, FetchFails, SaveMarkerFails,
         PublishAnomalyFails, Fault
<1>2. faults' > 0
  BY <1>1
<1> QED
  BY <1>2 DEF RestInv, Cared, Pending

\* Publications reach the queue, deliveries are marked, and who has the marker
\* of an id counts it or gives it up.
LEMMA RestNext ==
  ASSUME TypeOK, TypeOK', CountInv, RestInv, [Next]_vars
  PROVE  RestInv'
<1>0. /\ pc \in [Workers -> HandlerPC \cup ScannerPC]
      /\ job \in [Handlers -> Job]
      /\ queue \in [Events -> Nat] /\ published \in [Events -> Nat]
      /\ \A h \in Handlers : h \in Workers
      /\ \A s \in Scanners : s \in Workers /\ s \notin Handlers
  BY WorkersAssumption, BoundsAssumption DEF TypeOK, DataTypeOK, LocalTypeOK, Workers
<1>1. ASSUME UNCHANGED <<broker, processed, faults>>, exhausted => exhausted',
             \A h \in Handlers : Follows(h)
      PROVE  RestInv'
  BY <1>1, RestFrame DEF broker
<1>2. ASSUME NEW e \in Events, Publish(e) PROVE RestInv'
  <2>1. \A f \in Events : /\ published'[f] > 0 => published[f] > 0 \/ queue'[f] > 0
                          /\ queue[f] > 0 => queue'[f] > 0
    BY <1>0, <1>2 DEF Publish
  <2>2. /\ UNCHANGED <<processed, faults, exhausted>>
        /\ \A h \in Handlers : Follows(h)
    BY <1>2, FollowsStay DEF Publish, store, locals, ghosts
  <2> QED
    BY <2>1, <2>2, RestFrame
<1>3. ASSUME NEW h \in Handlers, Receive(h) PROVE RestInv'
  <2>1. ASSUME NEW e \in Events, Deliver(h, e) PROVE RestInv'
    <3>1. /\ UNCHANGED <<processed, faults, exhausted, published>> /\ pc[h] = "idle"
          /\ pc' = [pc EXCEPT ![h] = "mark"] /\ job' = [job EXCEPT ![h] = JobFor(e)]
          /\ queue' = [queue EXCEPT ![e] = @ - 1]
      BY <2>1 DEF Deliver, store, ghosts, Goto
    <3>2. /\ pc'[h] = "mark" /\ job'[h].evt = e
          /\ \A g \in Handlers \ {h} : pc'[g] = pc[g] /\ job'[g] = job[g]
      BY <1>0, <3>1 DEF JobFor
    <3>3. \A g \in Handlers : Follows(g)
      BY <3>1, <3>2 DEF Follows
    <3>4. Marking(e)'
      BY <3>2 DEF Marking
    <3>5. \A f \in Events : queue[f] > 0 => queue'[f] > 0 \/ f = e
      BY <1>0, <3>1
    <3> QED
      BY <3>1, <3>3, <3>4, <3>5, RestFrame
  <2>2. ASSUME NEW e \in Events, DropMalformed(h, e) PROVE RestInv'
    <3>1. /\ UNCHANGED <<processed, faults, exhausted, published, pc, job>>
          /\ e \in Malformed /\ queue' = [queue EXCEPT ![e] = @ - 1]
      BY <2>2 DEF DropMalformed, store, locals, ghosts
    <3>2. \A f \in Events \ Malformed : queue'[f] = queue[f]
      BY <1>0, <3>1
    <3>3. \A g \in Handlers : Follows(g)
      BY <3>1, FollowsStay
    <3> QED
      BY <3>1, <3>2, <3>3, RestFrame
  <2> QED
    BY <1>3, <2>1, <2>2 DEF Receive
<1>4. ASSUME NEW h \in Handlers, Apply(h) PROVE RestInv'
  <2>1. CASE MarkProcessed(h)
    <3>1. /\ UNCHANGED <<broker, job, faults, ghosts>> /\ pc[h] = "mark"
          /\ processed' = processed \cup {IdOf(h)}
          /\ pc' = [pc EXCEPT ![h] = "read"]
      BY <2>1 DEF MarkProcessed, Goto
    <3>2. pc'[h] = "read" /\ \A g \in Handlers \ {h} : pc'[g] = pc[g]
      BY <1>0, <3>1
    <3>3. \A id : id = IdOf(h) => h \in Holding(id)'
      BY <3>1, <3>2 DEF Holding, IdOf
    <3>4. \A g \in Handlers : Follows(g)
      BY <3>1, <3>2 DEF Follows
    <3>5. \A id \in processed' \ processed : id = IdOf(h)
      BY <3>1
    <3>6. /\ processed \subseteq processed' /\ \A id \in processed' \ processed : Holding(id)' # {}
          /\ UNCHANGED <<queue, published, faults, exhausted>>
      BY <3>1, <3>3, <3>5 DEF broker, ghosts
    <3> QED
      BY <3>4, <3>6, RestFrame
  <2>2. CASE SkipDuplicate(h)
    <3>1. /\ UNCHANGED <<broker, processed, job, faults, exhausted>> /\ pc[h] = "mark"
          /\ IdOf(h) \in processed /\ pc' = [pc EXCEPT ![h] = "SUCCESS"]
      BY <2>2 DEF SkipDuplicate, IsDuplicate, DuplicateAnswer, Goto, store, ghosts
    <3>2. \A g \in Handlers \ {h} : pc'[g] = pc[g]
      BY <1>0, <3>1
    <3>3. \A g \in Handlers : Follows(g)
      BY <3>1, <3>2 DEF Follows
    <3> QED
      BY <1>1, <3>1, <3>3
  <2>3. CASE ReadRollup(h)
    <3>1. /\ UNCHANGED <<broker, processed, faults, exhausted>> /\ pc[h] = "read"
          /\ pc' = [pc EXCEPT ![h] = "write"]
          /\ job' = [job EXCEPT ![h].base = rollup[KeyOf(h)]]
      BY <2>3 DEF ReadRollup, Goto, store, ghosts
    <3>2. rollup[KeyOf(h)] \in Row /\ job[h] \in Job
      BY <1>0, <3>1, EventsAssumption DEF TypeOK, DataTypeOK, LocalTypeOK, KeyOf
    <3> DEFINE j == [job[h] EXCEPT !.base = rollup[KeyOf(h)]]
    <3>3. j.evt = job[h].evt
      BY <3>2, JobUpdate
    <3>4. job' = [job EXCEPT ![h] = j]
      BY <3>1
    <3> HIDE DEF j
    <3>5. /\ pc'[h] = "write" /\ job'[h].evt = job[h].evt
          /\ \A g \in Handlers \ {h} : pc'[g] = pc[g] /\ job'[g] = job[g]
      BY <1>0, <3>1, <3>3, <3>4
    <3>6. \A g \in Handlers : Follows(g)
      BY <3>1, <3>5 DEF Follows
    <3> QED
      BY <1>1, <3>1, <3>6
  <2>4. CASE CommitRollup(h)
    <3>1. /\ UNCHANGED <<broker, processed, job, faults, exhausted>> /\ pc[h] = "write"
          /\ pc' = [pc EXCEPT ![h] = "current"]
      BY <2>4 DEF CommitRollup, Goto
    <3>2. \E e \in Events : LineId[e] = IdOf(h) /\ rollup'[EventKey[e]].merged[e] > 0
      <4>1. /\ job[h].evt \in Events /\ KeyOf(h) \in Key
            /\ \A k \in Key, e \in Events :
                 rollup'[k].merged[e] =
                   IF k = KeyOf(h) /\ e = job[h].evt THEN 1 ELSE rollup[k].merged[e]
        BY <2>4, CommitEffect DEF CommitRollup
      <4> QED
        BY <4>1 DEF IdOf, KeyOf
    <3>3. \A g \in Handlers \ {h} : pc'[g] = pc[g]
      BY <1>0, <3>1
    <3>4. \A g \in Handlers : Follows(g)
      BY <3>1, <3>2, <3>3 DEF Follows
    <3> QED
      BY <1>1, <3>1, <3>4
  <2>5. CASE RetryRollup(h)
    <3>1. /\ UNCHANGED <<broker, processed, faults, exhausted>> /\ pc[h] = "write"
          /\ pc' = [pc EXCEPT ![h] = "read"]
          /\ job' = [job EXCEPT ![h].attempt = @ + 1]
      BY <2>5 DEF RetryRollup, Goto, store, ghosts
    <3> DEFINE j == [job[h] EXCEPT !.attempt = @ + 1]
    <3>2. j.evt = job[h].evt
      BY <1>0 DEF Job
    <3>3. job' = [job EXCEPT ![h] = j]
      BY <3>1
    <3> HIDE DEF j
    <3>4. /\ pc'[h] = "read" /\ job'[h].evt = job[h].evt
          /\ \A g \in Handlers \ {h} : pc'[g] = pc[g] /\ job'[g] = job[g]
      BY <1>0, <3>1, <3>2, <3>3
    <3>5. \A g \in Handlers : Follows(g)
      BY <3>1, <3>4 DEF Follows
    <3> QED
      BY <1>1, <3>1, <3>5
  <2>6. CASE ExhaustRollup(h)
    <3>1. /\ UNCHANGED <<broker, processed, job, faults>> /\ exhausted'
          /\ pc[h] = "write" /\ pc' = [pc EXCEPT ![h] = "RETRY"]
      BY <2>6 DEF ExhaustRollup, Goto, store
    <3>2. \A g \in Handlers \ {h} : pc'[g] = pc[g]
      BY <1>0, <3>1
    <3>3. \A g \in Handlers : Follows(g)
      BY <3>1, <3>2 DEF Follows
    <3> QED
      BY <1>1, <3>1, <3>3
  <2>7. CASE Respond(h)
    <3>1. /\ UNCHANGED <<published, processed, faults, exhausted>> /\ pc[h] \in Answers
          /\ pc' = [pc EXCEPT ![h] = "idle"] /\ job' = [job EXCEPT ![h] = NoJob]
      BY <2>7 DEF Respond, Goto, store, ghosts
    <3>2. \A g \in Handlers \ {h} : pc'[g] = pc[g] /\ job'[g] = job[g]
      BY <1>0, <3>1
    <3>3. \A g \in Handlers : Follows(g)
      BY <3>1, <3>2 DEF Follows, Answers
    <3>4. \A e \in Events : queue[e] > 0 => queue'[e] > 0
      <4>1. queue' = queue \/ queue' = [queue EXCEPT ![job[h].evt] = @ + 1]
        BY <2>7 DEF Respond
      <4> QED
        BY <1>0, <4>1
    <3> QED
      BY <3>1, <3>3, <3>4, RestFrame
  <2> QED
    BY <1>4, <2>1, <2>2, <2>3, <2>4, <2>5, <2>6, <2>7 DEF Apply
<1>5. ASSUME NEW w \in Workers, RunDetection(w) PROVE RestInv'
  <2>1. UNCHANGED <<broker, processed, job, faults, exhausted>> /\ pc[w] \in Probing
    BY <1>5
    DEF RunDetection, FetchCurrent, FetchPrior, RunDetect, SaveMarker, DetectedDup,
        PublishAnomaly, store, ghosts, Probing
  <2>2. \A g \in Handlers \ {w} : pc'[g] = pc[g]
    BY <1>0, <1>5
    DEF RunDetection, FetchCurrent, FetchPrior, RunDetect, SaveMarker, DetectedDup,
        PublishAnomaly, Goto
  <2>3. \A g \in Handlers : Follows(g)
    BY <2>1, <2>2 DEF Follows, Probing
  <2> QED
    BY <1>1, <2>1, <2>3
<1>6. ASSUME NEW s \in Scanners, ScanStep(s) \/ \E d \in Days : StartScan(s, d)
      PROVE  RestInv'
  <2>1. UNCHANGED <<broker, processed, job, faults, exhausted>>
    BY <1>6 DEF ScanStep, NextPair, EndScan, StartScan, store, ghosts
  <2>2. \A h \in Handlers : pc'[h] = pc[h]
    BY <1>0, <1>6 DEF ScanStep, NextPair, EndScan, StartScan, Goto
  <2>3. \A g \in Handlers : Follows(g)
    BY <2>1, <2>2, FollowsStay
  <2> QED
    BY <1>1, <2>1, <2>3
<1>7. CASE UNCHANGED vars
  <2>1. UNCHANGED <<broker, processed, job, pc, faults, exhausted>>
    BY <1>7 DEF vars, store, locals, ghosts
  <2>2. \A g \in Handlers : Follows(g)
    BY <2>1, FollowsStay
  <2> QED
    BY <1>1, <2>1, <2>2
<1> QED
  BY <1>2, <1>3, <1>4, <1>5, <1>6, <1>7, RestFault DEF Next

LEMMA RestInit == Init => RestInv
BY DEF Init, RestInv, Cared, Pending

\* main.go:118-154: at rest what was published is counted, unless a call
\* failed or a merge lost all its races.
THEOREM WhatIsPublishedIsCounted == Spec => []PublishedAtRest
<1>1. TypeOK /\ CountInv /\ [Next]_vars => CountInv'
  BY CountNext
<1>2. TypeOK /\ TypeOK' /\ CountInv /\ RestInv /\ [Next]_vars => RestInv'
  BY RestNext
<1>3. ASSUME RestInv PROVE PublishedAtRest
  <2> SUFFICES ASSUME Quiet, NEW e \in Events \ Malformed, published[e] > 0
               PROVE  CountedAs(LineId[e]) # {} \/ exhausted \/ faults > 0
    BY DEF PublishedAtRest
  <2>1. /\ ~Marking(e) /\ ~(queue[e] > 0) /\ Holding(LineId[e]) = {}
    BY DEF Quiet, Marking, Holding, Workers
  <2> QED
    BY <1>3, <2>1 DEF RestInv, Pending, Cared
<1> QED
  BY TypeCorrect, CountInit, RestInit, <1>1, <1>2, <1>3, PTL DEF Spec

-----------------------------------------------------------------------------
(***************************************************************************)
(* Sums over finite sets                                                   *)
(***************************************************************************)
\* Induction over the subsets of a finite set, for a set of subsets: one that
\* contains each subset all of whose strict subsets it contains has them all.
LEMMA SubsetInduction ==
  ASSUME NEW S, IsFiniteSet(S), NEW Good,
         \A T \in SUBSET S :
           (\A U \in SUBSET T : U # T => U \in Good) => T \in Good
  PROVE  SUBSET S \subseteq Good
<1> DEFINE Bad == {T \in SUBSET S : T \notin Good}
<1>1. SUFFICES ASSUME Bad # {} PROVE FALSE
  OBVIOUS
<1>2. Bad \subseteq FiniteSubsetsOf(S)
  BY FS_Subset DEF FiniteSubsetsOf
<1>3. PICK T \in Bad : \A U \in Bad : <<U, T>> \notin StrictSubsetOrdering(S)
  <2>1. IsWellFoundedOn(StrictSubsetOrdering(S), FiniteSubsetsOf(S))
    BY FS_StrictSubsetOrderingWellFounded
  <2> HIDE DEF Bad
  <2> QED
    BY <1>1, <1>2, <2>1, WFMin
<1>4. ASSUME NEW U \in SUBSET T, U # T PROVE U \in Good
  <2>1. U \in SUBSET S
    OBVIOUS
  <2>2. <<U, T>> \in StrictSubsetOrdering(S)
    BY <1>4, <2>1 DEF StrictSubsetOrdering
  <2> QED
    BY <1>3, <2>1, <2>2
<1> QED
  BY <1>4

\* g sums up f over the subsets of U, taking the elements as CHOOSE has them.
Pick(V) == CHOOSE x \in V : TRUE

SumsUp(g, f, U) ==
  \A V \in SUBSET U :
    g[V] = IF V = {} THEN 0 ELSE f[Pick(V)] + g[V \ {Pick(V)}]

\* There is only one way to sum up.
LEMMA SumsAgree ==
  ASSUME NEW U, IsFiniteSet(U), NEW f, NEW g, NEW h,
         SumsUp(g, f, U), SumsUp(h, f, U)
  PROVE  \A V \in SUBSET U : g[V] = h[V]
<1> DEFINE Good == {V \in SUBSET U : g[V] = h[V]}
<1>1. ASSUME NEW T \in SUBSET U, \A V \in SUBSET T : V # T => V \in Good
      PROVE  T \in Good
  <2>1. CASE T = {}
    BY <2>1 DEF SumsUp
  <2>2. CASE T # {}
    <3>1. Pick(T) \in T
      BY <2>2 DEF Pick
    <3>2. T \ {Pick(T)} \in Good
      BY <1>1, <3>1
    <3> QED
      BY <2>2, <3>2 DEF SumsUp
  <2> QED
    BY <2>1, <2>2
<1> HIDE DEF Good
<1>2. SUBSET U \subseteq Good
  BY <1>1, SubsetInduction
<1> QED
  BY <1>2 DEF Good

\* And there is one.
LEMMA SumsExist ==
  ASSUME NEW S, IsFiniteSet(S), NEW f
  PROVE  \E g : SumsUp(g, f, S)
<1> DEFINE Good == {T \in SUBSET S : \E g : SumsUp(g, f, T)}
           H(W) == (CHOOSE h : SumsUp(h, f, W))[W]
<1>1. ASSUME NEW T \in SUBSET S, \A V \in SUBSET T : V # T => V \in Good
      PROVE  \E g : SumsUp(g, f, T)
  <2> DEFINE g == [V \in SUBSET T |->
                    IF V = {} THEN 0 ELSE f[Pick(V)] + H(V \ {Pick(V)})]
  <2>1. ASSUME NEW W \in SUBSET T, W # T
        PROVE  SumsUp(CHOOSE h : SumsUp(h, f, W), f, W)
    <3>1. \E h : SumsUp(h, f, W)
      BY <1>1, <2>1
    <3> QED
      BY <3>1
  <2>2. ASSUME NEW W \in SUBSET T, W # T
        PROVE  H(W) = IF W = {} THEN 0 ELSE f[Pick(W)] + H(W \ {Pick(W)})
    <3> DEFINE h == CHOOSE i : SumsUp(i, f, W)
               X == W \ {Pick(W)}
               k == CHOOSE i : SumsUp(i, f, X)
    <3>1. SumsUp(h, f, W)
      BY <2>1, <2>2
    <3>2. CASE W = {}
      <4>1. h[W] = 0
        <5> HIDE DEF h
        <5> QED
          BY <3>1, <3>2 DEF SumsUp
      <4> QED
        BY <3>2, <4>1
    <3>3. CASE W # {}
      <4>1. Pick(W) \in W
        BY <3>3 DEF Pick
      <4>2. X \in SUBSET W /\ X \in SUBSET T /\ X # T /\ X \in SUBSET S
        BY <4>1
      <4>3. SumsUp(k, f, X)
        BY <2>1, <4>2
      <4>4. h[W] = f[Pick(W)] + h[X] /\ SumsUp(h, f, X)
        <5> HIDE DEF h
        <5> QED
          BY <3>1, <3>3, <4>2 DEF SumsUp
      <4>5. IsFiniteSet(X)
        BY <4>2, FS_Subset
      <4>6. h[X] = k[X]
        <5> HIDE DEF h, k, X
        <5> QED
          BY <4>3, <4>4, <4>5, SumsAgree
      <4>7. H(W) = h[W] /\ H(X) = k[X]
        OBVIOUS
      <4> HIDE DEF h, k, H
      <4> QED
        BY <3>3, <4>4, <4>6, <4>7
    <3> QED
      BY <3>2, <3>3
  <2> HIDE DEF H
  <2>3. ASSUME NEW V \in SUBSET T
        PROVE  g[V] = IF V = {} THEN 0 ELSE f[Pick(V)] + g[V \ {Pick(V)}]
    <3>1. CASE V = {}
      BY <3>1
    <3>2. CASE V # {}
      <4>1. Pick(V) \in V
        BY <3>2 DEF Pick
      <4> DEFINE W == V \ {Pick(V)}
      <4>2. W \in SUBSET T /\ W # T
        BY <4>1
      <4>3. g[V] = f[Pick(V)] + H(W)
        BY <3>2
      <4>4. g[W] = IF W = {} THEN 0 ELSE f[Pick(W)] + H(W \ {Pick(W)})
        BY <4>2
      <4>5. g[W] = H(W)
        <5> HIDE DEF g, W
        <5> QED
          BY <2>2, <4>2, <4>4
      <4> HIDE DEF g
      <4> QED
        BY <3>2, <4>3, <4>5
    <3> QED
      BY <3>1, <3>2
  <2> HIDE DEF g
  <2>4. SumsUp(g, f, T)
    BY <2>3 DEF SumsUp
  <2> QED
    BY <2>4
<1> HIDE DEF H
<1>2. \A T \in SUBSET S :
        (\A U \in SUBSET T : U # T => U \in Good) => T \in Good
  BY <1>1
<1> HIDE DEF Good
<1>3. SUBSET S \subseteq Good
  BY <1>2, SubsetInduction
<1>4. S \in Good
  BY <1>3
<1> QED
  BY <1>4 DEF Good

\* Integers sum up to an integer.
LEMMA SumsAreIntegers ==
  ASSUME NEW U, IsFiniteSet(U), NEW f, \A x \in U : f[x] \in Int,
         NEW g, SumsUp(g, f, U)
  PROVE  \A V \in SUBSET U : g[V] \in Int
<1> DEFINE Good == {V \in SUBSET U : g[V] \in Int}
<1>1. ASSUME NEW T \in SUBSET U, \A V \in SUBSET T : V # T => V \in Good
      PROVE  T \in Good
  <2>1. CASE T = {}
    <3>1. g[T] = 0
      BY <2>1 DEF SumsUp
    <3> QED
      BY <3>1
  <2>2. CASE T # {}
    <3>1. Pick(T) \in T
      BY <2>2 DEF Pick
    <3>2. T \ {Pick(T)} \in Good
      BY <1>1, <3>1
    <3>3. g[T] = f[Pick(T)] + g[T \ {Pick(T)}]
      BY <2>2 DEF SumsUp
    <3>4. f[Pick(T)] \in Int /\ g[T \ {Pick(T)}] \in Int
      BY <3>1, <3>2
    <3>5. g[T] \in Int
      BY <3>3, <3>4
    <3> QED
      BY <3>5
  <2> QED
    BY <2>1, <2>2
<1> HIDE DEF Good
<1>2. SUBSET U \subseteq Good
  BY <1>1, SubsetInduction
<1> QED
  BY <1>2 DEF Good

\* The cost of a bag is such a sum.
LEMMA CostSumsUp ==
  ASSUME NEW bag
  PROVE  \E g : /\ SumsUp(g, [e \in Events |-> bag[e] * EventCost[e]], Events)
                /\ CostOf(bag) = g[Events]
<1> DEFINE f == [e \in Events |-> bag[e] * EventCost[e]]
           Sum(g) == [s \in SUBSET Events |->
                       IF s = {} THEN 0
                       ELSE (bag[CHOOSE x \in s : TRUE] * EventCost[CHOOSE x \in s : TRUE])
                              + g[s \ {CHOOSE x \in s : TRUE}]]
<1>1. CostOf(bag) = (CHOOSE g : g = Sum(g))[Events]
  BY DEF CostOf, MapThenSumSet, MapThenFoldSet
<1>2. \A g : g = Sum(g) => SumsUp(g, f, Events)
  <2> SUFFICES ASSUME NEW g, g = Sum(g), NEW V \in SUBSET Events
               PROVE  g[V] = IF V = {} THEN 0 ELSE f[Pick(V)] + g[V \ {Pick(V)}]
    BY DEF SumsUp
  <2>1. g[V] = IF V = {} THEN 0
               ELSE (bag[Pick(V)] * EventCost[Pick(V)]) + g[V \ {Pick(V)}]
    BY DEF Pick
  <2>2. V # {} => Pick(V) \in Events
    BY DEF Pick
  <2> QED
    BY <2>1, <2>2
<1>3. \E g : g = Sum(g)
  <2>1. PICK h : SumsUp(h, f, Events)
    BY EventsAssumption, SumsExist
  <2> DEFINE g == [s \in SUBSET Events |-> h[s]]
  <2>2. ASSUME NEW V \in SUBSET Events
        PROVE  g[V] = IF V = {} THEN 0
                      ELSE (bag[Pick(V)] * EventCost[Pick(V)]) + g[V \ {Pick(V)}]
    <3>1. h[V] = IF V = {} THEN 0 ELSE f[Pick(V)] + h[V \ {Pick(V)}]
      BY <2>1 DEF SumsUp
    <3>2. V # {} => Pick(V) \in Events
      BY DEF Pick
    <3> QED
      BY <3>1, <3>2
  <2>3. g = Sum(g)
    <3>1. g = [s \in SUBSET Events |-> g[s]]
      OBVIOUS
    <3>2. \A V \in SUBSET Events : g[V] = Sum(g)[V]
      BY <2>2 DEF Pick
    <3> HIDE DEF g
    <3> QED
      BY <3>1, <3>2
  <2> QED
    BY <2>3
<1> HIDE DEF Sum, f
<1>4. (CHOOSE g : g = Sum(g)) = Sum(CHOOSE g : g = Sum(g))
  BY <1>3
<1>5. SumsUp(CHOOSE g : g = Sum(g), f, Events)
  BY <1>2, <1>4
<1> QED
  BY <1>1, <1>5 DEF f

\* Products with a number are monotonic.
LEMMA TimesGrows ==
  ASSUME NEW x \in Int, NEW y \in Int, NEW n \in Nat, x <= y
  PROVE  x * n \in Int /\ y * n \in Int /\ x * n <= y * n
OBVIOUS

\* Costs are whole numbers of cents.
LEMMA CostIsInteger ==
  ASSUME NEW bag \in Bag
  PROVE  CostOf(bag) \in Int
<1> DEFINE f == [e \in Events |-> bag[e] * EventCost[e]]
<1>1. PICK g : SumsUp(g, f, Events) /\ CostOf(bag) = g[Events]
  BY CostSumsUp
<1>2. \A e \in Events : f[e] \in Int
  BY EventsAssumption DEF Bag
<1> HIDE DEF f
<1> QED
  BY <1>1, <1>2, EventsAssumption, SumsAreIntegers

\* So does the sum of a history: it is a whole number.
BaselineSum(history) ==
  MapThenSumSet(LAMBDA d : CostOf(history[d]), DOMAIN history)

LEMMA BaselineSumsUp ==
  ASSUME NEW history, IsFiniteSet(DOMAIN history)
  PROVE  \E g : /\ SumsUp(g, [d \in DOMAIN history |-> CostOf(history[d])],
                          DOMAIN history)
                /\ BaselineSum(history) = g[DOMAIN history]
<1> DEFINE D == DOMAIN history
           f == [d \in D |-> CostOf(history[d])]
           Sum(g) == [s \in SUBSET D |->
                       IF s = {} THEN 0
                       ELSE CostOf(history[CHOOSE x \in s : TRUE])
                              + g[s \ {CHOOSE x \in s : TRUE}]]
<1>1. BaselineSum(history) = (CHOOSE g : g = Sum(g))[D]
  BY DEF BaselineSum, MapThenSumSet, MapThenFoldSet
<1>2. \A g : g = Sum(g) => SumsUp(g, f, D)
  <2> SUFFICES ASSUME NEW g, g = Sum(g), NEW V \in SUBSET D
               PROVE  g[V] = IF V = {} THEN 0 ELSE f[Pick(V)] + g[V \ {Pick(V)}]
    BY DEF SumsUp
  <2>1. g[V] = IF V = {} THEN 0
               ELSE CostOf(history[Pick(V)]) + g[V \ {Pick(V)}]
    BY DEF Pick
  <2>2. V # {} => Pick(V) \in D
    BY DEF Pick
  <2> QED
    BY <2>1, <2>2
<1>3. \E g : g = Sum(g)
  <2>1. PICK h : SumsUp(h, f, D)
    BY SumsExist
  <2> DEFINE g == [s \in SUBSET D |-> h[s]]
  <2>2. ASSUME NEW V \in SUBSET D
        PROVE  g[V] = IF V = {} THEN 0
                      ELSE CostOf(history[Pick(V)]) + g[V \ {Pick(V)}]
    <3>1. h[V] = IF V = {} THEN 0 ELSE f[Pick(V)] + h[V \ {Pick(V)}]
      BY <2>1 DEF SumsUp
    <3>2. V # {} => Pick(V) \in D
      BY DEF Pick
    <3> QED
      BY <3>1, <3>2
  <2>3. g = Sum(g)
    <3>1. g = [s \in SUBSET D |-> g[s]]
      OBVIOUS
    <3>2. \A V \in SUBSET D : g[V] = Sum(g)[V]
      BY <2>2 DEF Pick
    <3> HIDE DEF g
    <3> QED
      BY <3>1, <3>2
  <2> QED
    BY <2>3
<1> HIDE DEF Sum, f
<1>4. (CHOOSE g : g = Sum(g)) = Sum(CHOOSE g : g = Sum(g))
  BY <1>3
<1>5. SumsUp(CHOOSE g : g = Sum(g), f, D)
  BY <1>2, <1>4
<1> QED
  BY <1>1, <1>5 DEF f

\* anomaly.go:57-72: a row over its threshold stays over it when it costs no
\* less and its baseline is the same.
LEMMA DetectGrows ==
  ASSUME NEW b \in Bag, NEW c \in Bag, CostOf(b) <= CostOf(c),
         NEW history \in Histories, Detect(b, history)
  PROVE  Detect(c, history)
<1> DEFINE n == Cardinality(DOMAIN history)
           sum == BaselineSum(history)
<1>1. IsFiniteSet(DOMAIN history) /\ n \in Nat
  <2>1. DOMAIN history \subseteq 1..BaselineDays
    BY DEF Histories
  <2> QED
    <3>1. IsFiniteSet(1..BaselineDays)
      BY BoundsAssumption, FS_Interval
    <3>2. IsFiniteSet(DOMAIN history)
      BY <2>1, <3>1, FS_Subset
    <3> QED
      BY <3>2, FS_CardinalityType
<1>2. sum \in Int
  <2>1. \A d \in DOMAIN history : history[d] \in Bag
    BY DEF Histories
  <2> DEFINE f == [d \in DOMAIN history |-> CostOf(history[d])]
  <2>2. \A d \in DOMAIN history : f[d] \in Int
    BY <2>1, CostIsInteger
  <2>3. PICK g : SumsUp(g, f, DOMAIN history) /\ sum = g[DOMAIN history]
    BY <1>1, BaselineSumsUp
  <2> HIDE DEF f, sum
  <2> QED
    BY <1>1, <2>2, <2>3, SumsAreIntegers
<1>3. /\ CostOf(b) > 0 /\ n > 0
      /\ sum >= MinBaselineUSD * n
      /\ CostOf(b) * n * PctDen >= sum * PctNum
  BY DEF Detect, BaselineSum
<1>4. CostOf(b) \in Int /\ CostOf(c) \in Int /\ CostOf(b) <= CostOf(c)
  BY CostIsInteger
<1> HIDE DEF n, sum
<1>5. PctDen \in Nat /\ PctNum \in Int
  BY BoundsAssumption
<1>6. /\ CostOf(b) * n \in Int /\ CostOf(c) * n \in Int
      /\ CostOf(b) * n <= CostOf(c) * n
  BY <1>1, <1>4, TimesGrows
<1>7. /\ CostOf(b) * n * PctDen \in Int /\ CostOf(c) * n * PctDen \in Int
      /\ CostOf(b) * n * PctDen <= CostOf(c) * n * PctDen
  BY <1>5, <1>6, TimesGrows
<1>8. sum * PctNum \in Int
  BY <1>2, <1>5
<1>9. CostOf(c) * n * PctDen >= sum * PctNum
  BY <1>3, <1>7, <1>8
<1>10. CostOf(c) > 0
  BY <1>3, <1>4
<1> QED
  BY <1>3, <1>9, <1>10 DEF Detect, BaselineSum, n, sum

-----------------------------------------------------------------------------
(***************************************************************************)
(* What is announced was over its threshold, or its detection was torn     *)
(***************************************************************************)
\* What worker w has read is what a reading of the store at once would give,
\* of a row that costs no less by now, unless the detection was torn; so what
\* it has concluded was true in some state of the store.
Concludes(w) ==
  LET k == probe[w].key
      n == probe[w].n
  IN  /\ pc[w] = "prior" =>
           /\ Present(rollup, k)
           /\ n <= BaselineDays /\ k \notin torn =>
                /\ probe[w].history = HistoryTo(rollup, k, n - 1)
                /\ CostOf(probe[w].current) <= CostOf(rollup[k].merged)
           /\ n > BaselineDays /\ IsAnomaly(w) => k \in tripped \cup torn
      /\ pc[w] \in {"marker", "publish"} => k \in tripped \cup torn

TripInv ==
  /\ \A k \in Key : Trips(rollup, k) => k \in tripped
  /\ \A w \in Workers : Concludes(w)
  /\ AnnouncedHadTripped

\* Every write is on record.
LEMMA TrippedEffect ==
  ASSUME [Next]_vars
  PROVE  \/ UNCHANGED <<rollup, tripped, torn>>
         \/ \E h \in Handlers :
              StoreRollup(KeyOf(h), Merge(job[h].base, job[h].evt))
<1>1. ASSUME NEW h \in Handlers, CommitRollup(h) \/ WriteRollupFails(h)
      PROVE  \/ UNCHANGED <<rollup, tripped, torn>>
             \/ StoreRollup(KeyOf(h), Merge(job[h].base, job[h].evt))
  BY <1>1 DEF CommitRollup, WriteRollupFails
<1> QED
  BY <1>1
  DEF Next, Receive, Apply, RunDetection, ScanStep, Disturb, vars, store,
      ghosts, Publish, Deliver, DropMalformed, Respond, Redeliver, Crash,
      MarkProcessed, SkipDuplicate, MarkProcessedFails, ReadRollup,
      ReadRollupFails, RetryRollup, ExhaustRollup, FetchCurrent, FetchPrior,
      FetchFails, RunDetect, SaveMarker, DetectedDup, SaveMarkerFails,
      PublishAnomaly, PublishAnomalyFails, StartScan, NextPair, EndScan

\* How a worker comes to be inside runDetection on a row it has read.
LEMMA WhoConcludes ==
  ASSUME TypeOK, [Next]_vars, NEW w \in Workers
  PROVE  \/ pc'[w] = pc[w] /\ probe'[w] = probe[w]
         \/ pc'[w] \notin {"prior", "marker", "publish"}
         \/ FetchCurrent(w) \/ FetchPrior(w) \/ RunDetect(w) \/ SaveMarker(w)
<1>0. /\ pc \in [Workers -> HandlerPC \cup ScannerPC]
      /\ probe \in [Workers -> Probe]
      /\ \A h \in Handlers : h \in Workers
      /\ \A s \in Scanners : s \in Workers
  BY DEF TypeOK, LocalTypeOK, Workers
<1> DEFINE Stays == pc'[w] = pc[w] /\ probe'[w] = probe[w]
           Leaves == pc'[w] \notin {"prior", "marker", "publish"}
<1>1. ASSUME NEW e \in Events, Publish(e) PROVE Stays
  BY <1>1 DEF Publish, locals
<1>2. ASSUME NEW h \in Handlers, Receive(h) PROVE Stays \/ Leaves
  BY <1>0, <1>2 DEF Receive, Deliver, DropMalformed, locals
<1>3. ASSUME NEW h \in Handlers, Apply(h) PROVE Stays \/ Leaves
  <2>1. \/ /\ probe' = probe
           /\ \E label \in {"read", "write", "SUCCESS", "RETRY"} : Goto(h, label)
        \/ /\ \E p : probe' = [probe EXCEPT ![h] = p]
           /\ \E label \in {"current", "idle"} : Goto(h, label)
    BY <1>3 DEF Apply, MarkProcessed, SkipDuplicate, ReadRollup,
                CommitRollup, RetryRollup, ExhaustRollup, Respond
  <2> QED
    BY <1>0, <2>1
<1>4. ASSUME NEW v \in Workers, RunDetection(v)
      PROVE  \/ Stays \/ Leaves
             \/ FetchCurrent(w) \/ FetchPrior(w) \/ RunDetect(w) \/ SaveMarker(w)
  <2>1. CASE v = w
    <3>1. CASE DetectedDup(w) \/ PublishAnomaly(w)
      BY <1>0, <3>1 DEF DetectedDup, PublishAnomaly, Done
    <3> QED
      BY <1>4, <2>1, <3>1 DEF RunDetection
  <2>2. CASE v # w
    BY <1>0, <1>4, <2>2
    DEF RunDetection, FetchCurrent, FetchPrior, RunDetect, SaveMarker,
        DetectedDup, PublishAnomaly
  <2> QED
    BY <2>1, <2>2
<1>5. ASSUME NEW s \in Scanners,
             ScanStep(s) \/ \E d \in Days : StartScan(s, d)
      PROVE  Stays \/ Leaves
  BY <1>0, <1>5 DEF ScanStep, NextPair, EndScan, StartScan
<1>6. ASSUME Disturb PROVE Stays \/ Leaves
  <2>1. CASE Crash
    BY <1>0, <2>1 DEF Crash
  <2>2. ASSUME NEW h \in Handlers,
               \/ Redeliver(h) \/ MarkProcessedFails(h)
               \/ ReadRollupFails(h) \/ WriteRollupFails(h)
        PROVE  Stays \/ Leaves
    BY <1>0, <2>2 DEF Redeliver, MarkProcessedFails, ReadRollupFails,
                      WriteRollupFails
  <2>3. ASSUME NEW v \in Workers,
               FetchFails(v) \/ SaveMarkerFails(v) \/ PublishAnomalyFails(v)
        PROVE  Stays \/ Leaves
    <3>1. probe' = probe /\ Goto(v, Done(v))
      BY <2>3 DEF FetchFails, SaveMarkerFails, PublishAnomalyFails
    <3>2. Done(v) \notin {"prior", "marker", "publish"}
      BY DEF Done
    <3> QED
      BY <1>0, <3>1, <3>2
  <2> QED
    BY <1>6, <2>1, <2>2, <2>3 DEF Disturb
<1>7. CASE UNCHANGED vars
  BY <1>7 DEF vars, locals
<1> QED
  BY <1>1, <1>2, <1>3, <1>4, <1>5, <1>6, <1>7 DEF Next

\* A write to another row than those a history is read from leaves it as it is.
LEMMA HistoryStays ==
  ASSUME NEW k, NEW q, NEW l \in Nat, rollup \in [Key -> Row],
         \A p \in Key \ {q} : rollup'[p] = rollup[p],
         \A m \in 1..l : Prior(k, m) # q
  PROVE  HistoryTo(rollup', k, l) = HistoryTo(rollup, k, l)
<1>1. \A m \in 1..l :
        /\ Present(rollup', Prior(k, m)) <=> Present(rollup, Prior(k, m))
        /\ Present(rollup, Prior(k, m)) =>
             rollup'[Prior(k, m)] = rollup[Prior(k, m)]
  BY DEF Present
<1> QED
  BY <1>1 DEF HistoryTo

\* A detection that no write has torn has read what is there, and goes on to.
LEMMA ReadsStay ==
  ASSUME TypeOK, TypeOK', TripInv, [Next]_vars, NEW w \in Workers,
         pc[w] = "prior", probe[w].n <= BaselineDays, probe[w].key \notin torn'
  PROVE  /\ probe[w].history = HistoryTo(rollup', probe[w].key, probe[w].n - 1)
         /\ CostOf(probe[w].current) <= CostOf(rollup'[probe[w].key].merged)
<1> DEFINE k == probe[w].key
           n == probe[w].n
<1>0. /\ rollup \in [Key -> Row] /\ rollup' \in [Key -> Row]
      /\ probe[w] \in Probe /\ k \in Key /\ n \in 1..(BaselineDays + 1)
      /\ Concludes(w)
  BY DEF TypeOK, DataTypeOK, LocalTypeOK, TripInv, Probing, Probe
<1>1. torn \subseteq torn'
  BY TrippedEffect DEF StoreRollup
<1>2. /\ probe[w].history = HistoryTo(rollup, k, n - 1)
      /\ CostOf(probe[w].current) <= CostOf(rollup[k].merged)
  BY <1>0, <1>1 DEF Concludes
<1>3. CASE UNCHANGED rollup
  BY <1>2, <1>3 DEF HistoryTo, Present
<1>4. ASSUME NEW h \in Handlers,
             StoreRollup(KeyOf(h), Merge(job[h].base, job[h].evt))
      PROVE  /\ probe[w].history = HistoryTo(rollup', k, n - 1)
             /\ CostOf(probe[w].current) <= CostOf(rollup'[k].merged)
  <2> DEFINE q == KeyOf(h)
             row == Merge(job[h].base, job[h].evt)
  <2>1. /\ rollup' = [rollup EXCEPT ![q] = row]
        /\ torn' = torn \cup TornBy(q, row)
    BY <1>4 DEF StoreRollup
  <2> HIDE DEF q, row
  <2>2. k \notin TornBy(q, row)
    BY <2>1
  <2>3. /\ \A m \in 1..(n - 1) : Prior(k, m) # q
        /\ k = q => ~(CostOf(row.merged) < CostOf(rollup[q].merged))
    BY <2>2 DEF TornBy
  <2> HIDE DEF k, n
  <2>4. n - 1 \in Nat
    BY <1>0, BoundsAssumption
  <2>5. \A p \in Key \ {q} : rollup'[p] = rollup[p]
    BY <1>0, <2>1
  <2>6. HistoryTo(rollup', k, n - 1) = HistoryTo(rollup, k, n - 1)
    BY <1>0, <2>3, <2>4, <2>5, HistoryStays
  <2>7. CostOf(rollup[k].merged) <= CostOf(rollup'[k].merged)
    <3>1. rollup[k].merged \in Bag /\ rollup'[k].merged \in Bag
      BY <1>0 DEF Row
    <3>2. CostOf(rollup[k].merged) \in Int /\ CostOf(rollup'[k].merged) \in Int
      BY <3>1, CostIsInteger
    <3>3. CASE k = q
      <4>1. rollup'[k] = row
        BY <1>0, <2>1, <3>3
      <4>2. ~(CostOf(rollup'[k].merged) < CostOf(rollup[k].merged))
        BY <2>3, <3>3, <4>1
      <4> QED
        BY <3>2, <4>2
    <3>4. CASE k # q
      <4>1. rollup'[k] = rollup[k]
        BY <1>0, <2>5, <3>4
      <4> QED
        BY <3>2, <4>1
    <3> QED
      BY <3>3, <3>4
  <2>8. probe[w].current \in Bag
    BY <1>0 DEF Probe
  <2>9. CostOf(probe[w].current) <= CostOf(rollup'[k].merged)
    <3>1. rollup[k].merged \in Bag /\ rollup'[k].merged \in Bag
      BY <1>0 DEF Row
    <3>2. /\ CostOf(rollup[k].merged) \in Int
          /\ CostOf(rollup'[k].merged) \in Int
          /\ CostOf(probe[w].current) \in Int
      BY <2>8, <3>1, CostIsInteger
    <3> QED
      BY <1>2, <2>7, <3>2
  <2> QED
    BY <1>2, <2>6, <2>9
<1>5. \/ UNCHANGED rollup
      \/ \E h \in Handlers :
           StoreRollup(KeyOf(h), Merge(job[h].base, job[h].evt))
  BY TrippedEffect
<1> QED
  BY <1>3, <1>4, <1>5

\* A row that is read to the end and found over the threshold is over it.
LEMMA ReadingIsTrue ==
  ASSUME TypeOK, TripInv, NEW k \in Key, Present(rollup, k),
         NEW b \in Bag, CostOf(b) <= CostOf(rollup[k].merged),
         History(rollup, k) \in Histories, Detect(b, History(rollup, k))
  PROVE  k \in tripped
<1>1. rollup[k].merged \in Bag
  BY DEF TypeOK, DataTypeOK, Row
<1>2. Detect(rollup[k].merged, History(rollup, k))
  BY <1>1, DetectGrows
<1> QED
  BY <1>2 DEF TripInv, Trips

\* The reads of runDetection, and what they tell.
LEMMA ConcludesStep ==
  ASSUME TypeOK, TypeOK', CountInv, StartsFresh, TripInv, [Next]_vars,
         tripped \subseteq tripped', torn \subseteq torn', NEW w \in Workers
  PROVE  Concludes(w)'
<1> DEFINE k == probe[w].key
           n == probe[w].n
<1>0. /\ pc \in [Workers -> HandlerPC \cup ScannerPC]
      /\ probe \in [Workers -> Probe] /\ probe[w] \in Probe
      /\ probe'[w] \in Probe
      /\ n \in 1..(BaselineDays + 1) /\ BaselineDays \in Nat
      /\ rollup \in [Key -> Row] /\ rollup' \in [Key -> Row]
      /\ pc[w] \in Probing => k \in Key
      /\ Concludes(w)
  BY BoundsAssumption DEF TypeOK, LocalTypeOK, DataTypeOK, TripInv, Probe
<1>1. CASE pc'[w] = pc[w] /\ probe'[w] = probe[w]
  <2>1. ASSUME pc[w] = "prior" PROVE Present(rollup', k)
    <3>1. k \in Key /\ Present(rollup, k)
      BY <1>0, <2>1 DEF Concludes, Probing
    <3> QED
      BY <3>1, RowsStay DEF StoredStays, Present
  <2>2. ASSUME pc[w] = "prior", n <= BaselineDays, k \notin torn'
        PROVE  /\ probe[w].history = HistoryTo(rollup', k, n - 1)
               /\ CostOf(probe[w].current) <= CostOf(rollup'[k].merged)
    BY <2>2, ReadsStay
  <2>3. ASSUME pc[w] = "prior", n > BaselineDays, IsAnomaly(w)
        PROVE  k \in tripped' \cup torn'
    BY <1>0, <2>3 DEF Concludes
  <2>4. ASSUME pc[w] \in {"marker", "publish"}
        PROVE  k \in tripped' \cup torn'
    BY <1>0, <2>4 DEF Concludes
  <2>5. IsAnomaly(w)' <=> IsAnomaly(w)
    BY <1>1 DEF IsAnomaly
  <2> QED
    BY <1>1, <2>1, <2>2, <2>3, <2>4, <2>5 DEF Concludes
<1>2. CASE pc'[w] \notin {"prior", "marker", "publish"}
  BY <1>2 DEF Concludes
<1>3. CASE FetchCurrent(w)
  <2>1. pc[w] = "current" /\ n = 1 /\ probe[w].history = NoHistory
    BY <1>3 DEF FetchCurrent, StartsFresh
  <2>2. CASE Present(rollup, k)
    <3> DEFINE b == rollup[k].merged
    <3>1. /\ pc'[w] = "prior" /\ probe'[w].key = k
          /\ probe'[w].current = b
          /\ probe'[w].n = 1 /\ probe'[w].history = NoHistory
          /\ UNCHANGED rollup
      BY <1>0, <1>3, <2>1, <2>2 DEF FetchCurrent, Probe, store
    <3>2. k \in Key /\ b \in Bag
      BY <1>0, <2>2 DEF Present, Row
    <3> HIDE DEF k
    <3>3. HistoryTo(rollup, k, 1 - 1) = NoHistory
      BY HistoryStart
    <3>4. CostOf(b) \in Int /\ CostOf(b) <= CostOf(b)
      BY <3>2, CostIsInteger
    <3>5. ASSUME 1 > BaselineDays, IsAnomaly(w)' PROVE k \in tripped'
      <4>1. BaselineDays = 1 - 1
        BY <1>0, <3>5
      <4>2. History(rollup, k) = NoHistory
        BY <3>3, <4>1 DEF History
      <4>3. History(rollup, k) \in Histories
        BY <1>0, <3>1, <4>2 DEF Probe
      <4>4. Detect(b, History(rollup, k))
        BY <3>1, <3>5, <4>2 DEF IsAnomaly
      <4> HIDE DEF b
      <4>5. k \in tripped
        BY <2>2, <3>2, <3>4, <4>3, <4>4, ReadingIsTrue DEF b
      <4> QED
        BY <4>5
    <3>6. HistoryTo(rollup', k, 1 - 1) = NoHistory
      BY <3>1, <3>3
    <3>7. Present(rollup', k) /\ rollup'[k].merged = b
      BY <2>2, <3>1
    <3> HIDE DEF b
    <3> QED
      BY <3>1, <3>4, <3>5, <3>6, <3>7 DEF Concludes
  <2>3. CASE ~Present(rollup, k)
    BY <1>0, <1>2, <1>3, <2>3 DEF FetchCurrent, Done
  <2> QED
    BY <2>2, <2>3
<1>4. CASE FetchPrior(w)
  <2> DEFINE p == Prior(k, n)
             b == probe[w].current
  <2>1. /\ pc[w] = "prior" /\ pc'[w] = "prior" /\ n <= BaselineDays
        /\ UNCHANGED <<rollup, tripped, torn>>
    BY <1>0, <1>4 DEF FetchPrior, Probe, store, ghosts
  <2>2. /\ probe'[w].key = k /\ probe'[w].current = b /\ probe'[w].n = n + 1
        /\ probe'[w].history =
             IF Present(rollup, p)
               THEN WithDay(probe[w].history, n, rollup[p].merged)
               ELSE probe[w].history
    BY <1>0, <1>4, <2>1 DEF FetchPrior, Probe
  <2>3. Present(rollup, k) /\ k \in Key /\ b \in Bag
    BY <1>0, <2>1 DEF Concludes, Present, Probe
  <2>4. ASSUME k \notin torn
        PROVE  /\ probe'[w].history = HistoryTo(rollup, k, n)
               /\ CostOf(b) <= CostOf(rollup[k].merged)
    <3>1. /\ probe[w].history = HistoryTo(rollup, k, n - 1)
          /\ CostOf(b) <= CostOf(rollup[k].merged)
      BY <1>0, <2>1, <2>4 DEF Concludes
    <3>2. n \in 1..BaselineDays
      BY <1>0, <2>1
    <3> HIDE DEF k, n, b
    <3>3. HistoryTo(rollup, k, n) =
            IF Present(rollup, p)
              THEN WithDay(HistoryTo(rollup, k, n - 1), n, rollup[p].merged)
              ELSE HistoryTo(rollup, k, n - 1)
      BY <3>2, HistoryStep
    <3> QED
      BY <2>2, <3>1, <3>3
  <2>5. ASSUME k \notin torn, n + 1 > BaselineDays, IsAnomaly(w)'
        PROVE  k \in tripped
    <3>1. n = BaselineDays
      BY <1>0, <2>1, <2>5
    <3>2. probe'[w].history = History(rollup, k)
      BY <2>4, <2>5, <3>1 DEF History
    <3>3. History(rollup, k) \in Histories
      BY <1>0, <3>2 DEF Probe
    <3>4. Detect(b, History(rollup, k))
      BY <2>2, <2>5, <3>2 DEF IsAnomaly
    <3>5. CostOf(b) <= CostOf(rollup[k].merged)
      BY <2>4, <2>5
    <3> HIDE DEF k, b
    <3> QED
      BY <2>3, <3>3, <3>4, <3>5, ReadingIsTrue
  <2>6. (n + 1) - 1 = n
    BY <1>0
  <2>7. HistoryTo(rollup', k, (n + 1) - 1) = HistoryTo(rollup, k, n)
    BY <2>1, <2>6
  <2>8. Present(rollup', k) /\ rollup'[k].merged = rollup[k].merged
    BY <2>1, <2>3
  <2> HIDE DEF k, n, b
  <2> QED
    BY <2>1, <2>2, <2>4, <2>5, <2>7, <2>8 DEF Concludes
<1>5. CASE RunDetect(w)
  <2>1. /\ pc[w] = "prior" /\ n > BaselineDays /\ probe'[w] = probe[w]
        /\ pc'[w] = IF IsAnomaly(w) THEN "marker" ELSE Done(w)
    BY <1>0, <1>5 DEF RunDetect
  <2>2. CASE IsAnomaly(w)
    <3>1. k \in tripped \cup torn
      BY <1>0, <2>1, <2>2 DEF Concludes
    <3> QED
      BY <2>1, <2>2, <3>1 DEF Concludes
  <2>3. CASE ~IsAnomaly(w)
    BY <1>2, <2>1, <2>3 DEF Done
  <2> QED
    BY <2>2, <2>3
<1>6. CASE SaveMarker(w)
  <2>1. pc[w] = "marker" /\ pc'[w] = "publish" /\ probe' = probe
    BY <1>0, <1>6 DEF SaveMarker
  <2>2. k \in tripped \cup torn
    BY <1>0, <2>1 DEF Concludes
  <2> QED
    BY <2>1, <2>2 DEF Concludes
<1> QED
  BY <1>1, <1>2, <1>3, <1>4, <1>5, <1>6, WhoConcludes

LEMMA TripNext ==
  ASSUME TypeOK, TypeOK', CountInv, StartsFresh, TripInv, [Next]_vars
  PROVE  TripInv'
<1>1. tripped \subseteq tripped' /\ torn \subseteq torn'
  BY TrippedEffect DEF StoreRollup
<1>2. ASSUME NEW k \in Key, Trips(rollup', k) PROVE k \in tripped'
  <2>1. CASE UNCHANGED <<rollup, tripped>>
    BY <1>2, <2>1 DEF TripInv
  <2>2. ASSUME NEW h \in Handlers,
               StoreRollup(KeyOf(h), Merge(job[h].base, job[h].evt))
        PROVE  k \in tripped'
    BY <1>2, <2>2 DEF StoreRollup
  <2> QED
    BY <2>1, <2>2, TrippedEffect
<1>3. \A w \in Workers : Concludes(w)'
  BY <1>1, ConcludesStep
<1>4. ASSUME NEW k \in Key, announced'[k] > 0 PROVE k \in tripped' \cup torn'
  <2>1. announced \in [Key -> Nat]
    BY DEF TypeOK, DataTypeOK
  <2>2. CASE announced' = announced
    BY <1>1, <1>4, <2>2 DEF TripInv, AnnouncedHadTripped
  <2>3. ASSUME NEW w \in Workers, pc[w] = "publish",
               announced' = [announced EXCEPT ![probe[w].key] = @ + 1]
        PROVE  k \in tripped' \cup torn'
    <3>1. probe[w].key \in tripped \cup torn
      BY <2>3 DEF TripInv, Concludes
    <3>2. CASE k = probe[w].key
      BY <1>1, <3>1, <3>2
    <3>3. CASE k # probe[w].key
      <4>1. announced[k] > 0
        BY <1>4, <2>1, <2>3, <3>3
      <4> QED
        BY <1>1, <4>1 DEF TripInv, AnnouncedHadTripped
    <3> QED
      BY <3>2, <3>3
  <2> QED
    BY <2>2, <2>3, WhoChangesWhat
<1> QED
  BY <1>2, <1>3, <1>4 DEF TripInv, AnnouncedHadTripped

\* No row is over its threshold and nobody is in runDetection.
LEMMA TripInit == Init => TripInv
<1> SUFFICES ASSUME Init PROVE TripInv
  OBVIOUS
<1>1. \A k \in Key : ~Trips(rollup, k)
  BY DEF Init, Absent, Trips, Present
<1> QED
  BY <1>1 DEF Init, TripInv, Concludes, AnnouncedHadTripped

\* main.go:227-276: for any number of baseline days and with credits, in every
\* interleaving of runDetection's reads with the commits of other handlers and
\* under every fault, an anomaly is announced only if its row was over the
\* threshold at a time, or a write tore the detection.
THEOREM NoFalseAlarms == Spec => []AnnouncedHadTripped
<1>1. TypeOK /\ TypeOK' /\ CountInv /\ AttendInv /\ TripInv /\ [Next]_vars
        => TripInv'
  BY TripNext DEF AttendInv
<1>2. TripInv => AnnouncedHadTripped
  BY DEF TripInv
<1>3. TypeOK /\ CountInv /\ [Next]_vars => CountInv'
  BY CountNext
<1> QED
  BY TypeCorrect, AttendHolds, CountInit, TripInit, <1>1, <1>2, <1>3, PTL
  DEF Spec
=============================================================================
