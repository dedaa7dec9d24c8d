-------------------------- MODULE TriageSvc_proofs --------------------------
(***************************************************************************)
(* Proofs about TriageSvc, for every set of requests, instances, handlers  *)
(* and readers and every value of the bounds.                              *)
(*                                                                         *)
(* IndexedOnce is not inductive: whether an append keeps it depends on     *)
(* what the handler has read.  SnapshotFresh says that a snapshot with the *)
(* current ETag is the current index, AppendsStarted that the ID about to  *)
(* be appended has its workflow, StartIsUnderway that no started instance  *)
(* is forgotten on its way to the index.                                   *)
(***************************************************************************)
EXTENDS TriageSvc, FiniteSetTheorems, TLAPS

Inv == TypeOK /\ IndexInv

-----------------------------------------------------------------------------
(***************************************************************************)
(* What the locals of a worker hold                                        *)
(***************************************************************************)
\* The number of deliveries a crash puts back is a number.
LEMMA InFlightIsFinite ==
  ASSUME NEW r \in Requests
  PROVE  Cardinality(InFlight(r)) \in Nat
<1>1. InFlight(r) \subseteq Handlers
  BY DEF InFlight
<1> QED
  BY <1>1, TriageWorkersAssumption, FS_Subset, FS_CardinalityType

\* A worker starts with well-typed locals.
LEMMA StartType ==
  /\ NoIndex \in Index
  /\ NoView \in View
  /\ \A r \in Requests \cup {NoRequest} : JobOf(r) \in Job /\ JobOf(r).req = r
<1>1. <<>> \in Seq(Instances)
  OBVIOUS
<1>2. NoIndex \in Index
  BY <1>1 DEF NoIndex, Index
<1>3. NoView \in View
  BY <1>1 DEF NoView, View
<1>4. 1 \in 1..MaxIndexRetries
  BY TriageBoundsAssumption
<1> QED
  BY <1>2, <1>3, <1>4 DEF JobOf, Job

\* What an update of one local variable of a handler changes.
LEMMA JobUpdate ==
  ASSUME NEW j \in Job
  PROVE  /\ \A b \in Index : /\ [j EXCEPT !.base = b] \in Job
                             /\ [j EXCEPT !.base = b].req = j.req
                             /\ [j EXCEPT !.base = b].base = b
         /\ j.attempt # MaxIndexRetries =>
              /\ [j EXCEPT !.attempt = @ + 1] \in Job
              /\ [j EXCEPT !.attempt = @ + 1].req = j.req
         /\ [j EXCEPT !.owned = FALSE] \in Job
         /\ [j EXCEPT !.owned = FALSE].req = j.req
         /\ [j EXCEPT !.owned = FALSE].base = j.base
<1> USE DEF Job
<1>1. \A b \in Index : /\ [j EXCEPT !.base = b] \in Job
                       /\ [j EXCEPT !.base = b].req = j.req
                       /\ [j EXCEPT !.base = b].base = b
  OBVIOUS
<1>2. j.attempt # MaxIndexRetries =>
        /\ [j EXCEPT !.attempt = @ + 1] \in Job
        /\ [j EXCEPT !.attempt = @ + 1].req = j.req
  BY TriageBoundsAssumption
<1>3. /\ [j EXCEPT !.owned = FALSE] \in Job
      /\ [j EXCEPT !.owned = FALSE].req = j.req
      /\ [j EXCEPT !.owned = FALSE].base = j.base
  OBVIOUS
<1> QED
  BY <1>1, <1>2, <1>3

\* What a handler extends is an index.
LEMMA BaseType ==
  ASSUME NEW j \in Job
  PROVE  j.base \in Index /\ j.base.ids \in Seq(Instances) /\ j.base.etag \in Nat
BY DEF Job, Index

\* One step of a listing keeps the reader's locals well-typed.
LEMMA ViewUpdate ==
  ASSUME NEW w \in View
  PROVE  /\ \A ids \in Seq(Instances) : [w EXCEPT !.ids = ids] \in View
         /\ \A only \in SUBSET Instances : [w EXCEPT !.only = only] \in View
         /\ [w EXCEPT !.next = @ + 1] \in View
         /\ \A out \in Seq(Instances) :
              [w EXCEPT !.next = @ + 1, !.out = out] \in View
<1> USE DEF View
<1>1. \A ids \in Seq(Instances) : [w EXCEPT !.ids = ids] \in View
  OBVIOUS
<1>2. \A only \in SUBSET Instances : [w EXCEPT !.only = only] \in View
  OBVIOUS
<1>3. [w EXCEPT !.next = @ + 1] \in View
  OBVIOUS
<1>4. \A out \in Seq(Instances) :
        [w EXCEPT !.next = @ + 1, !.out = out] \in View
  <2> TAKE out \in Seq(Instances)
  <2>1. w.next + 1 \in Nat
    OBVIOUS
  <2> QED
    BY <2>1
<1> QED
  BY <1>1, <1>2, <1>3, <1>4

-----------------------------------------------------------------------------
(***************************************************************************)
(* Frames: what keeps the local types when one worker moves.               *)
(***************************************************************************)
\* A handler goes to a place of its own, with a request unless it is idle.
LEMMA HandlerFrame ==
  ASSUME LocalTypeOK,
         NEW h \in Handlers, NEW label \in HandlerPC, NEW j \in Job,
         Goto(h, label),
         job' = [job EXCEPT ![h] = j],
         label # "idle" => j.req \in Requests,
         view' = view
  PROVE  LocalTypeOK'
<1> USE DEF LocalTypeOK, Workers
<1>1. \A w \in Workers : pc'[w] = IF w = h THEN label ELSE pc[w]
  BY DEF Goto
<1>2. \A g \in Handlers : job'[g] = IF g = h THEN j ELSE job[g]
  OBVIOUS
<1>3. /\ pc' \in [Workers -> HandlerPC \cup ReaderPC]
      /\ job' \in [Handlers -> Job]
  BY DEF Goto
<1> QED
  BY <1>1, <1>2, <1>3, TriageWorkersAssumption

\* The same when the locals stay.
LEMMA HandlerMoves ==
  ASSUME LocalTypeOK,
         NEW h \in Handlers, NEW label \in HandlerPC,
         Goto(h, label),
         pc[h] # "idle",
         job' = job, view' = view
  PROVE  LocalTypeOK'
<1>1. job[h] \in Job /\ job[h].req \in Requests
  BY DEF LocalTypeOK
<1>2. job' = [job EXCEPT ![h] = job[h]]
  BY DEF LocalTypeOK
<1> QED
  BY <1>1, <1>2, HandlerFrame

\* A reader goes to a place of its own.
LEMMA ReaderFrame ==
  ASSUME LocalTypeOK,
         NEW v \in Readers, NEW label \in ReaderPC, NEW w \in View,
         Goto(v, label),
         view' = [view EXCEPT ![v] = w],
         job' = job
  PROVE  LocalTypeOK'
<1> USE DEF LocalTypeOK, Workers
<1>1. \A x \in Workers : pc'[x] = IF x = v THEN label ELSE pc[x]
  BY DEF Goto
<1>2. /\ pc' \in [Workers -> HandlerPC \cup ReaderPC]
      /\ view' \in [Readers -> View]
  BY DEF Goto
<1> QED
  BY <1>1, <1>2, TriageWorkersAssumption

-----------------------------------------------------------------------------
(***************************************************************************)
(* Types                                                                   *)
(***************************************************************************)
\* An append of a started instance gives an index.
LEMMA StoreIndexType ==
  ASSUME StoreTypeOK, LocalTypeOK, NEW h \in Handlers, pc[h] = "write", StoreIndex(h)
  PROVE  index' \in Index
<1>1. job[h] \in Job /\ job[h].req \in Requests
  BY DEF LocalTypeOK
<1>2. Target(h) \in Instances
  BY <1>1, RequestsAssumption DEF Target
<1>3. Append(job[h].base.ids, Target(h)) \in Seq(Instances)
  BY <1>1, <1>2, BaseType
<1> QED
  BY <1>3 DEF StoreIndex, StoreTypeOK, Index

\* Every step keeps the types of the stores, the queue and the counters.
LEMMA StoreStep ==
  ASSUME Inv, [Next]_vars
  PROVE  StoreTypeOK'
<1>0. StoreTypeOK /\ LocalTypeOK
  BY DEF Inv, TypeOK
<1> USE TriageBoundsAssumption
<1>1. ASSUME NEW r \in Requests, Send(r) PROVE StoreTypeOK'
  BY <1>0, <1>1 DEF StoreTypeOK, Send, requests, engine
<1>2. ASSUME NEW h \in Handlers, NEW r \in Requests, Receive(h, r)
      PROVE  StoreTypeOK'
  BY <1>0, <1>2 DEF StoreTypeOK, Receive, Count, Counter, requests, engine
<1>3. ASSUME NEW h \in Handlers, NEW r \in Requests, RejectMalformed(h, r)
      PROVE  StoreTypeOK'
  BY <1>0, <1>3
  DEF StoreTypeOK, RejectMalformed, CountRejected, Counter, requests, engine
<1>4. ASSUME NEW h \in Handlers, Respond(h) PROVE StoreTypeOK'
  BY <1>0, <1>4
  DEF StoreTypeOK, Respond, Requeued, LocalTypeOK, requests, engine
<1>5. ASSUME NEW h \in Handlers, Redeliver(h) PROVE StoreTypeOK'
  BY <1>0, <1>5
  DEF StoreTypeOK, Redeliver, Requeued, Fault, LocalTypeOK, requests, engine
<1>6. ASSUME Crash PROVE StoreTypeOK'
  BY <1>0, <1>6, InFlightIsFinite
  DEF StoreTypeOK, Crash, Fault, NoStats, Counter, requests, engine
<1>7. ASSUME NEW h \in Handlers, Schedule(h) PROVE StoreTypeOK'
  BY <1>0, <1>7, RequestsAssumption
  DEF StoreTypeOK, Schedule, Start, Count, Counter, Target, LocalTypeOK,
      requests, engine
<1>8. ASSUME NEW h \in Handlers, ScheduleDuplicate(h) PROVE StoreTypeOK'
  BY <1>0, <1>8
  DEF StoreTypeOK, ScheduleDuplicate, Count, Counter, requests, engine
<1>9. ASSUME NEW h \in Handlers, ScheduleFails(h) PROVE StoreTypeOK'
  BY <1>0, <1>9, RequestsAssumption
  DEF StoreTypeOK, ScheduleFails, Start, Count, Counter, Fault, Target,
      LocalTypeOK, requests, engine
<1>10. ASSUME NEW i \in Instances, Finish(i) PROVE StoreTypeOK'
  BY <1>0, <1>10 DEF StoreTypeOK, Finish, requests, engine
<1>11. ASSUME NEW h \in Handlers, ReadIndex(h) PROVE StoreTypeOK'
  BY <1>0, <1>11 DEF StoreTypeOK, ReadIndex, requests, engine
<1>12. ASSUME NEW h \in Handlers, ReadIndexFails(h) PROVE StoreTypeOK'
  BY <1>0, <1>12 DEF StoreTypeOK, ReadIndexFails, Fault, requests, engine
<1>13. ASSUME NEW h \in Handlers, WriteIndex(h) PROVE StoreTypeOK'
  BY <1>0, <1>13, StoreIndexType DEF StoreTypeOK, WriteIndex, requests, engine
<1>14. ASSUME NEW h \in Handlers, RetryIndex(h) PROVE StoreTypeOK'
  BY <1>0, <1>14 DEF StoreTypeOK, RetryIndex, requests, engine
<1>15. ASSUME NEW h \in Handlers, ExhaustIndex(h) PROVE StoreTypeOK'
  BY <1>0, <1>15 DEF StoreTypeOK, ExhaustIndex, requests, engine
<1>16. ASSUME NEW h \in Handlers, WriteIndexFails(h) PROVE StoreTypeOK'
  BY <1>0, <1>16, StoreIndexType
  DEF StoreTypeOK, WriteIndexFails, Fault, requests, engine
<1>17. ASSUME NEW v \in Readers, NEW only \in {Instances, Optimisations}, List(v, only)
       PROVE  StoreTypeOK'
  BY <1>0, <1>17 DEF StoreTypeOK, List, requests, engine
<1>18. ASSUME NEW v \in Readers, ListIndex(v) PROVE StoreTypeOK'
  BY <1>0, <1>18 DEF StoreTypeOK, ListIndex, requests, engine
<1>19. ASSUME NEW v \in Readers, ListFails(v) PROVE StoreTypeOK'
  BY <1>0, <1>19 DEF StoreTypeOK, ListFails, Fault, requests, engine
<1>20. ASSUME NEW v \in Readers, FetchMetadata(v) PROVE StoreTypeOK'
  BY <1>0, <1>20 DEF StoreTypeOK, FetchMetadata, requests, engine
<1>21. ASSUME NEW v \in Readers, FetchMetadataFails(v) PROVE StoreTypeOK'
  BY <1>0, <1>21 DEF StoreTypeOK, FetchMetadataFails, Fault, requests, engine
<1>22. ASSUME NEW v \in Readers, AnswerList(v) PROVE StoreTypeOK'
  BY <1>0, <1>22 DEF StoreTypeOK, AnswerList, requests, engine
<1>23. ASSUME NEW v \in Readers, EndList(v) PROVE StoreTypeOK'
  BY <1>0, <1>23 DEF StoreTypeOK, EndList, requests, engine
<1>24. ASSUME UNCHANGED vars PROVE StoreTypeOK'
  BY <1>0, <1>24 DEF StoreTypeOK, vars, requests, engine
<1> QED
  BY <1>1, <1>2, <1>3, <1>4, <1>5, <1>6, <1>7, <1>8, <1>9, <1>10, <1>11,
     <1>12, <1>13, <1>14, <1>15, <1>16, <1>17, <1>18, <1>19, <1>20, <1>21,
     <1>22, <1>23, <1>24
  DEF Next, Accept, Serve, ServeList, Disturb

\* Every step keeps the types of what the workers hold.
LEMMA LocalStep ==
  ASSUME Inv, [Next]_vars
  PROVE  LocalTypeOK'
<1>0. StoreTypeOK /\ LocalTypeOK
  BY DEF Inv, TypeOK
<1>1. ASSUME NEW r \in Requests, Send(r) PROVE LocalTypeOK'
  BY <1>0, <1>1 DEF LocalTypeOK, Send
<1>2. ASSUME NEW h \in Handlers, NEW r \in Requests, Receive(h, r)
      PROVE  LocalTypeOK'
  BY <1>0, <1>2, HandlerFrame, StartType DEF Receive, HandlerPC
<1>3. ASSUME NEW h \in Handlers, NEW r \in Requests, RejectMalformed(h, r)
      PROVE  LocalTypeOK'
  BY <1>0, <1>3 DEF LocalTypeOK, RejectMalformed
<1>4. ASSUME NEW h \in Handlers, Respond(h) PROVE LocalTypeOK'
  BY <1>0, <1>4, HandlerFrame, StartType DEF Respond, NoJob, HandlerPC
<1>5. ASSUME NEW h \in Handlers, Redeliver(h) PROVE LocalTypeOK'
  <2>1. job[h] \in Job /\ job[h].req \in Requests
    BY <1>0, <1>5 DEF LocalTypeOK, Redeliver
  <2> DEFINE j == [job[h] EXCEPT !.owned = FALSE]
  <2>2. j \in Job /\ j.req \in Requests
    BY <2>1, JobUpdate
  <2>3. job' = [job EXCEPT ![h] = j] /\ UNCHANGED <<pc, view>>
    BY <1>0, <1>5 DEF Redeliver, LocalTypeOK
  <2> HIDE DEF j
  <2> QED
    BY <1>0, <2>2, <2>3 DEF LocalTypeOK
<1>6. ASSUME Crash PROVE LocalTypeOK'
  <2>1. /\ pc' = [w \in Workers |-> "idle"]
        /\ job' = [h \in Handlers |-> NoJob]
        /\ view' = [v \in Readers |-> NoView]
    BY <1>6 DEF Crash
  <2> QED
    BY <2>1, StartType DEF LocalTypeOK, NoJob, HandlerPC, ReaderPC, Workers
<1>7. ASSUME NEW h \in Handlers, Schedule(h) PROVE LocalTypeOK'
  BY <1>0, <1>7, HandlerMoves DEF Schedule, HandlerPC, Answers
<1>8. ASSUME NEW h \in Handlers, ScheduleDuplicate(h) PROVE LocalTypeOK'
  BY <1>0, <1>8, HandlerMoves DEF ScheduleDuplicate, HandlerPC, Answers
<1>9. ASSUME NEW h \in Handlers, ScheduleFails(h) PROVE LocalTypeOK'
  BY <1>0, <1>9, HandlerMoves
  DEF ScheduleFails, ScheduleFailure, HandlerPC, Answers
<1>10. ASSUME NEW i \in Instances, Finish(i) PROVE LocalTypeOK'
  BY <1>0, <1>10 DEF LocalTypeOK, Finish
<1>11. ASSUME NEW h \in Handlers, ReadIndex(h) PROVE LocalTypeOK'
  <2>1. job[h] \in Job /\ job[h].req \in Requests
    BY <1>0, <1>11 DEF LocalTypeOK, ReadIndex
  <2>2. CASE AlreadyIndexed(index.ids, Target(h))
    BY <1>0, <1>11, <2>2, HandlerMoves DEF ReadIndex, HandlerPC, Answers
  <2>3. CASE ~AlreadyIndexed(index.ids, Target(h))
    <3> DEFINE j == [job[h] EXCEPT !.base = index]
    <3>1. j \in Job /\ j.req \in Requests
      BY <1>0, <2>1, JobUpdate DEF StoreTypeOK
    <3>2. job' = [job EXCEPT ![h] = j] /\ Goto(h, "write") /\ view' = view
      BY <1>0, <1>11, <2>3 DEF ReadIndex, LocalTypeOK
    <3> HIDE DEF j
    <3> QED
      BY <1>0, <3>1, <3>2, HandlerFrame DEF HandlerPC
  <2> QED
    BY <2>2, <2>3
<1>12. ASSUME NEW h \in Handlers, ReadIndexFails(h) PROVE LocalTypeOK'
  BY <1>0, <1>12, HandlerMoves DEF ReadIndexFails, HandlerPC, Answers
<1>13. ASSUME NEW h \in Handlers, WriteIndex(h) PROVE LocalTypeOK'
  BY <1>0, <1>13, HandlerMoves DEF WriteIndex, HandlerPC, Answers
<1>14. ASSUME NEW h \in Handlers, RetryIndex(h) PROVE LocalTypeOK'
  <2>1. job[h] \in Job /\ job[h].req \in Requests
    BY <1>0, <1>14 DEF LocalTypeOK, RetryIndex
  <2>2. job[h].attempt # MaxIndexRetries
    BY <1>14 DEF RetryIndex, LastAttempt
  <2> DEFINE j == [job[h] EXCEPT !.attempt = @ + 1]
  <2>3. j \in Job /\ j.req \in Requests
    BY <2>1, <2>2, JobUpdate
  <2>4. job' = [job EXCEPT ![h] = j] /\ Goto(h, "read") /\ view' = view
    BY <1>0, <1>14 DEF RetryIndex, LocalTypeOK
  <2> HIDE DEF j
  <2> QED
    BY <1>0, <2>3, <2>4, HandlerFrame DEF HandlerPC
<1>15. ASSUME NEW h \in Handlers, ExhaustIndex(h) PROVE LocalTypeOK'
  BY <1>0, <1>15, HandlerMoves DEF ExhaustIndex, HandlerPC, Answers
<1>16. ASSUME NEW h \in Handlers, WriteIndexFails(h) PROVE LocalTypeOK'
  BY <1>0, <1>16, HandlerMoves DEF WriteIndexFails, HandlerPC, Answers
<1>17. ASSUME NEW v \in Readers, NEW only \in {Instances, Optimisations}, List(v, only)
       PROVE  LocalTypeOK'
  <2> DEFINE w == [NoView EXCEPT !.only = only]
  <2>1. w \in View
    BY StartType, ViewUpdate, RequestsAssumption
  <2>2. view' = [view EXCEPT ![v] = w] /\ Goto(v, "list") /\ job' = job
    BY <1>17 DEF List
  <2> HIDE DEF w
  <2> QED
    BY <1>0, <2>1, <2>2, ReaderFrame DEF ReaderPC
<1>18. ASSUME NEW v \in Readers, ListIndex(v) PROVE LocalTypeOK'
  <2> DEFINE w == [view[v] EXCEPT !.ids = index.ids]
  <2>1. w \in View
    BY <1>0, ViewUpdate DEF LocalTypeOK, StoreTypeOK, Index
  <2>2. view' = [view EXCEPT ![v] = w] /\ Goto(v, "fetch") /\ job' = job
    BY <1>0, <1>18 DEF ListIndex, LocalTypeOK
  <2> HIDE DEF w
  <2> QED
    BY <1>0, <2>1, <2>2, ReaderFrame DEF ReaderPC
<1>19. ASSUME NEW v \in Readers, ListFails(v) PROVE LocalTypeOK'
  BY <1>0, <1>19, ReaderFrame, StartType DEF ListFails, ReaderPC
<1>20. ASSUME NEW v \in Readers, FetchMetadata(v) PROVE LocalTypeOK'
  <2> DEFINE i == view[v].ids[view[v].next]
             out == IF i \in view[v].only /\ i \in scheduled
                      THEN Append(view[v].out, i) ELSE view[v].out
             w == [view[v] EXCEPT !.next = @ + 1, !.out = out]
  <2>1. view[v] \in View
    BY <1>0 DEF LocalTypeOK
  <2>2. out \in Seq(Instances)
    BY <2>1 DEF View
  <2>3. w \in View
    BY <2>1, <2>2, ViewUpdate
  <2>4. view' = [view EXCEPT ![v] = w] /\ UNCHANGED <<pc, job>>
    BY <1>0, <1>20 DEF FetchMetadata, LocalTypeOK
  <2> HIDE DEF w
  <2> QED
    BY <1>0, <2>3, <2>4 DEF LocalTypeOK
<1>21. ASSUME NEW v \in Readers, FetchMetadataFails(v) PROVE LocalTypeOK'
  <2>1. view[v] \in View
    BY <1>0 DEF LocalTypeOK
  <2> DEFINE w == [view[v] EXCEPT !.next = @ + 1]
  <2>2. w \in View
    BY <2>1, ViewUpdate
  <2>3. view' = [view EXCEPT ![v] = w] /\ UNCHANGED <<pc, job>>
    BY <1>0, <1>21 DEF FetchMetadataFails, LocalTypeOK
  <2> HIDE DEF w
  <2> QED
    BY <1>0, <2>2, <2>3 DEF LocalTypeOK
<1>22. ASSUME NEW v \in Readers, AnswerList(v) PROVE LocalTypeOK'
  <2>1. view' = [view EXCEPT ![v] = view[v]] /\ view[v] \in View
    BY <1>0, <1>22 DEF AnswerList, LocalTypeOK
  <2> QED
    BY <1>0, <1>22, <2>1, ReaderFrame DEF AnswerList, ReaderPC
<1>23. ASSUME NEW v \in Readers, EndList(v) PROVE LocalTypeOK'
  BY <1>0, <1>23, ReaderFrame, StartType DEF EndList, ReaderPC
<1>24. ASSUME UNCHANGED vars PROVE LocalTypeOK'
  BY <1>0, <1>24 DEF LocalTypeOK, vars
<1> QED
  BY <1>1, <1>2, <1>3, <1>4, <1>5, <1>6, <1>7, <1>8, <1>9, <1>10, <1>11,
     <1>12, <1>13, <1>14, <1>15, <1>16, <1>17, <1>18, <1>19, <1>20, <1>21,
     <1>22, <1>23, <1>24
  DEF Next, Accept, Serve, ServeList, Disturb

-----------------------------------------------------------------------------
(***************************************************************************)
(* The index                                                               *)
(***************************************************************************)
\* The invariant holds before the first request.
LEMMA InitInv == Init => Inv
<1> SUFFICES ASSUME Init PROVE Inv
  OBVIOUS
<1>1. StoreTypeOK
  <2>1. index \in Index
    BY StartType DEF Init
  <2>2. 0 \in 0..MaxCopies /\ 0 \in 0..MaxLists /\ 0 \in 0..MaxFaults
    BY TriageBoundsAssumption
  <2>3. stats \in [Counter -> Nat]
    BY DEF Init, NoStats
  <2> QED
    BY <2>1, <2>2, <2>3 DEF Init, StoreTypeOK
<1>2. LocalTypeOK
  BY StartType DEF Init, LocalTypeOK, Workers, HandlerPC, ReaderPC, NoJob
<1>3. IndexInv
  BY DEF Init, IndexInv, SnapshotFresh, AppendsStarted, StartIsUnderway,
         IndexedOnce, Indexed, AnsweredIsScheduled, NoIndex, Workers
<1> QED
  BY <1>1, <1>2, <1>3 DEF Inv, TypeOK

\* A write with the current ETag extends the current index by an ID that has
\* its workflow and was not in the index.
LEMMA Extends ==
  ASSUME Inv, NEW h \in Handlers, pc[h] = "write", ETagMatches(h), StoreIndex(h)
  PROVE  /\ index'.etag = index.etag + 1
         /\ index'.ids = Append(index.ids, Target(h))
         /\ Target(h) \in scheduled
         /\ ~Contains(index.ids, Target(h))
         /\ index.ids \in Seq(Instances) /\ Target(h) \in Instances
<1>1. job[h].base = index /\ ~Contains(index.ids, Target(h))
  BY DEF Inv, IndexInv, SnapshotFresh, ETagMatches
<1>2. Target(h) \in scheduled /\ scheduled \subseteq Instances
  BY DEF Inv, TypeOK, StoreTypeOK, IndexInv, AppendsStarted
<1>3. index.ids \in Seq(Instances)
  BY DEF Inv, TypeOK, StoreTypeOK, Index
<1> QED
  BY <1>1, <1>2, <1>3 DEF StoreIndex

\* A step leaves what is started and what is indexed alone, or a handler starts
\* an instance, or a handler with the current ETag writes the index.
LEMMA StoreEffect ==
  ASSUME [Next]_vars
  PROVE  \/ UNCHANGED <<scheduled, index>>
         \/ \E h \in Handlers : pc[h] = "schedule" /\ Start(Target(h)) /\ index' = index
         \/ \E h \in Handlers : /\ pc[h] = "write"
                                /\ ETagMatches(h) /\ StoreIndex(h)
                                /\ scheduled' = scheduled
<1>1. ASSUME NEW h \in Handlers, Schedule(h) \/ ScheduleFails(h)
      PROVE  \/ UNCHANGED <<scheduled, index>>
             \/ pc[h] = "schedule" /\ Start(Target(h)) /\ index' = index
  BY <1>1 DEF Schedule, ScheduleFails, engine
<1>2. ASSUME NEW h \in Handlers, WriteIndex(h) \/ WriteIndexFails(h)
      PROVE  /\ scheduled' = scheduled
             /\ \/ index' = index
                \/ pc[h] = "write" /\ ETagMatches(h) /\ StoreIndex(h)
  BY <1>2 DEF WriteIndex, WriteIndexFails, engine
<1> QED
  BY <1>1, <1>2
  DEF Next, Accept, Serve, ServeList, Disturb, vars, requests, engine, Send,
      Receive, RejectMalformed, Respond, Redeliver, Crash, ScheduleDuplicate,
      Finish, ReadIndex, ReadIndexFails, RetryIndex, ExhaustIndex, List,
      ListIndex, ListFails, FetchMetadata, FetchMetadataFails, AnswerList,
      EndList

\* Every instance a workflow was started for stays scheduled.
LEMMA ScheduledGrows ==
  ASSUME [Next]_vars
  PROVE  scheduled \subseteq scheduled'
BY StoreEffect DEF Start

\* Such a write names no instance twice.
LEMMA AppendOnce ==
  ASSUME Inv, NEW h \in Handlers, pc[h] = "write", ETagMatches(h), StoreIndex(h),
         scheduled' = scheduled
  PROVE  IndexedOnce'
<1> DEFINE old == index.ids
           new == index'.ids
<1>1. /\ new = Append(old, Target(h)) /\ old \in Seq(Instances)
      /\ Target(h) \in scheduled /\ Target(h) \in Instances
      /\ ~Contains(old, Target(h))
  BY Extends
<1>2. /\ Len(new) = Len(old) + 1 /\ Len(old) \in Nat
      /\ new[Len(old) + 1] = Target(h)
      /\ \A n \in 1..Len(old) : new[n] = old[n] /\ old[n] # Target(h)
  BY <1>1 DEF Contains
<1>3. /\ \A n \in 1..Len(old) : old[n] \in scheduled
      /\ \A m, n \in 1..Len(old) : old[m] = old[n] => m = n
  BY DEF Inv, IndexInv, IndexedOnce, Indexed
<1> HIDE DEF old, new
<1>4. \A n \in 1..Len(new) : n \in 1..Len(old) \/ n = Len(old) + 1
  BY <1>2
<1>5. \A n \in 1..Len(new) : new[n] \in scheduled
  BY <1>1, <1>2, <1>3, <1>4
<1>6. \A m, n \in 1..Len(new) : new[m] = new[n] => m = n
  BY <1>2, <1>3, <1>4
<1> QED
  BY <1>5, <1>6 DEF IndexedOnce, Indexed, new

\* Every step keeps the index without repetitions and without strangers.
LEMMA OnceStep ==
  ASSUME Inv, [Next]_vars
  PROVE  IndexedOnce'
<1>1. CASE index' = index
  BY <1>1, ScheduledGrows DEF Inv, IndexInv, IndexedOnce, Indexed
<1>2. CASE \E h \in Handlers : /\ pc[h] = "write"
                               /\ ETagMatches(h) /\ StoreIndex(h)
                               /\ scheduled' = scheduled
  BY <1>2, AppendOnce
<1> QED
  BY <1>1, <1>2, StoreEffect

\* What is answered SUCCESS has its workflow: only Respond answers.
LEMMA AnsweredStep ==
  ASSUME Inv, [Next]_vars
  PROVE  AnsweredIsScheduled'
<1>1. \/ answered' = answered
      \/ \E h \in Handlers :
           pc[h] = "SUCCESS" /\ answered' = answered \cup {job[h].req}
  BY DEF Next, Accept, Serve, ServeList, Disturb, vars, requests, Send,
         Receive, RejectMalformed, Respond, Redeliver, Crash, Schedule,
         ScheduleDuplicate, ScheduleFails, Finish, ReadIndex, ReadIndexFails,
         WriteIndex, RetryIndex, ExhaustIndex, WriteIndexFails, List,
         ListIndex, ListFails, FetchMetadata, FetchMetadataFails, AnswerList,
         EndList
<1>2. \A r \in answered : InstanceOf[r] \in scheduled
  BY DEF Inv, IndexInv, AnsweredIsScheduled
<1>3. \A h \in Handlers : pc[h] = "SUCCESS" => InstanceOf[job[h].req] \in scheduled
  BY DEF Inv, IndexInv, AppendsStarted, Target
<1> QED
  BY <1>1, <1>2, <1>3, ScheduledGrows DEF AnsweredIsScheduled

\* A read of the index changes the snapshot of one handler and no request.
LEMMA ReadIndexEffect ==
  ASSUME StoreTypeOK, LocalTypeOK, NEW h \in Handlers, ReadIndex(h)
  PROVE  /\ \A g \in Handlers : job'[g].req = job[g].req
         /\ \A g \in Handlers \ {h} : pc'[g] = pc[g] /\ job'[g] = job[g]
         /\ pc'[h] \in {"SUCCESS", "write"}
         /\ pc'[h] = "write" =>
              job'[h].base = index /\ ~Contains(index.ids, Target(h))
<1> USE DEF ReadIndex, Goto, LocalTypeOK, Workers, AlreadyIndexed
<1>1. CASE Contains(index.ids, Target(h))
  BY <1>1
<1>2. CASE ~Contains(index.ids, Target(h))
  <2> DEFINE j == [job[h] EXCEPT !.base = index]
  <2>1. j.req = job[h].req /\ j.base = index
    BY JobUpdate DEF StoreTypeOK
  <2>2. job' = [job EXCEPT ![h] = j] /\ pc' = [pc EXCEPT ![h] = "write"]
    BY <1>2
  <2> HIDE DEF j
  <2> QED
    BY <1>2, <2>1, <2>2
<1> QED
  BY <1>1, <1>2

\* A handler goes on to the index only when its instance is scheduled.
LEMMA StartedStep ==
  ASSUME Inv, [Next]_vars
  PROVE  AppendsStarted'
<1>0. StoreTypeOK /\ LocalTypeOK /\ AppendsStarted
  BY DEF Inv, TypeOK, IndexInv
<1>1. ASSUME NEW r \in Requests, Send(r) PROVE AppendsStarted'
  BY <1>0, <1>1, ScheduledGrows, TriageWorkersAssumption
  DEF AppendsStarted, Target, Send, Goto, LocalTypeOK, Workers, requests,
      engine
<1>2. ASSUME NEW h \in Handlers, NEW r \in Requests, Receive(h, r)
      PROVE  AppendsStarted'
  BY <1>0, <1>2, ScheduledGrows, TriageWorkersAssumption
  DEF AppendsStarted, Target, Receive, Goto, LocalTypeOK, Workers, requests,
      engine
<1>3. ASSUME NEW h \in Handlers, NEW r \in Requests, RejectMalformed(h, r)
      PROVE  AppendsStarted'
  BY <1>0, <1>3, ScheduledGrows, TriageWorkersAssumption
  DEF AppendsStarted, Target, RejectMalformed, Goto, LocalTypeOK, Workers,
      requests, engine
<1>4. ASSUME NEW h \in Handlers, Respond(h) PROVE AppendsStarted'
  BY <1>0, <1>4, ScheduledGrows, TriageWorkersAssumption
  DEF AppendsStarted, Target, Respond, Goto, LocalTypeOK, Workers, requests,
      engine
<1>5. ASSUME NEW h \in Handlers, Redeliver(h) PROVE AppendsStarted'
  BY <1>0, <1>5, ScheduledGrows, TriageWorkersAssumption
  DEF AppendsStarted, Target, Redeliver, Goto, LocalTypeOK, Workers,
      requests, engine
<1>6. ASSUME Crash PROVE AppendsStarted'
  BY <1>0, <1>6, ScheduledGrows, TriageWorkersAssumption
  DEF AppendsStarted, Target, Crash, Goto, LocalTypeOK, Workers, requests,
      engine
<1>7. ASSUME NEW h \in Handlers, Schedule(h) PROVE AppendsStarted'
  BY <1>0, <1>7, ScheduledGrows, TriageWorkersAssumption
  DEF AppendsStarted, Target, Schedule, Start, Goto, LocalTypeOK, Workers,
      requests, engine
<1>8. ASSUME NEW h \in Handlers, ScheduleDuplicate(h) PROVE AppendsStarted'
  BY <1>0, <1>8, ScheduledGrows, TriageWorkersAssumption
  DEF AppendsStarted, Target, ScheduleDuplicate, IsDuplicateInstance, Goto,
      LocalTypeOK, Workers, requests, engine
<1>9. ASSUME NEW h \in Handlers, ScheduleFails(h) PROVE AppendsStarted'
  BY <1>0, <1>9, ScheduledGrows, TriageWorkersAssumption
  DEF AppendsStarted, Target, ScheduleFails, ScheduleFailure, Goto,
      LocalTypeOK, Workers, requests, engine
<1>10. ASSUME NEW i \in Instances, Finish(i) PROVE AppendsStarted'
  BY <1>0, <1>10, ScheduledGrows, TriageWorkersAssumption
  DEF AppendsStarted, Target, Finish, Goto, LocalTypeOK, Workers, requests,
      engine
<1>11. ASSUME NEW h \in Handlers, ReadIndex(h) PROVE AppendsStarted'
  <2>1. Target(h) \in scheduled /\ scheduled' = scheduled
    BY <1>0, <1>11 DEF ReadIndex, AppendsStarted, engine
  <2> QED
    BY <1>0, <1>11, <2>1, ReadIndexEffect DEF AppendsStarted, Target
<1>12. ASSUME NEW h \in Handlers, ReadIndexFails(h) PROVE AppendsStarted'
  BY <1>0, <1>12, ScheduledGrows, TriageWorkersAssumption
  DEF AppendsStarted, Target, ReadIndexFails, Goto, LocalTypeOK, Workers,
      requests, engine
<1>13. ASSUME NEW h \in Handlers, WriteIndex(h) PROVE AppendsStarted'
  BY <1>0, <1>13, ScheduledGrows, TriageWorkersAssumption
  DEF AppendsStarted, Target, WriteIndex, Goto, LocalTypeOK, Workers,
      requests, engine
<1>14. ASSUME NEW h \in Handlers, RetryIndex(h) PROVE AppendsStarted'
  BY <1>0, <1>14, ScheduledGrows, TriageWorkersAssumption
  DEF AppendsStarted, Target, RetryIndex, Goto, LocalTypeOK, Workers,
      requests, engine
<1>15. ASSUME NEW h \in Handlers, ExhaustIndex(h) PROVE AppendsStarted'
  BY <1>0, <1>15, ScheduledGrows, TriageWorkersAssumption
  DEF AppendsStarted, Target, ExhaustIndex, Goto, LocalTypeOK, Workers,
      requests, engine
<1>16. ASSUME NEW h \in Handlers, WriteIndexFails(h) PROVE AppendsStarted'
  BY <1>0, <1>16, ScheduledGrows, TriageWorkersAssumption
  DEF AppendsStarted, Target, WriteIndexFails, Goto, LocalTypeOK, Workers,
      requests, engine
<1>17. ASSUME NEW v \in Readers, NEW only \in {Instances, Optimisations}, List(v, only)
       PROVE  AppendsStarted'
  BY <1>0, <1>17, ScheduledGrows, TriageWorkersAssumption
  DEF AppendsStarted, Target, List, Goto, LocalTypeOK, Workers, requests,
      engine
<1>18. ASSUME NEW v \in Readers, ListIndex(v) PROVE AppendsStarted'
  BY <1>0, <1>18, ScheduledGrows, TriageWorkersAssumption
  DEF AppendsStarted, Target, ListIndex, Goto, LocalTypeOK, Workers,
      requests, engine
<1>19. ASSUME NEW v \in Readers, ListFails(v) PROVE AppendsStarted'
  BY <1>0, <1>19, ScheduledGrows, TriageWorkersAssumption
  DEF AppendsStarted, Target, ListFails, Goto, LocalTypeOK, Workers,
      requests, engine
<1>20. ASSUME NEW v \in Readers, FetchMetadata(v) PROVE AppendsStarted'
  BY <1>0, <1>20, ScheduledGrows, TriageWorkersAssumption
  DEF AppendsStarted, Target, FetchMetadata, Goto, LocalTypeOK, Workers,
      requests, engine
<1>21. ASSUME NEW v \in Readers, FetchMetadataFails(v) PROVE AppendsStarted'
  BY <1>0, <1>21, ScheduledGrows, TriageWorkersAssumption
  DEF AppendsStarted, Target, FetchMetadataFails, Goto, LocalTypeOK,
      Workers, requests, engine
<1>22. ASSUME NEW v \in Readers, AnswerList(v) PROVE AppendsStarted'
  BY <1>0, <1>22, ScheduledGrows, TriageWorkersAssumption
  DEF AppendsStarted, Target, AnswerList, Goto, LocalTypeOK, Workers,
      requests, engine
<1>23. ASSUME NEW v \in Readers, EndList(v) PROVE AppendsStarted'
  BY <1>0, <1>23, ScheduledGrows, TriageWorkersAssumption
  DEF AppendsStarted, Target, EndList, Goto, LocalTypeOK, Workers, requests,
      engine
<1>24. ASSUME UNCHANGED vars PROVE AppendsStarted'
  BY <1>0, <1>24, ScheduledGrows
  DEF AppendsStarted, Target, vars, requests, engine
<1> QED
  BY <1>1, <1>2, <1>3, <1>4, <1>5, <1>6, <1>7, <1>8, <1>9, <1>10, <1>11,
     <1>12, <1>13, <1>14, <1>15, <1>16, <1>17, <1>18, <1>19, <1>20, <1>21,
     <1>22, <1>23, <1>24
  DEF Next, Accept, Serve, ServeList, Disturb

\* A write makes every other snapshot an old one.
LEMMA AppendIsFresh ==
  ASSUME Inv, NEW h \in Handlers, pc[h] = "write", ETagMatches(h), StoreIndex(h),
         Goto(h, "SUCCESS"), job' = job
  PROVE  SnapshotFresh'
<1>0. LocalTypeOK /\ SnapshotFresh
  BY DEF Inv, TypeOK, IndexInv
<1>1. index'.etag = index.etag + 1 /\ index.etag \in Nat
  BY Extends DEF Inv, TypeOK, StoreTypeOK, Index
<1>2. \A g \in Handlers : pc'[g] = "write" => pc[g] = "write"
  BY <1>0 DEF Goto, LocalTypeOK, Workers
<1>3. \A g \in Handlers : job[g].base.etag \in Nat /\ Target(g)' = Target(g)
  BY <1>0, BaseType DEF LocalTypeOK, Target
<1> QED
  BY <1>0, <1>1, <1>2, <1>3 DEF SnapshotFresh

\* A snapshot with the current ETag is the current index.
LEMMA SnapshotStep ==
  ASSUME Inv, [Next]_vars
  PROVE  SnapshotFresh'
<1>0. StoreTypeOK /\ LocalTypeOK /\ SnapshotFresh
  BY DEF Inv, TypeOK, IndexInv
<1>1. ASSUME NEW r \in Requests, Send(r) PROVE SnapshotFresh'
  BY <1>0, <1>1, TriageWorkersAssumption
  DEF SnapshotFresh, Target, Send, Goto, LocalTypeOK, Workers, requests,
      engine
<1>2. ASSUME NEW h \in Handlers, NEW r \in Requests, Receive(h, r)
      PROVE  SnapshotFresh'
  BY <1>0, <1>2, TriageWorkersAssumption
  DEF SnapshotFresh, Target, Receive, Goto, LocalTypeOK, Workers, requests,
      engine
<1>3. ASSUME NEW h \in Handlers, NEW r \in Requests, RejectMalformed(h, r)
      PROVE  SnapshotFresh'
  BY <1>0, <1>3, TriageWorkersAssumption
  DEF SnapshotFresh, Target, RejectMalformed, Goto, LocalTypeOK, Workers,
      requests, engine
<1>4. ASSUME NEW h \in Handlers, Respond(h) PROVE SnapshotFresh'
  BY <1>0, <1>4, TriageWorkersAssumption
  DEF SnapshotFresh, Target, Respond, Goto, LocalTypeOK, Workers, requests,
      engine
<1>5. ASSUME NEW h \in Handlers, Redeliver(h) PROVE SnapshotFresh'
  BY <1>0, <1>5, TriageWorkersAssumption
  DEF SnapshotFresh, Target, Redeliver, Goto, LocalTypeOK, Workers,
      requests, engine
<1>6. ASSUME Crash PROVE SnapshotFresh'
  BY <1>0, <1>6, TriageWorkersAssumption
  DEF SnapshotFresh, Target, Crash, Goto, LocalTypeOK, Workers, requests,
      engine
<1>7. ASSUME NEW h \in Handlers, Schedule(h) PROVE SnapshotFresh'
  BY <1>0, <1>7, TriageWorkersAssumption
  DEF SnapshotFresh, Target, Schedule, Goto, LocalTypeOK, Workers, requests,
      engine
<1>8. ASSUME NEW h \in Handlers, ScheduleDuplicate(h) PROVE SnapshotFresh'
  BY <1>0, <1>8, TriageWorkersAssumption
  DEF SnapshotFresh, Target, ScheduleDuplicate, Goto, LocalTypeOK, Workers,
      requests, engine
<1>9. ASSUME NEW h \in Handlers, ScheduleFails(h) PROVE SnapshotFresh'
  BY <1>0, <1>9, TriageWorkersAssumption
  DEF SnapshotFresh, Target, ScheduleFails, ScheduleFailure, Goto,
      LocalTypeOK, Workers
<1>10. ASSUME NEW i \in Instances, Finish(i) PROVE SnapshotFresh'
  BY <1>0, <1>10, TriageWorkersAssumption
  DEF SnapshotFresh, Target, Finish, Goto, LocalTypeOK, Workers, requests,
      engine
<1>11. ASSUME NEW h \in Handlers, ReadIndex(h) PROVE SnapshotFresh'
  <2>1. index' = index /\ index.etag \in Nat
    BY <1>0, <1>11 DEF ReadIndex, StoreTypeOK, Index
  <2> QED
    BY <1>0, <1>11, <2>1, ReadIndexEffect DEF SnapshotFresh, Target
<1>12. ASSUME NEW h \in Handlers, ReadIndexFails(h) PROVE SnapshotFresh'
  BY <1>0, <1>12, TriageWorkersAssumption
  DEF SnapshotFresh, Target, ReadIndexFails, Goto, LocalTypeOK, Workers,
      requests, engine
<1>13. ASSUME NEW h \in Handlers, WriteIndex(h) PROVE SnapshotFresh'
  BY <1>0, <1>13, AppendIsFresh DEF WriteIndex
<1>14. ASSUME NEW h \in Handlers, RetryIndex(h) PROVE SnapshotFresh'
  BY <1>0, <1>14, TriageWorkersAssumption
  DEF SnapshotFresh, Target, RetryIndex, Goto, LocalTypeOK, Workers,
      requests, engine
<1>15. ASSUME NEW h \in Handlers, ExhaustIndex(h) PROVE SnapshotFresh'
  BY <1>0, <1>15, TriageWorkersAssumption
  DEF SnapshotFresh, Target, ExhaustIndex, Goto, LocalTypeOK, Workers,
      requests, engine
<1>16. ASSUME NEW h \in Handlers, WriteIndexFails(h) PROVE SnapshotFresh'
  <2>1. CASE UNCHANGED index
    BY <1>0, <1>16, <2>1, TriageWorkersAssumption
    DEF SnapshotFresh, Target, WriteIndexFails, Goto, LocalTypeOK, Workers
  <2>2. CASE ETagMatches(h) /\ StoreIndex(h)
    BY <1>0, <1>16, <2>2, AppendIsFresh DEF WriteIndexFails
  <2> QED
    BY <1>16, <2>1, <2>2 DEF WriteIndexFails
<1>17. ASSUME NEW v \in Readers, NEW only \in {Instances, Optimisations}, List(v, only)
       PROVE  SnapshotFresh'
  BY <1>0, <1>17, TriageWorkersAssumption
  DEF SnapshotFresh, Target, List, Goto, LocalTypeOK, Workers, requests,
      engine
<1>18. ASSUME NEW v \in Readers, ListIndex(v) PROVE SnapshotFresh'
  BY <1>0, <1>18, TriageWorkersAssumption
  DEF SnapshotFresh, Target, ListIndex, Goto, LocalTypeOK, Workers,
      requests, engine
<1>19. ASSUME NEW v \in Readers, ListFails(v) PROVE SnapshotFresh'
  BY <1>0, <1>19, TriageWorkersAssumption
  DEF SnapshotFresh, Target, ListFails, Goto, LocalTypeOK, Workers,
      requests, engine
<1>20. ASSUME NEW v \in Readers, FetchMetadata(v) PROVE SnapshotFresh'
  BY <1>0, <1>20, TriageWorkersAssumption
  DEF SnapshotFresh, Target, FetchMetadata, Goto, LocalTypeOK, Workers,
      requests, engine
<1>21. ASSUME NEW v \in Readers, FetchMetadataFails(v) PROVE SnapshotFresh'
  BY <1>0, <1>21, TriageWorkersAssumption
  DEF SnapshotFresh, Target, FetchMetadataFails, Goto, LocalTypeOK, Workers,
      requests, engine
<1>22. ASSUME NEW v \in Readers, AnswerList(v) PROVE SnapshotFresh'
  BY <1>0, <1>22, TriageWorkersAssumption
  DEF SnapshotFresh, Target, AnswerList, Goto, LocalTypeOK, Workers,
      requests, engine
<1>23. ASSUME NEW v \in Readers, EndList(v) PROVE SnapshotFresh'
  BY <1>0, <1>23, TriageWorkersAssumption
  DEF SnapshotFresh, Target, EndList, Goto, LocalTypeOK, Workers, requests,
      engine
<1>24. ASSUME UNCHANGED vars PROVE SnapshotFresh'
  BY <1>0, <1>24 DEF SnapshotFresh, Target, vars, requests, engine
<1> QED
  BY <1>1, <1>2, <1>3, <1>4, <1>5, <1>6, <1>7, <1>8, <1>9, <1>10, <1>11,
     <1>12, <1>13, <1>14, <1>15, <1>16, <1>17, <1>18, <1>19, <1>20, <1>21,
     <1>22, <1>23, <1>24
  DEF Next, Accept, Serve, ServeList, Disturb

\* An append keeps the IDs that are in the index and adds one.
LEMMA AppendIndexes ==
  ASSUME Inv, NEW h \in Handlers, pc[h] = "write", ETagMatches(h), StoreIndex(h)
  PROVE  Indexed' = Indexed \cup {Target(h)}
<1>1. /\ index'.ids = Append(index.ids, Target(h))
      /\ index.ids \in Seq(Instances) /\ Target(h) \in Instances
  BY Extends
<1>2. /\ Len(index'.ids) = Len(index.ids) + 1 /\ Len(index.ids) \in Nat
      /\ index'.ids[Len(index.ids) + 1] = Target(h)
      /\ \A n \in 1..Len(index.ids) : index'.ids[n] = index.ids[n]
  BY <1>1
<1> QED
  BY <1>2 DEF Indexed

\* A start stays on its way to the index until it is there.
LEMMA UnderwayStep ==
  ASSUME Inv, [Next]_vars
  PROVE  StartIsUnderway'
<1>0. StoreTypeOK /\ LocalTypeOK /\ StartIsUnderway /\ faults \in Nat
  BY DEF Inv, TypeOK, StoreTypeOK, IndexInv
<1>1. ASSUME NEW r \in Requests, Send(r) PROVE StartIsUnderway'
  BY <1>0, <1>1, TriageWorkersAssumption
  DEF StartIsUnderway, Indexed, Send, Target, Goto, LocalTypeOK, Workers,
      requests, engine
<1>2. ASSUME NEW h \in Handlers, NEW r \in Requests, Receive(h, r)
      PROVE  StartIsUnderway'
  BY <1>0, <1>2, TriageWorkersAssumption
  DEF StartIsUnderway, Indexed, Receive, Target, Goto, LocalTypeOK, Workers,
      requests, engine
<1>3. ASSUME NEW h \in Handlers, NEW r \in Requests, RejectMalformed(h, r)
      PROVE  StartIsUnderway'
  BY <1>0, <1>3, TriageWorkersAssumption
  DEF StartIsUnderway, Indexed, RejectMalformed, Target, Goto, LocalTypeOK,
      Workers, requests, engine
<1>4. ASSUME NEW h \in Handlers, Respond(h) PROVE StartIsUnderway'
  BY <1>0, <1>4, TriageWorkersAssumption
  DEF StartIsUnderway, Indexed, Respond, Target, Goto, LocalTypeOK, Workers,
      Answers, requests, engine
<1>5. ASSUME NEW h \in Handlers, Redeliver(h) PROVE StartIsUnderway'
  BY <1>0, <1>5 DEF StartIsUnderway, Redeliver, Fault
<1>6. ASSUME Crash PROVE StartIsUnderway'
  BY <1>0, <1>6 DEF StartIsUnderway, Crash, Fault
<1>7. ASSUME NEW h \in Handlers, Schedule(h) PROVE StartIsUnderway'
  BY <1>0, <1>7, TriageWorkersAssumption
  DEF StartIsUnderway, Indexed, Schedule, Target, Goto, LocalTypeOK,
      Workers, Start, requests, engine
<1>8. ASSUME NEW h \in Handlers, ScheduleDuplicate(h) PROVE StartIsUnderway'
  BY <1>0, <1>8, TriageWorkersAssumption
  DEF StartIsUnderway, Indexed, ScheduleDuplicate, Target, Goto,
      LocalTypeOK, Workers, requests, engine
<1>9. ASSUME NEW h \in Handlers, ScheduleFails(h) PROVE StartIsUnderway'
  BY <1>0, <1>9 DEF StartIsUnderway, ScheduleFails, Fault
<1>10. ASSUME NEW i \in Instances, Finish(i) PROVE StartIsUnderway'
  BY <1>0, <1>10, TriageWorkersAssumption
  DEF StartIsUnderway, Indexed, Finish, Target, Goto, LocalTypeOK, Workers,
      requests, engine
<1>11. ASSUME NEW h \in Handlers, ReadIndex(h) PROVE StartIsUnderway'
  <2>1. Target(h) \in Indexed \/ pc'[h] = "write"
    BY <1>0, <1>11
    DEF ReadIndex, AlreadyIndexed, Contains, Indexed, Goto, LocalTypeOK,
       Workers
  <2>2. UNCHANGED <<scheduled, Indexed, faults, exhausted>>
    BY <1>11 DEF ReadIndex, engine, Indexed
  <2>3. \A g \in Handlers : Target(g)' = Target(g)
    BY <1>0, <1>11, ReadIndexEffect DEF Target
  <2> QED
    BY <1>0, <1>11, <2>1, <2>2, <2>3, ReadIndexEffect DEF StartIsUnderway
<1>12. ASSUME NEW h \in Handlers, ReadIndexFails(h) PROVE StartIsUnderway'
  BY <1>0, <1>12 DEF StartIsUnderway, ReadIndexFails, Fault
<1>13. ASSUME NEW h \in Handlers, WriteIndex(h) PROVE StartIsUnderway'
  <2>1. Indexed' = Indexed \cup {Target(h)}
    BY <1>13, AppendIndexes DEF WriteIndex
  <2>2. \A g \in Handlers \ {h} : pc'[g] = pc[g] /\ Target(g)' = Target(g)
    BY <1>0, <1>13 DEF WriteIndex, Goto, Target, LocalTypeOK, Workers
  <2>3. UNCHANGED <<scheduled, faults, exhausted>>
    BY <1>13 DEF WriteIndex, engine
  <2> QED
    BY <1>0, <2>1, <2>2, <2>3 DEF StartIsUnderway
<1>14. ASSUME NEW h \in Handlers, RetryIndex(h) PROVE StartIsUnderway'
  BY <1>0, <1>14, TriageWorkersAssumption
  DEF StartIsUnderway, Indexed, RetryIndex, Target, Goto, LocalTypeOK,
      Workers, requests, engine
<1>15. ASSUME NEW h \in Handlers, ExhaustIndex(h) PROVE StartIsUnderway'
  BY <1>0, <1>15 DEF StartIsUnderway, ExhaustIndex
<1>16. ASSUME NEW h \in Handlers, WriteIndexFails(h) PROVE StartIsUnderway'
  BY <1>0, <1>16 DEF StartIsUnderway, WriteIndexFails, Fault
<1>17. ASSUME NEW v \in Readers, NEW only \in {Instances, Optimisations}, List(v, only)
       PROVE  StartIsUnderway'
  BY <1>0, <1>17, TriageWorkersAssumption
  DEF StartIsUnderway, Indexed, List, Target, Goto, LocalTypeOK, Workers,
      requests, engine
<1>18. ASSUME NEW v \in Readers, ListIndex(v) PROVE StartIsUnderway'
  BY <1>0, <1>18, TriageWorkersAssumption
  DEF StartIsUnderway, Indexed, ListIndex, Target, Goto, LocalTypeOK,
      Workers, requests, engine
<1>19. ASSUME NEW v \in Readers, ListFails(v) PROVE StartIsUnderway'
  BY <1>0, <1>19 DEF StartIsUnderway, ListFails, Fault
<1>20. ASSUME NEW v \in Readers, FetchMetadata(v) PROVE StartIsUnderway'
  BY <1>0, <1>20, TriageWorkersAssumption
  DEF StartIsUnderway, Indexed, FetchMetadata, Target, Goto, LocalTypeOK,
      Workers, requests, engine
<1>21. ASSUME NEW v \in Readers, FetchMetadataFails(v) PROVE StartIsUnderway'
  BY <1>0, <1>21 DEF StartIsUnderway, FetchMetadataFails, Fault
<1>22. ASSUME NEW v \in Readers, AnswerList(v) PROVE StartIsUnderway'
  BY <1>0, <1>22, TriageWorkersAssumption
  DEF StartIsUnderway, Indexed, AnswerList, Target, Goto, LocalTypeOK,
      Workers, requests, engine
<1>23. ASSUME NEW v \in Readers, EndList(v) PROVE StartIsUnderway'
  BY <1>0, <1>23, TriageWorkersAssumption
  DEF StartIsUnderway, Indexed, EndList, Target, Goto, LocalTypeOK, Workers,
      requests, engine
<1>24. ASSUME UNCHANGED vars PROVE StartIsUnderway'
  BY <1>0, <1>24 DEF StartIsUnderway, Indexed, Target, vars, requests, engine
<1> QED
  BY <1>1, <1>2, <1>3, <1>4, <1>5, <1>6, <1>7, <1>8, <1>9, <1>10, <1>11,
     <1>12, <1>13, <1>14, <1>15, <1>16, <1>17, <1>18, <1>19, <1>20, <1>21,
     <1>22, <1>23, <1>24
  DEF Next, Accept, Serve, ServeList, Disturb

\* A write of the index catalogues one instance.
LEMMA CatalogueOne ==
  ASSUME Inv, NEW h \in Handlers, pc[h] = "write", ETagMatches(h), StoreIndex(h),
         UNCHANGED engine
  PROVE  Catalog!Next
<1>1. /\ index'.ids = Append(index.ids, Target(h))
      /\ Target(h) \in scheduled /\ Target(h) \in Instances
      /\ \A n \in 1..Len(index.ids) : index.ids[n] # Target(h)
  BY Extends DEF Contains, engine
<1>2. Catalog!Catalogue(Target(h))
  BY <1>1 DEF Catalog!Catalogue, engine
<1> QED
  BY <1>1, <1>2 DEF Catalog!Next

\* A start is the first under its ID, or one after the end of the one before.
LEMMA StartOne ==
  ASSUME Inv, NEW h \in Handlers, pc[h] = "schedule",
         ~IsDuplicateInstance(Target(h)), Start(Target(h)), index' = index
  PROVE  Catalog!Next
<1>1. Target(h) \in Instances /\ finished \subseteq scheduled
  BY RequestsAssumption DEF Inv, TypeOK, LocalTypeOK, StoreTypeOK, Target
<1>2. /\ scheduled' = scheduled \cup {Target(h)}
      /\ scheduled' \ finished' = (scheduled \ finished) \cup {Target(h)}
  BY DEF Start
<1>3. CASE Target(h) \in scheduled
  <2>1. ReusesFinished /\ Target(h) \in finished /\ scheduled' = scheduled
    BY <1>2, <1>3 DEF IsDuplicateInstance
  <2>2. Catalog!StartAnew(Target(h))
    BY <1>2, <1>3, <2>1 DEF Catalog!StartAnew
  <2> QED
    BY <1>1, <2>2 DEF Catalog!Next
<1>4. CASE Target(h) \notin scheduled
  <2>1. Catalog!Start(Target(h))
    BY <1>2, <1>4 DEF Catalog!Start
  <2> QED
    BY <1>1, <2>1 DEF Catalog!Next
<1> QED
  BY <1>3, <1>4

\* The end of a workflow frees its ID and nothing else.
LEMMA EndOne ==
  ASSUME Inv, NEW i \in Instances, Finish(i)
  PROVE  Catalog!Next
<1>1. /\ i \in scheduled \ finished /\ scheduled' = scheduled /\ index' = index
      /\ scheduled' \ finished' = (scheduled \ finished) \ {i}
  BY DEF Finish
<1>2. Catalog!End(i)
  BY <1>1 DEF Catalog!End
<1> QED
  BY <1>2 DEF Catalog!Next

\* Every step starts or ends an instance of the catalogue, catalogues one, or
\* does none of this.
LEMMA CatalogStep ==
  ASSUME Inv, [Next]_vars
  PROVE  [Catalog!Next]_<<scheduled, scheduled \ finished, index.ids>>
<1>1. ASSUME NEW h \in Handlers, Schedule(h) \/ ScheduleFails(h)
      PROVE  \/ UNCHANGED <<scheduled, finished, index>>
             \/ Catalog!Next
  BY <1>1, StartOne DEF Schedule, ScheduleFails, engine
<1>2. ASSUME NEW h \in Handlers, WriteIndex(h) \/ WriteIndexFails(h)
      PROVE  \/ UNCHANGED <<scheduled, finished, index>>
             \/ Catalog!Next
  BY <1>2, CatalogueOne DEF WriteIndex, WriteIndexFails, engine
<1>3. \/ UNCHANGED <<scheduled, finished, index>>
      \/ Catalog!Next
  BY <1>1, <1>2, EndOne
  DEF Next, Accept, Serve, ServeList, Disturb, vars, requests, engine, Send,
      Receive, RejectMalformed, Respond, Redeliver, Crash, ScheduleDuplicate,
      ReadIndex, ReadIndexFails, RetryIndex, ExhaustIndex, List, ListIndex,
      ListFails, FetchMetadata, FetchMetadataFails, AnswerList, EndList
<1> QED
  BY <1>3

-----------------------------------------------------------------------------
(***************************************************************************)
(* The counters                                                            *)
(***************************************************************************)
\* The handlers that are about to call the engine.
Scheduling == {h \in Handlers : pc[h] = "schedule"}

\* There are finitely many of them.
LEMMA SchedulingIsFinite ==
  IsFiniteSet(Scheduling) /\ Cardinality(Scheduling) \in Nat
<1>1. Scheduling \subseteq Handlers
  BY DEF Scheduling
<1> QED
  BY <1>1, TriageWorkersAssumption, FS_Subset, FS_CardinalityType

\* One handler more is about to call the engine.
LEMMA OneComes ==
  ASSUME LocalTypeOK, NEW h \in Handlers, pc[h] # "schedule", Goto(h, "schedule")
  PROVE  Cardinality(Scheduling') = Cardinality(Scheduling) + 1
<1>1. Scheduling' = Scheduling \cup {h} /\ h \notin Scheduling
  BY DEF Scheduling, Goto, LocalTypeOK, Workers
<1> QED
  BY <1>1, SchedulingIsFinite, FS_AddElement

\* One handler less is about to call the engine.
LEMMA OneGoes ==
  ASSUME LocalTypeOK, NEW h \in Handlers, NEW label, label # "schedule",
         pc[h] = "schedule", Goto(h, label)
  PROVE  Cardinality(Scheduling') = Cardinality(Scheduling) - 1
<1>1. Scheduling' = Scheduling \ {h} /\ h \in Scheduling
  BY DEF Scheduling, Goto, LocalTypeOK, Workers
<1> QED
  BY <1>1, SchedulingIsFinite, FS_RemoveElement

\* StatsAddUp with the number of those handlers.
Balanced ==
  stats["received"] =
    stats["started"] + stats["duplicate"] + stats["bad_env"] + stats["failed"]
      + Cardinality(Scheduling)

\* Every step keeps the counters balanced.
LEMMA BalanceStep ==
  ASSUME Inv, Balanced, [Next]_vars
  PROVE  Balanced'
<1>0. LocalTypeOK /\ Balanced /\ stats \in [Counter -> Nat]
  BY DEF Inv, TypeOK, StoreTypeOK
<1>1. ASSUME NEW r \in Requests, Send(r) PROVE Balanced'
  <2>1. Scheduling' = Scheduling /\ stats' = stats
    BY <1>0, <1>1 DEF Send, Scheduling
  <2> QED
    BY <1>0, <2>1 DEF Balanced
<1>2. ASSUME NEW h \in Handlers, NEW r \in Requests, Receive(h, r)
      PROVE  Balanced'
  <2>1. Cardinality(Scheduling') = Cardinality(Scheduling) + 1
    BY <1>0, <1>2, OneComes DEF Receive
  <2> QED
    BY <1>0, <1>2, <2>1, SchedulingIsFinite
      DEF Balanced, Receive, Count, Counter
<1>3. ASSUME NEW h \in Handlers, NEW r \in Requests, RejectMalformed(h, r)
      PROVE  Balanced'
  <2>1. Scheduling' = Scheduling
    BY <1>3 DEF RejectMalformed, Scheduling
  <2> QED
    BY <1>0, <1>3, <2>1, SchedulingIsFinite
      DEF Balanced, RejectMalformed, CountRejected, Counter
<1>4. ASSUME NEW h \in Handlers, Respond(h) PROVE Balanced'
  <2>1. Scheduling' = Scheduling /\ stats' = stats
    BY <1>0, <1>4 DEF Respond, Scheduling, Goto, LocalTypeOK, Workers, Answers
  <2> QED
    BY <1>0, <2>1 DEF Balanced
<1>5. ASSUME NEW h \in Handlers, Redeliver(h) PROVE Balanced'
  <2>1. Scheduling' = Scheduling /\ stats' = stats
    BY <1>0, <1>5 DEF Redeliver, Scheduling
  <2> QED
    BY <1>0, <2>1 DEF Balanced
<1>6. ASSUME Crash PROVE Balanced'
  <2>1. Scheduling' = {}
    BY <1>6 DEF Crash, Scheduling, Workers
  <2> QED
    BY <1>6, <2>1, FS_EmptySet DEF Balanced, Crash, NoStats, Counter
<1>7. ASSUME NEW h \in Handlers, Schedule(h) PROVE Balanced'
  <2>1. Cardinality(Scheduling') = Cardinality(Scheduling) - 1
    BY <1>0, <1>7, OneGoes DEF Schedule
  <2> QED
    BY <1>0, <1>7, <2>1, SchedulingIsFinite
      DEF Balanced, Schedule, Count, Counter
<1>8. ASSUME NEW h \in Handlers, ScheduleDuplicate(h) PROVE Balanced'
  <2>1. Cardinality(Scheduling') = Cardinality(Scheduling) - 1
    BY <1>0, <1>8, OneGoes DEF ScheduleDuplicate
  <2> QED
    BY <1>0, <1>8, <2>1, SchedulingIsFinite
      DEF Balanced, ScheduleDuplicate, Count, Counter
<1>9. ASSUME NEW h \in Handlers, ScheduleFails(h) PROVE Balanced'
  <2>1. Cardinality(Scheduling') = Cardinality(Scheduling) - 1
    BY <1>0, <1>9, OneGoes DEF ScheduleFails, ScheduleFailure
  <2> QED
    BY <1>0, <1>9, <2>1, SchedulingIsFinite
      DEF Balanced, ScheduleFails, Count, Counter
<1>10. ASSUME NEW i \in Instances, Finish(i) PROVE Balanced'
  <2>1. Scheduling' = Scheduling /\ stats' = stats
    BY <1>0, <1>10 DEF Finish, Scheduling
  <2> QED
    BY <1>0, <2>1 DEF Balanced
<1>11. ASSUME NEW h \in Handlers, ReadIndex(h) PROVE Balanced'
  <2>1. Scheduling' = Scheduling /\ stats' = stats
    BY <1>0, <1>11 DEF ReadIndex, Scheduling, Goto, LocalTypeOK, Workers
  <2> QED
    BY <1>0, <2>1 DEF Balanced
<1>12. ASSUME NEW h \in Handlers, ReadIndexFails(h) PROVE Balanced'
  <2>1. Scheduling' = Scheduling /\ stats' = stats
    BY <1>0, <1>12 DEF ReadIndexFails, Scheduling, Goto, LocalTypeOK, Workers
  <2> QED
    BY <1>0, <2>1 DEF Balanced
<1>13. ASSUME NEW h \in Handlers, WriteIndex(h) PROVE Balanced'
  <2>1. Scheduling' = Scheduling /\ stats' = stats
    BY <1>0, <1>13 DEF WriteIndex, Scheduling, Goto, LocalTypeOK, Workers
  <2> QED
    BY <1>0, <2>1 DEF Balanced
<1>14. ASSUME NEW h \in Handlers, RetryIndex(h) PROVE Balanced'
  <2>1. Scheduling' = Scheduling /\ stats' = stats
    BY <1>0, <1>14 DEF RetryIndex, Scheduling, Goto, LocalTypeOK, Workers
  <2> QED
    BY <1>0, <2>1 DEF Balanced
<1>15. ASSUME NEW h \in Handlers, ExhaustIndex(h) PROVE Balanced'
  <2>1. Scheduling' = Scheduling /\ stats' = stats
    BY <1>0, <1>15 DEF ExhaustIndex, Scheduling, Goto, LocalTypeOK, Workers
  <2> QED
    BY <1>0, <2>1 DEF Balanced
<1>16. ASSUME NEW h \in Handlers, WriteIndexFails(h) PROVE Balanced'
  <2>1. Scheduling' = Scheduling /\ stats' = stats
    BY <1>0, <1>16 DEF WriteIndexFails, Scheduling, Goto, LocalTypeOK, Workers
  <2> QED
    BY <1>0, <2>1 DEF Balanced
<1>17. ASSUME NEW v \in Readers, NEW only \in {Instances, Optimisations}, List(v, only)
       PROVE  Balanced'
  <2>1. Scheduling' = Scheduling /\ stats' = stats
    BY <1>0, <1>17, TriageWorkersAssumption
    DEF List, Scheduling, Goto, LocalTypeOK, Workers
  <2> QED
    BY <1>0, <2>1 DEF Balanced
<1>18. ASSUME NEW v \in Readers, ListIndex(v) PROVE Balanced'
  <2>1. Scheduling' = Scheduling /\ stats' = stats
    BY <1>0, <1>18, TriageWorkersAssumption
    DEF ListIndex, Scheduling, Goto, LocalTypeOK, Workers
  <2> QED
    BY <1>0, <2>1 DEF Balanced
<1>19. ASSUME NEW v \in Readers, ListFails(v) PROVE Balanced'
  <2>1. Scheduling' = Scheduling /\ stats' = stats
    BY <1>0, <1>19, TriageWorkersAssumption
    DEF ListFails, Scheduling, Goto, LocalTypeOK, Workers
  <2> QED
    BY <1>0, <2>1 DEF Balanced
<1>20. ASSUME NEW v \in Readers, FetchMetadata(v) PROVE Balanced'
  <2>1. Scheduling' = Scheduling /\ stats' = stats
    BY <1>0, <1>20, TriageWorkersAssumption
    DEF FetchMetadata, Scheduling, Goto, LocalTypeOK, Workers
  <2> QED
    BY <1>0, <2>1 DEF Balanced
<1>21. ASSUME NEW v \in Readers, FetchMetadataFails(v) PROVE Balanced'
  <2>1. Scheduling' = Scheduling /\ stats' = stats
    BY <1>0, <1>21, TriageWorkersAssumption
    DEF FetchMetadataFails, Scheduling, Goto, LocalTypeOK, Workers
  <2> QED
    BY <1>0, <2>1 DEF Balanced
<1>22. ASSUME NEW v \in Readers, AnswerList(v) PROVE Balanced'
  <2>1. Scheduling' = Scheduling /\ stats' = stats
    BY <1>0, <1>22, TriageWorkersAssumption
    DEF AnswerList, Scheduling, Goto, LocalTypeOK, Workers
  <2> QED
    BY <1>0, <2>1 DEF Balanced
<1>23. ASSUME NEW v \in Readers, EndList(v) PROVE Balanced'
  <2>1. Scheduling' = Scheduling /\ stats' = stats
    BY <1>0, <1>23, TriageWorkersAssumption
    DEF EndList, Scheduling, Goto, LocalTypeOK, Workers
  <2> QED
    BY <1>0, <2>1 DEF Balanced
<1>24. ASSUME UNCHANGED vars PROVE Balanced'
  <2>1. Scheduling' = Scheduling /\ stats' = stats
    BY <1>0, <1>24 DEF Scheduling, vars, requests, engine
  <2> QED
    BY <1>0, <2>1 DEF Balanced
<1> QED
  BY <1>1, <1>2, <1>3, <1>4, <1>5, <1>6, <1>7, <1>8, <1>9, <1>10, <1>11,
     <1>12, <1>13, <1>14, <1>15, <1>16, <1>17, <1>18, <1>19, <1>20, <1>21,
     <1>22, <1>23, <1>24
  DEF Next, Accept, Serve, ServeList, Disturb

-----------------------------------------------------------------------------
\* Types and IndexInv are inductive together.
LEMMA Invariance == Spec => []Inv
<1>1. Inv /\ [Next]_vars => Inv'
  BY StoreStep, LocalStep, OnceStep, AnsweredStep, StartedStep, SnapshotStep,
     UnderwayStep
  DEF Inv, TypeOK, IndexInv
<1> QED
  BY InitInv, <1>1, PTL DEF Spec

\* Every variable keeps its shape and a handler that runs has a request.
THEOREM TypeCorrect == Spec => []TypeOK
<1>1. Inv => TypeOK
  BY DEF Inv
<1> QED
  BY Invariance, <1>1, PTL

\* main.go:1217-1218: for any number of handlers, retries and faults, the index
\* names instances that exist, each once, and what was answered SUCCESS has its
\* workflow.
THEOREM IndexIsSound == Spec => []IndexInv
<1>1. Inv => IndexInv
  BY DEF Inv
<1> QED
  BY Invariance, <1>1, PTL

\* main.go:528-533: when all requests are done, nothing failed and no append
\* used up its retries, every instance is in the index.
THEOREM StartsAreIndexed == Spec => []EveryStartIsIndexed
<1>1. Inv => EveryStartIsIndexed
  BY DEF Inv, IndexInv, StartIsUnderway, EveryStartIsIndexed, Quiet
<1> QED
  BY Invariance, <1>1, PTL

\* main.go:506-523, 1217-1218: an ID is started only while no workflow runs under
\* it, anew only after the end of the one before and only if the engine reuses
\* such IDs, and the catalogue of the started ones grows at its end and names
\* none twice however often it was started, whatever the handlers and faults.
THEOREM CatalogIsImplemented == Spec => ImplementsCatalog
<1>1. Init => Catalog!Init
  BY DEF Init, NoIndex, Catalog!Init
<1>2. Inv /\ [Next]_vars =>
        [Catalog!Next]_<<scheduled, scheduled \ finished, index.ids>>
  BY CatalogStep
<1> QED
  BY Invariance, <1>1, <1>2, PTL DEF Spec, ImplementsCatalog, Catalog!Spec

\* main.go:460-471: whatever the interleaving and wherever it restarts, /stats
\* accounts for every request.
THEOREM StatsAreComplete == Spec => []StatsAddUp
<1>1. Init => Balanced
  <2> SUFFICES ASSUME Init PROVE Balanced
    OBVIOUS
  <2>1. Scheduling = {}
    BY DEF Init, Scheduling, Workers
  <2> QED
    BY <2>1, FS_EmptySet DEF Init, Balanced, NoStats, Counter
<1>2. Balanced <=> StatsAddUp
  BY DEF Balanced, StatsAddUp, Scheduling
<1> QED
  BY Invariance, BalanceStep, <1>1, <1>2, PTL DEF Spec

-----------------------------------------------------------------------------
(***************************************************************************)
(* The listings                                                            *)
(***************************************************************************)
\* What a listing w holds while it goes through the IDs it has read: they are
\* among the instances S, each once; it lists some of those it has passed,
\* and, if complete is true, all that belong to it.
ViewSound(w, S, complete) ==
  /\ w.next \in 1..(Len(w.ids) + 1)
  /\ \A n \in 1..Len(w.ids) : w.ids[n] \in S
  /\ \A m, n \in 1..Len(w.ids) : w.ids[m] = w.ids[n] => m = n
  /\ \A m \in 1..Len(w.out) :
       /\ w.out[m] \in w.only
       /\ \E n \in 1..(w.next - 1) : w.out[m] = w.ids[n]
  /\ \A m, n \in 1..Len(w.out) : w.out[m] = w.out[n] => m = n
  /\ complete => \A n \in 1..(w.next - 1) : w.ids[n] \in w.only =>
       \E m \in 1..Len(w.out) : w.out[m] = w.ids[n]

Unread(w) == w.ids = <<>> /\ w.next = 1 /\ w.out = <<>>

ListInv ==
  \A v \in Readers :
    /\ ViewSound(view[v], scheduled, faults = 0)
    /\ pc[v] = "list" => Unread(view[v])
    /\ pc[v] = "done" => view[v].next > Len(view[v].ids)

\* More instances and less to be complete about.
LEMMA ViewWeakens ==
  ASSUME NEW w, NEW S, NEW T, S \subseteq T, NEW b \in BOOLEAN, NEW c \in BOOLEAN,
         c => b, ViewSound(w, S, b)
  PROVE  ViewSound(w, T, c)
BY DEF ViewSound

\* A listing that has read nothing is sound.
LEMMA UnreadIsSound ==
  ASSUME NEW w \in View, Unread(w), NEW S, NEW b \in BOOLEAN
  PROVE  ViewSound(w, S, b)
<1>1. Len(w.ids) = 0 /\ Len(w.out) = 0 /\ w.next = 1
  BY DEF Unread
<1>2. 1..0 = {} /\ 1..(1 - 1) = {} /\ 1 \in 1..(0 + 1)
  OBVIOUS
<1> QED
  BY <1>1, <1>2 DEF ViewSound

\* Reading an index that names instances of S, each once.
LEMMA ViewReads ==
  ASSUME NEW w \in View, Unread(w), NEW S, NEW b \in BOOLEAN,
         NEW ids \in Seq(Instances),
         \A n \in 1..Len(ids) : ids[n] \in S,
         \A m, n \in 1..Len(ids) : ids[m] = ids[n] => m = n
  PROVE  ViewSound([w EXCEPT !.ids = ids], S, b)
<1> DEFINE x == [w EXCEPT !.ids = ids]
<1>1. x.ids = ids /\ x.next = 1 /\ x.out = <<>>
  BY DEF View, Unread
<1> HIDE DEF x
<1>2. Len(x.out) = 0 /\ Len(x.ids) \in Nat
  BY <1>1
<1>3. 1..0 = {} /\ 1..(1 - 1) = {} /\ 1 \in 1..(Len(x.ids) + 1)
  BY <1>2
<1>4. ViewSound(x, S, b)
  BY <1>1, <1>2, <1>3 DEF ViewSound
<1> QED
  BY <1>4 DEF x

\* The next ID is fetched: it is listed if it belongs to the listing.
LEMMA ViewFetches ==
  ASSUME NEW w \in View, NEW S, NEW b \in BOOLEAN, ViewSound(w, S, b),
         w.next <= Len(w.ids)
  PROVE  LET i == w.ids[w.next] IN
         ViewSound([w EXCEPT !.next = @ + 1,
                             !.out = IF i \in w.only /\ i \in S
                                       THEN Append(@, i) ELSE @], S, b)
<1> DEFINE i == w.ids[w.next]
           out == IF i \in w.only /\ i \in S THEN Append(w.out, i) ELSE w.out
           x == [w EXCEPT !.next = @ + 1, !.out = out]
<1>0. /\ w.ids \in Seq(Instances) /\ w.out \in Seq(Instances) /\ w.next \in Nat
      /\ Len(w.ids) \in Nat /\ Len(w.out) \in Nat
      /\ w.next \in 1..Len(w.ids)
  BY DEF View, ViewSound
<1>1. i \in S /\ i \in Instances
  BY <1>0 DEF ViewSound
<1>2. x.ids = w.ids /\ x.next = w.next + 1 /\ x.out = out /\ x.only = w.only
  BY DEF View
<1>3. /\ x.next \in 1..(Len(x.ids) + 1)
      /\ x.next - 1 = w.next
      /\ \A n \in 1..(x.next - 1) : n = w.next \/ n \in 1..(w.next - 1)
      /\ \A n \in 1..(w.next - 1) : n \in 1..(x.next - 1) /\ n \in 1..Len(w.ids)
                                    /\ n # w.next
      /\ w.next \in 1..(x.next - 1)
  BY <1>0, <1>2
<1> HIDE DEF x
<1>4. CASE i \in w.only
  <2>1. /\ Len(out) = Len(w.out) + 1
        /\ \A m \in 1..Len(w.out) : m \in 1..Len(out) /\ out[m] = w.out[m]
        /\ out[Len(out)] = i
        /\ \A m \in 1..Len(out) : m = Len(out) \/ m \in 1..Len(w.out)
    BY <1>0, <1>1, <1>4
  <2> HIDE DEF out, i
  <2>2. Len(out) \in 1..Len(out)
    BY <1>0, <2>1
  <2>3. \A m \in 1..Len(w.out) : w.out[m] # i
    <3> SUFFICES ASSUME NEW m \in 1..Len(w.out), w.out[m] = i PROVE FALSE
      OBVIOUS
    <3>1. PICK n \in 1..(w.next - 1) : w.out[m] = w.ids[n]
      BY DEF ViewSound
    <3>2. w.ids[n] = w.ids[w.next]
      BY <3>1 DEF i
    <3>3. n = w.next
      BY <1>0, <1>3, <3>2 DEF ViewSound
    <3> QED
      BY <1>3, <3>3
  <2>4. \A m \in 1..Len(out) :
          /\ out[m] \in w.only
          /\ \E n \in 1..(x.next - 1) : out[m] = w.ids[n]
    <3> TAKE m \in 1..Len(out)
    <3>1. CASE m = Len(out)
      BY <1>3, <1>4, <2>1, <3>1 DEF i
    <3>2. CASE m \in 1..Len(w.out)
      BY <1>3, <2>1, <3>2 DEF ViewSound
    <3> QED
      BY <2>1, <3>1, <3>2
  <2>5. \A m, n \in 1..Len(out) : out[m] = out[n] => m = n
    <3> TAKE m, n \in 1..Len(out)
    <3>1. CASE m \in 1..Len(w.out) /\ n \in 1..Len(w.out)
      BY <2>1, <3>1 DEF ViewSound
    <3>2. CASE m = Len(out) /\ n = Len(out)
      BY <3>2
    <3>3. CASE m = Len(out) /\ n \in 1..Len(w.out)
      BY <2>1, <2>3, <3>3
    <3>4. CASE n = Len(out) /\ m \in 1..Len(w.out)
      BY <2>1, <2>3, <3>4
    <3> QED
      BY <2>1, <3>1, <3>2, <3>3, <3>4
  <2>6. b => \A n \in 1..(x.next - 1) : w.ids[n] \in w.only =>
          \E m \in 1..Len(out) : out[m] = w.ids[n]
    <3> SUFFICES ASSUME b, NEW n \in 1..(x.next - 1), w.ids[n] \in w.only
                 PROVE  \E m \in 1..Len(out) : out[m] = w.ids[n]
      OBVIOUS
    <3>1. CASE n = w.next
      BY <2>1, <2>2, <3>1 DEF i
    <3>2. CASE n \in 1..(w.next - 1)
      <4>1. PICK m \in 1..Len(w.out) : w.out[m] = w.ids[n]
        BY <3>2 DEF ViewSound
      <4> QED
        BY <2>1, <4>1
    <3> QED
      BY <1>3, <3>1, <3>2
  <2>7. ViewSound(x, S, b)
    BY <1>2, <1>3, <2>4, <2>5, <2>6 DEF ViewSound
  <2> QED
    BY <2>7 DEF x, out, i
<1>5. CASE i \notin w.only
  <2>1. out = w.out
    BY <1>5
  <2> HIDE DEF out
  <2>2. b => \A n \in 1..(x.next - 1) : w.ids[n] \in w.only =>
          \E m \in 1..Len(w.out) : w.out[m] = w.ids[n]
    BY <1>3, <1>5 DEF ViewSound
  <2>3. \A m \in 1..Len(w.out) :
          /\ w.out[m] \in w.only
          /\ \E n \in 1..(x.next - 1) : w.out[m] = w.ids[n]
    BY <1>3 DEF ViewSound
  <2>4. ViewSound(x, S, b)
    BY <1>2, <1>3, <2>1, <2>2, <2>3 DEF ViewSound
  <2> QED
    BY <2>4 DEF x, out
<1> QED
  BY <1>4, <1>5

\* The next ID is skipped: the listing is no longer complete.
LEMMA ViewSkips ==
  ASSUME NEW w \in View, NEW S, NEW b \in BOOLEAN, ViewSound(w, S, b),
         w.next <= Len(w.ids)
  PROVE  ViewSound([w EXCEPT !.next = @ + 1], S, FALSE)
<1> DEFINE x == [w EXCEPT !.next = @ + 1]
<1>0. w.ids \in Seq(Instances) /\ w.next \in Nat /\ Len(w.ids) \in Nat
  BY DEF View
<1>1. x.ids = w.ids /\ x.next = w.next + 1 /\ x.out = w.out /\ x.only = w.only
  BY DEF View
<1>2. /\ x.next \in 1..(Len(x.ids) + 1)
      /\ \A n \in 1..(w.next - 1) : n \in 1..(x.next - 1)
  BY <1>0, <1>1 DEF ViewSound
<1> HIDE DEF x
<1>3. ViewSound(x, S, FALSE)
  BY <1>1, <1>2 DEF ViewSound
<1> QED
  BY <1>3 DEF x

\* The readers stand still; the engine may get another instance.
LEMMA ListFrame ==
  ASSUME TypeOK, ListInv, scheduled \subseteq scheduled',
         faults' = 0 => faults = 0,
         view' = view, \A v \in Readers : pc'[v] = pc[v]
  PROVE  ListInv'
<1> SUFFICES ASSUME NEW v \in Readers
             PROVE  /\ ViewSound(view[v], scheduled', faults' = 0)
                    /\ pc[v] = "list" => Unread(view[v])
                    /\ pc[v] = "done" => view[v].next > Len(view[v].ids)
  BY DEF ListInv
<1>1. ViewSound(view[v], scheduled, faults = 0)
  BY DEF ListInv
<1>2. ViewSound(view[v], scheduled', faults' = 0)
  BY <1>1, ViewWeakens
<1> QED
  BY <1>2 DEF ListInv

\* One reader moves.
LEMMA ListMoves ==
  ASSUME TypeOK, ListInv, UNCHANGED scheduled, faults' = 0 => faults = 0,
         NEW v \in Readers, NEW label, Goto(v, label), NEW w,
         view' = [view EXCEPT ![v] = w],
         ViewSound(w, scheduled, faults' = 0),
         label = "list" => Unread(w),
         label = "done" => w.next > Len(w.ids)
  PROVE  ListInv'
<1>1. /\ pc'[v] = label /\ view'[v] = w
      /\ \A u \in Readers \ {v} : pc'[u] = pc[u] /\ view'[u] = view[u]
  BY DEF TypeOK, LocalTypeOK, Workers, Goto
<1>2. ASSUME NEW u \in Readers \ {v}
      PROVE  /\ ViewSound(view'[u], scheduled', faults' = 0)
             /\ pc'[u] = "list" => Unread(view'[u])
             /\ pc'[u] = "done" => view'[u].next > Len(view'[u].ids)
  <2>1. ViewSound(view[u], scheduled, faults = 0)
    BY DEF ListInv
  <2>2. ViewSound(view[u], scheduled', faults' = 0)
    BY <2>1, ViewWeakens
  <2> QED
    BY <1>1, <1>2, <2>2 DEF ListInv
<1>3. /\ ViewSound(view'[v], scheduled', faults' = 0)
      /\ pc'[v] = "list" => Unread(view'[v])
      /\ pc'[v] = "done" => view'[v].next > Len(view'[v].ids)
  BY <1>1
<1> QED
  BY <1>2, <1>3 DEF ListInv

\* Every step keeps the listings sound.
LEMMA ListStep ==
  ASSUME Inv, ListInv, [Next]_vars
  PROVE  ListInv'
<1>0. /\ TypeOK /\ LocalTypeOK /\ StoreTypeOK /\ IndexedOnce
      /\ scheduled \subseteq scheduled'
      /\ \A h \in Handlers : h \in Workers /\ h \notin Readers
      /\ faults \in Nat
      /\ Fault => faults' # 0
  BY ScheduledGrows, TriageWorkersAssumption, TriageBoundsAssumption
  DEF Inv, TypeOK, IndexInv, StoreTypeOK, Workers, Fault
<1>v. ASSUME NEW v \in Readers
      PROVE  /\ view[v] \in View /\ view \in [Readers -> View]
             /\ ViewSound(view[v], scheduled, faults = 0)
             /\ pc[v] = "list" => Unread(view[v])
             /\ pc[v] = "done" => view[v].next > Len(view[v].ids)
  BY <1>0 DEF ListInv, LocalTypeOK
<1>n. NoView \in View /\ Unread(NoView)
  BY StartType DEF NoView, Unread
<1>1. ASSUME NEW r \in Requests, Send(r) PROVE ListInv'
  BY <1>0, <1>1, ListFrame DEF Send
<1>2. ASSUME NEW h \in Handlers, Accept(h) \/ Serve(h) PROVE ListInv'
  <2>1. /\ view' = view /\ faults' = faults
        /\ \/ pc' = pc \/ \E label : Goto(h, label)
    BY <1>2 DEF Accept, Receive, RejectMalformed, Serve, Schedule,
                ScheduleDuplicate, ReadIndex, WriteIndex, RetryIndex,
                ExhaustIndex, Respond
  <2>2. \A v \in Readers : pc'[v] = pc[v]
    BY <1>0, <2>1 DEF Goto, LocalTypeOK, Workers
  <2> QED
    BY <1>0, <2>1, <2>2, ListFrame
<1>3. ASSUME NEW v \in Readers, NEW only \in {Instances, Optimisations},
             List(v, only)
      PROVE  ListInv'
  <2>1. /\ [NoView EXCEPT !.only = only] \in View
        /\ Unread([NoView EXCEPT !.only = only])
    BY <1>n, RequestsAssumption DEF NoView, View, Unread
  <2>2. ViewSound([NoView EXCEPT !.only = only], scheduled, faults' = 0)
    BY <2>1, UnreadIsSound
  <2> DEFINE w == [NoView EXCEPT !.only = only]
  <2>3. /\ Goto(v, "list") /\ view' = [view EXCEPT ![v] = w]
        /\ UNCHANGED scheduled /\ (faults' = 0 => faults = 0)
    BY <1>3 DEF List, engine
  <2>4. Unread(w) /\ ViewSound(w, scheduled, faults' = 0)
    BY <2>1, <2>2
  <2> HIDE DEF w
  <2> QED
    <3>1. Goto(v, "list")
      BY <2>3
    <3>2. "list" # "done"
      OBVIOUS
    <3> QED
      BY <1>0, <2>3, <2>4, <3>1, <3>2, ListMoves
<1>4. ASSUME NEW v \in Readers, ListIndex(v) PROVE ListInv'
  <2> DEFINE w == [view[v] EXCEPT !.ids = index.ids]
  <2>1. view' = [view EXCEPT ![v] = w]
    BY <1>4 DEF ListIndex
  <2>2. /\ index.ids \in Seq(Instances)
        /\ \A n \in 1..Len(index.ids) : index.ids[n] \in scheduled
        /\ \A m, n \in 1..Len(index.ids) :
             index.ids[m] = index.ids[n] => m = n
    BY <1>0 DEF IndexedOnce, Indexed, StoreTypeOK, Index
  <2>3. ViewSound(w, scheduled, faults' = 0)
    <3>1. view[v] \in View /\ Unread(view[v])
      BY <1>4, <1>v DEF ListIndex
    <3> QED
      BY <2>2, <3>1, ViewReads
  <2>4. /\ Goto(v, "fetch") /\ UNCHANGED scheduled
        /\ (faults' = 0 => faults = 0)
    BY <1>4 DEF ListIndex, engine
  <2> HIDE DEF w
  <2> QED
    <3>1. Goto(v, "fetch")
      BY <2>4
    <3>2. "fetch" # "list" /\ "fetch" # "done"
      OBVIOUS
    <3> QED
      BY <1>0, <2>1, <2>3, <2>4, <3>1, <3>2, ListMoves
<1>5. ASSUME NEW v \in Readers, ListFails(v) \/ EndList(v) PROVE ListInv'
  <2>1. ViewSound(NoView, scheduled, faults' = 0)
    BY <1>n, UnreadIsSound
  <2>2. /\ Goto(v, "idle") /\ view' = [view EXCEPT ![v] = NoView]
        /\ UNCHANGED scheduled /\ (faults' = 0 => faults = 0)
    BY <1>0, <1>5 DEF ListFails, EndList, engine
  <2>3. Goto(v, "idle")
    BY <2>2
  <2>4. "idle" # "list" /\ "idle" # "done"
    OBVIOUS
  <2> QED
    BY <1>0, <2>1, <2>2, <2>3, <2>4, ListMoves
<1>6. ASSUME NEW v \in Readers, FetchMetadata(v) \/ FetchMetadataFails(v)
      PROVE  ListInv'
  <2>1. /\ pc[v] = "fetch" /\ pc' = pc /\ UNCHANGED scheduled
        /\ view[v].next <= Len(view[v].ids)
        /\ faults' = 0 => faults = 0
    BY <1>0, <1>6 DEF FetchMetadata, FetchMetadataFails, Fetching, engine
  <2>2. Goto(v, "fetch")
    BY <1>0, <2>1 DEF Goto, LocalTypeOK, Workers
  <2>3. CASE FetchMetadata(v)
    <3> DEFINE i == view[v].ids[view[v].next]
               w == [view[v] EXCEPT !.next = @ + 1,
                                    !.out = IF i \in view[v].only /\ i \in scheduled
                                              THEN Append(@, i) ELSE @]
    <3>1. view' = [view EXCEPT ![v] = w]
      BY <2>3 DEF FetchMetadata
    <3>2. ViewSound(w, scheduled, faults = 0)
      BY <1>v, <2>1, ViewFetches
    <3>3. faults' = faults
      BY <2>3 DEF FetchMetadata
    <3> HIDE DEF w
    <3> QED
      BY <1>0, <2>1, <2>2, <3>1, <3>2, <3>3, ListMoves
  <2>4. CASE FetchMetadataFails(v)
    <3> DEFINE w == [view[v] EXCEPT !.next = @ + 1]
    <3>1. view' = [view EXCEPT ![v] = w] /\ faults' # 0
      BY <1>0, <2>4 DEF FetchMetadataFails
    <3>2. ViewSound(w, scheduled, FALSE)
      BY <1>v, <2>1, ViewSkips
    <3>3. (faults' = 0) = FALSE
      BY <3>1
    <3>4. ViewSound(w, scheduled, faults' = 0)
      BY <3>2, <3>3
    <3> HIDE DEF w
    <3> QED
      BY <1>0, <2>1, <2>2, <3>1, <3>4, ListMoves
  <2> QED
    BY <1>6, <2>3, <2>4
<1>7. ASSUME NEW v \in Readers, AnswerList(v) PROVE ListInv'
  <2>1. view' = [view EXCEPT ![v] = view[v]]
    BY <1>7, <1>v DEF AnswerList
  <2>2. /\ Goto(v, "done") /\ faults' = faults /\ UNCHANGED scheduled
        /\ view[v].next > Len(view[v].ids)
    BY <1>7 DEF AnswerList, engine
  <2>3. ViewSound(view[v], scheduled, faults' = 0)
    BY <1>v, <2>2
  <2> QED
    <3>1. Goto(v, "done")
      BY <2>2
    <3>2. "done" # "list"
      OBVIOUS
    <3> QED
      BY <1>0, <2>1, <2>2, <2>3, <3>1, <3>2, ListMoves
<1>8. ASSUME NEW i \in Instances, Finish(i) PROVE ListInv'
  BY <1>0, <1>8, ListFrame DEF Finish
<1>9. ASSUME NEW h \in Handlers,
             \/ Redeliver(h) \/ ScheduleFails(h) \/ ReadIndexFails(h)
             \/ WriteIndexFails(h)
      PROVE  ListInv'
  <2>1. /\ view' = view /\ (faults' = 0 => faults = 0)
        /\ \/ pc' = pc \/ \E label : Goto(h, label)
    BY <1>0, <1>9 DEF Redeliver, ScheduleFails, ReadIndexFails,
                      WriteIndexFails
  <2>2. \A v \in Readers : pc'[v] = pc[v]
    BY <1>0, <2>1 DEF Goto, LocalTypeOK, Workers
  <2> QED
    BY <1>0, <2>1, <2>2, ListFrame
<1>10. ASSUME Crash PROVE ListInv'
  <2>1. \A v \in Readers : view'[v] = NoView /\ pc'[v] = "idle"
    BY <1>10 DEF Crash, Workers
  <2>2. ViewSound(NoView, scheduled', faults' = 0)
    BY <1>n, UnreadIsSound
  <2> QED
    BY <2>1, <2>2 DEF ListInv
<1>11. CASE UNCHANGED vars
  BY <1>0, <1>11, ListFrame DEF vars
<1> QED
  BY <1>1, <1>2, <1>3, <1>4, <1>5, <1>6, <1>7, <1>8, <1>9, <1>10, <1>11
  DEF Next, ServeList, Disturb

\* main.go:1161-1200: however the index grows while it is listed and whatever
\* fails, a listing names instances that exist and belong to it, each once;
\* without faults, all those the index had when it was read.
THEOREM ListingsAreFaithful == Spec => []ListIsFaithful
<1>1. Inv /\ ListInv /\ [Next]_vars => ListInv'
  BY ListStep
<1>2. Init => ListInv
  <2> SUFFICES ASSUME Init PROVE ListInv
    OBVIOUS
  <2>1. NoView \in View /\ Unread(NoView)
    BY StartType DEF NoView, Unread
  <2>2. ViewSound(NoView, scheduled, faults = 0)
    BY <2>1, UnreadIsSound
  <2>3. \A v \in Readers : view[v] = NoView /\ pc[v] = "idle"
    BY DEF Init, Workers
  <2> QED
    BY <2>2, <2>3 DEF ListInv
<1>3. Inv /\ ListInv => ListIsFaithful
  <2> SUFFICES ASSUME Inv, ListInv, NEW v \in Readers, pc[v] = "done"
               PROVE  /\ IsInjective(view[v].out)
                      /\ ToSet(view[v].out) \subseteq scheduled \cap view[v].only
                      /\ faults = 0 =>
                           ToSet(view[v].out) = ToSet(view[v].ids) \cap view[v].only
    BY DEF ListIsFaithful
  <2> DEFINE w == view[v]
  <2>1. /\ w \in View
        /\ ViewSound(w, scheduled, faults = 0) /\ w.next > Len(w.ids)
    BY DEF Inv, TypeOK, LocalTypeOK, ListInv
  <2> HIDE DEF w
  <2>2. /\ w.ids \in Seq(Instances) /\ w.out \in Seq(Instances)
        /\ Len(w.ids) \in Nat /\ w.next \in Nat
        /\ w.next \in 1..(Len(w.ids) + 1)
    BY <2>1 DEF View, ViewSound
  <2>3. w.next - 1 = Len(w.ids)
    BY <2>1, <2>2
  <2>4. IsInjective(w.out)
    BY <2>1, <2>2 DEF ViewSound, IsInjective
  <2>5. \A m \in 1..Len(w.out) :
          /\ w.out[m] \in scheduled \cap w.only
          /\ \E n \in 1..Len(w.ids) : w.out[m] = w.ids[n]
    BY <2>1, <2>3 DEF ViewSound
  <2>6. /\ ToSet(w.out) = {w.out[m] : m \in 1..Len(w.out)}
        /\ ToSet(w.ids) = {w.ids[n] : n \in 1..Len(w.ids)}
    BY <2>2 DEF ToSet
  <2>7. faults = 0 => \A n \in 1..Len(w.ids) : w.ids[n] \in w.only =>
          \E m \in 1..Len(w.out) : w.out[m] = w.ids[n]
    BY <2>1, <2>3 DEF ViewSound
  <2>8. ToSet(w.out) \subseteq scheduled \cap w.only
    BY <2>5, <2>6
  <2>9. faults = 0 => ToSet(w.out) = ToSet(w.ids) \cap w.only
    <3> SUFFICES ASSUME faults = 0
                 PROVE  ToSet(w.out) = ToSet(w.ids) \cap w.only
      OBVIOUS
    <3>1. ASSUME NEW x \in ToSet(w.out) PROVE x \in ToSet(w.ids) \cap w.only
      BY <2>5, <2>6, <3>1
    <3>2. ASSUME NEW x \in ToSet(w.ids) \cap w.only PROVE x \in ToSet(w.out)
      <4>1. PICK n \in 1..Len(w.ids) : x = w.ids[n]
        BY <2>6, <3>2
      <4> QED
        BY <2>6, <2>7, <3>2, <4>1
    <3> QED
      BY <3>1, <3>2
  <2> QED
    BY <2>4, <2>8, <2>9 DEF w
<1> QED
  BY Invariance, <1>1, <1>2, <1>3, PTL DEF Spec
=============================================================================
