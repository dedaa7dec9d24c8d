------------------------------ MODULE IngestSvc ------------------------------
(***************************************************************************)
(* ingest-svc (services/ingest-svc/main.go): seeds the cost centers, then  *)
(* takes batches of line items on POST /ingest and, line by line, enriches *)
(* (services/shared/finops/enrich.go), stores and publishes them.          *)
(***************************************************************************)
EXTENDS Integers, Sequences, FiniteSets, FiniteSetsExt, SequencesExt

CONSTANTS
  Lines,      \* lines of the posted bodies
  Blank,      \* the empty ones
  Garbled,    \* those that do not decode as a LineItem
  TooLong,    \* those over 4 MiB, at which the scanner stops
  Ids, ItemId, \* line_item_id of a line; a corrected line keeps its ID
  CenterOf,   \* the cost-center tag of a line, NoTag without one
  SeedFile,   \* the cost centers of /seed/cost-centers.json, in order
  Batch,      \* the lines of each body
  Handlers,   \* goroutines serving POST /ingest
  MaxPosts,   \* bound: times a body is posted
  MaxFaults,  \* bound: failed calls and crashes
  NoTag, NoBody, NoLine

Bodies  == DOMAIN Batch
Centers == ToSet(SeedFile)

\* What the scanner can hold and the decoder takes.
Items == Lines \ (Blank \cup Garbled \cup TooLong)

ASSUME BodiesAssumption ==
  /\ Blank \subseteq Lines /\ Garbled \subseteq Lines /\ TooLong \subseteq Lines
  /\ ItemId \in [Lines -> Ids]
  /\ NoLine \notin Lines
  /\ \A b \in Bodies : Batch[b] \in Seq(Lines)
  /\ NoBody \notin Bodies
  /\ SeedFile \in Seq(Centers)
  /\ NoTag \notin Centers

ASSUME HandlersAssumption == IsFiniteSet(Handlers)

ASSUME IngestBoundsAssumption == MaxPosts \in Nat /\ MaxFaults \in Nat

VARIABLES
  seeded,     \* cost centers in state-redis
  seedPos,    \* how far seedCostCenters has got
  up,         \* whether the server listens
  posted,     \* how often each body was posted
  pc, body, pos,
  batch,      \* the summary of each handler
  stats,      \* /stats: in memory, so a restart starts from zero
  stored,     \* line-item:<id> in state-postgres: the line saved last
  published,  \* line-item.enriched events of each line
  faults

startup == <<seeded, seedPos, up>>
place   == <<pc, body, pos>>
tallies == <<batch, stats>>
outside == <<stored, published>>
vars    == <<startup, posted, place, tallies, outside, faults>>

Counter == {"received", "enriched", "published", "failed", "unmapped"}
Zero    == [c \in Counter |-> 0]

Line(h) == Batch[body[h]][pos[h]]

Goto(h, label) == pc' = [pc EXCEPT ![h] = label]

\* Each counter exists twice, for the batch and for the process.
Tally(h, counters) ==
  LET Bump(s) == [c \in Counter |-> s[c] + IF c \in counters THEN 1 ELSE 0]
  IN  /\ batch' = [batch EXCEPT ![h] = Bump(@)]
      /\ stats' = Bump(stats)

Fault == faults < MaxFaults /\ faults' = faults + 1

Init ==
  /\ seeded = {}
  /\ seedPos = 0
  /\ up = FALSE
  /\ posted = [b \in Bodies |-> 0]
  /\ pc = [h \in Handlers |-> "idle"]
  /\ body = [h \in Handlers |-> NoBody]
  /\ pos = [h \in Handlers |-> 0]
  /\ batch = [h \in Handlers |-> Zero]
  /\ stats = Zero
  /\ stored = [i \in Ids |-> NoLine]
  /\ published = [l \in Items |-> 0]
  /\ faults = 0

(***************************************************************************)
(* Startup: the server listens once every cost center is in the store.     *)
(***************************************************************************)
SeedCenter ==
  /\ ~up
  /\ seedPos < Len(SeedFile)
  /\ seedPos' = seedPos + 1
  /\ seeded' = seeded \cup {SeedFile[seedPos + 1]}
  /\ UNCHANGED <<up, posted, place, tallies, outside, faults>>

\* log.Fatalf: the process exits and is started again.
SeedCenterFails ==
  /\ Fault
  /\ ~up
  /\ seedPos < Len(SeedFile)
  /\ seeded' \in {seeded, seeded \cup {SeedFile[seedPos + 1]}}
  /\ seedPos' = 0
  /\ UNCHANGED <<up, posted, place, tallies, outside>>

\* Mistake: the server listens while the seed is being written.
SeedBegun == TRUE

\* Mistake: the loop waits for a cost center after the last.
SeedBeyond == seedPos > Len(SeedFile)

SeedComplete == seedPos = Len(SeedFile)

Listen ==
  /\ ~up
  /\ SeedComplete
  /\ up' = TRUE
  /\ UNCHANGED <<seeded, seedPos, posted, place, tallies, outside, faults>>

Crash ==
  /\ Fault
  /\ up
  /\ up' = FALSE
  /\ seedPos' = 0
  /\ pc' = [h \in Handlers |-> "idle"]
  /\ body' = [h \in Handlers |-> NoBody]
  /\ pos' = [h \in Handlers |-> 0]
  /\ batch' = [h \in Handlers |-> Zero]
  /\ stats' = Zero
  /\ UNCHANGED <<seeded, posted, outside>>

(***************************************************************************)
(* POST /ingest                                                            *)
(***************************************************************************)
Post(h, b) ==
  /\ up
  /\ pc[h] = "idle"
  /\ posted[b] < MaxPosts
  /\ posted' = [posted EXCEPT ![b] = @ + 1]
  /\ body' = [body EXCEPT ![h] = b]
  /\ pos' = [pos EXCEPT ![h] = 0]
  /\ batch' = [batch EXCEPT ![h] = Zero]
  /\ Goto(h, "next")
  /\ UNCHANGED <<startup, stats, outside, faults>>

\* Mistake: the check for an empty tag is left out.
NeverMissing(l) == FALSE

MissingCenter(l) == CenterOf[l] = NoTag

\* scanner.Scan answers false at the end and at a line it cannot hold.
Stopped(h) ==
  pos[h] < Len(Batch[body[h]]) /\ Batch[body[h]][pos[h] + 1] \in TooLong

AtEnd(h) ==
  pc[h] = "next" /\ (pos[h] = Len(Batch[body[h]]) \/ Stopped(h))

\* Scan, decode, and the part of Enrich that needs no call.
NextLine(h) ==
  /\ pc[h] = "next"
  /\ ~AtEnd(h)
  /\ pos' = [pos EXCEPT ![h] = @ + 1]
  /\ LET l == Batch[body[h]][pos[h] + 1] IN
       \/ /\ l \in Blank
          /\ UNCHANGED <<pc, tallies>>
       \/ /\ l \in Garbled \ Blank
          /\ Tally(h, {"received", "failed"})
          /\ UNCHANGED pc
       \/ /\ l \notin Blank \cup Garbled
          /\ MissingCenter(l)
          /\ Tally(h, {"received", "unmapped"})
          /\ UNCHANGED pc
       \/ /\ l \notin Blank \cup Garbled
          /\ ~MissingCenter(l)
          /\ Tally(h, {"received"})
          /\ Goto(h, "lookup")
  /\ UNCHANGED <<startup, posted, body, outside, faults>>

\* A key that is not there: ErrUnknownCostCenter, which is no failure.
Lookup(h) ==
  /\ pc[h] = "lookup"
  /\ IF CenterOf[Line(h)] \in seeded
       THEN Tally(h, {"enriched"}) /\ Goto(h, "save")
       ELSE Tally(h, {"unmapped"}) /\ Goto(h, "next")
  /\ UNCHANGED <<startup, posted, body, pos, outside, faults>>

\* Mistake: an error is logged and the line counted nowhere.
Uncounted(h) == Tally(h, {}) /\ Goto(h, "next")

\* The batch goes on with the next line after every error.
Fail(h) == Tally(h, {"failed"}) /\ Goto(h, "next")

LookupFails(h) ==
  /\ Fault
  /\ pc[h] = "lookup"
  /\ Fail(h)
  /\ UNCHANGED <<startup, posted, body, pos, outside>>

SaveItem(h) == stored' = [stored EXCEPT ![ItemId[Line(h)]] = Line(h)]

Save(h) ==
  /\ pc[h] = "save"
  /\ SaveItem(h)
  /\ Goto(h, "publish")
  /\ UNCHANGED <<startup, posted, body, pos, tallies, published, faults>>

\* Mistake: the error is counted and the line published all the same.
PublishesAnyway(h) == Tally(h, {}) /\ Goto(h, "publish")

SaveFailure(h) == Fail(h)

SaveFails(h) ==
  /\ Fault
  /\ pc[h] = "save"
  /\ SaveItem(h) \/ UNCHANGED stored
  /\ SaveFailure(h)
  /\ UNCHANGED <<startup, posted, body, pos, published>>

Emit(h) == published' = [published EXCEPT ![Line(h)] = @ + 1]

Publish(h) ==
  /\ pc[h] = "publish"
  /\ Emit(h)
  /\ Tally(h, {"published"})
  /\ Goto(h, "next")
  /\ UNCHANGED <<startup, posted, body, pos, stored, faults>>

\* Mistake: a failed publication is logged and not counted.
Unreported(h) == Tally(h, {"published"}) /\ Goto(h, "next")

PublishFailure(h) == Fail(h)

PublishFails(h) ==
  /\ Fault
  /\ pc[h] = "publish"
  /\ Emit(h) \/ UNCHANGED published
  /\ PublishFailure(h)
  /\ UNCHANGED <<startup, posted, body, pos, stored>>

\* 200 with the summary, or 400 for a body that was not read to its end:
\* what came before stays stored, published and in /stats.
Answer(h) ==
  /\ AtEnd(h)
  /\ Goto(h, "idle")
  /\ body' = [body EXCEPT ![h] = NoBody]
  /\ UNCHANGED <<startup, posted, pos, tallies, outside, faults>>

(***************************************************************************)
(* The specification                                                       *)
(***************************************************************************)
Step(h) ==
  NextLine(h) \/ Lookup(h) \/ Save(h) \/ Publish(h) \/ Answer(h)

Boot == SeedCenter \/ Listen

Next ==
  \/ Boot \/ SeedCenterFails \/ Crash
  \/ \E h \in Handlers :
       \/ \E b \in Bodies : Post(h, b)
       \/ Step(h) \/ LookupFails(h) \/ SaveFails(h) \/ PublishFails(h)

Spec == Init /\ [][Next]_vars

\* The container is restarted until it is up; a goroutine that can run does.
Fairness == WF_vars(Boot) /\ \A h \in Handlers : WF_vars(Step(h))

FairSpec == Spec /\ Fairness

InWork(h) == pc[h] \in {"lookup", "save", "publish"}

(***************************************************************************)
(* Properties                                                              *)
(***************************************************************************)
\* Every variable has the shape the code gives it, requests are only served
\* by a server that is up, and only a line with a tag is looked up.
TypeOK ==
  /\ seeded \subseteq Centers
  /\ seedPos \in 0..Len(SeedFile)
  /\ up \in BOOLEAN
  /\ posted \in [Bodies -> 0..MaxPosts]
  /\ pc \in [Handlers -> {"idle", "next", "lookup", "save", "publish"}]
  /\ body \in [Handlers -> Bodies \cup {NoBody}]
  /\ pos \in [Handlers -> Nat]
  /\ batch \in [Handlers -> [Counter -> Nat]]
  /\ stats \in [Counter -> Nat]
  /\ stored \in [Ids -> Lines \cup {NoLine}]
  /\ published \in [Items -> Nat]
  /\ faults \in 0..MaxFaults
  /\ \A h \in Handlers :
       pc[h] # "idle" => up /\ body[h] # NoBody /\ pos[h] <= Len(Batch[body[h]])
  /\ \A h \in Handlers : InWork(h) => CenterOf[Line(h)] # NoTag

Settled(s) == s["published"] + s["failed"] + s["unmapped"]

\* main.go:107-109: every line that is not blank ends in exactly one of
\* published, failed and unmapped, in the summary and in /stats, wherever its
\* calls fail; and only an enriched line is published.
EveryLineIsAccountedFor ==
  /\ \A h \in Handlers : pc[h] # "idle" =>
       /\ batch[h]["received"] = Settled(batch[h]) + IF InWork(h) THEN 1 ELSE 0
       /\ batch[h]["received"] =
            Cardinality({n \in 1..pos[h] : Batch[body[h]][n] \notin Blank})
       /\ batch[h]["published"] <= batch[h]["enriched"]
  /\ stats["received"] =
       Settled(stats) + Cardinality({h \in Handlers : InWork(h)})

Unowned(l) ==
  l \notin Blank \cup Garbled /\ CenterOf[l] \notin Centers

\* main.go:43-48, 107-109: unmapped lines are unallocated spend and nothing
\* else; no line is unmapped because the server was not seeded yet.
UnmappedIsUnowned ==
  \A h \in Handlers : pc[h] # "idle" =>
    batch[h]["unmapped"] <=
      Cardinality({n \in 1..pos[h] : Unowned(Batch[body[h]][n])})

\* Clients post finitely often here, so in the end every request is answered or
\* its connection has died with the pod, and the pod is up for good.
RequestsEnd == <>[](up /\ \A h \in Handlers : pc[h] = "idle")
=============================================================================
