--------------------------- MODULE Pipeline_proofs ---------------------------
(***************************************************************************)
(* Proofs about IngestSvc and about Pipeline, for every set of lines and   *)
(* bodies, every seed, every number of handlers and subscribers and every  *)
(* bound.                                                                  *)
(*                                                                         *)
(* The properties of ingest-svc speak about batches as they are tallied.   *)
(* What they need besides: a handler at work has an item in hand, which is *)
(* owned once it was looked up and stored once it is published, and a      *)
(* server that listens has all its cost centers.                           *)
(***************************************************************************)
EXTENDS Pipeline, FiniteSetTheorems, TLAPS

USE DEF Goto, startup, place, tallies, outside

(***************************************************************************)
(* Sets of places in a body                                                *)
(***************************************************************************)
NotBlank(b, p)  == {n \in 1..p : Batch[b][n] \notin Blank}
UnownedAt(b, p) == {n \in 1..p : Unowned(Batch[b][n])}

\* One element more, one element less.
LEMMA OneMore ==
  ASSUME NEW S, NEW T, NEW x, IsFiniteSet(S), x \notin S, T = S \cup {x}
  PROVE  Cardinality(T) = Cardinality(S) + 1
BY FS_AddElement

LEMMA OneLess ==
  ASSUME NEW S, NEW T, NEW x, IsFiniteSet(S), x \in S, T = S \ {x}
  PROVE  Cardinality(T) = Cardinality(S) - 1
BY FS_RemoveElement

\* Part of a body is finite.
LEMMA PlacesAreFinite ==
  ASSUME NEW b, NEW p \in Nat
  PROVE  /\ IsFiniteSet(NotBlank(b, p)) /\ Cardinality(NotBlank(b, p)) \in Nat
         /\ IsFiniteSet(UnownedAt(b, p)) /\ Cardinality(UnownedAt(b, p)) \in Nat
<1>1. IsFiniteSet(1..p)
  BY FS_Interval
<1>2. NotBlank(b, p) \in SUBSET (1..p) /\ UnownedAt(b, p) \in SUBSET (1..p)
  BY DEF NotBlank, UnownedAt
<1> QED
  BY <1>1, <1>2, FS_Subset, FS_CardinalityType

\* What reading one line more adds.
LEMMA NextPlace ==
  ASSUME NEW b, NEW p \in Nat
  PROVE  /\ Cardinality(NotBlank(b, p + 1)) =
              Cardinality(NotBlank(b, p)) + IF Batch[b][p + 1] \in Blank THEN 0 ELSE 1
         /\ Cardinality(UnownedAt(b, p + 1)) =
              Cardinality(UnownedAt(b, p)) + IF Unowned(Batch[b][p + 1]) THEN 1 ELSE 0
<1>1. p + 1 \notin 1..p /\ 1..(p + 1) = (1..p) \cup {p + 1}
  OBVIOUS
<1>2. p + 1 \notin NotBlank(b, p) /\ p + 1 \notin UnownedAt(b, p)
  BY <1>1 DEF NotBlank, UnownedAt
<1>3. NotBlank(b, p + 1) =
        IF Batch[b][p + 1] \in Blank THEN NotBlank(b, p)
        ELSE NotBlank(b, p) \cup {p + 1}
  BY <1>1 DEF NotBlank
<1>4. UnownedAt(b, p + 1) =
        IF Unowned(Batch[b][p + 1]) THEN UnownedAt(b, p) \cup {p + 1}
        ELSE UnownedAt(b, p)
  BY <1>1 DEF UnownedAt
<1>5. Cardinality(NotBlank(b, p + 1)) =
        Cardinality(NotBlank(b, p)) + IF Batch[b][p + 1] \in Blank THEN 0 ELSE 1
  BY <1>2, <1>3, PlacesAreFinite, OneMore
<1>6. Cardinality(UnownedAt(b, p + 1)) =
        Cardinality(UnownedAt(b, p)) + IF Unowned(Batch[b][p + 1]) THEN 1 ELSE 0
  BY <1>2, <1>4, PlacesAreFinite, OneMore
<1> QED
  BY <1>5, <1>6

\* Nothing of a body that was not read.
LEMMA NoPlace ==
  ASSUME NEW b
  PROVE  Cardinality(NotBlank(b, 0)) = 0 /\ Cardinality(UnownedAt(b, 0)) = 0
<1>1. NotBlank(b, 0) = {} /\ UnownedAt(b, 0) = {}
  BY DEF NotBlank, UnownedAt
<1> QED
  BY <1>1, FS_EmptySet

(***************************************************************************)
(* The tallies                                                             *)
(***************************************************************************)
\* A step adds one to these counters of a batch and of the process.
Adds(h, C) ==
  /\ batch' \in [Handlers -> [Counter -> Nat]]
  /\ stats' \in [Counter -> Nat]
  /\ \A g \in Handlers \ {h} : batch'[g] = batch[g]
  /\ \A c \in C : batch'[h][c] = batch[h][c] + 1 /\ stats'[c] = stats[c] + 1
  /\ \A c \in Counter \ C : batch'[h][c] = batch[h][c] /\ stats'[c] = stats[c]

LEMMA TallyEffect ==
  ASSUME TypeOK, NEW h \in Handlers, NEW C \in SUBSET Counter, Tally(h, C)
  PROVE  Adds(h, C)
<1>1. /\ batch \in [Handlers -> [Counter -> Nat]] /\ stats \in [Counter -> Nat]
      /\ batch[h] \in [Counter -> Nat]
  BY DEF TypeOK
<1>2. /\ batch' = [batch EXCEPT ![h] =
                     [c \in Counter |-> batch[h][c] + IF c \in C THEN 1 ELSE 0]]
      /\ stats' = [c \in Counter |-> stats[c] + IF c \in C THEN 1 ELSE 0]
  BY <1>1 DEF Tally
<1>3. \A c \in Counter : batch'[h][c] = batch[h][c] + IF c \in C THEN 1 ELSE 0
  BY <1>1, <1>2
<1>4. /\ batch' \in [Handlers -> [Counter -> Nat]] /\ stats' \in [Counter -> Nat]
      /\ \A g \in Handlers \ {h} : batch'[g] = batch[g]
  BY <1>1, <1>2
<1> QED
  BY <1>1, <1>2, <1>3, <1>4 DEF Adds

LEMMA NoTally ==
  ASSUME TypeOK, NEW h \in Handlers, UNCHANGED <<batch, stats>>
  PROVE  Adds(h, {})
BY DEF TypeOK, Adds

(***************************************************************************)
(* The inductive invariant of ingest-svc                                   *)
(***************************************************************************)
\* The server listens with all cost centers, and seeds them in order.
SeedInv ==
  /\ seeded \subseteq Centers
  /\ \A n \in 1..seedPos : SeedFile[n] \in seeded
  /\ up => Centers \subseteq seeded

\* A handler at work has an item in hand, looked up before it is stored and
\* stored before it is published.
ItemInHand ==
  \A h \in Handlers :
    /\ InWork(h) => pos[h] \in 1..Len(Batch[body[h]]) /\ Line(h) \in Items
    /\ pc[h] \in {"save", "publish"} => CenterOf[Line(h)] \in Centers
    /\ pc[h] = "publish" => stored[ItemId[Line(h)]] # NoLine

\* The summary of one batch.
Tallied(h) ==
  pc[h] # "idle" =>
    /\ batch[h]["received"] =
         batch[h]["published"] + batch[h]["failed"] + batch[h]["unmapped"]
           + IF InWork(h) THEN 1 ELSE 0
    /\ batch[h]["received"] = Cardinality(NotBlank(body[h], pos[h]))
    /\ batch[h]["published"] + (IF pc[h] \in {"save", "publish"} THEN 1 ELSE 0)
         <= batch[h]["enriched"]
    /\ batch[h]["unmapped"]
           + (IF pc[h] = "lookup" /\ Unowned(Line(h)) THEN 1 ELSE 0)
         <= Cardinality(UnownedAt(body[h], pos[h]))

Working == {h \in Handlers : InWork(h)}

\* The counters of the process.
Balanced ==
  stats["received"] =
    stats["published"] + stats["failed"] + stats["unmapped"] + Cardinality(Working)

Shape == TypeOK /\ SeedInv /\ ItemInHand

IngestInv == Shape /\ Balanced /\ \A h \in Handlers : Tallied(h)

\* What is in the store stays there, in some version.
StoreGrows == \A i \in Ids : stored[i] # NoLine => stored'[i] # NoLine

USE BodiesAssumption, IngestBoundsAssumption

\* The line a handler has read last is a line.
LEMMA LineProperties ==
  ASSUME TypeOK, NEW h \in Handlers, pc[h] # "idle"
  PROVE  /\ body[h] \in Bodies /\ Batch[body[h]] \in Seq(Lines)
         /\ Len(Batch[body[h]]) \in Nat /\ pos[h] \in 0..Len(Batch[body[h]])
         /\ \A n \in 1..Len(Batch[body[h]]) : Batch[body[h]][n] \in Lines
<1>1. body[h] \in Bodies /\ pos[h] \in Nat /\ pos[h] <= Len(Batch[body[h]])
  BY DEF TypeOK
<1>2. Batch[body[h]] \in Seq(Lines)
  BY <1>1
<1> QED
  BY <1>1, <1>2

\* The seed is written in order, all of it before the server listens.
LEMMA SeedStep ==
  ASSUME TypeOK, SeedInv, [Next]_vars
  PROVE  SeedInv'
<1>0. /\ SeedInv /\ seedPos \in 0..Len(SeedFile) /\ Len(SeedFile) \in Nat
      /\ \A n \in 1..Len(SeedFile) : SeedFile[n] \in Centers
      /\ \A c \in Centers : \E n \in 1..Len(SeedFile) : SeedFile[n] = c
  BY DEF TypeOK, Centers, ToSet
<1>1. ASSUME UNCHANGED startup PROVE SeedInv'
  BY <1>0, <1>1 DEF SeedInv
<1>2. ASSUME SeedCenter PROVE SeedInv'
  <2>1. /\ seedPos + 1 \in 1..Len(SeedFile) /\ seedPos' = seedPos + 1
        /\ seeded' = seeded \cup {SeedFile[seedPos + 1]} /\ ~up /\ ~up'
    BY <1>0, <1>2 DEF SeedCenter
  <2>2. \A n \in 1..(seedPos + 1) : n \in 1..seedPos \/ n = seedPos + 1
    BY <1>0
  <2> QED
    BY <1>0, <2>1, <2>2 DEF SeedInv
<1>3. ASSUME SeedCenterFails PROVE SeedInv'
  BY <1>0, <1>3 DEF SeedCenterFails, SeedInv
<1>4. ASSUME Listen PROVE SeedInv'
  BY <1>0, <1>4 DEF Listen, SeedComplete, SeedInv
<1>5. ASSUME Crash PROVE SeedInv'
  BY <1>0, <1>5 DEF Crash, SeedInv
<1>6. ASSUME NEW h \in Handlers, NEW b \in Bodies, Post(h, b) PROVE SeedInv'
  BY <1>1, <1>6 DEF Post
<1>7. ASSUME NEW h \in Handlers, Step(h) PROVE SeedInv'
  BY <1>1, <1>7 DEF Step, NextLine, Lookup, Save, Publish, Answer
<1>8. ASSUME NEW h \in Handlers, LookupFails(h) \/ SaveFails(h) \/ PublishFails(h)
      PROVE  SeedInv'
  BY <1>1, <1>8 DEF LookupFails, SaveFails, PublishFails
<1>9. ASSUME UNCHANGED vars PROVE SeedInv'
  BY <1>1, <1>9 DEF vars
<1> QED
  BY <1>2, <1>3, <1>4, <1>5, <1>6, <1>7, <1>8, <1>9 DEF Next, Boot

PCs == {"idle", "next", "lookup", "save", "publish"}

(***************************************************************************)
(* What a step of handler h does to its own place: where it goes, which    *)
(* counters it adds to, whether it has read one line more.                 *)
(***************************************************************************)
Stays(h, label, C) ==
  /\ pc[h] # "idle" /\ pc' = [pc EXCEPT ![h] = label]
  /\ body' = body /\ pos' = pos /\ up' = up /\ posted' = posted
  /\ Adds(h, C)

Reads(h, label, C) ==
  /\ pc[h] = "next" /\ pc' = [pc EXCEPT ![h] = label]
  /\ body' = body /\ pos' = [pos EXCEPT ![h] = @ + 1]
  /\ up' = up /\ posted' = posted
  /\ pos[h] < Len(Batch[body[h]])
  /\ Adds(h, C)

\* The line that h would read next.
Coming(h) == Batch[body[h]][pos[h] + 1]

\* What NextLine does with a line.
LEMMA NextLineEffect ==
  ASSUME TypeOK, NEW h \in Handlers, NextLine(h)
  PROVE  /\ UNCHANGED <<startup, outside, faults>>
         /\ Coming(h) \in Lines \ TooLong
         /\ \/ Coming(h) \in Blank /\ Reads(h, "next", {})
            \/ /\ Coming(h) \in Garbled \ Blank
               /\ Reads(h, "next", {"received", "failed"})
            \/ /\ Coming(h) \notin Blank \cup Garbled
               /\ CenterOf[Coming(h)] = NoTag
               /\ Reads(h, "next", {"received", "unmapped"})
            \/ /\ Coming(h) \notin Blank \cup Garbled
               /\ CenterOf[Coming(h)] # NoTag
               /\ Reads(h, "lookup", {"received"})
<1>1. /\ pc[h] = "next" /\ pos[h] # Len(Batch[body[h]]) /\ ~Stopped(h)
      /\ UNCHANGED <<startup, posted, body, outside, faults>>
      /\ pos' = [pos EXCEPT ![h] = @ + 1]
  BY DEF NextLine, AtEnd
<1>2. /\ pos[h] < Len(Batch[body[h]]) /\ pos[h] + 1 \in 1..Len(Batch[body[h]])
  BY <1>1, LineProperties
<1>3. Coming(h) \in Lines \ TooLong
  BY <1>1, <1>2, LineProperties DEF Coming, Stopped
<1>4. pc = [pc EXCEPT ![h] = "next"]
  BY <1>1 DEF TypeOK
<1> DEFINE Frame(label) == /\ pc[h] = "next" /\ pc' = [pc EXCEPT ![h] = label]
                           /\ UNCHANGED <<startup, posted, body, outside, faults>>
                           /\ pos' = [pos EXCEPT ![h] = @ + 1]
                           /\ pos[h] < Len(Batch[body[h]])
<1>5. CASE Coming(h) \in Blank /\ UNCHANGED <<pc, batch, stats>>
  BY <1>1, <1>2, <1>3, <1>4, <1>5, NoTally DEF Reads
<1>6. CASE Coming(h) \in Garbled \ Blank /\ Tally(h, {"received", "failed"}) /\ UNCHANGED pc
  <2>1. Adds(h, {"received", "failed"})
    BY <1>6, TallyEffect DEF Counter
  <2> QED
    BY <1>1, <1>2, <1>3, <1>4, <1>6, <2>1 DEF Reads
<1>7. CASE /\ Coming(h) \notin Blank \cup Garbled /\ MissingCenter(Coming(h))
           /\ Tally(h, {"received", "unmapped"}) /\ UNCHANGED pc
  <2>1. Adds(h, {"received", "unmapped"})
    BY <1>7, TallyEffect DEF Counter
  <2> QED
    BY <1>1, <1>2, <1>3, <1>4, <1>7, <2>1 DEF Reads, MissingCenter
<1>8. CASE /\ Coming(h) \notin Blank \cup Garbled /\ ~MissingCenter(Coming(h))
           /\ Tally(h, {"received"}) /\ pc' = [pc EXCEPT ![h] = "lookup"]
  <2>1. Adds(h, {"received"})
    BY <1>8, TallyEffect DEF Counter
  <2> QED
    BY <1>1, <1>2, <1>3, <1>8, <2>1 DEF Reads, MissingCenter
<1>9. \/ Coming(h) \in Blank /\ UNCHANGED <<pc, batch, stats>>
      \/ Coming(h) \in Garbled \ Blank /\ Tally(h, {"received", "failed"}) /\ UNCHANGED pc
      \/ /\ Coming(h) \notin Blank \cup Garbled /\ MissingCenter(Coming(h))
         /\ Tally(h, {"received", "unmapped"}) /\ UNCHANGED pc
      \/ /\ Coming(h) \notin Blank \cup Garbled /\ ~MissingCenter(Coming(h))
         /\ Tally(h, {"received"}) /\ pc' = [pc EXCEPT ![h] = "lookup"]
  BY DEF NextLine, Coming
<1> QED
  BY <1>5, <1>6, <1>7, <1>8, <1>9

\* What the other steps of a handler do.
LEMMA WorkEffect ==
  ASSUME TypeOK, NEW h \in Handlers
  PROVE  /\ Lookup(h) => /\ pc[h] = "lookup" /\ UNCHANGED <<startup, outside, faults>>
                         /\ \/ /\ CenterOf[Line(h)] \in seeded
                               /\ Stays(h, "save", {"enriched"})
                            \/ /\ CenterOf[Line(h)] \notin seeded
                               /\ Stays(h, "next", {"unmapped"})
         /\ Save(h) => /\ pc[h] = "save" /\ UNCHANGED <<startup, published, faults>>
                       /\ Stays(h, "publish", {}) /\ SaveItem(h)
         /\ Publish(h) => /\ pc[h] = "publish" /\ UNCHANGED <<startup, stored, faults>>
                          /\ Stays(h, "next", {"published"}) /\ Emit(h)
         /\ Answer(h) => /\ pc[h] = "next" /\ pc' = [pc EXCEPT ![h] = "idle"]
                         /\ body' = [body EXCEPT ![h] = NoBody]
                         /\ UNCHANGED <<startup, posted, pos, outside, faults>>
                         /\ Adds(h, {})
         /\ LookupFails(h) => /\ pc[h] = "lookup" /\ UNCHANGED <<startup, outside>>
                              /\ Fault /\ Stays(h, "next", {"failed"})
         /\ SaveFails(h) => /\ pc[h] = "save" /\ UNCHANGED <<startup, published>>
                            /\ SaveItem(h) \/ UNCHANGED stored
                            /\ Fault /\ Stays(h, "next", {"failed"})
         /\ PublishFails(h) => /\ pc[h] = "publish" /\ UNCHANGED <<startup, stored>>
                               /\ Emit(h) \/ UNCHANGED published
                               /\ Fault /\ Stays(h, "next", {"failed"})
<1>1. \A C \in SUBSET Counter : Tally(h, C) => Adds(h, C)
  BY TallyEffect
<1>2. {"enriched"} \in SUBSET Counter /\ {"unmapped"} \in SUBSET Counter
      /\ {"published"} \in SUBSET Counter /\ {"failed"} \in SUBSET Counter
  BY DEF Counter
<1>3. UNCHANGED <<batch, stats>> => Adds(h, {})
  BY NoTally
<1> HIDE DEF Adds
<1>4. ASSUME Lookup(h)
      PROVE  /\ pc[h] = "lookup" /\ UNCHANGED <<startup, outside, faults>>
             /\ \/ CenterOf[Line(h)] \in seeded /\ Stays(h, "save", {"enriched"})
                \/ CenterOf[Line(h)] \notin seeded /\ Stays(h, "next", {"unmapped"})
  BY <1>1, <1>2, <1>4 DEF Lookup, Stays
<1>5. ASSUME Save(h)
      PROVE  /\ pc[h] = "save" /\ UNCHANGED <<startup, published, faults>>
             /\ Stays(h, "publish", {}) /\ SaveItem(h)
  BY <1>3, <1>5 DEF Save, Stays
<1>6. ASSUME Publish(h)
      PROVE  /\ pc[h] = "publish" /\ UNCHANGED <<startup, stored, faults>>
             /\ Stays(h, "next", {"published"}) /\ Emit(h)
  BY <1>1, <1>2, <1>6 DEF Publish, Stays
<1>7. ASSUME Answer(h)
      PROVE  /\ pc[h] = "next" /\ pc' = [pc EXCEPT ![h] = "idle"]
             /\ body' = [body EXCEPT ![h] = NoBody]
             /\ UNCHANGED <<startup, posted, pos, outside, faults>>
             /\ Adds(h, {})
  BY <1>3, <1>7 DEF Answer, AtEnd
<1>8. ASSUME LookupFails(h)
      PROVE  /\ pc[h] = "lookup" /\ UNCHANGED <<startup, outside>>
             /\ Fault /\ Stays(h, "next", {"failed"})
  BY <1>1, <1>2, <1>8 DEF LookupFails, Fail, Stays
<1>9. ASSUME SaveFails(h)
      PROVE  /\ pc[h] = "save" /\ UNCHANGED <<startup, published>>
             /\ SaveItem(h) \/ UNCHANGED stored
             /\ Fault /\ Stays(h, "next", {"failed"})
  BY <1>1, <1>2, <1>9 DEF SaveFails, SaveFailure, Fail, Stays
<1>10. ASSUME PublishFails(h)
       PROVE  /\ pc[h] = "publish" /\ UNCHANGED <<startup, stored>>
              /\ Emit(h) \/ UNCHANGED published
              /\ Fault /\ Stays(h, "next", {"failed"})
  BY <1>1, <1>2, <1>10 DEF PublishFails, PublishFailure, Fail, Stays
<1> QED
  BY <1>4, <1>5, <1>6, <1>7, <1>8, <1>9, <1>10

\* Storing a line keeps the store one of lines, and what was there is there.
LEMMA SaveProperties ==
  ASSUME TypeOK, NEW h \in Handlers, Line(h) \in Lines, SaveItem(h)
  PROVE  /\ stored' \in [Ids -> Lines \cup {NoLine}]
         /\ StoreGrows
         /\ stored'[ItemId[Line(h)]] # NoLine
<1>1. stored \in [Ids -> Lines \cup {NoLine}] /\ ItemId[Line(h)] \in Ids
  BY DEF TypeOK
<1>2. stored' = [stored EXCEPT ![ItemId[Line(h)]] = Line(h)]
  BY DEF SaveItem
<1> QED
  BY <1>1, <1>2 DEF StoreGrows

\* A step that finishes with the line in hand, or goes on with it.
LEMMA StaysShape ==
  ASSUME TypeOK, ItemInHand, NEW h \in Handlers, InWork(h), UNCHANGED startup,
         NEW label \in {"next", "save", "publish"}, NEW C, Stays(h, label, C),
         stored' \in [Ids -> Lines \cup {NoLine}], StoreGrows,
         published' \in [Items -> Nat], faults' \in 0..MaxFaults,
         label # "next" => CenterOf[Line(h)] \in Centers,
         label = "publish" => stored'[ItemId[Line(h)]] # NoLine
  PROVE  TypeOK' /\ ItemInHand'
<1>1. /\ pc' = [pc EXCEPT ![h] = label] /\ body' = body /\ pos' = pos
      /\ posted' = posted /\ up' = up /\ pc[h] # "idle"
      /\ batch' \in [Handlers -> [Counter -> Nat]] /\ stats' \in [Counter -> Nat]
  BY DEF Stays, Adds
<1>2. \A g \in Handlers : Line(g)' = Line(g)
  BY <1>1 DEF Line
<1>3. \A g \in Handlers : InWork(g)' => InWork(g)
  BY <1>1 DEF InWork, TypeOK
<1>4. TypeOK'
  BY <1>1, <1>2, <1>3 DEF TypeOK
<1>5. ASSUME NEW g \in Handlers
      PROVE  /\ InWork(g)' => pos'[g] \in 1..Len(Batch[body'[g]]) /\ Line(g)' \in Items
             /\ pc'[g] \in {"save", "publish"} => CenterOf[Line(g)'] \in Centers
             /\ pc'[g] = "publish" => stored'[ItemId[Line(g)']] # NoLine
  <2>1. InWork(g)' => pos'[g] \in 1..Len(Batch[body'[g]]) /\ Line(g)' \in Items
    BY <1>1, <1>2, <1>3 DEF ItemInHand
  <2>2. CASE g = h
    BY <1>1, <1>2, <2>1, <2>2 DEF TypeOK
  <2>3. CASE g # h
    <3>1. pc'[g] = pc[g]
      BY <1>1, <2>3 DEF TypeOK
    <3>2. pc[g] = "publish" => ItemId[Line(g)] \in Ids
      BY DEF ItemInHand, InWork, Items
    <3> QED
      BY <1>2, <2>1, <3>1, <3>2 DEF ItemInHand, StoreGrows
  <2> QED
    BY <2>2, <2>3
<1> QED
  BY <1>4, <1>5 DEF ItemInHand

\* A step that reads a line.
LEMMA ReadsShape ==
  ASSUME TypeOK, ItemInHand, NEW h \in Handlers,
         UNCHANGED <<startup, outside, faults>>,
         NEW label \in {"next", "lookup"}, NEW C, Reads(h, label, C),
         label = "lookup" => Coming(h) \in Items /\ CenterOf[Coming(h)] # NoTag
  PROVE  TypeOK' /\ ItemInHand'
<1>1. /\ pc' = [pc EXCEPT ![h] = label] /\ body' = body
      /\ pos' = [pos EXCEPT ![h] = @ + 1] /\ pos[h] < Len(Batch[body[h]])
      /\ posted' = posted /\ up' = up /\ pc[h] = "next"
      /\ batch' \in [Handlers -> [Counter -> Nat]] /\ stats' \in [Counter -> Nat]
  BY DEF Reads, Adds
<1>2. pos[h] \in Nat /\ Len(Batch[body[h]]) \in Nat
  BY <1>1, LineProperties
<1>3. /\ pos'[h] = pos[h] + 1 /\ pos'[h] \in 1..Len(Batch[body[h]])
      /\ Line(h)' = Coming(h) /\ pc'[h] = label
  BY <1>1, <1>2 DEF TypeOK, Line, Coming
<1>4. \A g \in Handlers \ {h} : pc'[g] = pc[g] /\ pos'[g] = pos[g] /\ Line(g)' = Line(g)
  BY <1>1 DEF TypeOK, Line
<1>5. /\ \A g \in Handlers :
           pc'[g] # "idle" => up' /\ body'[g] # NoBody /\ pos'[g] <= Len(Batch[body'[g]])
      /\ \A g \in Handlers : InWork(g)' => CenterOf[Line(g)'] # NoTag
  <2> SUFFICES ASSUME NEW g \in Handlers
               PROVE  /\ pc'[g] # "idle" => up' /\ body'[g] # NoBody
                                              /\ pos'[g] <= Len(Batch[body'[g]])
                      /\ InWork(g)' => CenterOf[Line(g)'] # NoTag
    OBVIOUS
  <2>1. CASE g = h
    BY <1>1, <1>2, <1>3, <2>1 DEF TypeOK, InWork
  <2>2. CASE g # h
    BY <1>1, <1>4, <2>2 DEF TypeOK, InWork
  <2> QED
    BY <2>1, <2>2
<1>6. TypeOK'
  <2>1. pos' \in [Handlers -> Nat]
    BY <1>1, <1>2 DEF TypeOK
  <2> QED
    BY <1>1, <1>5, <2>1 DEF TypeOK
<1>7. ASSUME NEW g \in Handlers
      PROVE  /\ InWork(g)' => pos'[g] \in 1..Len(Batch[body'[g]]) /\ Line(g)' \in Items
             /\ pc'[g] \in {"save", "publish"} => CenterOf[Line(g)'] \in Centers
             /\ pc'[g] = "publish" => stored'[ItemId[Line(g)']] # NoLine
  <2>1. CASE g = h
    BY <1>1, <1>3, <2>1 DEF InWork
  <2>2. CASE g # h
    BY <1>1, <1>4, <2>2 DEF InWork, ItemInHand
  <2> QED
    BY <2>1, <2>2
<1> QED
  BY <1>6, <1>7 DEF ItemInHand

\* Types, seed and work in hand survive every step.
LEMMA ShapeStep ==
  ASSUME Shape, [Next]_vars
  PROVE  Shape'
<1>0. TypeOK /\ SeedInv /\ ItemInHand
  BY DEF Shape
<1>1. SeedInv'
  BY <1>0, SeedStep
<1> SUFFICES TypeOK' /\ ItemInHand'
  BY <1>1 DEF Shape
<1>2. ASSUME UNCHANGED <<pc, body, pos, batch, stats, stored, published, posted>>,
             seeded' \subseteq Centers, seedPos' \in 0..Len(SeedFile), up' \in BOOLEAN,
             up => up', faults' \in 0..MaxFaults
      PROVE  TypeOK' /\ ItemInHand'
  BY <1>0, <1>2 DEF TypeOK, ItemInHand, InWork, Line
<1>3. ASSUME Boot \/ SeedCenterFails PROVE TypeOK' /\ ItemInHand'
  <2>1. Len(SeedFile) \in Nat /\ seedPos \in 0..Len(SeedFile) /\ seeded' \subseteq Centers
    BY <1>0, <1>1 DEF TypeOK, SeedInv
  <2>2. seedPos' \in 0..Len(SeedFile)
    BY <1>3, <2>1 DEF Boot, SeedCenter, Listen, SeedCenterFails
  <2>5. up' \in BOOLEAN /\ (up => up')
    <3>1. up \in BOOLEAN
      BY <1>0 DEF TypeOK
    <3> QED
      BY <1>3, <3>1 DEF Boot, SeedCenter, Listen, SeedCenterFails
  <2>3. faults' \in 0..MaxFaults
    BY <1>0, <1>3 DEF Boot, SeedCenter, Listen, SeedCenterFails, Fault, TypeOK
  <2>4. UNCHANGED <<pc, body, pos, batch, stats, stored, published, posted>>
    BY <1>3 DEF Boot, SeedCenter, Listen, SeedCenterFails
  <2> QED
    BY <1>2, <2>1, <2>2, <2>3, <2>4, <2>5
<1>4. ASSUME Crash PROVE TypeOK' /\ ItemInHand'
  <2>1. /\ pc' = [g \in Handlers |-> "idle"] /\ body' = [g \in Handlers |-> NoBody]
        /\ pos' = [g \in Handlers |-> 0] /\ batch' = [g \in Handlers |-> Zero]
        /\ stats' = Zero /\ seedPos' = 0 /\ up' = FALSE
        /\ UNCHANGED <<seeded, posted, stored, published>>
    BY <1>4 DEF Crash
  <2>2. Zero \in [Counter -> Nat]
    BY DEF Zero
  <2>3. faults' \in 0..MaxFaults
    BY <1>0, <1>4 DEF Crash, Fault, TypeOK
  <2>4. ItemInHand'
    BY <2>1 DEF ItemInHand, InWork
  <2>5. 0 \in 0..Len(SeedFile)
    OBVIOUS
  <2> QED
    BY <1>0, <2>1, <2>2, <2>3, <2>4, <2>5 DEF TypeOK, InWork
<1>5. ASSUME NEW h \in Handlers, NEW b \in Bodies, Post(h, b)
      PROVE  TypeOK' /\ ItemInHand'
  <2>1. /\ pc' = [pc EXCEPT ![h] = "next"] /\ body' = [body EXCEPT ![h] = b]
        /\ pos' = [pos EXCEPT ![h] = 0] /\ batch' = [batch EXCEPT ![h] = Zero]
        /\ posted[b] < MaxPosts /\ posted' = [posted EXCEPT ![b] = @ + 1] /\ up
        /\ UNCHANGED <<seeded, seedPos, up, stats, stored, published, faults>>
    BY <1>5 DEF Post
  <2>2. Zero \in [Counter -> Nat] /\ 0 <= Len(Batch[b]) /\ b # NoBody
    BY DEF Zero
  <2>3. \A g \in Handlers \ {h} :
          pc'[g] = pc[g] /\ body'[g] = body[g] /\ pos'[g] = pos[g] /\ Line(g)' = Line(g)
    BY <1>0, <2>1 DEF TypeOK, Line
  <2>4. pc'[h] = "next" /\ body'[h] = b /\ pos'[h] = 0
    BY <1>0, <2>1 DEF TypeOK
  <2>5. \A g \in Handlers :
          /\ pc'[g] # "idle" => up' /\ body'[g] # NoBody /\ pos'[g] <= Len(Batch[body'[g]])
          /\ InWork(g)' => g # h /\ InWork(g)
    BY <1>0, <2>1, <2>2, <2>3, <2>4 DEF TypeOK, InWork
  <2>6. ItemInHand'
    BY <1>0, <2>1, <2>3, <2>4, <2>5 DEF ItemInHand
  <2>7. posted' \in [Bodies -> 0..MaxPosts]
    BY <1>0, <2>1 DEF TypeOK
  <2>8. /\ batch' \in [Handlers -> [Counter -> Nat]] /\ pos' \in [Handlers -> Nat]
        /\ pc' \in [Handlers -> PCs] /\ body' \in [Handlers -> Bodies \cup {NoBody}]
    BY <1>0, <2>1, <2>2 DEF TypeOK, PCs
  <2>9. \A g \in Handlers : InWork(g)' => CenterOf[Line(g)'] # NoTag
    BY <1>0, <2>3, <2>5 DEF TypeOK
  <2> QED
    BY <1>0, <2>1, <2>5, <2>6, <2>7, <2>8, <2>9 DEF TypeOK, PCs
<1>6. ASSUME NEW h \in Handlers, NextLine(h) PROVE TypeOK' /\ ItemInHand'
  <2>1. \E label \in {"next", "lookup"} : \E C \in SUBSET Counter :
          /\ Reads(h, label, C)
          /\ label = "lookup" => Coming(h) \in Items /\ CenterOf[Coming(h)] # NoTag
    BY <1>0, <1>6, NextLineEffect DEF Items, Counter
  <2> QED
    BY <1>0, <1>6, <2>1, NextLineEffect, ReadsShape
<1>7. /\ published \in [Items -> Nat] /\ stored \in [Ids -> Lines \cup {NoLine}]
      /\ faults \in 0..MaxFaults
  BY <1>0 DEF TypeOK
<1>8. ASSUME NEW h \in Handlers, InWork(h)
      PROVE  Line(h) \in Lines /\ (Emit(h) => published' \in [Items -> Nat])
  BY <1>0, <1>7, <1>8 DEF ItemInHand, Items, Emit
<1>9. Fault => faults' \in 0..MaxFaults
  BY <1>7 DEF Fault
<1>10. UNCHANGED stored => stored' \in [Ids -> Lines \cup {NoLine}] /\ StoreGrows
  BY <1>7 DEF StoreGrows
<1>11. ASSUME NEW h \in Handlers, Lookup(h) PROVE TypeOK' /\ ItemInHand'
  <2>1. /\ pc[h] = "lookup" /\ UNCHANGED <<startup, outside, faults>>
        /\ \/ CenterOf[Line(h)] \in seeded /\ Stays(h, "save", {"enriched"})
           \/ CenterOf[Line(h)] \notin seeded /\ Stays(h, "next", {"unmapped"})
    BY <1>0, <1>11, WorkEffect
  <2>2. InWork(h) /\ seeded \subseteq Centers
    BY <1>0, <2>1 DEF InWork, SeedInv
  <2> QED
    BY <1>0, <1>7, <1>10, <2>1, <2>2, StaysShape
<1>12. ASSUME NEW h \in Handlers, Save(h) PROVE TypeOK' /\ ItemInHand'
  <2>1. /\ pc[h] = "save" /\ UNCHANGED <<startup, published, faults>>
        /\ Stays(h, "publish", {}) /\ SaveItem(h)
    BY <1>0, <1>12, WorkEffect
  <2>2. InWork(h) /\ CenterOf[Line(h)] \in Centers
    BY <1>0, <2>1 DEF InWork, ItemInHand
  <2>3. /\ stored' \in [Ids -> Lines \cup {NoLine}] /\ StoreGrows
        /\ stored'[ItemId[Line(h)]] # NoLine
    BY <1>0, <1>8, <2>1, <2>2, SaveProperties
  <2> QED
    BY <1>0, <1>7, <2>1, <2>2, <2>3, StaysShape
<1>13. ASSUME NEW h \in Handlers, Publish(h) PROVE TypeOK' /\ ItemInHand'
  <2>1. /\ pc[h] = "publish" /\ UNCHANGED <<startup, stored, faults>>
        /\ Stays(h, "next", {"published"}) /\ Emit(h)
    BY <1>0, <1>13, WorkEffect
  <2>2. InWork(h)
    BY <2>1 DEF InWork
  <2> QED
    BY <1>0, <1>7, <1>8, <1>10, <2>1, <2>2, StaysShape
<1>14. ASSUME NEW h \in Handlers, Answer(h) PROVE TypeOK' /\ ItemInHand'
  <2>1. /\ pc[h] = "next" /\ pc' = [pc EXCEPT ![h] = "idle"]
        /\ body' = [body EXCEPT ![h] = NoBody]
        /\ UNCHANGED <<startup, posted, pos, outside, faults>> /\ Adds(h, {})
    BY <1>0, <1>14, WorkEffect
  <2>2. \A g \in Handlers \ {h} :
          pc'[g] = pc[g] /\ body'[g] = body[g] /\ pos'[g] = pos[g] /\ Line(g)' = Line(g)
    BY <1>0, <2>1 DEF TypeOK, Line
  <2>3. \A g \in Handlers :
          /\ pc'[g] # "idle" => up' /\ body'[g] # NoBody /\ pos'[g] <= Len(Batch[body'[g]])
          /\ InWork(g)' => g # h /\ InWork(g)
    BY <1>0, <2>1, <2>2 DEF TypeOK, InWork
  <2>4. ItemInHand'
    BY <1>0, <2>1, <2>2, <2>3 DEF ItemInHand, InWork, TypeOK
  <2>5. /\ batch' \in [Handlers -> [Counter -> Nat]] /\ stats' \in [Counter -> Nat]
        /\ pc' \in [Handlers -> PCs] /\ body' \in [Handlers -> Bodies \cup {NoBody}]
    BY <1>0, <2>1 DEF TypeOK, PCs, Adds
  <2>6. \A g \in Handlers : InWork(g)' => CenterOf[Line(g)'] # NoTag
    BY <1>0, <2>2, <2>3 DEF TypeOK
  <2> QED
    BY <1>0, <2>1, <2>3, <2>4, <2>5, <2>6 DEF TypeOK, PCs
<1>15. ASSUME NEW h \in Handlers, LookupFails(h) PROVE TypeOK' /\ ItemInHand'
  <2>1. /\ pc[h] = "lookup" /\ UNCHANGED <<startup, outside>>
        /\ Fault /\ Stays(h, "next", {"failed"})
    BY <1>0, <1>15, WorkEffect
  <2>2. InWork(h)
    BY <2>1 DEF InWork
  <2> QED
    BY <1>0, <1>7, <1>9, <1>10, <2>1, <2>2, StaysShape
<1>16. ASSUME NEW h \in Handlers, SaveFails(h) PROVE TypeOK' /\ ItemInHand'
  <2>1. /\ pc[h] = "save" /\ UNCHANGED <<startup, published>>
        /\ SaveItem(h) \/ UNCHANGED stored
        /\ Fault /\ Stays(h, "next", {"failed"})
    BY <1>0, <1>16, WorkEffect
  <2>2. InWork(h)
    BY <2>1 DEF InWork
  <2>3. stored' \in [Ids -> Lines \cup {NoLine}] /\ StoreGrows
    BY <1>0, <1>8, <1>10, <2>1, <2>2, SaveProperties
  <2> QED
    BY <1>0, <1>7, <1>9, <2>1, <2>2, <2>3, StaysShape
<1>17. ASSUME NEW h \in Handlers, PublishFails(h) PROVE TypeOK' /\ ItemInHand'
  <2>1. /\ pc[h] = "publish" /\ UNCHANGED <<startup, stored>>
        /\ Emit(h) \/ UNCHANGED published
        /\ Fault /\ Stays(h, "next", {"failed"})
    BY <1>0, <1>17, WorkEffect
  <2>2. InWork(h)
    BY <2>1 DEF InWork
  <2> QED
    BY <1>0, <1>7, <1>8, <1>9, <1>10, <2>1, <2>2, StaysShape
<1>18. ASSUME UNCHANGED vars PROVE TypeOK' /\ ItemInHand'
  BY <1>0, <1>2, <1>18 DEF vars, TypeOK
<1> QED
  BY <1>3, <1>4, <1>5, <1>6, <1>11, <1>12, <1>13, <1>14, <1>15, <1>16, <1>17,
     <1>18 DEF Next, Step

(***************************************************************************)
(* The sums                                                                *)
(***************************************************************************)
LEMMA WorkingIsFinite == IsFiniteSet(Working) /\ Cardinality(Working) \in Nat
<1>1. Working \in SUBSET Handlers
  BY DEF Working
<1> QED
  BY <1>1, HandlersAssumption, FS_Subset, FS_CardinalityType

\* A handler takes a line, settles it, or does neither.
LEMMA WorkingMoves ==
  ASSUME TypeOK, NEW h \in Handlers, NEW label \in PCs, pc' = [pc EXCEPT ![h] = label]
  PROVE  /\ ~InWork(h) /\ label \in {"lookup", "save", "publish"} =>
              Cardinality(Working') = Cardinality(Working) + 1
         /\ InWork(h) /\ label \in {"idle", "next"} =>
              Cardinality(Working') = Cardinality(Working) - 1
         /\ (InWork(h) <=> label \in {"lookup", "save", "publish"}) =>
              Working' = Working
<1>1. /\ pc'[h] = label /\ \A g \in Handlers \ {h} : pc'[g] = pc[g]
  BY DEF TypeOK
<1>2. InWork(h)' <=> label \in {"lookup", "save", "publish"}
  BY <1>1 DEF InWork
<1>3. \A g \in Handlers \ {h} : InWork(g)' <=> InWork(g)
  BY <1>1 DEF InWork
<1>4. ~InWork(h) /\ InWork(h)' => h \notin Working /\ Working' = Working \cup {h}
  BY <1>3 DEF Working
<1>5. InWork(h) /\ ~InWork(h)' => h \in Working /\ Working' = Working \ {h}
  BY <1>3 DEF Working
<1>6. (InWork(h) <=> InWork(h)') => Working' = Working
  BY <1>3 DEF Working
<1> QED
  BY <1>2, <1>4, <1>5, <1>6, WorkingIsFinite, OneMore, OneLess DEF PCs

\* The counters as numbers.
LEMMA CounterTypes ==
  ASSUME TypeOK
  PROVE  /\ \A c \in {"received", "enriched", "published", "failed", "unmapped"} :
              stats[c] \in Nat /\ \A h \in Handlers : batch[h][c] \in Nat
BY DEF TypeOK, Counter

\* What Adds says, counter by counter.
LEMMA AddsEach ==
  ASSUME TypeOK, NEW h \in Handlers, NEW C \in SUBSET Counter, Adds(h, C), NEW c \in Counter
  PROVE  /\ c \in C => batch'[h][c] = batch[h][c] + 1 /\ stats'[c] = stats[c] + 1
         /\ c \notin C => batch'[h][c] = batch[h][c] /\ stats'[c] = stats[c]
BY DEF Adds

\* /stats of the process: each step settles a line where it takes one away.
LEMMA BalanceStep ==
  ASSUME TypeOK, Balanced, [Next]_vars
  PROVE  Balanced'
<1> USE DEF PCs
<1>1. ASSUME UNCHANGED <<pc, stats>> PROVE Balanced'
  BY <1>1 DEF Balanced, Working, InWork
<1>2. /\ stats["received"] \in Nat /\ stats["published"] \in Nat
      /\ stats["failed"] \in Nat /\ stats["unmapped"] \in Nat
      /\ Cardinality(Working) \in Nat
  BY CounterTypes, WorkingIsFinite
<1>3. ASSUME Crash PROVE Balanced'
  <2>1. /\ stats'["received"] = 0 /\ stats'["published"] = 0
        /\ stats'["failed"] = 0 /\ stats'["unmapped"] = 0
    BY <1>3 DEF Crash, Zero, Counter
  <2>2. Working' = {}
    BY <1>3 DEF Crash, Working, InWork
  <2>3. Cardinality(Working') = 0
    BY <2>2, FS_EmptySet
  <2> QED
    BY <2>1, <2>3 DEF Balanced
<1>4. ASSUME NEW h \in Handlers, NEW b \in Bodies, Post(h, b) PROVE Balanced'
  <2>1. pc' = [pc EXCEPT ![h] = "next"] /\ ~InWork(h) /\ stats' = stats
    BY <1>4 DEF Post, InWork
  <2> QED
    BY <2>1, WorkingMoves DEF Balanced
<1>5. ASSUME NEW h \in Handlers, NEW x \in {"failed", "unmapped"},
             Adds(h, {"received", x}), pc[h] = "next", pc' = [pc EXCEPT ![h] = "next"]
      PROVE  Balanced'
  <2>1. Working' = Working
    BY <1>5, WorkingMoves DEF InWork
  <2>2. /\ stats'["received"] = stats["received"] + 1
        /\ stats'["published"] = stats["published"]
        /\ stats'["failed"] = stats["failed"] + IF x = "failed" THEN 1 ELSE 0
        /\ stats'["unmapped"] = stats["unmapped"] + IF x = "failed" THEN 0 ELSE 1
    <3>1. /\ "received" \in Counter /\ "published" \in Counter /\ "failed" \in Counter
          /\ "unmapped" \in Counter /\ {"received", x} \in SUBSET Counter
      BY DEF Counter
    <3>2. /\ stats'["received"] = stats["received"] + 1
          /\ stats'["published"] = stats["published"]
      BY <1>5, <3>1, AddsEach
    <3>3. CASE x = "failed"
      <4>1. stats'["failed"] = stats["failed"] + 1 /\ stats'["unmapped"] = stats["unmapped"]
        BY <1>5, <3>1, <3>3, AddsEach
      <4> QED
        BY <1>2, <3>2, <3>3, <4>1
    <3>4. CASE x = "unmapped"
      <4>1. stats'["unmapped"] = stats["unmapped"] + 1 /\ stats'["failed"] = stats["failed"]
        BY <1>5, <3>1, <3>4, AddsEach
      <4> QED
        BY <1>2, <3>2, <3>4, <4>1
    <3> QED
      BY <1>5, <3>3, <3>4
  <2> QED
    BY <1>2, <1>5, <2>1, <2>2 DEF Balanced
<1>6. ASSUME NEW h \in Handlers, Adds(h, {"received"}), pc[h] = "next",
             pc' = [pc EXCEPT ![h] = "lookup"]
      PROVE  Balanced'
  <2>1. Cardinality(Working') = Cardinality(Working) + 1
    BY <1>6, WorkingMoves DEF InWork
  <2>2. /\ stats'["received"] = stats["received"] + 1
        /\ stats'["published"] = stats["published"]
        /\ stats'["failed"] = stats["failed"]
        /\ stats'["unmapped"] = stats["unmapped"]
    BY <1>6 DEF Adds, Counter
  <2> QED
    BY <1>2, <2>1, <2>2 DEF Balanced
<1>7. ASSUME NEW h \in Handlers, NEW x \in {"published", "failed", "unmapped"},
             Adds(h, {x}), InWork(h), pc' = [pc EXCEPT ![h] = "next"]
      PROVE  Balanced'
  <2>1. Cardinality(Working') = Cardinality(Working) - 1
    BY <1>7, WorkingMoves
  <2>2. /\ stats'["received"] = stats["received"]
        /\ stats'["published"] = stats["published"] + IF x = "published" THEN 1 ELSE 0
        /\ stats'["failed"] = stats["failed"] + IF x = "failed" THEN 1 ELSE 0
        /\ stats'["unmapped"] = stats["unmapped"] + IF x = "unmapped" THEN 1 ELSE 0
    <3>1. /\ "received" \in Counter /\ "published" \in Counter /\ "failed" \in Counter
          /\ "unmapped" \in Counter /\ {x} \in SUBSET Counter
      BY DEF Counter
    <3>2. \A c \in Counter : /\ c = x => stats'[c] = stats[c] + 1
                             /\ c # x => stats'[c] = stats[c]
      BY <1>7, <3>1, AddsEach
    <3>3. stats'["received"] = stats["received"]
      BY <1>7, <3>1, <3>2
    <3>4. stats'["published"] = stats["published"] + IF x = "published" THEN 1 ELSE 0
      BY <1>2, <3>1, <3>2
    <3>5. stats'["failed"] = stats["failed"] + IF x = "failed" THEN 1 ELSE 0
      BY <1>2, <3>1, <3>2
    <3>6. stats'["unmapped"] = stats["unmapped"] + IF x = "unmapped" THEN 1 ELSE 0
      BY <1>2, <3>1, <3>2
    <3> QED
      BY <3>3, <3>4, <3>5, <3>6
  <2> QED
    BY <1>2, <1>7, <2>1, <2>2 DEF Balanced
<1>8. ASSUME NEW h \in Handlers, NEW C \in {{}, {"enriched"}}, Adds(h, C),
             NEW label \in PCs, pc' = [pc EXCEPT ![h] = label],
             InWork(h) <=> label \in {"lookup", "save", "publish"}
      PROVE  Balanced'
  <2>1. Working' = Working
    BY <1>8, WorkingMoves
  <2>2. /\ stats'["received"] = stats["received"]
        /\ stats'["published"] = stats["published"]
        /\ stats'["failed"] = stats["failed"]
        /\ stats'["unmapped"] = stats["unmapped"]
    BY <1>8 DEF Adds, Counter
  <2> QED
    BY <2>1, <2>2 DEF Balanced
<1>9. ASSUME NEW h \in Handlers, NextLine(h) PROVE Balanced'
  <2>1. CASE Reads(h, "next", {})
    BY <1>8, <2>1 DEF Reads, InWork
  <2>2. CASE \E x \in {"failed", "unmapped"} : Reads(h, "next", {"received", x})
    BY <1>5, <2>2 DEF Reads
  <2>3. CASE Reads(h, "lookup", {"received"})
    BY <1>6, <2>3 DEF Reads
  <2> QED
    BY <1>9, <2>1, <2>2, <2>3, NextLineEffect
<1>10. ASSUME NEW h \in Handlers, Lookup(h) \/ Save(h) \/ Publish(h) \/ Answer(h)
                                    \/ LookupFails(h) \/ SaveFails(h) \/ PublishFails(h)
       PROVE  Balanced'
  <2>1. CASE Lookup(h)
    BY <1>7, <1>8, <2>1, WorkEffect DEF Stays, InWork
  <2>2. CASE Save(h)
    BY <1>8, <2>2, WorkEffect DEF Stays, InWork
  <2>3. CASE Publish(h)
    BY <1>7, <2>3, WorkEffect DEF Stays, InWork
  <2>4. CASE Answer(h)
    BY <1>8, <2>4, WorkEffect DEF Stays, InWork
  <2>5. CASE LookupFails(h) \/ SaveFails(h) \/ PublishFails(h)
    BY <1>7, <2>5, WorkEffect DEF Stays, InWork
  <2> QED
    BY <1>10, <2>1, <2>2, <2>3, <2>4, <2>5
<1>11. Boot \/ SeedCenterFails \/ UNCHANGED vars => Balanced'
  BY <1>1 DEF Boot, SeedCenter, Listen, SeedCenterFails, vars
<1> QED
  BY <1>3, <1>4, <1>9, <1>10, <1>11 DEF Next, Step

\* The batches of the other handlers are not touched.
LEMMA TallyFrame ==
  ASSUME TypeOK, NEW g \in Handlers, Tallied(g), pc'[g] = pc[g], body'[g] = body[g],
         pos'[g] = pos[g], batch'[g] = batch[g]
  PROVE  Tallied(g)'
BY DEF Tallied, InWork, Line, NotBlank, UnownedAt

\* The summary of the batch a handler goes on with, on the same line.
LEMMA TallyStays ==
  ASSUME TypeOK, ItemInHand, SeedInv, NEW h \in Handlers, Tallied(h),
         \/ pc[h] = "lookup" /\ Stays(h, "save", {"enriched"})
         \/ /\ pc[h] = "lookup" /\ CenterOf[Line(h)] \notin seeded
            /\ Stays(h, "next", {"unmapped"})
         \/ pc[h] = "save" /\ Stays(h, "publish", {})
         \/ pc[h] = "publish" /\ Stays(h, "next", {"published"})
         \/ InWork(h) /\ Stays(h, "next", {"failed"})
  PROVE  Tallied(h)'
<1>1. /\ InWork(h) /\ pc[h] # "idle" /\ pos[h] \in Nat /\ up
      /\ Line(h) \in Items
  BY DEF InWork, ItemInHand, TypeOK
<1>2. /\ body' = body /\ pos' = pos
      /\ NotBlank(body[h], pos[h])' = NotBlank(body[h], pos[h])
      /\ UnownedAt(body[h], pos[h])' = UnownedAt(body[h], pos[h])
      /\ Line(h)' = Line(h)
  BY DEF Stays, NotBlank, UnownedAt, Line
<1> DEFINE nb == Cardinality(NotBlank(body[h], pos[h]))
<1> DEFINE un == Cardinality(UnownedAt(body[h], pos[h]))
<1> DEFINE r == batch[h]["received"]
<1> DEFINE e == batch[h]["enriched"]
<1> DEFINE p == batch[h]["published"]
<1> DEFINE f == batch[h]["failed"]
<1> DEFINE u == batch[h]["unmapped"]
<1>3. /\ r \in Nat /\ e \in Nat /\ p \in Nat /\ f \in Nat /\ u \in Nat
      /\ nb \in Nat /\ un \in Nat
  BY <1>1, CounterTypes, PlacesAreFinite
<1>4. /\ r = p + f + u + 1 /\ r = nb
      /\ p + (IF pc[h] \in {"save", "publish"} THEN 1 ELSE 0) <= e
      /\ u + (IF pc[h] = "lookup" /\ Unowned(Line(h)) THEN 1 ELSE 0) <= un
  BY <1>1 DEF Tallied
<1>5. /\ {"enriched"} \in SUBSET Counter /\ {"unmapped"} \in SUBSET Counter
      /\ {} \in SUBSET Counter /\ {"published"} \in SUBSET Counter
      /\ {"failed"} \in SUBSET Counter
      /\ "received" \in Counter /\ "enriched" \in Counter /\ "published" \in Counter
      /\ "failed" \in Counter /\ "unmapped" \in Counter
  BY DEF Counter
<1>6. nb' = nb /\ un' = un
  BY <1>2
<1>7. ASSUME NEW label \in PCs, NEW C, Stays(h, label, C) PROVE pc'[h] = label /\ Adds(h, C)
  BY <1>7 DEF Stays, TypeOK
<1>8. Unowned(Line(h)) <=> CenterOf[Line(h)] \notin Centers
  BY <1>1 DEF Unowned, Items
<1>14. Tallied(h)' <=>
         (pc'[h] # "idle" =>
            /\ r' = p' + f' + u' + (IF pc'[h] \in {"lookup", "save", "publish"} THEN 1 ELSE 0)
            /\ r' = nb'
            /\ p' + (IF pc'[h] \in {"save", "publish"} THEN 1 ELSE 0) <= e'
            /\ u' + (IF pc'[h] = "lookup" /\ Unowned(Line(h)') THEN 1 ELSE 0) <= un')
  BY DEF Tallied, InWork
<1> HIDE DEF nb, un, r, e, p, f, u
<1>9. CASE pc[h] = "lookup" /\ Stays(h, "save", {"enriched"})
  <2>1. pc'[h] = "save" /\ Adds(h, {"enriched"})
    BY <1>7, <1>9 DEF PCs
  <2>2. r' = r /\ e' = e + 1 /\ p' = p /\ f' = f /\ u' = u
    BY <1>5, <2>1, AddsEach DEF r, e, p, f, u
  <2>3. /\ r' = p' + f' + u' + 1 /\ r' = nb' /\ p' + 1 <= e' /\ u' + 0 <= un'
    BY <1>3, <1>4, <1>6, <1>9, <2>2
  <2>4. pc'[h] = "save"
    BY ONLY <2>1
  <2> QED
    BY ONLY <1>14, <2>3, <2>4
<1>10. CASE /\ pc[h] = "lookup" /\ CenterOf[Line(h)] \notin seeded
            /\ Stays(h, "next", {"unmapped"})
  <2>1. pc'[h] = "next" /\ Adds(h, {"unmapped"})
    BY <1>7, <1>10 DEF PCs
  <2>2. r' = r /\ e' = e /\ p' = p /\ f' = f /\ u' = u + 1
    BY <1>5, <2>1, AddsEach DEF r, e, p, f, u
  <2>3. Unowned(Line(h))
    BY <1>1, <1>8, <1>10 DEF SeedInv
  <2>4. /\ r' = p' + f' + u' + 0 /\ r' = nb' /\ p' + 0 <= e' /\ u' + 0 <= un'
    BY <1>3, <1>4, <1>6, <1>10, <2>2, <2>3
  <2>5. pc'[h] = "next"
    BY ONLY <2>1
  <2> QED
    BY ONLY <1>14, <2>4, <2>5
<1>11. CASE pc[h] = "save" /\ Stays(h, "publish", {})
  <2>1. pc'[h] = "publish" /\ Adds(h, {})
    BY <1>7, <1>11 DEF PCs
  <2>2. r' = r /\ e' = e /\ p' = p /\ f' = f /\ u' = u
    BY <1>5, <2>1, AddsEach DEF r, e, p, f, u
  <2>3. /\ r' = p' + f' + u' + 1 /\ r' = nb' /\ p' + 1 <= e' /\ u' + 0 <= un'
    BY <1>3, <1>4, <1>6, <1>11, <2>2
  <2>4. pc'[h] = "publish"
    BY ONLY <2>1
  <2> QED
    BY ONLY <1>14, <2>3, <2>4
<1>12. CASE pc[h] = "publish" /\ Stays(h, "next", {"published"})
  <2>1. pc'[h] = "next" /\ Adds(h, {"published"})
    BY <1>7, <1>12 DEF PCs
  <2>2. r' = r /\ e' = e /\ p' = p + 1 /\ f' = f /\ u' = u
    BY <1>5, <2>1, AddsEach DEF r, e, p, f, u
  <2>3. /\ r' = p' + f' + u' + 0 /\ r' = nb' /\ p' + 0 <= e' /\ u' + 0 <= un'
    BY <1>3, <1>4, <1>6, <1>12, <2>2
  <2>4. pc'[h] = "next"
    BY ONLY <2>1
  <2> QED
    BY ONLY <1>14, <2>3, <2>4
<1>13. CASE InWork(h) /\ Stays(h, "next", {"failed"})
  <2>1. pc'[h] = "next" /\ Adds(h, {"failed"})
    BY <1>7, <1>13 DEF PCs
  <2>2. r' = r /\ e' = e /\ p' = p /\ f' = f + 1 /\ u' = u
    BY <1>5, <2>1, AddsEach DEF r, e, p, f, u
  <2>3. /\ r' = p' + f' + u' + 0 /\ r' = nb' /\ p' + 0 <= e' /\ u' + 0 <= un'
    BY <1>3, <1>4, <1>6, <2>2
  <2>4. pc'[h] = "next"
    BY ONLY <2>1
  <2> QED
    BY ONLY <1>14, <2>3, <2>4
<1> QED
  BY <1>9, <1>10, <1>11, <1>12, <1>13

\* The summary of a batch after one line more.
LEMMA TallyReads ==
  ASSUME TypeOK, NEW h \in Handlers, Tallied(h),
         \/ Coming(h) \in Blank /\ Reads(h, "next", {})
         \/ Coming(h) \in Garbled \ Blank /\ Reads(h, "next", {"received", "failed"})
         \/ /\ Coming(h) \notin Blank \cup Garbled /\ CenterOf[Coming(h)] = NoTag
            /\ Reads(h, "next", {"received", "unmapped"})
         \/ /\ Coming(h) \notin Blank \cup Garbled /\ CenterOf[Coming(h)] # NoTag
            /\ Reads(h, "lookup", {"received"})
  PROVE  Tallied(h)'
<1>1. /\ ~InWork(h) /\ pc[h] = "next" /\ pos[h] \in Nat
      /\ body' = body /\ pos' = [pos EXCEPT ![h] = @ + 1]
      /\ batch' \in [Handlers -> [Counter -> Nat]]
  BY DEF InWork, TypeOK, Reads, Adds
<1>2. body'[h] = body[h] /\ pos'[h] = pos[h] + 1 /\ Line(h)' = Coming(h)
  BY <1>1 DEF TypeOK, Line, Coming
<1> DEFINE nb == Cardinality(NotBlank(body[h], pos[h]))
<1> DEFINE un == Cardinality(UnownedAt(body[h], pos[h]))
<1> DEFINE r == batch[h]["received"]
<1> DEFINE e == batch[h]["enriched"]
<1> DEFINE p == batch[h]["published"]
<1> DEFINE f == batch[h]["failed"]
<1> DEFINE u == batch[h]["unmapped"]
<1>3. /\ r \in Nat /\ e \in Nat /\ p \in Nat /\ f \in Nat /\ u \in Nat
      /\ nb \in Nat /\ un \in Nat
  BY <1>1, CounterTypes, PlacesAreFinite
<1>4. r = p + f + u /\ r = nb /\ p <= e /\ u <= un
  <2>1. /\ r = p + f + u + 0 /\ r = nb /\ p + 0 <= e /\ u + 0 <= un
    BY <1>1 DEF Tallied
  <2> QED
    BY <1>3, <2>1
<1>5. /\ {"received", "failed"} \in SUBSET Counter
      /\ {"received", "unmapped"} \in SUBSET Counter
      /\ {} \in SUBSET Counter /\ {"received"} \in SUBSET Counter
      /\ "received" \in Counter /\ "enriched" \in Counter /\ "published" \in Counter
      /\ "failed" \in Counter /\ "unmapped" \in Counter
  BY DEF Counter
<1>6. /\ nb' = Cardinality(NotBlank(body[h], pos[h] + 1))
      /\ un' = Cardinality(UnownedAt(body[h], pos[h] + 1))
  BY <1>2 DEF NotBlank, UnownedAt, Unowned
<1>7. /\ nb' = nb + IF Coming(h) \in Blank THEN 0 ELSE 1
      /\ un' = un + IF Unowned(Coming(h)) THEN 1 ELSE 0
  BY <1>1, <1>6, NextPlace DEF Coming
<1>8. ASSUME NEW label \in PCs, NEW C, Reads(h, label, C) PROVE pc'[h] = label /\ Adds(h, C)
  BY <1>8 DEF Reads, TypeOK
<1>9. Tallied(h)' <=>
        (pc'[h] # "idle" =>
           /\ r' = p' + f' + u' + (IF pc'[h] \in {"lookup", "save", "publish"} THEN 1 ELSE 0)
           /\ r' = nb'
           /\ p' + (IF pc'[h] \in {"save", "publish"} THEN 1 ELSE 0) <= e'
           /\ u' + (IF pc'[h] = "lookup" /\ Unowned(Line(h)') THEN 1 ELSE 0) <= un')
  BY DEF Tallied, InWork
<1>10. Unowned(Coming(h)) <=>
         Coming(h) \notin Blank \cup Garbled /\ CenterOf[Coming(h)] \notin Centers
  BY DEF Unowned
<1> HIDE DEF nb, un, r, e, p, f, u
<1>11. CASE Coming(h) \in Blank /\ Reads(h, "next", {})
  <2>1. pc'[h] = "next" /\ Adds(h, {})
    BY <1>8, <1>11 DEF PCs
  <2>2. r' = r /\ e' = e /\ p' = p /\ f' = f /\ u' = u
    BY <1>5, <2>1, AddsEach DEF r, e, p, f, u
  <2>3. /\ r' = p' + f' + u' + 0 /\ r' = nb' /\ p' + 0 <= e' /\ u' + 0 <= un'
    BY <1>3, <1>4, <1>7, <1>10, <1>11, <2>2
  <2> QED
    BY ONLY <1>9, <2>1, <2>3
<1>12. CASE Coming(h) \in Garbled \ Blank /\ Reads(h, "next", {"received", "failed"})
  <2>1. pc'[h] = "next" /\ Adds(h, {"received", "failed"})
    BY <1>8, <1>12 DEF PCs
  <2>2. r' = r + 1 /\ e' = e /\ p' = p /\ f' = f + 1 /\ u' = u
    BY <1>5, <2>1, AddsEach DEF r, e, p, f, u
  <2>3. /\ r' = p' + f' + u' + 0 /\ r' = nb' /\ p' + 0 <= e' /\ u' + 0 <= un'
    BY <1>3, <1>4, <1>7, <1>10, <1>12, <2>2
  <2> QED
    BY ONLY <1>9, <2>1, <2>3
<1>13. CASE /\ Coming(h) \notin Blank \cup Garbled /\ CenterOf[Coming(h)] = NoTag
            /\ Reads(h, "next", {"received", "unmapped"})
  <2>1. pc'[h] = "next" /\ Adds(h, {"received", "unmapped"})
    BY <1>8, <1>13 DEF PCs
  <2>2. r' = r + 1 /\ e' = e /\ p' = p /\ f' = f /\ u' = u + 1
    BY <1>5, <2>1, AddsEach DEF r, e, p, f, u
  <2>3. Unowned(Coming(h))
    BY <1>10, <1>13
  <2>4. /\ r' = p' + f' + u' + 0 /\ r' = nb' /\ p' + 0 <= e' /\ u' + 0 <= un'
    BY <1>3, <1>4, <1>7, <1>13, <2>2, <2>3
  <2> QED
    BY ONLY <1>9, <2>1, <2>4
<1>14. CASE /\ Coming(h) \notin Blank \cup Garbled /\ CenterOf[Coming(h)] # NoTag
            /\ Reads(h, "lookup", {"received"})
  <2>1. pc'[h] = "lookup" /\ Adds(h, {"received"})
    BY <1>8, <1>14 DEF PCs
  <2>2. r' = r + 1 /\ e' = e /\ p' = p /\ f' = f /\ u' = u
    BY <1>5, <2>1, AddsEach DEF r, e, p, f, u
  <2>3. r' = p' + f' + u' + 1 /\ r' = nb' /\ p' + 0 <= e'
    BY <1>3, <1>4, <1>7, <1>14, <2>2
  <2>4. u' + (IF Unowned(Coming(h)) THEN 1 ELSE 0) <= un'
    BY <1>3, <1>4, <1>7, <2>2
  <2> QED
    BY ONLY <1>2, <1>9, <2>1, <2>3, <2>4
<1> QED
  BY <1>11, <1>12, <1>13, <1>14

\* Every batch is tallied, whoever moves.
LEMMA TalliedStep ==
  ASSUME Shape, \A h \in Handlers : Tallied(h), [Next]_vars
  PROVE  \A h \in Handlers : Tallied(h)'
<1>0. TypeOK /\ SeedInv /\ ItemInHand
  BY DEF Shape
<1>1. ASSUME UNCHANGED <<pc, body, pos, batch>> PROVE \A h \in Handlers : Tallied(h)'
  BY <1>0, <1>1, TallyFrame
<1>2. ASSUME NEW h \in Handlers, \A g \in Handlers \ {h} :
               /\ pc'[g] = pc[g] /\ body'[g] = body[g] /\ pos'[g] = pos[g]
               /\ batch'[g] = batch[g],
             Tallied(h)'
      PROVE  \A g \in Handlers : Tallied(g)'
  BY <1>0, <1>2, TallyFrame
<1>3. ASSUME Crash PROVE \A h \in Handlers : Tallied(h)'
  BY <1>3 DEF Crash, Tallied
<1>4. ASSUME NEW h \in Handlers, NEW b \in Bodies, Post(h, b)
      PROVE  \A g \in Handlers : Tallied(g)'
  <2>1. /\ pc' = [pc EXCEPT ![h] = "next"] /\ body' = [body EXCEPT ![h] = b]
        /\ pos' = [pos EXCEPT ![h] = 0] /\ batch' = [batch EXCEPT ![h] = Zero]
    BY <1>4 DEF Post
  <2>2. pc'[h] = "next" /\ body'[h] = b /\ pos'[h] = 0 /\ batch'[h] = Zero
    BY <1>0, <2>1 DEF TypeOK
  <2>3. /\ batch'[h]["received"] = 0 /\ batch'[h]["enriched"] = 0
        /\ batch'[h]["published"] = 0 /\ batch'[h]["failed"] = 0
        /\ batch'[h]["unmapped"] = 0
    BY <2>2 DEF Zero, Counter
  <2>4. /\ Cardinality(NotBlank(body[h], pos[h]))' = 0
        /\ Cardinality(UnownedAt(body[h], pos[h]))' = 0
    <3>1. /\ NotBlank(body[h], pos[h])' = NotBlank(b, 0)
          /\ UnownedAt(body[h], pos[h])' = UnownedAt(b, 0)
      BY <2>2 DEF NotBlank, UnownedAt, Unowned
    <3> QED
      BY <3>1, NoPlace
  <2>5. Tallied(h)'
    BY <2>2, <2>3, <2>4 DEF Tallied, InWork
  <2> QED
    BY <1>0, <1>2, <2>1, <2>5 DEF TypeOK
<1>5. ASSUME NEW h \in Handlers, NEW label \in PCs, NEW C, Stays(h, label, C)
      PROVE  \A g \in Handlers \ {h} :
               /\ pc'[g] = pc[g] /\ body'[g] = body[g] /\ pos'[g] = pos[g]
               /\ batch'[g] = batch[g]
  BY <1>0, <1>5 DEF Stays, Adds, TypeOK
<1>6. ASSUME NEW h \in Handlers, NEW label \in PCs, NEW C, Reads(h, label, C)
      PROVE  \A g \in Handlers \ {h} :
               /\ pc'[g] = pc[g] /\ body'[g] = body[g] /\ pos'[g] = pos[g]
               /\ batch'[g] = batch[g]
  BY <1>0, <1>6 DEF Reads, Adds, TypeOK
<1>7. "next" \in PCs /\ "lookup" \in PCs /\ "save" \in PCs /\ "publish" \in PCs
  BY DEF PCs
<1>8. ASSUME NEW h \in Handlers, NextLine(h) PROVE \A g \in Handlers : Tallied(g)'
  <2>1. Tallied(h)'
    BY <1>0, <1>8, NextLineEffect, TallyReads
  <2>2. \E label \in PCs, C \in SUBSET Counter : Reads(h, label, C)
    BY <1>0, <1>7, <1>8, NextLineEffect DEF Counter
  <2> QED
    BY <1>2, <1>6, <2>1, <2>2
<1>9. ASSUME NEW h \in Handlers, Lookup(h) \/ Save(h) \/ Publish(h)
                                   \/ LookupFails(h) \/ SaveFails(h) \/ PublishFails(h)
      PROVE  \A g \in Handlers : Tallied(g)'
  <2>1. \/ pc[h] = "lookup" /\ Stays(h, "save", {"enriched"})
        \/ /\ pc[h] = "lookup" /\ CenterOf[Line(h)] \notin seeded
           /\ Stays(h, "next", {"unmapped"})
        \/ pc[h] = "save" /\ Stays(h, "publish", {})
        \/ pc[h] = "publish" /\ Stays(h, "next", {"published"})
        \/ InWork(h) /\ Stays(h, "next", {"failed"})
    BY <1>0, <1>9, WorkEffect DEF InWork
  <2>2. Tallied(h)'
    BY <1>0, <2>1, TallyStays
  <2>3. \E label \in PCs, C \in SUBSET Counter : Stays(h, label, C)
    BY <1>7, <2>1 DEF Counter
  <2> QED
    BY <1>2, <1>5, <2>2, <2>3
<1>10. ASSUME NEW h \in Handlers, Answer(h) PROVE \A g \in Handlers : Tallied(g)'
  <2>1. /\ pc' = [pc EXCEPT ![h] = "idle"] /\ body' = [body EXCEPT ![h] = NoBody]
        /\ pos' = pos /\ Adds(h, {})
    BY <1>0, <1>10, WorkEffect
  <2>2. pc'[h] = "idle"
    BY <1>0, <2>1 DEF TypeOK
  <2>3. Tallied(h)'
    BY <2>2 DEF Tallied
  <2> QED
    BY <1>0, <1>2, <2>1, <2>3 DEF TypeOK, Adds
<1>11. Boot \/ SeedCenterFails \/ UNCHANGED vars => \A h \in Handlers : Tallied(h)'
  BY <1>1 DEF Boot, SeedCenter, Listen, SeedCenterFails, vars
<1> QED
  BY <1>3, <1>4, <1>8, <1>9, <1>10, <1>11 DEF Next, Step

(***************************************************************************)
(* The theorems about ingest-svc                                           *)
(***************************************************************************)
LEMMA IngestInit == Init => IngestInv
<1> SUFFICES ASSUME Init PROVE IngestInv
  OBVIOUS
<1>1. /\ Zero \in [Counter -> Nat] /\ 0 \in 0..Len(SeedFile)
      /\ 0 \in 0..MaxFaults /\ 0 \in 0..MaxPosts
  BY DEF Zero
<1>2. TypeOK
  BY <1>1 DEF Init, TypeOK, InWork
<1>3. SeedInv /\ ItemInHand
  BY DEF Init, SeedInv, ItemInHand, InWork
<1>4. /\ stats["received"] = 0 /\ stats["published"] = 0
      /\ stats["failed"] = 0 /\ stats["unmapped"] = 0
  BY DEF Init, Zero, Counter
<1>5. Working = {}
  BY DEF Init, Working, InWork
<1>6. Cardinality(Working) = 0
  BY <1>5, FS_EmptySet
<1>7. Balanced
  BY <1>4, <1>6 DEF Balanced
<1>8. \A h \in Handlers : Tallied(h)
  BY DEF Init, Tallied
<1> QED
  BY <1>2, <1>3, <1>7, <1>8 DEF IngestInv, Shape

LEMMA IngestNext == IngestInv /\ [Next]_vars => IngestInv'
<1> SUFFICES ASSUME IngestInv, [Next]_vars PROVE IngestInv'
  OBVIOUS
<1>1. Shape /\ TypeOK /\ Balanced /\ \A h \in Handlers : Tallied(h)
  BY DEF IngestInv, Shape
<1>2. Shape'
  BY <1>1, ShapeStep
<1>3. Balanced'
  BY <1>1, BalanceStep
<1>4. \A h \in Handlers : Tallied(h)'
  BY <1>1, TalliedStep
<1> QED
  BY <1>2, <1>3, <1>4 DEF IngestInv

\* /stats and the summaries add up: the inductive invariant of ingest-svc.
THEOREM IngestInvariance == Spec => []IngestInv
<1>1. Init => IngestInv
  BY IngestInit
<1>2. IngestInv /\ [Next]_vars => IngestInv'
  BY IngestNext
<1> QED
  BY <1>1, <1>2, PTL DEF Spec

\* Every variable of ingest-svc has the shape the code gives it.
THEOREM IngestTypeOK == Spec => []TypeOK
<1>1. IngestInv => TypeOK
  BY DEF IngestInv, Shape
<1> QED
  BY <1>1, IngestInvariance, PTL

\* Every line that is not blank ends in exactly one of published, failed and
\* unmapped, wherever the calls of handleIngest fail.
THEOREM LinesAddUp == Spec => []EveryLineIsAccountedFor
<1>1. ASSUME IngestInv PROVE EveryLineIsAccountedFor
  <2>1. TypeOK /\ Balanced /\ \A h \in Handlers : Tallied(h)
    BY <1>1 DEF IngestInv, Shape
  <2>2. /\ stats["received"] \in Nat /\ stats["published"] \in Nat
        /\ stats["failed"] \in Nat /\ stats["unmapped"] \in Nat
    BY <2>1, CounterTypes
  <2>3. stats["received"] = Settled(stats) + Cardinality({h \in Handlers : InWork(h)})
    BY <2>1 DEF Balanced, Settled, Working
  <2>4. ASSUME NEW h \in Handlers, pc[h] # "idle"
        PROVE  /\ batch[h]["received"] = Settled(batch[h]) + IF InWork(h) THEN 1 ELSE 0
               /\ batch[h]["received"] =
                    Cardinality({n \in 1..pos[h] : Batch[body[h]][n] \notin Blank})
               /\ batch[h]["published"] <= batch[h]["enriched"]
    <3>1. batch[h]["published"] \in Nat /\ batch[h]["enriched"] \in Nat
      BY <2>1, CounterTypes
    <3>2. batch[h]["received"] = Settled(batch[h]) + IF InWork(h) THEN 1 ELSE 0
      BY <2>1, <2>4 DEF Tallied, Settled
    <3>3. batch[h]["received"] = Cardinality(NotBlank(body[h], pos[h]))
      BY <2>1, <2>4 DEF Tallied
    <3>4. batch[h]["published"] + (IF pc[h] \in {"save", "publish"} THEN 1 ELSE 0)
            <= batch[h]["enriched"]
      BY <2>1, <2>4 DEF Tallied
    <3>5. batch[h]["published"] <= batch[h]["enriched"]
      BY <3>1, <3>4
    <3> QED
      BY <3>2, <3>3, <3>5 DEF NotBlank
  <2> QED
    BY <2>3, <2>4 DEF EveryLineIsAccountedFor
<1> QED
  BY <1>1, IngestInvariance, PTL

\* No owned line is called unmapped, because the server only listens once
\* seedCostCenters has written every cost center.
THEOREM UnmappedHasNoOwner == Spec => []UnmappedIsUnowned
<1>1. ASSUME IngestInv PROVE UnmappedIsUnowned
  <2>1. TypeOK /\ \A h \in Handlers : Tallied(h)
    BY <1>1 DEF IngestInv, Shape
  <2>2. ASSUME NEW h \in Handlers, pc[h] # "idle"
        PROVE  batch[h]["unmapped"] <=
                 Cardinality({n \in 1..pos[h] : Unowned(Batch[body[h]][n])})
    <3>1. batch[h]["unmapped"] \in Nat /\ Cardinality(UnownedAt(body[h], pos[h])) \in Nat
      BY <2>1, CounterTypes, PlacesAreFinite DEF TypeOK
    <3>2. batch[h]["unmapped"] + (IF pc[h] = "lookup" /\ Unowned(Line(h)) THEN 1 ELSE 0)
            <= Cardinality(UnownedAt(body[h], pos[h]))
      BY <2>1, <2>2 DEF Tallied
    <3>3. batch[h]["unmapped"] <= Cardinality(UnownedAt(body[h], pos[h]))
      BY <3>1, <3>2
    <3> QED
      BY <3>3 DEF UnownedAt
  <2> QED
    BY <2>2 DEF UnmappedIsUnowned
<1> QED
  BY <1>1, IngestInvariance, PTL

(***************************************************************************)
(* Two services, joined by published                                       *)
(***************************************************************************)
\* Whatever the pipeline does, ingest-svc does on its own as well.
THEOREM PipelineIsIngest == PipelineSpec => Spec
<1>1. PipelineInit => Init
  BY DEF PipelineInit
<1>2. [PipelineNext]_<<vars, rollupSide, reported>> => [Next]_vars
  BY DEF PipelineNext, IngestStep, RollupStep
<1> QED
  BY <1>1, <1>2, PTL DEF PipelineSpec, Spec

\* And rollup-svc: a publication of ingest-svc is one its topic allows.
THEOREM PipelineIsRollup == PipelineSpec => Rollup!Spec
<1>1. PipelineInit => Rollup!Init
  BY DEF PipelineInit
<1>2. [PipelineNext]_<<vars, rollupSide, reported>> => [Rollup!Next]_(Rollup!vars)
  <2>1. ASSUME published' = published, UNCHANGED rollupSide PROVE UNCHANGED Rollup!vars
    BY <2>1 DEF rollupSide, Rollup!vars, Rollup!broker, Rollup!store, Rollup!alarms,
                Rollup!locals, Rollup!ghosts
  <2>2. ASSUME NEW l \in Items, Rollup!Publish(l) PROVE Rollup!Next
    BY <2>2 DEF Rollup!Next
  <2>3. ASSUME UNCHANGED <<vars, rollupSide>> PROVE UNCHANGED Rollup!vars
    BY <2>1, <2>3 DEF vars
  <2> QED
    BY <2>1, <2>2, <2>3 DEF PipelineNext, IngestStep, RollupStep
<1> QED
  BY <1>1, <1>2, PTL DEF PipelineSpec, Rollup!Spec

(***************************************************************************)
(* From the rollups back to the store                                      *)
(***************************************************************************)
\* What ingest-svc has published is stored and has an owner.
PublishedIsStored ==
  \A l \in Items : published[l] > 0 =>
    stored[ItemId[l]] # NoLine /\ CenterOf[l] \in Centers

\* The part of rollup-svc that a row depends on.
Labels == Rollup!HandlerPC \cup {"next"}

RowTypes ==
  /\ queue \in [Items -> Nat]
  /\ rollup \in [Rollup!Key -> Rollup!Row]
  /\ subscriber \in [Subscribers -> Labels]
  /\ job \in [Subscribers -> Rollup!Job]

\* A row, or a copy of it that is about to be written, contains published
\* items that belong there.
Belongs(l, k) == published[l] > 0 /\ RowOfItem[l] = k

\* A subscriber works on a published item.
Fine(s) ==
  /\ subscriber[s] # "idle" => job[s].evt \in Items /\ published[job[s].evt] > 0
  /\ subscriber[s] = "write" =>
       \A l \in Items : job[s].base.merged[l] > 0 => Belongs(l, RowOfItem[job[s].evt])

QueueIsPublished == \A l \in Items : queue[l] > 0 => published[l] > 0
WorkIsPublished  == \A s \in Subscribers : Fine(s)
RowsArePublished ==
  \A k \in Rollup!Key, l \in Items : rollup[k].merged[l] > 0 => Belongs(l, k)

FromPublished == QueueIsPublished /\ WorkIsPublished /\ RowsArePublished

PipelineInv == IngestInv /\ PublishedIsStored /\ RowTypes /\ FromPublished

\* Nothing is published that is not in the store and owned.
LEMMA PublishedStep ==
  ASSUME IngestInv, PublishedIsStored, [Next]_vars
  PROVE  PublishedIsStored'
<1>0. TypeOK /\ SeedInv /\ ItemInHand
  BY DEF IngestInv, Shape
<1>1. \A l \in Items : ItemId[l] \in Ids
  BY DEF Items
<1>2. ASSUME StoreGrows, published' = published PROVE PublishedIsStored'
  BY <1>1, <1>2 DEF PublishedIsStored, StoreGrows
<1>3. stored' = stored => StoreGrows
  BY DEF StoreGrows
<1>4. ASSUME NEW h \in Handlers, pc[h] = "publish", Emit(h) \/ UNCHANGED published,
             stored' = stored
      PROVE  PublishedIsStored'
  <2>1. /\ Line(h) \in Items /\ CenterOf[Line(h)] \in Centers
        /\ stored[ItemId[Line(h)]] # NoLine
    BY <1>0, <1>4 DEF ItemInHand, InWork
  <2>2. \A l \in Items : published'[l] > 0 => published[l] > 0 \/ l = Line(h)
    BY <1>0, <1>4 DEF Emit, TypeOK
  <2> QED
    BY <1>4, <2>1, <2>2 DEF PublishedIsStored
<1>5. ASSUME NEW h \in Handlers, pc[h] = "save", SaveItem(h) PROVE StoreGrows
  <2>1. Line(h) \in Lines
    BY <1>0, <1>5 DEF ItemInHand, InWork, Items
  <2> QED
    BY <1>0, <1>5, <2>1, SaveProperties
<1>6. ASSUME NEW h \in Handlers, Step(h) \/ LookupFails(h) \/ SaveFails(h) \/ PublishFails(h)
      PROVE  PublishedIsStored'
  <2>1. CASE NextLine(h) \/ Lookup(h) \/ Answer(h) \/ LookupFails(h)
    BY <1>2, <1>3, <2>1 DEF NextLine, Lookup, Answer, LookupFails
  <2>2. CASE Save(h) \/ SaveFails(h)
    BY <1>2, <1>3, <1>5, <2>2 DEF Save, SaveFails
  <2>3. CASE Publish(h) \/ PublishFails(h)
    BY <1>4, <2>3 DEF Publish, PublishFails
  <2> QED
    BY <1>6, <2>1, <2>2, <2>3 DEF Step
<1>7. ASSUME Boot \/ SeedCenterFails \/ Crash \/ UNCHANGED vars PROVE PublishedIsStored'
  BY <1>2, <1>3, <1>7 DEF Boot, SeedCenter, Listen, SeedCenterFails, Crash, vars
<1>8. ASSUME NEW h \in Handlers, NEW b \in Bodies, Post(h, b) PROVE PublishedIsStored'
  BY <1>2, <1>3, <1>8 DEF Post
<1> QED
  BY <1>6, <1>7, <1>8 DEF Next

\* A count that ingest-svc keeps never goes down.
LEMMA PublishedGrows ==
  ASSUME TypeOK, [Next]_vars, NEW l \in Items, published[l] > 0
  PROVE  published'[l] > 0
<1>1. \A h \in Handlers : Emit(h) => published'[l] > 0
  BY DEF Emit, TypeOK
<1> QED
  BY <1>1 DEF Next, Step, Boot, SeedCenter, Listen, SeedCenterFails, Crash, Post,
              NextLine, Lookup, Save, Publish, Answer, LookupFails, SaveFails,
              PublishFails, vars

\* The constants of rollup-svc that its rows depend on.
LEMMA RollupConstants ==
  /\ \A l \in Items : RowOfItem[l] \in Rollup!Key
  /\ Rollup!Absent \in Rollup!Row
  /\ \A l \in Items : Rollup!Absent.merged[l] = 0
  /\ Rollup!Workers = Subscribers
  /\ NoLine \notin Items
<1>1. \A l \in Items : RowOfItem[l] \in ItemDays \X ItemGroups
  BY DEF RowOfItem, RowOf, ItemDays, ItemGroups
<1>2. /\ Rollup!Absent \in Rollup!Row
      /\ \A l \in Items : Rollup!Absent.merged[l] = 0
  BY DEF Rollup!Absent, Rollup!EmptyBag, Rollup!Row, Rollup!Bag
<1> QED
  BY <1>1, <1>2 DEF Rollup!Key, Rollup!Workers, Items

\* What rollup-svc holds while it works, and how that changes.
LEMMA RollupJobs ==
  /\ Rollup!NoJob \in Rollup!Job
  /\ \A l \in Items : Rollup!JobFor(l) \in Rollup!Job /\ Rollup!JobFor(l).evt = l
  /\ \A j \in Rollup!Job :
       /\ j.base \in Rollup!Row
       /\ \A row \in Rollup!Row :
            /\ [j EXCEPT !.base = row] \in Rollup!Job
            /\ [j EXCEPT !.base = row].evt = j.evt
            /\ [j EXCEPT !.base = row].base = row
       /\ /\ [j EXCEPT !.owned = FALSE] \in Rollup!Job
          /\ [j EXCEPT !.owned = FALSE].evt = j.evt
          /\ [j EXCEPT !.owned = FALSE].base = j.base
       /\ j.attempt # MaxETagRetries =>
            /\ [j EXCEPT !.attempt = @ + 1] \in Rollup!Job
            /\ [j EXCEPT !.attempt = @ + 1].evt = j.evt
            /\ [j EXCEPT !.attempt = @ + 1].base = j.base
<1>1. /\ Rollup!NoJob \in Rollup!Job
      /\ \A l \in Items : Rollup!JobFor(l) \in Rollup!Job /\ Rollup!JobFor(l).evt = l
  BY RollupConstants, SubscribersAssumption
  DEF Rollup!NoJob, Rollup!JobFor, Rollup!Job
<1>2. ASSUME NEW j \in Rollup!Job, NEW row \in Rollup!Row
      PROVE  /\ [j EXCEPT !.base = row] \in Rollup!Job
             /\ [j EXCEPT !.base = row].evt = j.evt
             /\ [j EXCEPT !.base = row].base = row
  BY <1>2 DEF Rollup!Job
<1>3. ASSUME NEW j \in Rollup!Job
      PROVE  /\ j.base \in Rollup!Row
             /\ [j EXCEPT !.owned = FALSE] \in Rollup!Job
             /\ [j EXCEPT !.owned = FALSE].evt = j.evt
             /\ [j EXCEPT !.owned = FALSE].base = j.base
  BY <1>3 DEF Rollup!Job
<1>4. ASSUME NEW j \in Rollup!Job, j.attempt # MaxETagRetries
      PROVE  /\ [j EXCEPT !.attempt = @ + 1] \in Rollup!Job
             /\ [j EXCEPT !.attempt = @ + 1].evt = j.evt
             /\ [j EXCEPT !.attempt = @ + 1].base = j.base
  BY <1>4, SubscribersAssumption DEF Rollup!Job
<1> QED
  BY <1>1, <1>2, <1>3, <1>4

\* A merge adds the event and nothing else.
LEMMA RollupMerges ==
  ASSUME NEW row \in Rollup!Row, NEW e \in Items
  PROVE  /\ Rollup!Merge(row, e) \in Rollup!Row
         /\ \A l \in Items : Rollup!Merge(row, e).merged[l] > 0 =>
              row.merged[l] > 0 \/ l = e
BY DEF Rollup!Merge, Rollup!Row, Rollup!Bag

\* A count of publications never goes down.
Grows == \A l \in Items : published[l] > 0 => published'[l] > 0

\* What a step has to show of the subscribers and of the rows.
Continues(s) ==
  \/ subscriber'[s] = subscriber[s]
  \/ subscriber[s] # "idle" /\ subscriber'[s] # "write"

LEMMA WorkFrame ==
  ASSUME WorkIsPublished, Grows,
         \A s \in Subscribers :
           \/ subscriber'[s] = "idle"
           \/ Fine(s)'
           \/ Continues(s) /\ job'[s].evt = job[s].evt /\ job'[s].base = job[s].base
  PROVE  WorkIsPublished'
<1>1. ASSUME NEW s \in Subscribers PROVE Fine(s)'
  <2>1. Fine(s)
    BY DEF WorkIsPublished
  <2>2. CASE subscriber'[s] = "idle"
    BY <2>2 DEF Fine
  <2>3. CASE Continues(s) /\ job'[s].evt = job[s].evt /\ job'[s].base = job[s].base
    BY <2>1, <2>3 DEF Fine, Belongs, Grows, Continues
  <2> QED
    BY <2>2, <2>3
<1> QED
  BY <1>1 DEF WorkIsPublished

LEMMA RowsFrame ==
  ASSUME RowsArePublished, Grows, rollup' = rollup
  PROVE  RowsArePublished'
BY DEF RowsArePublished, Belongs, Grows

LEMMA QueueFrame ==
  ASSUME QueueIsPublished, Grows, queue' = queue
  PROVE  QueueIsPublished'
BY DEF QueueIsPublished, Grows

\* Steps of a subscriber between the rows: the work goes on, or ends.
LEMMA MoveStep ==
  ASSUME RowTypes, FromPublished, Grows, UNCHANGED <<queue, rollup, job>>,
         NEW s \in Subscribers, subscriber[s] # "idle",
         NEW label \in Labels \ {"write"}, subscriber' = [subscriber EXCEPT ![s] = label]
  PROVE  RowTypes' /\ FromPublished'
<1>1. subscriber \in [Subscribers -> Labels]
  BY DEF RowTypes
<1>2. subscriber' \in [Subscribers -> Labels] /\ \A t \in Subscribers : Continues(t)
  BY <1>1 DEF Continues
<1>3. WorkIsPublished'
  BY <1>2, WorkFrame DEF FromPublished
<1> QED
  BY <1>2, <1>3, RowsFrame, QueueFrame DEF RowTypes, FromPublished

\* A write of rollup-svc puts the event at hand into its row.
LEMMA WriteStep ==
  ASSUME RowTypes, FromPublished, Grows, UNCHANGED <<queue, job>>,
         NEW s \in Subscribers, subscriber[s] = "write",
         NEW label \in Labels \ {"write"}, subscriber' = [subscriber EXCEPT ![s] = label],
         rollup' = [rollup EXCEPT ![Rollup!KeyOf(s)] =
                      Rollup!Merge(job[s].base, job[s].evt)]
  PROVE  RowTypes' /\ FromPublished'
<1>1. /\ subscriber \in [Subscribers -> Labels] /\ rollup \in [Rollup!Key -> Rollup!Row]
      /\ job[s] \in Rollup!Job /\ Fine(s)
  BY DEF RowTypes, FromPublished, WorkIsPublished
<1>2. /\ job[s].evt \in Items /\ published[job[s].evt] > 0 /\ job[s].base \in Rollup!Row
      /\ RowOfItem[job[s].evt] \in Rollup!Key
      /\ \A l \in Items : job[s].base.merged[l] > 0 => Belongs(l, RowOfItem[job[s].evt])
  BY <1>1, RollupConstants, RollupJobs DEF Fine
<1>3. /\ subscriber' \in [Subscribers -> Labels] /\ \A t \in Subscribers : Continues(t)
  BY <1>1 DEF Continues
<1> DEFINE row == Rollup!Merge(job[s].base, job[s].evt)
<1>4. /\ row \in Rollup!Row
      /\ \A l \in Items : row.merged[l] > 0 => job[s].base.merged[l] > 0 \/ l = job[s].evt
  BY <1>2, RollupMerges
<1>5. rollup' = [rollup EXCEPT ![RowOfItem[job[s].evt]] = row]
  BY DEF Rollup!KeyOf
<1> HIDE DEF row
<1>6. rollup' \in [Rollup!Key -> Rollup!Row]
  BY <1>1, <1>4, <1>5
<1>7. ASSUME NEW k \in Rollup!Key, NEW l \in Items, rollup'[k].merged[l] > 0
      PROVE  Belongs(l, k)'
  <2>1. CASE k # RowOfItem[job[s].evt]
    <3>1. rollup'[k] = rollup[k]
      BY <1>1, <1>5, <2>1
    <3>2. Belongs(l, k)
      BY <1>7, <3>1 DEF FromPublished, RowsArePublished
    <3> QED
      BY <3>2 DEF Belongs, Grows
  <2>2. CASE k = RowOfItem[job[s].evt]
    <3>1. rollup'[k] = row
      BY <1>1, <1>5, <2>2
    <3>2. job[s].base.merged[l] > 0 \/ l = job[s].evt
      BY <1>4, <1>7, <3>1
    <3>3. Belongs(l, k)
      BY <1>2, <2>2, <3>2 DEF Belongs
    <3> QED
      BY <3>3 DEF Belongs, Grows
  <2> QED
    BY <2>1, <2>2
<1>8. WorkIsPublished'
  BY <1>3, WorkFrame DEF FromPublished
<1> QED
  BY <1>3, <1>6, <1>7, <1>8, QueueFrame DEF RowTypes, FromPublished, RowsArePublished

\* An event that is at hand can be put back on the queue.
LEMMA RequeueStep ==
  ASSUME RowTypes, FromPublished, Grows, NEW s \in Subscribers, subscriber[s] # "idle",
         queue' = queue \/ queue' = [queue EXCEPT ![job[s].evt] = @ + 1]
  PROVE  queue' \in [Items -> Nat] /\ QueueIsPublished'
<1>1. queue \in [Items -> Nat] /\ Fine(s) /\ \A l \in Items : queue[l] > 0 => published[l] > 0
  BY DEF RowTypes, FromPublished, WorkIsPublished, QueueIsPublished
<1>2. job[s].evt \in Items /\ published[job[s].evt] > 0
  BY <1>1 DEF Fine
<1>3. queue' \in [Items -> Nat]
  BY <1>1, <1>2
<1>4. \A l \in Items : queue'[l] > 0 => queue[l] > 0 \/ l = job[s].evt
  BY <1>1, <1>2
<1> QED
  BY <1>1, <1>2, <1>3, <1>4 DEF QueueIsPublished, Grows

\* Both services count with the same Cardinality.
LEMMA SameCardinality == \A S : Rollup!Cardinality(S) = Cardinality(S)
BY DEF Rollup!Cardinality, Cardinality

\* Messages come from ingest-svc, go to a subscriber and come back.
LEMMA DeliveryStep ==
  ASSUME RowTypes, FromPublished, Grows, published \in [Items -> Nat],
         \/ \E l \in Items : Rollup!Publish(l)
         \/ \E s \in Subscribers : Rollup!Receive(s) \/ Rollup!Respond(s) \/ Rollup!Redeliver(s)
         \/ Rollup!Crash
  PROVE  RowTypes' /\ FromPublished'
<1> USE DEF Rollup!Goto
<1>0. /\ queue \in [Items -> Nat] /\ rollup \in [Rollup!Key -> Rollup!Row]
      /\ subscriber \in [Subscribers -> Labels]
      /\ job \in [Subscribers -> Rollup!Job]
      /\ QueueIsPublished /\ WorkIsPublished /\ RowsArePublished
  BY DEF RowTypes, FromPublished
<1>1. "mark" \in Labels /\ "idle" \in Labels
  BY DEF Labels, Rollup!HandlerPC
<1>2. ASSUME rollup' = rollup, queue' \in [Items -> Nat], QueueIsPublished',
             subscriber' \in [Subscribers -> Labels], job' \in [Subscribers -> Rollup!Job],
             \A s \in Subscribers :
               \/ subscriber'[s] = "idle"
               \/ Fine(s)'
               \/ Continues(s) /\ job'[s].evt = job[s].evt /\ job'[s].base = job[s].base
      PROVE  RowTypes' /\ FromPublished'
  <2>1. WorkIsPublished'
    BY <1>0, <1>2, WorkFrame
  <2>2. RowsArePublished'
    BY <1>0, <1>2, RowsFrame
  <2> QED
    BY <1>0, <1>2, <2>1, <2>2 DEF RowTypes, FromPublished
<1>3. ASSUME NEW l \in Items, Rollup!Publish(l) PROVE RowTypes' /\ FromPublished'
  <2>1. /\ rollup' = rollup /\ subscriber' = subscriber /\ job' = job
        /\ queue' = [queue EXCEPT ![l] = @ + 1]
        /\ published' = [published EXCEPT ![l] = @ + 1]
    BY <1>3 DEF Rollup!Publish, Rollup!store, Rollup!locals
  <2>2. queue' \in [Items -> Nat] /\ published'[l] > 0
        /\ \A m \in Items : queue'[m] > 0 => queue[m] > 0 \/ m = l
    BY <1>0, <2>1
  <2>3. QueueIsPublished'
    BY <1>0, <2>2 DEF QueueIsPublished, Grows
  <2>4. \A s \in Subscribers : Continues(s)
    BY <2>1 DEF Continues
  <2> QED
    BY <1>0, <1>2, <2>1, <2>2, <2>3, <2>4
<1>4. ASSUME NEW s \in Subscribers, NEW l \in Items, Rollup!Deliver(s, l)
      PROVE  RowTypes' /\ FromPublished'
  <2>1. /\ subscriber[s] = "idle" /\ queue[l] > 0 /\ rollup' = rollup
        /\ queue' = [queue EXCEPT ![l] = @ - 1]
        /\ job' = [job EXCEPT ![s] = Rollup!JobFor(l)]
        /\ subscriber' = [subscriber EXCEPT ![s] = "mark"]
    BY <1>4 DEF Rollup!Deliver, Rollup!store
  <2>2. queue' \in [Items -> Nat] /\ \A m \in Items : queue'[m] > 0 => queue[m] > 0
    BY <1>0, <2>1
  <2>3. /\ job' \in [Subscribers -> Rollup!Job] /\ job'[s].evt = l
        /\ \A t \in Subscribers \ {s} : job'[t] = job[t]
    BY <1>0, <2>1, RollupJobs
  <2>4. /\ subscriber' \in [Subscribers -> Labels] /\ subscriber'[s] = "mark"
        /\ \A t \in Subscribers \ {s} : subscriber'[t] = subscriber[t]
    BY <1>0, <1>1, <2>1
  <2>5. published[l] > 0
    BY <1>0, <2>1 DEF QueueIsPublished
  <2>6. Fine(s)'
    BY <2>3, <2>4, <2>5 DEF Fine, Grows
  <2>7. \A t \in Subscribers \ {s} :
          Continues(t) /\ job'[t].evt = job[t].evt /\ job'[t].base = job[t].base
    BY <2>3, <2>4 DEF Continues
  <2>8. QueueIsPublished'
    BY <1>0, <2>2 DEF QueueIsPublished, Grows
  <2> QED
    BY <1>2, <2>1, <2>2, <2>3, <2>4, <2>6, <2>7, <2>8
<1>5. ASSUME NEW s \in Subscribers, NEW l \in Items, Rollup!DropMalformed(s, l)
      PROVE  FALSE
  BY <1>5 DEF Rollup!DropMalformed
<1>6. ASSUME NEW s \in Subscribers, Rollup!Respond(s) PROVE RowTypes' /\ FromPublished'
  <2>1. /\ subscriber[s] # "idle" /\ rollup' = rollup
        /\ job' = [job EXCEPT ![s] = Rollup!NoJob]
        /\ subscriber' = [subscriber EXCEPT ![s] = "idle"]
        /\ queue' = queue \/ queue' = [queue EXCEPT ![job[s].evt] = @ + 1]
    BY <1>6 DEF Rollup!Respond, Rollup!store, Rollup!Answers
  <2>2. queue' \in [Items -> Nat] /\ QueueIsPublished'
    BY <2>1, RequeueStep
  <2>3. /\ job' \in [Subscribers -> Rollup!Job]
        /\ \A t \in Subscribers \ {s} : job'[t] = job[t]
    BY <1>0, <2>1, RollupJobs
  <2>4. /\ subscriber' \in [Subscribers -> Labels] /\ subscriber'[s] = "idle"
        /\ \A t \in Subscribers \ {s} : subscriber'[t] = subscriber[t]
    BY <1>0, <1>1, <2>1
  <2>5. \A t \in Subscribers \ {s} :
          Continues(t) /\ job'[t].evt = job[t].evt /\ job'[t].base = job[t].base
    BY <2>3, <2>4 DEF Continues
  <2> QED
    BY <1>2, <2>1, <2>2, <2>3, <2>4, <2>5
<1>7. ASSUME NEW s \in Subscribers, Rollup!Redeliver(s) PROVE RowTypes' /\ FromPublished'
  <2>1. /\ subscriber[s] # "idle" /\ rollup' = rollup /\ subscriber' = subscriber
        /\ job' = [job EXCEPT ![s].owned = FALSE]
        /\ queue' = [queue EXCEPT ![job[s].evt] = @ + 1]
    BY <1>7 DEF Rollup!Redeliver, Rollup!store
  <2>2. queue' \in [Items -> Nat] /\ QueueIsPublished'
    BY <2>1, RequeueStep
  <2>3. /\ job' \in [Subscribers -> Rollup!Job]
        /\ \A t \in Subscribers : job'[t].evt = job[t].evt /\ job'[t].base = job[t].base
    BY <1>0, <2>1, RollupJobs
  <2>4. \A t \in Subscribers : Continues(t)
    BY <2>1 DEF Continues
  <2> QED
    BY <1>0, <1>2, <2>1, <2>2, <2>3, <2>4
<1>8. ASSUME Rollup!Crash PROVE RowTypes' /\ FromPublished'
  <2>1. /\ rollup' = rollup
        /\ queue' = [l \in Items |-> queue[l] + Cardinality(Rollup!InFlight(l))]
        /\ subscriber' = [s \in Subscribers |-> "idle"]
        /\ job' = [s \in Subscribers |-> Rollup!NoJob]
    BY <1>8, RollupConstants, SameCardinality DEF Rollup!Crash, Rollup!store
  <2>2. ASSUME NEW l \in Items
        PROVE  /\ Cardinality(Rollup!InFlight(l)) \in Nat
               /\ Cardinality(Rollup!InFlight(l)) > 0 => published[l] > 0
    <3>1. Rollup!InFlight(l) \in SUBSET Subscribers
      BY DEF Rollup!InFlight
    <3>2. Cardinality(Rollup!InFlight(l)) \in Nat
      BY <3>1, SubscribersAssumption, FS_Subset, FS_CardinalityType
    <3>3. CASE Rollup!InFlight(l) = {}
      BY <3>2, <3>3, FS_EmptySet
    <3>4. CASE Rollup!InFlight(l) # {}
      <4>1. PICK s \in Subscribers : subscriber[s] # "idle" /\ job[s].evt = l
        BY <3>4 DEF Rollup!InFlight
      <4> QED
        BY <1>0, <3>2, <4>1 DEF Fine, WorkIsPublished
    <3> QED
      BY <3>3, <3>4
  <2>3. queue' \in [Items -> Nat] /\ \A l \in Items : queue'[l] > 0 => published[l] > 0
    BY <1>0, <2>1, <2>2 DEF QueueIsPublished
  <2>4. job' \in [Subscribers -> Rollup!Job] /\ subscriber' \in [Subscribers -> Labels]
        /\ \A s \in Subscribers : subscriber'[s] = "idle"
    BY <1>1, <2>1, RollupJobs
  <2>5. QueueIsPublished'
    BY <2>3 DEF QueueIsPublished, Grows
  <2> QED
    BY <1>2, <2>1, <2>3, <2>4, <2>5
<1> QED
  BY <1>3, <1>4, <1>5, <1>6, <1>7, <1>8 DEF Rollup!Receive

\* A row is read and kept until it is written.
LEMMA ReadStep ==
  ASSUME RowTypes, FromPublished, Grows, NEW s \in Subscribers,
         Rollup!ReadRollup(s) \/ Rollup!RetryRollup(s)
  PROVE  RowTypes' /\ FromPublished'
<1> USE DEF Rollup!Goto
<1>0. /\ rollup \in [Rollup!Key -> Rollup!Row]
      /\ subscriber \in [Subscribers -> Labels]
      /\ job \in [Subscribers -> Rollup!Job]
      /\ QueueIsPublished /\ WorkIsPublished /\ RowsArePublished /\ Fine(s)
      /\ "read" \in Labels /\ "write" \in Labels
  BY DEF RowTypes, FromPublished, WorkIsPublished, Labels, Rollup!HandlerPC
<1>1. ASSUME Rollup!ReadRollup(s) PROVE RowTypes' /\ FromPublished'
  <2>1. /\ subscriber[s] = "read" /\ queue' = queue /\ rollup' = rollup
        /\ job' = [job EXCEPT ![s].base = rollup[RowOfItem[job[s].evt]]]
        /\ subscriber' = [subscriber EXCEPT ![s] = "write"]
    BY <1>1 DEF Rollup!ReadRollup, Rollup!store, Rollup!broker, Rollup!KeyOf
  <2>2. /\ job[s].evt \in Items /\ published[job[s].evt] > 0
        /\ RowOfItem[job[s].evt] \in Rollup!Key
    BY <1>0, <2>1, RollupConstants DEF Fine
  <2>3. rollup[RowOfItem[job[s].evt]] \in Rollup!Row
    BY <1>0, <2>2
  <2>4. /\ job' \in [Subscribers -> Rollup!Job]
        /\ job'[s].evt = job[s].evt /\ job'[s].base = rollup[RowOfItem[job[s].evt]]
        /\ \A t \in Subscribers \ {s} : job'[t] = job[t]
    <3> DEFINE row == rollup[RowOfItem[job[s].evt]]
    <3>1. /\ [job[s] EXCEPT !.base = row] \in Rollup!Job
          /\ [job[s] EXCEPT !.base = row].evt = job[s].evt
          /\ [job[s] EXCEPT !.base = row].base = row
      BY <1>0, <2>3, RollupJobs
    <3>2. job' = [job EXCEPT ![s] = [job[s] EXCEPT !.base = row]]
      BY <1>0, <2>1
    <3> HIDE DEF row
    <3> QED
      BY <1>0, <3>1, <3>2 DEF row
  <2>5. /\ subscriber' \in [Subscribers -> Labels] /\ subscriber'[s] = "write"
        /\ \A t \in Subscribers \ {s} : subscriber'[t] = subscriber[t]
    BY <1>0, <2>1
  <2>6. \A l \in Items : job'[s].base.merged[l] > 0 => Belongs(l, RowOfItem[job'[s].evt])
    BY <1>0, <2>2, <2>4 DEF RowsArePublished
  <2>7. Fine(s)'
    BY <2>2, <2>4, <2>5, <2>6 DEF Fine, Belongs, Grows
  <2>8. \A t \in Subscribers \ {s} :
          Continues(t) /\ job'[t].evt = job[t].evt /\ job'[t].base = job[t].base
    BY <2>4, <2>5 DEF Continues
  <2>9. WorkIsPublished'
    BY <1>0, <2>7, <2>8, WorkFrame
  <2> QED
    BY <1>0, <2>1, <2>4, <2>5, <2>9, RowsFrame, QueueFrame DEF RowTypes, FromPublished
<1>2. ASSUME Rollup!RetryRollup(s) PROVE RowTypes' /\ FromPublished'
  <2>1. /\ subscriber[s] = "write" /\ queue' = queue /\ rollup' = rollup
        /\ job[s].attempt # MaxETagRetries
        /\ job' = [job EXCEPT ![s].attempt = @ + 1]
        /\ subscriber' = [subscriber EXCEPT ![s] = "read"]
    BY <1>2 DEF Rollup!RetryRollup, Rollup!LastAttempt, Rollup!store, Rollup!broker
  <2>2. /\ job' \in [Subscribers -> Rollup!Job]
        /\ \A t \in Subscribers : job'[t].evt = job[t].evt /\ job'[t].base = job[t].base
    BY <1>0, <2>1, RollupJobs
  <2>3. /\ subscriber' \in [Subscribers -> Labels] /\ \A t \in Subscribers : Continues(t)
    BY <1>0, <2>1 DEF Continues
  <2>4. WorkIsPublished'
    BY <1>0, <2>2, <2>3, WorkFrame
  <2> QED
    BY <1>0, <2>1, <2>2, <2>3, <2>4, RowsFrame, QueueFrame DEF RowTypes, FromPublished
<1> QED
  BY <1>1, <1>2

\* Every step of rollup-svc keeps to what was published.
LEMMA RowStep ==
  ASSUME RowTypes, FromPublished, Grows, published \in [Items -> Nat], Rollup!Next
  PROVE  RowTypes' /\ FromPublished'
<1> USE DEF Rollup!Goto
<1>1. \A s \in Subscribers : Rollup!Done(s) \in Labels \ {"write"}
  BY DEF Rollup!Done, Labels, Rollup!HandlerPC, Rollup!Answers
<1>2. {"read", "current", "prior", "marker", "publish", "SUCCESS", "RETRY"}
         \subseteq Labels \ {"write"}
  BY DEF Labels, Rollup!HandlerPC, Rollup!Answers, Rollup!Probing
<1>3. ASSUME NEW s \in Subscribers, Rollup!Apply(s) PROVE RowTypes' /\ FromPublished'
  <2>1. CASE Rollup!MarkProcessed(s)
    BY <1>2, <2>1, MoveStep DEF Rollup!MarkProcessed, Rollup!broker
  <2>2. CASE Rollup!SkipDuplicate(s)
    BY <1>2, <2>2, MoveStep
    DEF Rollup!SkipDuplicate, Rollup!DuplicateAnswer, Rollup!broker, Rollup!store
  <2>3. CASE Rollup!CommitRollup(s)
    BY <1>2, <2>3, WriteStep DEF Rollup!CommitRollup, Rollup!StoreRollup, Rollup!broker
  <2>4. CASE Rollup!ExhaustRollup(s)
    BY <1>2, <2>4, MoveStep DEF Rollup!ExhaustRollup, Rollup!broker, Rollup!store
  <2>5. CASE Rollup!Respond(s)
    BY <2>5, DeliveryStep
  <2>6. CASE Rollup!ReadRollup(s) \/ Rollup!RetryRollup(s)
    BY <2>6, ReadStep
  <2> QED
    BY <1>3, <2>1, <2>2, <2>3, <2>4, <2>5, <2>6 DEF Rollup!Apply
<1>4. ASSUME NEW s \in Subscribers, Rollup!RunDetection(s)
      PROVE  RowTypes' /\ FromPublished'
  <2>1. CASE Rollup!FetchCurrent(s)
    BY <1>1, <1>2, <2>1, MoveStep DEF Rollup!FetchCurrent, Rollup!broker, Rollup!store
  <2>2. CASE Rollup!FetchPrior(s)
    <3>1. /\ subscriber[s] = "prior" /\ subscriber' = subscriber
          /\ queue' = queue /\ rollup' = rollup /\ job' = job
      BY <2>2 DEF Rollup!FetchPrior, Rollup!broker, Rollup!store
    <3>2. subscriber' = [subscriber EXCEPT ![s] = "prior"]
      BY <3>1 DEF RowTypes
    <3> QED
      BY <1>2, <3>1, <3>2, MoveStep
  <2>3. CASE Rollup!RunDetect(s)
    BY <1>1, <1>2, <2>3, MoveStep DEF Rollup!RunDetect, Rollup!broker, Rollup!store
  <2>4. CASE Rollup!SaveMarker(s)
    BY <1>2, <2>4, MoveStep DEF Rollup!SaveMarker, Rollup!broker, Rollup!store
  <2>5. CASE Rollup!DetectedDup(s)
    BY <1>1, <2>5, MoveStep DEF Rollup!DetectedDup, Rollup!broker, Rollup!store
  <2>6. CASE Rollup!PublishAnomaly(s)
    BY <1>1, <2>6, MoveStep DEF Rollup!PublishAnomaly, Rollup!broker, Rollup!store
  <2> QED
    BY <1>4, <2>1, <2>2, <2>3, <2>4, <2>5, <2>6 DEF Rollup!RunDetection
<1>5. ASSUME NEW s \in Subscribers, \/ Rollup!MarkProcessedFails(s)
                                    \/ Rollup!ReadRollupFails(s)
                                    \/ Rollup!WriteRollupFails(s)
      PROVE  RowTypes' /\ FromPublished'
  <2>1. CASE Rollup!MarkProcessedFails(s)
    BY <1>2, <2>1, MoveStep DEF Rollup!MarkProcessedFails, Rollup!broker
  <2>2. CASE Rollup!ReadRollupFails(s)
    BY <1>2, <2>2, MoveStep DEF Rollup!ReadRollupFails, Rollup!broker, Rollup!store
  <2>3. CASE Rollup!WriteRollupFails(s)
    BY <1>2, <2>3, MoveStep, WriteStep
    DEF Rollup!WriteRollupFails, Rollup!StoreRollup, Rollup!broker
  <2> QED
    BY <1>5, <2>1, <2>2, <2>3
<1>6. ASSUME NEW s \in Subscribers, \/ Rollup!FetchFails(s) \/ Rollup!SaveMarkerFails(s)
                                    \/ Rollup!PublishAnomalyFails(s)
      PROVE  RowTypes' /\ FromPublished'
  BY <1>1, <1>6, MoveStep DEF Rollup!FetchFails, Rollup!SaveMarkerFails,
     Rollup!PublishAnomalyFails, Rollup!broker, Rollup!store
<1>7. ASSUME \/ \E l \in Items : Rollup!Publish(l)
             \/ \E s \in Subscribers : Rollup!Receive(s) \/ Rollup!Redeliver(s)
             \/ Rollup!Crash
      PROVE  RowTypes' /\ FromPublished'
  BY <1>7, DeliveryStep
<1> QED
  BY <1>3, <1>4, <1>5, <1>6, <1>7, RollupConstants DEF Rollup!Next, Rollup!Disturb

\* Every step of the pipeline, of either service.
LEMMA PipelineKeeps ==
  ASSUME PipelineInv, [PipelineNext]_<<vars, rollupSide, reported>>
  PROVE  PipelineInv'
<1>1. /\ IngestInv /\ PublishedIsStored /\ RowTypes /\ FromPublished /\ TypeOK
      /\ published \in [Items -> Nat]
  BY DEF PipelineInv, IngestInv, Shape, TypeOK
<1>2. [Next]_vars
  BY DEF PipelineNext, IngestStep, RollupStep
<1>3. IngestInv' /\ PublishedIsStored'
  BY <1>1, <1>2, IngestNext, PublishedStep
<1>4. Grows
  BY <1>1, <1>2, PublishedGrows DEF Grows
<1>5. ASSUME published' = published, UNCHANGED rollupSide PROVE RowTypes' /\ FromPublished'
  BY <1>1, <1>5 DEF rollupSide, RowTypes, FromPublished, QueueIsPublished,
     WorkIsPublished, RowsArePublished, Fine, Belongs
<1>6. ASSUME Rollup!Next PROVE RowTypes' /\ FromPublished'
  BY <1>1, <1>4, <1>6, RowStep
<1>7. ASSUME NEW l \in Items, Rollup!Publish(l) PROVE Rollup!Next
  BY <1>7 DEF Rollup!Next
<1>8. UNCHANGED <<vars, rollupSide, reported>> => published' = published /\ UNCHANGED rollupSide
  BY DEF vars
<1> QED
  BY <1>3, <1>5, <1>6, <1>7, <1>8 DEF PipelineInv, PipelineNext, IngestStep, RollupStep

LEMMA PipelineStart == PipelineInit => PipelineInv
<1> SUFFICES ASSUME Init, Rollup!Init PROVE PipelineInv
  BY DEF PipelineInit
<1>1. IngestInv
  BY IngestInit
<1>2. PublishedIsStored
  BY DEF Init, PublishedIsStored
<1>3. RowTypes
  BY RollupConstants, RollupJobs DEF Rollup!Init, RowTypes, Labels, Rollup!HandlerPC
<1>4. QueueIsPublished /\ WorkIsPublished /\ RowsArePublished
  BY RollupConstants DEF Rollup!Init, QueueIsPublished, WorkIsPublished, RowsArePublished, Fine
<1> QED
  BY <1>1, <1>2, <1>3, <1>4 DEF PipelineInv, FromPublished

\* Whatever fails, is posted again or corrected, a rollup contains only items
\* that can be looked up in the store, in the row of the team that owns them.
THEOREM RollupsAreBacked == PipelineSpec => []CountedIsBacked
<1>1. PipelineInit => PipelineInv
  BY PipelineStart
<1>2. PipelineInv /\ [PipelineNext]_<<vars, rollupSide, reported>> => PipelineInv'
  BY PipelineKeeps
<1>3. ASSUME PipelineInv PROVE CountedIsBacked
  <2>1. ASSUME NEW l \in Items, NEW k \in Rollup!Key, rollup[k].merged[l] > 0
        PROVE  /\ stored[ItemId[l]] # NoLine
               /\ ~Unowned(l)
               /\ k = <<DayOf[l], <<TeamOf[CenterOf[l]], ServiceOf[l]>>>>
    <3>1. published[l] > 0 /\ k = RowOfItem[l]
      BY <1>3, <2>1 DEF PipelineInv, FromPublished, RowsArePublished, Belongs
    <3>2. stored[ItemId[l]] # NoLine /\ CenterOf[l] \in Centers
      BY <1>3, <3>1 DEF PipelineInv, PublishedIsStored
    <3> QED
      BY <3>1, <3>2 DEF Unowned, RowOfItem, RowOf, Team
  <2> QED
    BY <2>1 DEF CountedIsBacked
<1> QED
  BY <1>1, <1>2, <1>3, PTL DEF PipelineSpec

(***************************************************************************)
(* A clean batch is counted                                                *)
(***************************************************************************)
\* In a batch without a failure every owned item that was read is published,
\* except the one in hand.
Forwarded(h) ==
  pc[h] # "idle" /\ batch[h]["failed"] = 0 =>
    \A n \in 1..pos[h] :
      /\ Batch[body[h]][n] \in Items
      /\ ~Unowned(Batch[body[h]][n])
      /\ InWork(h) => n # pos[h]
      => published[Batch[body[h]][n]] > 0

LEMMA ForwardFrame ==
  ASSUME TypeOK, [Next]_vars, NEW h \in Handlers, Forwarded(h),
         pc'[h] = pc[h], body'[h] = body[h], pos'[h] = pos[h], batch'[h] = batch[h]
  PROVE  Forwarded(h)'
<1>1. InWork(h)' <=> InWork(h)
  BY DEF InWork
<1>2. \A l \in Items : (~Unowned(l))' => ~Unowned(l)
  BY DEF Unowned
<1> QED
  BY <1>1, <1>2, PublishedGrows DEF Forwarded

\* A handler goes on with its line, or is done with it.
LEMMA ForwardStays ==
  ASSUME Shape, [Next]_vars, NEW h \in Handlers, Forwarded(h), InWork(h),
         NEW label \in PCs, NEW C \in SUBSET Counter, Stays(h, label, C),
         \/ label \in {"save", "publish"}
         \/ "failed" \in C
         \/ Unowned(Line(h))
         \/ published'[Line(h)] > 0
  PROVE  Forwarded(h)'
<1>1. /\ TypeOK /\ pc'[h] = label /\ body' = body /\ pos' = pos
      /\ batch[h]["failed"] \in Nat
      /\ batch'[h]["failed"] =
           IF "failed" \in C THEN batch[h]["failed"] + 1 ELSE batch[h]["failed"]
  BY CounterTypes DEF Shape, Stays, Adds, TypeOK, Counter
<1>2. batch'[h]["failed"] = 0 => batch[h]["failed"] = 0 /\ "failed" \notin C
  BY <1>1
<1>3. \A l \in Items : (~Unowned(l))' => ~Unowned(l)
  BY DEF Unowned
<1>4. SUFFICES ASSUME batch'[h]["failed"] = 0, NEW n \in 1..pos[h],
                      Batch[body[h]][n] \in Items, ~Unowned(Batch[body[h]][n]),
                      InWork(h)' => n # pos[h]
               PROVE  published'[Batch[body[h]][n]] > 0
  BY <1>1, <1>3 DEF Forwarded
<1>5. CASE n # pos[h]
  <2>1. published[Batch[body[h]][n]] > 0
    BY <1>2, <1>4, <1>5 DEF Forwarded, InWork
  <2> QED
    BY <1>1, <1>4, <2>1, PublishedGrows
<1>6. CASE n = pos[h]
  <2>1. Line(h) = Batch[body[h]][n] /\ ~InWork(h)'
    BY <1>4, <1>6 DEF Line
  <2>2. label \notin {"save", "publish"}
    BY <1>1, <2>1 DEF InWork
  <2> QED
    BY <1>2, <1>4, <2>1, <2>2
<1> QED
  BY <1>5, <1>6

\* The line that is read is no item, or nobody's, or in hand.
LEMMA ForwardReads ==
  ASSUME Shape, [Next]_vars, NEW h \in Handlers, Forwarded(h), NextLine(h)
  PROVE  Forwarded(h)'
<1>0. TypeOK /\ pos[h] \in Nat /\ batch[h]["failed"] \in Nat
  BY CounterTypes DEF Shape, TypeOK
<1>1. PICK label \in {"next", "lookup"}, C \in SUBSET Counter :
        /\ Reads(h, label, C)
        /\ \/ Coming(h) \in Blank \cup Garbled
           \/ CenterOf[Coming(h)] = NoTag
           \/ label = "lookup"
  BY <1>0, NextLineEffect DEF Counter
<1>2. /\ pc[h] = "next" /\ pc'[h] = label /\ body' = body /\ pos'[h] = pos[h] + 1
      /\ batch'[h]["failed"] =
           IF "failed" \in C THEN batch[h]["failed"] + 1 ELSE batch[h]["failed"]
  BY <1>0, <1>1 DEF Reads, Adds, TypeOK, Counter
<1>3. batch'[h]["failed"] = 0 => batch[h]["failed"] = 0
  BY <1>0, <1>2
<1>4. \A l \in Items : (~Unowned(l))' => ~Unowned(l)
  BY DEF Unowned
<1>5. SUFFICES ASSUME batch'[h]["failed"] = 0, NEW n \in 1..(pos[h] + 1),
                      Batch[body[h]][n] \in Items, ~Unowned(Batch[body[h]][n]),
                      InWork(h)' => n # pos[h] + 1
               PROVE  published'[Batch[body[h]][n]] > 0
  BY <1>2, <1>4 DEF Forwarded
<1>6. CASE n \in 1..pos[h]
  <2>1. published[Batch[body[h]][n]] > 0
    BY <1>2, <1>3, <1>5, <1>6 DEF Forwarded, InWork
  <2> QED
    BY <1>0, <1>5, <2>1, PublishedGrows
<1>7. CASE n = pos[h] + 1
  <2>1. Coming(h) = Batch[body[h]][n] /\ label # "lookup"
    BY <1>2, <1>5, <1>7 DEF Coming, InWork
  <2>2. Coming(h) \notin Blank \cup Garbled /\ CenterOf[Coming(h)] \in Centers
    BY <1>5, <2>1 DEF Items, Unowned
  <2> QED
    BY <1>1, <2>1, <2>2
<1> QED
  BY <1>0, <1>5, <1>6, <1>7

LEMMA ForwardStep ==
  ASSUME Shape, \A h \in Handlers : Forwarded(h), [Next]_vars
  PROVE  \A h \in Handlers : Forwarded(h)'
<1>0. TypeOK /\ SeedInv /\ ItemInHand
  BY DEF Shape
<1>1. ASSUME UNCHANGED <<pc, body, pos, batch>> PROVE \A h \in Handlers : Forwarded(h)'
  BY <1>0, <1>1, ForwardFrame
<1>2. ASSUME NEW h \in Handlers, Forwarded(h)',
             \A g \in Handlers \ {h} :
               /\ pc'[g] = pc[g] /\ body'[g] = body[g] /\ pos'[g] = pos[g]
               /\ batch'[g] = batch[g]
      PROVE  \A g \in Handlers : Forwarded(g)'
  BY <1>0, <1>2, ForwardFrame
<1>3. "next" \in PCs /\ "lookup" \in PCs /\ "save" \in PCs /\ "publish" \in PCs
  BY DEF PCs
<1>4. ASSUME NEW h \in Handlers, NEW label \in PCs, NEW C,
             Stays(h, label, C) \/ Reads(h, label, C)
      PROVE  \A g \in Handlers \ {h} :
               /\ pc'[g] = pc[g] /\ body'[g] = body[g] /\ pos'[g] = pos[g]
               /\ batch'[g] = batch[g]
  BY <1>0, <1>4 DEF Stays, Reads, Adds, TypeOK
<1>5. ASSUME NEW h \in Handlers, InWork(h), NEW label \in PCs, NEW C \in SUBSET Counter,
             Stays(h, label, C),
             \/ label \in {"save", "publish"}
             \/ "failed" \in C
             \/ Unowned(Line(h))
             \/ published'[Line(h)] > 0
      PROVE  \A g \in Handlers : Forwarded(g)'
  BY <1>2, <1>4, <1>5, ForwardStays
<1>6. ASSUME NEW h \in Handlers, NextLine(h) PROVE \A g \in Handlers : Forwarded(g)'
  <2>1. Forwarded(h)'
    BY <1>6, ForwardReads
  <2>2. \E label \in PCs, C \in SUBSET Counter : Reads(h, label, C)
    BY <1>0, <1>3, <1>6, NextLineEffect DEF Counter
  <2> QED
    BY <1>2, <1>4, <2>1, <2>2
<1>7. ASSUME NEW h \in Handlers, Lookup(h) PROVE \A g \in Handlers : Forwarded(g)'
  <2>1. /\ pc[h] = "lookup" /\ InWork(h) /\ Line(h) \in Items
        /\ \/ CenterOf[Line(h)] \in seeded /\ Stays(h, "save", {"enriched"})
           \/ CenterOf[Line(h)] \notin seeded /\ Stays(h, "next", {"unmapped"})
    BY <1>0, <1>7, WorkEffect DEF InWork, ItemInHand
  <2>2. {"enriched"} \in SUBSET Counter /\ {"unmapped"} \in SUBSET Counter
    BY DEF Counter
  <2>3. Centers \subseteq seeded
    BY <1>0, <2>1 DEF TypeOK, SeedInv
  <2>4. CenterOf[Line(h)] \notin seeded => Unowned(Line(h))
    BY <2>1, <2>3 DEF Unowned, Items
  <2> QED
    BY <1>3, <1>5, <2>1, <2>2, <2>4
<1>8. ASSUME NEW h \in Handlers, Save(h) PROVE \A g \in Handlers : Forwarded(g)'
  <2>1. InWork(h) /\ Stays(h, "publish", {})
    BY <1>0, <1>8, WorkEffect DEF InWork
  <2> QED
    BY <1>3, <1>5, <2>1
<1>9. ASSUME NEW h \in Handlers, Publish(h) PROVE \A g \in Handlers : Forwarded(g)'
  <2>1. InWork(h) /\ Line(h) \in Items /\ Stays(h, "next", {"published"}) /\ Emit(h)
    BY <1>0, <1>9, WorkEffect DEF InWork, ItemInHand
  <2>2. published'[Line(h)] > 0
    BY <1>0, <2>1 DEF Emit, TypeOK
  <2>3. {"published"} \in SUBSET Counter
    BY DEF Counter
  <2> QED
    BY <1>3, <1>5, <2>1, <2>2, <2>3
<1>10. ASSUME NEW h \in Handlers, LookupFails(h) \/ SaveFails(h) \/ PublishFails(h)
       PROVE  \A g \in Handlers : Forwarded(g)'
  <2>1. InWork(h) /\ Stays(h, "next", {"failed"})
    BY <1>0, <1>10, WorkEffect DEF InWork
  <2>2. {"failed"} \in SUBSET Counter
    BY DEF Counter
  <2> QED
    BY <1>3, <1>5, <2>1, <2>2
<1>11. ASSUME NEW h \in Handlers, Answer(h) PROVE \A g \in Handlers : Forwarded(g)'
  <2>1. /\ pc' = [pc EXCEPT ![h] = "idle"] /\ body' = [body EXCEPT ![h] = NoBody]
        /\ pos' = pos /\ Adds(h, {})
    BY <1>0, <1>11, WorkEffect
  <2>2. Forwarded(h)'
    BY <1>0, <2>1 DEF TypeOK, Forwarded
  <2> QED
    BY <1>0, <1>2, <2>1, <2>2 DEF TypeOK, Adds
<1>12. ASSUME NEW h \in Handlers, NEW b \in Bodies, Post(h, b)
       PROVE  \A g \in Handlers : Forwarded(g)'
  <2>1. /\ pc' = [pc EXCEPT ![h] = "next"] /\ body' = [body EXCEPT ![h] = b]
        /\ pos' = [pos EXCEPT ![h] = 0] /\ batch' = [batch EXCEPT ![h] = Zero]
    BY <1>12 DEF Post
  <2>2. pos'[h] = 0
    BY <1>0, <2>1 DEF TypeOK
  <2>3. Forwarded(h)'
    BY <2>2 DEF Forwarded
  <2> QED
    BY <1>0, <1>2, <2>1, <2>3 DEF TypeOK
<1>13. Crash => \A h \in Handlers : Forwarded(h)'
  BY DEF Crash, Forwarded
<1>14. Boot \/ SeedCenterFails \/ UNCHANGED vars => \A h \in Handlers : Forwarded(h)'
  BY <1>1 DEF Boot, SeedCenter, Listen, SeedCenterFails, vars
<1> QED
  BY <1>6, <1>7, <1>8, <1>9, <1>10, <1>11, <1>12, <1>13, <1>14 DEF Next, Step

\* What a clean summary reports is published.
ReportedIsPublished ==
  \A id \in reported : \E l \in Items : ItemId[l] = id /\ published[l] > 0

CleanInv ==
  IngestInv /\ (\A h \in Handlers : Forwarded(h)) /\ ReportedIsPublished

LEMMA CleanStep ==
  ASSUME CleanInv, [PipelineNext]_<<vars, rollupSide, reported>>
  PROVE  CleanInv'
<1>1. IngestInv /\ Shape /\ TypeOK /\ \A h \in Handlers : Forwarded(h)
  BY DEF CleanInv, IngestInv, Shape
<1>2. [Next]_vars
  BY DEF PipelineNext, IngestStep, RollupStep
<1>3. IngestInv' /\ \A h \in Handlers : Forwarded(h)'
  BY <1>1, <1>2, IngestNext, ForwardStep
<1>4. \A l \in Items : published[l] > 0 => published'[l] > 0
  BY <1>1, <1>2, PublishedGrows
<1>5. ASSUME NEW id, NEW h \in Handlers, ReportsAll(h, id)
      PROVE  \E l \in Items : ItemId[l] = id /\ published[l] > 0
  <2>1. PICK n \in 1..pos[h] : /\ Batch[body[h]][n] \in Items
                               /\ ~Unowned(Batch[body[h]][n])
                               /\ ItemId[Batch[body[h]][n]] = id
    BY <1>5 DEF ReportsAll
  <2>2. pc[h] = "next" /\ batch[h]["failed"] = 0
    BY <1>5 DEF ReportsAll, AtEnd
  <2>3. ~InWork(h) /\ pc[h] # "idle"
    BY <2>2 DEF InWork
  <2>4. published[Batch[body[h]][n]] > 0
    BY <1>1, <2>1, <2>2, <2>3 DEF Forwarded
  <2> QED
    BY <2>1, <2>4
<1>6. \A id \in reported' : id \in reported \/ \E h \in Handlers : ReportsAll(h, id)
  BY DEF PipelineNext, Observe
<1>7. ReportedIsPublished'
  BY <1>4, <1>5, <1>6 DEF CleanInv, ReportedIsPublished
<1> QED
  BY <1>3, <1>7 DEF CleanInv

\* rollup-svc as Pipeline has it, with what is proved about it.
RP == INSTANCE RollupSvc_proofs WITH
  Events <- Items, Malformed <- {}, LineId <- IdOfItem,
  Days <- ItemDays, Groups <- ItemGroups,
  EventKey <- RowOfItem, EventCost <- CostOfItem,
  Handlers <- Subscribers, Scanners <- {}, Grid <- <<>>,
  BaselineDays <- 0, PctNum <- 3, PctDen <- 2,
  MinBaselineUSD <- 10, MaxCopies <- ItemCopies,
  MaxScans <- 0, MaxFaults <- MaxRollupFaults, NoEvent <- NoLine,
  pc <- subscriber, faults <- rollupFaults

\* RP and Rollup are the same specification.
LEMMA SameSpec == Rollup!Spec => RP!Spec
<1>1. Rollup!Init => RP!Init
  BY DEF Rollup!Key, RP!Key, Rollup!Workers, RP!Workers, Rollup!broker,
         RP!broker, Rollup!EmptyBag, RP!EmptyBag, Rollup!Absent, RP!Absent,
         Rollup!NoHistory, RP!NoHistory, Rollup!NoJob, RP!NoJob,
         Rollup!ProbeOf, RP!ProbeOf, Rollup!NoProbe, RP!NoProbe,
         Rollup!NoScan, RP!NoScan, Rollup!Init, RP!Init
<1>2. [Rollup!Next]_(Rollup!vars) => [RP!Next]_(RP!vars)
  BY DEF Rollup!Key, RP!Key, Rollup!Workers, RP!Workers, Rollup!broker,
         RP!broker, Rollup!store, RP!store, Rollup!alarms, RP!alarms,
         Rollup!locals, RP!locals, Rollup!ghosts, RP!ghosts, Rollup!vars,
         RP!vars, Rollup!EmptyBag, RP!EmptyBag, Rollup!Absent, RP!Absent,
         Rollup!Merge, RP!Merge, Rollup!CostOf, RP!CostOf, Rollup!NoHistory,
         RP!NoHistory, Rollup!WithDay, RP!WithDay, Rollup!Detect, RP!Detect,
         Rollup!Present, RP!Present, Rollup!Prior, RP!Prior, Rollup!HistoryTo,
         RP!HistoryTo, Rollup!History, RP!History, Rollup!Trips, RP!Trips,
         Rollup!NoJob, RP!NoJob, Rollup!JobFor, RP!JobFor, Rollup!ProbeOf,
         RP!ProbeOf, Rollup!NoProbe, RP!NoProbe, Rollup!NoScan, RP!NoScan,
         Rollup!Answers, RP!Answers, Rollup!IdOf, RP!IdOf, Rollup!KeyOf,
         RP!KeyOf, Rollup!Done, RP!Done, Rollup!Goto, RP!Goto, Rollup!Fault,
         RP!Fault, Rollup!Publish, RP!Publish, Rollup!Deliver, RP!Deliver,
         Rollup!DropMalformed, RP!DropMalformed, Rollup!Respond, RP!Respond,
         Rollup!Redeliver, RP!Redeliver, Rollup!InFlight, RP!InFlight,
         Rollup!Crash, RP!Crash, Rollup!IsDuplicate, RP!IsDuplicate,
         Rollup!MarkProcessed, RP!MarkProcessed, Rollup!DuplicateAnswer,
         RP!DuplicateAnswer, Rollup!SkipDuplicate, RP!SkipDuplicate,
         Rollup!MarkProcessedFails, RP!MarkProcessedFails, Rollup!ReadRollup,
         RP!ReadRollup, Rollup!ReadRollupFails, RP!ReadRollupFails,
         Rollup!ETagMatches, RP!ETagMatches, Rollup!TornBy, RP!TornBy,
         Rollup!StoreRollup, RP!StoreRollup, Rollup!CommitRollup,
         RP!CommitRollup, Rollup!LastAttempt, RP!LastAttempt,
         Rollup!RetryRollup, RP!RetryRollup, Rollup!ExhaustRollup,
         RP!ExhaustRollup, Rollup!WriteRollupFails, RP!WriteRollupFails,
         Rollup!FetchCurrent, RP!FetchCurrent, Rollup!FetchPrior,
         RP!FetchPrior, Rollup!FetchFails, RP!FetchFails, Rollup!IsAnomaly,
         RP!IsAnomaly, Rollup!RunDetect, RP!RunDetect, Rollup!AlreadyMarked,
         RP!AlreadyMarked, Rollup!SaveMarker, RP!SaveMarker,
         Rollup!DetectedDup, RP!DetectedDup, Rollup!SaveMarkerFails,
         RP!SaveMarkerFails, Rollup!PublishAnomaly, RP!PublishAnomaly,
         Rollup!PublishAnomalyFails, RP!PublishAnomalyFails, Rollup!StartScan,
         RP!StartScan, Rollup!NextPair, RP!NextPair, Rollup!EndScan,
         RP!EndScan, Rollup!Apply, RP!Apply, Rollup!RunDetection,
         RP!RunDetection, Rollup!ScanStep, RP!ScanStep, Rollup!Receive,
         RP!Receive, Rollup!Disturb, RP!Disturb, Rollup!Next, RP!Next,
         Rollup!MapThenSumSet, RP!MapThenSumSet, Rollup!MapThenFoldSet,
         RP!MapThenFoldSet, Rollup!Cardinality, RP!Cardinality
<1> QED
  BY <1>1, <1>2, PTL DEF Rollup!Spec, RP!Spec

\* What RollupSvc assumes of its constants holds of the pipeline's.
LEMMA RollupAssumptions ==
  /\ RP!IsFiniteSet(Items) /\ RP!IsFiniteSet(Subscribers)
  /\ {} \subseteq Items /\ NoLine \notin Items /\ ItemDays \subseteq Int
  /\ IdOfItem \in [Items -> Ids]
  /\ RowOfItem \in [Items -> RP!Key]
  /\ CostOfItem \in [Items -> Int]
  /\ Subscribers \cap {} = {} /\ <<>> \in Seq(ItemGroups)
  /\ MaxETagRetries \in Nat \ {0} /\ 0 \in Nat /\ 3 \in Nat /\ 2 \in Nat \ {0}
  /\ 10 \in Int /\ ItemCopies \in Nat /\ MaxRollupFaults \in Nat
<1>1. /\ RP!IsFiniteSet(Items) /\ RP!IsFiniteSet(Subscribers)
  BY ItemsAssumption, SubscribersAssumption DEF RP!IsFiniteSet, IsFiniteSet
<1>2. ItemCopies \in Nat
  BY ItemsAssumption, FS_CardinalityType DEF ItemCopies
<1>3. RowOfItem \in [Items -> RP!Key]
  BY DEF RowOfItem, RowOf, ItemDays, ItemGroups, RP!Key
<1>4. /\ NoLine \notin Items /\ ItemDays \subseteq Int
      /\ IdOfItem \in [Items -> Ids] /\ CostOfItem \in [Items -> Int]
  BY ItemsAssumption DEF Items, ItemDays, IdOfItem, CostOfItem
<1> QED
  BY <1>1, <1>2, <1>3, <1>4, ItemsAssumption, SubscribersAssumption

\* main.go:101-109: at rest, what a batch without a failure reported is
\* counted, unless a call of rollup-svc failed or a merge lost all its races.
THEOREM CleanBatchesAreCounted == PipelineSpec => []CleanBatchIsCounted
<1>1. PipelineInit => CleanInv
  BY IngestInit DEF PipelineInit, Init, CleanInv, Forwarded, ReportedIsPublished
<1>2. CleanInv /\ [PipelineNext]_<<vars, rollupSide, reported>> => CleanInv'
  BY CleanStep
<1>3. PipelineSpec => []CleanInv
  BY <1>1, <1>2, PTL DEF PipelineSpec
<1>4. RP!Spec => []RP!PublishedAtRest
  BY RollupAssumptions, RP!WhatIsPublishedIsCounted
<1>5. ASSUME ReportedIsPublished, RP!PublishedAtRest PROVE CleanBatchIsCounted
  <2> SUFFICES ASSUME Rollup!Quiet, NEW id \in reported
               PROVE  Counted(id) \/ exhausted \/ rollupFaults > 0
    BY DEF CleanBatchIsCounted
  <2>1. PICK l \in Items : ItemId[l] = id /\ published[l] > 0
    BY <1>5 DEF ReportedIsPublished
  <2>2. RP!Quiet
    BY DEF Rollup!Quiet, RP!Quiet, Rollup!Workers, RP!Workers
  <2>3. RP!CountedAs(IdOfItem[l]) # {} \/ exhausted \/ rollupFaults > 0
    BY <1>5, <2>1, <2>2 DEF RP!PublishedAtRest
  <2>4. RP!CountedAs(IdOfItem[l]) = Rollup!CountedAs(id)
    BY <2>1 DEF RP!CountedAs, Rollup!CountedAs, IdOfItem
  <2> QED
    BY <2>3, <2>4 DEF Counted
<1>6. CleanInv => ReportedIsPublished
  BY DEF CleanInv
<1> QED
  BY <1>3, <1>4, <1>5, <1>6, PipelineIsRollup, SameSpec, PTL
=============================================================================
