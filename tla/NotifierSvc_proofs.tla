------------------------- MODULE NotifierSvc_proofs -------------------------
(***************************************************************************)
(* Proofs about NotifierSvc, for every finite set of threads, every size   *)
(* of the inbox and of the page, and every bound on calls and faults.      *)
(*                                                                         *)
(* The inbox is not what its property says while a thread holds the lock:  *)
(* it then has the one entry too many that the trim takes away.  So the    *)
(* invariant gives the inbox as a suffix of the log whose length depends   *)
(* on the lock.                                                            *)
(***************************************************************************)
EXTENDS NotifierSvc, FiniteSetTheorems, SequenceTheorems, TLAPS

(***************************************************************************)
(* The newest entries of a sequence                                        *)
(***************************************************************************)
\* Which entries Newest keeps, and how many.
LEMMA NewestProperties ==
  ASSUME NEW S, NEW s \in Seq(S), NEW n \in Nat
  PROVE  /\ Newest(s, n) \in Seq(S)
         /\ Len(Newest(s, n)) = IF Len(s) <= n THEN Len(s) ELSE n
         /\ \A i \in 1..Len(Newest(s, n)) :
              Newest(s, n)[i] = s[Len(s) - Len(Newest(s, n)) + i]
<1>1. CASE Len(s) <= n
  BY <1>1 DEF Newest
<1>2. CASE ~(Len(s) <= n)
  <2>1. Newest(s, n) = SubSeq(s, Len(s) - n + 1, Len(s))
    BY <1>2 DEF Newest
  <2>2. \A i \in (Len(s) - n + 1)..Len(s) : s[i] \in S
    BY <1>2
  <2> QED
    BY <1>2, <2>1, <2>2
<1> QED
  BY <1>1, <1>2

\* The newest of the newest are the newest.
LEMMA NewestOfNewest ==
  ASSUME NEW S, NEW s \in Seq(S), NEW n \in Nat, NEW m \in 0..n
  PROVE  Newest(Newest(s, n), m) = Newest(s, m)
<1> DEFINE t == Newest(s, n)
<1> DEFINE a == Newest(t, m)
<1> DEFINE b == Newest(s, m)
<1>1. /\ t \in Seq(S)
      /\ Len(t) = IF Len(s) <= n THEN Len(s) ELSE n
      /\ \A i \in 1..Len(t) : t[i] = s[Len(s) - Len(t) + i]
  BY NewestProperties
<1>2. /\ b \in Seq(S)
      /\ Len(b) = IF Len(s) <= m THEN Len(s) ELSE m
      /\ \A i \in 1..Len(b) : b[i] = s[Len(s) - Len(b) + i]
  BY NewestProperties
<1> HIDE DEF t, b
<1>3. /\ a \in Seq(S)
      /\ Len(a) = IF Len(t) <= m THEN Len(t) ELSE m
      /\ \A i \in 1..Len(a) : a[i] = t[Len(t) - Len(a) + i]
  BY <1>1, NewestProperties
<1> HIDE DEF a
<1>4. Len(a) = Len(b)
  BY <1>1, <1>2, <1>3
<1>5. ASSUME NEW i \in 1..Len(a) PROVE a[i] = b[i]
  <2> DEFINE j == Len(t) - Len(a) + i
  <2>1. /\ Len(a) \in Nat /\ Len(t) \in Nat /\ Len(s) \in Nat
        /\ i \in 1..Len(a) /\ Len(a) <= Len(t) /\ Len(a) = Len(b)
    BY <1>1, <1>3, <1>4
  <2>2. j \in 1..Len(t) /\ Len(s) - Len(t) + j = Len(s) - Len(b) + i
    BY ONLY <2>1 DEF j
  <2>3. a[i] = t[j] /\ b[i] = s[Len(s) - Len(b) + i]
    BY <1>2, <1>3, <1>4
  <2> HIDE DEF j
  <2>4. t[j] = s[Len(s) - Len(t) + j]
    BY <1>1, <2>2
  <2> QED
    BY <2>2, <2>3, <2>4
<1>6. a = b
  BY <1>2, <1>3, <1>4, <1>5, SeqEqual
<1> QED
  BY <1>6 DEF a, b, t

\* An append before the trim leaves one entry more.
LEMMA NewestAppend ==
  ASSUME NEW S, NEW s \in Seq(S), NEW e \in S, NEW n \in Nat
  PROVE  Append(Newest(s, n), e) = Newest(Append(s, e), n + 1)
<1> DEFINE t == Newest(s, n)
<1> DEFINE u == Append(s, e)
<1> DEFINE a == Append(t, e)
<1> DEFINE b == Newest(u, n + 1)
<1>1. /\ t \in Seq(S)
      /\ Len(t) = IF Len(s) <= n THEN Len(s) ELSE n
      /\ \A i \in 1..Len(t) : t[i] = s[Len(s) - Len(t) + i]
  BY NewestProperties
<1>2. /\ u \in Seq(S)
      /\ Len(u) = Len(s) + 1
      /\ \A i \in 1..Len(s) : u[i] = s[i]
      /\ u[Len(s) + 1] = e
  BY AppendProperties
<1> HIDE DEF t, u
<1>3. /\ b \in Seq(S)
      /\ Len(b) = IF Len(u) <= n + 1 THEN Len(u) ELSE n + 1
      /\ \A i \in 1..Len(b) : b[i] = u[Len(u) - Len(b) + i]
  <2>1. u \in Seq(S) /\ n + 1 \in Nat
    BY <1>2
  <2> QED
    BY <2>1, NewestProperties
<1>4. /\ a \in Seq(S)
      /\ Len(a) = Len(t) + 1
      /\ \A i \in 1..Len(t) : a[i] = t[i]
      /\ a[Len(t) + 1] = e
  BY <1>1, AppendProperties
<1> HIDE DEF a, b
<1>5. Len(a) = Len(b)
  BY <1>1, <1>2, <1>3, <1>4
<1>6. ASSUME NEW i \in 1..Len(a) PROVE a[i] = b[i]
  <2>1. b[i] = u[Len(u) - Len(b) + i]
    BY <1>3, <1>5
  <2>2. CASE i \in 1..Len(t)
    <3> DEFINE j == Len(s) - Len(t) + i
    <3>1. /\ Len(t) \in Nat /\ Len(s) \in Nat /\ Len(t) <= Len(s)
          /\ Len(u) = Len(s) + 1 /\ Len(b) = Len(t) + 1
      BY <1>1, <1>2, <1>4, <1>5
    <3>2. j \in 1..Len(s) /\ Len(u) - Len(b) + i = j
      BY ONLY <2>2, <3>1 DEF j
    <3>3. a[i] = s[j] /\ b[i] = u[Len(u) - Len(b) + i]
      BY <1>1, <1>4, <2>1, <2>2
    <3> HIDE DEF j
    <3> QED
      BY <1>2, <3>2, <3>3
  <2>3. CASE i = Len(t) + 1
    BY <1>1, <1>2, <1>3, <1>4, <2>1, <2>3
  <2> QED
    BY <1>1, <1>4, <2>2, <2>3
<1>7. a = b
  BY <1>3, <1>4, <1>5, <1>6, SeqEqual
<1> QED
  BY <1>7 DEF a, b, t, u

\* A listing turned round is as long and of the same entries.
LEMMA ReverseProperties ==
  ASSUME NEW S, NEW s \in Seq(S)
  PROVE  Reverse(s) \in Seq(S) /\ Len(Reverse(s)) = Len(s)
BY IsASeq DEF Reverse

(***************************************************************************)
(* The inductive invariant                                                 *)
(***************************************************************************)
\* A thread that works on a notification has its body, and what became of it
\* once that is known.
WorkInHand ==
  \A t \in Threads :
    /\ pc[t] \in {"render", "post", "record", "trim"} => request[t] \in Requests
    /\ pc[t] \in {"record", "trim"} => mark[t] \in Mark

\* How many entries the inbox may have: one more until the trim.
Depth == IF LockFree THEN InboxMax ELSE InboxMax + 1

InboxFollowsLog == inbox = Newest(log, Depth)

\* What a thread has copied is not more than what it is about to count.
ListedIsThere ==
  \A t \in Threads : pc[t] = "count" => Len(items[t]) <= Len(inbox)

Shape == TypeOK /\ broken \in Nat /\ WorkInHand /\ InboxFollowsLog /\ ListedIsThere

\* A process that has just started has an empty inbox.
LEMMA InitShape == Init => Shape
<1> USE DEF Mark, Counter
<1> SUFFICES ASSUME Init PROVE Shape
  OBVIOUS
<1>1. <<>> \in Seq(Entry) /\ Len(<<>>) = 0
  OBVIOUS
<1>2. inbox = Newest(log, Depth)
  BY <1>1, InboxAssumption DEF Init, Newest, Depth, LockFree
<1>3. TypeOK
  <2>1. stats \in [Counter -> Nat]
    BY DEF Init, NoStats
  <2>2. /\ items \in [Threads -> Seq(Entry)] /\ inbox \in Seq(Entry)
        /\ log \in Seq(Entry)
        /\ \A t \in Threads : Len(items[t]) <= PageSize
        /\ Len(inbox) <= InboxMax
    BY <1>1, InboxAssumption DEF Init
  <2>3. count \in [Threads -> 0..InboxMax + 1]
    BY InboxAssumption DEF Init
  <2>4. /\ up \in BOOLEAN /\ real \in BOOLEAN
        /\ pc = [t \in Threads |-> "idle"]
        /\ request \in [Threads -> Requests \cup {None}]
        /\ mark \in [Threads -> Mark \cup {None}] /\ lock = None
    BY DEF Init
  <2> QED
    BY <2>1, <2>2, <2>3, <2>4, ThreadsAssumption DEF TypeOK, LockFree
<1>4. WorkInHand /\ ListedIsThere /\ broken \in Nat
  BY DEF Init, WorkInHand, ListedIsThere
<1> QED
  BY <1>2, <1>3, <1>4 DEF Shape, InboxFollowsLog

\* The inbox has at most one entry too many, and that only under the lock.
LEMMA InboxLength ==
  ASSUME TypeOK, InboxFollowsLog
  PROVE  /\ Len(inbox) \in 0..InboxMax + 1
         /\ LockFree => Len(inbox) <= InboxMax
<1>1. Depth \in Nat /\ Depth <= InboxMax + 1
  BY InboxAssumption DEF Depth
<1>2. /\ Len(inbox) = IF Len(log) <= Depth THEN Len(log) ELSE Depth
      /\ Len(log) \in Nat
  <2>1. log \in Seq(Entry) /\ inbox = Newest(log, Depth)
    BY DEF TypeOK, InboxFollowsLog
  <2> QED
    BY ONLY <1>1, <2>1, NewestProperties
<1> QED
  BY <1>1, <1>2, InboxAssumption DEF Depth

\* What /inbox shows is a page of entries.
LEMMA PageProperties ==
  ASSUME TypeOK
  PROVE  /\ Reverse(Newest(inbox, PageSize)) \in Seq(Entry)
         /\ Len(Reverse(Newest(inbox, PageSize))) <= PageSize
         /\ Len(Reverse(Newest(inbox, PageSize))) <= Len(inbox)
<1>1. PageSize \in Nat
  BY InboxAssumption
<1>2. /\ Newest(inbox, PageSize) \in Seq(Entry)
      /\ Len(Newest(inbox, PageSize)) =
           IF Len(inbox) <= PageSize THEN Len(inbox) ELSE PageSize
      /\ Len(inbox) \in Nat
  BY <1>1, NewestProperties DEF TypeOK
<1> QED
  BY <1>1, <1>2, ReverseProperties

\* Steps that leave the lock, the inbox and the log alone.
LEMMA QuietShape ==
  ASSUME Shape, TypeOK', UNCHANGED <<lock, inbox, log>>
  PROVE  InboxFollowsLog'
BY DEF Shape, InboxFollowsLog, Depth, LockFree

\* Every step keeps the types, and with them what a thread has in hand and how
\* the inbox follows from the log.
LEMMA ShapeStep ==
  ASSUME Shape, [Next]_vars
  PROVE  Shape'
<1> USE DEF Mark, Counter, Goto, Bump, LockFree, server, memory, local
<1>0. TypeOK /\ broken \in Nat /\ WorkInHand /\ InboxFollowsLog /\ ListedIsThere
  BY DEF Shape
<1> USE ThreadsAssumption
<1>1. ASSUME LoadWebhook PROVE Shape'
  BY <1>0, <1>1
  DEF LoadWebhook, Shape, TypeOK, WorkInHand, InboxFollowsLog, Depth,
      ListedIsThere
<1>2. ASSUME Crash PROVE Shape'
  <2>1. <<>> \in Seq(Entry) /\ Len(<<>>) = 0
    OBVIOUS
  <2>2. (inbox = Newest(log, Depth))'
    BY <1>2, <2>1, InboxAssumption DEF Crash, Newest, Depth
  <2>3. TypeOK'
    <3>1. stats' \in [Counter -> Nat]
      BY <1>2 DEF Crash, NoStats
    <3>2. /\ items' \in [Threads -> Seq(Entry)] /\ inbox' \in Seq(Entry)
          /\ log' \in Seq(Entry)
          /\ \A t \in Threads : Len(items'[t]) <= PageSize
          /\ Len(inbox') <= InboxMax
      BY <1>2, <2>1, InboxAssumption DEF Crash
    <3>3. count' \in [Threads -> 0..InboxMax + 1]
      BY <1>2, InboxAssumption DEF Crash
    <3>4. /\ up' \in BOOLEAN /\ real' \in BOOLEAN
          /\ pc' = [t \in Threads |-> "idle"]
          /\ request' \in [Threads -> Requests \cup {None}]
          /\ mark' \in [Threads -> Mark \cup {None}] /\ lock' = None
      BY <1>2 DEF Crash
    <3> QED
      BY <3>1, <3>2, <3>3, <3>4 DEF TypeOK
  <2>4. WorkInHand' /\ ListedIsThere' /\ broken' \in Nat
    BY <1>2 DEF Crash, WorkInHand, ListedIsThere
  <2> QED
    BY <2>2, <2>3, <2>4 DEF Shape, InboxFollowsLog
<1>3. ASSUME NEW t \in Threads, NEW r \in Requests, Notify(t, r)
      PROVE  Shape'
  BY <1>0, <1>3
  DEF Notify, Call, Shape, TypeOK, WorkInHand, InboxFollowsLog, Depth,
      ListedIsThere
<1>4. ASSUME NEW t \in Threads, RenderFails(t) PROVE Shape'
  BY <1>0, <1>4
  DEF RenderFails, Shape, TypeOK, WorkInHand, InboxFollowsLog, Depth,
      ListedIsThere
<1>a. ASSUME NEW t \in Threads, NEW d \in Mark, Tell(t, d),
             pc[t] \in {"render", "post"},
             UNCHANGED <<up, real, request, items, count, lock, inbox, log, broken>>
      PROVE  Shape'
  <2>1. stats' \in [Counter -> Nat]
    BY <1>0, <1>a DEF Tell, TypeOK
  <2>2. TypeOK'
    BY <1>0, <1>a, <2>1 DEF Tell, TypeOK
  <2>3. WorkInHand' /\ ListedIsThere'
    BY <1>0, <1>a DEF Tell, TypeOK, WorkInHand, ListedIsThere
  <2> QED
    BY <1>0, <1>a, <2>2, <2>3, QuietShape DEF Shape
<1>5. ASSUME NEW t \in Threads, Render(t) PROVE Shape'
  <2>1. CASE real
    BY <1>0, <1>5, <2>1
    DEF Render, Shape, TypeOK, WorkInHand, InboxFollowsLog, Depth,
        ListedIsThere
  <2>2. CASE ~real
    BY <1>5, <1>a, <2>2 DEF Render
  <2> QED
    BY <2>1, <2>2
<1>6. ASSUME NEW t \in Threads, PostWebhook(t) \/ PostWebhookFails(t)
      PROVE  Shape'
  BY <1>6, <1>a DEF PostWebhook, PostWebhookFails
<1>7. ASSUME NEW t \in Threads, AppendEntry(t) PROVE Shape'
  <2> DEFINE e == [request |-> request[t], delivered |-> mark[t]]
  <2>1. e \in Entry
    BY <1>0, <1>7 DEF AppendEntry, WorkInHand, Entry
  <2>2. /\ lock = None /\ lock' = t
        /\ inbox' = Append(inbox, e) /\ log' = Append(log, e)
        /\ UNCHANGED <<up, real, request, mark, items, count, stats, broken>>
        /\ pc' = [pc EXCEPT ![t] = "trim"] /\ pc[t] = "record"
    BY <1>7 DEF AppendEntry
  <2> HIDE DEF e
  <2>3. inbox \in Seq(Entry) /\ log \in Seq(Entry) /\ Len(inbox) \in Nat
    BY <1>0 DEF TypeOK
  <2>4. /\ inbox' \in Seq(Entry) /\ log' \in Seq(Entry)
        /\ Len(inbox') = Len(inbox) + 1
    BY <2>1, <2>2, <2>3, AppendProperties
  <2>5. TypeOK'
    BY <1>0, <2>2, <2>4 DEF TypeOK
  <2>6. InboxFollowsLog'
    <3>1. inbox = Newest(log, InboxMax)
      BY <1>0, <2>2 DEF InboxFollowsLog, Depth
    <3>2. Append(Newest(log, InboxMax), e) = Newest(Append(log, e), InboxMax + 1)
      BY <2>1, <2>3, NewestAppend, InboxAssumption
    <3> QED
      BY <2>2, <3>1, <3>2 DEF InboxFollowsLog, Depth
  <2>7. ListedIsThere'
    BY <1>0, <2>2, <2>3, <2>4 DEF ListedIsThere, TypeOK
  <2>8. WorkInHand'
    BY <1>0, <2>2 DEF WorkInHand, TypeOK
  <2> QED
    BY <1>0, <2>2, <2>5, <2>6, <2>7, <2>8 DEF Shape
<1>8. ASSUME NEW t \in Threads, Trim(t) PROVE Shape'
  <2>1. /\ lock = t /\ lock' = None /\ log' = log
        /\ inbox' = Newest(inbox, InboxMax)
    BY <1>0, <1>8 DEF Trim, Trimmed, Released, TypeOK
  <2>2. log \in Seq(Entry) /\ inbox \in Seq(Entry) /\ InboxMax \in Nat
    BY <1>0, InboxAssumption DEF TypeOK
  <2>3. inbox' = Newest(log, InboxMax)
    <3>1. inbox = Newest(log, InboxMax + 1)
      BY <1>0, <2>1 DEF InboxFollowsLog, Depth
    <3>2. InboxMax + 1 \in Nat /\ InboxMax \in 0..(InboxMax + 1)
      BY <2>2
    <3>3. Newest(Newest(log, InboxMax + 1), InboxMax) = Newest(log, InboxMax)
      BY <2>2, <3>2, NewestOfNewest
    <3> QED
      BY <2>1, <3>1, <3>3
  <2>4. /\ inbox' \in Seq(Entry) /\ Len(inbox) \in Nat
        /\ Len(inbox') = IF Len(inbox) <= InboxMax THEN Len(inbox) ELSE InboxMax
    BY <2>1, <2>2, NewestProperties
  <2>5. TypeOK'
    <3>1. Len(inbox') <= InboxMax
      BY <2>2, <2>4
    <3> QED
      BY <1>0, <1>8, <2>1, <2>4, <3>1 DEF Trim, TypeOK
  <2>6. ListedIsThere'
    BY <1>0, <1>8, <2>4, InboxAssumption DEF Trim, ListedIsThere, TypeOK
  <2>7. WorkInHand' /\ broken' \in Nat
    BY <1>0, <1>8 DEF Trim, WorkInHand, TypeOK
  <2> QED
    BY <2>1, <2>3, <2>5, <2>6, <2>7 DEF Shape, InboxFollowsLog, Depth
<1>9. ASSUME NEW t \in Threads, Inbox(t) PROVE Shape'
  <2> DEFINE page == Reverse(Newest(inbox, PageSize))
  <2>1. page \in Seq(Entry) /\ Len(page) <= PageSize /\ Len(page) <= Len(inbox)
    BY <1>0, PageProperties
  <2>2. /\ items' = [items EXCEPT ![t] = page]
        /\ pc' = [pc EXCEPT ![t] = "count"] /\ pc[t] = "idle"
        /\ UNCHANGED <<up, real, request, mark, count, lock, inbox, stats, log,
                        broken>>
    BY <1>9 DEF Inbox, Call
  <2> HIDE DEF page
  <2> QED
    BY <1>0, <2>1, <2>2
    DEF Shape, TypeOK, WorkInHand, InboxFollowsLog, Depth, ListedIsThere
<1>10. ASSUME NEW t \in Threads, CountInbox(t) PROVE Shape'
  <2>1. Len(inbox) \in 0..InboxMax + 1
    BY <1>0, InboxLength
  <2> QED
    BY <1>0, <1>10, <2>1
    DEF CountInbox, Shape, TypeOK, WorkInHand, InboxFollowsLog, Depth,
        ListedIsThere
<1>11. ASSUME NEW t \in Threads, EndInbox(t) PROVE Shape'
  <2>1. <<>> \in Seq(Entry) /\ Len(<<>>) = 0 /\ PageSize \in Nat
    BY InboxAssumption
  <2>2. 0 \in 0..InboxMax + 1
    BY InboxAssumption
  <2> QED
    BY <1>0, <1>11, <2>1, <2>2
    DEF EndInbox, Shape, TypeOK, WorkInHand, InboxFollowsLog, Depth,
        ListedIsThere
<1>12. ASSUME UNCHANGED vars PROVE Shape'
  BY <1>0, <1>12
  DEF vars, Shape, TypeOK, WorkInHand, InboxFollowsLog, Depth, ListedIsThere
<1> QED
  BY <1>1, <1>2, <1>3, <1>4, <1>5, <1>6, <1>7, <1>8, <1>9, <1>10, <1>11,
     <1>12 DEF Next, Step

(***************************************************************************)
(* Counting                                                                *)
(***************************************************************************)
Underway     == {t \in Threads : pc[t] \in {"render", "post", "record"}}
Recording(d) == {t \in Threads : pc[t] = "record" /\ mark[t] = d}
Entries(d)   == {n \in DOMAIN log : log[n].delivered = d}

\* StatsMatchEntries, by the names of its sets.
Balanced ==
  /\ \A d \in Mark :
       stats[d] = Cardinality(Entries(d)) + Cardinality(Recording(d))
  /\ stats["received"] = Len(log) + broken + Cardinality(Underway)

LEMMA BalancedIsStats == Balanced <=> StatsMatchEntries
BY DEF Balanced, StatsMatchEntries, Recorded, Entries, Recording, Underway

\* One element more, one element less.
LEMMA OneMore ==
  ASSUME NEW S, NEW T, NEW x, IsFiniteSet(S), x \notin S, T = S \cup {x}
  PROVE  Cardinality(T) = Cardinality(S) + 1
BY FS_AddElement

LEMMA OneLess ==
  ASSUME NEW S, NEW T, NEW x, IsFiniteSet(S), x \in S, T = S \ {x}
  PROVE  Cardinality(T) = Cardinality(S) - 1
BY FS_RemoveElement

\* There are finitely many threads and entries.
LEMMA CountedSets ==
  ASSUME TypeOK
  PROVE  /\ IsFiniteSet(Underway) /\ Cardinality(Underway) \in Nat
         /\ \A d \in Mark :
              /\ IsFiniteSet(Recording(d)) /\ Cardinality(Recording(d)) \in Nat
              /\ IsFiniteSet(Entries(d)) /\ Cardinality(Entries(d)) \in Nat
<1>1. Underway \in SUBSET Threads /\ \A d \in Mark : Recording(d) \in SUBSET Threads
  BY DEF Underway, Recording
<1>2. IsFiniteSet(DOMAIN log)
  BY FS_Interval, LenProperties DEF TypeOK
<1>3. \A d \in Mark : Entries(d) \in SUBSET DOMAIN log
  BY DEF Entries
<1>4. IsFiniteSet(Underway)
  BY <1>1, ThreadsAssumption, FS_Subset
<1>5. ASSUME NEW d \in Mark
      PROVE  IsFiniteSet(Recording(d)) /\ IsFiniteSet(Entries(d))
  BY <1>1, <1>2, <1>3, ThreadsAssumption, FS_Subset
<1> QED
  BY <1>4, <1>5, FS_CardinalityType

\* A new entry counts for its own mark alone.
LEMMA EntryCounts ==
  ASSUME TypeOK, NEW e \in Entry, log' = Append(log, e), NEW d \in Mark
  PROVE  /\ d = e.delivered => Cardinality(Entries(d)') = Cardinality(Entries(d)) + 1
         /\ d # e.delivered => Entries(d)' = Entries(d)
         /\ Len(log') = Len(log) + 1
<1>1. /\ Len(log') = Len(log) + 1 /\ Len(log) \in Nat
      /\ DOMAIN log = 1..Len(log) /\ DOMAIN log' = 1..(Len(log) + 1)
      /\ \A n \in 1..Len(log) : log'[n] = log[n]
      /\ log'[Len(log) + 1] = e
  BY AppendProperties, LenProperties DEF TypeOK
<1>2. CASE d = e.delivered
  <2>1. Entries(d)' = Entries(d) \cup {Len(log) + 1} /\ Len(log) + 1 \notin Entries(d)
    BY <1>1, <1>2 DEF Entries
  <2> QED
    BY <1>1, <1>2, <2>1, CountedSets, OneMore
<1>3. CASE d # e.delivered
  <2>1. Entries(d)' = Entries(d)
    BY <1>1, <1>3 DEF Entries
  <2> QED
    BY <1>1, <1>3, <2>1
<1> QED
  BY <1>2, <1>3

\* A step that counts nothing and moves no thread over the line.
LEMMA NothingCounted ==
  ASSUME Balanced, UNCHANGED <<stats, log, broken>>, Underway' = Underway,
         \A d \in Mark : Recording(d)' = Recording(d)
  PROVE  Balanced'
<1>1. \A d \in Mark : Entries(d)' = Entries(d)
  BY DEF Entries
<1> QED
  BY <1>1 DEF Balanced

\* What the webhook made of a notification is counted, then recorded.
LEMMA TellBalances ==
  ASSUME TypeOK, Balanced, NEW t \in Threads, NEW d \in Mark, Tell(t, d),
         pc[t] \in {"render", "post"}, UNCHANGED <<log, broken>>
  PROVE  Balanced'
<1>1. Underway' = Underway
  BY DEF Tell, Goto, TypeOK, Underway
<1>2. /\ t \notin Recording(d) /\ Recording(d)' = Recording(d) \cup {t}
      /\ \A f \in Mark \ {d} : Recording(f)' = Recording(f)
  BY DEF Tell, Goto, TypeOK, Recording
<1>3. \A f \in Mark : Entries(f)' = Entries(f)
  BY DEF Entries
<1>4. Cardinality(Recording(d)') = Cardinality(Recording(d)) + 1
  BY <1>2, CountedSets, OneMore
<1>5. /\ stats'[d] = stats[d] + 1 /\ stats'["received"] = stats["received"]
      /\ \A f \in Mark \ {d} : stats'[f] = stats[f]
  BY DEF Tell, Bump, TypeOK, Counter, Mark
<1>6. stats'[d] = Cardinality(Entries(d)') + Cardinality(Recording(d)')
  BY <1>3, <1>4, <1>5, CountedSets DEF Balanced
<1>7. \A f \in Mark \ {d} :
        stats'[f] = Cardinality(Entries(f)') + Cardinality(Recording(f)')
  BY <1>2, <1>3, <1>5 DEF Balanced
<1> QED
  BY <1>1, <1>5, <1>6, <1>7 DEF Balanced

\* Every step keeps the counters in balance with the entries and with what
\* the threads have in hand.
LEMMA BalanceStep ==
  ASSUME Shape, Balanced, [Next]_vars
  PROVE  Balanced'
<1> USE DEF Goto, server, memory, local
<1>0. TypeOK /\ broken \in Nat /\ WorkInHand
  BY DEF Shape
<1>1. ASSUME LoadWebhook PROVE Balanced'
  BY <1>1, NothingCounted DEF LoadWebhook, Underway, Recording
<1>2. ASSUME Crash PROVE Balanced'
  <2>1. /\ Underway' = {} /\ \A d \in Mark : Recording(d)' = {} /\ Entries(d)' = {}
        /\ Len(log') = 0 /\ broken' = 0 /\ stats' = NoStats
    BY <1>2 DEF Crash, Underway, Recording, Entries
  <2>2. /\ \A d \in Mark : stats'[d] = 0
        /\ stats'["received"] = 0
    BY <2>1 DEF NoStats, Counter
  <2>3. /\ \A d \in Mark : Cardinality(Recording(d)') = 0 /\ Cardinality(Entries(d)') = 0
        /\ Cardinality(Underway') = 0
    BY <2>1, FS_EmptySet, Zenon
  <2>4. Len(log') = 0 /\ broken' = 0
    BY <2>1
  <2> QED
    BY <2>2, <2>3, <2>4 DEF Balanced
<1>3. ASSUME NEW t \in Threads, NEW r \in Requests, Notify(t, r)
      PROVE  Balanced'
  <2>1. t \notin Underway /\ Underway' = Underway \cup {t}
    BY <1>0, <1>3 DEF Notify, Call, TypeOK, Underway
  <2>2. \A d \in Mark : Recording(d)' = Recording(d) /\ Entries(d)' = Entries(d)
    BY <1>0, <1>3 DEF Notify, Call, TypeOK, Recording, Entries
  <2>3. /\ stats'["received"] = stats["received"] + 1
        /\ \A d \in Mark : stats'[d] = stats[d]
        /\ log' = log /\ broken' = broken /\ Len(log) \in Nat
    BY <1>0, <1>3 DEF Notify, Bump, TypeOK, Counter, Mark
  <2>4. Cardinality(Underway') = Cardinality(Underway) + 1
    BY <1>0, <2>1, CountedSets, OneMore
  <2> QED
    BY <1>0, <2>2, <2>3, <2>4, CountedSets DEF Balanced
<1>4. ASSUME NEW t \in Threads, RenderFails(t) PROVE Balanced'
  <2>1. t \in Underway /\ Underway' = Underway \ {t}
    BY <1>0, <1>4 DEF RenderFails, TypeOK, Underway
  <2>2. \A d \in Mark : Recording(d)' = Recording(d) /\ Entries(d)' = Entries(d)
    BY <1>0, <1>4 DEF RenderFails, TypeOK, Recording, Entries
  <2>3. stats' = stats /\ log' = log /\ broken' = broken + 1 /\ Len(log) \in Nat
    BY <1>0, <1>4 DEF RenderFails, TypeOK
  <2>4. Cardinality(Underway') = Cardinality(Underway) - 1
    BY <1>0, <2>1, CountedSets, OneLess
  <2> QED
    BY <1>0, <2>2, <2>3, <2>4, CountedSets DEF Balanced
<1>5. ASSUME NEW t \in Threads, Render(t) PROVE Balanced'
  <2>1. CASE real
    <3>1. Underway' = Underway /\ \A d \in Mark : Recording(d)' = Recording(d)
      BY <1>0, <1>5, <2>1 DEF Render, TypeOK, Underway, Recording
    <3> QED
      BY <1>5, <2>1, <3>1, NothingCounted DEF Render
  <2>2. CASE ~real
    BY <1>0, <1>5, <2>2, TellBalances DEF Render, Mark
  <2> QED
    BY <2>1, <2>2
<1>6. ASSUME NEW t \in Threads, PostWebhook(t) \/ PostWebhookFails(t)
      PROVE  Balanced'
  BY <1>0, <1>6, TellBalances DEF PostWebhook, PostWebhookFails, Mark
<1>7. ASSUME NEW t \in Threads, AppendEntry(t) PROVE Balanced'
  <2> DEFINE e == [request |-> request[t], delivered |-> mark[t]]
  <2>1. /\ e \in Entry /\ log' = Append(log, e) /\ e.delivered = mark[t]
        /\ mark[t] \in Mark /\ stats' = stats /\ broken' = broken
        /\ Len(log) \in Nat
    BY <1>0, <1>7 DEF AppendEntry, WorkInHand, Entry, TypeOK
  <2> HIDE DEF e
  <2>2. t \in Underway /\ Underway' = Underway \ {t}
    BY <1>0, <1>7 DEF AppendEntry, TypeOK, Underway
  <2>4. ASSUME NEW d \in Mark
        PROVE  /\ d = mark[t] =>
                    t \in Recording(d) /\ Recording(d)' = Recording(d) \ {t}
               /\ d # mark[t] => Recording(d)' = Recording(d)
    BY <1>0, <1>7, <2>4 DEF AppendEntry, TypeOK, Recording
  <2>5. ASSUME NEW d \in Mark
        PROVE  stats'[d] = Cardinality(Entries(d)') + Cardinality(Recording(d)')
    <3>1. CASE d = mark[t]
      <4>1. Cardinality(Recording(d)') = Cardinality(Recording(d)) - 1
        BY <1>0, <2>4, <3>1, CountedSets, OneLess
      <4>2. Cardinality(Entries(d)') = Cardinality(Entries(d)) + 1
        BY <1>0, <2>1, <3>1, EntryCounts
      <4> QED
        BY <1>0, <2>1, <4>1, <4>2, CountedSets DEF Balanced
    <3>2. CASE d # mark[t]
      BY <1>0, <2>1, <2>4, <3>2, EntryCounts DEF Balanced
    <3> QED
      BY <3>1, <3>2
  <2>6. Len(log') = Len(log) + 1
    BY <1>0, <2>1, EntryCounts
  <2>7. Cardinality(Underway') = Cardinality(Underway) - 1
    BY <1>0, <2>2, CountedSets, OneLess
  <2> QED
    BY <1>0, <2>1, <2>5, <2>6, <2>7, CountedSets DEF Balanced
<1>8. ASSUME NEW t \in Threads,
             Trim(t) \/ Inbox(t) \/ CountInbox(t) \/ EndInbox(t)
      PROVE  Balanced'
  <2>1. /\ pc[t] \in {"trim", "idle", "count", "listed"}
        /\ \E label \in {"idle", "count", "listed"} :
             pc' = [pc EXCEPT ![t] = label]
        /\ \E m \in {mark[t], None} : mark' = [mark EXCEPT ![t] = m]
        /\ UNCHANGED <<stats, log, broken>>
    BY <1>0, <1>8 DEF Trim, Inbox, Call, CountInbox, EndInbox, TypeOK
  <2>2. Underway' = Underway /\ \A d \in Mark : Recording(d)' = Recording(d)
    BY <1>0, <2>1 DEF TypeOK, Underway, Recording
  <2> QED
    BY <2>1, <2>2, NothingCounted
<1>9. ASSUME UNCHANGED vars PROVE Balanced'
  BY <1>9, NothingCounted DEF vars, Underway, Recording
<1> QED
  BY <1>1, <1>2, <1>3, <1>4, <1>5, <1>6, <1>7, <1>8, <1>9 DEF Next, Step

\* At the start nothing is counted.
LEMMA InitBalanced == Init => Balanced
<1> SUFFICES ASSUME Init PROVE Balanced
  OBVIOUS
<1>1. /\ Underway = {} /\ \A d \in Mark : Recording(d) = {} /\ Entries(d) = {}
      /\ Len(log) = 0 /\ broken = 0 /\ stats = NoStats
  BY DEF Init, Underway, Recording, Entries
<1>2. (\A d \in Mark : stats[d] = 0) /\ stats["received"] = 0
  BY <1>1 DEF NoStats, Counter
<1>3. /\ \A d \in Mark : Cardinality(Recording(d)) = 0 /\ Cardinality(Entries(d)) = 0
      /\ Cardinality(Underway) = 0
  BY <1>1, FS_EmptySet, Zenon
<1>4. Len(log) = 0 /\ broken = 0
  BY <1>1
<1> QED
  BY <1>2, <1>3, <1>4 DEF Balanced

Inv == Shape /\ Balanced

LEMMA InvAlways == Spec => []Inv
<1>1. Init => Inv
  BY InitShape, InitBalanced DEF Inv
<1>2. Inv /\ [Next]_vars => Inv'
  BY ShapeStep, BalanceStep DEF Inv
<1> QED
  BY <1>1, <1>2, PTL DEF Spec

(***************************************************************************)
(* The theorems                                                            *)
(***************************************************************************)
\* notifier.py:87-111, 173-177: every variable keeps its shape, exactly the
\* thread that trims holds the lock, and a list is never too long.
THEOREM NotifierTypeOK == Spec => []TypeOK
<1>1. Inv => TypeOK
  BY DEF Inv, Shape
<1> QED
  BY InvAlways, <1>1, PTL

\* notifier.py:116, 143-169: whatever the threads interleave and whenever the
\* process dies, each counter is the number of entries of its kind, give or
\* take what the threads have in hand.
THEOREM CountersMatchEntries == Spec => []StatsMatchEntries
<1>1. Inv => StatsMatchEntries
  BY BalancedIsStats DEF Inv
<1> QED
  BY InvAlways, <1>1, PTL

\* notifier.py:173-177: whenever the lock is free the inbox is the newest
\* INBOX_MAX entries of all that were recorded, in their order.
THEOREM InboxKeepsTheNewest == Spec => []InboxIsNewest
<1>1. Inv => InboxIsNewest
  BY DEF Inv, Shape, InboxFollowsLog, Depth, InboxIsNewest
<1> QED
  BY InvAlways, <1>1, PTL

\* What a call of /inbox copies is the newest page of the whole log.
LEMMA PageOfLog ==
  ASSUME Shape, LockFree
  PROVE  Newest(inbox, PageSize) = Newest(log, PageSize)
<1>1. log \in Seq(Entry) /\ inbox = Newest(log, InboxMax)
  BY DEF Shape, TypeOK, InboxFollowsLog, Depth
<1>2. InboxMax \in Nat /\ PageSize \in 0..InboxMax
  BY InboxAssumption
<1> QED
  BY <1>1, <1>2, NewestOfNewest

\* notifier.py:107-111: a listing is the newest page of all entries, newest
\* first, and the count next to it, read later and without the lock, is never
\* below the number of entries listed.
THEOREM ListingsAreCurrent == Spec => ListingIsCurrent
<1>1. ASSUME Inv, NEW t \in Threads
      PROVE  /\ Inbox(t) => items'[t] = Reverse(Newest(log, PageSize))
             /\ CountInbox(t) => count'[t] >= Len(items[t])
  <2>1. Inbox(t) => items'[t] = Reverse(Newest(log, PageSize))
    BY <1>1, PageOfLog DEF Inv, Shape, TypeOK, Inbox
  <2>2. CountInbox(t) => count'[t] >= Len(items[t])
    <3>1. TypeOK /\ ListedIsThere
      BY <1>1 DEF Inv, Shape
    <3>2. Len(items[t]) \in Nat /\ Len(inbox) \in Nat
      BY <3>1 DEF TypeOK
    <3> QED
      BY <3>1, <3>2 DEF CountInbox, ListedIsThere, TypeOK
  <2> QED
    BY <2>1, <2>2
<1>2. Inv /\ [Next]_vars =>
        [\A t \in Threads :
           /\ Inbox(t) => items'[t] = Reverse(Newest(log, PageSize))
           /\ CountInbox(t) => count'[t] >= Len(items[t])]_vars
  BY <1>1
<1> QED
  BY InvAlways, <1>2, PTL DEF Spec, ListingIsCurrent
=============================================================================
