---------------------------- MODULE NotifierSvc ----------------------------
(***************************************************************************)
(* notifier-svc (services/notifier-svc/notifier.py): a threaded server     *)
(* that renders a notification, posts it to the webhook when there is a    *)
(* real one, and keeps the last entries in an in-memory inbox.             *)
(*                                                                         *)
(* The increments of _stats are single steps: the image runs CPython 3.12, *)
(* which switches threads at calls and jumps only, and there is none       *)
(* between the load and the store of such a statement.                     *)
(***************************************************************************)
EXTENDS Integers, Sequences, FiniteSets, SequencesExt

CONSTANTS
  Threads,       \* threads of the server
  Requests,      \* bodies of POST /notify
  Unrenderable,  \* those that raise in build_..._payload or in body.get
  InboxMax,      \* INBOX_MAX, 100 in the code
  PageSize,      \* entries that /inbox shows, 20 in the code
  MaxRequests,   \* bound: calls of /notify and /inbox
  MaxFaults,     \* bound: crashes and failed startups
  None

ASSUME InboxAssumption ==
  /\ InboxMax \in Nat \ {0} /\ PageSize \in 1..InboxMax
  /\ Unrenderable \subseteq Requests
  /\ None \notin Requests

ASSUME ThreadsAssumption == IsFiniteSet(Threads) /\ None \notin Threads

VARIABLES
  up,
  real,      \* is_real: the webhook is not the example.local placeholder
  pc, request,
  mark,      \* entry["delivered"] of each thread, None before it is set
  items,     \* what an /inbox call has copied under the lock
  count,     \* and the count it answers
  lock,      \* the thread that holds _inbox_lock, or None
  inbox,     \* _inbox, oldest first
  stats,     \* _stats
  calls, faults,
  log,       \* history: every entry recorded since the start
  broken     \* history: requests that ended in an exception since the start

memory  == <<inbox, stats, log, broken>>
local   == <<pc, request, mark, items, count>>
server  == <<up, real>>
vars    == <<server, local, lock, memory, calls, faults>>

Mark     == {"real", "mock", "failed"}
Counter  == {"received"} \cup Mark
Entry    == [request : Requests, delivered : Mark]
NoStats  == [c \in Counter |-> 0]

Goto(t, label) == pc' = [pc EXCEPT ![t] = label]
Bump(c)        == stats' = [stats EXCEPT ![c] = @ + 1]

\* The last n entries of s.
Newest(s, n) == IF Len(s) <= n THEN s ELSE SubSeq(s, Len(s) - n + 1, Len(s))

Init ==
  /\ up = FALSE
  /\ real = FALSE
  /\ pc = [t \in Threads |-> "idle"]
  /\ request = [t \in Threads |-> None]
  /\ mark = [t \in Threads |-> None]
  /\ items = [t \in Threads |-> <<>>]
  /\ count = [t \in Threads |-> 0]
  /\ lock = None
  /\ inbox = <<>>
  /\ stats = NoStats
  /\ calls = 0
  /\ faults = 0
  /\ log = <<>>
  /\ broken = 0

(***************************************************************************)
(* Startup: the webhook comes from the environment or the secret; without  *)
(* it the process exits and is started again.                              *)
(***************************************************************************)
LoadWebhook ==
  /\ ~up
  /\ up' = TRUE
  /\ real' \in BOOLEAN
  /\ UNCHANGED <<local, lock, memory, calls, faults>>

Crash ==
  /\ faults < MaxFaults
  /\ faults' = faults + 1
  /\ up' = FALSE
  /\ real' = FALSE
  /\ pc' = [t \in Threads |-> "idle"]
  /\ request' = [t \in Threads |-> None]
  /\ mark' = [t \in Threads |-> None]
  /\ items' = [t \in Threads |-> <<>>]
  /\ count' = [t \in Threads |-> 0]
  /\ lock' = None
  /\ inbox' = <<>>
  /\ stats' = NoStats
  /\ log' = <<>>
  /\ broken' = 0
  /\ UNCHANGED calls

(***************************************************************************)
(* POST /notify                                                            *)
(***************************************************************************)
Call(t) ==
  /\ up
  /\ pc[t] = "idle"
  /\ calls < MaxRequests
  /\ calls' = calls + 1

\* The body is counted before it is looked at.
Notify(t, r) ==
  /\ Call(t)
  /\ Bump("received")
  /\ request' = [request EXCEPT ![t] = r]
  /\ Goto(t, "render")
  /\ UNCHANGED <<server, mark, items, count, lock, inbox, faults, log, broken>>

\* Nothing catches the exception: Flask answers 500.
RenderFails(t) ==
  /\ pc[t] = "render"
  /\ request[t] \in Unrenderable
  /\ broken' = broken + 1
  /\ request' = [request EXCEPT ![t] = None]
  /\ Goto(t, "idle")
  /\ UNCHANGED <<server, mark, items, count, lock, inbox, stats, calls, faults, log>>

\* Mistake: the entry is recorded and the counter forgotten.
TellUncounted(t, d) ==
  /\ mark' = [mark EXCEPT ![t] = d]
  /\ Goto(t, "record")
  /\ UNCHANGED stats

Tell(t, d) ==
  /\ Bump(d)
  /\ mark' = [mark EXCEPT ![t] = d]
  /\ Goto(t, "record")

Render(t) ==
  /\ pc[t] = "render"
  /\ request[t] \notin Unrenderable
  /\ IF real
       THEN Goto(t, "post") /\ UNCHANGED <<stats, mark>>
       ELSE Tell(t, "mock")
  /\ UNCHANGED <<server, request, items, count, lock, inbox, calls, faults, log, broken>>

PostWebhook(t) ==
  /\ pc[t] = "post"
  /\ Tell(t, "real")
  /\ UNCHANGED <<server, request, items, count, lock, inbox, calls, faults, log, broken>>

\* No answer in ten seconds, or one that raise_for_status refuses; whether the
\* webhook took the message is not known here.
PostWebhookFails(t) ==
  /\ pc[t] = "post"
  /\ Tell(t, "failed")
  /\ UNCHANGED <<server, request, items, count, lock, inbox, calls, faults, log, broken>>

\* Mistake: the lock is not taken.
LockIgnored == TRUE

LockFree == lock = None

\* _record: append, then trim, with the lock held in between.
AppendEntry(t) ==
  LET e == [request |-> request[t], delivered |-> mark[t]] IN
  /\ pc[t] = "record"
  /\ LockFree
  /\ lock' = t
  /\ inbox' = Append(inbox, e)
  /\ log' = Append(log, e)
  /\ Goto(t, "trim")
  /\ UNCHANGED <<server, request, mark, items, count, stats, calls, faults, broken>>

\* Mistake: the newest entries go.
KeepOldest(s) == IF Len(s) <= InboxMax THEN s ELSE SubSeq(s, 1, InboxMax)

Trimmed(s) == Newest(s, InboxMax)

\* Mistake: the lock is not given back.
NeverReleased(t) == t

Released(t) == None

\* Then 200 for "real" and "mock", 502 for "failed".
Trim(t) ==
  /\ pc[t] = "trim"
  /\ inbox' = Trimmed(inbox)
  /\ lock' = Released(t)
  /\ request' = [request EXCEPT ![t] = None]
  /\ mark' = [mark EXCEPT ![t] = None]
  /\ Goto(t, "idle")
  /\ UNCHANGED <<server, items, count, stats, calls, faults, log, broken>>

(***************************************************************************)
(* GET /inbox: the entries are copied with the lock held, the count is     *)
(* read afterwards without it.                                             *)
(***************************************************************************)
Inbox(t) ==
  /\ Call(t)
  /\ LockFree
  /\ items' = [items EXCEPT ![t] = Reverse(Newest(inbox, PageSize))]
  /\ Goto(t, "count")
  /\ UNCHANGED <<server, request, mark, count, lock, memory, faults>>

CountInbox(t) ==
  /\ pc[t] = "count"
  /\ count' = [count EXCEPT ![t] = Len(inbox)]
  /\ Goto(t, "listed")
  /\ UNCHANGED <<server, request, mark, items, lock, memory, calls, faults>>

EndInbox(t) ==
  /\ pc[t] = "listed"
  /\ items' = [items EXCEPT ![t] = <<>>]
  /\ count' = [count EXCEPT ![t] = 0]
  /\ Goto(t, "idle")
  /\ UNCHANGED <<server, request, mark, lock, memory, calls, faults>>

(***************************************************************************)
(* The specification                                                       *)
(***************************************************************************)
Step(t) ==
  \/ RenderFails(t) \/ Render(t) \/ PostWebhook(t) \/ PostWebhookFails(t)
  \/ AppendEntry(t) \/ Trim(t) \/ CountInbox(t) \/ EndInbox(t)

Next ==
  \/ LoadWebhook \/ Crash
  \/ \E t \in Threads :
       \/ \E r \in Requests : Notify(t, r)
       \/ Inbox(t) \/ Step(t)

Spec == Init /\ [][Next]_vars

\* The container is restarted; a thread that can run does, and the lock is
\* taken in turn: a thread waits for each of the others once.
FairSpec ==
  Spec /\ WF_vars(LoadWebhook) /\ \A t \in Threads : SF_vars(Step(t))

(***************************************************************************)
(* Properties                                                              *)
(***************************************************************************)
\* Every variable has the shape the code gives it; only the thread that is
\* recording holds the lock, and no list is longer than the bound lets it.
TypeOK ==
  /\ up \in BOOLEAN /\ real \in BOOLEAN
  /\ pc \in [Threads -> {"idle", "render", "post", "record", "trim", "count", "listed"}]
  /\ request \in [Threads -> Requests \cup {None}]
  /\ mark \in [Threads -> Mark \cup {None}]
  /\ items \in [Threads -> Seq(Entry)]
  /\ \A t \in Threads : Len(items[t]) <= PageSize
  /\ count \in [Threads -> 0..InboxMax + 1]
  /\ lock \in Threads \cup {None}
  /\ inbox \in Seq(Entry)
  /\ stats \in [Counter -> Nat]
  /\ log \in Seq(Entry)
  /\ \A t \in Threads : lock = t <=> pc[t] = "trim"
  /\ LockFree => Len(inbox) <= InboxMax

Recorded(d) == Cardinality({n \in DOMAIN log : log[n].delivered = d})

\* notifier.py:116, 143-169: every call of /notify ends in exactly one entry
\* or in an exception, and each counter counts the entries of its kind; the
\* difference is what the threads have in hand.
StatsMatchEntries ==
  /\ \A d \in Mark :
       stats[d] = Recorded(d) + Cardinality({t \in Threads : pc[t] = "record" /\ mark[t] = d})
  /\ stats["received"] =
       Len(log) + broken + Cardinality({t \in Threads : pc[t] \in {"render", "post", "record"}})

\* notifier.py:173-177: at rest the inbox holds the last INBOX_MAX entries, in
\* the order in which they were recorded.
InboxIsNewest == LockFree => inbox = Newest(log, InboxMax)

\* notifier.py:107-111: a listing shows the newest entries of all that were
\* recorded, newest first, and its count, read later and without the lock, is
\* never below their number.
ListingIsCurrent ==
  [][\A t \in Threads :
       /\ Inbox(t) => items'[t] = Reverse(Newest(log, PageSize))
       /\ CountInbox(t) => count'[t] >= Len(items[t])]_vars

\* A call is answered, or dies with the process, which comes up again.
CallsEnd ==
  /\ \A t \in Threads : pc[t] # "idle" ~> pc[t] = "idle"
  /\ []<>up
=============================================================================
