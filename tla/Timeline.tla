------------------------------ MODULE Timeline ------------------------------
(***************************************************************************)
(* The persistent timeline: clients that poll the failed units make the    *)
(* daemon record what changed since the last listing                       *)
(* (timeline.TimelineService, server._list_failures), others append their  *)
(* rows, old rows expire, and two readers use them: a client that walks    *)
(* back page by page (server._get_timeline) and the kept-well ledger       *)
(* (server._get_ledger, ledger.summarize).                                 *)
(*                                                                         *)
(* A listing:  idle -> listed -> writing -> idle                           *)
(***************************************************************************)
EXTENDS EventStore

CONSTANTS
  Clients,      \* the clients that poll
  Limits,       \* page lengths asked for
  Retention,    \* event_retention_days
  MaxChanges,   \* bound on the failures and recoveries of units
  MaxFaults     \* bound on failing calls, cut connections and restarts

\* The service brings the page length it is asked for between 1 and the cap.
ASSUME LimitsAssumption == Limits \subseteq 1..Cap
ASSUME BoundsAssumption ==
  {Retention, MaxRows, MaxChanges, MaxFaults} \subseteq Nat /\ MaxTime \in Nat \ {0}

VARIABLES
  failing,           \* the units that are failed in systemd
  now, stepped,      \* the clock; whether it was ever set back
  rows, last,        \* the event store; the newest id it gave
  seen,              \* _seen_failures
  pc, listing, todo, \* per client: its task, the listing it took, rows to write
  restarted,         \* units restarted by hand whose row is not written yet
  walk,              \* the client that pages back
  tally,             \* the ledger request under way
  blemished,         \* history: units with a row lost, repeated or cut off
  changes, faults    \* what the bounds count

clock  == <<now, stepped>>
table  == <<rows, last>>
tasks  == <<seen, pc, listing, todo>>
counts == <<changes, faults>>
vars == <<failing, clock, table, tasks, restarted, walk, tally, blemished, counts>>

NoWalk  == [at |-> "none", limit |-> 1, cursor |-> 0, got |-> {}, first |-> {}, again |-> FALSE,
            missed |-> FALSE]
Queries == {"autofix", "restart", "earliest", "failures"}
NoTally == [at |-> "none", left |-> {}, attention |-> 0, floor |-> 0, down |-> FALSE,
            due |-> {}, short |-> FALSE]

TypeOK ==
  /\ failing \in SUBSET Units /\ seen \in SUBSET Units
  /\ now \in 1..MaxTime /\ stepped \in BOOLEAN
  /\ rows \in SUBSET Row /\ last \in 0..MaxRows
  /\ \A r, s \in rows : r.id <= last /\ (r.id = s.id => r = s)
  /\ pc \in [Clients -> {"idle", "listed", "writing"}]
  /\ listing \in [Clients -> SUBSET Units] /\ todo \in [Clients -> SUBSET Units]
  /\ restarted \in SUBSET Units /\ blemished \in SUBSET Units
  /\ walk \in [at : {"none", "more", "end"}, limit : 1..Cap, cursor : 0..MaxRows,
               got : SUBSET Row, first : SUBSET Row, again : BOOLEAN, missed : BOOLEAN]
  /\ tally \in [at : {"none", "asked"}, left : SUBSET Queries, attention : 0..MaxTime,
                floor : 0..MaxTime, down : BOOLEAN, due : SUBSET Row, short : BOOLEAN]
  /\ changes \in 0..MaxChanges /\ faults \in 0..MaxFaults

Init ==
  /\ failing \in SUBSET Units
  /\ now = 1 /\ stepped = FALSE
  /\ rows = {} /\ last = 0
  /\ seen = {}
  /\ pc = [c \in Clients |-> "idle"]
  /\ listing = [c \in Clients |-> {}] /\ todo = [c \in Clients |-> {}]
  /\ restarted = {} /\ blemished = {}
  /\ walk = NoWalk /\ tally = NoTally
  /\ changes = 0 /\ faults = 0

Change == changes < MaxChanges /\ changes' = changes + 1 /\ UNCHANGED faults
Fault  == faults < MaxFaults /\ faults' = faults + 1 /\ UNCHANGED changes
Calm   == UNCHANGED counts

Append(kind, u) ==
  /\ rows' = Insert(rows, last, now, kind, u)
  /\ last' = NextId(last)

-----------------------------------------------------------------------------
(* The world: units, the clock, and the writers modelled elsewhere.        *)

Fails(u) ==
  /\ u \notin failing /\ Change
  /\ failing' = failing \cup {u}
  /\ UNCHANGED <<clock, table, tasks, restarted, walk, tally, blemished>>

Recovers(u) ==
  /\ u \in failing /\ Change
  /\ failing' = failing \ {u}
  /\ UNCHANGED <<clock, table, tasks, restarted, walk, tally, blemished>>

Tick ==
  /\ now < MaxTime /\ now' = now + 1
  /\ UNCHANGED <<failing, stepped, table, tasks, restarted, walk, tally, blemished, counts>>

\* time.time() is the wall clock: it may be set back.
StepBack ==
  /\ now > 1 /\ now' = now - 1 /\ stepped' = TRUE /\ Fault
  /\ UNCHANGED <<failing, table, tasks, restarted, walk, tally, blemished>>

\* Autofix answers a failure: it restarts the unit for good, or hands it back.
AutofixActs(u) ==
  /\ u \in failing /\ Change
  /\ \/ Append("healed", u) /\ failing' = failing \ {u}
     \/ Append("handed_back", u) /\ UNCHANGED failing
  /\ UNCHANGED <<clock, tasks, restarted, walk, tally, blemished>>

\* A restart holds or it does not, and so does one that was declined.
Outcome(u) == failing' \in {failing, failing \ {u}}

\* A restart from the tray: of a unit that is failing now; then its row.
RestartByHand(u) ==
  /\ u \in failing \ restarted /\ Change
  /\ Outcome(u) /\ restarted' = restarted \cup {u}
  /\ UNCHANGED <<clock, table, tasks, walk, tally, blemished>>

\* A restart asked for in a query: of any unit, and its row comes whatever came of it.
RestartByQuery(u) ==
  /\ u \notin restarted /\ Change
  /\ Outcome(u) /\ restarted' = restarted \cup {u}
  /\ UNCHANGED <<clock, table, tasks, walk, tally, blemished>>

\* A journal that was shown, a failure that was explained.
Note(u) ==
  /\ Change /\ Append("note", u)
  /\ UNCHANGED <<failing, clock, tasks, restarted, walk, tally, blemished>>

RecordRestart(u) ==
  /\ u \in restarted /\ restarted' = restarted \ {u}
  /\ Append("restart", u)
  /\ Calm /\ UNCHANGED <<failing, clock, tasks, walk, tally, blemished>>

\* Rows older than the retention go; the daemon looks once in a while.
Prune ==
  /\ now > Retention
  /\ Expired(rows, now - Retention) # {}
  /\ rows' = rows \ Expired(rows, now - Retention)
  /\ Calm /\ UNCHANGED <<failing, clock, last, tasks, restarted, walk, tally, blemished>>

-----------------------------------------------------------------------------
(* Recording failure transitions.                                          *)

\* The listing is taken before the lock. A systemctl that fails lists nothing.
List(c) ==
  /\ pc[c] = "idle" /\ pc' = [pc EXCEPT ![c] = "listed"]
  /\ \/ listing' = [listing EXCEPT ![c] = failing] /\ Calm
     \/ listing' = [listing EXCEPT ![c] = {}] /\ failing # {} /\ Fault
  /\ UNCHANGED <<failing, clock, table, seen, todo, restarted, walk, tally, blemished>>

\* Mutant: the lock is not taken.
AlwaysFree == TRUE
LockFree   == \A c \in Clients : pc[c] # "writing"

Compare(c) ==
  /\ pc[c] = "listed" /\ LockFree /\ pc' = [pc EXCEPT ![c] = "writing"]
  /\ todo' = [todo EXCEPT ![c] = SymDiff(listing[c], seen)]
  /\ Calm
  /\ UNCHANGED <<failing, clock, table, seen, listing, restarted, walk, tally, blemished>>

\* Failures first, then recoveries.
MayWrite(c, u) ==
  /\ pc[c] = "writing" /\ u \in todo[c]
  /\ todo[c] \cap listing[c] # {} => u \in listing[c]

AppendTransition(c, u) ==
  Append(IF u \in listing[c] THEN "failure_observed" ELSE "failure_cleared", u)

Write(c, u) ==
  /\ MayWrite(c, u) /\ AppendTransition(c, u)
  /\ todo' = [todo EXCEPT ![c] = @ \ {u}]
  /\ Calm
  /\ UNCHANGED <<failing, clock, seen, pc, listing, restarted, walk, tally, blemished>>

\* An append that fails says so to the log only.
LoseRow(c, u) ==
  /\ MayWrite(c, u) /\ Fault
  /\ todo' = [todo EXCEPT ![c] = @ \ {u}]
  /\ blemished' = blemished \cup {u}
  /\ UNCHANGED <<failing, clock, table, seen, pc, listing, restarted, walk, tally>>

Finish(c) ==
  /\ pc[c] = "writing" /\ todo[c] = {}
  /\ seen' = listing[c]
  /\ pc' = [pc EXCEPT ![c] = "idle"] /\ listing' = [listing EXCEPT ![c] = {}]
  /\ Calm /\ UNCHANGED <<failing, clock, table, todo, restarted, walk, tally, blemished>>

\* What a task has written and seen does not know yet.
Written(c) == IF pc[c] = "writing" THEN SymDiff(listing[c], seen) \ todo[c] ELSE {}

DropTask(c) ==
  /\ pc' = [pc EXCEPT ![c] = "idle"]
  /\ listing' = [listing EXCEPT ![c] = {}] /\ todo' = [todo EXCEPT ![c] = {}]

\* The client goes and its task is cancelled. What it wrote stays, seen does not
\* follow; a row whose thread is under way lands all the same.
CutOff(c) ==
  /\ pc[c] # "idle" /\ Fault /\ DropTask(c)
  /\ \/ blemished' = blemished \cup Written(c) /\ UNCHANGED table
     \/ \E u \in Units : /\ MayWrite(c, u) /\ AppendTransition(c, u)
                         /\ blemished' = blemished \cup Written(c) \cup {u}
  /\ UNCHANGED <<failing, clock, seen, restarted, walk, tally>>

\* The daemon restarts: what it had seen is forgotten, the rows are not.
DaemonRestarts ==
  /\ Fault
  /\ seen' = {} /\ restarted' = {}
  /\ pc' = [c \in Clients |-> "idle"]
  /\ listing' = [c \in Clients |-> {}] /\ todo' = [c \in Clients |-> {}]
  /\ walk' = NoWalk /\ tally' = NoTally
  /\ blemished' = blemished \cup seen \cup UNION {Written(c) : c \in Clients}
  /\ UNCHANGED <<failing, clock, table>>

-----------------------------------------------------------------------------
(* Walking back page by page.                                              *)

Before(cursor) == IF cursor = 0 THEN rows ELSE {r \in rows : r.id < cursor}

OldestOf(page) == CHOOSE r \in page : \A s \in page \ {r} : Newer(s, r)

\* Mutant: the cursor is the extra row that was fetched.
CursorAfterExtra(got, limit) ==
  IF Cardinality(got) > limit THEN OldestOf(got).id ELSE 0

\* One row more than the page tells whether there is an older page.
Cursor(got, limit) ==
  IF Cardinality(got) > limit THEN OldestOf(Recent(got, limit)).id ELSE 0

\* Readers do not meet but through the rows: one at a time is enough.
NoReader == walk.at = "none" /\ tally.at = "none"

Turn(start, limit, cursor, first) ==
  LET got   == Recent(Before(cursor), limit + 1)
      page  == Recent(got, limit)
      older == Cursor(got, limit)
  IN  walk' = [at |-> IF older = 0 THEN "end" ELSE "more", limit |-> limit,
               cursor |-> older, got |-> start \cup page, first |-> first,
               again |-> walk.again \/ start \cap page # {}, missed |-> FALSE]

\* A query that fails gives no row and no cursor: for all the client can tell, the end.
EmptyPage(start, limit, first) ==
  walk' = [at |-> "end", limit |-> limit, cursor |-> 0, got |-> start, first |-> first,
           again |-> walk.again, missed |-> TRUE]

OpenTimeline ==
  /\ NoReader /\ rows # {}
  /\ \E limit \in Limits : \/ Turn({}, limit, 0, rows) /\ Calm
                           \/ EmptyPage({}, limit, rows) /\ Fault
  /\ UNCHANGED <<failing, clock, table, tasks, restarted, tally, blemished>>

Older ==
  /\ walk.at = "more"
  /\ \/ Turn(walk.got, walk.limit, walk.cursor, walk.first) /\ Calm
     \/ EmptyPage(walk.got, walk.limit, walk.first) /\ Fault
  /\ UNCHANGED <<failing, clock, table, tasks, restarted, tally, blemished>>

CloseTimeline ==
  /\ walk.at = "end" /\ walk' = NoWalk
  /\ Calm /\ UNCHANGED <<failing, clock, table, tasks, restarted, tally, blemished>>

-----------------------------------------------------------------------------
(* The ledger: four reads at once, folded when all are in.                 *)

\* Mutant: a restart by hand does not count as help.
Tireless(found) == OfKind(found, {"handed_back"})

\* What the machine needed the user for.
Attention(found) == OfKind(found, {"handed_back", "restart"})

AskLedger ==
  /\ NoReader
  /\ tally' = [NoTally EXCEPT !.at = "asked", !.left = Queries,
                              !.due = OfKind(rows, {"handed_back", "restart"})]
  /\ Calm /\ UNCHANGED <<failing, clock, table, tasks, restarted, walk, blemished>>

Got(query) == query \in tally.left

\* One kind of rows, the newest of them; a query that fails finds none.
ReadKinds(query, kinds) ==
  /\ Got(query)
  /\ \/ LET found == Recent(OfKind(rows, kinds), Cap)
        IN  tally' = [tally EXCEPT !.left = @ \ {query},
                        !.attention = Max({@, Latest(Attention(found))}),
                        !.short = @ \/ found # OfKind(rows, kinds)]
        /\ Calm
     \/ tally' = [tally EXCEPT !.left = @ \ {query}, !.short = TRUE] /\ Fault
  /\ UNCHANGED <<failing, clock, table, tasks, restarted, walk, blemished>>

ReadAutofix  == ReadKinds("autofix", Autofix)
ReadRestarts == "autofix" \notin tally.left /\ ReadKinds("restart", {"restart"})

\* When this one fails the streak counts from some row the others found, or has no start.
ReadEarliest ==
  /\ Got("earliest") /\ "restart" \notin tally.left
  /\ \E at \in {0} \cup {r.at : r \in rows} :
       /\ tally' = [tally EXCEPT !.left = @ \ {"earliest"}, !.floor = at]
       /\ (at = Earliest(rows) /\ Calm) \/ Fault
  /\ UNCHANGED <<failing, clock, table, tasks, restarted, walk, blemished>>

ReadFailures ==
  /\ Got("failures")
  /\ tally' = [tally EXCEPT !.left = @ \ {"failures"}, !.down = failing # {}]
  /\ Calm /\ UNCHANGED <<failing, clock, table, tasks, restarted, walk, blemished>>

Answered == tally.at = "asked" /\ tally.left = {}

\* Since when the streak runs, 0 for "no data yet".
Since ==
  IF tally.down THEN now
  ELSE IF tally.attention # 0 THEN tally.attention
  ELSE tally.floor

ReplyLedger ==
  /\ Answered /\ tally' = NoTally
  /\ Calm /\ UNCHANGED <<failing, clock, table, tasks, restarted, walk, blemished>>

-----------------------------------------------------------------------------
Poll(c) == \/ List(c) \/ Compare(c) \/ Finish(c)
           \/ \E u \in Units : Write(c, u) \/ LoseRow(c, u)

Next ==
  \/ \E u \in Units : \/ Fails(u) \/ Recovers(u) \/ AutofixActs(u)
                      \/ RestartByHand(u) \/ RestartByQuery(u) \/ RecordRestart(u)
                      \/ Note(u)
  \/ \E c \in Clients : Poll(c) \/ CutOff(c)
  \/ Tick \/ StepBack \/ Prune \/ DaemonRestarts
  \/ OpenTimeline \/ Older \/ CloseTimeline
  \/ AskLedger \/ ReadAutofix \/ ReadRestarts \/ ReadEarliest \/ ReadFailures
  \/ ReplyLedger

Spec == Init /\ [][Next]_vars

-----------------------------------------------------------------------------
\* However the tasks of several clients interleave, a unit's failures and recoveries
\* alternate in the timeline: no two observations without a recovery between them.
\* Rows that were lost, or written twice by a task that was cut off, are the exception.
TransitionsAlternate ==
  \A r, s \in OfKind(rows, {"failure_observed", "failure_cleared"}) :
    /\ r.unit = s.unit /\ r.unit \notin blemished /\ ~stepped
    /\ r.kind = s.kind /\ r.id < s.id
    => \E t \in rows : /\ t.unit = r.unit /\ r.id < t.id /\ t.id < s.id
                       /\ t.kind \in {"failure_observed", "failure_cleared"} \ {r.kind}

\* A client that follows the cursor to the end has no row twice and, of those that were
\* there when it began and still are, every one, however many arrive or expire in
\* between (server._get_timeline). The exception is a query of its own that failed,
\* which it takes for the last page: it then lacks the oldest rows, and none among those
\* it has. Nothing is said where the clock was set back, since pages are ordered by time
\* and cut by id, or of a page as long as the cap.
PagesAreComplete ==
  walk.at = "end" /\ ~stepped /\ walk.limit < Cap =>
    /\ ~walk.again
    /\ \A r \in (walk.first \cap rows) \ walk.got :
         walk.missed /\ \A s \in walk.got : r.id < s.id

\* When none of the queries failed or met its cap, the streak does not start before a
\* moment the user was needed that was on record when the ledger was asked for and is
\* still, whatever else was written before and meanwhile (server._get_ledger). One that
\* expires between two of the reads may be missed, and so may any that a query which
\* failed or was cut at the cap did not find.
StreakIsNotFlattered ==
  Answered /\ ~tally.short /\ ~tally.down => \A r \in tally.due \cap rows : Since >= r.at
=============================================================================
