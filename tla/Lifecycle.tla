----------------------------- MODULE Lifecycle ------------------------------
(***************************************************************************)
(* What lives in the daemon and how it ends: clients' connections          *)
(* (connections.ConnectionManager), the tasks they own, the daemon's and   *)
(* the monitors' task sets (tasks.TaskSet), the event store's lock and     *)
(* worker threads (store.EventStore), and server.Daemon.aclose, which      *)
(* closes the connections, the tasks, the monitors and the store, in this  *)
(* order. Daemon.aclose runs when run() ends; the autofix task, cancelled  *)
(* before, is left out, and a close of a connection that Daemon.aclose     *)
(* itself cancels runs to its end here.                                    *)
(*                                                                         *)
(*   conn:  away -> open -> closing (its tasks get 1 s) -> closed          *)
(*   task:  idle -> run <-> prompt, run <-> queued -> writing, -> done     *)
(*   phase: serving -> connections -> tasks -> monitors -> store -> stopped*)
(*                                                                         *)
(* A cancel is atomic: the task's next step can only be the CancelledError.*)
(* A timeout may always be the first to end a wait that has one.           *)
(***************************************************************************)
EXTENDS Naturals, FiniteSets

CONSTANTS Conns, Tasks, Daemon, Monitors, None

\* The two task sets are neither one another nor connections; None is no task.
ASSUME NamesAssumption ==
  Daemon # Monitors /\ {Daemon, Monitors} \cap Conns = {} /\ None \notin Tasks

VARIABLES
  conn,           \* per connection
  task, owner,    \* per task: where it stands; a connection or a task set
  told,           \* the tasks cancelled so far
  holder,         \* the task that holds the store's lock
  threads,        \* the worker threads in the store, by the task that sent them
  shut,           \* the task sets that are closing
  phase,          \* how far Daemon.aclose has come
  awaitedConns    \* the connections ConnectionManager.aclose waits for

vars == <<conn, task, owner, told, holder, threads, shut, phase, awaitedConns>>
store == <<holder, threads>>
ending == <<shut, phase, awaitedConns>>

Sets == {Daemon, Monitors}
Phases == {"serving", "connections", "tasks", "monitors", "store", "stopped"}
Live == {w \in Tasks : task[w] \notin {"idle", "done"}}
Closed == phase = "stopped"    \* EventStore._closed, and the process at its end

\* The task set a task is in: requests are in the daemon's.
SetOf(w) == IF owner[w] = Monitors THEN Monitors ELSE Daemon

\* Only the task that holds the lock waits for its thread.
TypeOK ==
  /\ conn \in [Conns -> {"away", "open", "closing", "closed"}]
  /\ task \in [Tasks -> {"idle", "run", "prompt", "queued", "writing", "done"}]
  /\ owner \in [Tasks -> Conns \cup Sets \cup {None}]
  /\ told \in SUBSET Tasks
  /\ holder \in Tasks \cup {None}
  /\ threads \in SUBSET Tasks
  /\ shut \in SUBSET Sets
  /\ phase \in Phases
  /\ awaitedConns \in SUBSET Conns
  /\ \A w \in Tasks : (task[w] = "writing") = (holder = w)
  /\ holder \in threads \cup {None}

Init ==
  /\ conn = [c \in Conns |-> "away"]
  /\ task = [w \in Tasks |-> "idle"]
  /\ owner = [w \in Tasks |-> None]
  /\ told = {}
  /\ holder = None /\ threads = {}
  /\ shut = {} /\ phase = "serving" /\ awaitedConns = {}

-----------------------------------------------------------------------------
(* Cancelling, spawning.                                                   *)

\* Mutant: a cancelled append keeps the lock.
CancelKeepsLock(group, tasks) ==
  /\ task' = [w \in Tasks |-> IF w \in group THEN "done" ELSE tasks[w]]
  /\ told' = told \cup group
  /\ holder' = holder

\* A cancelled task ends, but at a prompt it takes the cancel for a no and
\* runs on. The lock is released; the thread is not stopped.
Cancelled(w) == IF task[w] = "prompt" THEN "run" ELSE "done"

CancelAll(group, tasks) ==
  /\ task' = [w \in Tasks |-> IF w \in group THEN Cancelled(w) ELSE tasks[w]]
  /\ told' = told \cup group
  /\ holder' = IF holder \in group THEN None ELSE holder

\* Mutant: a closing task set takes new work.
SpawnAnyway(w, who, set) ==
  /\ set \in Sets
  /\ task[w] = "idle"
  /\ task' = [task EXCEPT ![w] = "run"]
  /\ owner' = [owner EXCEPT ![w] = who]
  /\ UNCHANGED <<conn, told, store, ending>>

\* TaskSet.spawn.
Spawn(w, who, set) ==
  /\ set \notin shut
  /\ task[w] = "idle"
  /\ task' = [task EXCEPT ![w] = "run"]
  /\ owner' = [owner EXCEPT ![w] = who]
  /\ UNCHANGED <<conn, told, store, ending>>

\* A request line: the handler reads as long as the transport is open, also
\* while its connection is being closed.
Request(w, c) == conn[c] \in {"open", "closing"} /\ Spawn(w, c, Daemon)

\* A monitor's signal, an interval of the pruning or the readiness loop.
Signal(w) == phase # "stopped" /\ Spawn(w, Monitors, Monitors)
Tick(w)   == phase # "stopped" /\ Spawn(w, Daemon, Daemon)

-----------------------------------------------------------------------------
(* Connections.                                                            *)

Connect(c) ==
  /\ conn[c] = "away" /\ phase = "serving"
  /\ conn' = [conn EXCEPT ![c] = "open"]
  /\ UNCHANGED <<task, owner, told, store, ending>>

Owned(c) == {w \in Live : owner[w] = c}

\* ConnectionManager.close up to its wait; "tasks" is the state to start from.
BeginClose(c, tasks) ==
  /\ conn[c] = "open"
  /\ conn' = [conn EXCEPT ![c] = "closing"]
  /\ LET mine == {w \in Owned(c) : tasks[w] # "done"}
     IN CancelAll(mine, tasks)

\* The peer hangs up, or sends what is no UTF-8.
HangUp(c) ==
  /\ BeginClose(c, task)
  /\ UNCHANGED <<owner, threads, ending>>

\* A send that the peer does not take for 10 s: a broadcast retires the peer
\* and goes on, a request of the peer's own fails, and its failure does.
SendTimesOut(w, c) ==
  /\ task[w] = "run"
  /\ owner[w] \in Sets \cup {c}
  /\ BeginClose(c, IF owner[w] = c THEN [task EXCEPT ![w] = "done"] ELSE task)
  /\ UNCHANGED <<owner, threads, ending>>

\* Mutant: the prompts that came up during the wait are left waiting.
OnlyTheTransport(c) == task' = task

\* The prompts still open are resolved as a no.
RefusePrompts(c) ==
  task' = [w \in Tasks |->
             IF owner[w] = c /\ task[w] = "prompt" THEN "run" ELSE task[w]]

\* The tasks are done, or their second is over: the transport is closed.
EndClose(c) ==
  /\ conn[c] = "closing"
  /\ conn' = [conn EXCEPT ![c] = "closed"]
  /\ RefusePrompts(c)
  /\ UNCHANGED <<owner, told, store, ending>>

-----------------------------------------------------------------------------
(* What a task does.                                                       *)

Moves(w, from, to) ==
  /\ task[w] = from
  /\ task' = [task EXCEPT ![w] = to]
  /\ UNCHANGED <<conn, owner, told, ending>>

\* ClientConn.confirm; a closed transport fails the send.
Prompt(w) ==
  /\ owner[w] \in Conns /\ conn[owner[w]] # "closed"
  /\ Moves(w, "run", "prompt") /\ UNCHANGED store

Respond(w) ==
  /\ task[w] = "prompt" /\ conn[owner[w]] # "closed"
  /\ Moves(w, "prompt", "run") /\ UNCHANGED store

\* EventStore.append: nothing happens once the store is closed.
Append(w) == ~Closed /\ Moves(w, "run", "queued") /\ UNCHANGED store

TakeLock(w) ==
  /\ holder = None /\ ~Closed
  /\ Moves(w, "queued", "writing")
  /\ holder' = w /\ threads' = threads \cup {w}

\* The database was closed while the append waited: a row is lost, a warning.
TooLate(w) == Closed /\ Moves(w, "queued", "run") /\ UNCHANGED store

\* The insert is done: its task goes on, unless it was cancelled meanwhile.
Written(w) ==
  /\ w \in threads
  /\ threads' = threads \ {w}
  /\ IF task[w] = "writing"
     THEN task' = [task EXCEPT ![w] = "run"] /\ holder' = None
     ELSE UNCHANGED <<task, holder>>
  /\ UNCHANGED <<conn, owner, told, ending>>

\* A task ends, by its end or an error that was answered.
End(w) == Moves(w, "run", "done") /\ UNCHANGED store

-----------------------------------------------------------------------------
(* Daemon.aclose.                                                          *)

Stage(from, to) == phase = from /\ phase' = to

\* New peers are turned away, and all are closed at once.
Stop ==
  /\ Stage("serving", "connections")
  /\ LET open == {c \in Conns : conn[c] = "open"}
         mine == {w \in Live : owner[w] \in open}
     IN /\ conn' = [c \in Conns |-> IF c \in open THEN "closing"
                                    ELSE IF conn[c] = "away" THEN "closed" ELSE conn[c]]
        /\ CancelAll(mine, task)
        /\ awaitedConns' = open
  /\ UNCHANGED <<owner, threads, shut>>

\* TaskSet.aclose up to its wait.
CloseSet(set) ==
  /\ shut' = shut \cup {set}
  /\ LET all == {w \in Live : SetOf(w) = set}
     IN CancelAll(all, task)
  /\ UNCHANGED <<conn, owner, threads, awaitedConns>>

CloseTasks ==
  /\ Stage("connections", "tasks")
  /\ \A c \in awaitedConns : conn[c] = "closed"
  /\ CloseSet(Daemon)

\* Mutant: the wait for cancelled tasks has no deadline.
WaitsForAll(set) == \A w \in Live : SetOf(w) # set

\* All ended, or the deadline of 5 s is over.
WaitIsOver(set) == TRUE

CloseMonitors ==
  /\ Stage("tasks", "monitors")
  /\ WaitIsOver(Daemon)
  /\ CloseSet(Monitors)

\* EventStore.aclose waits for the lock, then closes in a thread.
AwaitStore ==
  /\ Stage("monitors", "store")
  /\ WaitIsOver(Monitors)
  /\ UNCHANGED <<conn, task, owner, told, store, shut, awaitedConns>>

CloseStore ==
  /\ Stage("store", "stopped")
  /\ holder = None
  /\ UNCHANGED <<conn, task, owner, told, store, shut, awaitedConns>>

-----------------------------------------------------------------------------
Closing == CloseTasks \/ CloseMonitors \/ AwaitStore \/ CloseStore

Next ==
  \/ Stop \/ Closing
  \/ \E c \in Conns : Connect(c) \/ HangUp(c) \/ EndClose(c)
  \/ \E w \in Tasks :
       \/ \E c \in Conns : Request(w, c) \/ SendTimesOut(w, c)
       \/ Signal(w) \/ Tick(w) \/ Prompt(w) \/ Respond(w)
       \/ Append(w) \/ TakeLock(w) \/ TooLate(w) \/ Written(w) \/ End(w)

Spec == Init /\ [][Next]_vars

\* The waits have deadlines, the store's thread its busy timeout, and the lock
\* serves in turn. Nothing is assumed of the tasks, nor of the clients.
FairSpec ==
  /\ Spec
  /\ WF_vars(Closing) /\ SF_vars(CloseStore)
  /\ \A c \in Conns : WF_vars(EndClose(c))
  /\ \A w \in Tasks : WF_vars(Written(w))

-----------------------------------------------------------------------------
(* Properties.                                                             *)

\* What still runs when the store has closed was cancelled and outlived its
\* deadline: no task is started, or forgotten, behind the back of aclose.
OnlyStubbornTasksOutliveTheStore == phase = "stopped" => Live \subseteq told

\* No task waits at a prompt whose client is gone, which would hold its
\* session's lock for ever: not one that took its cancel for a no and asks
\* again, nor one whose request came in while the connection was closing.
PromptsEndWithTheirClient ==
  \A w \in Live : task[w] = "prompt" => conn[owner[w]] # "closed"

\* Once begun the shutdown ends, whatever tasks and clients do (README.md:84).
ShutdownEnds == phase # "serving" ~> phase = "stopped"
=============================================================================
