-------------------------- MODULE LifecycleProofs ---------------------------
(***************************************************************************)
(* Proofs about the daemon's shutdown, for any connections and tasks: what *)
(* is still alive when the store has closed was told to stop, and no task  *)
(* is left at a prompt that nobody can answer.  Both rest on where a task  *)
(* may come from: a task set that is closing takes none, and a connection  *)
(* that owns one has been opened.                                          *)
(***************************************************************************)
EXTENDS Lifecycle, TLAPS

\* How far Daemon.aclose has come tells which task sets are closing.
StagesShut ==
  /\ phase \in {"tasks", "monitors", "store", "stopped"} => Daemon \in shut
  /\ phase \in {"monitors", "store", "stopped"} => Monitors \in shut

\* What lives in a set that is closing has been cancelled.
ShutSetsAreTold == \A w \in Live : SetOf(w) \in shut => w \in told

\* A task that a connection owns came after the connection.
OwnersCame == \A w \in Live : owner[w] \in Conns => conn[owner[w]] # "away"

\* Only a connection's task asks its user.
OnlyClientsAsk == \A w \in Tasks : task[w] = "prompt" => owner[w] \in Conns

IInv ==
  /\ TypeOK
  /\ StagesShut /\ ShutSetsAreTold
  /\ OwnersCame /\ OnlyClientsAsk /\ PromptsEndWithTheirClient

-----------------------------------------------------------------------------
(* Types.                                                                  *)

\* The lock's holder, the tasks and the threads agree.
LockIsHeld ==
  /\ holder \in Tasks \cup {None}
  /\ \A w \in Tasks : (task[w] = "writing") = (holder = w)
  /\ holder \in threads \cup {None}

Standing == {"idle", "run", "prompt", "queued", "writing", "done"}

\* A cancel of any group of tasks keeps the types, and leaves no new prompt.
LEMMA CancelAllIsTyped ==
  ASSUME TypeOK, NEW group \in SUBSET Tasks, NEW tasks \in [Tasks -> Standing],
         \A w \in Tasks : tasks[w] = "writing" <=> task[w] = "writing",
         CancelAll(group, tasks), threads' = threads
  PROVE  task' \in [Tasks -> Standing] /\ told' \in SUBSET Tasks /\ LockIsHeld'
  <1>1. \A w \in Tasks : Cancelled(w) \in {"run", "done"}
    BY DEF Cancelled
  <1>2. task' \in [Tasks -> Standing] /\ told' \in SUBSET Tasks
    BY <1>1 DEF CancelAll, TypeOK, Standing
  <1>3. ASSUME NEW w \in Tasks PROVE task'[w] = "writing" <=> holder' = w
    <2>1. task[w] = "writing" <=> holder = w
      BY DEF TypeOK
    <2>2. CASE w \in group
      <3>1. task'[w] # "writing"
        BY <1>1, <2>2 DEF CancelAll
      <3>2. holder' # w
        BY <2>2, NamesAssumption DEF CancelAll
      <3> QED
        BY <3>1, <3>2
    <2>3. CASE w \notin group
      <3>1. task'[w] = tasks[w]
        BY <2>3 DEF CancelAll
      <3>2. holder' = w <=> holder = w
        BY <2>3, NamesAssumption DEF CancelAll
      <3> QED
        BY <2>1, <3>1, <3>2
    <2> QED
      BY <2>2, <2>3
  <1>4. \A w \in Tasks : (task'[w] = "writing") = (holder' = w)
    BY <1>3
  <1>5. holder' \in Tasks \cup {None} /\ holder' \in threads' \cup {None}
    BY DEF CancelAll, TypeOK
  <1> QED
    BY <1>2, <1>4, <1>5 DEF LockIsHeld

\* A task that moves neither to nor from the lock keeps the types.
LEMMA MoveIsTyped ==
  ASSUME TypeOK, NEW w \in Tasks, NEW to \in Standing, task[w] # "writing", to # "writing",
         task' = [task EXCEPT ![w] = to], UNCHANGED store
  PROVE  task' \in [Tasks -> Standing] /\ LockIsHeld'
  <1>1. task' \in [Tasks -> Standing]
    BY DEF TypeOK, Standing
  <1>2. \A u \in Tasks : task'[u] = "writing" <=> task[u] = "writing"
    BY DEF TypeOK
  <1> QED
    BY <1>1, <1>2 DEF TypeOK, LockIsHeld, store

\* What TypeOK says of the variables that no cancel touches.
Frame ==
  /\ conn \in [Conns -> {"away", "open", "closing", "closed"}]
  /\ owner \in [Tasks -> Conns \cup Sets \cup {None}]
  /\ threads \in SUBSET Tasks
  /\ shut \in SUBSET Sets
  /\ phase \in Phases
  /\ awaitedConns \in SUBSET Conns

Tasked == task \in [Tasks -> Standing] /\ told \in SUBSET Tasks /\ LockIsHeld

\* The two parts together are the type invariant.
LEMMA TypesAre ==
  /\ TypeOK <=> Frame /\ Tasked
  /\ TypeOK' <=> Frame' /\ Tasked'
  BY DEF TypeOK, Frame, Tasked, Standing, LockIsHeld

\* Every step of the daemon, its clients and its tasks keeps the types.
LEMMA TypeStep == TypeOK /\ [Next]_vars => TypeOK'
  <1> SUFFICES ASSUME TypeOK, [Next]_vars PROVE Frame' /\ Tasked'
    BY TypesAre
  <1>a. Frame /\ Tasked
    BY TypesAre
  <1>b. \A w \in Tasks, to \in Standing :
          /\ task[w] # "writing" /\ to # "writing"
          /\ task' = [task EXCEPT ![w] = to] /\ UNCHANGED store /\ UNCHANGED told
          => Tasked'
    BY <1>a, MoveIsTyped DEF Tasked
  <1>c. \A group \in SUBSET Tasks, tasks \in [Tasks -> Standing] :
          /\ \A w \in Tasks : tasks[w] = "writing" <=> task[w] = "writing"
          /\ CancelAll(group, tasks) /\ threads' = threads
          => Tasked'
    BY CancelAllIsTyped DEF Tasked
  <1>d. \A group \in SUBSET Tasks :
          CancelAll(group, task) /\ threads' = threads => Tasked'
    BY <1>a, <1>c DEF Tasked
  <1>e. \A w \in Tasks, who \in Conns \cup Sets, set \in Sets : Spawn(w, who, set)
          => Frame' /\ Tasked'
    <2> SUFFICES ASSUME NEW w \in Tasks, NEW who \in Conns \cup Sets, NEW set \in Sets,
                        Spawn(w, who, set)
                 PROVE  Frame' /\ Tasked'
      OBVIOUS
    <2>1. Tasked'
      BY <1>b DEF Spawn, Standing
    <2>2. Frame'
      BY <1>a DEF Spawn, Frame, store, ending
    <2> QED
      BY <2>1, <2>2
  <1>1. CASE Stop
    <2>1. Tasked'
      BY <1>1, <1>d DEF Stop, Live
    <2>2. Frame'
      BY <1>1, <1>a DEF Stop, Stage, Frame, Phases
    <2> QED
      BY <2>1, <2>2
  <1>2. ASSUME NEW set \in Sets, CloseSet(set), phase' \in Phases PROVE Frame' /\ Tasked'
    <2>1. Tasked'
      BY <1>2, <1>d DEF CloseSet, Live
    <2>2. Frame'
      BY <1>2, <1>a DEF CloseSet, Frame
    <2> QED
      BY <2>1, <2>2
  <1>3. CASE CloseTasks
    BY <1>2, <1>3 DEF CloseTasks, Stage, Phases, Sets
  <1>4. CASE CloseMonitors
    BY <1>2, <1>4 DEF CloseMonitors, Stage, Phases, Sets
  <1>5. CASE AwaitStore
    BY <1>5, <1>a DEF AwaitStore, Stage, Phases, Frame, Tasked, LockIsHeld, store
  <1>6. CASE CloseStore
    BY <1>6, <1>a DEF CloseStore, Stage, Phases, Frame, Tasked, LockIsHeld, store
  <1>7. ASSUME NEW c \in Conns, Connect(c) PROVE Frame' /\ Tasked'
    BY <1>7, <1>a DEF Connect, Frame, Tasked, LockIsHeld, store, ending
  <1>8. ASSUME NEW c \in Conns, NEW tasks \in [Tasks -> Standing], BeginClose(c, tasks),
               \A w \in Tasks : tasks[w] = "writing" <=> task[w] = "writing",
               UNCHANGED <<owner, threads, ending>>
        PROVE  Frame' /\ Tasked'
    <2>1. Tasked'
      BY <1>8, <1>c DEF BeginClose, Owned, Live
    <2>2. Frame'
      BY <1>8, <1>a DEF BeginClose, Frame, ending
    <2> QED
      BY <2>1, <2>2
  <1>9. ASSUME NEW c \in Conns, HangUp(c) PROVE Frame' /\ Tasked'
    BY <1>8, <1>9, <1>a DEF HangUp, Tasked
  <1>10. ASSUME NEW c \in Conns, EndClose(c) PROVE Frame' /\ Tasked'
    <2>1. Frame'
      BY <1>10, <1>a DEF EndClose, Frame, store, ending
    <2>2. task' \in [Tasks -> Standing]
      BY <1>10, <1>a DEF EndClose, RefusePrompts, Tasked, Standing
    <2>3. \A w \in Tasks : task'[w] = "writing" <=> task[w] = "writing"
      BY <1>10 DEF EndClose, RefusePrompts
    <2> QED
      BY <1>10, <1>a, <2>1, <2>2, <2>3 DEF EndClose, Tasked, LockIsHeld, store
  <1>11. ASSUME NEW w \in Tasks, NEW c \in Conns, Request(w, c) PROVE Frame' /\ Tasked'
    BY <1>11, <1>e DEF Request, Sets
  <1>12. ASSUME NEW w \in Tasks, NEW c \in Conns, SendTimesOut(w, c) PROVE Frame' /\ Tasked'
    <2> DEFINE ended == IF owner[w] = c THEN [task EXCEPT ![w] = "done"] ELSE task
    <2>1. ended \in [Tasks -> Standing]
      BY <1>a DEF Tasked, Standing
    <2>2. \A u \in Tasks : ended[u] = "writing" <=> task[u] = "writing"
      BY <1>12, <1>a DEF SendTimesOut, Tasked
    <2>3. BeginClose(c, ended) /\ UNCHANGED <<owner, threads, ending>>
      BY <1>12 DEF SendTimesOut
    <2> HIDE DEF ended
    <2> QED
      BY <1>8, <2>1, <2>2, <2>3
  <1>13. ASSUME NEW w \in Tasks, Signal(w) PROVE Frame' /\ Tasked'
    BY <1>13, <1>e DEF Signal, Sets
  <1>14. ASSUME NEW w \in Tasks, Tick(w) PROVE Frame' /\ Tasked'
    BY <1>14, <1>e DEF Tick, Sets
  <1>15. ASSUME NEW w \in Tasks, NEW from \in Standing \ {"writing"},
                NEW to \in Standing \ {"writing"}, Moves(w, from, to), UNCHANGED store
         PROVE  Frame' /\ Tasked'
    <2>1. Frame'
      BY <1>15, <1>a DEF Moves, Frame, store, ending
    <2>2. Tasked'
      BY <1>15, <1>b DEF Moves
    <2> QED
      BY <2>1, <2>2
  <1>16. ASSUME NEW w \in Tasks,
                Prompt(w) \/ Respond(w) \/ Append(w) \/ TooLate(w) \/ End(w)
         PROVE  Frame' /\ Tasked'
    BY <1>15, <1>16 DEF Prompt, Respond, Append, TooLate, End, Standing
  <1>17. ASSUME NEW w \in Tasks, TakeLock(w) PROVE Frame' /\ Tasked'
    <2>1. Frame'
      BY <1>17, <1>a DEF TakeLock, Moves, Frame, ending
    <2>2. task' \in [Tasks -> Standing]
      BY <1>17, <1>a DEF TakeLock, Moves, Tasked, Standing
    <2>3. \A u \in Tasks : task'[u] = "writing" <=> u = w
      BY <1>17, <1>a, NamesAssumption DEF TakeLock, Moves, Tasked, LockIsHeld
    <2> QED
      BY <1>17, <1>a, <2>1, <2>2, <2>3 DEF TakeLock, Moves, Tasked, LockIsHeld
  <1>18. ASSUME NEW w \in Tasks, Written(w) PROVE Frame' /\ Tasked'
    <2>1. Frame'
      BY <1>18, <1>a DEF Written, Frame, ending
    <2>2. CASE task[w] = "writing"
      <3>1. task' = [task EXCEPT ![w] = "run"] /\ holder' = None /\ holder = w
        BY <1>18, <1>a, <2>2 DEF Written, Tasked, LockIsHeld
      <3>2. \A u \in Tasks : task'[u] # "writing"
        BY <1>a, <3>1 DEF Tasked, LockIsHeld
      <3> QED
        BY <1>18, <1>a, <2>1, <3>1, <3>2, NamesAssumption
        DEF Written, Tasked, LockIsHeld, Standing
    <2>3. CASE task[w] # "writing"
      <3>1. UNCHANGED <<task, holder>> /\ holder # w
        BY <1>18, <1>a, <2>3 DEF Written, Tasked, LockIsHeld
      <3> QED
        BY <1>18, <1>a, <2>1, <3>1 DEF Written, Tasked, LockIsHeld
    <2> QED
      BY <2>2, <2>3
  <1>19. CASE UNCHANGED vars
    BY <1>19, <1>a DEF vars, Frame, Tasked, LockIsHeld, store, ending
  <1> QED
    BY <1>1, <1>3, <1>4, <1>5, <1>6, <1>7, <1>9, <1>10, <1>11, <1>12, <1>13, <1>14, <1>16,
       <1>17, <1>18, <1>19 DEF Next, Closing

-----------------------------------------------------------------------------
(* Where tasks come from, who asks, and how a connection ends.             *)

\* A task set, or a connection that is not closed, spawns a task of its own.
Spawns ==
  \E w \in Tasks, who \in Conns \cup Sets, set \in Sets :
    /\ Spawn(w, who, set)
    /\ who = Monitors <=> set = Monitors
    /\ who \in Conns => conn[who] \in {"open", "closing"}

\* No task begins, changes hands, or is forgotten to have been cancelled.
NoneBegins == Live' \subseteq Live /\ owner' = owner /\ told \subseteq told'

\* A cancel begins no task.
LEMMA CancelsBeginNone ==
  ASSUME TypeOK, NEW group, group \subseteq Live, NEW tasks,
         \A w \in Tasks : tasks[w] = task[w] \/ tasks[w] = "done",
         CancelAll(group, tasks), UNCHANGED owner
  PROVE  NoneBegins
  <1>1. ASSUME NEW w \in Live' PROVE w \in Live
    BY <1>1 DEF Live, CancelAll
  <1> QED
    BY <1>1 DEF NoneBegins, CancelAll

\* A task moves on only while it lives.
LEMMA MovesBeginNone ==
  ASSUME TypeOK, NEW w \in Tasks, NEW to, task[w] \notin {"idle", "done"},
         task' = [task EXCEPT ![w] = to], UNCHANGED <<owner, told>>
  PROVE  NoneBegins
  BY DEF NoneBegins, Live, TypeOK

\* Whatever lives after a step was spawned by it, or lived before.
LEMMA TasksAreSpawned ==
  ASSUME TypeOK, [Next]_vars
  PROVE  Spawns \/ NoneBegins
  <1>1. CASE Stop
    BY <1>1, CancelsBeginNone DEF Stop
  <1>2. ASSUME NEW set \in Sets, CloseSet(set) PROVE NoneBegins
    BY <1>2, CancelsBeginNone DEF CloseSet
  <1>3. CASE Closing
    <2>1. CASE CloseTasks    BY <2>1, <1>2 DEF CloseTasks, Sets
    <2>2. CASE CloseMonitors BY <2>2, <1>2 DEF CloseMonitors, Sets
    <2>3. CASE AwaitStore    BY <2>3 DEF AwaitStore, NoneBegins, Live
    <2>4. CASE CloseStore    BY <2>4 DEF CloseStore, NoneBegins, Live
    <2> QED                  BY <1>3, <2>1, <2>2, <2>3, <2>4 DEF Closing
  <1>4. ASSUME NEW c \in Conns, Connect(c) PROVE NoneBegins
    BY <1>4 DEF Connect, NoneBegins, Live
  <1>5. ASSUME NEW c \in Conns, HangUp(c) PROVE NoneBegins
    BY <1>5, CancelsBeginNone DEF HangUp, BeginClose, Owned
  <1>6. ASSUME NEW c \in Conns, EndClose(c) PROVE NoneBegins
    BY <1>6 DEF EndClose, RefusePrompts, NoneBegins, Live
  <1>7. ASSUME NEW w \in Tasks, NEW c \in Conns, Request(w, c) PROVE Spawns
    BY <1>7, NamesAssumption DEF Request, Spawns, Sets
  <1>8. ASSUME NEW w \in Tasks, NEW c \in Conns, SendTimesOut(w, c) PROVE NoneBegins
    <2> DEFINE ended == IF owner[w] = c THEN [task EXCEPT ![w] = "done"] ELSE task
    <2>1. \A u \in Tasks : ended[u] = task[u] \/ ended[u] = "done"
      BY DEF TypeOK
    <2>2. BeginClose(c, ended) /\ UNCHANGED owner
      BY <1>8 DEF SendTimesOut
    <2> HIDE DEF ended
    <2> QED
      BY <2>1, <2>2, CancelsBeginNone DEF BeginClose, Owned
  <1>9. ASSUME NEW w \in Tasks, Signal(w) PROVE Spawns
    BY <1>9, NamesAssumption DEF Signal, Spawns, Sets
  <1>10. ASSUME NEW w \in Tasks, Tick(w) PROVE Spawns
    BY <1>10, NamesAssumption DEF Tick, Spawns, Sets
  <1>11. ASSUME NEW w \in Tasks, Prompt(w) \/ Respond(w) \/ Append(w) \/ TooLate(w) \/ End(w)
         PROVE  NoneBegins
    BY <1>11, MovesBeginNone DEF Prompt, Respond, Append, TooLate, End, Moves
  <1>12. ASSUME NEW w \in Tasks, TakeLock(w) PROVE NoneBegins
    BY <1>12, MovesBeginNone DEF TakeLock, Moves
  <1>13. ASSUME NEW w \in Tasks, Written(w) PROVE NoneBegins
    <2>1. CASE task[w] = "writing" BY <1>13, <2>1, MovesBeginNone DEF Written
    <2>2. CASE task[w] # "writing" BY <1>13, <2>2 DEF Written, NoneBegins, Live
    <2> QED                        BY <2>1, <2>2
  <1>14. CASE UNCHANGED vars
    BY <1>14 DEF vars, NoneBegins, Live
  <1> QED
    BY <1>1, <1>3, <1>4, <1>5, <1>6, <1>7, <1>8, <1>9, <1>10, <1>11, <1>12, <1>13, <1>14
    DEF Next

\* A prompt is one that was there before, or a client's of an open connection.
AskedOrAsking(w) ==
  /\ owner'[w] = owner[w]
  /\ \/ task[w] = "prompt"
     \/ owner[w] \in Conns /\ conn[owner[w]] # "closed" /\ conn' = conn

\* A cancel asks nobody.
LEMMA CancelsAskNobody ==
  ASSUME TypeOK, NEW group, NEW tasks,
         \A w \in Tasks : tasks[w] = task[w] \/ tasks[w] = "done",
         CancelAll(group, tasks), UNCHANGED owner
  PROVE  \A w \in Tasks : task'[w] = "prompt" => AskedOrAsking(w)
  <1> SUFFICES ASSUME NEW w \in Tasks, task'[w] = "prompt" PROVE AskedOrAsking(w)
    OBVIOUS
  <1>1. task'[w] = IF w \in group THEN Cancelled(w) ELSE tasks[w]
    BY DEF CancelAll
  <1> QED
    BY <1>1 DEF Cancelled, AskedOrAsking

\* A task at a prompt was there before the step, or has just come to it.
LEMMA WhoAsks ==
  ASSUME TypeOK, [Next]_vars, NEW w \in Tasks, task'[w] = "prompt"
  PROVE  AskedOrAsking(w)
  <1>1. CASE Stop
    BY <1>1, CancelsAskNobody DEF Stop
  <1>2. CASE Closing
    BY <1>2, CancelsAskNobody
    DEF Closing, CloseTasks, CloseMonitors, CloseSet, AwaitStore, CloseStore, AskedOrAsking
  <1>3. ASSUME NEW c \in Conns, Connect(c) PROVE AskedOrAsking(w)
    BY <1>3 DEF Connect, AskedOrAsking
  <1>4. ASSUME NEW c \in Conns, HangUp(c) PROVE AskedOrAsking(w)
    BY <1>4, CancelsAskNobody DEF HangUp, BeginClose
  <1>5. ASSUME NEW c \in Conns, EndClose(c) PROVE AskedOrAsking(w)
    BY <1>5 DEF EndClose, RefusePrompts, AskedOrAsking
  <1>6. ASSUME NEW u \in Tasks, NEW who, NEW set, Spawn(u, who, set) PROVE AskedOrAsking(w)
    BY <1>6 DEF Spawn, AskedOrAsking, TypeOK
  <1>7. ASSUME NEW u \in Tasks, NEW c \in Conns, SendTimesOut(u, c) PROVE AskedOrAsking(w)
    <2> DEFINE ended == IF owner[u] = c THEN [task EXCEPT ![u] = "done"] ELSE task
    <2>1. \A v \in Tasks : ended[v] = task[v] \/ ended[v] = "done"
      BY DEF TypeOK
    <2>2. BeginClose(c, ended) /\ UNCHANGED owner
      BY <1>7 DEF SendTimesOut
    <2> HIDE DEF ended
    <2> QED
      BY <2>1, <2>2, CancelsAskNobody DEF BeginClose
  <1>8. ASSUME NEW u \in Tasks,
               Prompt(u) \/ Respond(u) \/ Append(u) \/ TooLate(u) \/ End(u) \/ TakeLock(u)
        PROVE  AskedOrAsking(w)
    <2>1. CASE u = w
      BY <1>8, <2>1 DEF Prompt, Respond, Append, TooLate, End, TakeLock, Moves,
         AskedOrAsking, TypeOK
    <2>2. CASE u # w
      BY <1>8, <2>2 DEF Prompt, Respond, Append, TooLate, End, TakeLock, Moves,
         AskedOrAsking, TypeOK
    <2> QED
      BY <2>1, <2>2
  <1>9. ASSUME NEW u \in Tasks, Written(u) PROVE AskedOrAsking(w)
    <2>1. CASE task[u] = "writing" BY <1>9, <2>1 DEF Written, AskedOrAsking, TypeOK
    <2>2. CASE task[u] # "writing" BY <1>9, <2>2 DEF Written, AskedOrAsking
    <2> QED                        BY <2>1, <2>2
  <1>10. CASE UNCHANGED vars
    BY <1>10 DEF vars, AskedOrAsking
  <1> QED
    BY <1>1, <1>2, <1>3, <1>4, <1>5, <1>6, <1>7, <1>8, <1>9, <1>10
    DEF Next, Request, Signal, Tick

\* A connection never comes back, and it ends by the end of its close, or at
\* once when the shutdown finds that it never came.
LEMMA ConnectionsEnd ==
  ASSUME TypeOK, [Next]_vars, NEW c \in Conns
  PROVE  /\ conn'[c] = "away" => conn[c] = "away"
         /\ conn'[c] = "closed" =>
              conn[c] = "closed" \/ EndClose(c) \/ (conn[c] = "away" /\ Stop)
  <1> DEFINE Q == /\ conn'[c] = "away" => conn[c] = "away"
                  /\ conn'[c] = "closed" =>
                       conn[c] = "closed" \/ EndClose(c) \/ (conn[c] = "away" /\ Stop)
  <1>1. Stop => Q
    BY DEF Stop
  <1>2. ASSUME NEW d \in Conns, Connect(d) PROVE Q
    BY <1>2 DEF Connect, TypeOK
  <1>3. ASSUME NEW d \in Conns, NEW tasks, BeginClose(d, tasks) PROVE Q
    BY <1>3 DEF BeginClose, TypeOK
  <1>4. ASSUME NEW d \in Conns, EndClose(d) PROVE Q
    <2>1. CASE d = c BY <1>4, <2>1 DEF EndClose, TypeOK
    <2>2. CASE d # c BY <1>4, <2>2 DEF EndClose, TypeOK
    <2> QED          BY <2>1, <2>2
  <1>5. conn' = conn => Q
    OBVIOUS
  <1>6. Closing => conn' = conn
    BY DEF Closing, CloseTasks, CloseMonitors, CloseSet, AwaitStore, CloseStore
  <1>7. ASSUME NEW w \in Tasks, NEW d \in Conns, Request(w, d) \/ SendTimesOut(w, d) PROVE Q
    <2>1. CASE Request(w, d)      BY <1>5, <2>1 DEF Request, Spawn
    <2>2. CASE SendTimesOut(w, d) BY <1>3, <2>2 DEF SendTimesOut
    <2> QED                       BY <1>7, <2>1, <2>2
  <1>8. ASSUME NEW w \in Tasks,
               \/ Signal(w) \/ Tick(w) \/ Prompt(w) \/ Respond(w)
               \/ Append(w) \/ TakeLock(w) \/ TooLate(w) \/ Written(w) \/ End(w)
        PROVE  conn' = conn
    BY <1>8 DEF Signal, Tick, Spawn, Prompt, Respond, Append, TakeLock, TooLate, Written,
       End, Moves
  <1>9. ASSUME NEW d \in Conns, HangUp(d) PROVE Q
    BY <1>3, <1>9 DEF HangUp
  <1>10. UNCHANGED vars => conn' = conn
    BY DEF vars
  <1> HIDE DEF Q
  <1>11. Closing \/ UNCHANGED vars => Q
    BY <1>5, <1>6, <1>10
  <1>12. ASSUME NEW w \in Tasks,
               \/ Signal(w) \/ Tick(w) \/ Prompt(w) \/ Respond(w)
               \/ Append(w) \/ TakeLock(w) \/ TooLate(w) \/ Written(w) \/ End(w)
         PROVE  Q
    BY <1>5, <1>8, <1>12
  <1>13. Q
    BY <1>1, <1>2, <1>4, <1>7, <1>9, <1>11, <1>12 DEF Next
  <1> QED
    BY <1>13 DEF Q

-----------------------------------------------------------------------------
(* The invariant.                                                          *)

\* The initial states satisfy it.
LEMMA InitInvariant == Init => IInv
  <1> SUFFICES ASSUME Init PROVE IInv
    OBVIOUS
  <1>1. TypeOK
    BY NamesAssumption DEF Init, TypeOK, Phases
  <1>2. Live = {} /\ \A w \in Tasks : task[w] = "idle"
    BY DEF Init, Live
  <1> QED
    BY <1>1, <1>2 DEF Init, IInv, StagesShut, ShutSetsAreTold, OwnersCame, OnlyClientsAsk,
       PromptsEndWithTheirClient

\* A set that closes is announced by its stage, and never opens again.
LEMMA ShutStep ==
  ASSUME TypeOK, StagesShut, [Next]_vars
  PROVE  /\ StagesShut'
         /\ shut' = shut \/ \E set \in Sets : CloseSet(set)
  <1>1. CASE Stop
    BY <1>1 DEF Stop, Stage, StagesShut
  <1>2. CASE CloseTasks
    BY <1>2 DEF CloseTasks, CloseSet, Stage, StagesShut, Sets
  <1>3. CASE CloseMonitors
    BY <1>3 DEF CloseMonitors, CloseSet, Stage, StagesShut, Sets
  <1>4. CASE AwaitStore \/ CloseStore
    BY <1>4 DEF AwaitStore, CloseStore, Stage, StagesShut
  <1>5. UNCHANGED <<shut, phase>> => StagesShut' /\ shut' = shut
    BY DEF StagesShut
  <1>6. ASSUME NEW c \in Conns, Connect(c) \/ HangUp(c) \/ EndClose(c)
        PROVE  UNCHANGED <<shut, phase>>
    BY <1>6 DEF Connect, HangUp, EndClose, ending
  <1>7. ASSUME NEW w \in Tasks, NEW c \in Conns, Request(w, c) \/ SendTimesOut(w, c)
        PROVE  UNCHANGED <<shut, phase>>
    BY <1>7 DEF Request, Spawn, SendTimesOut, ending
  <1>8. ASSUME NEW w \in Tasks,
               \/ Signal(w) \/ Tick(w) \/ Prompt(w) \/ Respond(w)
               \/ Append(w) \/ TakeLock(w) \/ TooLate(w) \/ Written(w) \/ End(w)
        PROVE  UNCHANGED <<shut, phase>>
    BY <1>8 DEF Signal, Tick, Spawn, Prompt, Respond, Append, TakeLock, TooLate, Written,
       End, Moves, ending
  <1>9. UNCHANGED vars => UNCHANGED <<shut, phase>>
    BY DEF vars, ending
  <1> QED
    BY <1>1, <1>2, <1>3, <1>4, <1>5, <1>6, <1>7, <1>8, <1>9 DEF Next, Closing

\* A closing set is emptied of what has not been cancelled, and stays so.
LEMMA ToldStep ==
  ASSUME TypeOK, StagesShut, ShutSetsAreTold, [Next]_vars
  PROVE  ShutSetsAreTold'
  <1>1. ASSUME NEW set \in Sets, CloseSet(set), NEW w \in Live', SetOf(w)' \in shut'
        PROVE  w \in told'
    <2>1. w \in Live /\ SetOf(w)' = SetOf(w)
      <3>1. CancelAll({u \in Live : SetOf(u) = set}, task) /\ owner' = owner
        BY <1>1 DEF CloseSet
      <3>2. NoneBegins
        BY <3>1, CancelsBeginNone
      <3> QED
        BY <3>2 DEF NoneBegins, SetOf
    <2>2. shut' = shut \cup {set} /\ told' = told \cup {u \in Live : SetOf(u) = set}
      BY <1>1 DEF CloseSet, CancelAll
    <2> QED
      BY <1>1, <2>1, <2>2 DEF ShutSetsAreTold
  <1>2. ASSUME shut' = shut, NoneBegins PROVE ShutSetsAreTold'
    BY <1>2 DEF ShutSetsAreTold, NoneBegins, SetOf
  <1>3. ASSUME shut' = shut, Spawns PROVE ShutSetsAreTold'
    <2>1. PICK w \in Tasks, who \in Conns \cup Sets, set \in Sets :
            Spawn(w, who, set) /\ (who = Monitors <=> set = Monitors)
      BY <1>3 DEF Spawns
    <2>2. owner'[w] = who /\ set \notin shut
      BY <2>1 DEF Spawn, TypeOK
    <2>3. SetOf(w)' = set
      BY <2>1, <2>2 DEF SetOf, Sets
    <2>4. \A u \in Live' \ {w} : u \in Live /\ SetOf(u)' = SetOf(u)
      BY <2>1 DEF Spawn, Live, SetOf, TypeOK
    <2>5. told' = told
      BY <2>1 DEF Spawn
    <2> QED
      BY <1>3, <2>2, <2>3, <2>4, <2>5 DEF ShutSetsAreTold
  <1> QED
    BY <1>1, <1>2, <1>3, ShutStep, TasksAreSpawned DEF ShutSetsAreTold

\* A connection's tasks come after it, however they and it end.
LEMMA OwnersStep ==
  ASSUME TypeOK, OwnersCame, [Next]_vars
  PROVE  OwnersCame'
  <1>1. \A c \in Conns : conn'[c] = "away" => conn[c] = "away"
    BY ConnectionsEnd
  <1>2. CASE NoneBegins
    BY <1>1, <1>2 DEF OwnersCame, NoneBegins
  <1>3. CASE Spawns
    <2>1. PICK w \in Tasks, who \in Conns \cup Sets, set \in Sets :
            Spawn(w, who, set) /\ (who \in Conns => conn[who] \in {"open", "closing"})
      BY <1>3 DEF Spawns
    <2>2. owner'[w] = who /\ conn' = conn
      BY <2>1 DEF Spawn, TypeOK
    <2>3. \A u \in Live' \ {w} : u \in Live /\ owner'[u] = owner[u]
      BY <2>1 DEF Spawn, Live, TypeOK
    <2> QED
      BY <2>1, <2>2, <2>3 DEF OwnersCame
  <1> QED
    BY <1>2, <1>3, TasksAreSpawned

\* A prompt ends before its connection does.
LEMMA PromptStep ==
  ASSUME TypeOK, OwnersCame, OnlyClientsAsk, PromptsEndWithTheirClient, [Next]_vars
  PROVE  OnlyClientsAsk' /\ PromptsEndWithTheirClient'
  <1> SUFFICES ASSUME NEW w \in Tasks, task'[w] = "prompt"
               PROVE  owner'[w] \in Conns /\ conn'[owner'[w]] # "closed"
    BY DEF OnlyClientsAsk, PromptsEndWithTheirClient, Live
  <1>1. AskedOrAsking(w)
    BY WhoAsks
  <1>2. CASE owner[w] \in Conns /\ conn[owner[w]] # "closed" /\ conn' = conn
    BY <1>1, <1>2 DEF AskedOrAsking
  <1>3. CASE task[w] = "prompt"
    <2>1. owner'[w] = owner[w] /\ owner[w] \in Conns /\ w \in Live
      BY <1>1, <1>3 DEF AskedOrAsking, OnlyClientsAsk, Live
    <2>2. conn[owner[w]] # "closed" /\ conn[owner[w]] # "away"
      BY <1>3, <2>1 DEF PromptsEndWithTheirClient, OwnersCame
    <2>3. ~EndClose(owner[w])
      BY DEF EndClose, RefusePrompts
    <2> QED
      BY <2>1, <2>2, <2>3, ConnectionsEnd
  <1> QED
    BY <1>1, <1>2, <1>3 DEF AskedOrAsking

\* Every step keeps the whole invariant, which therefore always holds.
LEMMA NextInvariant == IInv /\ [Next]_vars => IInv'
  BY TypeStep, ShutStep, ToldStep, OwnersStep, PromptStep DEF IInv

\* The invariant holds in every reachable state.
LEMMA Invariant == Spec => []IInv
  BY InitInvariant, NextInvariant, PTL DEF Spec

-----------------------------------------------------------------------------
(* The theorems.                                                           *)

\* The type invariant holds, the store's lock and its holder included.
THEOREM TypeCorrect == Spec => []TypeOK
  <1>1. IInv => TypeOK
    BY DEF IInv
  <1> QED
    BY <1>1, Invariant, PTL

\* What is alive when the store has closed was cancelled by aclose: whatever
\* requests, signals and ticks come while it runs (server.Daemon.aclose).
THEOREM NoneIsForgotten == Spec => []OnlyStubbornTasksOutliveTheStore
  <1>1. IInv => OnlyStubbornTasksOutliveTheStore
    <2> SUFFICES ASSUME IInv, phase = "stopped", NEW w \in Live PROVE w \in told
      BY DEF OnlyStubbornTasksOutliveTheStore
    <2>1. Daemon \in shut /\ Monitors \in shut
      BY DEF IInv, StagesShut
    <2>2. SetOf(w) \in shut
      BY <2>1 DEF SetOf
    <2> QED
      BY <2>2 DEF IInv, ShutSetsAreTold
  <1> QED
    BY <1>1, Invariant, PTL

\* No task waits at a prompt of a connection that is gone
\* (connections.ConnectionManager.close).
THEOREM NobodyAsksTheGone == Spec => []PromptsEndWithTheirClient
  <1>1. IInv => PromptsEndWithTheirClient
    BY DEF IInv
  <1> QED
    BY <1>1, Invariant, PTL
=============================================================================
