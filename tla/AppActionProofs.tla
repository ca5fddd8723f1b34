-------------------------- MODULE AppActionProofs ---------------------------
(***************************************************************************)
(* Proofs about the app actions, for any tasks, sessions and packages.     *)
(*                                                                         *)
(* A task that nobody disturbs sees the file and the profile change by its *)
(* own hand only (OwnView); as long as no task was disturbed, broke off or *)
(* went without an answer, what it finds when it begins is a system that   *)
(* its file describes (SoundAt), and so is what it leaves behind.          *)
(***************************************************************************)
EXTENDS AppAction, SequenceTheorems, TLAPS

Place == {"idle", "validating", "asking", "written", "switching", "reverted", "rolling", "done"}
Critical == {"written", "switching", "reverted", "rolling"}

-----------------------------------------------------------------------------
(* Calls.                                                                  *)

\* The two calls of a task, and those of two tasks, are different calls.
LEMMA CallsDiffer ==
  /\ \A t \in Tasks : Switch(t) \in Call /\ Rollback(t) \in Call
  /\ \A t, u \in Tasks : Switch(t) # Rollback(u)
  /\ \A t, u \in Tasks : t # u => Switch(t) # Switch(u) /\ Rollback(t) # Rollback(u)
  /\ \A t \in Tasks : Switch(t)[2] = "switch" /\ Rollback(t)[2] = "rollback"
  /\ \A c \in Call : \E t \in Tasks : c = Switch(t) \/ c = Rollback(t)
  BY DEF Call, Switch, Rollback

\* A call is made once, by a task that has come to it; it moves the profile while it
\* runs, and must have to succeed; it is answered when it is over.
CallsInOrder ==
  /\ \A t \in Tasks :
       /\ pc[t] \in {"idle", "validating", "asking", "written"} => job[Switch(t)] = "none"
       /\ pc[t] \notin {"rolling", "done"} => job[Rollback(t)] = "none"
  /\ \A c \in Call :
       /\ c \in moved => job[c] \in {"running", "succeeded", "failed"}
       /\ job[c] = "succeeded" => c \in moved
       /\ answer[c] # "none" => job[c] \in {"succeeded", "failed", "dropped"}

\* Who is disturbed is on record, and how a task ended only once it has.
OnRecord ==
  \A t \in Tasks :
    /\ Active(t) /\ Disturbed(t) => t \in overlapped
    /\ pc[t] # "done" => outcome[t] = "none"

-----------------------------------------------------------------------------
(* What the steps have in common.                                          *)

HelperTypeOK == Helper!SvcTypeOK

\* Every action of the service keeps its types.
LEMMA ServiceIsTyped ==
  ASSUME HelperTypeOK, [Helper!SvcNext]_helperVars
  PROVE  HelperTypeOK'
  <1> USE DEF HelperTypeOK, Helper!SvcTypeOK, Helper!JobState, Helper!Answer
  <1>1. ASSUME NEW c \in Call, Helper!Submit(c) PROVE HelperTypeOK'
    BY <1>1 DEF Helper!Submit
  <1>2. ASSUME NEW c \in Call, Helper!Start(c) PROVE HelperTypeOK'
    BY <1>2 DEF Helper!Start
  <1>3. ASSUME NEW c \in Call, NEW result \in {"succeeded", "failed"}, Helper!Finish(c, result)
        PROVE  HelperTypeOK'
    BY <1>3 DEF Helper!Finish
  <1>4. ASSUME NEW c \in Call, Helper!Refuse(c) PROVE HelperTypeOK'
    BY <1>4 DEF Helper!Refuse
  <1>5. ASSUME NEW c \in Call, NEW a \in {"ok", "fail"}, Helper!Reply(c, a) PROVE HelperTypeOK'
    BY <1>5 DEF Helper!Reply
  <1>6. CASE Helper!Restart
    BY <1>6, MaxCrashesAssumption DEF Helper!Restart
  <1>7. CASE UNCHANGED helperVars
    BY <1>7 DEF helperVars
  <1> QED
    BY <1>1, <1>2, <1>3, <1>4, <1>5, <1>6, <1>7 DEF Helper!SvcNext

\* Whatever an app action or a rebuild does, it does to the helper by the service's own
\* operations.
LEMMA StepsAreServiceSteps == [Next]_vars => [Helper!SvcNext]_helperVars
  <1> SUFFICES ASSUME [Next]_vars PROVE [Helper!SvcNext]_helperVars
    OBVIOUS
  <1> USE CallsDiffer
  <1>a. ASSUME NEW c \in Call, CallSucceeds(c) \/ CallFails(c)
        PROVE  [Helper!SvcNext]_helperVars
    BY <1>a DEF CallSucceeds, CallFails, Helper!SvcNext, helperVars
  <1>1. ASSUME NEW t \in Tasks, TaskStep(t) PROVE [Helper!SvcNext]_helperVars
    <2>1. CASE AsksSwitch(t)
      BY <2>1 DEF AsksSwitch, Ask, Helper!SvcNext
    <2>2. CASE AsksRollback(t)
      BY <2>2 DEF AsksRollback, Ask, Helper!SvcNext
    <2>3. CASE SwitchSucceeds(t) \/ SwitchFailsUntouched(t) \/ SwitchFailsActivated(t)
      BY <1>a, <2>3 DEF SwitchSucceeds, SwitchFailsUntouched, SwitchFailsActivated
    <2>4. CASE RollbackSucceeds(t) \/ RollbackFails(t)
      BY <1>a, <2>4 DEF RollbackSucceeds, RollbackFails
    <2>5. CASE UNCHANGED helperVars
      BY <2>5
    <2> QED
      BY <1>1, <2>1, <2>2, <2>3, <2>4, <2>5
      DEF TaskStep, ReadFile, NothingToEdit, Evaluates, SuggestedEvaluates, DoesNotEvaluate,
          Declines, Confirms, SwitchUnreachable, RollbackUnreachable, EditIsLeft,
         RollbackIsSkipped, Killed
  <1>2. ASSUME NEW c \in Call, HelperStep(c) PROVE [Helper!SvcNext]_helperVars
    BY <1>2
    DEF HelperStep, RebuildStarts, MovesProfile, RebuildSucceeds, RebuildFails, Helper!SvcNext
  <1>3. CASE HelperRestarts
    BY <1>3 DEF HelperRestarts, Helper!SvcNext
  <1>4. CASE UNCHANGED vars
    BY <1>4 DEF vars, helperVars
  <1> QED
    BY <1>1, <1>2, <1>3, <1>4 DEF Next

-----------------------------------------------------------------------------
(* Types.                                                                  *)

\* The variables of the tasks, and those of the system.
TasksTyped ==
  /\ pc \in [Tasks -> Place]
  /\ outcome \in [Tasks -> Outcome]
  /\ original \in [Tasks -> SUBSET Pkgs]
  /\ edited \in [Tasks -> SUBSET Pkgs]
  /\ genBefore \in [Tasks -> Nat]
  /\ file \in SUBSET Pkgs

SystemTyped ==
  /\ gens \in Seq(SUBSET Pkgs)
  /\ cur \in 1..Len(gens)
  /\ mixed \in BOOLEAN
  /\ built \in [Call -> SUBSET Pkgs]
  /\ moved \in SUBSET Call

\* The type invariant in parts, so that a step restores only what it writes.
LEMMA TypesAre ==
  /\ TypeOK <=> TasksTyped /\ SystemTyped /\ overlapped \in SUBSET Tasks /\ HelperTypeOK
  /\ TypeOK' <=> TasksTyped' /\ SystemTyped' /\ overlapped' \in SUBSET Tasks /\ HelperTypeOK'
  BY DEF TypeOK, TasksTyped, SystemTyped, HelperTypeOK, Place

\* Any task's step keeps the types of the tasks and of the file.
LEMMA TaskStepIsTyped ==
  ASSUME TasksTyped, SystemTyped, NEW t \in Tasks, TaskStep(t)
  PROVE  TasksTyped'
  <1> USE DEF TasksTyped, Goto, Place
  <1>a. ASSUME NEW how \in Outcome, End(t, how), file' \in SUBSET Pkgs PROVE TasksTyped'
    BY <1>a DEF End
  <1>b. {"unchanged", "applied", "failed", "rolled_back", "rollback_failed",
          "edit_left", "not_rolled_back", "killed"} \subseteq Outcome
    BY DEF Outcome
  <1>1. CASE ReadFile(t)
    <2>1. PICK p \in Pkgs, add \in BOOLEAN :
            Edit(p, add) # file /\ edited' = [edited EXCEPT ![t] = Edit(p, add)]
      BY <1>1 DEF ReadFile
    <2>2. Edit(p, add) \in SUBSET Pkgs
      BY DEF Edit
    <2> QED
      BY <1>1, <2>1, <2>2 DEF ReadFile
  <1>2. CASE NothingToEdit(t) \/ DoesNotEvaluate(t) \/ Declines(t)
    BY <1>2, <1>a, <1>b DEF NothingToEdit, DoesNotEvaluate, Declines
  <1>3. CASE Evaluates(t)
    BY <1>3 DEF Evaluates
  <1>4. CASE SuggestedEvaluates(t)
    <2>1. PICK p \in Pkgs : edited' = [edited EXCEPT ![t] = original[t] \cup {p}]
      BY <1>4 DEF SuggestedEvaluates
    <2>2. original[t] \cup {p} \in SUBSET Pkgs
      OBVIOUS
    <2> QED
      BY <1>4, <2>1, <2>2 DEF SuggestedEvaluates
  <1>5. CASE Confirms(t)
    BY <1>5 DEF Confirms
  <1>6. CASE AsksSwitch(t)
    <2>1. cur \in Nat
      BY LenProperties DEF SystemTyped
    <2> QED
      BY <1>6, <2>1 DEF AsksSwitch
  <1>7. CASE SwitchUnreachable(t) \/ SwitchSucceeds(t) \/ SwitchFailsUntouched(t)
    BY <1>7, <1>a, <1>b DEF SwitchUnreachable, SwitchSucceeds, SwitchFailsUntouched, RestoresFile
  <1>8. CASE SwitchFailsActivated(t)
    BY <1>8 DEF SwitchFailsActivated, RestoresFile
  <1>9. CASE AsksRollback(t)
    BY <1>9 DEF AsksRollback
  <1>10. CASE RollbackUnreachable(t) \/ RollbackSucceeds(t) \/ RollbackFails(t) \/ EditIsLeft(t)
         \/ RollbackIsSkipped(t) \/ Killed(t)
    BY <1>10, <1>a, <1>b DEF RollbackUnreachable, RollbackSucceeds, RollbackFails, EditIsLeft,
         RollbackIsSkipped, Killed
  <1> QED
    BY <1>1, <1>2, <1>3, <1>4, <1>5, <1>6, <1>7, <1>8, <1>9, <1>10 DEF TaskStep

\* So does any rebuild's step for the system: the profile has a current generation.
LEMMA HelperStepIsTyped ==
  ASSUME TasksTyped, SystemTyped, NEW c \in Call, HelperStep(c)
  PROVE  SystemTyped'
  <1>1. CASE RebuildStarts(c)
    BY <1>1 DEF RebuildStarts, SystemTyped, TasksTyped
  <1>2. CASE MovesProfile(c)
    <2>1. Len(gens) \in Nat /\ cur \in 1..Len(gens)
      BY LenProperties DEF SystemTyped
    <2>2. CASE c[2] = "switch" /\ cur' = Len(gens')
               /\ gens' = IF built[c] = gens[Len(gens)] THEN gens ELSE Append(gens, built[c])
      <3>1. gens' = gens \/ gens' = Append(gens, built[c])
        BY <2>2
      <3>2. gens' \in Seq(SUBSET Pkgs) /\ Len(gens') \in Nat \ {0}
        BY <2>1, <3>1, AppendProperties DEF SystemTyped
      <3> QED
        BY <1>2, <2>2, <3>2 DEF MovesProfile, SystemTyped
    <2>3. CASE cur > 1 /\ cur' = cur - 1 /\ gens' = gens
      BY <1>2, <2>1, <2>3 DEF MovesProfile, SystemTyped
    <2> QED
      BY <1>2, <2>2, <2>3 DEF MovesProfile
  <1>3. CASE RebuildSucceeds(c) \/ RebuildFails(c)
    BY <1>3 DEF RebuildSucceeds, RebuildFails, SystemTyped
  <1> QED
    BY <1>1, <1>2, <1>3 DEF HelperStep

\* Every step observes who is disturbed.
LEMMA EveryStepObserves == Next => Observe
  BY DEF Next, TaskStep, HelperStep, HelperRestarts, ReadFile, NothingToEdit, Evaluates,
         SuggestedEvaluates, DoesNotEvaluate, Declines, Confirms, AsksSwitch,
         SwitchUnreachable, SwitchSucceeds, SwitchFailsUntouched, SwitchFailsActivated,
         AsksRollback, RollbackUnreachable, RollbackSucceeds, RollbackFails, EditIsLeft,
         RollbackIsSkipped, Killed,
         RebuildStarts, MovesProfile, RebuildSucceeds, RebuildFails

\* A task touches neither the profile nor what is being built; a rebuild, or the
\* helper's restart, no task and no file.
LEMMA WhoTouchesWhat ==
  /\ \A t \in Tasks : TaskStep(t) => UNCHANGED systemVars
  /\ \A c \in Call : HelperStep(c) => UNCHANGED <<taskVars, file>>
  /\ HelperRestarts => UNCHANGED <<taskVars, file, systemVars>>
  BY DEF TaskStep, HelperStep, HelperRestarts, ReadFile, NothingToEdit, Evaluates,
         SuggestedEvaluates, DoesNotEvaluate, Declines, Confirms, AsksSwitch,
         SwitchUnreachable, SwitchSucceeds, SwitchFailsUntouched, SwitchFailsActivated,
         AsksRollback, RollbackUnreachable, RollbackSucceeds, RollbackFails, EditIsLeft,
         RollbackIsSkipped, Killed,
         RebuildStarts, MovesProfile, RebuildSucceeds, RebuildFails

\* Every step keeps the types.
LEMMA TypeStep == TypeOK /\ [Next]_vars => TypeOK'
  <1> SUFFICES ASSUME TypeOK, [Next]_vars PROVE TypeOK'
    OBVIOUS
  <1>1. HelperTypeOK'
    BY ServiceIsTyped, StepsAreServiceSteps, TypesAre
  <1>2. CASE Next
    <2>1. overlapped' \in SUBSET Tasks
      BY <1>2, EveryStepObserves, TypesAre DEF Observe
    <2>2. TasksTyped' /\ SystemTyped'
      <3>1. ASSUME NEW t \in Tasks, TaskStep(t) PROVE TasksTyped' /\ SystemTyped'
        BY <3>1, TaskStepIsTyped, WhoTouchesWhat, TypesAre DEF SystemTyped, systemVars
      <3>2. ASSUME NEW c \in Call, HelperStep(c) PROVE TasksTyped' /\ SystemTyped'
        BY <3>2, HelperStepIsTyped, WhoTouchesWhat, TypesAre DEF TasksTyped, taskVars
      <3>3. CASE HelperRestarts
        BY <3>3, WhoTouchesWhat, TypesAre
        DEF TasksTyped, SystemTyped, taskVars, systemVars
      <3> QED
        BY <1>2, <3>1, <3>2, <3>3 DEF Next
    <2> QED
      BY <1>1, <2>1, <2>2, TypesAre
  <1>3. CASE UNCHANGED vars
    BY <1>1, <1>3, TypesAre DEF vars, taskVars, systemVars, TasksTyped, SystemTyped
  <1> QED
    BY <1>2, <1>3

-----------------------------------------------------------------------------
(* The calls keep their order, and the record is kept.                     *)

\* A task that ends, or goes on without a call.
LEMMA QuietStepsKeepOrder ==
  ASSUME TypeOK, CallsInOrder, NEW t \in Tasks, NEW to \in Place,
         pc' = [pc EXCEPT ![t] = to], to # "idle",
         to \in {"validating", "asking", "written"} =>
           pc[t] \in {"idle", "validating", "asking", "written"},
         to \notin {"rolling", "done"} => pc[t] \notin {"rolling", "done"},
         UNCHANGED <<job, moved>>,
         \A c \in Call : answer'[c] # "none" =>
                           answer[c] # "none" \/ job[c] \in {"succeeded", "failed", "dropped"}
  PROVE  CallsInOrder'
  BY DEF CallsInOrder, TypeOK

\* A call that returns is over, or is given up: no other call's state changes.
LEMMA ReturnsKeepOrder ==
  ASSUME TypeOK, CallsInOrder, NEW t \in Tasks, NEW c \in Call, NEW to \in {"done", "reverted"},
         to = "reverted" => pc[t] = "switching",
         pc' = [pc EXCEPT ![t] = to], CallSucceeds(c) \/ CallFails(c), moved' = moved
  PROVE  CallsInOrder'
  <1>1. CASE CallSucceeds(c) \/ (~Pending(c) /\ Helper!Reply(c, "fail"))
    <2>1. job[c] \in {"succeeded", "failed"} /\ job' = job
          /\ \A d \in Call : d # c => answer'[d] = answer[d]
      BY <1>1 DEF CallSucceeds, Pending, Helper!Reply, TypeOK, Helper!SvcTypeOK
    <2> QED
      BY <2>1, QuietStepsKeepOrder DEF Place
  <1>2. CASE Helper!Refuse(c)
    <2>1. /\ job[c] = "queued" /\ job' = [job EXCEPT ![c] = "dropped"]
          /\ \A d \in Call : d # c => answer'[d] = answer[d]
      BY <1>2 DEF Helper!Refuse, TypeOK, Helper!SvcTypeOK
    <2> QED
      BY <2>1 DEF CallsInOrder, TypeOK, Helper!SvcTypeOK
  <1>3. CASE UNCHANGED <<job, answer, era, now>>
    BY <1>3, QuietStepsKeepOrder DEF Place
  <1> QED
    BY <1>1, <1>2, <1>3 DEF CallFails

\* A task's step keeps the order of the calls.
LEMMA TaskKeepsOrder ==
  ASSUME TypeOK, CallsInOrder, NEW t \in Tasks, TaskStep(t)
  PROVE  CallsInOrder'
  <1>a. moved' = moved
    BY WhoTouchesWhat DEF systemVars
  <1>1. CASE ReadFile(t) \/ Evaluates(t) \/ SuggestedEvaluates(t) \/ Confirms(t)
    BY <1>1, <1>a, QuietStepsKeepOrder
    DEF ReadFile, Evaluates, SuggestedEvaluates, Confirms, Goto, helperVars, Place
  <1>2. CASE NothingToEdit(t) \/ DoesNotEvaluate(t) \/ Declines(t) \/ SwitchUnreachable(t)
               \/ RollbackUnreachable(t) \/ EditIsLeft(t)
         \/ RollbackIsSkipped(t) \/ Killed(t)
    BY <1>2, <1>a, QuietStepsKeepOrder
    DEF NothingToEdit, DoesNotEvaluate, Declines, SwitchUnreachable, RollbackUnreachable,
        EditIsLeft,
         RollbackIsSkipped, Killed, End, helperVars, Place
  <1>3. CASE AsksSwitch(t)
    <2>1. /\ pc[t] = "written" /\ pc' = [pc EXCEPT ![t] = "switching"]
          /\ job[Switch(t)] = "none" /\ job' = [job EXCEPT ![Switch(t)] = "queued"]
          /\ answer' = answer
      BY <1>3 DEF AsksSwitch, Goto, Ask, Helper!Submit
    <2> QED
      BY <1>a, <2>1, CallsDiffer DEF CallsInOrder, TypeOK, Helper!SvcTypeOK
  <1>4. CASE AsksRollback(t)
    <2>1. /\ pc[t] = "reverted" /\ pc' = [pc EXCEPT ![t] = "rolling"]
          /\ job[Rollback(t)] = "none" /\ job' = [job EXCEPT ![Rollback(t)] = "queued"]
          /\ answer' = answer
      BY <1>4 DEF AsksRollback, Goto, Ask, Helper!Submit
    <2> QED
      BY <1>a, <2>1, CallsDiffer DEF CallsInOrder, TypeOK, Helper!SvcTypeOK
  <1>5. CASE SwitchSucceeds(t) \/ SwitchFailsUntouched(t) \/ SwitchFailsActivated(t)
    <2>1. \E to \in {"done", "reverted"} :
            pc' = [pc EXCEPT ![t] = to] /\ (to = "reverted" => pc[t] = "switching")
      BY <1>5 DEF SwitchSucceeds, SwitchFailsUntouched, SwitchFailsActivated, Goto, End
    <2>2. CallSucceeds(Switch(t)) \/ CallFails(Switch(t))
      BY <1>5 DEF SwitchSucceeds, SwitchFailsUntouched, SwitchFailsActivated
    <2> QED
      BY <1>a, <2>1, <2>2, CallsDiffer, ReturnsKeepOrder
  <1>6. CASE RollbackSucceeds(t) \/ RollbackFails(t)
    <2>1. pc' = [pc EXCEPT ![t] = "done"]
      BY <1>6 DEF RollbackSucceeds, RollbackFails, End
    <2>2. CallSucceeds(Rollback(t)) \/ CallFails(Rollback(t))
      BY <1>6 DEF RollbackSucceeds, RollbackFails
    <2> QED
      BY <1>a, <2>1, <2>2, CallsDiffer, ReturnsKeepOrder
  <1> QED
    BY <1>1, <1>2, <1>3, <1>4, <1>5, <1>6 DEF TaskStep

\* So does a rebuild's, and the helper's restart.
LEMMA HelperKeepsOrder ==
  ASSUME TypeOK, CallsInOrder, HelperRestarts \/ \E c \in Call : HelperStep(c)
  PROVE  CallsInOrder'
  <1>a. pc' = pc /\ answer' = answer
    BY WhoTouchesWhat
    DEF taskVars, HelperRestarts, Helper!Restart, HelperStep, RebuildStarts, MovesProfile,
        RebuildSucceeds, RebuildFails, Helper!Start, Helper!Finish, helperVars
  <1>b. \A t \in Tasks : Switch(t) \in Call /\ Rollback(t) \in Call
    BY CallsDiffer
  <1>1. ASSUME NEW c \in Call, RebuildStarts(c) PROVE CallsInOrder'
    <2>1. job[c] = "queued" /\ job' = [job EXCEPT ![c] = "running"] /\ moved' = moved
      BY <1>1 DEF RebuildStarts, Helper!Start
    <2> QED
      BY <1>a, <1>b, <2>1 DEF CallsInOrder, TypeOK, Helper!SvcTypeOK
  <1>2. ASSUME NEW c \in Call, MovesProfile(c) PROVE CallsInOrder'
    <2>1. job[c] = "running" /\ job' = job /\ moved' = moved \cup {c}
      BY <1>2 DEF MovesProfile, Helper!Running, helperVars
    <2> QED
      BY <1>a, <2>1 DEF CallsInOrder
  <1>3. ASSUME NEW c \in Call, RebuildSucceeds(c) \/ RebuildFails(c) PROVE CallsInOrder'
    <2>1. /\ job[c] = "running" /\ moved' = moved
          /\ \/ job' = [job EXCEPT ![c] = "succeeded"] /\ c \in moved
             \/ job' = [job EXCEPT ![c] = "failed"]
      BY <1>3 DEF RebuildSucceeds, RebuildFails, Helper!Finish, Helper!Running
    <2>2. /\ \A d \in Call : d # c => job'[d] = job[d]
          /\ (job'[c] = "succeeded" /\ c \in moved) \/ job'[c] = "failed"
      BY <2>1 DEF TypeOK, Helper!SvcTypeOK
    <2>3. \A d \in Call : job[d] = "none" <=> job'[d] = "none"
      BY <2>1, <2>2
    <2>4. \A d \in Call :
            /\ d \in moved' => job'[d] \in {"running", "succeeded", "failed"}
            /\ job'[d] = "succeeded" => d \in moved'
            /\ answer'[d] # "none" => job'[d] \in {"succeeded", "failed", "dropped"}
      BY <1>a, <2>1, <2>2 DEF CallsInOrder
    <2> QED
      BY <1>a, <1>b, <2>3, <2>4 DEF CallsInOrder
  <1>4. CASE HelperRestarts
    <2>1. moved' = moved
          /\ \A c \in Call : job'[c] = IF job[c] = "queued" THEN "dropped" ELSE job[c]
      BY <1>4 DEF HelperRestarts, systemVars, Helper!Restart
    <2> QED
      BY <1>a, <1>b, <2>1 DEF CallsInOrder
  <1> QED
    BY <1>1, <1>2, <1>3, <1>4 DEF HelperStep

\* A task's place and end are changed by itself only, and it ends once.
LEMMA OwnPlace ==
  ASSUME TypeOK, [Next]_vars, NEW u \in Tasks, ~TaskStep(u)
  PROVE  UNCHANGED <<pc[u], outcome[u], original[u], edited[u], genBefore[u]>>
  <1>1. ASSUME NEW t \in Tasks, TaskStep(t), t # u
        PROVE  UNCHANGED <<pc[u], outcome[u], original[u], edited[u], genBefore[u]>>
    BY <1>1
    DEF TypeOK, TaskStep, Goto, End, ReadFile, NothingToEdit, Evaluates,
         SuggestedEvaluates, DoesNotEvaluate, Declines, Confirms, AsksSwitch,
         SwitchUnreachable, SwitchSucceeds, SwitchFailsUntouched, SwitchFailsActivated,
         AsksRollback, RollbackUnreachable, RollbackSucceeds, RollbackFails, EditIsLeft,
         RollbackIsSkipped, Killed
  <1>2. CASE UNCHANGED taskVars
    BY <1>2 DEF taskVars
  <1> QED
    BY <1>1, <1>2, WhoTouchesWhat DEF Next, vars

\* Who is disturbed, and how each task ended, stays on record.
LEMMA RecordIsKept ==
  ASSUME TypeOK, OnRecord, [Next]_vars
  PROVE  OnRecord'
  <1>1. ASSUME NEW t \in Tasks, Active(t)', Disturbed(t)' PROVE t \in overlapped'
    <2>1. CASE Next
      BY <1>1, <2>1, EveryStepObserves DEF Observe
    <2>2. CASE UNCHANGED vars
      BY <1>1, <2>2
      DEF vars, taskVars, systemVars, helperVars, OnRecord, Active, Disturbed, Pending
    <2> QED
      BY <2>1, <2>2
  <1>2. ASSUME NEW t \in Tasks, pc'[t] # "done" PROVE outcome'[t] = "none"
    <2>1. CASE TaskStep(t)
      <3>1. pc[t] # "done" /\ outcome' = outcome
        BY <1>2, <2>1
        DEF TypeOK, TaskStep, Goto, End, ReadFile, NothingToEdit, Evaluates,
            SuggestedEvaluates, DoesNotEvaluate, Declines, Confirms, AsksSwitch,
            SwitchUnreachable, SwitchSucceeds, SwitchFailsUntouched, SwitchFailsActivated,
            AsksRollback, RollbackUnreachable, RollbackSucceeds, RollbackFails, EditIsLeft,
         RollbackIsSkipped, Killed
      <3> QED
        BY <3>1 DEF OnRecord
    <2>2. CASE ~TaskStep(t)
      BY <1>2, <2>2, OwnPlace DEF OnRecord
    <2> QED
      BY <2>1, <2>2
  <1> QED
    BY <1>1, <1>2 DEF OnRecord

-----------------------------------------------------------------------------
(* What an undisturbed task sees.                                          *)

SwitchView(t) ==
  \/ /\ Switch(t) \notin moved
     /\ cur = genBefore[t]
     /\ job[Switch(t)] = "running" => built[Switch(t)] = edited[t]
  \/ /\ Switch(t) \in moved
     /\ cur = Len(gens) /\ gens[cur] = edited[t] /\ genBefore[t] <= Len(gens)
     /\ job[Switch(t)] = "succeeded" => ~mixed

RollbackView(t) ==
  \/ Rollback(t) \notin moved /\ cur = Len(gens)
  \/ /\ Rollback(t) \in moved
     /\ cur = Len(gens) - 1
     /\ job[Rollback(t)] = "succeeded" => ~mixed

\* The file is what t read, or wrote, and the profile what its own calls made of it.
View(t) ==
  /\ pc[t] \in {"validating", "asking"} => file = original[t]
  /\ pc[t] = "written" => file = edited[t]
  /\ pc[t] = "switching" => file = edited[t] /\ SwitchView(t)
  /\ pc[t] \in {"reverted", "rolling"} =>
       file = original[t] /\ Switch(t) \in moved /\ genBefore[t] < Len(gens)
  /\ pc[t] = "reverted" => cur = Len(gens)
  /\ pc[t] = "rolling" => RollbackView(t)

OwnView == \A t \in Tasks : Active(t) /\ t \notin overlapped => View(t)

\* Nothing that t looks at changes.
Untouched(t) ==
  /\ UNCHANGED <<file, gens, cur, mixed>>
  /\ \A c \in {Switch(t), Rollback(t)} :
       /\ c \in moved' <=> c \in moved
       /\ job'[c] \in {"running", "succeeded"} => job'[c] = job[c]
       /\ built'[c] = built[c]

\* While t is active and undisturbed only its own steps, and its own calls, touch that.
LEMMA NobodyElse ==
  ASSUME TypeOK, OnRecord, [Next]_vars, NEW t \in Tasks, Active(t), t \notin overlapped',
         ~TaskStep(t), ~HelperStep(Switch(t)), ~HelperStep(Rollback(t))
  PROVE  Untouched(t)
  <1>1. CASE UNCHANGED vars
    BY <1>1 DEF vars, systemVars, helperVars, Untouched
  <1>2. CASE Next
    <2>1. t \notin overlapped /\ ~Disturbed(t) /\ ~Disturbed(t)'
      <3>1. Active(t)'
        BY OwnPlace DEF Active
      <3>2. overlapped' = overlapped \cup {u \in Tasks : Active(u)' /\ Disturbed(u)'}
        BY <1>2, EveryStepObserves DEF Observe
      <3> QED
        BY <3>1, <3>2 DEF OnRecord
    <2>2. ASSUME NEW u \in Tasks, TaskStep(u) PROVE Untouched(t)
      <3>1. u # t /\ pc[u] \notin Critical /\ pc'[u] \notin Critical
        BY <2>1, <2>2 DEF Disturbed, Critical
      <3>2. UNCHANGED <<file, job>>
        BY <2>2, <3>1
        DEF TypeOK, Critical, TaskStep, Goto, End, ReadFile, NothingToEdit, Evaluates,
            SuggestedEvaluates, DoesNotEvaluate, Declines, Confirms, AsksSwitch,
            SwitchUnreachable, SwitchSucceeds, SwitchFailsUntouched, SwitchFailsActivated,
            AsksRollback, RollbackUnreachable, RollbackSucceeds, RollbackFails, EditIsLeft,
         RollbackIsSkipped, Killed,
            helperVars
      <3> QED
        BY <2>2, <3>2, WhoTouchesWhat DEF Untouched, systemVars
    <2>3. ASSUME NEW c \in Call, HelperStep(c) PROVE FALSE
      <3>1. Pending(c)
        BY <2>3
        DEF HelperStep, RebuildStarts, MovesProfile, RebuildSucceeds, RebuildFails,
            Helper!Start, Helper!Running, Helper!Finish, Pending
      <3>2. PICK u \in Tasks : c = Switch(u) \/ c = Rollback(u)
        BY CallsDiffer
      <3>3. u # t
        BY <2>3, <3>2
      <3> QED
        BY <2>1, <3>1, <3>2, <3>3 DEF Disturbed
    <2>4. CASE HelperRestarts
      <3>1. \A c \in Call : job'[c] = IF job[c] = "queued" THEN "dropped" ELSE job[c]
        BY <2>4 DEF HelperRestarts, Helper!Restart
      <3> QED
        BY <2>4, <3>1, WhoTouchesWhat, CallsDiffer DEF Untouched, systemVars
    <2> QED
      BY <1>2, <2>2, <2>3, <2>4 DEF Next
  <1> QED
    BY <1>1, <1>2

\* What t sees stays true while nothing of it is touched.
LEMMA UntouchedView ==
  ASSUME NEW t \in Tasks, View(t), Untouched(t),
         UNCHANGED <<pc[t], original[t], edited[t], genBefore[t]>>
  PROVE  View(t)'
  BY DEF View, SwitchView, RollbackView, Untouched, Switch, Rollback

\* t's own steps change the file and its locals together.
LEMMA OwnStepView ==
  ASSUME TypeOK, CallsInOrder, OwnView, NEW t \in Tasks, TaskStep(t),
         Active(t)', t \notin overlapped
  PROVE  View(t)'
  <1>a. UNCHANGED <<gens, cur, mixed, built, moved>>
    BY WhoTouchesWhat DEF systemVars
  <1>b. Active(t) => View(t)
    BY DEF OwnView
  <1>c. cur <= Len(gens) /\ cur \in Nat /\ Len(gens) \in Nat
    BY LenProperties DEF TypeOK
  <1>d. \A to : pc' = [pc EXCEPT ![t] = to] => pc'[t] = to
    BY DEF TypeOK
  <1>1. CASE ReadFile(t)
    <2>1. pc'[t] = "validating" /\ file' = file /\ original'[t] = file
      BY <1>1, <1>d DEF ReadFile, Goto, TypeOK
    <2> QED
      BY <2>1 DEF View
  <1>2. CASE Evaluates(t) \/ SuggestedEvaluates(t)
    <2>1. pc[t] = "validating" /\ pc'[t] = "asking" /\ file' = file /\ original' = original
      BY <1>2, <1>d DEF Evaluates, SuggestedEvaluates, Goto
    <2> QED
      BY <1>b, <2>1 DEF View, Active
  <1>3. CASE Confirms(t)
    <2>1. pc'[t] = "written" /\ file' = edited[t] /\ edited' = edited
      BY <1>3, <1>d DEF Confirms, Goto
    <2> QED
      BY <2>1 DEF View
  <1>4. CASE AsksSwitch(t)
    <2>1. /\ pc[t] = "written" /\ pc'[t] = "switching" /\ genBefore'[t] = cur
          /\ UNCHANGED <<file, edited>> /\ job'[Switch(t)] = "queued"
          /\ job[Switch(t)] = "none"
      BY <1>4, <1>d, CallsDiffer
      DEF AsksSwitch, Goto, Ask, Helper!Submit, TypeOK, Helper!SvcTypeOK
    <2>2. Switch(t) \notin moved
      BY <2>1, CallsDiffer DEF CallsInOrder
    <2> QED
      BY <1>a, <1>b, <2>1, <2>2 DEF View, SwitchView, Active
  <1>5. CASE SwitchFailsActivated(t)
    <2>1. /\ pc[t] = "switching" /\ pc'[t] = "reverted" /\ cur # genBefore[t]
          /\ file' = original[t] /\ UNCHANGED <<original, genBefore>>
      BY <1>5, <1>d DEF SwitchFailsActivated, Goto, RestoresFile
    <2>2. Switch(t) \in moved /\ cur = Len(gens) /\ genBefore[t] < Len(gens)
      BY <1>b, <1>c, <2>1 DEF View, SwitchView, Active, TypeOK
    <2> QED
      BY <1>a, <2>1, <2>2 DEF View
  <1>6. CASE AsksRollback(t)
    <2>1. /\ pc[t] = "reverted" /\ pc'[t] = "rolling"
          /\ UNCHANGED <<file, original, genBefore>> /\ job[Rollback(t)] = "none"
      BY <1>6, <1>d DEF AsksRollback, Goto, Ask, Helper!Submit
    <2>2. Rollback(t) \notin moved
      BY <2>1, CallsDiffer DEF CallsInOrder
    <2> QED
      BY <1>a, <1>b, <2>1, <2>2 DEF View, RollbackView, Active
  <1>7. ASSUME NEW how, End(t, how) PROVE FALSE
    BY <1>7, <1>d DEF End, Active
  <1> QED
    BY <1>1, <1>2, <1>3, <1>4, <1>5, <1>6, <1>7
    DEF TaskStep, NothingToEdit, DoesNotEvaluate, Declines, SwitchUnreachable, SwitchSucceeds,
        SwitchFailsUntouched, RollbackUnreachable, RollbackSucceeds, RollbackFails, EditIsLeft,
         RollbackIsSkipped, Killed

\* What a rebuild does to the profile, in a state of any task.
LEMMA ProfileMoves ==
  ASSUME TypeOK, NEW c \in Call, MovesProfile(c)
  PROVE  /\ c \notin moved /\ moved' = moved \cup {c} /\ job[c] = "running" /\ job' = job
         /\ c[2] = "switch" =>
              /\ cur' = Len(gens') /\ gens'[cur'] = built[c] /\ Len(gens) <= Len(gens')
              /\ \/ gens' = gens /\ built[c] = gens[Len(gens)]
                 \/ /\ Len(gens') = Len(gens) + 1
                    /\ \A i \in 1..Len(gens) : gens'[i] = gens[i]
         /\ c[2] = "rollback" => cur > 1 /\ cur' = cur - 1 /\ gens' = gens
  <1>1. gens \in Seq(SUBSET Pkgs) /\ Len(gens) \in Nat \ {0} /\ built[c] \in SUBSET Pkgs
    BY LenProperties DEF TypeOK
  <1>2. /\ c \notin moved /\ moved' = moved \cup {c} /\ job[c] = "running" /\ job' = job
    BY DEF MovesProfile, Helper!Running, helperVars
  <1>3. ASSUME c[2] = "switch"
        PROVE  /\ cur' = Len(gens') /\ gens'[cur'] = built[c] /\ Len(gens) <= Len(gens')
               /\ \/ gens' = gens /\ built[c] = gens[Len(gens)]
                  \/ /\ Len(gens') = Len(gens) + 1
                     /\ \A i \in 1..Len(gens) : gens'[i] = gens[i]
    <2>1. /\ cur' = Len(gens')
          /\ \/ gens' = gens /\ built[c] = gens[Len(gens)]
             \/ gens' = Append(gens, built[c])
      BY <1>3 DEF MovesProfile
    <2>2. CASE gens' = gens /\ built[c] = gens[Len(gens)]
      BY <1>1, <2>1, <2>2
    <2>3. CASE gens' = Append(gens, built[c])
      BY <1>1, <2>1, <2>3, AppendProperties
    <2> QED
      BY <2>1, <2>2, <2>3
  <1>4. c[2] = "rollback" => cur > 1 /\ cur' = cur - 1 /\ gens' = gens
    BY DEF MovesProfile
  <1> QED
    BY <1>2, <1>3, <1>4

\* t's switch moves the profile to what t wrote, and its rollback one step back.
LEMMA OwnCallView ==
  ASSUME TypeOK, CallsInOrder, OwnView, NEW t \in Tasks, Active(t), t \notin overlapped,
         HelperStep(Switch(t)) \/ HelperStep(Rollback(t))
  PROVE  View(t)'
  <1>a. UNCHANGED <<pc, original, edited, genBefore, file>>
    BY WhoTouchesWhat, CallsDiffer DEF taskVars
  <1>b. View(t)
    BY DEF OwnView
  <1>c. Switch(t) \in Call /\ Rollback(t) \in Call /\ Switch(t) # Rollback(t)
        /\ Switch(t)[2] = "switch" /\ Rollback(t)[2] = "rollback"
    BY CallsDiffer
  <1>d. \A c \in Call : c \in moved => job[c] \in {"running", "succeeded", "failed"}
    BY DEF CallsInOrder
  <1>e. cur \in Nat /\ cur <= Len(gens) /\ Len(gens) \in Nat /\ genBefore[t] \in Nat
    BY LenProperties DEF TypeOK
  <1>f. job[Switch(t)] # "none" => pc[t] \in {"switching", "reverted", "rolling"}
    BY DEF CallsInOrder, Active, TypeOK
  <1>g. job[Rollback(t)] # "none" => pc[t] = "rolling"
    BY DEF CallsInOrder, Active, TypeOK
  <1>1. ASSUME NEW c \in {Switch(t), Rollback(t)}, RebuildStarts(c) PROVE View(t)'
    <2>1. /\ job[c] = "queued" /\ job' = [job EXCEPT ![c] = "running"]
          /\ built' = [built EXCEPT ![c] = IF c[2] = "switch" THEN file ELSE {}]
          /\ UNCHANGED <<gens, cur, mixed, moved>> /\ c \notin moved
      BY <1>1, <1>c, <1>d DEF RebuildStarts, Helper!Start
    <2>2. /\ \A d \in Call : d # c => job'[d] = job[d] /\ built'[d] = built[d]
          /\ c = Switch(t) => built'[c] = file
      BY <1>c, <2>1 DEF TypeOK, Helper!SvcTypeOK
    <2>3. c = Switch(t) => pc[t] = "switching"
      BY <1>b, <1>f, <2>1 DEF View
    <2>4. CASE c = Switch(t)
      BY <1>a, <1>b, <1>c, <2>1, <2>2, <2>3, <2>4 DEF View, SwitchView
    <2>5. CASE c = Rollback(t)
      <3>1. pc[t] = "rolling"
        BY <1>g, <2>1, <2>5
      <3> QED
        BY <1>a, <1>b, <1>c, <2>1, <2>2, <2>5, <3>1 DEF View, RollbackView
    <2> QED
      BY <2>4, <2>5
  <1>2. CASE MovesProfile(Switch(t))
    <2>1. /\ Switch(t) \notin moved /\ Switch(t) \in moved' /\ job' = job
          /\ job[Switch(t)] = "running"
          /\ cur' = Len(gens') /\ gens'[cur'] = built[Switch(t)] /\ Len(gens) <= Len(gens')
      BY <1>2, <1>c, ProfileMoves
    <2>2. pc[t] = "switching"
      BY <1>b, <1>f, <2>1 DEF View
    <2>3. SwitchView(t)'
      BY <1>a, <1>b, <1>e, <2>1, <2>2, LenProperties DEF View, SwitchView
    <2> QED
      BY <1>a, <1>b, <2>2, <2>3 DEF View
  <1>3. CASE MovesProfile(Rollback(t))
    <2>1. /\ Rollback(t) \notin moved /\ moved' = moved \cup {Rollback(t)} /\ job' = job
          /\ job[Rollback(t)] = "running" /\ cur' = cur - 1 /\ gens' = gens
      BY <1>3, <1>c, ProfileMoves
    <2>2. pc[t] = "rolling"
      BY <1>g, <2>1
    <2> QED
      BY <1>a, <1>b, <2>1, <2>2 DEF View, RollbackView
  <1>4. ASSUME NEW c \in {Switch(t), Rollback(t)}, RebuildSucceeds(c) PROVE View(t)'
    BY <1>4, <1>a, <1>b, <1>c
    DEF RebuildSucceeds, Helper!Finish, View, SwitchView, RollbackView, TypeOK, Helper!SvcTypeOK
  <1>5. ASSUME NEW c \in {Switch(t), Rollback(t)}, RebuildFails(c) PROVE View(t)'
    <2>1. /\ job' = [job EXCEPT ![c] = "failed"] /\ UNCHANGED <<gens, cur, mixed, moved>>
          /\ built' = [built EXCEPT ![c] = {}]
      BY <1>5 DEF RebuildFails, Helper!Finish
    <2>2. \A d \in Call : job'[d] \in {"running", "succeeded"} =>
                            job'[d] = job[d] /\ built'[d] = built[d]
      BY <1>c, <2>1 DEF TypeOK, Helper!SvcTypeOK
    <2> QED
      BY <1>a, <1>b, <1>c, <2>1, <2>2 DEF View, SwitchView, RollbackView
  <1> QED
    BY <1>1, <1>2, <1>3, <1>4, <1>5 DEF HelperStep

\* So every step keeps the view of every task that it leaves undisturbed.
LEMMA ViewIsKept ==
  ASSUME TypeOK, CallsInOrder, OnRecord, OwnView, [Next]_vars
  PROVE  OwnView'
  <1> SUFFICES ASSUME NEW t \in Tasks, Active(t)', t \notin overlapped' PROVE View(t)'
    BY DEF OwnView
  <1>1. t \notin overlapped
    BY EveryStepObserves DEF Observe, vars
  <1>2. CASE TaskStep(t)
    BY <1>1, <1>2, OwnStepView
  <1>3. CASE ~TaskStep(t)
    <2>1. UNCHANGED <<pc[t], original[t], edited[t], genBefore[t]>> /\ Active(t)
      BY <1>3, OwnPlace DEF Active
    <2>2. CASE HelperStep(Switch(t)) \/ HelperStep(Rollback(t))
      BY <1>1, <2>1, <2>2, OwnCallView
    <2>3. CASE ~HelperStep(Switch(t)) /\ ~HelperStep(Rollback(t))
      BY <1>1, <1>3, <2>1, <2>3, NobodyElse, UntouchedView DEF OwnView
    <2> QED
      BY <2>2, <2>3
  <1> QED
    BY <1>2, <1>3

-----------------------------------------------------------------------------
(* What orderly actions leave behind.                                      *)

RolledBack == {t \in Tasks : outcome[t] = "rolled_back"}

\* The system finished its activation, and is described by f: for sure when it runs its
\* newest generation, and as long as no more than one action was rolled back.
SoundAt(f) ==
  /\ ~mixed
  /\ cur = Len(gens) => f = gens[cur]
  /\ RolledBack = {} => cur = Len(gens)
  /\ (\A t, u \in RolledBack : t = u) => f = gens[cur]

Settled(c) == job[c] = "none" \/ answer[c] # "none"

\* So far nothing broke off, was given up on, lost or disturbed.
Clean ==
  /\ \A t \in Tasks :
       /\ ~BrokeOff(t) /\ outcome[t] # "rollback_failed"
       /\ pc[t] # "switching" => Settled(Switch(t))
       /\ pc[t] # "rolling" => Settled(Rollback(t))
  /\ now = 0 /\ overlapped = {}

\* What t changes is a change, of a system it found sound; a switch that moved the
\* profile shows, and one step back from it is where t began.
Found(t) ==
  /\ pc[t] \in {"validating", "asking", "written", "switching"} => edited[t] # original[t]
  /\ pc[t] = "written" => SoundAt(original[t])
  /\ pc[t] = "switching" /\ Switch(t) \notin moved => SoundAt(original[t])
  /\ pc[t] = "switching" /\ Switch(t) \in moved => cur # genBefore[t]
  /\ \/ pc[t] = "switching" /\ Switch(t) \in moved
     \/ pc[t] \in {"reverted", "rolling"}
     => (RolledBack = {} => gens[Len(gens) - 1] = original[t])

AtRest == \A t \in Tasks : pc[t] \notin Critical

AsFound == Clean => (\A t \in Tasks : Found(t)) /\ (AtRest => SoundAt(file))

\* A task that has ended takes no step.
LEMMA DoneIsDone == \A t \in Tasks : TaskStep(t) => pc[t] # "done"
  BY DEF TaskStep, Goto, ReadFile, NothingToEdit, Evaluates,
         SuggestedEvaluates, DoesNotEvaluate, Declines, Confirms, AsksSwitch,
         SwitchUnreachable, SwitchSucceeds, SwitchFailsUntouched, SwitchFailsActivated,
         AsksRollback, RollbackUnreachable, RollbackSucceeds, RollbackFails, EditIsLeft,
         RollbackIsSkipped, Killed, Active

\* Only the task that waits for a call gets its answer.
LEMMA AnswersAreFetched ==
  ASSUME TypeOK, [Next]_vars, NEW c \in Call, answer'[c] # answer[c]
  PROVE  \E t \in Tasks : \/ c = Switch(t) /\ pc[t] = "switching" /\ TaskStep(t)
                          \/ c = Rollback(t) /\ pc[t] = "rolling" /\ TaskStep(t)
  <1>a. ASSUME NEW d \in Call, CallSucceeds(d) \/ CallFails(d), d # c PROVE FALSE
    BY <1>a DEF CallSucceeds, CallFails, Helper!Refuse, Helper!Reply, TypeOK, Helper!SvcTypeOK
  <1>1. ASSUME NEW t \in Tasks, TaskStep(t)
        PROVE  \/ c = Switch(t) /\ pc[t] = "switching"
               \/ c = Rollback(t) /\ pc[t] = "rolling"
    <2>1. CASE SwitchSucceeds(t) \/ SwitchFailsUntouched(t) \/ SwitchFailsActivated(t)
      BY <1>a, <2>1, CallsDiffer
      DEF SwitchSucceeds, SwitchFailsUntouched, SwitchFailsActivated, Goto
    <2>2. CASE RollbackSucceeds(t) \/ RollbackFails(t)
      BY <1>a, <2>2, CallsDiffer DEF RollbackSucceeds, RollbackFails
    <2>3. CASE answer' = answer
      BY <2>3
    <2> QED
      BY <1>1, <2>1, <2>2, <2>3
      DEF TaskStep, ReadFile, NothingToEdit, Evaluates, SuggestedEvaluates, DoesNotEvaluate,
          Declines, Confirms, AsksSwitch, AsksRollback, Ask, Helper!Submit,
          SwitchUnreachable, RollbackUnreachable, EditIsLeft,
         RollbackIsSkipped, Killed, helperVars
  <1>2. ASSUME NEW d \in Call, HelperStep(d) PROVE FALSE
    BY <1>2
    DEF HelperStep, RebuildStarts, MovesProfile, RebuildSucceeds, RebuildFails, Helper!Start,
        Helper!Finish, helperVars
  <1>3. CASE HelperRestarts \/ UNCHANGED vars
    BY <1>3 DEF HelperRestarts, Helper!Restart, vars, helperVars
  <1> QED
    BY <1>1, <1>2, <1>3 DEF Next

\* A call that was made stays made, and incarnations only follow each other.
LEMMA ServiceGoesOn ==
  ASSUME TypeOK, [Next]_vars
  PROVE  /\ \A c \in Call : job'[c] = "none" => job[c] = "none"
         /\ now' = 0 => now = 0
  <1> USE DEF TypeOK, Helper!SvcTypeOK
  <1>1. [Helper!SvcNext]_helperVars
    BY StepsAreServiceSteps
  <1>2. ASSUME NEW c \in Call, Helper!Submit(c) \/ Helper!Start(c) \/ Helper!Refuse(c)
        PROVE  /\ \A d \in Call : job'[d] = "none" => job[d] = "none"
               /\ now' = now
    BY <1>2 DEF Helper!Submit, Helper!Start, Helper!Refuse
  <1>3. ASSUME NEW c \in Call, NEW result \in {"succeeded", "failed"}, Helper!Finish(c, result)
        PROVE  /\ \A d \in Call : job'[d] = "none" => job[d] = "none"
               /\ now' = now
    BY <1>3 DEF Helper!Finish
  <1>4. ASSUME NEW c \in Call, NEW a, Helper!Reply(c, a) PROVE job' = job /\ now' = now
    BY <1>4 DEF Helper!Reply
  <1>5. CASE Helper!Restart
    BY <1>5, MaxCrashesAssumption DEF Helper!Restart
  <1>6. CASE UNCHANGED helperVars
    BY <1>6 DEF helperVars
  <1> QED
    BY <1>1, <1>2, <1>3, <1>4, <1>5, <1>6 DEF Helper!SvcNext

\* What is in order after a step was before it.
LEMMA CleanBefore ==
  ASSUME TypeOK, CallsInOrder, OnRecord, [Next]_vars, Clean'
  PROVE  Clean
  <1>1. now = 0
    BY ServiceGoesOn DEF Clean
  <1>2. overlapped = {}
    BY EveryStepObserves DEF Clean, Observe, vars
  <1>3. ASSUME NEW t \in Tasks PROVE ~BrokeOff(t) /\ outcome[t] # "rollback_failed"
    BY DoneIsDone, OwnPlace DEF Clean, OnRecord, BrokeOff
  <1>4. ASSUME NEW t \in Tasks, pc[t] # "switching" PROVE Settled(Switch(t))
    <2>1. CASE pc'[t] = "switching"
      <3>1. AsksSwitch(t)
        BY <1>4, <2>1, OwnPlace
        DEF TypeOK, TaskStep, Goto, End, ReadFile, NothingToEdit, Evaluates,
            SuggestedEvaluates, DoesNotEvaluate, Declines, Confirms,
            SwitchUnreachable, SwitchSucceeds, SwitchFailsUntouched, SwitchFailsActivated,
            AsksRollback, RollbackUnreachable, RollbackSucceeds, RollbackFails, EditIsLeft,
         RollbackIsSkipped, Killed
      <3> QED
        BY <3>1 DEF AsksSwitch, Ask, Helper!Submit, Settled
    <2>2. CASE pc'[t] # "switching"
      <3>1. Settled(Switch(t))'
        BY <2>2 DEF Clean
      <3>2. answer'[Switch(t)] = answer[Switch(t)]
        BY <1>4, AnswersAreFetched, CallsDiffer
      <3> QED
        BY <3>1, <3>2, ServiceGoesOn, CallsDiffer DEF Settled, Switch
    <2> QED
      BY <2>1, <2>2
  <1>5. ASSUME NEW t \in Tasks, pc[t] # "rolling" PROVE Settled(Rollback(t))
    <2>1. CASE pc'[t] = "rolling"
      <3>1. AsksRollback(t)
        BY <1>5, <2>1, OwnPlace
        DEF TypeOK, TaskStep, Goto, End, ReadFile, NothingToEdit, Evaluates,
            SuggestedEvaluates, DoesNotEvaluate, Declines, Confirms, AsksSwitch,
            SwitchUnreachable, SwitchSucceeds, SwitchFailsUntouched, SwitchFailsActivated,
            RollbackUnreachable, RollbackSucceeds, RollbackFails, EditIsLeft,
         RollbackIsSkipped, Killed
      <3> QED
        BY <3>1 DEF AsksRollback, Ask, Helper!Submit, Settled
    <2>2. CASE pc'[t] # "rolling"
      <3>1. Settled(Rollback(t))'
        BY <2>2 DEF Clean
      <3>2. answer'[Rollback(t)] = answer[Rollback(t)]
        BY <1>5, AnswersAreFetched, CallsDiffer
      <3> QED
        BY <3>1, <3>2, ServiceGoesOn, CallsDiffer DEF Settled, Rollback
    <2> QED
      BY <2>1, <2>2
  <1> QED
    BY <1>1, <1>2, <1>3, <1>4, <1>5 DEF Clean

\* Only a rollback that succeeds adds to the actions rolled back.
LEMMA WhoIsRolledBack ==
  ASSUME TypeOK, OnRecord, [Next]_vars
  PROVE  /\ (\A t \in Tasks : ~RollbackSucceeds(t)) => RolledBack' = RolledBack
         /\ \A t \in Tasks : RollbackSucceeds(t) =>
              RolledBack' = RolledBack \cup {t} /\ t \notin RolledBack
  <1>1. ASSUME NEW u \in Tasks, ~RollbackSucceeds(u)
        PROVE  outcome'[u] = "rolled_back" <=> outcome[u] = "rolled_back"
    <2>1. CASE TaskStep(u)
      <3>1. outcome[u] = "none"
        BY <2>1, DoneIsDone DEF OnRecord
      <3>2. outcome'[u] # "rolled_back"
        BY <1>1, <2>1, <3>1
        DEF TypeOK, TaskStep, Goto, End, ReadFile, NothingToEdit, Evaluates,
            SuggestedEvaluates, DoesNotEvaluate, Declines, Confirms, AsksSwitch,
            SwitchUnreachable, SwitchSucceeds, SwitchFailsUntouched, SwitchFailsActivated,
            AsksRollback, RollbackUnreachable, RollbackFails, EditIsLeft,
         RollbackIsSkipped, Killed
      <3> QED
        BY <3>1, <3>2
    <2> QED
      BY <2>1, OwnPlace
  <1>2. ASSUME NEW t \in Tasks, RollbackSucceeds(t)
        PROVE  /\ outcome'[t] = "rolled_back" /\ outcome[t] = "none"
               /\ \A u \in Tasks : u # t => outcome'[u] = outcome[u]
    BY <1>2 DEF RollbackSucceeds, End, TypeOK, OnRecord
  <1> QED
    BY <1>1, <1>2 DEF RolledBack

\* Who acts is alone: nobody else is active, if nobody is to be disturbed.
LEMMA ActorsAreAlone ==
  ASSUME TypeOK, OnRecord, [Next]_vars, Clean', NEW t \in Tasks, NEW u \in Tasks, t # u,
         Active(u), pc[t] \in Critical \/ (TaskStep(t) /\ pc'[t] \in Critical)
  PROVE  FALSE
  <1>1. overlapped = {} /\ overlapped' = {}
    BY EveryStepObserves DEF Clean, Observe, vars
  <1>2. CASE pc[t] \in Critical
    BY <1>1, <1>2 DEF OnRecord, Disturbed, Critical
  <1>3. CASE TaskStep(t) /\ pc'[t] \in Critical
    <2>1. UNCHANGED pc[u]
      <3>1. CASE TaskStep(u)
        <4>1. \A v \in Tasks : TaskStep(v) => \E to : pc' = [pc EXCEPT ![v] = to] /\ to # pc[v]
          BY DEF TypeOK, TaskStep, Goto, End, ReadFile, NothingToEdit, Evaluates,
            SuggestedEvaluates, DoesNotEvaluate, Declines, Confirms, AsksSwitch,
            SwitchUnreachable, SwitchSucceeds, SwitchFailsUntouched, SwitchFailsActivated,
            AsksRollback, RollbackUnreachable, RollbackSucceeds, RollbackFails, EditIsLeft,
         RollbackIsSkipped, Killed, Active
        <4> QED
          BY <1>3, <4>1 DEF TypeOK
      <3> QED
        BY <3>1, OwnPlace
    <2>2. u \in overlapped'
      BY <1>3, <2>1, RecordIsKept DEF OnRecord, Disturbed, Critical, Active
    <2> QED
      BY <1>1, <2>2
  <1> QED
    BY <1>2, <1>3

\* A finding of a task that the step leaves alone stays true.
LEMMA OthersAsFound ==
  ASSUME TypeOK, CallsInOrder, OnRecord, [Next]_vars, Clean', NEW u \in Tasks, Found(u),
         ~TaskStep(u), ~HelperStep(Switch(u)), ~HelperStep(Rollback(u))
  PROVE  Found(u)'
  <1>1. UNCHANGED <<pc[u], original[u], edited[u], genBefore[u]>>
    BY OwnPlace
  <1>2. CASE Active(u)
    <2>1. Untouched(u)
      BY <1>2, NobodyElse DEF Clean
    <2>2. \A t \in Tasks : ~RollbackSucceeds(t)
      <3>1. \A t \in Tasks : RollbackSucceeds(t) => t # u /\ pc[t] \in Critical
        BY DEF RollbackSucceeds, TaskStep, Critical
      <3> QED
        BY <1>2, <3>1, ActorsAreAlone
    <2>3. RolledBack' = RolledBack
      BY <2>2, WhoIsRolledBack
    <2> QED
      BY <1>1, <2>1, <2>3 DEF Found, SoundAt, Untouched
  <1>3. CASE ~Active(u)
    BY <1>1, <1>3 DEF Found, Active
  <1> QED
    BY <1>2, <1>3

\* A task's own step finds what it should.
LEMMA OwnStepFound ==
  ASSUME TypeOK, CallsInOrder, OnRecord, OwnView, Clean, AsFound, Next, Clean',
         NEW t \in Tasks, TaskStep(t)
  PROVE  Found(t)'
  <1>a. UNCHANGED <<gens, cur, mixed, built, moved>>
    BY WhoTouchesWhat DEF systemVars
  <1>b. Found(t) /\ (Active(t) => View(t)) /\ (AtRest => SoundAt(file))
    BY DEF OwnView, AsFound, Clean
  <1>d. \A to : pc' = [pc EXCEPT ![t] = to] => pc'[t] = to
    BY DEF TypeOK
  <1>1. CASE ReadFile(t)
    <2>1. pc'[t] = "validating" /\ original'[t] = file /\ edited'[t] # file
      BY <1>1, <1>d DEF ReadFile, Goto, TypeOK
    <2> QED
      BY <2>1 DEF Found
  <1>2. CASE Evaluates(t)
    <2>1. pc[t] = "validating" /\ pc'[t] = "asking" /\ UNCHANGED <<original, edited>>
      BY <1>2, <1>d DEF Evaluates, Goto
    <2> QED
      BY <1>b, <2>1 DEF Found
  <1>3. CASE SuggestedEvaluates(t)
    <2>1. PICK p \in Pkgs \ edited[t] : edited' = [edited EXCEPT ![t] = original[t] \cup {p}]
      BY <1>3 DEF SuggestedEvaluates
    <2>2. /\ pc'[t] = "asking" /\ original' = original /\ original[t] \subseteq edited[t]
          /\ edited'[t] = original[t] \cup {p}
      BY <1>3, <1>d, <2>1 DEF SuggestedEvaluates, Goto, TypeOK
    <2>3. p \notin original[t] /\ p \in edited'[t]
      BY <2>1, <2>2
    <2> QED
      BY <2>2, <2>3 DEF Found
  <1>4. CASE Confirms(t)
    <2>1. /\ pc[t] = "asking" /\ pc'[t] = "written" /\ UNCHANGED <<original, edited, outcome>>
      BY <1>4, <1>d DEF Confirms, Goto
    <2>2. AtRest
      <3>1. ASSUME NEW u \in Tasks, pc[u] \in Critical PROVE FALSE
        BY <2>1, <3>1, ActorsAreAlone DEF Active, Critical
      <3> QED
        BY <3>1 DEF AtRest
    <2>3. SoundAt(original[t])
      BY <1>b, <2>1, <2>2 DEF View, Active
    <2>4. SoundAt(original[t])'
      BY <1>a, <2>1, <2>3 DEF SoundAt, RolledBack
    <2> QED
      BY <1>b, <2>1, <2>4 DEF Found
  <1>5. CASE AsksSwitch(t)
    <2>1. /\ pc[t] = "written" /\ pc'[t] = "switching" /\ UNCHANGED <<original, edited, outcome>>
          /\ Switch(t) \notin moved'
      <3>1. job[Switch(t)] = "none"
        BY <1>5 DEF AsksSwitch, Ask, Helper!Submit
      <3> QED
        BY <1>5, <1>a, <1>d, <3>1, CallsDiffer DEF AsksSwitch, Goto, CallsInOrder
    <2>2. SoundAt(original[t])'
      BY <1>a, <1>b, <2>1 DEF Found, SoundAt, RolledBack
    <2> QED
      BY <1>b, <2>1, <2>2 DEF Found, Switch
  <1>6. CASE SwitchFailsActivated(t)
    <2>1. /\ pc[t] = "switching" /\ pc'[t] = "reverted" /\ cur # genBefore[t]
          /\ UNCHANGED <<original, outcome>>
      BY <1>6, <1>d DEF SwitchFailsActivated, Goto
    <2>2. Switch(t) \in moved
      BY <1>b, <2>1 DEF View, SwitchView, Active
    <2> QED
      BY <1>a, <1>b, <2>1, <2>2 DEF Found, RolledBack
  <1>7. CASE AsksRollback(t)
    <2>1. /\ pc[t] = "reverted" /\ pc'[t] = "rolling" /\ UNCHANGED <<original, outcome>>
      BY <1>7, <1>d DEF AsksRollback, Goto
    <2> QED
      BY <1>a, <1>b, <2>1 DEF Found, RolledBack
  <1>8. ASSUME NEW how, End(t, how) PROVE Found(t)'
    BY <1>8, <1>d DEF End, Found
  <1> QED
    BY <1>1, <1>2, <1>3, <1>4, <1>5, <1>6, <1>7, <1>8
    DEF TaskStep, NothingToEdit, DoesNotEvaluate, Declines, SwitchUnreachable, SwitchSucceeds,
        SwitchFailsUntouched, RollbackUnreachable, RollbackSucceeds, RollbackFails, EditIsLeft,
         RollbackIsSkipped, Killed

\* A call that is under way is one its task waits for, if all the others are settled.
LEMMA WhoWaits ==
  ASSUME TypeOK, CallsInOrder, Clean, NEW t \in Tasks
  PROVE  /\ Pending(Switch(t)) => pc[t] = "switching"
         /\ Pending(Rollback(t)) => pc[t] = "rolling"
  BY CallsDiffer DEF CallsInOrder, Clean, Settled, Pending

\* So is one that takes a step.
LEMMA CallsThatStep ==
  ASSUME NEW c \in Call, HelperStep(c)
  PROVE  Pending(c)
  BY DEF HelperStep, RebuildStarts, MovesProfile, RebuildSucceeds, RebuildFails,
         Helper!Start, Helper!Running, Helper!Finish, Pending

\* A task's own call leaves it a profile that shows the move.
LEMMA OwnCallFound ==
  ASSUME TypeOK, CallsInOrder, OwnView, Clean, AsFound, NEW t \in Tasks,
         HelperStep(Switch(t)) \/ HelperStep(Rollback(t))
  PROVE  Found(t)'
  <1>a. UNCHANGED <<pc, original, edited, genBefore, outcome, file>> /\ RolledBack' = RolledBack
    BY WhoTouchesWhat, CallsDiffer DEF taskVars, RolledBack
  <1>b. Found(t) /\ (Active(t) => View(t))
    BY DEF OwnView, AsFound, Clean
  <1>c. Switch(t) \in Call /\ Rollback(t) \in Call /\ Switch(t) # Rollback(t)
        /\ Switch(t)[2] = "switch" /\ Rollback(t)[2] = "rollback"
    BY CallsDiffer
  <1>e. cur \in Nat /\ cur <= Len(gens) /\ Len(gens) \in Nat \ {0} /\ genBefore[t] \in Nat
    BY LenProperties DEF TypeOK
  <1>1. CASE HelperStep(Rollback(t))
    <2>1. pc[t] = "rolling"
      BY <1>1, <1>c, WhoWaits, CallsThatStep
    <2>2. gens' = gens
      BY <1>1, <1>c, ProfileMoves DEF HelperStep, RebuildStarts, RebuildSucceeds, RebuildFails
    <2> QED
      BY <1>a, <1>b, <2>1, <2>2 DEF Found
  <1>2. CASE HelperStep(Switch(t))
    <2>1. pc[t] = "switching"
      BY <1>2, <1>c, WhoWaits, CallsThatStep
    <2>2. CASE RebuildStarts(Switch(t)) \/ RebuildFails(Switch(t))
      BY <1>a, <1>b, <2>1, <2>2 DEF RebuildStarts, RebuildFails, Found, SoundAt, Switch
    <2>3. CASE RebuildSucceeds(Switch(t))
      BY <1>a, <1>b, <2>1, <2>3 DEF RebuildSucceeds, Found, Switch
    <2>4. CASE MovesProfile(Switch(t))
      <3>1. /\ Switch(t) \notin moved /\ Switch(t) \in moved' /\ job[Switch(t)] = "running"
            /\ cur' = Len(gens') /\ gens'[cur'] = built[Switch(t)]
            /\ \/ gens' = gens /\ built[Switch(t)] = gens[Len(gens)]
               \/ /\ Len(gens') = Len(gens) + 1
                  /\ \A i \in 1..Len(gens) : gens'[i] = gens[i]
        BY <1>c, <2>4, ProfileMoves
      <3>2. /\ SoundAt(original[t]) /\ edited[t] # original[t] /\ cur = genBefore[t]
            /\ built[Switch(t)] = edited[t]
        BY <1>b, <2>1, <3>1 DEF Found, View, SwitchView, Active
      <3>3. cur' # genBefore[t]
        BY <1>e, <3>1, <3>2 DEF SoundAt
      <3>4. ASSUME RolledBack = {} PROVE gens'[Len(gens') - 1] = original[t]
        <4>1. cur = Len(gens) /\ original[t] = gens[Len(gens)]
          BY <3>2, <3>4 DEF SoundAt
        <4>2. Len(gens') = Len(gens) + 1 /\ gens'[Len(gens)] = gens[Len(gens)]
          BY <1>e, <3>1, <3>2, <4>1
        <4>3. Len(gens') - 1 = Len(gens)
          BY <1>e, <4>2
        <4> QED
          BY <4>1, <4>2, <4>3
      <3> QED
        BY <1>a, <1>b, <2>1, <3>1, <3>3, <3>4 DEF Found, Switch
    <2> QED
      BY <1>2, <2>2, <2>3, <2>4 DEF HelperStep
  <1> QED
    BY <1>1, <1>2

\* The last task to act leaves a sound system.
LEMMA LastStepIsSound ==
  ASSUME TypeOK, CallsInOrder, OnRecord, OwnView, Clean, AsFound, Next, Clean', AtRest',
         NEW t \in Tasks, TaskStep(t)
  PROVE  SoundAt(file)'
  <1>a. UNCHANGED <<gens, cur, mixed, built, moved>>
    BY WhoTouchesWhat DEF systemVars
  <1>b. Found(t) /\ (Active(t) => View(t)) /\ (AtRest => SoundAt(file))
    BY DEF OwnView, AsFound, Clean
  <1>c. /\ \A how : End(t, how) => outcome' = [outcome EXCEPT ![t] = how] /\ outcome'[t] = how
        /\ outcome[t] = "none"
    BY DoneIsDone DEF End, TypeOK, OnRecord
  <1>d. cur \in Nat /\ cur <= Len(gens) /\ Len(gens) \in Nat \ {0} /\ genBefore[t] \in Nat
    BY LenProperties DEF TypeOK
  <1>e. ASSUME NEW how, how # "rolled_back", End(t, how) PROVE RolledBack' = RolledBack
    BY <1>c, <1>e DEF RolledBack, TypeOK
  <1>f. pc'[t] \notin Critical
    BY DEF AtRest
  <1>1. CASE pc[t] \notin Critical
    <2>1. AtRest
      <3>1. ASSUME NEW u \in Tasks, u # t, pc[u] \in Critical PROVE FALSE
        <4>1. pc'[u] = pc[u]
          BY <3>1
          DEF TypeOK, TaskStep, Goto, End, ReadFile, NothingToEdit, Evaluates,
            SuggestedEvaluates, DoesNotEvaluate, Declines, Confirms, AsksSwitch,
            SwitchUnreachable, SwitchSucceeds, SwitchFailsUntouched, SwitchFailsActivated,
            AsksRollback, RollbackUnreachable, RollbackSucceeds, RollbackFails, EditIsLeft,
         RollbackIsSkipped, Killed
        <4> QED
          BY <3>1, <4>1 DEF AtRest
      <3> QED
        BY <1>1, <3>1 DEF AtRest
    <2>2. file' = file
      BY <1>1, <1>f
      DEF TypeOK, Critical, TaskStep, Goto, End, ReadFile, NothingToEdit, Evaluates,
            SuggestedEvaluates, DoesNotEvaluate, Declines, Confirms, AsksSwitch,
            SwitchUnreachable, SwitchSucceeds, SwitchFailsUntouched, SwitchFailsActivated,
            AsksRollback, RollbackUnreachable, RollbackSucceeds, RollbackFails, EditIsLeft,
         RollbackIsSkipped, Killed
    <2>3. RolledBack' = RolledBack
      <3>1. outcome' = outcome \/ End(t, "unchanged") \/ End(t, "killed")
        BY <1>1
        DEF Critical, TaskStep, Goto, ReadFile, NothingToEdit, Evaluates,
            SuggestedEvaluates, DoesNotEvaluate, Declines, Confirms, AsksSwitch,
            SwitchUnreachable, SwitchSucceeds, SwitchFailsUntouched, SwitchFailsActivated,
            AsksRollback, RollbackUnreachable, RollbackSucceeds, RollbackFails, EditIsLeft,
         RollbackIsSkipped, Killed
      <3> QED
        BY <1>e, <3>1 DEF RolledBack
    <2> QED
      BY <1>a, <1>b, <2>1, <2>2, <2>3 DEF SoundAt
  <1>2. CASE SwitchUnreachable(t)
    <2>1. SoundAt(original[t]) /\ file' = original[t] /\ RolledBack' = RolledBack
      BY <1>2, <1>b, <1>e DEF SwitchUnreachable, RestoresFile, Found
    <2> QED
      BY <1>a, <2>1 DEF SoundAt
  <1>3. CASE SwitchSucceeds(t)
    <2>1. pc[t] = "switching" /\ job[Switch(t)] = "succeeded" /\ file' = file
      BY <1>3 DEF SwitchSucceeds, CallSucceeds, Helper!Reply
    <2>2. Switch(t) \in moved
      BY <2>1, CallsDiffer DEF CallsInOrder
    <2>3. /\ file = edited[t] /\ cur = Len(gens) /\ gens[cur] = edited[t] /\ ~mixed
      BY <1>b, <2>1, <2>2 DEF View, SwitchView, Active
    <2> QED
      BY <1>a, <2>1, <2>3 DEF SoundAt
  <1>4. CASE SwitchFailsUntouched(t)
    <2>1. pc[t] = "switching" /\ cur = genBefore[t] /\ file' = original[t]
      BY <1>4 DEF SwitchFailsUntouched, RestoresFile
    <2>2. SoundAt(original[t])
      BY <1>b, <2>1 DEF Found
    <2>3. RolledBack' = RolledBack
      BY <1>4, <1>e DEF SwitchFailsUntouched
    <2> QED
      BY <1>a, <2>1, <2>2, <2>3 DEF SoundAt
  <1>5. CASE RollbackSucceeds(t)
    <2>1. pc[t] = "rolling" /\ job[Rollback(t)] = "succeeded" /\ file' = file
      BY <1>5 DEF RollbackSucceeds, CallSucceeds, Helper!Reply
    <2>2. Rollback(t) \in moved
      BY <2>1, CallsDiffer DEF CallsInOrder
    <2>3. file = original[t] /\ cur = Len(gens) - 1 /\ ~mixed
      BY <1>b, <2>1, <2>2 DEF View, RollbackView, Active
    <2>4. t \notin RolledBack /\ RolledBack' = RolledBack \cup {t}
      BY <1>5, WhoIsRolledBack
    <2>5. (\A u, v \in RolledBack' : u = v) => RolledBack = {}
      BY <2>4
    <2>6. RolledBack = {} => gens[cur] = original[t]
      BY <1>b, <2>1, <2>3 DEF Found
    <2> QED
      BY <1>a, <1>d, <2>1, <2>3, <2>4, <2>5, <2>6 DEF SoundAt
  <1>6. CASE RollbackUnreachable(t) \/ RollbackFails(t) \/ EditIsLeft(t)
         \/ RollbackIsSkipped(t) \/ Killed(t)
    BY <1>6, <1>c DEF RollbackUnreachable, RollbackFails, EditIsLeft,
         RollbackIsSkipped, Killed, Clean, BrokeOff
  <1> QED
    BY <1>1, <1>2, <1>3, <1>4, <1>5, <1>6, <1>f
    DEF TypeOK, Critical, TaskStep, Goto, ReadFile, NothingToEdit, Evaluates,
        SuggestedEvaluates, DoesNotEvaluate, Declines, Confirms, AsksSwitch,
        SwitchFailsActivated, AsksRollback

\* Every orderly step finds, and leaves, what it should.
LEMMA FoundIsKept ==
  ASSUME TypeOK, CallsInOrder, OnRecord, OwnView, AsFound, [Next]_vars
  PROVE  AsFound'
  <1> SUFFICES ASSUME Clean'
               PROVE  (\A t \in Tasks : Found(t)') /\ (AtRest' => SoundAt(file)')
    BY DEF AsFound
  <1>a. Clean
    BY CleanBefore
  <1>b. (\A t \in Tasks : Found(t)) /\ (AtRest => SoundAt(file))
    BY <1>a DEF AsFound
  <1>1. CASE UNCHANGED vars
    BY <1>1, <1>b
    DEF vars, taskVars, systemVars, helperVars, Found, SoundAt, RolledBack, AtRest, Switch
  <1>2. CASE Next
    <2>1. ASSUME NEW t \in Tasks PROVE Found(t)'
      <3>1. CASE TaskStep(t)
        BY <1>2, <1>a, <3>1, OwnStepFound
      <3>2. CASE HelperStep(Switch(t)) \/ HelperStep(Rollback(t))
        BY <1>a, <3>2, OwnCallFound
      <3>3. CASE ~TaskStep(t) /\ ~HelperStep(Switch(t)) /\ ~HelperStep(Rollback(t))
        BY <1>b, <3>3, OthersAsFound
      <3> QED
        BY <3>1, <3>2, <3>3
    <2>2. ASSUME AtRest' PROVE SoundAt(file)'
      <3>1. ASSUME NEW t \in Tasks, TaskStep(t) PROVE SoundAt(file)'
        BY <1>2, <1>a, <2>2, <3>1, LastStepIsSound
      <3>2. ASSUME NEW c \in Call, HelperStep(c) PROVE FALSE
        <4>1. PICK t \in Tasks : c = Switch(t) \/ c = Rollback(t)
          BY CallsDiffer
        <4>2. pc[t] \in {"switching", "rolling"}
          BY <1>a, <3>2, <4>1, CallsThatStep, WhoWaits
        <4>3. pc' = pc
          BY <3>2, WhoTouchesWhat DEF taskVars
        <4> QED
          BY <2>2, <4>2, <4>3 DEF AtRest, Critical
      <3>3. CASE HelperRestarts
        <4>1. now = 0 /\ now' = now + 1 /\ now' = 0
          BY <1>a, <3>3 DEF HelperRestarts, Helper!Restart, Clean
        <4> QED
          BY <4>1
      <3> QED
        BY <1>2, <3>1, <3>2, <3>3 DEF Next
    <2> QED
      BY <2>1, <2>2
  <1> QED
    BY <1>1, <1>2

-----------------------------------------------------------------------------
(* The theorems.                                                           *)

IInv == TypeOK /\ CallsInOrder /\ OnRecord /\ OwnView /\ AsFound

\* The invariant holds before any action began: the system runs its only generation.
LEMMA InitInvariant == Init => IInv
  <1> SUFFICES ASSUME Init PROVE IInv
    OBVIOUS
  <1>1. TypeOK
    <2>1. gens \in Seq(SUBSET Pkgs) /\ Len(gens) = 1
      BY DEF Init
    <2>2. HelperTypeOK
      BY MaxCrashesAssumption
      DEF Init, HelperTypeOK, Helper!SvcInit, Helper!SvcTypeOK, Helper!JobState, Helper!Answer
    <2>3. TasksTyped
      BY DEF Init, TasksTyped, Place, Outcome
    <2>4. SystemTyped
      <3>1. cur \in 1..Len(gens) /\ mixed \in BOOLEAN
        <4>1. cur = 1 /\ mixed = FALSE
          BY DEF Init
        <4>2. 1 \in 1..1
          OBVIOUS
        <4> QED
          BY <2>1, <4>1, <4>2
      <3>2. built \in [Call -> SUBSET Pkgs] /\ moved \in SUBSET Call
        <4> HIDE DEF Call
        <4> QED
          BY DEF Init
      <3> QED
        BY <2>1, <3>1, <3>2 DEF SystemTyped
    <2>5. overlapped \in SUBSET Tasks
      BY DEF Init
    <2> QED
      BY <2>2, <2>3, <2>4, <2>5, TypesAre
  <1>2. \A t \in Tasks : pc[t] = "idle" /\ outcome[t] = "none" /\ ~Active(t)
    BY DEF Init, Active
  <1>3. \A c \in Call : job[c] = "none" /\ answer[c] = "none"
    BY DEF Init, Helper!SvcInit
  <1>4. CallsInOrder
    BY <1>2, <1>3, CallsDiffer DEF CallsInOrder, Init
  <1>5. OnRecord /\ OwnView
    BY <1>2 DEF OnRecord, OwnView
  <1>6. AsFound
    BY <1>2 DEF AsFound, Found, SoundAt, Init
  <1> QED
    BY <1>1, <1>4, <1>5, <1>6 DEF IInv

\* Every step keeps the invariant.
LEMMA NextInvariant == IInv /\ [Next]_vars => IInv'
  <1> SUFFICES ASSUME IInv, [Next]_vars PROVE IInv'
    OBVIOUS
  <1>1. CallsInOrder'
    <2>1. CASE UNCHANGED vars
      BY <2>1 DEF IInv, CallsInOrder, vars, taskVars, systemVars, helperVars
    <2> QED
      BY <2>1, TaskKeepsOrder, HelperKeepsOrder DEF IInv, Next
  <1> QED
    BY <1>1, TypeStep, RecordIsKept, ViewIsKept, FoundIsKept DEF IInv

\* A task ends by its own step, and an undisturbed one with its view.
LEMMA EndsByItself ==
  ASSUME IInv, [Next]_vars, NEW t \in Tasks, EndsUndisturbed(t)
  PROVE  TaskStep(t) /\ (Active(t) => View(t)) /\ outcome[t] = "none"
  <1>1. TaskStep(t)
    BY OwnPlace DEF IInv, EndsUndisturbed
  <1>2. t \notin overlapped
    BY EveryStepObserves DEF EndsUndisturbed, Observe, vars
  <1> QED
    BY <1>1, <1>2, DoneIsDone DEF IInv, OwnView, OnRecord

\* What the action's own words say is so: the step of AppliedIsActive.
LEMMA AppliedStep ==
  ASSUME IInv, [Next]_vars, NEW t \in Tasks, EndsUndisturbed(t), outcome'[t] = "applied"
  PROVE  file' = edited[t] /\ gens'[cur'] = edited[t] /\ ~mixed'
  <1>1. SwitchSucceeds(t)
    BY EndsByItself
    DEF IInv, TypeOK, TaskStep, Goto, End, ReadFile, NothingToEdit, Evaluates,
        SuggestedEvaluates, DoesNotEvaluate, Declines, Confirms, AsksSwitch,
        SwitchUnreachable, SwitchSucceeds, SwitchFailsUntouched, SwitchFailsActivated,
        AsksRollback, RollbackUnreachable, RollbackSucceeds, RollbackFails, EditIsLeft,
         RollbackIsSkipped, Killed
  <1>2. /\ pc[t] = "switching" /\ job[Switch(t)] = "succeeded"
        /\ UNCHANGED <<file, gens, cur, mixed>>
    BY <1>1 DEF SwitchSucceeds, CallSucceeds, Helper!Reply, systemVars
  <1>3. Switch(t) \in moved
    BY <1>2, CallsDiffer DEF IInv, CallsInOrder
  <1>4. View(t)
    BY <1>2, EndsByItself DEF Active
  <1> QED
    BY <1>2, <1>3, <1>4 DEF View, SwitchView

\* The step of UndoneAsTold.
LEMMA FailureStep ==
  ASSUME IInv, [Next]_vars, NEW t \in Tasks, EndsUndisturbed(t),
         outcome'[t] \in {"failed", "rolled_back"}
  PROVE  /\ file' = original[t]
         /\ \/ pc[t] = "written" /\ cur' = cur
            \/ cur' = genBefore[t]
            \/ outcome'[t] = "rolled_back" /\ genBefore[t] + 1 < Len(gens')
  <1>a. UNCHANGED <<gens, cur, mixed, moved>>
    BY EndsByItself, WhoTouchesWhat DEF systemVars
  <1>1. SwitchUnreachable(t) \/ SwitchFailsUntouched(t) \/ RollbackSucceeds(t)
    BY EndsByItself
    DEF IInv, TypeOK, TaskStep, Goto, End, ReadFile, NothingToEdit, Evaluates,
        SuggestedEvaluates, DoesNotEvaluate, Declines, Confirms, AsksSwitch,
        SwitchUnreachable, SwitchSucceeds, SwitchFailsUntouched, SwitchFailsActivated,
        AsksRollback, RollbackUnreachable, RollbackSucceeds, RollbackFails, EditIsLeft,
         RollbackIsSkipped, Killed
  <1>2. CASE SwitchUnreachable(t) \/ SwitchFailsUntouched(t)
    BY <1>a, <1>2 DEF SwitchUnreachable, SwitchFailsUntouched, RestoresFile
  <1>3. CASE RollbackSucceeds(t)
    <2>1. pc[t] = "rolling" /\ job[Rollback(t)] = "succeeded" /\ file' = file
          /\ outcome'[t] = "rolled_back"
      BY <1>3 DEF RollbackSucceeds, CallSucceeds, Helper!Reply, End, IInv, TypeOK
    <2>2. Rollback(t) \in moved
      BY <2>1, CallsDiffer DEF IInv, CallsInOrder
    <2>3. file = original[t] /\ cur = Len(gens) - 1 /\ genBefore[t] < Len(gens)
      BY <2>1, <2>2, EndsByItself DEF View, RollbackView, Active
    <2>4. genBefore[t] \in Nat /\ Len(gens) \in Nat
      BY LenProperties DEF IInv, TypeOK
    <2> QED
      BY <1>a, <2>1, <2>3, <2>4
  <1> QED
    BY <1>1, <1>2, <1>3

\* At rest, orderly actions are all settled, so that what they left is sound.
LEMMA OrderlyIsSound ==
  ASSUME IInv, Quiet, Undisturbed,
         \A t \in Tasks : ~BrokeOff(t) /\ outcome[t] # "rollback_failed"
  PROVE  SoundAt(file)
  <1>1. Clean
    BY CallsDiffer DEF Undisturbed, Clean, Settled
  <1>2. AtRest
    BY DEF Quiet, AtRest, Active, Critical
  <1> QED
    BY <1>1, <1>2 DEF IInv, AsFound

\* The states of the action tier are typed; in particular the system always runs one of
\* its generations.
THEOREM TypeCorrect == Spec => []TypeOK
  <1>1. IInv => TypeOK
    BY DEF IInv
  <1> QED
    BY <1>1, InitInvariant, NextInvariant, PTL DEF Spec

\* However many actions succeed, fail and are rolled back one after the other: a
\* half-finished activation that stays behind is one whose rollback is reported as failed,
\* or some action broke off, by a cancel or by a status that the client did not take.
THEOREM MixedAccountedFor == Spec => []MixedIsAccountedFor
  <1>1. IInv => MixedIsAccountedFor
    BY OrderlyIsSound DEF MixedIsAccountedFor, SoundAt
  <1> QED
    BY <1>1, InitInvariant, NextInvariant, PTL DEF Spec

\* The file they leave describes the system that runs, if none broke off, none failed to
\* be rolled back and no more than one was rolled back.
THEOREM FileDescribes == Spec => []FileDescribesSystem
  <1>1. IInv => FileDescribesSystem
    BY OrderlyIsSound DEF FileDescribesSystem, SoundAt, RolledBack
  <1> QED
    BY <1>1, InitInvariant, NextInvariant, PTL DEF Spec

\* "Done" is only said of a finished activation of exactly the confirmed edit.
THEOREM AppliedMeansActive == Spec => AppliedIsActive
  <1>1. IInv /\ [Next]_vars =>
          \A t \in Tasks : EndsUndisturbed(t) /\ outcome'[t] = "applied" =>
            /\ file' = edited[t]
            /\ gens'[cur'] = edited[t]
            /\ ~mixed'
    BY AppliedStep
  <1> QED
    BY <1>1, InitInvariant, NextInvariant, PTL DEF Spec, AppliedIsActive

\* A result that says "reverted" or "rolled back" is true of the file and the generation,
\* up to a step back onto a generation that an earlier rollback had left unused.
THEOREM ToldUndoneIsUndone == Spec => UndoneAsTold
  <1>1. IInv /\ [Next]_vars =>
          \A t \in Tasks :
            EndsUndisturbed(t) /\ outcome'[t] \in {"failed", "rolled_back"}
              /\ ~Pending(Switch(t))
            => /\ file' = original[t]
               /\ \/ pc[t] = "written" /\ cur' = cur
                  \/ cur' = genBefore[t]
                  \/ outcome'[t] = "rolled_back" /\ genBefore[t] + 1 < Len(gens')
    BY FailureStep
  <1> QED
    BY <1>1, InitInvariant, NextInvariant, PTL DEF Spec, UndoneAsTold
=============================================================================
