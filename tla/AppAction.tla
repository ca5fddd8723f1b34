----------------------------- MODULE AppAction -----------------------------
(***************************************************************************)
(* The deterministic action tier: installing or removing an app            *)
(* (actions.run_app_action) through the safety gate (safety.apply_switch,  *)
(* apply_revert) and the root helper, by tasks of sessions that run        *)
(* concurrently, are cancelled, time out, and outlive the helper.          *)
(*                                                                         *)
(* The packages file is the set of packages it lists.  A task runs one     *)
(* action:                                                                 *)
(*   idle -> validating -> asking -> written -> switching                  *)
(*        [-> reverted -> rolling] -> done                                 *)
(* and every "->" is an await of the code, where other tasks run and a     *)
(* cancellation may land.  Several of them send the client a status, and   *)
(* fail when it does not read.                                             *)
(***************************************************************************)
EXTENDS Naturals, Sequences

CONSTANTS
  Tasks,       \* app actions, each run once
  Sessions,    \* conversation sessions
  SessionOf,   \* the session whose lock a task holds while it runs
  Pkgs,        \* package names
  MaxCrashes   \* bound on the helper's restarts

ASSUME SessionOfAssumption == SessionOf \in [Tasks -> Sessions]
ASSUME MaxCrashesAssumption == MaxCrashes \in Nat

VARIABLES
  pc, outcome,       \* per task: where it stands, how it ended
  original, edited,  \* per task: the file it read, the file it means to write
  genBefore,         \* per task: the generation it saw before its switch
  file,              \* the packages file of the flake
  gens, cur,         \* the generations of the system profile, the current one
  mixed,             \* the last activation to start did not finish
  built,             \* per helper call: the configuration it evaluated, while it builds
  moved,             \* helper calls that moved the system profile
  overlapped,        \* tasks that ran while another's write or rebuild was under way
  job, answer, era, now   \* the helper, as a RebuildService

Call == Tasks \X {"switch", "rollback"}
Switch(t)   == <<t, "switch">>
Rollback(t) == <<t, "rollback">>

Helper == INSTANCE RebuildService WITH Conns <- Call

taskVars   == <<pc, outcome, original, edited, genBefore>>
systemVars == <<gens, cur, mixed, built, moved>>
helperVars == <<job, answer, era, now>>
vars == <<taskVars, file, systemVars, helperVars, overlapped>>

Outcome == {"none", "unchanged", "applied", "failed", "rolled_back",
            "rollback_failed", "edit_left", "not_rolled_back", "killed"}

TypeOK ==
  /\ pc \in [Tasks -> {"idle", "validating", "asking", "written", "switching",
                       "reverted", "rolling", "done"}]
  /\ outcome \in [Tasks -> Outcome]
  /\ original \in [Tasks -> SUBSET Pkgs]
  /\ edited \in [Tasks -> SUBSET Pkgs]
  /\ genBefore \in [Tasks -> Nat]
  /\ file \in SUBSET Pkgs
  /\ gens \in Seq(SUBSET Pkgs)
  /\ cur \in 1..Len(gens)
  /\ mixed \in BOOLEAN
  /\ built \in [Call -> SUBSET Pkgs]
  /\ moved \in SUBSET Call
  /\ overlapped \in SUBSET Tasks
  /\ Helper!SvcTypeOK

Init ==
  /\ pc = [t \in Tasks |-> "idle"]
  /\ outcome = [t \in Tasks |-> "none"]
  /\ original = [t \in Tasks |-> {}]
  /\ edited = [t \in Tasks |-> {}]
  /\ genBefore = [t \in Tasks |-> 0]
  /\ file = {}
  /\ gens = <<{}>> /\ cur = 1
  /\ mixed = FALSE
  /\ built = [c \in Call |-> {}]
  /\ moved = {}
  /\ overlapped = {}
  /\ Helper!SvcInit

Active(t) == pc[t] \notin {"idle", "done"}
Pending(c) == job[c] \in {"queued", "running"}

\* Others' tasks past their confirm, or others' rebuilds, at work.
Disturbed(t) ==
  \E u \in Tasks \ {t} :
    \/ pc[u] \in {"written", "switching", "reverted", "rolling"}
    \/ Pending(Switch(u)) \/ Pending(Rollback(u))

\* History: who ran while the file or the system was in another's hands.
Observe ==
  overlapped' = overlapped \cup {t \in Tasks : Active(t)' /\ Disturbed(t)'}

\* The session's lock, taken by the dispatch before the action starts.
SessionFree(t) ==
  \A u \in Tasks : SessionOf[u] = SessionOf[t] => ~Active(u)

Goto(t, from, to) ==
  /\ pc[t] = from
  /\ pc' = [pc EXCEPT ![t] = to]

\* The task returns or raises; its locals die with it.
End(t, how) ==
  /\ pc' = [pc EXCEPT ![t] = "done"]
  /\ outcome' = [outcome EXCEPT ![t] = how]
  /\ original' = [original EXCEPT ![t] = {}]
  /\ edited' = [edited EXCEPT ![t] = {}]
  /\ genBefore' = [genBefore EXCEPT ![t] = 0]

Edit(p, add) == IF add THEN file \cup {p} ELSE file \ {p}

-----------------------------------------------------------------------------
(* Up to the user's confirm: nothing but the task itself changes.          *)

ReadFile(t) ==
  /\ SessionFree(t)
  /\ Goto(t, "idle", "validating")
  /\ \E p \in Pkgs, add \in BOOLEAN :
       /\ Edit(p, add) # file
       /\ edited' = [edited EXCEPT ![t] = Edit(p, add)]
  /\ original' = [original EXCEPT ![t] = file]
  /\ UNCHANGED <<outcome, genBefore, file, systemVars, helperVars>>
  /\ Observe

\* Already installed, or not there to remove, or no list to edit.
NothingToEdit(t) ==
  /\ SessionFree(t)
  /\ pc[t] = "idle"
  /\ End(t, "unchanged")
  /\ UNCHANGED <<file, systemVars, helperVars>>
  /\ Observe

Evaluates(t) ==
  /\ Goto(t, "validating", "asking")
  /\ UNCHANGED <<outcome, original, edited, genBefore, file, systemVars, helperVars>>
  /\ Observe

\* The name did not evaluate; the suggested package, added instead, does.
SuggestedEvaluates(t) ==
  /\ original[t] \subseteq edited[t]
  /\ Goto(t, "validating", "asking")
  /\ \E p \in Pkgs \ edited[t] :
       edited' = [edited EXCEPT ![t] = original[t] \cup {p}]
  /\ UNCHANGED <<outcome, original, genBefore, file, systemVars, helperVars>>
  /\ Observe

\* It does not evaluate, or the client does not take a status on the way.
DoesNotEvaluate(t) ==
  /\ pc[t] = "validating"
  /\ End(t, "unchanged")
  /\ UNCHANGED <<file, systemVars, helperVars>>
  /\ Observe

\* "No", a cancel, a disconnect: all resolve the confirm as not confirmed.  A prompt
\* that cannot be sent raises, with the same end.
Declines(t) ==
  /\ pc[t] = "asking"
  /\ End(t, "unchanged")
  /\ UNCHANGED <<file, systemVars, helperVars>>
  /\ Observe

-----------------------------------------------------------------------------
(* The write, the switch, and what follows a failure.                      *)

\* Mutant: the edit is never written.
ConfirmsWithoutWriting(t) ==
  /\ Goto(t, "asking", "written")
  /\ UNCHANGED <<outcome, original, edited, genBefore, file, systemVars, helperVars>>
  /\ Observe

Confirms(t) ==
  /\ Goto(t, "asking", "written")
  /\ file' = edited[t]
  /\ UNCHANGED <<outcome, original, edited, genBefore, systemVars, helperVars>>
  /\ Observe

\* Open the helper's socket and send the request.
Ask(c) == Helper!Submit(c)

\* The call returns: exit 0, read to EOF and so past the helper's own cleanup.
CallSucceeds(c) == ~Pending(c) /\ Helper!Reply(c, "ok")

\* Mutant: neither EOF nor the timeout ends a call.
CallFailsOnStatus(c) ==
  Helper!Refuse(c) \/ (~Pending(c) /\ Helper!Reply(c, "fail"))

\* The call raises SafetyError: another exit status, or an EOF without one as the
\* helper died, or HELPER_TIMEOUT_S, which counts from the connect and so also passes
\* for a call that waits for another's rebuild, or for one that hangs.
CallFails(c) ==
  \/ Helper!Refuse(c)
  \/ ~Pending(c) /\ Helper!Reply(c, "fail")
  \/ /\ era[c] < now \/ Pending(c)
     /\ UNCHANGED <<job, answer, era, now>>

AsksSwitch(t) ==
  /\ Goto(t, "written", "switching")
  /\ genBefore' = [genBefore EXCEPT ![t] = cur]
  /\ Ask(Switch(t))
  /\ UNCHANGED <<outcome, original, edited, file, systemVars>>
  /\ Observe

\* Mutant: a failed switch leaves the edit.
KeepsEdit(t) == UNCHANGED file

\* The source edit is reverted to the text read when the action began.
RestoresFile(t) == file' = original[t]

\* The helper's socket refuses the connection: a SafetyError, nothing rebuilt.
SwitchUnreachable(t) ==
  /\ pc[t] = "written"
  /\ RestoresFile(t)
  /\ End(t, "failed")
  /\ UNCHANGED <<systemVars, helperVars>>
  /\ Observe

SwitchSucceeds(t) ==
  /\ pc[t] = "switching" /\ CallSucceeds(Switch(t))
  /\ End(t, "applied")
  /\ UNCHANGED <<file, systemVars>>
  /\ Observe

\* Mutant: the generation is not looked at after a failure.
SwitchFailsUnlooked(t) ==
  /\ pc[t] = "switching" /\ CallFails(Switch(t))
  /\ RestoresFile(t)
  /\ End(t, "failed")
  /\ UNCHANGED systemVars
  /\ Observe

\* The generation is the one read before the switch: the build failed.
SwitchFailsUntouched(t) ==
  /\ pc[t] = "switching" /\ CallFails(Switch(t))
  /\ cur = genBefore[t]
  /\ RestoresFile(t)
  /\ End(t, "failed")
  /\ UNCHANGED systemVars
  /\ Observe

\* The generation is another one: the system is to be rolled back.
SwitchFailsActivated(t) ==
  /\ Goto(t, "switching", "reverted") /\ CallFails(Switch(t))
  /\ cur # genBefore[t]
  /\ RestoresFile(t)
  /\ UNCHANGED <<outcome, original, edited, genBefore, systemVars>>
  /\ Observe

AsksRollback(t) ==
  /\ Goto(t, "reverted", "rolling")
  /\ Ask(Rollback(t))
  /\ UNCHANGED <<outcome, original, edited, genBefore, file, systemVars>>
  /\ Observe

RollbackUnreachable(t) ==
  /\ pc[t] = "reverted"
  /\ End(t, "rollback_failed")
  /\ UNCHANGED <<file, systemVars, helperVars>>
  /\ Observe

RollbackSucceeds(t) ==
  /\ pc[t] = "rolling" /\ CallSucceeds(Rollback(t))
  /\ End(t, "rolled_back")
  /\ UNCHANGED <<file, systemVars>>
  /\ Observe

RollbackFails(t) ==
  /\ pc[t] = "rolling" /\ CallFails(Rollback(t))
  /\ End(t, "rollback_failed")
  /\ UNCHANGED <<file, systemVars>>
  /\ Observe

\* A client that does not read lets the status before the switch time out, and one that
\* is gone refuses it.  Neither is a NixadminError, nor inside the try: the edit stays, no
\* switch is asked for, and the dispatch reports an internal error.
EditIsLeft(t) ==
  /\ pc[t] = "written"
  /\ End(t, "edit_left")
  /\ UNCHANGED <<file, systemVars, helperVars>>
  /\ Observe

\* So for the status before the rollback: the file is back, the system stays as it is.
RollbackIsSkipped(t) ==
  /\ pc[t] = "reverted"
  /\ End(t, "not_rolled_back")
  /\ UNCHANGED <<file, systemVars, helperVars>>
  /\ Observe

\* A cancel, a disconnect or the daemon's end: CancelledError is no NixadminError, nor is
\* the ValueError of a helper's line too long to read, and each leaves the file and the
\* helper as they are.
Killed(t) ==
  /\ Active(t) /\ pc[t] # "asking"
  /\ End(t, "killed")
  /\ UNCHANGED <<file, systemVars, helperVars>>
  /\ Observe

-----------------------------------------------------------------------------
(* nixos-rebuild, run by the helper.                                       *)

\* The flake is evaluated as the rebuild starts.
RebuildStarts(c) ==
  /\ Helper!Start(c)
  /\ built' = [built EXCEPT ![c] = IF c[2] = "switch" THEN file ELSE {}]
  /\ UNCHANGED <<taskVars, file, gens, cur, mixed, moved>>
  /\ Observe

\* Mutant: a rollback steps back from the first generation.
MovesProfileAnyway(c) ==
  /\ Helper!Running(c) /\ c \notin moved
  /\ moved' = moved \cup {c}
  /\ mixed' = TRUE
  /\ built' = [built EXCEPT ![c] = {}]
  /\ gens' = IF c[2] = "switch" THEN Append(gens, built[c]) ELSE gens
  /\ cur' = IF c[2] = "switch" THEN Len(gens') ELSE cur - 1
  /\ UNCHANGED <<taskVars, file, helperVars>>
  /\ Observe

\* The build is done: the profile gets a new generation, unless its newest is the
\* same configuration, or steps back to the one numbered before the current one.
\* Activation begins.
MovesProfile(c) ==
  /\ Helper!Running(c) /\ c \notin moved
  /\ moved' = moved \cup {c}
  /\ mixed' = TRUE
  /\ built' = [built EXCEPT ![c] = {}]
  /\ \/ /\ c[2] = "switch"
        /\ gens' = IF built[c] = gens[Len(gens)] THEN gens ELSE Append(gens, built[c])
        /\ cur' = Len(gens')
     \/ /\ c[2] = "rollback" /\ cur > 1
        /\ cur' = cur - 1
        /\ UNCHANGED gens
  /\ UNCHANGED <<taskVars, file, helperVars>>
  /\ Observe

\* Activation is done.
RebuildSucceeds(c) ==
  /\ c \in moved
  /\ Helper!Finish(c, "succeeded")
  /\ mixed' = FALSE
  /\ UNCHANGED <<taskVars, file, gens, cur, built, moved>>
  /\ Observe

\* The build failed, or the activation did.
RebuildFails(c) ==
  /\ Helper!Finish(c, "failed")
  /\ built' = [built EXCEPT ![c] = {}]
  /\ UNCHANGED <<taskVars, file, gens, cur, mixed, moved>>
  /\ Observe

HelperRestarts ==
  /\ Helper!Restart
  /\ UNCHANGED <<taskVars, file, systemVars>>
  /\ Observe

-----------------------------------------------------------------------------
TaskStep(t) ==
  \/ ReadFile(t)
  \/ NothingToEdit(t)
  \/ Evaluates(t)
  \/ SuggestedEvaluates(t)
  \/ DoesNotEvaluate(t)
  \/ Declines(t)
  \/ Confirms(t)
  \/ AsksSwitch(t)
  \/ SwitchUnreachable(t)
  \/ SwitchSucceeds(t)
  \/ SwitchFailsUntouched(t)
  \/ SwitchFailsActivated(t)
  \/ AsksRollback(t)
  \/ RollbackUnreachable(t)
  \/ RollbackSucceeds(t)
  \/ RollbackFails(t)
  \/ EditIsLeft(t)
  \/ RollbackIsSkipped(t)
  \/ Killed(t)

HelperStep(c) ==
  \/ RebuildStarts(c)
  \/ MovesProfile(c)
  \/ RebuildSucceeds(c)
  \/ RebuildFails(c)

Next ==
  \/ \E t \in Tasks : TaskStep(t)
  \/ \E c \in Call : HelperStep(c)
  \/ HelperRestarts

Spec == Init /\ [][Next]_vars

\* The daemon's event loop runs, and HELPER_TIMEOUT_S passes.  Rebuilds need not end,
\* users need not answer, and nothing need be cancelled.
Fairness ==
  \A t \in Tasks :
    /\ WF_vars(AsksSwitch(t))
    /\ WF_vars(AsksRollback(t))
    /\ WF_vars(SwitchSucceeds(t) \/ SwitchFailsUntouched(t) \/ SwitchFailsActivated(t))
    /\ WF_vars(RollbackSucceeds(t) \/ RollbackFails(t))

FairSpec == Spec /\ Fairness

-----------------------------------------------------------------------------
(* What an install must get right.                                         *)

\* t ends now, and no other write or rebuild was ever under way while it ran.
EndsUndisturbed(t) == pc[t] # "done" /\ pc'[t] = "done" /\ t \notin overlapped'

\* "Done": the file holds the edit the user confirmed, and the running system is
\* a finished activation of exactly that file.
AppliedIsActive ==
  [][\A t \in Tasks : EndsUndisturbed(t) /\ outcome'[t] = "applied" =>
       /\ file' = edited[t]
       /\ gens'[cur'] = edited[t]
       /\ ~mixed']_vars

\* "I reverted the config edit", "I rolled the system back": an action whose result says
\* so, its rebuild being over, left the file and the generation as they were before the
\* switch; after a rollback this takes that no other generation lies between the two.  An
\* action that broke off says neither: the dispatch reports its exception.
UndoneAsTold ==
  [][\A t \in Tasks :
       EndsUndisturbed(t) /\ outcome'[t] \in {"failed", "rolled_back"}
         /\ ~Pending(Switch(t))
       => /\ file' = original[t]
          /\ \/ pc[t] = "written" /\ cur' = cur
             \/ cur' = genBefore[t]
             \/ outcome'[t] = "rolled_back" /\ genBefore[t] + 1 < Len(gens')]_vars

Quiet == (\A t \in Tasks : ~Active(t)) /\ (\A c \in Call : ~Pending(c))

\* No action shared the system with another, gave up on the helper or lost it.
Undisturbed ==
  /\ \A c \in Call : job[c] # "none" => answer[c] # "none"
  /\ now = 0 /\ overlapped = {}

\* t was cancelled, or its client did not take a status that came after the confirm.
BrokeOff(t) == outcome[t] \in {"killed", "edit_left", "not_rolled_back"}

\* Whatever succeeds, fails or is rolled back, one action after the other: at rest
\* the file describes the system that runs, if no more than one was rolled back.  An
\* action that broke off, or whose rollback failed, may leave them apart.
FileDescribesSystem ==
  Quiet /\ Undisturbed
    /\ (\A t \in Tasks : ~BrokeOff(t) /\ outcome[t] # "rollback_failed")
    /\ (\A t, u \in Tasks : outcome[t] = "rolled_back" /\ outcome[u] = "rolled_back" => t = u)
  => file = gens[cur]

\* A half-finished activation that is left behind has a reason on record: an action whose
\* result says that its rollback failed, or one that broke off, of which nothing is told.
\* It never stays behind an action that ran to its end and reported anything else.
MixedIsAccountedFor ==
  Quiet /\ Undisturbed /\ mixed
  => \E t \in Tasks : outcome[t] = "rollback_failed" \/ BrokeOff(t)

\* Once confirmed, an action reaches its end whatever the helper does.
ConfirmedActionsEnd ==
  \A t \in Tasks : pc[t] \in {"written", "switching", "reverted", "rolling"} ~> pc[t] = "done"

-----------------------------------------------------------------------------
(* What the code's comments say of it.                                     *)

\* "Never roll back on a build failure": a rebuild that ended before it moved the profile
\* has no rollback after it.
BuildFailureRollsNothingBack ==
  [][\A t \in Tasks :
       pc[t] = "switching" /\ pc'[t] = "reverted"
         => ~(job[Switch(t)] = "failed" /\ Switch(t) \notin moved)]_vars
=============================================================================
