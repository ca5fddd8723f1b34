------------------------------- MODULE Helper -------------------------------
(***************************************************************************)
(* The root helper, nix/nixadmin-helper.py: one thread per connection, an  *)
(* in-memory lock that serializes rebuilds, and each rebuild in a detached *)
(* transient unit that outlives the helper.  A connection carries exactly  *)
(* one request, so its thread, its unit and its reply share its name.      *)
(*                                                                         *)
(* A thread walks through                                                  *)
(*   new -> lock [-> waiting] -> launch -> launched -> follow -> status    *)
(*       -> cleanup -> release -> closed          (a rebuild)              *)
(*   new -> restarting -> closed                  (a unit restart)         *)
(*   new -> closed                                (a refused request)      *)
(* and any thread of a helper that crashes ends in "dropped".              *)
(***************************************************************************)
EXTENDS Naturals

CONSTANTS
  Conns,       \* connections to the socket
  NoOne,       \* the holder of a lock that is free
  MaxCrashes   \* bound on the helper's crashes

ASSUME NoOneAssumption == NoOne \notin Conns
ASSUME MaxCrashesAssumption == MaxCrashes \in Nat

VARIABLES
  pc,       \* pc[c]: where the thread of connection c stands
  request,  \* request[c]: what c asked for
  reply,    \* reply[c]: the exit status or error sent on c
  lock,     \* the connection whose thread holds _rebuild_lock
  unit,     \* unit[c]: ActiveState of the transient unit of c, kept once removed
  removed,  \* the units stopped and reset by _cleanup_unit
  cause,    \* cause[c]: what ended the journal stream of c
  up,       \* the helper process runs
  era,      \* era[c]: the incarnation that accepted c
  now       \* the incarnation that runs, or runs next

threads == <<pc, request, reply>>
units   == <<unit, removed>>
process == <<up, now>>
vars == <<threads, lock, units, cause, process, era>>

Request == {"rebuild", "restart", "bad"}
Holding == {"launch", "launched", "follow", "status", "cleanup", "release"}
Gone    == {"closed", "dropped"}
PC == {"new", "lock", "waiting", "restarting"} \cup Holding \cup Gone

TypeOK ==
  /\ pc \in [Conns -> PC]
  /\ request \in [Conns -> Request \cup {"none"}]
  /\ reply \in [Conns -> {"none", "ok", "fail", "error"}]
  /\ lock \in Conns \cup {NoOne}
  /\ unit \in [Conns -> {"absent", "activating", "active", "failed"}]
  /\ removed \in SUBSET Conns
  /\ cause \in [Conns -> {"none", "finished", "deadline", "eof"}]
  /\ up \in BOOLEAN
  /\ era \in [Conns -> 0..MaxCrashes]
  /\ now \in 0..MaxCrashes

Init ==
  /\ pc = [c \in Conns |-> "new"]
  /\ request = [c \in Conns |-> "none"]
  /\ reply = [c \in Conns |-> "none"]
  /\ lock = NoOne
  /\ unit = [c \in Conns |-> "absent"]
  /\ removed = {}
  /\ cause = [c \in Conns |-> "none"]
  /\ up = TRUE
  /\ era = [c \in Conns |-> 0]
  /\ now = 0

-----------------------------------------------------------------------------
(* The helper's pure decisions.                                            *)

UnitIsFinished(state) == state \in {"active", "failed"}

\* A rebuild in flight: systemd runs its command.
Live(c) == unit[c] = "activating"

\* Mutant: the unit's status is passed on as it is.
ExitCodeTrusting(state, status) == IF state = "active" THEN 0 ELSE status

\* A unit that is not "active" never reports success, whatever ExecMainStatus is.
ExitCodeFrom(state, status) ==
  IF state = "active" THEN 0 ELSE IF status = 0 THEN 1 ELSE status

\* Mutant: a unit that still runs is reaped too.
IsReapableAnything(state) == state # "absent"

\* Startup leaves a rebuild that is still running alone.
IsReapable(state) == state \in {"active", "failed", "inactive"}

Goto(c, from, to) ==
  /\ pc[c] = from
  /\ pc' = [pc EXCEPT ![c] = to]

Send(c, what) == reply' = [reply EXCEPT ![c] = what]

\* `systemctl stop` ends a unit that still runs; a finished one keeps its result.
StopUnits(S) ==
  /\ unit' = [c \in Conns |-> IF c \in S /\ Live(c) THEN "failed" ELSE unit[c]]
  /\ removed' = removed \cup S

-----------------------------------------------------------------------------
(* A connection: accept, read the request, answer what needs no lock.      *)

AcceptRebuild(c) ==
  /\ up
  /\ Goto(c, "new", "lock")
  /\ request' = [request EXCEPT ![c] = "rebuild"]
  /\ era' = [era EXCEPT ![c] = now]
  /\ UNCHANGED <<reply, lock, units, cause, process>>

AcceptRestart(c) ==
  /\ up
  /\ Goto(c, "new", "restarting")
  /\ request' = [request EXCEPT ![c] = "restart"]
  /\ era' = [era EXCEPT ![c] = now]
  /\ UNCHANGED <<reply, lock, units, cause, process>>

\* Bad JSON, an unknown action, a unit on the deny list; or no request at all.
RefuseRequest(c) ==
  /\ up
  /\ Goto(c, "new", "closed")
  /\ request' = [request EXCEPT ![c] = "bad"]
  /\ Send(c, "error") \/ UNCHANGED reply
  /\ era' = [era EXCEPT ![c] = now]
  /\ UNCHANGED <<lock, units, cause, process>>

\* `systemctl restart` ends by itself or by its 90 s watchdog; no lock is taken.
RestartEnds(c) ==
  /\ Goto(c, "restarting", "closed")
  /\ \E status \in {"ok", "fail"} : Send(c, status)
  /\ UNCHANGED <<request, lock, units, cause, process, era>>

-----------------------------------------------------------------------------
(* A rebuild, under the lock.                                              *)

AcquireAtOnce(c) ==
  /\ lock = NoOne
  /\ Goto(c, "lock", "launch")
  /\ lock' = c
  /\ UNCHANGED <<request, reply, units, cause, process, era>>

FindLockHeld(c) ==
  /\ lock # NoOne
  /\ Goto(c, "lock", "waiting")
  /\ UNCHANGED <<request, reply, lock, units, cause, process, era>>

\* Mutant: the lock is taken while another thread holds it.
AcquireBySteal(c) ==
  /\ Goto(c, "waiting", "launch")
  /\ lock' = c
  /\ UNCHANGED <<request, reply, units, cause, process, era>>

AcquireAfterWait(c) ==
  /\ lock = NoOne
  /\ Goto(c, "waiting", "launch")
  /\ lock' = c
  /\ UNCHANGED <<request, reply, units, cause, process, era>>

\* systemd-run creates the unit; it may return before or after the unit ends.
LaunchUnit(c) ==
  /\ Goto(c, "launch", "launched")
  /\ unit' = [unit EXCEPT ![c] = "activating"]
  /\ UNCHANGED <<request, reply, removed, lock, cause, process, era>>

\* systemd-run fails, with no unit or with one whose start job failed.
LaunchFails(c) ==
  /\ \/ Goto(c, "launch", "release")
     \/ Goto(c, "launched", "release") /\ unit[c] = "failed"
  /\ Send(c, "fail")
  /\ UNCHANGED <<request, lock, units, cause, process, era>>

LaunchReturns(c) ==
  /\ Goto(c, "launched", "follow")
  /\ UNCHANGED <<request, reply, lock, units, cause, process, era>>

StreamEnds(c, why) ==
  /\ Goto(c, "follow", "status")
  /\ cause' = [cause EXCEPT ![c] = why]
  /\ UNCHANGED <<request, reply, lock, process, era>>

WatchSeesEnd(c) ==
  /\ UnitIsFinished(unit[c])
  /\ StreamEnds(c, "finished")
  /\ UNCHANGED units

\* REBUILD_TIMEOUT_S has passed: the watcher polled a running unit, then sent it
\* SIGKILL.  The unit stays "activating" until systemd notices.
WatchHitsDeadline(c) ==
  /\ StreamEnds(c, "deadline")
  /\ UNCHANGED units

\* The journal follower ends by itself: nothing tells its end from the unit's.
FollowerEnds(c) ==
  /\ StreamEnds(c, "eof")
  /\ UNCHANGED units

\* ExecMainStatus is 0 until the command exits, and may be 0 when it was killed.
ReadStatus(c) ==
  /\ Goto(c, "status", "cleanup")
  /\ \E status \in {0, 1} :
       Send(c, IF ExitCodeFrom(unit[c], status) = 0 THEN "ok" ELSE "fail")
  /\ UNCHANGED <<request, lock, units, cause, process, era>>

\* Mutant: the lock is released with the unit still there.
CleanupForgetsStop(c) ==
  /\ Goto(c, "cleanup", "release")
  /\ UNCHANGED <<request, reply, lock, units, cause, process, era>>

\* Mutant: the result of the unit is lost with it.
CleanupInactive(c) ==
  /\ Goto(c, "cleanup", "release")
  /\ removed' = removed \cup {c}
  /\ unit' = [unit EXCEPT ![c] = "inactive"]
  /\ UNCHANGED <<request, reply, lock, cause, process, era>>

CleanupUnit(c) ==
  /\ Goto(c, "cleanup", "release")
  /\ StopUnits({c})
  /\ UNCHANGED <<request, reply, lock, cause, process, era>>

\* Mutant: the lock is never given back.
ReleaseForgotten(c) ==
  /\ Goto(c, "release", "closed")
  /\ UNCHANGED <<request, reply, lock, units, cause, process, era>>

Release(c) ==
  /\ Goto(c, "release", "closed")
  /\ lock' = NoOne
  /\ UNCHANGED <<request, reply, units, cause, process, era>>

-----------------------------------------------------------------------------
(* systemd, the clock, and the helper's own death.                         *)

UnitSucceeds(c) ==
  /\ Live(c) /\ cause[c] # "deadline"
  /\ unit' = [unit EXCEPT ![c] = "active"]
  /\ UNCHANGED <<threads, lock, removed, cause, process, era>>

\* Its command failed, or the kernel, systemd or the watcher killed it.
UnitFails(c) ==
  /\ Live(c)
  /\ unit' = [unit EXCEPT ![c] = "failed"]
  /\ UNCHANGED <<threads, lock, removed, cause, process, era>>

\* Every thread and child dies, and the lock with them; the units do not.
Crash ==
  /\ up /\ now < MaxCrashes
  /\ up' = FALSE
  /\ lock' = NoOne
  /\ now' = now + 1
  /\ pc' = [c \in Conns |-> IF pc[c] \in {"new", "closed"} THEN pc[c] ELSE "dropped"]
  /\ UNCHANGED <<request, reply, units, cause, era>>

\* main: _cleanup_stale, then listen.
Boot ==
  /\ ~up
  /\ up' = TRUE
  /\ StopUnits({c \in Conns \ removed : IsReapable(unit[c])})
  /\ UNCHANGED <<threads, lock, cause, now, era>>

Thread(c) ==
  \/ AcceptRebuild(c)
  \/ AcceptRestart(c)
  \/ RefuseRequest(c)
  \/ RestartEnds(c)
  \/ AcquireAtOnce(c)
  \/ FindLockHeld(c)
  \/ AcquireAfterWait(c)
  \/ LaunchUnit(c)
  \/ LaunchFails(c)
  \/ LaunchReturns(c)
  \/ WatchSeesEnd(c)
  \/ WatchHitsDeadline(c)
  \/ FollowerEnds(c)
  \/ ReadStatus(c)
  \/ CleanupUnit(c)
  \/ Release(c)

System(c) ==
  \/ UnitSucceeds(c)
  \/ UnitFails(c)

Next ==
  \/ \E c \in Conns : Thread(c) \/ System(c)
  \/ Crash
  \/ Boot

Spec == Init /\ [][Next]_vars

\* systemd-run waits for the start of its unit, and a oneshot unit has started only
\* once its command has ended: with a command that hangs, so does the thread.
Hangs(c) == pc[c] = "launched" /\ Live(c)

\* Threads run, time passes, systemd starts the helper again and notices the unit
\* that it was made to kill.  Nothing makes a rebuild end by itself, and systemd-run
\* need not return before it does.
Fairness ==
  /\ \A c \in Conns :
       /\ WF_vars(RestartEnds(c))
       /\ WF_vars(AcquireAtOnce(c) \/ FindLockHeld(c))
       /\ WF_vars(AcquireAfterWait(c))
       /\ WF_vars(LaunchUnit(c) \/ LaunchFails(c))
       /\ WF_vars(~Hangs(c) /\ LaunchReturns(c))
       /\ WF_vars(WatchSeesEnd(c))
       /\ WF_vars(WatchHitsDeadline(c))
       /\ WF_vars(ReadStatus(c))
       /\ WF_vars(CleanupUnit(c))
       /\ WF_vars(Release(c))
       /\ WF_vars(cause[c] = "deadline" /\ UnitFails(c))
  /\ WF_vars(Boot)

FairSpec == Spec /\ Fairness

-----------------------------------------------------------------------------
(* What the helper must get right.                                         *)

\* "We never time-release or steal the lock while a rebuild is live": two live
\* rebuilds were never launched by the same incarnation, not even when one was
\* killed, lost its follower, or hung past its deadline.
OneLiveRebuildPerIncarnation ==
  \A c, d \in Conns : Live(c) /\ Live(d) /\ era[c] = era[d] => c = d

\* A rebuild's client reads exit 0 only of a unit that is "active" as it is read:
\* a killed unit still "activating", or one that failed with status 0, is not it.
HonestExit ==
  [][\A c \in Conns :
       request[c] = "rebuild" /\ reply'[c] = "ok" /\ reply[c] # "ok"
         => unit[c] = "active"]_vars

\* A unit is stopped while its rebuild runs only past its deadline or when its
\* journal stream broke: never by a helper that starts up and reaps.
LiveUnitsAreSpared ==
  [][\A c \in removed' \ removed : Live(c) => cause[c] \in {"deadline", "eof"}]_vars

\* Every accepted request comes to an end unless systemd-run never returns: its
\* thread closes the connection, or the helper died and the client reads EOF.  Once
\* systemd-run has returned, a rebuild may hang and a follower fall silent.
RequestsEnd ==
  (\A c \in Conns : []<>~Hangs(c)) => \A c \in Conns : pc[c] # "new" ~> pc[c] \in Gone

\* "A watchdog kills any rebuild that exceeds REBUILD_TIMEOUT_S": none runs for ever.
HungRebuildsAreKilled == \A c \in Conns : Live(c) ~> ~Live(c)

-----------------------------------------------------------------------------
(* The helper is a RebuildService, seen from its clients.                  *)

Job(c) ==
  CASE unit[c] = "activating" -> "running"
    [] unit[c] = "active"     -> "succeeded"
    [] unit[c] = "failed"     -> "failed"
    [] OTHER -> CASE pc[c] \in {"lock", "waiting", "launch"} -> "queued"
                  [] request[c] # "rebuild"                  -> "none"
                  [] OTHER                                   -> "dropped"

Service ==
  INSTANCE RebuildService
    WITH job    <- [c \in Conns |-> Job(c)],
         answer <- [c \in Conns |-> IF request[c] = "rebuild" THEN reply[c] ELSE "none"],
         era    <- [c \in Conns |-> IF request[c] = "rebuild" THEN era[c] ELSE 0]

\* Whatever crashes, kills and lost followers happen, a client sees a service
\* that queues, runs one at a time per incarnation, and answers honestly.
ImplementsService == Service!SvcSpec
=============================================================================
