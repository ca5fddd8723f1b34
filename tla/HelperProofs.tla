---------------------------- MODULE HelperProofs ----------------------------
(***************************************************************************)
(* Proofs about the root helper, for any set of connections and any number *)
(* of crashes.  The invariant is built in layers, each of which is         *)
(* inductive relative to those before it:                                  *)
(*   TypeOK; what a thread's place says of its request, its incarnation    *)
(*   and its unit (Bookkeeping); who holds the lock (LockDiscipline);      *)
(*   which rebuilds may be live (LiveDiscipline); and the goal.            *)
(***************************************************************************)
EXTENDS Helper, TLAPS

\* Where a thread stands tells what it was asked, by which incarnation of the
\* helper it runs, and whether its unit was launched.
Bookkeeping ==
  \A c \in Conns :
    /\ era[c] <= now
    /\ pc[c] \notin {"new"} \cup Gone => era[c] = now
    /\ pc[c] \in {"new", "lock", "waiting", "restarting", "launch"} => unit[c] = "absent"
    /\ pc[c] = "new" => request[c] = "none"
    /\ pc[c] = "restarting" => request[c] = "restart"
    /\ pc[c] \in {"lock", "waiting"} \cup Holding => request[c] = "rebuild"
    /\ pc[c] \in {"launched", "follow", "status", "cleanup"} => unit[c] # "absent"
    /\ unit[c] # "absent" => request[c] = "rebuild"
    /\ pc[c] \notin {"cleanup", "release"} \cup Gone => reply[c] = "none"

\* The lock is held by the thread that is inside, and by nobody else.
LockDiscipline ==
  \A c \in Conns : pc[c] \in Holding <=> lock = c

\* A live rebuild of the incarnation that runs has its thread inside, and a thread
\* that saw the end of its unit has no live rebuild.
LiveDiscipline ==
  \A c \in Conns :
    /\ Live(c) /\ era[c] = now => pc[c] \in {"launched", "follow", "status", "cleanup"}
    /\ pc[c] \in {"status", "cleanup"} =>
         cause[c] \in {"deadline", "eof"} \/ (cause[c] = "finished" /\ ~Live(c))

IInv ==
  /\ TypeOK
  /\ Bookkeeping
  /\ LockDiscipline
  /\ LiveDiscipline
  /\ OneLiveRebuildPerIncarnation

-----------------------------------------------------------------------------
(* The layers hold initially.                                              *)

\* The initial state satisfies the whole invariant.
LEMMA InitInvariant == Init => IInv
  <1> SUFFICES ASSUME Init PROVE IInv
    OBVIOUS
  <1>1. TypeOK
    BY MaxCrashesAssumption DEF Init, TypeOK, PC
  <1>2. Bookkeeping
    <2> SUFFICES ASSUME NEW c \in Conns PROVE Bookkeeping!(c)
      BY DEF Bookkeeping
    <2>1. /\ pc[c] = "new" /\ request[c] = "none" /\ unit[c] = "absent"
          /\ reply[c] = "none" /\ era[c] = 0 /\ now = 0
      BY DEF Init
    <2> QED
      BY <2>1 DEF Holding
  <1>3. LockDiscipline
    BY NoOneAssumption DEF Init, LockDiscipline, Holding
  <1>4. LiveDiscipline
    BY DEF Init, LiveDiscipline, Live
  <1>5. OneLiveRebuildPerIncarnation
    BY DEF Init, OneLiveRebuildPerIncarnation, Live
  <1> QED
    BY <1>1, <1>2, <1>3, <1>4, <1>5 DEF IInv

-----------------------------------------------------------------------------
(* Types.                                                                  *)

\* Stopping units keeps their states in type.
LEMMA StopUnitsType ==
  ASSUME TypeOK, NEW S \in SUBSET Conns, StopUnits(S)
  PROVE  /\ unit' \in [Conns -> {"absent", "activating", "active", "failed"}]
         /\ removed' \in SUBSET Conns
  BY DEF TypeOK, StopUnits, Live

\* Every step of the helper, of systemd and of the clock keeps the types.
LEMMA TypeStep == TypeOK /\ [Next]_vars => TypeOK'
  <1> SUFFICES ASSUME TypeOK, [Next]_vars PROVE TypeOK'
    OBVIOUS
  <1>1. ASSUME NEW c \in Conns, Thread(c) PROVE TypeOK'
    <2> USE DEF TypeOK, PC, Holding, Gone, Request, Goto, Send, threads, units, process
    <2>1. CASE AcceptRebuild(c)     BY <2>1 DEF AcceptRebuild
    <2>2. CASE AcceptRestart(c)     BY <2>2 DEF AcceptRestart
    <2>3. CASE RefuseRequest(c)     BY <2>3 DEF RefuseRequest
    <2>4. CASE RestartEnds(c)       BY <2>4 DEF RestartEnds
    <2>5. CASE AcquireAtOnce(c)     BY <2>5 DEF AcquireAtOnce
    <2>6. CASE FindLockHeld(c)      BY <2>6 DEF FindLockHeld
    <2>7. CASE AcquireAfterWait(c)  BY <2>7 DEF AcquireAfterWait
    <2>8. CASE LaunchUnit(c)        BY <2>8 DEF LaunchUnit
    <2>9. CASE LaunchFails(c)       BY <2>9 DEF LaunchFails
    <2>10. CASE LaunchReturns(c)    BY <2>10 DEF LaunchReturns
    <2>11. CASE WatchSeesEnd(c)     BY <2>11 DEF WatchSeesEnd, StreamEnds
    <2>12. CASE WatchHitsDeadline(c) BY <2>12 DEF WatchHitsDeadline, StreamEnds
    <2>13. CASE FollowerEnds(c)     BY <2>13 DEF FollowerEnds, StreamEnds
    <2>14. CASE ReadStatus(c)       BY <2>14 DEF ReadStatus
    <2>15. CASE CleanupUnit(c)
      <3>1. {c} \in SUBSET Conns
        OBVIOUS
      <3>2. StopUnits({c})
        BY <2>15 DEF CleanupUnit
      <3> QED
        BY <2>15, <3>1, <3>2, StopUnitsType DEF CleanupUnit
    <2>16. CASE Release(c)          BY <2>16 DEF Release
    <2> QED
      BY <1>1, <2>1, <2>2, <2>3, <2>4, <2>5, <2>6, <2>7, <2>8, <2>9, <2>10, <2>11,
         <2>12, <2>13, <2>14, <2>15, <2>16 DEF Thread
  <1>2. ASSUME NEW c \in Conns, System(c) PROVE TypeOK'
    BY <1>2 DEF TypeOK, System, UnitSucceeds, UnitFails, threads, process
  <1>3. CASE Crash
    <2>1. pc' \in [Conns -> PC]
      BY <1>3 DEF TypeOK, Crash, PC, Gone
    <2>2. now' \in 0..MaxCrashes
      BY <1>3, MaxCrashesAssumption DEF TypeOK, Crash
    <2> QED
      BY <1>3, <2>1, <2>2 DEF TypeOK, Crash, units
  <1>4. CASE Boot
    <2> DEFINE S == {c \in Conns \ removed : IsReapable(unit[c])}
    <2>1. S \in SUBSET Conns /\ StopUnits(S)
      BY <1>4 DEF Boot
    <2> QED
      BY <1>4, <2>1, StopUnitsType DEF TypeOK, Boot, threads
  <1>5. CASE UNCHANGED vars
    BY <1>5 DEF TypeOK, vars, threads, units, process
  <1> QED
    BY <1>1, <1>2, <1>3, <1>4, <1>5 DEF Next

-----------------------------------------------------------------------------
(* The layers, each preserved by every step.                               *)

\* A thread keeps its request and its incarnation to its end, and no unit appears
\* before its own launch.
LEMMA BookkeepingStep == TypeOK /\ Bookkeeping /\ [Next]_vars => Bookkeeping'
  <1> SUFFICES ASSUME TypeOK, Bookkeeping, [Next]_vars PROVE Bookkeeping'
    OBVIOUS
  <1>1. ASSUME NEW c \in Conns, Thread(c) PROVE Bookkeeping'
    <2> USE DEF TypeOK, Bookkeeping, PC, Holding, Gone, Goto, Send, Live, threads, units, process
    <2>1. CASE AcceptRebuild(c)   BY <2>1 DEF AcceptRebuild
    <2>2. CASE AcceptRestart(c)   BY <2>2 DEF AcceptRestart
    <2>3. CASE RefuseRequest(c)   BY <2>3 DEF RefuseRequest
    <2>4. CASE RestartEnds(c)     BY <2>4 DEF RestartEnds
    <2>5. CASE AcquireAtOnce(c)   BY <2>5 DEF AcquireAtOnce
    <2>6. CASE FindLockHeld(c)    BY <2>6 DEF FindLockHeld
    <2>7. CASE AcquireAfterWait(c)BY <2>7 DEF AcquireAfterWait
    <2>8. CASE LaunchUnit(c)      BY <2>8 DEF LaunchUnit
    <2>9. CASE LaunchFails(c)     BY <2>9 DEF LaunchFails
    <2>10. CASE LaunchReturns(c)  BY <2>10 DEF LaunchReturns
    <2>11. CASE WatchSeesEnd(c)   BY <2>11 DEF WatchSeesEnd, StreamEnds
    <2>12. CASE WatchHitsDeadline(c)BY <2>12 DEF WatchHitsDeadline, StreamEnds
    <2>13. CASE FollowerEnds(c)   BY <2>13 DEF FollowerEnds, StreamEnds
    <2>14. CASE ReadStatus(c)     BY <2>14 DEF ReadStatus
    <2>15. CASE CleanupUnit(c)    BY <2>15 DEF CleanupUnit, StopUnits
    <2>16. CASE Release(c)        BY <2>16 DEF Release
    <2> QED
      BY <1>1, <2>1, <2>2, <2>3, <2>4, <2>5, <2>6, <2>7, <2>8, <2>9,
         <2>10, <2>11, <2>12, <2>13, <2>14, <2>15, <2>16 DEF Thread
  <1>2. ASSUME NEW c \in Conns, System(c) PROVE Bookkeeping'
    BY <1>2 DEF TypeOK, Bookkeeping, System, UnitSucceeds, UnitFails, Live, Holding, threads, process
  <1>3. CASE Crash
    BY <1>3, MaxCrashesAssumption
    DEF TypeOK, Bookkeeping, Crash, units, PC, Holding, Gone
  <1>4. CASE Boot
    BY <1>4 DEF TypeOK, Bookkeeping, Boot, StopUnits, Live, threads
  <1>5. CASE UNCHANGED vars
    BY <1>5 DEF Bookkeeping, vars, threads, units, process
  <1> QED
    BY <1>1, <1>2, <1>3, <1>4, <1>5 DEF Next

\* Whoever enters takes the lock, whoever leaves frees it, and a crash does both.
LEMMA LockStep == TypeOK /\ LockDiscipline /\ [Next]_vars => LockDiscipline'
  <1> SUFFICES ASSUME TypeOK, LockDiscipline, [Next]_vars PROVE LockDiscipline'
    OBVIOUS
  <1>1. ASSUME NEW c \in Conns, Thread(c) PROVE LockDiscipline'
    <2> USE NoOneAssumption
        DEF TypeOK, LockDiscipline, PC, Holding, Gone, Goto, Send, threads, units, process
    <2>1. CASE AcceptRebuild(c)   BY <2>1 DEF AcceptRebuild
    <2>2. CASE AcceptRestart(c)   BY <2>2 DEF AcceptRestart
    <2>3. CASE RefuseRequest(c)   BY <2>3 DEF RefuseRequest
    <2>4. CASE RestartEnds(c)     BY <2>4 DEF RestartEnds
    <2>5. CASE AcquireAtOnce(c)   BY <2>5 DEF AcquireAtOnce
    <2>6. CASE FindLockHeld(c)    BY <2>6 DEF FindLockHeld
    <2>7. CASE AcquireAfterWait(c)BY <2>7 DEF AcquireAfterWait
    <2>8. CASE LaunchUnit(c)      BY <2>8 DEF LaunchUnit
    <2>9. CASE LaunchFails(c)     BY <2>9 DEF LaunchFails
    <2>10. CASE LaunchReturns(c)  BY <2>10 DEF LaunchReturns
    <2>11. CASE WatchSeesEnd(c)   BY <2>11 DEF WatchSeesEnd, StreamEnds
    <2>12. CASE WatchHitsDeadline(c)BY <2>12 DEF WatchHitsDeadline, StreamEnds
    <2>13. CASE FollowerEnds(c)   BY <2>13 DEF FollowerEnds, StreamEnds
    <2>14. CASE ReadStatus(c)     BY <2>14 DEF ReadStatus
    <2>15. CASE CleanupUnit(c)    BY <2>15 DEF CleanupUnit, StopUnits
    <2>16. CASE Release(c)        BY <2>16 DEF Release
    <2> QED
      BY <1>1, <2>1, <2>2, <2>3, <2>4, <2>5, <2>6, <2>7, <2>8, <2>9,
         <2>10, <2>11, <2>12, <2>13, <2>14, <2>15, <2>16 DEF Thread
  <1>2. ASSUME NEW c \in Conns, System(c) PROVE LockDiscipline'
    BY <1>2 DEF LockDiscipline, System, UnitSucceeds, UnitFails, threads
  <1>3. CASE Crash
    BY <1>3, NoOneAssumption DEF TypeOK, LockDiscipline, Crash, PC, Holding, Gone
  <1>4. CASE Boot
    BY <1>4 DEF LockDiscipline, Boot, threads
  <1>5. CASE UNCHANGED vars
    BY <1>5 DEF LockDiscipline, vars, threads
  <1> QED
    BY <1>1, <1>2, <1>3, <1>4, <1>5 DEF Next

\* A unit of the running incarnation starts and ends under its thread's eyes.
LEMMA LiveStep ==
  TypeOK /\ Bookkeeping /\ LiveDiscipline /\ [Next]_vars => LiveDiscipline'
  <1> SUFFICES ASSUME TypeOK, Bookkeeping, LiveDiscipline, [Next]_vars
               PROVE  LiveDiscipline'
    OBVIOUS
  <1>1. ASSUME NEW c \in Conns, Thread(c) PROVE LiveDiscipline'
    <2> USE DEF TypeOK, Bookkeeping, LiveDiscipline, UnitIsFinished, PC, Holding, Gone,
                Goto, Send, Live, threads, units, process
    <2>1. CASE AcceptRebuild(c)   BY <2>1 DEF AcceptRebuild
    <2>2. CASE AcceptRestart(c)   BY <2>2 DEF AcceptRestart
    <2>3. CASE RefuseRequest(c)   BY <2>3 DEF RefuseRequest
    <2>4. CASE RestartEnds(c)     BY <2>4 DEF RestartEnds
    <2>5. CASE AcquireAtOnce(c)   BY <2>5 DEF AcquireAtOnce
    <2>6. CASE FindLockHeld(c)    BY <2>6 DEF FindLockHeld
    <2>7. CASE AcquireAfterWait(c)BY <2>7 DEF AcquireAfterWait
    <2>8. CASE LaunchUnit(c)      BY <2>8 DEF LaunchUnit
    <2>9. CASE LaunchFails(c)     BY <2>9 DEF LaunchFails
    <2>10. CASE LaunchReturns(c)  BY <2>10 DEF LaunchReturns
    <2>11. CASE WatchSeesEnd(c)   BY <2>11 DEF WatchSeesEnd, StreamEnds
    <2>12. CASE WatchHitsDeadline(c)BY <2>12 DEF WatchHitsDeadline, StreamEnds
    <2>13. CASE FollowerEnds(c)   BY <2>13 DEF FollowerEnds, StreamEnds
    <2>14. CASE ReadStatus(c)     BY <2>14 DEF ReadStatus
    <2>15. CASE CleanupUnit(c)    BY <2>15 DEF CleanupUnit, StopUnits
    <2>16. CASE Release(c)        BY <2>16 DEF Release
    <2> QED
      BY <1>1, <2>1, <2>2, <2>3, <2>4, <2>5, <2>6, <2>7, <2>8, <2>9,
         <2>10, <2>11, <2>12, <2>13, <2>14, <2>15, <2>16 DEF Thread
  <1>2. ASSUME NEW c \in Conns, System(c) PROVE LiveDiscipline'
    BY <1>2 DEF TypeOK, LiveDiscipline, System, UnitSucceeds, UnitFails, Live, threads, process
  <1>3. CASE Crash
    BY <1>3, MaxCrashesAssumption
    DEF TypeOK, Bookkeeping, LiveDiscipline, Crash, Live, units, PC, Gone
  <1>4. CASE Boot
    BY <1>4 DEF TypeOK, LiveDiscipline, Boot, StopUnits, Live, threads
  <1>5. CASE UNCHANGED vars
    BY <1>5 DEF LiveDiscipline, Live, vars, threads, units, process
  <1> QED
    BY <1>1, <1>2, <1>3, <1>4, <1>5 DEF Next

\* Two rebuilds launched by one incarnation are never live together: the second one
\* is launched under the lock, and the first would have its thread inside too.
LEMMA OneLiveStep == IInv /\ [Next]_vars => OneLiveRebuildPerIncarnation'
  <1> SUFFICES ASSUME IInv, [Next]_vars PROVE OneLiveRebuildPerIncarnation'
    OBVIOUS
  <1> USE DEF IInv
  <1>1. ASSUME NEW c \in Conns, LaunchUnit(c) PROVE OneLiveRebuildPerIncarnation'
    <2>1. lock = c /\ era[c] = now
      BY <1>1 DEF LaunchUnit, Goto, LockDiscipline, Bookkeeping, Holding, Gone
    <2>2. \A d \in Conns : Live(d) => era[d] # now
      BY <1>1, <2>1 DEF LaunchUnit, Goto, LockDiscipline, LiveDiscipline, Holding
    <2>3. \A d \in Conns : Live(d)' => Live(d) \/ d = c
      BY <1>1 DEF LaunchUnit, Live, TypeOK
    <2> QED
      BY <1>1, <2>1, <2>2, <2>3 DEF LaunchUnit, OneLiveRebuildPerIncarnation
  <1>2. ASSUME NEW c \in Conns, AcceptRebuild(c) \/ AcceptRestart(c) \/ RefuseRequest(c)
        PROVE  OneLiveRebuildPerIncarnation'
    <2>1. ~Live(c) /\ UNCHANGED unit
      BY <1>2 DEF AcceptRebuild, AcceptRestart, RefuseRequest, Goto, Bookkeeping, Live, units
    <2>2. \A d \in Conns : d # c => era'[d] = era[d]
      BY <1>2 DEF AcceptRebuild, AcceptRestart, RefuseRequest, TypeOK
    <2> QED
      BY <2>1, <2>2 DEF OneLiveRebuildPerIncarnation, Live
  <1>3. ASSUME UNCHANGED era, \A d \in Conns : Live(d)' => Live(d)
        PROVE  OneLiveRebuildPerIncarnation'
    BY <1>3 DEF OneLiveRebuildPerIncarnation
  <1>4. ASSUME NEW c \in Conns, Thread(c) PROVE OneLiveRebuildPerIncarnation'
    <2>1. CASE LaunchUnit(c)
      BY <1>1, <2>1
    <2>2. CASE AcceptRebuild(c) \/ AcceptRestart(c) \/ RefuseRequest(c)
      BY <1>2, <2>2
    <2>3. CASE CleanupUnit(c)
      BY <1>3, <2>3 DEF CleanupUnit, StopUnits, Live, TypeOK, process
    <2>4. CASE RestartEnds(c) \/ AcquireAtOnce(c) \/ FindLockHeld(c) \/ AcquireAfterWait(c)
               \/ LaunchFails(c) \/ LaunchReturns(c) \/ WatchSeesEnd(c)
               \/ WatchHitsDeadline(c) \/ FollowerEnds(c) \/ ReadStatus(c) \/ Release(c)
      <3>1. UNCHANGED era /\ UNCHANGED unit
        BY <2>4 DEF RestartEnds, AcquireAtOnce, FindLockHeld, AcquireAfterWait, LaunchFails,
           LaunchReturns, WatchSeesEnd, WatchHitsDeadline, FollowerEnds, StreamEnds,
           ReadStatus, Release, units
      <3> QED
        BY <1>3, <3>1 DEF Live
    <2> QED
      BY <1>4, <2>1, <2>2, <2>3, <2>4 DEF Thread
  <1>5. ASSUME NEW c \in Conns, System(c) PROVE OneLiveRebuildPerIncarnation'
    BY <1>3, <1>5 DEF System, UnitSucceeds, UnitFails, Live, TypeOK
  <1>6. CASE Crash
    BY <1>3, <1>6 DEF Crash, Live, units
  <1>7. CASE Boot
    BY <1>3, <1>7 DEF Boot, StopUnits, Live, TypeOK
  <1>8. CASE UNCHANGED vars
    BY <1>3, <1>8 DEF Live, vars, units
  <1> QED
    BY <1>4, <1>5, <1>6, <1>7, <1>8 DEF Next

\* The whole invariant is inductive.
LEMMA InvariantStep == IInv /\ [Next]_vars => IInv'
  BY TypeStep, BookkeepingStep, LockStep, LiveStep, OneLiveStep DEF IInv

-----------------------------------------------------------------------------
(* The theorems.                                                           *)

\* Every behaviour of the helper keeps the invariant.
THEOREM Invariance == Spec => []IInv
  BY InitInvariant, InvariantStep, PTL DEF Spec

\* The helper's state keeps its types, however many connections and crashes.
THEOREM TypeCorrect == Spec => []TypeOK
  <1>1. IInv => TypeOK
    BY DEF IInv
  <1> QED
    BY <1>1, Invariance, PTL

\* "We never time-release or steal the lock while a rebuild is live": two rebuilds
\* launched by one incarnation of the helper never run together.
THEOREM SerializedRebuilds == Spec => []OneLiveRebuildPerIncarnation
  <1>1. IInv => OneLiveRebuildPerIncarnation
    BY DEF IInv
  <1> QED
    BY <1>1, Invariance, PTL

\* A rebuild's client reads success only of a unit that is active as it is read.
THEOREM HonestExitHolds == Spec => HonestExit
  <1> DEFINE Honest(c) ==
        request[c] = "rebuild" /\ reply'[c] = "ok" /\ reply[c] # "ok" => unit[c] = "active"
  <1>1. IInv /\ [Next]_vars => \A c \in Conns : Honest(c)
    <2> SUFFICES ASSUME IInv, [Next]_vars, NEW c \in Conns,
                        request[c] = "rebuild", reply'[c] = "ok", reply[c] # "ok"
                 PROVE  unit[c] = "active"
      OBVIOUS
    <2>1. \/ \E d \in Conns : RefuseRequest(d) \/ RestartEnds(d) \/ LaunchFails(d) \/ ReadStatus(d)
          \/ UNCHANGED reply
      BY DEF Next, Thread, System, AcceptRebuild, AcceptRestart, AcquireAtOnce, FindLockHeld,
         AcquireAfterWait, LaunchUnit, LaunchReturns, WatchSeesEnd, WatchHitsDeadline,
         FollowerEnds, StreamEnds, CleanupUnit, Release, UnitSucceeds, UnitFails, Crash, Boot,
         threads, vars
    <2>2. PICK d \in Conns : RefuseRequest(d) \/ RestartEnds(d) \/ LaunchFails(d) \/ ReadStatus(d)
      BY <2>1
    <2>3. ~RefuseRequest(d) /\ ~LaunchFails(d)
      BY DEF IInv, TypeOK, RefuseRequest, LaunchFails, Send
    <2>4. d = c
      BY <2>2, <2>3 DEF IInv, TypeOK, RestartEnds, ReadStatus, Send
    <2>5. ~RestartEnds(c)
      BY DEF IInv, Bookkeeping, RestartEnds, Goto
    <2> QED
      BY <2>2, <2>3, <2>4, <2>5 DEF IInv, TypeOK, ReadStatus, Send, ExitCodeFrom
  <1> QED
    BY <1>1, Invariance, PTL DEF Spec, HonestExit

\* A unit is stopped while its rebuild runs only past its deadline or after its
\* journal stream broke: a helper that starts up never stops one.
THEOREM LiveUnitsSpared == Spec => LiveUnitsAreSpared
  <1> DEFINE Spared ==
        \A c \in removed' \ removed : Live(c) => cause[c] \in {"deadline", "eof"}
  <1>1. IInv /\ [Next]_vars => Spared
    <2> SUFFICES ASSUME IInv, [Next]_vars, NEW c \in removed' \ removed, Live(c)
                 PROVE  cause[c] \in {"deadline", "eof"}
      OBVIOUS
    <2>1. (\E d \in Conns : CleanupUnit(d)) \/ Boot
      BY DEF Next, Thread, System, AcceptRebuild, AcceptRestart, RefuseRequest, RestartEnds,
         AcquireAtOnce, FindLockHeld, AcquireAfterWait, LaunchUnit, LaunchFails, LaunchReturns,
         WatchSeesEnd, WatchHitsDeadline, FollowerEnds, StreamEnds, ReadStatus, Release,
         UnitSucceeds, UnitFails, Crash, units, vars
    <2>2. ~Boot
      BY DEF Boot, StopUnits, IsReapable, UnitIsFinished, Live
    <2>3. CleanupUnit(c) /\ c \in Conns
      BY <2>1, <2>2 DEF CleanupUnit, StopUnits
    <2> QED
      BY <2>3 DEF IInv, LiveDiscipline, CleanupUnit, Goto
  <1> QED
    BY <1>1, Invariance, PTL DEF Spec, LiveUnitsAreSpared

-----------------------------------------------------------------------------
(* The helper implements RebuildService.                                   *)

JobMap    == [c \in Conns |-> Job(c)]
AnswerMap == [c \in Conns |-> IF request[c] = "rebuild" THEN reply[c] ELSE "none"]
EraMap    == [c \in Conns |-> IF request[c] = "rebuild" THEN era[c] ELSE 0]

\* A step that moves only the job of c moves the mapped jobs so.
LEMMA OneJobMoves ==
  ASSUME NEW c \in Conns, \A d \in Conns \ {c} : Job(d)' = Job(d)
  PROVE  JobMap' = [JobMap EXCEPT ![c] = Job(c)']
  BY DEF JobMap

\* An idle helper is an idle service.
LEMMA RefineInit == Init => Service!SvcInit
  BY DEF Init, Service!SvcInit, Job

\* Accepting a rebuild submits it; accepting anything else is no step of the service.
LEMMA RefineAccept ==
  ASSUME IInv, NEW c \in Conns,
         AcceptRebuild(c) \/ AcceptRestart(c) \/ RefuseRequest(c) \/ RestartEnds(c)
  PROVE  Service!Submit(c) \/ UNCHANGED Service!svcVars
  <1> USE DEF IInv, TypeOK, Bookkeeping
  <1>1. CASE AcceptRebuild(c)
    <2>1. \A d \in Conns \ {c} : Job(d)' = Job(d)
      BY <1>1 DEF AcceptRebuild, Goto, Job, units
    <2>2. Job(c) = "none" /\ Job(c)' = "queued"
      BY <1>1 DEF AcceptRebuild, Goto, Job, units
    <2>3. JobMap' = [JobMap EXCEPT ![c] = "queued"]
      BY <2>1, <2>2, OneJobMoves
    <2>4. request[c] = "none" /\ reply[c] = "none" /\ reply' = reply /\ now' = now
      BY <1>1 DEF AcceptRebuild, Goto, Holding, Gone, process
    <2>5. AnswerMap' = AnswerMap
      <3>1. ASSUME NEW d \in Conns PROVE AnswerMap'[d] = AnswerMap[d]
        BY <1>1, <2>4 DEF AcceptRebuild, AnswerMap
      <3> QED
        BY <3>1 DEF AnswerMap
    <2>6. EraMap' = [EraMap EXCEPT ![c] = now]
      BY <1>1 DEF AcceptRebuild, EraMap
    <2> QED
      BY <2>2, <2>3, <2>4, <2>5, <2>6 DEF Service!Submit, JobMap, EraMap, AnswerMap
  <1>2. CASE AcceptRestart(c) \/ RefuseRequest(c) \/ RestartEnds(c)
    <2>1. \A d \in Conns : Job(d)' = Job(d)
      BY <1>2 DEF AcceptRestart, RefuseRequest, RestartEnds, Goto, Job, units
    <2>2. EraMap' = EraMap /\ AnswerMap' = AnswerMap /\ now' = now
      BY <1>2 DEF AcceptRestart, RefuseRequest, RestartEnds, Goto, Send, EraMap, AnswerMap, process
    <2> QED
      BY <2>1, <2>2 DEF Service!svcVars, JobMap, EraMap, AnswerMap
  <1> QED
    BY <1>1, <1>2

\* The steps that the service does not see.
LEMMA RefineHidden ==
  ASSUME IInv, NEW c \in Conns,
         \/ AcquireAtOnce(c) \/ FindLockHeld(c) \/ AcquireAfterWait(c) \/ LaunchReturns(c)
         \/ WatchSeesEnd(c) \/ WatchHitsDeadline(c) \/ FollowerEnds(c) \/ Release(c)
  PROVE  UNCHANGED Service!svcVars
  <1>1. UNCHANGED <<request, reply, unit, era, now>>
    BY DEF AcquireAtOnce, FindLockHeld, AcquireAfterWait, LaunchReturns, WatchSeesEnd,
       WatchHitsDeadline, FollowerEnds, StreamEnds, Release, units, process
  <1>2. \A d \in Conns : Job(d)' = Job(d)
    BY <1>1 DEF IInv, TypeOK, Bookkeeping, AcquireAtOnce, FindLockHeld, AcquireAfterWait,
       LaunchReturns, WatchSeesEnd, WatchHitsDeadline, FollowerEnds, StreamEnds, Release,
       Goto, Job
  <1> QED
    BY <1>1, <1>2 DEF Service!svcVars

\* A rebuild is launched only when no other of its incarnation runs.
LEMMA RefineLaunch ==
  ASSUME IInv, NEW c \in Conns, LaunchUnit(c)
  PROVE  Service!Start(c)
  <1> USE DEF IInv, TypeOK, Bookkeeping
  <1>1. Job(c) = "queued" /\ Job(c)' = "running"
    <2>1. pc[c] = "launch" /\ unit[c] = "absent" /\ request[c] = "rebuild"
      BY DEF LaunchUnit, Goto, Holding
    <2>2. unit'[c] = "activating"
      BY DEF LaunchUnit
    <2> QED
      BY <2>1, <2>2 DEF Job
  <1>2. ASSUME NEW d \in Conns \ {c} PROVE Job(d)' = Job(d)
    <2>1. pc'[d] = pc[d] /\ unit'[d] = unit[d] /\ request'[d] = request[d]
      BY DEF LaunchUnit, Goto
    <2> QED
      BY <2>1 DEF Job
  <1>3. JobMap' = [JobMap EXCEPT ![c] = "running"]
    BY <1>1, <1>2, OneJobMoves
  <1>4. EraMap' = EraMap /\ AnswerMap' = AnswerMap /\ now' = now
    BY DEF LaunchUnit, EraMap, AnswerMap, process
  <1>5. \A d \in Conns : JobMap[d] = "running" => EraMap[d] # EraMap[c]
    <2> SUFFICES ASSUME NEW d \in Conns, JobMap[d] = "running" PROVE EraMap[d] # EraMap[c]
      OBVIOUS
    <2>1. Live(d)
      BY DEF JobMap, Job, Live
    <2>2. lock = c /\ era[c] = now /\ request[c] = "rebuild"
      BY DEF LaunchUnit, Goto, LockDiscipline, Holding, Gone
    <2>3. d # c /\ era[d] # now
      BY <2>1, <2>2 DEF LaunchUnit, Goto, LockDiscipline, LiveDiscipline, Holding
    <2>4. request[d] = "rebuild"
      BY <2>1 DEF Live
    <2> QED
      BY <2>2, <2>3, <2>4 DEF EraMap
  <1> QED
    BY <1>1, <1>3, <1>4, <1>5 DEF Service!Start, Service!Running, JobMap, EraMap, AnswerMap

\* A launch that fails refuses the request, or reports a unit that failed at once.
LEMMA RefineLaunchFails ==
  ASSUME IInv, NEW c \in Conns, LaunchFails(c)
  PROVE  Service!Refuse(c) \/ Service!Reply(c, "fail")
  <1> USE DEF IInv, TypeOK, Bookkeeping
  <1>1. \A d \in Conns \ {c} : Job(d)' = Job(d)
    BY DEF LaunchFails, Goto, Job, units
  <1>0. /\ request[c] = "rebuild" /\ reply[c] = "none" /\ era[c] = now
        /\ reply' = [reply EXCEPT ![c] = "fail"] /\ UNCHANGED <<request, era, now>>
    BY DEF LaunchFails, Goto, Send, Holding, Gone, process
  <1>2. /\ AnswerMap[c] = "none" /\ EraMap[c] = now
        /\ AnswerMap' = [AnswerMap EXCEPT ![c] = "fail"]
        /\ EraMap' = EraMap /\ now' = now
    <2>1. DOMAIN reply = Conns
      OBVIOUS
    <2> HIDE DEF IInv, TypeOK, Bookkeeping
    <2>2. AnswerMap[c] = "none" /\ EraMap[c] = now /\ now' = now
      BY <1>0 DEF AnswerMap, EraMap
    <2>3. AnswerMap' = [AnswerMap EXCEPT ![c] = "fail"]
      BY <1>0, <2>1 DEF AnswerMap
    <2>4. EraMap' = EraMap
      BY <1>0 DEF EraMap
    <2> QED
      BY <2>2, <2>3, <2>4
  <1>3. CASE pc[c] = "launch"
    <2>1. Job(c) = "queued" /\ Job(c)' = "dropped"
      BY <1>3 DEF LaunchFails, Goto, Job, units, Holding
    <2>2. JobMap' = [JobMap EXCEPT ![c] = "dropped"]
      BY <1>1, <2>1, OneJobMoves
    <2> QED
      BY <1>2, <2>1, <2>2 DEF Service!Refuse, JobMap, EraMap, AnswerMap
  <1>4. CASE pc[c] = "launched"
    <2>1. Job(c) = "failed" /\ Job(c)' = "failed"
      BY <1>4 DEF LaunchFails, Goto, Job, units
    <2>2. JobMap' = JobMap
      BY <1>1, <2>1 DEF JobMap
    <2> QED
      BY <1>2, <2>1, <2>2 DEF Service!Reply, JobMap, EraMap, AnswerMap
  <1> QED
    BY <1>3, <1>4 DEF LaunchFails, Goto

\* "ok" is said of a unit that is active, that is of a rebuild that succeeded.
LEMMA RefineStatus ==
  ASSUME IInv, NEW c \in Conns, ReadStatus(c)
  PROVE  \E a \in {"ok", "fail"} : Service!Reply(c, a)
  <1> USE DEF IInv, TypeOK, Bookkeeping
  <1>1. PICK status \in {0, 1} :
          Send(c, IF ExitCodeFrom(unit[c], status) = 0 THEN "ok" ELSE "fail")
    BY DEF ReadStatus
  <1> DEFINE a == IF ExitCodeFrom(unit[c], status) = 0 THEN "ok" ELSE "fail"
  <1>2. a \in {"ok", "fail"} /\ (a = "ok" => unit[c] = "active")
    BY DEF ExitCodeFrom
  <1>3. \A d \in Conns : Job(d)' = Job(d)
    BY DEF ReadStatus, Goto, Job, units
  <1>4. Job(c) \in {"running", "succeeded", "failed"} /\ (a = "ok" => Job(c) = "succeeded")
    BY <1>2 DEF ReadStatus, Goto, Job
  <1>5. /\ AnswerMap[c] = "none" /\ EraMap[c] = now
        /\ AnswerMap' = [AnswerMap EXCEPT ![c] = a]
        /\ EraMap' = EraMap /\ JobMap' = JobMap /\ now' = now
    <2>1. /\ request[c] = "rebuild" /\ reply[c] = "none" /\ era[c] = now
          /\ reply' = [reply EXCEPT ![c] = a] /\ UNCHANGED <<request, era, now>>
      BY <1>1 DEF ReadStatus, Goto, Send, Holding, Gone, process
    <2>2. JobMap' = JobMap
      BY <1>3 DEF JobMap
    <2>0. DOMAIN reply = Conns
      OBVIOUS
    <2> HIDE DEF a, IInv, TypeOK, Bookkeeping
    <2>3. AnswerMap' = [AnswerMap EXCEPT ![c] = a]
      BY <2>1, <2>0 DEF AnswerMap
    <2> QED
      BY <2>1, <2>2, <2>3 DEF AnswerMap, EraMap
  <1>6. CASE a = "ok"
    <2>1. Service!Reply(c, "ok")
      BY <1>4, <1>5, <1>6 DEF Service!Reply, JobMap, EraMap, AnswerMap
    <2> QED
      BY <2>1
  <1>7. CASE a = "fail"
    <2>1. Service!Reply(c, "fail")
      BY <1>4, <1>5, <1>7 DEF Service!Reply, JobMap, EraMap, AnswerMap
    <2> QED
      BY <2>1
  <1> QED
    BY <1>2, <1>6, <1>7

\* A live unit ends by systemd's hand or by the stop in the cleanup; a unit that has
\* ended keeps its result.
LEMMA RefineEnd ==
  ASSUME IInv, NEW c \in Conns, CleanupUnit(c) \/ UnitSucceeds(c) \/ UnitFails(c)
  PROVE  (\E result \in {"succeeded", "failed"} : Service!Finish(c, result))
         \/ UNCHANGED Service!svcVars
  <1> USE DEF IInv, TypeOK, Bookkeeping
  <1>1. \A d \in Conns \ {c} : Job(d)' = Job(d)
    BY DEF CleanupUnit, StopUnits, UnitSucceeds, UnitFails, Goto, Live, Job, threads
  <1>2. AnswerMap' = AnswerMap /\ EraMap' = EraMap /\ now' = now
    BY DEF CleanupUnit, UnitSucceeds, UnitFails, AnswerMap, EraMap, threads, process
  <1>3. CASE Live(c)
    <2>1. Job(c) = "running" /\ Job(c)' \in {"succeeded", "failed"}
      BY <1>3 DEF CleanupUnit, StopUnits, UnitSucceeds, UnitFails, Live, Job
    <2>2. JobMap' = [JobMap EXCEPT ![c] = Job(c)']
      BY <1>1, OneJobMoves
    <2> QED
      BY <1>2, <2>1, <2>2 DEF Service!Finish, Service!Running, JobMap, EraMap, AnswerMap
  <1>4. CASE ~Live(c)
    <2>1. Job(c)' = Job(c)
      BY <1>4 DEF CleanupUnit, StopUnits, UnitSucceeds, UnitFails, Goto, Live, Job
    <2>2. JobMap' = JobMap
      BY <1>1, <2>1 DEF JobMap
    <2> QED
      BY <1>2, <2>2 DEF Service!svcVars, JobMap, EraMap, AnswerMap
  <1> QED
    BY <1>3, <1>4

\* A crash drops what was queued and leaves alone what runs.
LEMMA RefineCrash ==
  ASSUME IInv, Crash
  PROVE  Service!Restart
  <1> USE DEF IInv, TypeOK, Bookkeeping
  <1>1. \A d \in Conns : Job(d)' = IF Job(d) = "queued" THEN "dropped" ELSE Job(d)
    BY DEF Crash, Job, units, Holding, Gone
  <1>2. /\ now < MaxCrashes /\ now' = now + 1
        /\ AnswerMap' = AnswerMap /\ EraMap' = EraMap
        /\ JobMap' = [d \in Conns |-> IF JobMap[d] = "queued" THEN "dropped" ELSE JobMap[d]]
    BY <1>1 DEF Crash, AnswerMap, EraMap, JobMap
  <1> QED
    BY <1>2 DEF Service!Restart, JobMap, EraMap, AnswerMap

\* A helper that starts stops no unit that runs.
LEMMA RefineBoot ==
  ASSUME IInv, Boot
  PROVE  UNCHANGED Service!svcVars
  <1>1. unit' = unit
    BY DEF IInv, TypeOK, Boot, StopUnits, IsReapable, UnitIsFinished, Live
  <1> QED
    BY <1>1 DEF Boot, Service!svcVars, Job, threads

\* Every step of the helper is a step of the service, or none.
LEMMA RefineStep == IInv /\ [Next]_vars => [Service!SvcNext]_Service!svcVars
  <1> SUFFICES ASSUME IInv, [Next]_vars PROVE Service!SvcNext \/ UNCHANGED Service!svcVars
    OBVIOUS
  <1>1. ASSUME NEW c \in Conns, Thread(c)
        PROVE  Service!SvcNext \/ UNCHANGED Service!svcVars
    <2>1. CASE AcceptRebuild(c) \/ AcceptRestart(c) \/ RefuseRequest(c) \/ RestartEnds(c)
      BY <2>1, RefineAccept DEF Service!SvcNext
    <2>2. CASE \/ AcquireAtOnce(c) \/ FindLockHeld(c) \/ AcquireAfterWait(c)
               \/ LaunchReturns(c) \/ WatchSeesEnd(c) \/ WatchHitsDeadline(c)
               \/ FollowerEnds(c) \/ Release(c)
      BY <2>2, RefineHidden
    <2>3. CASE LaunchUnit(c)
      BY <2>3, RefineLaunch DEF Service!SvcNext
    <2>4. CASE LaunchFails(c)
      BY <2>4, RefineLaunchFails DEF Service!SvcNext
    <2>5. CASE ReadStatus(c)
      BY <2>5, RefineStatus DEF Service!SvcNext
    <2>6. CASE CleanupUnit(c)
      BY <2>6, RefineEnd DEF Service!SvcNext
    <2> QED
      BY <1>1, <2>1, <2>2, <2>3, <2>4, <2>5, <2>6 DEF Thread
  <1>2. ASSUME NEW c \in Conns, System(c)
        PROVE  Service!SvcNext \/ UNCHANGED Service!svcVars
    BY <1>2, RefineEnd DEF System, Service!SvcNext
  <1>3. CASE Crash
    BY <1>3, RefineCrash DEF Service!SvcNext
  <1>4. CASE Boot
    BY <1>4, RefineBoot
  <1>5. CASE UNCHANGED vars
    BY <1>5 DEF Service!svcVars, Job, vars, threads, units, process
  <1> QED
    BY <1>1, <1>2, <1>3, <1>4, <1>5 DEF Next

\* With all its threads, units, watchdogs and crashes, the helper is a service that
\* queues, runs one rebuild at a time per incarnation, and answers honestly.
THEOREM Implementation == Spec => ImplementsService
  BY RefineInit, RefineStep, Invariance, PTL DEF Spec, ImplementsService, Service!SvcSpec
=============================================================================
