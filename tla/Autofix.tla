------------------------------ MODULE Autofix ------------------------------
(***************************************************************************)
(* The autofix engine (autofix.decide, autofix_engine.AutofixEngine), run  *)
(* by the daemon's poll loop: it lists the failed units, acts once on each *)
(* newly failed one (restart it and verify, or inform), records what it    *)
(* did in the event store, and tells the clients.                          *)
(*                                                                         *)
(*   down -> seed -> idle -> list -> each <-> decide -> record -> tell     *)
(*                     ^--------------'         '-> restart -> check -^    *)
(*                                                                         *)
(* Units fail and recover at any time; the daemon crashes; systemctl and   *)
(* the event store fail.                                                   *)
(***************************************************************************)
EXTENDS Naturals, Sequences, FiniteSets

CONSTANTS
  Units,         \* (name, scope) pairs
  NameOf,        \* the unit's name: the store's window is asked by name only
  ScopeOf,       \* "system" or "user"
  NoUnit,
  MaxAttempts,   \* config.max_attempts
  SystemAllowed, \* config.system
  Limit,         \* the rows handle_unit reads back: 50 in the code
  MaxFailures,   \* bound on the failures of units
  MaxFaults      \* bound on the crashes and failing calls

ASSUME ScopeAssumption == ScopeOf \in [Units -> {"system", "user"}]
ASSUME NoUnitAssumption == NoUnit \notin Units
ASSUME PolicyAssumption ==
  /\ MaxAttempts \in Nat \ {0}
  /\ Limit \in Nat \ {0}
  /\ SystemAllowed \in BOOLEAN
ASSUME BoundsAssumption == MaxFailures \in Nat /\ MaxFaults \in Nat

VARIABLES
  state,     \* ActiveState of each unit, as far as it matters
  pc,        \* where the engine stands
  seen,      \* self.seen
  listed,    \* failed system units, while the user units are being listed
  todo,      \* newly failed units the current tick has yet to handle
  unit,      \* the one it handles
  verdict,   \* what it does about it, and whether it was verified
  rows,      \* the autofix events of the last window_s seconds, oldest first
  armed,     \* units that failed since the engine last dealt with them
  told,      \* the last word clients had about the unit's present failure
  blind,     \* per name: restarts decided on a read that missed recorded ones
  failures, faults   \* what the bounds count

engine == <<pc, seen, listed, todo, unit, verdict>>
vars == <<engine, state, rows, armed, told, blind, failures, faults>>

Failed(k) == state[k] = "failed"
InScope(scope) == {k \in Units : ScopeOf[k] = scope}
Names == {NameOf[k] : k \in Units}

TypeOK ==
  /\ state \in [Units -> {"healthy", "failed"}]
  /\ pc \in {"down", "seed", "idle", "list", "each", "decide", "restart",
             "check", "record", "tell"}
  /\ seen \in SUBSET Units
  /\ listed \in SUBSET InScope("system")
  /\ todo \in SUBSET (Units \ seen)
  /\ unit \in Units \cup {NoUnit}
  /\ verdict \in {"none", "inform", "healthy", "still_failing"}
  /\ rows \in Seq(Names \X {"restart", "inform"})
  /\ armed \in SUBSET Units
  /\ told \in [Units -> {"nothing", "healthy", "attention", "dropped"}]
  /\ blind \in [Names -> Nat]
  /\ failures \in 0..MaxFailures
  /\ faults \in 0..MaxFaults

\* Units may have failed long before the daemon starts.
Init ==
  /\ state \in [Units -> {"healthy", "failed"}]
  /\ pc = "down"
  /\ seen = {} /\ listed = {} /\ todo = {}
  /\ unit = NoUnit /\ verdict = "none"
  /\ rows = <<>>
  /\ armed = {}
  /\ told = [k \in Units |-> IF Failed(k) THEN "dropped" ELSE "nothing"]
  /\ blind = [n \in Names |-> 0]
  /\ failures = 0 /\ faults = 0

NoFault == UNCHANGED faults
Fault   == faults < MaxFaults /\ faults' = faults + 1

-----------------------------------------------------------------------------
(* Listing the failed units: one systemctl call per scope.                 *)

\* What `systemctl list-units` shows of a scope; when it fails its exit status is
\* ignored and the scope reads as empty.
Listing(scope, found) ==
  LET failed == {k \in InScope(scope) : Failed(k)}
  IN  \/ found = failed /\ NoFault /\ UNCHANGED armed
      \/ found = {} /\ failed # {} /\ Fault /\ armed' = armed \cup failed

ListSystem(from, to) ==
  /\ pc = from /\ pc' = to
  /\ \E found \in SUBSET InScope("system") :
       Listing("system", found) /\ listed' = found
  /\ UNCHANGED <<seen, todo, unit, verdict, state, rows, told, blind, failures>>

StartSeed == ListSystem("down", "seed")

\* Failures from before the start are known from the start.
Seed ==
  /\ pc = "seed" /\ pc' = "idle"
  /\ \E found \in SUBSET InScope("user") :
       Listing("user", found) /\ seen' = listed \cup found
  /\ listed' = {}
  /\ UNCHANGED <<todo, unit, verdict, state, rows, told, blind, failures>>

StartPoll == ListSystem("idle", "list")

\* Mutant: a tick handles what an earlier one has handled.
NewlyFailedIgnoringSeen(failed) == failed

NewlyFailed(failed) == failed \ seen

\* Recovered units are re-armed; every newly failed one is to be handled.
Poll ==
  /\ pc = "list" /\ pc' = "each"
  /\ \E found \in SUBSET InScope("user") :
       /\ Listing("user", found)
       /\ seen' = seen \cap (listed \cup found)
       /\ todo' = NewlyFailed(listed \cup found)
  /\ listed' = {}
  /\ UNCHANGED <<unit, verdict, state, rows, told, blind, failures>>

\* systemctl cannot be run, or hangs: the tick is given up.
PollRaises ==
  /\ pc = "list" /\ pc' = "idle"
  /\ Fault
  /\ listed' = {}
  /\ UNCHANGED <<seen, todo, unit, verdict, state, rows, armed, told, blind, failures>>

-----------------------------------------------------------------------------
(* One newly failed unit.                                                  *)

\* Mutant: the unit stays on the list of the tick.
TakeAndKeep(k) ==
  /\ pc = "each" /\ k \in todo /\ pc' = "decide"
  /\ unit' = k
  /\ seen' = seen \cup {k}
  /\ armed' = armed \ {k}
  /\ UNCHANGED <<listed, todo, verdict, state, rows, told, blind, failures, faults>>

Take(k) ==
  /\ pc = "each" /\ k \in todo /\ pc' = "decide"
  /\ unit' = k
  /\ todo' = todo \ {k}
  /\ seen' = seen \cup {k}
  /\ armed' = armed \ {k}
  /\ UNCHANGED <<listed, verdict, state, rows, told, blind, failures, faults>>

TickEnds ==
  /\ pc = "each" /\ todo = {} /\ pc' = "idle"
  /\ UNCHANGED <<seen, listed, todo, unit, verdict, state, rows, armed, told,
                 blind, failures, faults>>

\* The restarts among the last Limit autofix events of that name.
RecordedAttempts(n) ==
  Cardinality({i \in DOMAIN rows :
    /\ rows[i] = <<n, "restart">>
    /\ Cardinality({j \in i..Len(rows) : rows[j][1] = n}) <= Limit})

\* Mutant: one attempt too many.
DecideRestartOnceMore(k, attempts) ==
  /\ ScopeOf[k] = "system" => SystemAllowed
  /\ attempts <= MaxAttempts

DecideRestart(k, attempts) ==
  /\ ScopeOf[k] = "system" => SystemAllowed
  /\ attempts < MaxAttempts

\* store.recent gives the attempts on record, or no event when its query fails.
Reads(attempts) ==
  \/ attempts = RecordedAttempts(NameOf[unit]) /\ NoFault
  \/ attempts = 0 /\ Fault

\* NRestarts, systemd's own count, is whatever it is; the larger count decides.
Decide ==
  /\ pc = "decide"
  /\ \E attempts \in 0..Len(rows) :
       /\ Reads(attempts)
       /\ \/ /\ DecideRestart(unit, attempts)
             /\ pc' = "restart" /\ UNCHANGED verdict
             /\ blind' = IF attempts = RecordedAttempts(NameOf[unit]) THEN blind
                         ELSE [blind EXCEPT ![NameOf[unit]] = @ + 1]
          \/ pc' = "record" /\ verdict' = "inform" /\ UNCHANGED blind
  /\ UNCHANGED <<seen, listed, todo, unit, state, rows, armed, told, failures>>

\* systemctl restart, or the helper's: the unit comes back, or does not.
Restart ==
  /\ pc = "restart" /\ pc' = "check"
  /\ \E s \in {"healthy", "failed"} : state' = [state EXCEPT ![unit] = s]
  /\ UNCHANGED <<seen, listed, todo, unit, verdict, rows, armed, told, blind, failures, faults>>

\* The restart itself fails, as does one that could not be made: an attempt too.
RestartRaises ==
  /\ pc = "restart" /\ pc' = "record"
  /\ verdict' = "still_failing"
  /\ \/ state' = [state EXCEPT ![unit] = "failed"] /\ NoFault
     \/ UNCHANGED state /\ Fault
  /\ UNCHANGED <<seen, listed, todo, unit, rows, armed, told, blind, failures>>

\* A second later the unit is asked for; a failing systemctl reads as healthy.
Check ==
  /\ pc = "check" /\ pc' = "record"
  /\ \/ verdict' = (IF Failed(unit) THEN "still_failing" ELSE "healthy") /\ NoFault
     \/ verdict' = "healthy" /\ Failed(unit) /\ Fault
  /\ UNCHANGED <<seen, listed, todo, unit, state, rows, armed, told, blind, failures>>

\* systemctl cannot be run: the unit stays in seen, nothing is recorded or told.
CheckRaises ==
  /\ pc = "check" /\ pc' = "each"
  /\ Fault
  /\ told' = [told EXCEPT ![unit] = "dropped"]
  /\ unit' = NoUnit
  /\ UNCHANGED <<seen, listed, todo, verdict, state, rows, armed, blind, failures>>

Row == <<NameOf[unit], IF verdict = "inform" THEN "inform" ELSE "restart">>

\* The store swallows its own errors; the row is then missing.
Record ==
  /\ pc = "record" /\ pc' = "tell"
  /\ \/ rows' = Append(rows, Row) /\ NoFault
     \/ UNCHANGED rows /\ Fault
  /\ UNCHANGED <<seen, listed, todo, unit, verdict, state, armed, told, blind, failures>>

\* Mutant: clients are not told of what autofix leaves alone.
TellOfRestartsOnly ==
  /\ pc = "tell" /\ pc' = "each"
  /\ told' = IF verdict = "inform" THEN told ELSE [told EXCEPT ![unit] = verdict]
  /\ unit' = NoUnit /\ verdict' = "none"
  /\ UNCHANGED <<seen, listed, todo, state, rows, armed, blind, failures, faults>>

Tell ==
  /\ pc = "tell" /\ pc' = "each"
  /\ told' = [told EXCEPT ![unit] =
                IF verdict = "healthy" THEN "healthy" ELSE "attention"]
  /\ unit' = NoUnit /\ verdict' = "none"
  /\ UNCHANGED <<seen, listed, todo, state, rows, armed, blind, failures, faults>>

-----------------------------------------------------------------------------
(* The units, the clock and the daemon's death.                            *)

Fails(k) ==
  /\ ~Failed(k) /\ failures < MaxFailures
  /\ state' = [state EXCEPT ![k] = "failed"]
  /\ failures' = failures + 1
  /\ armed' = armed \cup {k}
  /\ told' = [told EXCEPT ![k] = "nothing"]
  /\ UNCHANGED <<engine, rows, blind, faults>>

\* Restarted by a timer, by hand, by the tray.
Recovers(k) ==
  /\ Failed(k)
  /\ state' = [state EXCEPT ![k] = "healthy"]
  /\ UNCHANGED <<engine, rows, armed, told, blind, failures, faults>>

\* The oldest event falls out of the window.
Age ==
  /\ rows # <<>>
  /\ rows' = Tail(rows)
  /\ UNCHANGED <<engine, state, armed, told, blind, failures, faults>>

\* The event store survives, the engine's memory does not.
Crash ==
  /\ pc # "down" /\ pc' = "down"
  /\ Fault
  /\ seen' = {} /\ listed' = {} /\ todo' = {}
  /\ unit' = NoUnit /\ verdict' = "none"
  /\ armed' = {}
  /\ told' = [k \in Units |-> IF Failed(k) THEN "dropped" ELSE told[k]]
  /\ UNCHANGED <<state, rows, blind, failures>>

EngineStep ==
  \/ StartSeed
  \/ Seed
  \/ StartPoll
  \/ Poll
  \/ PollRaises
  \/ \E k \in Units : Take(k)
  \/ TickEnds
  \/ Decide
  \/ Restart
  \/ RestartRaises
  \/ Check
  \/ CheckRaises
  \/ Record
  \/ Tell

Next ==
  \/ EngineStep
  \/ \E k \in Units : Fails(k) \/ Recovers(k)
  \/ Age
  \/ Crash

Spec == Init /\ [][Next]_vars

\* The daemon's event loop runs the engine, and systemd restarts the daemon.
FairSpec == Spec /\ WF_vars(EngineStep)

-----------------------------------------------------------------------------
(* What autofix must get right.                                            *)

RowsOf(n)     == {i \in DOMAIN rows : rows[i][1] = n}
RestartsOf(n) == {i \in DOMAIN rows : rows[i] = <<n, "restart">>}

\* "We never silently loop": whatever fails and crashes, the recorded restarts of a unit
\* within the window stay within the limit, as long as the engine can read the whole
\* window back; and each restart that was decided on a failed read, which counts none of
\* them, makes it one more.
LoopGuard ==
  \A n \in Names :
    Cardinality(RowsOf(n)) <= Limit => Cardinality(RestartsOf(n)) <= MaxAttempts + blind[n]

\* "We act on failures that happen from now on": a unit is dealt with only if it
\* failed after the daemon started and after autofix last dealt with it, or if a
\* failing systemctl hid its failure from a listing.
OnlyNewFailuresAreHandled ==
  [][\A k \in Units : unit # k /\ unit' = k => k \in armed]_vars

\* A failure that the engine has not seen ends up reported one way or the other,
\* unless the unit recovers, the daemon dies or the check cannot be made.
NewFailuresAreAnswered ==
  \A k \in Units :
    Failed(k) /\ k \in armed /\ k \notin seen /\ pc \notin {"down", "seed"}
      ~> ~Failed(k) \/ told[k] # "nothing"
=============================================================================
