# nixadmin in TLA+

nixadmin is a daemon that answers questions about a NixOS machine, restarts
failed units, installs and removes apps, and, through a small root helper,
rebuilds the system. These modules model its concurrent core and the clients around
it, check them with TLC and prove their safety properties with TLAPS. Paths below are
relative to the repository's root.

## Running

    tlc -workers 2 -config MCHelper.cfg Helper.tla
    tlc -workers 2 -config MCAppAction.cfg MCAppAction.tla
    tlc -workers 2 -config MCAutofix.cfg MCAutofix.tla
    tlc -workers 2 -config MCDispatch.cfg MCDispatch.tla
    tlc -workers 2 -config MCTimeline.cfg MCTimeline.tla
    tlc -workers 2 -config MCWeb.cfg Web.tla
    tlc -workers 2 -config MCTray.cfg Tray.tla
    tlc -workers 2 -config MCAgent.cfg MCAgent.tla
    tlc -workers 2 -config MCLifecycle.cfg Lifecycle.tla

    tlapm HelperProofs.tla
    tlapm AppActionProofs.tla
    tlapm AutofixProofs.tla
    tlapm DispatchProofs.tla
    tlapm TimelineProofs.tla
    tlapm ClientProofs.tla
    tlapm AgentProofs.tla
    tlapm LifecycleProofs.tla

`PROJECT.json` lists every run with the properties it checks, the source lines
each definition stands for, the hazards the properties are aimed at, what
disagreements between code and documents came up, and for each property of a
passing run a mutant: a definition of the model, changed as a plausible bug would
change it, under which the property fails. Mutants stand right before the
definition they change, are marked as such, and are used by no specification.

## The system

| Component | State | Operations | Talks to |
|---|---|---|---|
| root helper (`nix/nixadmin-helper.py`) | the rebuild lock, one thread per connection, transient systemd units that outlive it | rebuild, unit restart, startup sweep | systemd; clients over a socket |
| safety gate (`safety.py`) | the session's `last_test_ok` | rebuild, apply_switch, apply_revert, apply_restart | root helper, with a timeout |
| app actions (`actions.py`) | the packages file, the system profile, throw-away worktrees | install, remove | safety gate, the user's confirm, nix |
| dispatch (`server.py`, `connections.py`, `session.py`) | tasks and pending prompts per connection, a lock per session, readiness of the two chains | query, cancel, respond, disconnect, broadcast | all of the above, routing, models |
| routing (`routing.py`) | none | resolve | dispatch |
| remediation (`remediation.py`) | none | list, restart and verify units | systemctl, safety gate |
| autofix (`autofix.py`, `autofix_engine.py`) | the `seen` set, the events in the store | seed, run_once | remediation, event store, broadcast |
| agent loop (`llm/remote.py`, `_run_remote`) | the conversation with the provider | rounds of tool calls | safety gate, modules' fetchers, the provider |
| event store (`store.py`) | SQLite rows, a lock, worker threads | append, recent, earliest, prune, close | every writer and reader of the daemon |
| timeline, ledger (`timeline.py`, `ledger.py`) | the last-seen failures | record transitions, page, kept_well | event store, remediation |
| web hub (`web/`) | a register of query sessions, an answer queue and a socket for each, a pool of threads | stream, respond, cancel; restart | the daemon's socket, the browser |
| tray (`tray/`) | the connection, pending requests, the rows shown, the registration of the icon | poll, restart, draw, register | the daemon's socket, the panel |
| connections, task sets, monitors (`connections.py`, `tasks.py`, `monitors.py`) | connections and the tasks they own, task sets, D-Bus subscriptions | accept, close, spawn, signal, broadcast, shutdown | dispatch, event store |
| context and prefetch, local model, redaction, protocol, configuration, CLI, overlay | a cache of texts | one call each | |

What makes it hard: rebuilds outlive both the helper and the call that asked for
them; every `await` lets other tasks run and a cancellation land; an answer, a
cancel and a disconnect race for the same prompt; a peer may stop reading in the
middle of a turn; failures are seen only by polling, by several clients at once; what
a panel or a page shows is old when it is clicked; the daemon, the hub and the panel
come and go independently; and every external call (systemctl, the helper, SQLite)
may fail at the worst moment.

What makes each part correct:

* helper: no two activations at once, an honest exit code, live rebuilds left
  alone, every request answered or cut off;
* app actions: what is reported is what the file and the system are; what is said to
  be undone is undone, and only what the action itself did is undone;
* dispatch: one query per session, consent before anything leaves the device or
  changes it, a terminal message per turn, no session that the daemon itself wedges;
* agent: a switch only after a test that passed, only reviewed or scrubbed text to
  the provider, nothing more once the user has stopped it;
* autofix: each new failure handled once, never a restart loop, no failure lost;
* timeline and ledger: transitions that alternate, pages without gaps or repeats, a
  streak that is not flattered;
* web: a prompt is answered as the user answered it, and a page that is gone leaves
  no thread, no place on the register and no query behind;
* tray: no stale row restarts a unit that is well, and what is shown comes right;
* lifecycle: nothing is spawned or forgotten behind a shutdown, which ends; no prompt
  outlives its client.

## The modules

**`RebuildService`** is the abstract helper: a request is queued, runs, ends and
is answered. Two rebuilds accepted by one incarnation do not run together, "ok"
is only said of a success, and a restart drops what was queued and leaves alone
what runs. It has no threads, units or watchdog. `Helper` implements it, and
`AppAction` uses it as the helper.

**`Helper`** is `nix/nixadmin-helper.py`. `pc[c]` walks a connection's thread
through `handle_client` and `_run_rebuild`; `lock` is `_rebuild_lock`; `unit[c]`
is the ActiveState of the transient unit, which `UnitSucceeds` and `UnitFails`
(systemd) change at any time; `cause[c]` records what ended the journal stream
(the watcher saw the end, the deadline passed, the follower died); `removed` are
the units `_cleanup_unit` stopped. `Crash` kills every thread and the lock and
leaves the units; `Boot` is `main` with `_cleanup_stale`. A unit's name carries the
time and the process number, so each rebuild has a unit of its own. Which rebuild
action was asked for makes no difference to the helper and is left out, as is the
streamed text. Whether a client is still there does not matter either: `_send`
swallows a broken pipe, so `reply` is what was sent, read or not.

**`AppAction`** is `actions.run_app_action` with `SafetyGate._run_helper` and
`nixos-rebuild`. Each action of a task is the code between two awaits. Three of them end
it by an exception that no handler of its own takes, so that it undoes nothing and says
nothing of file and system: `Killed` is a CancelledError at any await (or a line of the
helper's that is too long to read); `EditIsLeft` and `RollbackIsSkipped` are the two
status messages after the confirm, which a client that stopped reading or has gone does
not take, upon which the dispatch reports an internal error. The outcome is what an
action says in the end, whether or not the client reads it. The packages file is the set
of packages it lists; a generation is the set it was built from. `gens` and `cur` are
the system profile; a switch that builds the configuration of the newest generation
makes no new one, and a rollback steps to the generation numbered before the current
one. `mixed` says that the last activation to begin did not finish. `overlapped` is a
history variable: the tasks that ran while another's write or rebuild was under way; the
properties that are about one action at a time speak of the others.

**`Autofix`** is `AutofixEngine` with its poll loop, `failed_units`,
`restart_resolved` and the store. The failed units are listed with one call per
scope, and units may fail and recover between the two. Each external call has a
failing variant: `systemctl` exits nonzero and reads as "nothing failed", or cannot
be run and raises; the store drops a row, or answers a query with no events
(`Reads`), on which the guard counts no attempts. `blind` counts the restarts that were
decided so, `armed` holds the units that failed since autofix last dealt with them and
`told` what clients last heard: history variables.
`Age` lets the oldest row leave the time window. systemd's own restart count is
left nondeterministic: it can only turn a restart into an inform.

**`Dispatch`** is a query's life in `server.py`, `connections.py` and `routing.resolve`:
the session lock, which serves in turn (`ahead[q]` are the queries of the session that
came before `q` and have not left), the routing decision, prompts and their answers, and
the write of a terminal message with its drain, which a peer that stops reading holds up
until it times out and a failure is reported in turn. `AfterCancel` is what a cancel
does at each point; a pending prompt swallows it, as `_await_response` does. `sent[q]`
counts terminal messages.

**`Agent`** is the remote chain, from `_run_remote` through `llm/remote.run` and
`_call_tool` to `SafetyGate.rebuild`. The provider is an input: each turn is an answer
or any sequence of calls. `testOk` is the sessions' `last_test_ok`; `passed` is a
history variable that says the same of the outcomes. `texts[q]` is what kinds of text
the conversation holds: the query or its redaction, the assembled context, results as
they came (`raw`) or scrubbed; fixed remarks (a refusal, an unknown tool) are no
kind.

**`RemoteChain`** is what `Dispatch` and `Agent` both promise of a query in the remote
chain: one of a conversation at a time, a rebuild of the profile only after the yes of a
client that is there, a no or a cancel at the prompt upon which the chain goes on, and a
client that leaves takes its prompt and its task's wait for a rebuild with it. The
rebuild itself runs on in the helper and is no part of it. In `Dispatch` a query is
*working* when it is `remote`, *asking* and *awaiting* at its prompt `rebuild` and
behind it, and whatever it does on the way there is *before*; in `Agent` the model's
rounds and tools are all *working*, and a `switch` or `boot` at the gate or the helper is
the rest. Both are proved to implement it, so the two models of the same code agree
where they overlap.

**`EventStore`** is `store.py` as its callers see it: rows with growing ids, queries
that return the newest by time up to a cap. **`Timeline`** builds on it: clients whose
listings become transitions (the listing is taken before the lock, the rows are written
one at a time, a cancel may come between any two, and the store may lose one), the other
writers (autofix, restarts by hand or by a query, notes), retention, the clock, and the
two readers. `tally.due` are the rows on record, as the ledger is asked for, of moments
the user was needed: the streak must begin after each of them that is still there when
the answer is folded. A row that expires between two of the four reads may be missed,
which a clock of three days already shows. A query that fails is an empty page
without a cursor (`EmptyPage`), after which the client believes to be at the end;
`walk.missed` remembers it, and for the ledger `tally.short` says that a query failed or was
cut at the cap.
`blemished` are units with a row lost or
written twice. A step of the store is atomic here; its lock, threads and close are in
`Lifecycle`. The two readers do not touch what others see, so one of them is under way
at a time.

**`Web`** is one invocation from the browser's card to the daemon: `card` is what
`operation.js` shows, `posts` are control requests on their way in any order, `thread`
is the HTTP thread in `_stream` and `QuerySession.messages`, `answers` its queue, `up`
and `down` the socket. An answer belongs to the prompt that the card shows (`Shown`),
which is not the last one asked while that is still on its way. The daemon at the other
end is what `Dispatch` says of it, reduced to what the hub can tell: a task that was
`told` something at its prompt may take a cancel that comes before it runs for a no, and
so it does at its prompt; the end of its connection is such a cancel, after which it is
`alone`. Streams meet only on the register, so one stream is followed and the others are
a count (`crowd`) that may change at any time.

**`Tray`** has the two surfaces that restart a unit with a click. `refresh` are the
tray's overlapping listings, `drawn` the rows the panel fetched when it last did, and a
click brings the number of one of them, looked up in the rows of now (`Finds`). The
hub's button brings a unit. `fix` is the daemon's task in `_restart_unit`. The
registrar's start, the panel's watcher and its changes are at the end; a registration
may fail while the watcher is there, and nothing but the next change of owner makes for
another (`EnsureRegistered`, `refused`). A listing is one step here, and may read as
empty when `systemctl` fails; `Autofix` has its two calls.

**`Lifecycle`** is what a task's body does not say: who owns it, who cancels it, what
of it remains. Tasks prompt, wait for the store's lock, write in a thread and end;
connections close as `ConnectionManager.close` does (cancel, wait for a second,
refuse the prompts that are left, close the transport) and `Daemon.aclose` walks
through its phases. A cancelled append gives the lock up and leaves its thread; a
prompt takes a cancel for a no.

## The runs

| Run | Instance | Shows |
|---|---|---|
| `helper` | 3 connections, 1 crash, fair | lock, exit code, sweep, progress, and refinement of `RebuildService` |
| `app_action` | 2 actions of one session, 2 packages, 1 helper restart, fair | what is said of file and system is so; a mixed system has a reason on record; confirmed actions end |
| `autofix` | a system and a user unit of one name, 3 failures, 2 faults, fair | the loop guard, also when queries fail; each failure handled once and answered |
| `dispatch` | 3 queries of one session on 2 connections, fair | consent, terminal messages, no session wedged by the daemon |
| `timeline` | 1 unit, 2 clients, 3 rows, a cap of 2, 2 changes, 1 fault | transitions alternate, pages are complete but for a query that failed, the streak is not flattered by what was found |
| `web` | 1 stream, 3 prompts, a register of 2, fair | answers are the user's; what is left or lost ends, or loses its connection |
| `tray` | 2 units, 2 refreshes, 1 fix-it, bounded changes and trouble, fair | restarts were needed, the view settles, the icon returns or its last registration failed |
| `agent` | 2 queries in 1 or 2 sessions, 2 rounds of up to 2 calls | a switch is tested, only reviewed text leaves |
| `lifecycle` | 2 connections, 3 tasks, fair | shutdown ends and leaves nothing but stubborn tasks; no prompt outlives its client |
| `helper_hang` | 2 connections, no crash, fair | violated: a rebuild that hangs is never killed |
| `app_rollback` | 2 actions of two sessions | violated: a switch that fails in its build, with the profile moved by another session's, is followed by a rollback |
| `agent_cancel` | as `agent`, fair | violated: a cancel at a prompt does not stop the agent loop |

Every action of every module fires in the passing runs.

### Bounds

*Helper.* Three connections give a holder, a waiter and a newcomer (or a restart);
one crash gives two incarnations, which is what one rebuild outliving its helper
needs. The proofs have no bound.

*App actions.* Two tasks are the most that can interfere at once: one whose call
outlives it and one that runs now. Three generations are then possible, which is
what "the previous one is not the one I started from" needs. Two packages make
two edits that differ. One session in the passing run: across sessions the
properties do not hold, which `app_rollback` shows.

*Autofix.* The store reads back 50 rows in the code and `Limit = 2` here. `LoopGuard` is
stated for the rows that fit, whatever the limit; once a window holds more events of a
unit than the limit, a restart drops out of sight and the unit is restarted again. With
a poll every 15 seconds a unit can be informed of 240 times in an hour, so 50 is within
reach. `MaxAttempts` is the default of the module, 1. Three failures let a unit recover,
fail again and fail for a third time; two faults let a crash and a failing call, or two
failing queries, combine.

*Dispatch.* Three queries of one session are a holder and two waiters, which FIFO
and cancelling in the middle of the queue need; two connections let one close while
the other's query waits.

*Timeline.* The store keeps the first three rows and drops later ones, and a query
returns two: a page of one row and one of two, the cap, are the cases below and at it,
and three rows make a second and a third page. Two clients interleave in every way; a
third adds a task that waits. One unit is enough since rows of different units do not
influence one another. Two changes are a failure and a recovery, or an autofix and a
restart; one fault is a lost row, a cut connection, a restart, a failing listing or
query, or a clock set back.

*Web.* Three prompts let a late answer meet the next one, or the one after; a register
of two with a crowd has room, is full, and is full by others.

*Tray.* Two units make two rows that may shift; two refreshes may answer in either
order. The bounds on changes and trouble are what lets the view settle.

*Agent.* Two queries share a session or do not, `session` being chosen at the start.
Two calls in a turn let one follow another's result, and two rounds let a test of an
earlier one be remembered. The code bounds neither.

*Lifecycle.* Three tasks are one that holds the store's lock, one that waits for it
and one at a prompt; two connections let one close while the other's broadcast or
request runs. A task that has ended is not used again.

### Fairness

Weak fairness only. *Helper*: threads run, the deadline passes, systemd starts the
helper again (`Restart = "on-failure"`) and notices a unit that was killed. No rebuild
need end by itself, nor its follower; and systemd-run need not return while its
rebuild runs, since it waits for a oneshot unit to start, which is after its command
ended. So `RequestsEnd` is stated for runs in which systemd-run returns, and
`helper_hang` shows what happens in the others. *App actions*: the event loop runs the
tasks, and a pending call can end by `HELPER_TIMEOUT_S` at any time; rebuilds need
neither start nor end, and users need not answer. *Autofix*: the engine's
steps, and systemd's restart of the daemon. *Dispatch*: a task with a step to take
takes one, as its calls to subprocesses, the helper and the local model's short judgements
are bounded by their timeouts, except in a conversation with a model: nothing bounds the
turns of the remote agent's loop, nor the length of a local answer. So `QueriesEnd` says
that the daemon wedges no session by itself, not that a session is free in the end;
prompts need not be answered, the local model need not come up, and peers need not
read. *Web*: the stream's thread runs and its two timeouts pass (`READ_TIMEOUT`,
`CONFIRM_WAIT_TIMEOUT`), and the daemon reads its socket; nobody need answer, and the
daemon need not finish. *Tray*: the client reconnects and polls, the daemon answers
and comes back, D-Bus delivers, and a panel that has the watcher's name answers a
registration, if only by an error; timeouts and losses are bounded. *Agent*, for
`agent_cancel` only: tools and requests end. *Lifecycle*: waits with a deadline end, a
thread in SQLite ends (its busy timeout), and the lock, which serves in turn, is had
at last by the close (the one strong fairness). Tasks and clients owe nothing.

## The proofs

Every safety property that the passing runs check, invariant or action property, is a
theorem; so are the type invariants. The theorems speak of every value of the constants.
Their assumptions are those the modules name, and only say what the constants are: names
that differ (`NoOneAssumption`, `NoUnitAssumption`, `NamesAssumption`), functions from
queries, tasks and units to what they belong to (`OriginAssumption`,
`SessionOfAssumption`, `ScopeAssumption`), bounds that are natural numbers
(`BoundsAssumption`, `MaxCrashesAssumption`, `SizesAssumption`, `AgentBounds`,
`PolicyAssumption`), and page lengths between 1 and the store's cap (`LimitsAssumption`;
`TimelineService.page` sees to that). No set is assumed finite but `Tray`'s units
(`UnitsAssumption`: a machine has finitely many, and their numbers are the order in
which `systemctl` lists them). Bounds that the models add, on crashes, faults or rows,
may be any number.

Each proof has the same outline: an inductive invariant `IInv`, that it holds at the
start, that every step keeps it, and what follows from it. `IInv` was model-checked
before it was proved. What differs is why the property itself is not inductive.

**`HelperProofs`**: `TypeCorrect`; `SerializedRebuilds` (two rebuilds of one incarnation
are never live together); `HonestExitHolds`; `LiveUnitsSpared`; `Implementation`
(`Helper` implements `RebuildService` under the refinement mapping of `Job`).
Serialization says nothing of the lock, so `IInv` adds, in layers each inductive
relative to those before it: *Bookkeeping* (where a thread stands tells its request,
its incarnation, whether its unit was launched and whether it has answered);
*LockDiscipline* (a thread between its acquire and its release is the lock's holder,
and nobody else is); *LiveDiscipline* (a live unit of the incarnation that runs has its
thread inside, and a thread that saw its unit end has no live unit). A launch then
finds every other thread outside, so every other live unit is of an earlier
incarnation. The refinement maps each action to a step of the service or to a stutter,
the cleanup's stop of a live unit being the end of its rebuild.

**`AppActionProofs`**: `TypeCorrect`; `MixedAccountedFor` (`MixedIsAccountedFor`);
`FileDescribes` (`FileDescribesSystem`); `AppliedMeansActive` (`AppliedIsActive`);
`ToldUndoneIsUndone` (`UndoneAsTold`). The calls go to an instance of `RebuildService`,
which `Implementation` shows the helper to implement. A failed action is undone relative
to what it found, long ago and before other tasks, so the properties need to know what
that was. `IInv` adds *CallsInOrder* (where a task stands tells how far its two calls
have come), *OnRecord* (what a generation or a confirmed edit was made from), *OwnView*
(for a task nobody disturbs, file and profile are what its own steps made of them, at
each place) and *AsFound* (while no task was disturbed, broken off or left without an
answer, and no rollback failed, a system at rest is what its file describes, and that is
what the next task finds). The last is the induction over actions one after the other:
each begins with what the one before it left.

**`AutofixProofs`**: `TypeCorrect`; `NeverLoops` (`LoopGuard`); `ActsOnNewFailures`
(`OnlyNewFailuresAreHandled`). `LoopGuard` is about windows that can be read back
whole, and a row that ages out may make such a window of one that was not. What is
inductive is *CountHolds*: the restarts the engine counts, those among the newest
`Limit` rows of a name, are within `MaxAttempts` and what was decided `blind`, one that
is owed included. Ageing
takes rows from the other end and a new row can only push counted ones out. For the
second theorem *FailuresAreKnown* says that a failed unit has been seen or armed, also
in the middle of the two listings.

**`DispatchProofs`**: `TypeCorrect`; `NothingUnagreed` (`ConsentFirst`);
`EveryTurnIsAnswered` (`TurnsAreAnswered`); `OneTerminalUnlessStalled`
(`SecondTerminalNeedsStall`). `IInv` says of each query what it has been sent by how
far its end has come, that one at a prompt knows which, and that one at a prompt which
only comes beyond the device was allowed to leave it: a yes and a no to `use_local` may
both lead to the remote chain, so consent must be known before the answer.
`KeepsTheChain` (`Dispatch` implements `RemoteChain` under `Phase` and `Gone`) needs two
more: *Locked*, that one query of a session has the lock, for `Enter`; and *Attended*,
that a prompt and what was agreed to at one do not outlive the connection, for `Yes` and
`Leave`. Every step but a disconnect moves one query (`OneGoes`), and of the many ways it
may move only the few of `Promised` change its phase. `WaitsEndWithTheClient` states what
follows for the daemon: one query of a conversation at a time, and nobody at a prompt of,
or awaiting a rebuild for, a client that has left. It says nothing of the helper, where
the rebuild runs on.

**`TimelineProofs`**: `TypeCorrect`; `RecordAlternates` (`TransitionsAlternate`);
`NothingIsSkipped` (`PagesAreComplete`); `NothingIsHidden` (`StreakIsNotFlattered`). The
three facts meet only in the table. *RecordFollows* says what the timeline should say
last of a unit: what was seen of it, unless the one task that writes (*Writers*) has
already written that it changed; a row that says otherwise is followed by one that
says so. A `Write` says the opposite of the last word, which is why rows alternate, and
`Finish`, a lost row, a cut connection and a restart keep it or blemish the unit. Old
rows may go because ids and times agree while the clock goes forward (*Chronological*).
*WalkIsComplete*: the client has every row from its cursor on, none twice, and once a
query of its own failed, every one that is newer than some it has; a page takes
with a row every newer one and is short only if nothing is left (`RecentReturns`,
`PageIsCut`), for which the one extra row and a page below the cap are needed.
*TallyIsHonest*: a row that was due, is still there and whose query has been read in full
is counted. The order of the reads does not matter, nor do rows that arrive in between.
These rest on lemmas that a finite set of rows has a newest and an oldest row and a
finite set of numbers a maximum (`SomethingIsFirst`).

**`ClientProofs`**, of the hub: `TypeCorrect` (with the bound of the register);
`OnlyTheUserAnswers` (`AnswersAreReal`). The answer crosses four hands, card, posts,
queue and socket, and `IInv` follows it per stream: at most one confirm is out and the
card follows it (*OneConfirm*, *CardFollows*), one click gives one answer (*OneAnswer*),
what is on the wire was given (*SentAsGiven*), and until Stop is pressed thread and
daemon take turns (*Undisturbed*), so an answer meets the prompt it was given to. After
a Stop only the weaker half is left, as the property says.

Of the tray: `TrayTypeCorrect` (`TrayTypeOK`); `OnlyNeededRestarts`
(`RestartsWereNeeded`). `Tray`'s specification has names of its own (`TraySpec`, ...), so
one module can extend both. That a listing is a sequence of units rests on the fact that
a finite set of numbers can be put in order (`Ranking`), each at the place that the count
of the smaller ones gives it; no induction over the set is needed. `InOrder` chooses the
ascending sequence for that. For the second theorem *SeenFailing* is added: a request
whose unit is failing before the daemon has looked is needed, and so is every one that
passed the look (`StillFailing`). The click itself promises nothing, as the row or the
page may be of any age; units may recover and fail again between the click, the look and
the restart, and `needed` only ever becomes true.

**`AgentProofs`**: `TypeCorrect`; `SwitchTested` (`SwitchIsTested`); `ReviewedOnly`
(`OnlyReviewedLeaves`). The gate reads the mark, and the prompt lies between that and
the switch. `IInv` adds *SessionLock* (one query of a session runs at a time),
*GateHolds* (a switch that waits for its yes or runs has its session's mark set) and
*MarkIsTrue* (the mark is what the last test reported). The step that could break it is
another query's failed test, and `StepsAlone` shows that the query that takes a step is
alone in its session. The privacy theorem needs *NoContext*: an escalated query never
awaits the context. `KeepsTheChain` and `WaitsEndWithTheClient` are those of `Dispatch`, by
the same plan; here the lock is *SessionLock*, and that no task awaits a rebuild for a
client that has gone is proved of `mute` along with the refinement.

**`LifecycleProofs`**: `TypeCorrect`; `NoneIsForgotten`
(`OnlyStubbornTasksOutliveTheStore`); `NobodyAsksTheGone` (`PromptsEndWithTheirClient`).
Both rest on where tasks may come from: *ShutSetsAreTold* (what lives in a set that is
closing was cancelled), *StagesShut* (how far `aclose` has come tells which sets are),
*OwnersCame* and *OnlyClientsAsk*.

What stays with TLC: liveness (`RequestsEnd`, `ConfirmedActionsEnd`,
`NewFailuresAreAnswered`, `QueriesEnd`, `AbandonedStreamsEnd`, `LostQueriesEnd`,
`ViewSettles`, `IconReturns`, `ShutdownEnds`), which needs fairness. `RemoteChain` is
the other way round: its two refinements are proved and no run checks them.

## Where code and documents differ

Each violation run checks one sentence of a comment or document; the findings in
`PROJECT.json` quote it. The other findings came up while modelling. The models take
the code's side: they have the steps the findings speak of, and the properties say
what holds all the same. The ones that shape a property:

* a crash of the helper forgets its lock: two rebuilds of one *incarnation* never run
  together (`OneLiveRebuildPerIncarnation`);
* a rollback may land on an earlier failed generation, and a switch whose call is given
  up may end later: `UndoneAsTold` speaks of actions that ran alone and whose switch is
  over;
* a cancel, or a status that a client does not take, ends an action without its cleanup:
  `UndoneAsTold` speaks of the results that claim one, and `MixedIsAccountedFor` and
  `FileDescribesSystem` name these ends (`BrokeOff`);
* a query of the store that fails is answered with no events: the guard allows one more
  restart for each (`LoopGuard`), a page looks like the last one (`PagesAreComplete`), and
  the ledger misses what it did not read (`StreakIsNotFlattered`);
* a terminal message whose drain times out is followed by a second one: in no other case
  (`SecondTerminalNeedsStall`);
* a model may hold its session for ever: the daemon by itself does not (`QueriesEnd`);
* a registration that fails while the watcher is there is not tried again before the next
  change of owner (`IconReturns`);
* listings are compared in another order than they were taken: transitions alternate
  (`TransitionsAlternate`) but need not have happened;
* pages are ordered by time and cut by id: complete only while the clock does not go
  back and below the cap (`PagesAreComplete`);
* a stop may overtake an answer, which may then meet the next prompt: still one the
  user gave (`AnswersAreReal`);
* a prompt takes the end of its connection for a no: a query whose page or stream is
  gone ends, or goes on without a connection (`AbandonedStreamsEnd`, `LostQueriesEnd`);
* a stale menu row may be another unit's: still one that was failing
  (`RestartsWereNeeded`);
* a request that arrives while its connection closes outlives it: never at a prompt
  (`PromptsEndWithTheirClient`).

## Not modelled

* Text: queries, journals, redaction's expressions, rendering, the models' answers, the
  framing of messages, the handshake's versions. Messages and texts are model values.
* The context cache's ages and the bounds on prefetched text (`context.py`,
  `prefetch.py`): a text that is late or short changes no control.
* The tally of the ledger's window and its wording; only the streak's begin is modelled.
* The hub's pages and assets, its token and header checks and its URL file; one
  request's pure functions and I/O.
* The CLI and the overlay, clients with one query at a time; configuration, registry,
  SDK and modules, which are read once at the start; logging and counters; history,
  which is null in this version; drawing.
* Worktree housekeeping (`prune_abandoned_worktrees`): a sweep over the file system.
* A helper that cannot spawn `systemctl`, `journalctl` or `systemd-run` at all raises
  and frees the lock; the tools are taken to be there. A `systemd-run` that reports a
  failure is taken to leave no running unit. The order in which the file is read as a
  rebuild starts is one step, as nix copies the flake before it evaluates it. A
  hand-made `nixos-rebuild` beside the helper's is not modelled.
* The sharing of one transport's buffer: in `Lifecycle` a prompt to a connection that is
  closing fails at once, where the code's send may first fill what the buffer has left.
* In `Lifecycle`, the autofix task, which `aclose` cancels first, and what
  `asyncio.Server` waits for before `aclose` is reached (see the findings).
* Two queries with one id: every client of the repository draws fresh ones.

## Plan

1. `Lifecycle` shown to implement the store that `Timeline` writes to, and `Dispatch` the
   daemon that `Web` assumes.
2. Worktree housekeeping and the context cache.
