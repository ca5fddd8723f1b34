------------------------------ MODULE Dispatch ------------------------------
(***************************************************************************)
(* The life of a query in the daemon: the connection that brings it        *)
(* (connections.ClientConn, ConnectionManager), the session lock it waits  *)
(* for (server._dispatch), its routing (routing.resolve, _apply_decision,  *)
(* _offer_escalation), its prompts, and the terminal message that ends it; *)
(* with cancels, disconnects and clients that stop reading.                *)
(*                                                                         *)
(*   new -> queued -> deciding -> assessing -> local, remote               *)
(*     -> asking -> ... -> acting, answering [-> draining] -> ended        *)
(*                                                                         *)
(* Cancelling a task is atomic here: its next step can only be the         *)
(* CancelledError, whatever had woken it before.                           *)
(***************************************************************************)
EXTENDS Naturals

CONSTANTS
  Queries,
  Conns, ConnOf,       \* the connection a query comes in on
  Sessions, SessionOf  \* the conversation it names

ASSUME OriginAssumption ==
  ConnOf \in [Queries -> Conns] /\ SessionOf \in [Queries -> Sessions]

VARIABLES
  pc, wants,   \* per query: where its task stands, what it asks for
  why, said,   \* per query: its pending prompt, the answer delivered for it
  agreed,      \* per query: the prompts its user said yes to
  sent,        \* per query: the terminal messages written to its connection
  ahead,       \* per query: those before it in line for their session's lock
  closed, stalled,          \* connections closed; those whose peer does not read
  localReady, remoteReady   \* the daemon's view of its two chains

locals == <<wants, why, said, agreed>>
links   == <<closed, stalled>>
chains  == <<localReady, remoteReady>>
vars == <<pc, locals, sent, ahead, links, chains>>

Running == {"deciding", "assessing", "local", "remote", "asking", "warming",
            "acting", "answering", "draining", "flushing"}
Sending == {"deciding", "assessing", "local", "remote", "acting", "answering"}
Leaving == {"escalate_change", "escalate_read", "use_remote"}
Prompt  == Leaving \cup {"act", "use_local", "rebuild"}

TypeOK ==
  /\ pc \in [Queries -> Running \cup {"new", "queued", "ended"}]
  /\ wants \in [Queries -> {"none", "action", "change", "local", "remote"}]
  /\ why \in [Queries -> Prompt \cup {"none"}]
  /\ said \in [Queries -> {"none", "yes", "no"}]
  /\ agreed \in [Queries -> SUBSET Prompt]
  /\ sent \in [Queries -> 0..2]
  /\ ahead \in [Queries -> SUBSET Queries]
  /\ closed \in SUBSET Conns
  /\ stalled \in SUBSET Conns
  /\ localReady \in BOOLEAN /\ remoteReady \in BOOLEAN

\* Whether the remote chain is usable is settled as the daemon starts.
Init ==
  /\ pc = [q \in Queries |-> "new"]
  /\ wants = [q \in Queries |-> "none"]
  /\ why = [q \in Queries |-> "none"]
  /\ said = [q \in Queries |-> "none"]
  /\ agreed = [q \in Queries |-> {}]
  /\ sent = [q \in Queries |-> 0]
  /\ ahead = [q \in Queries |-> {}]
  /\ closed = {} /\ stalled = {}
  /\ localReady = FALSE /\ remoteReady \in BOOLEAN

Open(q) == ConnOf[q] \notin closed
Reads(q) == ConnOf[q] \notin stalled
InFlight(q) == pc[q] \in Running
SessionFree(q) == \A u \in Queries : SessionOf[u] = SessionOf[q] => ~InFlight(u)

\* What a task knows as long as it needs it: its locals die with it.
Alive(u) == pc'[u] \notin {"ended", "draining", "flushing"}

ForgetRequests == wants' = [u \in Queries |-> IF Alive(u) THEN wants[u] ELSE "none"]

ForgetPrompts ==
  /\ why' = [u \in Queries |-> IF pc'[u] \in {"asking", "acting"} THEN why[u] ELSE "none"]
  /\ said' = [u \in Queries |-> IF pc'[u] = "asking" THEN said[u] ELSE "none"]

KeepLocals ==
  /\ ForgetRequests
  /\ ForgetPrompts
  /\ agreed' = [u \in Queries |-> IF Alive(u) THEN agreed[u] ELSE {}]

Goto(q, from, to) ==
  /\ pc[q] = from
  /\ pc' = [pc EXCEPT ![q] = to]

-----------------------------------------------------------------------------
(* Arrival, and the session's lock.                                        *)

\* A query message: its task is spawned and waits for the lock in turn.
Submit(q, what) ==
  /\ Open(q)
  /\ Goto(q, "new", "queued")
  /\ wants' = [wants EXCEPT ![q] = what]
  /\ ahead' = [ahead EXCEPT ![q] =
                 {u \in Queries : pc[u] = "queued" /\ SessionOf[u] = SessionOf[q]}]
  /\ UNCHANGED <<why, said, agreed, sent, links, chains>>

\* The line moves up as a task gets the lock or stops waiting for it.
LineMovesUp ==
  ahead' = [u \in Queries |-> IF pc'[u] = "queued" THEN {v \in ahead[u] : pc'[v] = "queued"}
                                                ELSE {}]

FirstOfSession(q) == ahead[q] = {}

Enter(q) ==
  /\ SessionFree(q) /\ FirstOfSession(q)
  /\ Goto(q, "queued", "deciding")
  /\ LineMovesUp
  /\ UNCHANGED <<locals, sent, links, chains>>

-----------------------------------------------------------------------------
(* Routing.                                                                *)

Rest == UNCHANGED <<sent, ahead, links, chains>>

Becomes(q, from, to) ==
  Goto(q, from, to) /\ KeepLocals /\ Rest

\* conn.confirm: the prompt is written and its future made.
Asks(q, from, prompt) ==
  /\ Open(q)
  /\ Goto(q, from, "asking")
  /\ why' = [why EXCEPT ![q] = prompt]
  /\ said' = [said EXCEPT ![q] = "none"]
  /\ UNCHANGED <<wants, agreed>>
  /\ Rest

\* Restart a unit, install an app: something to confirm, or nothing to do.
DecideAction(q) ==
  /\ wants[q] = "action"
  /\ Asks(q, "deciding", "act") \/ Becomes(q, "deciding", "answering")

\* An open-ended change: only the remote chain could make it.
DecideChange(q) ==
  /\ wants[q] = "change"
  /\ IF remoteReady THEN Asks(q, "deciding", "escalate_change")
                    ELSE Becomes(q, "deciding", "answering")

DecideRemote(q) ==
  /\ wants[q] = "remote"
  /\ \/ remoteReady /\ Becomes(q, "deciding", "remote")
     \/ ~remoteReady /\ localReady /\ Asks(q, "deciding", "use_local")
     \/ ~remoteReady /\ ~localReady /\ Becomes(q, "deciding", "answering")

DecideLocal(q) ==
  /\ wants[q] = "local"
  /\ \/ localReady /\ Becomes(q, "deciding", "assessing")
     \/ ~localReady /\ remoteReady /\ Asks(q, "deciding", "use_remote")
     \/ ~localReady /\ ~remoteReady /\ Becomes(q, "deciding", "warming")

LocalComesUp(q) == localReady /\ Becomes(q, "warming", "assessing")

\* The local model answers, or doubts that it can.
Assess(q) ==
  \/ Becomes(q, "assessing", "local")
  \/ remoteReady /\ Asks(q, "assessing", "escalate_read")

\* The remote agent calls its rebuild tool: switch and boot are confirmed.
AsksRebuild(q) == Asks(q, "remote", "rebuild")

-----------------------------------------------------------------------------
(* Prompts.                                                                *)

\* A respond message; one for a prompt already answered or gone is ignored.
Respond(q, answer) ==
  /\ Open(q)
  /\ pc[q] = "asking" /\ said[q] = "none"
  /\ said' = [said EXCEPT ![q] = answer]
  /\ UNCHANGED <<pc, wants, why, agreed, sent, ahead, links, chains>>

AfterYes(prompt) ==
  IF prompt \in {"act", "rebuild"} THEN "acting" ELSE "remote"

AfterNo(prompt) ==
  CASE prompt \in {"act", "escalate_change"} -> "answering"
    [] prompt = "escalate_read" -> "local"
    [] prompt = "rebuild" -> "remote"
    [] OTHER -> IF localReady THEN "assessing" ELSE "warming"

ReadAnswer(q) ==
  /\ said[q] # "none"
  /\ Goto(q, "asking", IF said[q] = "yes" THEN AfterYes(why[q]) ELSE AfterNo(why[q]))
  /\ agreed' = [agreed EXCEPT ![q] = IF said[q] = "yes" THEN @ \cup {why[q]} ELSE @]
  /\ ForgetRequests /\ ForgetPrompts
  /\ Rest

\* The rebuild tool's result goes back to the agent; the next one asks again.
RebuildReturns(q) ==
  /\ why[q] = "rebuild"
  /\ Goto(q, "acting", "remote")
  /\ agreed' = [agreed EXCEPT ![q] = @ \ {"rebuild"}]
  /\ ForgetRequests /\ ForgetPrompts
  /\ Rest

-----------------------------------------------------------------------------
(* The end of a turn.                                                      *)

\* Done with an answer, or failing anywhere on the way to one: write a terminal
\* message and await its drain, which a peer that does not read holds up.
Finish(q) ==
  /\ pc[q] \in Sending /\ Open(q)
  /\ sent' = [sent EXCEPT ![q] = @ + 1]
  /\ pc' = [pc EXCEPT ![q] = IF Reads(q) THEN "ended" ELSE "draining"]
  /\ KeepLocals
  /\ UNCHANGED <<ahead, links, chains>>

DrainEnds(q) ==
  /\ Reads(q)
  /\ \/ Becomes(q, "draining", "ended")
     \/ Becomes(q, "flushing", "ended")

\* Mutant: an error message that times out is reported as well.
DrainTimesOutAlike(q) ==
  /\ ~Reads(q)
  /\ \/ Goto(q, "draining", "flushing")
     \/ Goto(q, "flushing", "ended")
  /\ sent' = [sent EXCEPT ![q] = @ + 1]
  /\ KeepLocals
  /\ UNCHANGED <<ahead, links, chains>>

\* CLIENT_SEND_TIMEOUT_S: the send raises, in the query or in its handler.  The
\* query's own failure is reported by one more message; the handler's is not.
DrainTimesOut(q) ==
  /\ ~Reads(q)
  /\ \/ Goto(q, "draining", "flushing") /\ sent' = [sent EXCEPT ![q] = @ + 1]
     \/ Goto(q, "flushing", "ended") /\ UNCHANGED sent
  /\ KeepLocals
  /\ UNCHANGED <<ahead, links, chains>>

\* A status, a delta or a prompt is not read in time: an error message is written,
\* and its drain awaited in turn.
SendTimesOut(q) ==
  /\ pc[q] \in Sending /\ Open(q) /\ ~Reads(q)
  /\ pc' = [pc EXCEPT ![q] = "flushing"]
  /\ sent' = [sent EXCEPT ![q] = @ + 1]
  /\ KeepLocals
  /\ UNCHANGED <<ahead, links, chains>>

\* The connection is gone: the first thing the task sends raises, and so does its
\* error message.
SendRaises(q) ==
  /\ pc[q] \in Sending /\ ~Open(q)
  /\ pc' = [pc EXCEPT ![q] = "ended"]
  /\ KeepLocals /\ Rest

-----------------------------------------------------------------------------
(* Cancelling: task.cancel() on a query's task.                            *)

\* Mutant: a yes that the cancel overtook still counts.
AfterCancelHonouring(q) ==
  IF pc[q] # "asking" THEN "ended"
  ELSE IF said[q] = "yes" THEN AfterYes(why[q]) ELSE AfterNo(why[q])

\* A task waiting for the lock just ends.  A pending prompt swallows the cancel
\* and reads as "no".  Anything else sends a done and ends.
AfterCancel(q) ==
  IF pc[q] = "asking" THEN AfterNo(why[q])
  ELSE IF pc[q] \in {"queued", "flushing"} \/ Reads(q) THEN "ended" ELSE "flushing"

\* Mutant: a cancelled query ends without a word.
MuteAlways == Running \cup {"queued"}

\* The states in which a cancel is not answered by a done.
Mute == {"asking", "flushing", "queued"}

Cancel(q) ==
  /\ Open(q)
  /\ InFlight(q) \/ pc[q] = "queued"
  /\ pc' = [pc EXCEPT ![q] = AfterCancel(q)]
  /\ sent' = [sent EXCEPT ![q] = IF pc[q] \in Mute THEN @ ELSE @ + 1]
  /\ LineMovesUp
  /\ KeepLocals
  /\ UNCHANGED <<links, chains>>

\* Mutant: a pending prompt outlives its connection.
DisconnectLeavesPrompts(c) ==
  /\ c \notin closed
  /\ closed' = closed \cup {c}
  /\ LET mine == {q \in Queries : ConnOf[q] = c /\ (InFlight(q) \/ pc[q] = "queued")}
     IN  pc' = [q \in Queries |->
                 IF q \in mine /\ pc[q] # "asking" THEN "ended" ELSE pc[q]]
  /\ LineMovesUp
  /\ KeepLocals
  /\ UNCHANGED <<sent, stalled, chains>>

\* EOF, a failed broadcast, or a task that a failed send ended: every task of the
\* connection is cancelled.
Disconnect(c) ==
  /\ c \notin closed
  /\ closed' = closed \cup {c}
  /\ LET mine == {q \in Queries : ConnOf[q] = c /\ (InFlight(q) \/ pc[q] = "queued")}
     IN  pc' = [q \in Queries |->
                 IF q \notin mine THEN pc[q]
                 ELSE IF pc[q] = "asking" THEN AfterNo(why[q]) ELSE "ended"]
  /\ LineMovesUp
  /\ KeepLocals
  /\ UNCHANGED <<sent, stalled, chains>>

-----------------------------------------------------------------------------
(* The peers, and the local model's readiness loop.                        *)

StopReading(c) ==
  /\ c \notin closed \cup stalled
  /\ stalled' = stalled \cup {c}
  /\ UNCHANGED <<pc, locals, sent, ahead, closed, chains>>

ReadOn(c) ==
  /\ c \in stalled
  /\ stalled' = stalled \ {c}
  /\ UNCHANGED <<pc, locals, sent, ahead, closed, chains>>

LocalChanges ==
  /\ localReady' = ~localReady
  /\ UNCHANGED <<pc, locals, sent, ahead, links, remoteReady>>

TaskStep(q) ==
  \/ Enter(q)
  \/ DecideAction(q)
  \/ DecideChange(q)
  \/ DecideRemote(q)
  \/ DecideLocal(q)
  \/ LocalComesUp(q)
  \/ Assess(q)
  \/ AsksRebuild(q)
  \/ ReadAnswer(q)
  \/ RebuildReturns(q)
  \/ Finish(q)
  \/ DrainEnds(q)
  \/ DrainTimesOut(q)
  \/ SendTimesOut(q)
  \/ SendRaises(q)

ClientStep(q) ==
  \/ \E what \in {"action", "change", "local", "remote"} : Submit(q, what)
  \/ \E answer \in {"yes", "no"} : Respond(q, answer)
  \/ Cancel(q)

Next ==
  \/ \E q \in Queries : TaskStep(q) \/ ClientStep(q)
  \/ \E c \in Conns : Disconnect(c) \/ StopReading(c) \/ ReadOn(c)
  \/ LocalChanges

Spec == Init /\ [][Next]_vars

\* A query whose answer a model is at: nothing bounds the turns of the remote agent's loop
\* or the length of a local answer.
InConversation(q) == pc[q] \in {"local", "remote"}

\* The daemon's event loop runs every task, and its other calls to models, processes and
\* the helper have timeouts.  Nobody need answer a prompt, the local model need not come
\* up, and a conversation with a model need not end.
FairSpec == Spec /\ \A q \in Queries : WF_vars(~InConversation(q) /\ TaskStep(q))

-----------------------------------------------------------------------------
(* What the daemon must get right.                                         *)

\* Nothing leaves the device, and nothing is changed on it, unless the user asked
\* for the remote chain or said yes to the prompt for it; a yes that a cancel or
\* a disconnect overtook does not count.
ConsentFirst ==
  \A q \in Queries :
    /\ pc[q] = "remote" => wants[q] = "remote" \/ agreed[q] \cap Leaving # {}
    /\ pc[q] = "acting" => why[q] \in agreed[q]

\* A query that had its turn ends with a terminal message, or with its connection.
TurnsAreAnswered ==
  [][\A q \in Queries : InFlight(q) /\ ~InFlight(q)' => sent'[q] > 0 \/ ~Open(q)']_vars

\* The protocol has exactly one terminal message end a turn and no message follow it; the
\* code writes another when the drain of the first times out. This says that it does so in
\* no other case: a second terminal message is written only while the first one has yet to
\* leave for a client that stopped reading.
SecondTerminalNeedsStall ==
  [][\A q \in Queries : sent'[q] > sent[q] /\ sent[q] > 0 => pc[q] = "draining"]_vars

\* A prompt of a client that is still there, or a model: its load, its answer.
WaitsForSomeone(q) ==
  InConversation(q) \/ pc[q] = "warming" \/ (pc[q] = "asking" /\ Open(q))

\* The daemon itself wedges no session: every query ends unless one of its session waits
\* for its user or for a model, again and again. No cancel, disconnect or stall leaves
\* the session's lock taken or its line standing, and no task stays at a prompt that
\* nobody can answer. That a model may hold a session for ever it does not exclude.
QueriesEnd ==
  \A q \in Queries :
    pc[q] # "new" ~>
      \/ pc[q] = "ended"
      \/ \E u \in Queries : SessionOf[u] = SessionOf[q] /\ WaitsForSomeone(u)
=============================================================================
