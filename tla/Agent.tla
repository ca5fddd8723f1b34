------------------------------- MODULE Agent --------------------------------
(***************************************************************************)
(* The remote chain (server._run_remote, llm/remote.run) and the safety    *)
(* gate its rebuild tool goes through (safety.SafetyGate.rebuild): a model *)
(* that asks for tools round after round, tools that run on the machine, a *)
(* prompt before what changes it, the session's memory of its last test,   *)
(* and what of the machine ends up in the conversation with the provider.  *)
(*                                                                         *)
(*   new -> gathering -> model -> calling -> fetch, helper, prompt         *)
(*                         ^----------------------'         -> ended       *)
(*                                                                         *)
(* The provider's replies and the outcomes of the tools are inputs. A turn *)
(* asks for at most MaxCalls tools, a query has at most MaxRounds turns    *)
(* with tools (the code bounds neither).                                   *)
(***************************************************************************)
EXTENDS Naturals, Sequences

CONSTANTS Queries, Sessions, MaxRounds, MaxCalls

ASSUME AgentBounds == MaxRounds \in Nat /\ MaxCalls \in Nat \ {0}

VARIABLES
  session, escalated,  \* the conversation a query names; the escalated queries
  pc,        \* per query: where its task stands
  calls,     \* per query: the tool calls of the turn that have no result yet
  rounds,    \* per query: turns with tools so far
  texts,     \* per query: the kinds of text its messages to the provider hold
  testOk,    \* the sessions whose SessionState.last_test_ok is set
  passed,    \* the sessions whose last test to report exited zero
  stopped,   \* the queries cancelled, or whose client left
  mute       \* the queries whose connection is closed

vars == <<session, escalated, pc, calls, rounds, texts, testOk, passed, stopped, mute>>
given == <<session, escalated>>
user  == <<stopped, mute>>
gate  == <<testOk, passed>>

Rebuilds == {"test", "switch", "boot", "revert"}
Calls == Rebuilds \cup {"fetch", "unknown", "invalid"}
Awaiting == {"gathering", "model", "fetch", "helper", "prompt"}
Running == Awaiting \cup {"calling"}
Texts == {"query", "redacted", "context", "raw", "scrubbed"}

\* The calls of a turn are answered before the model is asked again, and a
\* prompt or a rebuild belongs to the call at the head.
TypeOK ==
  /\ session \in [Queries -> Sessions] /\ escalated \in SUBSET Queries
  /\ pc \in [Queries -> Running \cup {"new", "ended"}]
  /\ calls \in [Queries -> Seq(Calls)]
  /\ rounds \in [Queries -> 0..MaxRounds]
  /\ texts \in [Queries -> SUBSET Texts]
  /\ {testOk, passed} \subseteq SUBSET Sessions
  /\ {stopped, mute} \subseteq SUBSET Queries
  /\ \A q \in Queries :
       /\ (calls[q] # <<>>) = (pc[q] \in {"calling", "fetch", "helper", "prompt"})
       /\ pc[q] = "helper" => Head(calls[q]) \in Rebuilds
       /\ pc[q] = "prompt" => Head(calls[q]) \in {"switch", "boot"}

Init ==
  /\ session \in [Queries -> Sessions]
  /\ escalated \in SUBSET Queries
  /\ pc = [q \in Queries |-> "new"]
  /\ calls = [q \in Queries |-> <<>>]
  /\ rounds = [q \in Queries |-> 0]
  /\ texts = [q \in Queries |-> {}]
  /\ testOk = {} /\ passed = {} /\ stopped = {} /\ mute = {}

\* Mutant: the session's lock is not taken.
NoLock(q) == TRUE

\* The per-session lock (_dispatch): one query of a session at a time.
SessionFree(q) == \A u \in Queries : session[u] = session[q] => pc[u] \notin Running

Goto(q, from, to) == pc[q] = from /\ pc' = [pc EXCEPT ![q] = to]

\* The task is over: its messages are dropped.
Ends(q) ==
  /\ pc' = [pc EXCEPT ![q] = "ended"]
  /\ calls' = [calls EXCEPT ![q] = <<>>]
  /\ texts' = [texts EXCEPT ![q] = {}]
  /\ rounds' = [rounds EXCEPT ![q] = 0]

Sends(q, kind) == texts' = [texts EXCEPT ![q] = @ \cup {kind}]

-----------------------------------------------------------------------------
(* The conversation.                                                       *)

\* Mutant: an escalated query sends the assembled context too.
OpeningInContext(q) ==
  /\ Goto(q, "new", "gathering")
  /\ Sends(q, IF q \in escalated THEN "redacted" ELSE "query")

\* An escalated query takes neither context nor history, a direct one awaits
\* the providers (there is no history: the one backend keeps nothing).
Opening(q) ==
  IF q \in escalated
  THEN Goto(q, "new", "model") /\ Sends(q, "redacted")
  ELSE Goto(q, "new", "gathering") /\ Sends(q, "query")

Start(q) ==
  /\ SessionFree(q)
  /\ Opening(q)
  /\ UNCHANGED <<calls, rounds, given, gate, user>>

Gathered(q) ==
  /\ Goto(q, "gathering", "model")
  /\ Sends(q, "context")
  /\ UNCHANGED <<calls, rounds, given, gate, user>>

\* A turn without tools is the answer; a provider's error ends the query; so
\* does the first delta of text for a connection that is closed.
Answered(q) ==
  /\ pc[q] = "model"
  /\ Ends(q)
  /\ UNCHANGED <<given, gate, user>>

\* Fragments are merged by index into the turn's calls (_accumulate_tool_call).
Turn(q, wanted) ==
  /\ Goto(q, "model", "calling")
  /\ rounds[q] < MaxRounds
  /\ calls' = [calls EXCEPT ![q] = wanted]
  /\ rounds' = [rounds EXCEPT ![q] = @ + 1]
  /\ UNCHANGED <<texts, given, gate, user>>

-----------------------------------------------------------------------------
(* The tools.                                                              *)

Wants(q, call) == pc[q] = "calling" /\ Head(calls[q]) = call

\* Mutant: the calls left are forgotten once one had a result.
NextRound(q) ==
  pc' = [pc EXCEPT ![q] = "model"] /\ calls' = calls

\* The next call of the turn, or the next round.
NextCall(q) ==
  /\ calls' = [calls EXCEPT ![q] = Tail(@)]
  /\ pc' = [pc EXCEPT ![q] = IF Len(calls[q]) > 1 THEN "calling" ELSE "model"]

\* run_tool: what a tool prints is scrubbed for an escalated query.
ResultText(q) == IF q \in escalated THEN "scrubbed" ELSE "raw"

\* A result is a message to the provider.
Result(q) ==
  /\ Sends(q, ResultText(q))
  /\ NextCall(q)
  /\ UNCHANGED <<rounds, given>>

\* A fixed text: an unknown tool, arguments that are not JSON, a refusal.
Remark(q) ==
  /\ NextCall(q)
  /\ UNCHANGED <<texts, rounds, given, gate, user>>

UnknownTool(q) == Wants(q, "unknown") /\ Remark(q)

\* An action outside the enumeration, arguments that are no object.
InvalidCall(q) ==
  /\ Wants(q, "invalid")
  /\ Ends(q)
  /\ UNCHANGED <<given, gate, user>>

Fetch(q) ==
  /\ Wants(q, "fetch")
  /\ Goto(q, "calling", "fetch")
  /\ UNCHANGED <<calls, rounds, texts, given, gate, user>>

Fetched(q) ==
  /\ pc[q] = "fetch"
  /\ Result(q)
  /\ UNCHANGED <<gate, user>>

Untested(q) ==
  /\ Wants(q, "switch")
  /\ session[q] \notin testOk
  /\ Remark(q)

\* The prompt needs a connection that can be written to.
Ask(q) ==
  /\ Wants(q, "boot") \/ (Wants(q, "switch") /\ session[q] \in testOk)
  /\ IF q \in mute
     THEN Ends(q)
     ELSE /\ Goto(q, "calling", "prompt")
          /\ UNCHANGED <<calls, rounds, texts>>
  /\ UNCHANGED <<given, gate, user>>

\* test and revert go to the helper at once, switch and boot after a yes.
Rebuild(q) ==
  /\ Wants(q, "test") \/ Wants(q, "revert")
  /\ Goto(q, "calling", "helper")
  /\ UNCHANGED <<calls, rounds, texts, given, gate, user>>

SayYes(q) ==
  /\ q \notin mute
  /\ Goto(q, "prompt", "helper")
  /\ UNCHANGED <<calls, rounds, texts, given, gate, user>>

SayNo(q) ==
  /\ q \notin mute
  /\ pc[q] = "prompt"
  /\ Remark(q)

\* What the session remembers of a rebuild that reported an exit status.
Record(q, ok) ==
  LET mark(set) == IF Head(calls[q]) # "test" THEN set
                   ELSE IF ok THEN set \cup {session[q]}
                   ELSE set \ {session[q]}
  IN testOk' = mark(testOk) /\ passed' = mark(passed)

Rebuilt(q, ok) ==
  /\ pc[q] = "helper"
  /\ Record(q, ok)
  /\ Result(q)
  /\ UNCHANGED user

\* The helper refuses, breaks off or times out (SafetyError): no status, and
\* nothing is recorded.
NoStatus(q) ==
  /\ pc[q] = "helper"
  /\ Ends(q)
  /\ UNCHANGED <<given, gate, user>>

-----------------------------------------------------------------------------
(* The user goes.                                                          *)

\* A cancelled await ends the task, but for the prompt's, which takes it for a
\* no (ClientConn._await_response): the loop goes on.
Interrupt(q) ==
  IF pc[q] = "prompt"
  THEN NextCall(q) /\ UNCHANGED <<texts, rounds>>
  ELSE Ends(q)

Cancel(q) ==
  /\ pc[q] \in Awaiting
  /\ q \notin mute
  /\ Interrupt(q)
  /\ stopped' = stopped \cup {q}
  /\ UNCHANGED <<mute, given, gate>>

\* The connection is closed: its tasks are cancelled, once.
Leave(q) ==
  /\ pc[q] \in Awaiting
  /\ q \notin mute
  /\ Interrupt(q)
  /\ stopped' = stopped \cup {q}
  /\ mute' = mute \cup {q}
  /\ UNCHANGED <<given, gate>>

-----------------------------------------------------------------------------
Turns == UNION {[1..n -> Calls] : n \in 1..MaxCalls}

ToolStep(q) ==
  \/ UnknownTool(q) \/ InvalidCall(q) \/ Untested(q) \/ Ask(q)
  \/ Fetch(q) \/ Fetched(q)
  \/ Rebuild(q) \/ NoStatus(q) \/ (\E ok \in BOOLEAN : Rebuilt(q, ok))

ChainStep(q) ==
  \/ Start(q) \/ Gathered(q) \/ Answered(q) \/ ToolStep(q)
  \/ \E wanted \in Turns : Turn(q, wanted)

UserStep(q) == SayYes(q) \/ SayNo(q) \/ Cancel(q) \/ Leave(q)

Next == \E q \in Queries : ChainStep(q) \/ UserStep(q)

Spec == Init /\ [][Next]_vars

\* Tools end by their timeouts and the provider's requests by the library's.
FairSpec == Spec /\ \A q \in Queries : WF_vars(ChainStep(q))

-----------------------------------------------------------------------------
(* Properties.                                                             *)

\* While a switch runs for a session, the session's last test that reported
\* passed: the gate reads the mark before the prompt and the switch starts
\* after it, and no other query of the session tests in between.
SwitchIsTested ==
  \A q \in Queries :
    pc[q] = "helper" /\ Head(calls[q]) = "switch" => session[q] \in passed

\* What leaves the device for an escalated query is the redacted text its user
\* reviewed and scrubbed results: no context, nothing a tool printed as it was
\* (server._run_remote's docstring).
OnlyReviewedLeaves ==
  \A q \in escalated : texts[q] \subseteq {"redacted", "scrubbed"}

\* Violated: a query that was cancelled, or whose client left, starts no tool
\* any more (docs/nixadmin-v3-spec.md:97: cancel "stops the agent loop"). At a
\* prompt the cancel is taken for a no, and the model may go on to revert.
CancelStopsTheLoop ==
  [][\A q \in stopped :
       pc'[q] \in {"fetch", "helper"} => pc'[q] = pc[q]]_vars
=============================================================================
