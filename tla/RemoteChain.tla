----------------------------- MODULE RemoteChain -----------------------------
(***************************************************************************)
(* What the daemon promises of a query in the remote chain, with neither   *)
(* its connection's messages nor the model's tools: one query of a         *)
(* conversation at a time, a rebuild of the system's profile asked for     *)
(* only after its user's yes, and a client that leaves takes with it its   *)
(* prompt and the task's wait for its rebuild.  The rebuild itself is the  *)
(* helper's: once asked for it runs on, whoever waits for it.              *)
(*                                                                         *)
(*   before -> working -> over                                             *)
(*                ^ `-> asking -> awaiting                                 *)
(*                 `------'----------'                                     *)
(*                                                                         *)
(* Dispatch and Agent are two views of it: Dispatch sees the connection,   *)
(* the session's lock and what is answered, Agent sees the calls of the    *)
(* model and the gate they go through.                                     *)
(***************************************************************************)
CONSTANTS Queries, Sessions

VARIABLES
  phase,    \* per query: where it stands in the remote chain
  session,  \* per query: the conversation it names
  gone      \* the queries whose client has left

chainVars == <<phase, session, gone>>

Phase == {"before", "working", "asking", "awaiting", "over"}
Under == {"working", "asking", "awaiting"}

Init ==
  /\ phase = [q \in Queries |-> "before"]
  /\ session \in [Queries -> Sessions]
  /\ gone = {}

Goes(q, from, to) ==
  /\ phase[q] \in from
  /\ phase' = [phase EXCEPT ![q] = to]
  /\ UNCHANGED <<session, gone>>

\* The session's lock: no other query of the conversation is under way.
Enter(q) ==
  /\ \A u \in Queries : session[u] = session[q] => phase[u] \notin Under
  /\ Goes(q, {"before"}, "working")

\* switch and boot are asked about, of a client that is there.
Ask(q) == q \notin gone /\ Goes(q, {"working"}, "asking")
Yes(q) == q \notin gone /\ Goes(q, {"asking"}, "awaiting")

\* A no, or a cancel, which a prompt reads as one: the chain goes on.
No(q) == Goes(q, {"asking"}, "working")

\* The helper answers, or the wait for it is given up.
Resumed(q) == Goes(q, {"awaiting"}, "working")

\* Answered, failed or cancelled, before the chain or in it, but not at a prompt.
End(q) == Goes(q, {"before", "working", "awaiting"}, "over")

\* What becomes of a query whose client leaves: a prompt reads as a no, what waits for
\* its turn may wait on.
AfterLeaving(q) ==
  CASE phase[q] = "asking" -> {"working"}
    [] phase[q] = "before" -> {"before", "over"}
    [] OTHER -> {"over"}

Leave(mine) ==
  /\ mine \cap gone = {}
  /\ gone' = gone \cup mine
  /\ phase' \in [Queries -> Phase]
  /\ \A q \in Queries : IF q \in mine THEN phase'[q] \in AfterLeaving(q)
                                      ELSE phase'[q] = phase[q]
  /\ UNCHANGED session

Next ==
  \/ \E q \in Queries : Enter(q) \/ Ask(q) \/ Yes(q) \/ No(q) \/ Resumed(q) \/ End(q)
  \/ \E mine \in SUBSET Queries : Leave(mine)

Spec == Init /\ [][Next]_chainVars

-----------------------------------------------------------------------------
\* One query of a conversation is under way at a time.
OneAtATime ==
  \A q, u \in Queries :
    session[q] = session[u] /\ phase[q] \in Under /\ phase[u] \in Under => q = u

\* For a client that has left no prompt is open and no task awaits a rebuild. Of the
\* helper, which may be at work on one it was asked for before, nothing is said.
NobodyWaitsForTheGone ==
  \A q \in gone : phase[q] \notin {"asking", "awaiting"}
=============================================================================
