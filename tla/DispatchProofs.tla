---------------------------- MODULE DispatchProofs ----------------------------
(***************************************************************************)
(* Proofs about Dispatch, for any queries, connections and sessions: what  *)
(* a query may do was asked for or agreed to, a turn ends with a terminal  *)
(* message or its connection, and with a second one only for a client that *)
(* left the first unread.  Every step but Disconnect moves one query; what *)
(* the invariant says of the others is carried over once, by OthersStay.   *)
(***************************************************************************)
EXTENDS Dispatch, TLAPS

Stage == Running \cup {"new", "queued", "ended"}
Over  == {"draining", "flushing", "ended"}

\* The terminal messages a query has had, by how far its end has come.
SentSoFar(q) ==
  /\ pc[q] \notin Over => sent[q] = 0
  /\ pc[q] = "draining" => sent[q] = 1
  /\ pc[q] = "flushing" => sent[q] \in 1..2

\* A query at a prompt knows which; one that acts was allowed to.
PromptIsKnown(q) ==
  /\ pc[q] = "asking" => why[q] \in Prompt
  /\ pc[q] = "acting" => why[q] \in {"act", "rebuild"} /\ why[q] \in agreed[q]

\* The user asked for the remote chain, or said yes to it.
RemoteAllowed(q) == wants[q] = "remote" \/ agreed[q] \cap Leaving # {}

\* The prompts that only a query allowed to leave comes to: a yes, or a no, to one
\* of them may lead to the remote chain without another question.
Beyond == {"rebuild", "use_local"}

LeavingIsAllowed(q) ==
  \/ pc[q] = "remote"
  \/ pc[q] \in {"asking", "acting"} /\ why[q] \in Beyond
  => RemoteAllowed(q)

QueryInv(q) == SentSoFar(q) /\ PromptIsKnown(q) /\ LeavingIsAllowed(q)

IInv == TypeOK /\ \A q \in Queries : QueryInv(q)

-----------------------------------------------------------------------------
(* What the steps have in common.                                          *)

\* The locals a step leaves, given where its queries are afterwards.
LEMMA LocalsAreTyped ==
  ASSUME TypeOK, ForgetRequests, ForgetPrompts
  PROVE  /\ wants' \in [Queries -> {"none", "action", "change", "local", "remote"}]
         /\ why' \in [Queries -> Prompt \cup {"none"}]
         /\ said' \in [Queries -> {"none", "yes", "no"}]
  BY DEF TypeOK, ForgetRequests, ForgetPrompts

\* A query's agreements are prompts, whatever it forgets.
LEMMA AgreementsAreTyped ==
  ASSUME TypeOK, KeepLocals
  PROVE  agreed' \in [Queries -> SUBSET Prompt]
  BY DEF TypeOK, KeepLocals

\* The line for a lock is made of queries.
LEMMA LineIsTyped ==
  ASSUME TypeOK, LineMovesUp
  PROVE  ahead' \in [Queries -> SUBSET Queries]
  BY DEF TypeOK, LineMovesUp

\* A query that a step does not move keeps what the invariant says of it.
LEMMA StaysPut ==
  ASSUME TypeOK, NEW u \in Queries, QueryInv(u),
         pc'[u] = pc[u], sent'[u] = sent[u],
         ForgetRequests \/ wants' = wants,
         ForgetPrompts \/ why' = why,
         agreed'[u] = agreed[u] \/ ~Alive(u)
  PROVE  QueryInv(u)'
  BY DEF QueryInv, SentSoFar, PromptIsKnown, LeavingIsAllowed, RemoteAllowed, Alive, Over,
         ForgetRequests, ForgetPrompts, TypeOK

\* What a step may do at the end of a query's turn: see the properties of these names.
TurnIsAnswered(q) == InFlight(q) /\ ~InFlight(q)' => sent'[q] > 0 \/ ~Open(q)'
SecondNeedsStall(q) == sent'[q] > sent[q] /\ sent[q] > 0 => pc[q] = "draining"

\* A step that leaves the query where it is ends no turn.
QueryStep(q) == QueryInv(q)' /\ TurnIsAnswered(q) /\ SecondNeedsStall(q)

StepHolds == TypeOK' /\ \A q \in Queries : QueryStep(q)

\* A step that moves one query: what is left to show is about that query.
LEMMA OneMoves ==
  ASSUME IInv, NEW q \in Queries, NEW to \in Stage, NEW n \in 0..2,
         pc' = [pc EXCEPT ![q] = to], sent' = [sent EXCEPT ![q] = n],
         KeepLocals, ahead' = ahead \/ LineMovesUp, UNCHANGED <<links, chains>>,
         QueryStep(q)
  PROVE  StepHolds
  <1>1. TypeOK'
    <2>1. pc' \in [Queries -> Stage] /\ sent' \in [Queries -> 0..2]
      BY DEF IInv, TypeOK, Stage
    <2>2. ahead' \in [Queries -> SUBSET Queries]
      BY LineIsTyped DEF IInv, TypeOK
    <2> QED
      BY <2>1, <2>2, LocalsAreTyped, AgreementsAreTyped
      DEF IInv, TypeOK, KeepLocals, links, chains, Stage
  <1>2. ASSUME NEW u \in Queries, u # q PROVE QueryStep(u)
    <2>1. pc'[u] = pc[u] /\ sent'[u] = sent[u]
      BY <1>2 DEF IInv, TypeOK
    <2>2. agreed'[u] = agreed[u] \/ ~Alive(u)
      BY DEF KeepLocals
    <2>3. QueryInv(u)'
      BY <2>1, <2>2, StaysPut DEF IInv, KeepLocals
    <2> QED
      BY <2>1, <2>3 DEF QueryStep, TurnIsAnswered, SecondNeedsStall, InFlight, IInv, TypeOK
  <1> QED
    BY <1>1, <1>2 DEF StepHolds

\* A query that goes on without a word, or ends once its words are out, or with its
\* connection: it may act only on an agreement and leave only when allowed to.
LEMMA BecomesHolds ==
  ASSUME IInv, NEW q \in Queries, NEW from, NEW to \in Running \cup {"ended"},
         Becomes(q, from, to),
         \/ from \notin Over /\ to \notin Over
         \/ from \in {"draining", "flushing"} /\ to = "ended",
         to \notin {"asking", "acting"}, to = "remote" => RemoteAllowed(q)
  PROVE  StepHolds
  <1>1. pc' = [pc EXCEPT ![q] = to] /\ pc[q] = from /\ pc'[q] = to
    BY DEF Becomes, Goto, IInv, TypeOK
  <1>2. sent' = [sent EXCEPT ![q] = sent[q]] /\ sent[q] \in 0..2 /\ sent'[q] = sent[q]
    BY DEF Becomes, Rest, IInv, TypeOK
  <1>3. QueryInv(q)'
    <2>1. SentSoFar(q)'
      BY <1>1, <1>2 DEF SentSoFar, IInv, QueryInv, Over
    <2>2. to \notin Over => wants'[q] = wants[q] /\ agreed'[q] = agreed[q]
      BY <1>1 DEF Becomes, KeepLocals, ForgetRequests, Alive, Over
    <2> QED
      BY <1>1, <2>1, <2>2 DEF QueryInv, PromptIsKnown, LeavingIsAllowed, RemoteAllowed, Over
  <1>4. TurnIsAnswered(q) /\ SecondNeedsStall(q)
    <2>1. from \in {"draining", "flushing"} => sent[q] > 0
      BY <1>1, <1>2 DEF IInv, QueryInv, SentSoFar
    <2>2. to \notin Over => InFlight(q)'
      BY <1>1 DEF InFlight, Over
    <2>3. TurnIsAnswered(q)
      BY <1>2, <2>1, <2>2, <1>1 DEF TurnIsAnswered, Over, IInv, TypeOK
    <2> QED
      BY <1>2, <2>3 DEF SecondNeedsStall
  <1> to \in Stage
    BY DEF Stage
  <1> QED
    BY <1>1, <1>2, <1>3, <1>4, OneMoves DEF QueryStep, Becomes, Rest

\* A query that writes a terminal message: its first, or its second while the first
\* has yet to leave.
LEMMA LastWordHolds ==
  ASSUME IInv, NEW q \in Queries, NEW to \in Over,
         pc' = [pc EXCEPT ![q] = to], sent' = [sent EXCEPT ![q] = @ + 1],
         \/ pc[q] \in Running \ Over
         \/ pc[q] = "draining" /\ to # "draining",
         KeepLocals, ahead' = ahead \/ LineMovesUp, UNCHANGED <<links, chains>>
  PROVE  StepHolds
  <1>1. pc'[q] = to /\ to \in Stage
    BY DEF IInv, TypeOK, Stage, Over, Running
  <1>2. /\ sent[q] \in 0..1 /\ sent' = [sent EXCEPT ![q] = sent[q] + 1]
        /\ sent'[q] = sent[q] + 1
        /\ sent[q] > 0 => pc[q] = "draining"
    BY DEF IInv, QueryInv, SentSoFar, TypeOK
  <1>3. QueryInv(q)'
    BY <1>1, <1>2 DEF QueryInv, SentSoFar, PromptIsKnown, LeavingIsAllowed, Over
  <1>4. TurnIsAnswered(q) /\ SecondNeedsStall(q)
    BY <1>2 DEF TurnIsAnswered, SecondNeedsStall
  <1>5. sent[q] + 1 \in 0..2
    BY <1>2
  <1> QED
    BY <1>1, <1>2, <1>3, <1>4, <1>5, OneMoves DEF QueryStep

\* A prompt is put to the user of a query that may do what the answer may lead to.
LEMMA AsksHolds ==
  ASSUME IInv, NEW q \in Queries, NEW from \in Running \ Over, NEW prompt \in Prompt,
         Asks(q, from, prompt), prompt \in Beyond => RemoteAllowed(q)
  PROVE  StepHolds
  <1>1. /\ pc[q] = from /\ pc' = [pc EXCEPT ![q] = "asking"] /\ pc'[q] = "asking"
        /\ sent' = sent /\ sent[q] = 0 /\ why'[q] = prompt
    BY DEF Asks, Goto, Rest, IInv, TypeOK, QueryInv, SentSoFar
  <1>2. TypeOK'
    BY DEF IInv, TypeOK, Asks, Goto, Rest, Running, Prompt, links, chains
  <1>3. QueryStep(q)
    BY <1>1
    DEF Asks, QueryStep, QueryInv, SentSoFar, PromptIsKnown, LeavingIsAllowed, RemoteAllowed,
        TurnIsAnswered, SecondNeedsStall, InFlight, Running, IInv, TypeOK
  <1>4. ASSUME NEW u \in Queries, u # q PROVE QueryStep(u)
    BY <1>1, <1>4
    DEF Asks, Rest, IInv, TypeOK, QueryStep, QueryInv, SentSoFar, PromptIsKnown,
        LeavingIsAllowed, RemoteAllowed, TurnIsAnswered, SecondNeedsStall, InFlight
  <1> QED
    BY <1>2, <1>3, <1>4 DEF StepHolds

-----------------------------------------------------------------------------
(* One lemma per group of actions.                                         *)

\* A step that moves no query, ends no turn and takes back no agreement.
LEMMA NothingMoves ==
  ASSUME IInv, TypeOK', UNCHANGED <<pc, wants, why, agreed, sent>>
  PROVE  StepHolds
  BY DEF StepHolds, QueryStep, IInv, QueryInv, SentSoFar, PromptIsKnown, LeavingIsAllowed,
         RemoteAllowed, TurnIsAnswered, SecondNeedsStall, InFlight, TypeOK

\* A query comes in, and has its turn.
LEMMA ArrivalHolds ==
  ASSUME IInv, NEW q \in Queries,
         \/ \E what \in {"action", "change", "local", "remote"} : Submit(q, what)
         \/ Enter(q)
  PROVE  StepHolds
  <1>1. ASSUME NEW what \in {"action", "change", "local", "remote"}, Submit(q, what)
        PROVE  StepHolds
    <2>1. TypeOK'
      BY <1>1 DEF Submit, Goto, IInv, TypeOK, links, chains
    <2>2. \A u \in Queries : QueryStep(u)
      BY <1>1 DEF Submit, Goto, IInv, TypeOK, QueryStep, QueryInv, SentSoFar, PromptIsKnown,
                  LeavingIsAllowed, RemoteAllowed, TurnIsAnswered, SecondNeedsStall, InFlight,
                  Running, Over
    <2> QED
      BY <2>1, <2>2 DEF StepHolds
  <1>2. CASE Enter(q)
    <2>1. TypeOK'
      BY <1>2, LineIsTyped DEF Enter, Goto, IInv, TypeOK, links, chains, locals, Running
    <2>2. \A u \in Queries : QueryStep(u)
      BY <1>2 DEF Enter, Goto, locals, IInv, TypeOK, QueryStep, QueryInv, SentSoFar,
                  PromptIsKnown, LeavingIsAllowed, RemoteAllowed, TurnIsAnswered,
                  SecondNeedsStall, InFlight, Running, Over
    <2> QED
      BY <2>1, <2>2 DEF StepHolds
  <1> QED
    BY <1>1, <1>2

Decide(q) ==
  DecideAction(q) \/ DecideChange(q) \/ DecideRemote(q) \/ DecideLocal(q) \/ LocalComesUp(q)
    \/ Assess(q) \/ AsksRebuild(q)

\* Routing asks for what it may not do, and runs what it was asked for.
LEMMA RoutingHolds ==
  ASSUME IInv, NEW q \in Queries, Decide(q)
  PROVE  StepHolds
  <1> DEFINE From == {"deciding", "assessing", "remote", "warming"}
             To == {"answering", "assessing", "warming", "local"}
  <1>1. \A from \in From, prompt \in Prompt :
          Asks(q, from, prompt) /\ (prompt \in Beyond => RemoteAllowed(q)) => StepHolds
    <2>1. From \subseteq Running \ Over
      BY DEF Running, Over
    <2> QED
      BY <2>1, AsksHolds
  <1>2. \A from \in From, to \in To \cup {"remote"} :
          Becomes(q, from, to) /\ (to = "remote" => RemoteAllowed(q)) => StepHolds
    <2>1. From \cap Over = {} /\ To \cup {"remote"} \subseteq Running
      BY DEF Running, Over
    <2>2. \A to \in To \cup {"remote"} : to \notin Over \cup {"asking", "acting"}
      BY DEF Over
    <2> QED
      BY <2>1, <2>2, BecomesHolds
  <1>4. CASE DecideAction(q)
    BY <1>4, <1>1, <1>2 DEF DecideAction, Prompt, Beyond
  <1>5. CASE DecideChange(q)
    BY <1>5, <1>1, <1>2 DEF DecideChange, Prompt, Leaving, Beyond
  <1>6. CASE DecideRemote(q)
    BY <1>6, <1>1, <1>2 DEF DecideRemote, Prompt, Beyond, RemoteAllowed
  <1>7. CASE DecideLocal(q)
    BY <1>7, <1>1, <1>2 DEF DecideLocal, Prompt, Leaving, Beyond
  <1>8. CASE LocalComesUp(q)
    BY <1>8, <1>2 DEF LocalComesUp
  <1>9. CASE Assess(q)
    BY <1>9, <1>1, <1>2 DEF Assess, Prompt, Leaving, Beyond
  <1>10. CASE AsksRebuild(q)
    <2>1. RemoteAllowed(q)
      BY <1>10 DEF AsksRebuild, Asks, Goto, IInv, QueryInv, LeavingIsAllowed
    <2> QED
      BY <1>1, <1>10, <2>1 DEF AsksRebuild, Prompt
  <1> QED
    BY <1>4, <1>5, <1>6, <1>7, <1>8, <1>9, <1>10 DEF Decide

\* The places a query's task goes on from a prompt's answer.
Onward == {"answering", "local", "remote", "assessing", "warming", "acting"}

\* A no leads to no new act, and stays or goes where the query was already allowed.
LEMMA NoIsSafe ==
  ASSUME IInv, NEW q \in Queries, pc[q] = "asking"
  PROVE  /\ AfterNo(why[q]) \in Onward \ {"acting"}
         /\ AfterNo(why[q]) = "remote" => RemoteAllowed(q)
  BY DEF AfterNo, Onward, IInv, QueryInv, PromptIsKnown, LeavingIsAllowed, Prompt, Leaving,
         Beyond

\* A query whose agreements change as it goes on from a prompt or from its act.
LEMMA GoesOn ==
  ASSUME IInv, NEW q \in Queries, NEW to \in Onward, pc[q] \in {"asking", "acting"},
         pc' = [pc EXCEPT ![q] = to], NEW agrees \in SUBSET Prompt,
         agreed' = [agreed EXCEPT ![q] = agrees], ForgetRequests, ForgetPrompts, Rest,
         to = "acting" => why[q] \in {"act", "rebuild"} /\ why[q] \in agrees,
         to = "remote" \/ (to = "acting" /\ why[q] \in Beyond)
           => wants[q] = "remote" \/ agrees \cap Leaving # {}
  PROVE  StepHolds
  <1>1. pc'[q] = to /\ agreed'[q] = agrees /\ sent' = sent /\ sent[q] = 0
    BY DEF IInv, TypeOK, Rest, QueryInv, SentSoFar, Over
  <1>2. TypeOK'
    <2>1. pc' \in [Queries -> Stage] /\ agreed' \in [Queries -> SUBSET Prompt]
      BY DEF IInv, TypeOK, Stage, Onward, Running
    <2> QED
      BY <2>1, LocalsAreTyped DEF IInv, TypeOK, Rest, links, chains, Stage
  <1>3. wants'[q] = wants[q] /\ (to = "acting" => why'[q] = why[q])
    BY <1>1 DEF ForgetRequests, ForgetPrompts, Alive, Onward
  <1>4. QueryStep(q)
    BY <1>1, <1>3
    DEF QueryStep, QueryInv, SentSoFar, PromptIsKnown, LeavingIsAllowed, RemoteAllowed,
        TurnIsAnswered, SecondNeedsStall, InFlight, Running, Onward, Over
  <1>5. ASSUME NEW u \in Queries, u # q PROVE QueryStep(u)
    <2>1. pc'[u] = pc[u] /\ sent'[u] = sent[u] /\ agreed'[u] = agreed[u]
      BY <1>1, <1>5 DEF IInv, TypeOK
    <2>2. QueryInv(u)'
      BY <2>1, StaysPut DEF IInv
    <2> QED
      BY <2>1, <2>2 DEF QueryStep, TurnIsAnswered, SecondNeedsStall, InFlight, IInv, TypeOK
  <1> QED
    BY <1>2, <1>4, <1>5 DEF StepHolds

\* A yes allows what the prompt was for; a no allows nothing that was not.
LEMMA AnswersHold ==
  ASSUME IInv, NEW q \in Queries, ReadAnswer(q) \/ RebuildReturns(q)
  PROVE  StepHolds
  <1> USE DEF Goto
  <1>1. CASE ReadAnswer(q) /\ said[q] = "yes"
    <2>1. /\ pc[q] = "asking" /\ why[q] \in Prompt
          /\ pc' = [pc EXCEPT ![q] = AfterYes(why[q])]
          /\ agreed' = [agreed EXCEPT ![q] = agreed[q] \cup {why[q]}]
          /\ agreed[q] \cup {why[q]} \in SUBSET Prompt
      BY <1>1 DEF ReadAnswer, IInv, TypeOK, QueryInv, PromptIsKnown
    <2>2. /\ AfterYes(why[q]) \in {"remote", "acting"}
          /\ AfterYes(why[q]) = "acting" <=> why[q] \in {"act", "rebuild"}
      BY DEF AfterYes
    <2>3. why[q] \in Beyond \cup Leaving =>
            wants[q] = "remote" \/ (agreed[q] \cup {why[q]}) \cap Leaving # {}
      BY <2>1 DEF IInv, QueryInv, LeavingIsAllowed, RemoteAllowed
    <2>4. why[q] \in {"act", "rebuild"} \/ why[q] \in Beyond \cup Leaving
      BY <2>1 DEF Prompt, Beyond
    <2> QED
      BY <1>1, <2>1, <2>2, <2>3, <2>4, GoesOn DEF ReadAnswer, Onward
  <1>2. CASE ReadAnswer(q) /\ said[q] # "yes"
    <2>1. /\ pc[q] = "asking"
          /\ pc' = [pc EXCEPT ![q] = AfterNo(why[q])]
          /\ agreed' = [agreed EXCEPT ![q] = agreed[q]]
          /\ agreed[q] \in SUBSET Prompt
      BY <1>2 DEF ReadAnswer, IInv, TypeOK
    <2>2. /\ AfterNo(why[q]) \in Onward \ {"acting"}
          /\ AfterNo(why[q]) = "remote" => wants[q] = "remote" \/ agreed[q] \cap Leaving # {}
      BY <2>1, NoIsSafe DEF RemoteAllowed
    <2> QED
      BY <1>2, <2>1, <2>2, GoesOn DEF ReadAnswer
  <1>3. CASE RebuildReturns(q)
    <2>1. /\ pc[q] = "acting" /\ why[q] = "rebuild"
          /\ pc' = [pc EXCEPT ![q] = "remote"]
          /\ agreed' = [agreed EXCEPT ![q] = agreed[q] \ {"rebuild"}]
          /\ agreed[q] \ {"rebuild"} \in SUBSET Prompt
      BY <1>3 DEF RebuildReturns, IInv, TypeOK
    <2>2. wants[q] = "remote" \/ (agreed[q] \ {"rebuild"}) \cap Leaving # {}
      BY <2>1 DEF IInv, QueryInv, LeavingIsAllowed, RemoteAllowed, Beyond, Leaving
    <2> QED
      BY <1>3, <2>1, <2>2, GoesOn DEF RebuildReturns, Onward
  <1> QED
    BY <1>1, <1>2, <1>3

Conclude(q) ==
  Finish(q) \/ DrainEnds(q) \/ DrainTimesOut(q) \/ SendTimesOut(q) \/ SendRaises(q)

\* A turn ends with a word, or with the connection.
LEMMA EndsHold ==
  ASSUME IInv, NEW q \in Queries, Conclude(q)
  PROVE  StepHolds
  <1>0. Sending \subseteq Running \ Over /\ {"draining", "flushing"} \subseteq Over
    BY DEF Sending, Running, Over
  <1>1. CASE Finish(q)
    BY <1>0, <1>1, LastWordHolds DEF Finish, Over
  <1>2. CASE DrainEnds(q)
    BY <1>2, BecomesHolds DEF DrainEnds
  <1>3. CASE DrainTimesOut(q)
    <2>1. CASE Goto(q, "draining", "flushing")
      <3>1. /\ pc[q] = "draining" /\ pc' = [pc EXCEPT ![q] = "flushing"]
            /\ sent' = [sent EXCEPT ![q] = @ + 1]
        BY <1>3, <2>1 DEF DrainTimesOut, Goto
      <3> QED
        BY <1>3, <3>1, LastWordHolds DEF DrainTimesOut, Over
    <2>2. CASE Goto(q, "flushing", "ended")
      <3>1. Becomes(q, "flushing", "ended")
        BY <1>3, <2>2 DEF DrainTimesOut, Goto, Becomes, Rest
      <3> QED
        BY <3>1, BecomesHolds
    <2> QED
      BY <1>3, <2>1, <2>2 DEF DrainTimesOut
  <1>4. CASE SendTimesOut(q)
    BY <1>0, <1>4, LastWordHolds DEF SendTimesOut
  <1>5. CASE SendRaises(q)
    <2>1. pc[q] \in Running \ Over
      BY <1>0, <1>5 DEF SendRaises
    <2>2. /\ pc'[q] = "ended" /\ "ended" \in Stage
          /\ sent' = [sent EXCEPT ![q] = sent[q]] /\ sent[q] \in 0..2 /\ sent'[q] = sent[q]
      BY <1>5 DEF SendRaises, Rest, IInv, TypeOK, Stage
    <2>3. QueryStep(q)
      BY <1>5, <2>2
      DEF SendRaises, Rest, links, Open, QueryStep, QueryInv, SentSoFar, PromptIsKnown,
          LeavingIsAllowed, TurnIsAnswered, SecondNeedsStall, Over
    <2> QED
      BY <1>5, <2>2, <2>3, OneMoves DEF SendRaises, Rest
  <1> QED
    BY <1>1, <1>2, <1>3, <1>4, <1>5 DEF Conclude

\* A cancel is a no to a prompt, silence to a query that waits or is at its last word,
\* and a done to any other.
LEMMA CancelHolds ==
  ASSUME IInv, NEW q \in Queries, Cancel(q)
  PROVE  StepHolds
  <1>0. /\ pc[q] \in Running \cup {"queued"} /\ KeepLocals /\ LineMovesUp
        /\ UNCHANGED <<links, chains>>
        /\ pc' = [pc EXCEPT ![q] = AfterCancel(q)]
    BY DEF Cancel, InFlight
  <1>1. CASE pc[q] \notin Mute
    <2>1. sent' = [sent EXCEPT ![q] = @ + 1]
      BY <1>1 DEF Cancel
    <2>2. AfterCancel(q) \in {"ended", "flushing"}
      BY <1>1 DEF AfterCancel, Mute
    <2>3. pc[q] \in Running \ Over \/ pc[q] = "draining"
      BY <1>0, <1>1 DEF Mute, Running, Over
    <2> QED
      BY <1>0, <2>1, <2>2, <2>3, LastWordHolds DEF Over
  <1>2. CASE pc[q] \in Mute
    <2>1. sent' = [sent EXCEPT ![q] = sent[q]] /\ sent[q] \in 0..2 /\ sent'[q] = sent[q]
      BY <1>2 DEF Cancel, IInv, TypeOK
    <2>2. CASE pc[q] = "asking"
      <3>1. /\ AfterCancel(q) = AfterNo(why[q])
            /\ AfterCancel(q) \in Onward \ {"acting"}
            /\ AfterCancel(q) = "remote" => RemoteAllowed(q)
        BY <2>2, NoIsSafe DEF AfterCancel
      <3>2. pc'[q] = AfterCancel(q) /\ wants'[q] = wants[q] /\ agreed'[q] = agreed[q]
        BY <1>0, <3>1 DEF KeepLocals, ForgetRequests, Alive, Onward, IInv, TypeOK
      <3>3. QueryStep(q)
        BY <2>1, <2>2, <3>1, <3>2
        DEF QueryStep, QueryInv, SentSoFar, PromptIsKnown, LeavingIsAllowed, RemoteAllowed,
            TurnIsAnswered, SecondNeedsStall, InFlight, Running, Onward, Over, IInv
      <3>4. AfterCancel(q) \in Stage
        BY <3>1 DEF Onward, Stage, Running
      <3> QED
        BY <1>0, <2>1, <3>3, <3>4, OneMoves
    <2>3. CASE pc[q] \in {"queued", "flushing"}
      <3>1. AfterCancel(q) = "ended" /\ pc'[q] = "ended" /\ "ended" \in Stage
        BY <1>0, <2>3 DEF AfterCancel, IInv, TypeOK, Stage
      <3>2. QueryStep(q)
        BY <2>1, <2>3, <3>1
        DEF QueryStep, QueryInv, SentSoFar, PromptIsKnown, LeavingIsAllowed,
            TurnIsAnswered, SecondNeedsStall, InFlight, Running, Over, IInv
      <3> QED
        BY <1>0, <2>1, <3>1, <3>2, OneMoves
    <2> QED
      BY <1>2, <2>2, <2>3 DEF Mute
  <1> QED
    BY <1>1, <1>2

\* A disconnect is a no to every prompt of the connection and the end of the rest of it.
LEMMA DisconnectHolds ==
  ASSUME IInv, NEW c \in Conns, Disconnect(c)
  PROVE  StepHolds
  <1>1. \A u \in Queries : 
          \/ pc'[u] = pc[u]
          \/ /\ pc[u] = "asking" /\ pc'[u] = AfterNo(why[u])
          \/ /\ pc'[u] = "ended" /\ ConnOf[u] = c
    BY DEF Disconnect
  <1>2. sent' = sent /\ c \in closed' /\ KeepLocals /\ LineMovesUp
    BY DEF Disconnect
  <1>3. ASSUME NEW u \in Queries PROVE QueryStep(u) /\ pc'[u] \in Stage
    <2>1. CASE pc'[u] = pc[u]
      <3>1. agreed'[u] = agreed[u] \/ ~Alive(u)
        BY <1>2 DEF KeepLocals
      <3>2. QueryInv(u)'
        BY <1>2, <2>1, <3>1, StaysPut DEF IInv, KeepLocals
      <3> QED
        BY <1>2, <2>1, <3>2
        DEF QueryStep, TurnIsAnswered, SecondNeedsStall, InFlight, IInv, TypeOK, Stage
    <2>2. CASE pc[u] = "asking" /\ pc'[u] = AfterNo(why[u])
      <3>1. /\ pc'[u] \in Onward \ {"acting"}
            /\ pc'[u] = "remote" => RemoteAllowed(u)
        BY <2>2, NoIsSafe
      <3>2. wants'[u] = wants[u] /\ agreed'[u] = agreed[u]
        BY <1>2, <3>1 DEF KeepLocals, ForgetRequests, Alive, Onward
      <3> QED
        BY <1>2, <2>2, <3>1, <3>2
        DEF QueryStep, QueryInv, SentSoFar, PromptIsKnown, LeavingIsAllowed, RemoteAllowed,
            TurnIsAnswered, SecondNeedsStall, InFlight, Running, Onward, Over, IInv, TypeOK,
            Stage
    <2>3. CASE pc'[u] = "ended" /\ ConnOf[u] = c
      <3>1. ~Open(u)'
        BY <1>2, <2>3 DEF Open
      <3> QED
        BY <1>2, <2>3, <3>1
        DEF QueryStep, QueryInv, SentSoFar, PromptIsKnown, LeavingIsAllowed,
            TurnIsAnswered, SecondNeedsStall, Over, IInv, TypeOK, Stage
    <2> QED
      BY <1>1, <2>1, <2>2, <2>3
  <1>4. TypeOK'
    <2>1. pc' \in [Queries -> Stage]
      BY <1>3 DEF Disconnect
    <2>2. closed' \in SUBSET Conns /\ UNCHANGED <<stalled, chains>>
      BY DEF Disconnect, IInv, TypeOK
    <2> QED
      BY <1>2, <2>1, <2>2, LineIsTyped, LocalsAreTyped, AgreementsAreTyped
      DEF IInv, TypeOK, KeepLocals, chains, Stage
  <1> QED
    BY <1>3, <1>4 DEF StepHolds

\* The peers, the model's readiness, and an answer that comes in, move no query.
LEMMA PeersHold ==
  ASSUME IInv,
         \/ \E q \in Queries, answer \in {"yes", "no"} : Respond(q, answer)
         \/ \E c \in Conns : StopReading(c) \/ ReadOn(c)
         \/ LocalChanges
         \/ UNCHANGED vars
  PROVE  StepHolds
  <1>1. UNCHANGED <<pc, wants, why, agreed, sent>>
    BY DEF Respond, StopReading, ReadOn, LocalChanges, locals, vars
  <1>2. TypeOK'
    <2>1. ASSUME NEW q \in Queries, NEW answer \in {"yes", "no"}, Respond(q, answer)
          PROVE  TypeOK'
      BY <2>1 DEF Respond, links, chains, IInv, TypeOK
    <2>2. ASSUME NEW c \in Conns, StopReading(c) \/ ReadOn(c) PROVE TypeOK'
      BY <2>2 DEF StopReading, ReadOn, locals, chains, IInv, TypeOK
    <2>3. CASE LocalChanges
      BY <2>3 DEF LocalChanges, locals, links, IInv, TypeOK
    <2>4. CASE UNCHANGED vars
      BY <2>4 DEF vars, locals, links, chains, IInv, TypeOK
    <2> QED
      BY <2>1, <2>2, <2>3, <2>4
  <1> QED
    BY <1>1, <1>2, NothingMoves

-----------------------------------------------------------------------------
(* The theorems.                                                           *)

\* The invariant holds as the daemon starts.
LEMMA InitInvariant == Init => IInv
  <1> SUFFICES ASSUME Init PROVE IInv
    OBVIOUS
  <1>1. TypeOK
    <2>1. sent \in [Queries -> 0..2] /\ agreed \in [Queries -> SUBSET Prompt]
      BY DEF Init
    <2>2. ahead \in [Queries -> SUBSET Queries]
      BY DEF Init
    <2>3. /\ pc \in [Queries -> Running \cup {"new", "queued", "ended"}]
          /\ wants \in [Queries -> {"none", "action", "change", "local", "remote"}]
          /\ why \in [Queries -> Prompt \cup {"none"}]
          /\ said \in [Queries -> {"none", "yes", "no"}]
      BY DEF Init
    <2> QED
      BY <2>1, <2>2, <2>3 DEF Init, TypeOK
  <1>2. \A q \in Queries : pc[q] = "new" /\ sent[q] = 0
    BY DEF Init
  <1> QED
    BY <1>1, <1>2 DEF IInv, QueryInv, SentSoFar, PromptIsKnown, LeavingIsAllowed, Over

\* Every step keeps the invariant and ends turns as it should.
LEMMA NextInvariant == IInv /\ [Next]_vars => StepHolds
  <1> SUFFICES ASSUME IInv, [Next]_vars PROVE StepHolds
    OBVIOUS
  <1>1. ASSUME NEW q \in Queries, TaskStep(q) PROVE StepHolds
    BY <1>1, ArrivalHolds, RoutingHolds, AnswersHold, EndsHold
    DEF TaskStep, Decide, Conclude
  <1>2. ASSUME NEW q \in Queries, ClientStep(q) PROVE StepHolds
    BY <1>2, ArrivalHolds, PeersHold, CancelHolds DEF ClientStep
  <1>3. ASSUME NEW c \in Conns, Disconnect(c) \/ StopReading(c) \/ ReadOn(c) PROVE StepHolds
    BY <1>3, DisconnectHolds, PeersHold
  <1>4. CASE LocalChanges \/ UNCHANGED vars
    BY <1>4, PeersHold
  <1> QED
    BY <1>1, <1>2, <1>3, <1>4 DEF Next

\* So every step keeps the invariant.
LEMMA StepsKeepIt == StepHolds => IInv'
  BY DEF StepHolds, QueryStep, IInv

\* Every state of the dispatch is typed; in particular no query is sent more than two
\* terminal messages.
THEOREM TypeCorrect == Spec => []TypeOK
  <1>1. IInv => TypeOK
    BY DEF IInv
  <1> QED
    BY <1>1, InitInvariant, NextInvariant, StepsKeepIt, PTL DEF Spec

\* Whatever prompts, cancels and disconnects cross each other, nothing leaves the device
\* and nothing is changed on it that the user did not ask for or agree to.
THEOREM NothingUnagreed == Spec => []ConsentFirst
  <1>1. IInv => ConsentFirst
    BY DEF IInv, QueryInv, PromptIsKnown, LeavingIsAllowed, RemoteAllowed, ConsentFirst
  <1> QED
    BY <1>1, InitInvariant, NextInvariant, StepsKeepIt, PTL DEF Spec

\* A query that had its turn ends with a terminal message, or with its connection.
THEOREM EveryTurnIsAnswered == Spec => TurnsAreAnswered
  <1>1. StepHolds => \A q \in Queries : InFlight(q) /\ ~InFlight(q)' => sent'[q] > 0 \/ ~Open(q)'
    BY DEF StepHolds, QueryStep, TurnIsAnswered
  <1> QED
    BY <1>1, InitInvariant, NextInvariant, StepsKeepIt, PTL DEF Spec, TurnsAreAnswered

\* Only a client that left the first terminal message of a turn unread gets another.
THEOREM OneTerminalUnlessStalled == Spec => SecondTerminalNeedsStall
  <1>1. StepHolds => \A q \in Queries : sent'[q] > sent[q] /\ sent[q] > 0 => pc[q] = "draining"
    BY DEF StepHolds, QueryStep, SecondNeedsStall
  <1> QED
    BY <1>1, InitInvariant, NextInvariant, StepsKeepIt, PTL DEF Spec, SecondTerminalNeedsStall

-----------------------------------------------------------------------------
(* The remote chain: what of a query's stages it is, and that the dispatch *)
(* moves through it as RemoteChain promises.                               *)

\* Where a query stands in the remote chain; one that only writes its last message to a
\* client is through with it.
Phase(q) ==
  CASE pc[q] \in Over -> "over"
    [] pc[q] = "remote" -> "working"
    [] pc[q] = "asking" /\ why[q] = "rebuild" -> "asking"
    [] pc[q] = "acting" /\ why[q] = "rebuild" -> "awaiting"
    [] OTHER -> "before"

Gone == {q \in Queries : ~Open(q)}

Chain == INSTANCE RemoteChain
           WITH phase <- [q \in Queries |-> Phase(q)], session <- SessionOf, gone <- Gone

\* One query of a session has the lock at a time.
Locked ==
  \A q, u \in Queries :
    SessionOf[q] = SessionOf[u] /\ InFlight(q) /\ InFlight(u) => q = u

\* A prompt, and what was agreed to at one, does not outlive its client's connection.
Attended == \A q \in Queries : pc[q] \in {"asking", "acting"} => Open(q)

ChainInv == IInv /\ Locked /\ Attended

\* The moves of one query that RemoteChain has.
Promised(q) ==
  \/ Phase(q)' = Phase(q)
  \/ Phase(q) = "before" /\ Phase(q)' = "working" /\ InFlight(q)
  \/ Phase(q) = "working" /\ Phase(q)' = "asking" /\ Open(q)
  \/ Phase(q) = "asking" /\ Phase(q)' \in {"awaiting", "working"}
  \/ Phase(q) = "awaiting" /\ Phase(q)' = "working"
  \/ Phase(q) \notin {"asking", "over"} /\ Phase(q)' = "over"

\* A query in the chain holds its session's lock; a phase is one of RemoteChain's.
LEMMA PhaseIsTyped ==
  ASSUME NEW q \in Queries
  PROVE  /\ Phase(q) \in Chain!Phase
         /\ Phase(q) \in Chain!Under => InFlight(q)
         /\ Phase(q) \in {"asking", "awaiting"} => pc[q] \in {"asking", "acting"}
  BY DEF Phase, Chain!Phase, Chain!Under, InFlight, Running, Over

\* A step that leaves a query where it is, and remembers its prompt as long as it needs
\* it, leaves its phase.
LEMMA PhaseStays ==
  ASSUME IInv, NEW u \in Queries, pc'[u] = pc[u], why'[u] = why[u] \/ ForgetPrompts
  PROVE  Phase(u)' = Phase(u)
  BY DEF Phase, ForgetPrompts

\* What a step of one query has to be for the chain: a move it has, by a query that has
\* the lock or takes it.
OneGoes(q) ==
  /\ \E to \in Stage :
       /\ pc' = [pc EXCEPT ![q] = to]
       /\ to \in Running => InFlight(q) \/ SessionFree(q)
       /\ to \in {"asking", "acting"} => Open(q)
  /\ closed' = closed
  /\ ForgetPrompts \/ \A u \in Queries \ {q} : why'[u] = why[u]
  /\ Promised(q)

\* Such a step is one of the chain's, and keeps lock and attendance.
LEMMA OneGoesInTheChain ==
  ASSUME ChainInv, NEW q \in Queries, OneGoes(q)
  PROVE  [Chain!Next]_(Chain!chainVars) /\ Locked' /\ Attended'
  <1>1. PICK to \in Stage :
          /\ pc' = [pc EXCEPT ![q] = to]
          /\ to \in Running => InFlight(q) \/ SessionFree(q)
          /\ to \in {"asking", "acting"} => Open(q)
    BY DEF OneGoes
  <1>2. pc'[q] = to /\ \A u \in Queries \ {q} : pc'[u] = pc[u]
    BY <1>1 DEF ChainInv, IInv, TypeOK
  <1>3. Locked'
    <2> SUFFICES ASSUME NEW u \in Queries, NEW v \in Queries, u # v, SessionOf[u] = SessionOf[v],
                        pc'[u] \in Running, pc'[v] \in Running
                 PROVE  FALSE
      BY DEF Locked, InFlight
    <2>1. ASSUME NEW w \in Queries \ {q}, SessionOf[w] = SessionOf[q], pc'[w] \in Running,
                 pc'[q] \in Running
          PROVE  FALSE
      BY <1>1, <1>2, <2>1 DEF ChainInv, Locked, SessionFree, InFlight
    <2> QED
      BY <1>2, <2>1 DEF ChainInv, Locked, InFlight
  <1>4. Attended'
    BY <1>1, <1>2 DEF OneGoes, ChainInv, Attended, Open
  <1>5. \A u \in Queries \ {q} : Phase(u)' = Phase(u)
    BY <1>2, PhaseStays DEF OneGoes, ChainInv
  <1> DEFINE phases == [u \in Queries |-> Phase(u)]
  <1>6. phases' = [phases EXCEPT ![q] = Phase(q)'] /\ phases[q] = Phase(q)
    BY <1>5
  <1>7. Gone' = Gone /\ SessionOf' = SessionOf
    BY DEF OneGoes, Gone, Open
  <1>8. (q \in Gone) = ~Open(q)
    BY DEF Gone
  <1>9. [Chain!Next]_(Chain!chainVars)
    <2> USE DEF Chain!Goes
    <2>1. CASE Phase(q)' = Phase(q)
      BY <1>6, <1>7, <2>1 DEF Chain!chainVars
    <2>2. CASE Phase(q) = "before" /\ Phase(q)' = "working" /\ InFlight(q)
      <3>1. \A u \in Queries : SessionOf[u] = SessionOf[q] => Phase(u) \notin Chain!Under
        BY <2>2, PhaseIsTyped DEF ChainInv, Locked, Chain!Under
      <3> QED
        BY <1>6, <1>7, <2>2, <3>1 DEF Chain!Next, Chain!Enter
    <2>3. CASE Phase(q) = "working" /\ Phase(q)' = "asking" /\ Open(q)
      BY <1>6, <1>7, <1>8, <2>3 DEF Chain!Next, Chain!Ask
    <2>4. CASE Phase(q) = "asking" /\ Phase(q)' = "awaiting"
      <3>1. Open(q)
        BY <2>4, PhaseIsTyped DEF ChainInv, Attended
      <3> QED
        BY <1>6, <1>7, <1>8, <2>4, <3>1 DEF Chain!Next, Chain!Yes
    <2>5. CASE Phase(q) = "asking" /\ Phase(q)' = "working"
      BY <1>6, <1>7, <2>5 DEF Chain!Next, Chain!No
    <2>6. CASE Phase(q) = "awaiting" /\ Phase(q)' = "working"
      BY <1>6, <1>7, <2>6 DEF Chain!Next, Chain!Resumed
    <2>7. CASE Phase(q) \notin {"asking", "over"} /\ Phase(q)' = "over"
      BY <1>6, <1>7, <2>7, PhaseIsTyped DEF Chain!Next, Chain!End, Chain!Phase
    <2> QED
      BY <2>1, <2>2, <2>3, <2>4, <2>5, <2>6, <2>7 DEF OneGoes, Promised
  <1> QED
    BY <1>3, <1>4, <1>9

\* Every step of one query is of that kind.
LEMMA EachGoesAsPromised ==
  ASSUME ChainInv, NEW q \in Queries, TaskStep(q) \/ ClientStep(q)
  PROVE  OneGoes(q)
  <1> USE DEF Goto
  <1>0. pc \in [Queries -> Stage] /\ why \in [Queries -> Prompt \cup {"none"}]
    BY DEF ChainInv, IInv, TypeOK, Stage
  <1>1. ASSUME NEW from \in {"deciding", "assessing", "warming"},
               NEW to \in {"answering", "remote", "assessing", "warming", "local"},
               Becomes(q, from, to)
        PROVE  OneGoes(q)
    <2>1. pc[q] = from /\ pc' = [pc EXCEPT ![q] = to] /\ pc'[q] = to /\ closed' = closed
      BY <1>0, <1>1 DEF Becomes, Rest, links
    <2>2. ForgetPrompts
      BY <1>1 DEF Becomes, KeepLocals
    <2>3. to \in Stage /\ InFlight(q)
      BY <2>1 DEF InFlight, Running, Stage
    <2>4. Promised(q)
      BY <2>1, <2>3 DEF Promised, Phase, Over
    <2> QED
      BY <2>1, <2>2, <2>3, <2>4 DEF OneGoes
  <1>2. ASSUME NEW from \in Running \ {"asking", "acting"}, NEW prompt \in Prompt,
               from \notin Over, Asks(q, from, prompt), (from = "remote") = (prompt = "rebuild")
        PROVE  OneGoes(q)
    <2>1. /\ pc[q] = from /\ pc' = [pc EXCEPT ![q] = "asking"] /\ pc'[q] = "asking"
          /\ why'[q] = prompt /\ \A u \in Queries \ {q} : why'[u] = why[u]
          /\ closed' = closed /\ Open(q)
      BY <1>0, <1>2 DEF Asks, Rest, links
    <2>2. Promised(q)
      BY <1>2, <2>1 DEF Promised, Phase, Running, Over
    <2> QED
      BY <1>2, <2>1, <2>2 DEF OneGoes, InFlight, Stage, Running
  <1>3. CASE (\E what \in {"action", "change", "local", "remote"} : Submit(q, what)) \/ Enter(q)
    <2>1. /\ \/ pc[q] = "new" /\ pc' = [pc EXCEPT ![q] = "queued"] /\ pc'[q] = "queued"
             \/ pc[q] = "queued" /\ pc' = [pc EXCEPT ![q] = "deciding"] /\ pc'[q] = "deciding"
                /\ SessionFree(q)
          /\ why' = why /\ closed' = closed
      BY <1>0, <1>3 DEF Submit, Enter, locals, links
    <2>2. Promised(q)
      BY <2>1 DEF Promised, Phase, Over
    <2> QED
      BY <2>1, <2>2 DEF OneGoes, Running, Stage
  <1>4. CASE Decide(q)
    <2>1. \/ \E from \in {"deciding", "assessing"}, prompt \in Prompt \ {"rebuild"} :
               Asks(q, from, prompt)
          \/ Asks(q, "remote", "rebuild")
          \/ \E from \in {"deciding", "assessing", "warming"},
                to \in {"answering", "remote", "assessing", "warming", "local"} :
               Becomes(q, from, to)
      BY <1>4 DEF Decide, DecideAction, DecideChange, DecideRemote, DecideLocal, LocalComesUp,
                  Assess, AsksRebuild, Prompt, Leaving
    <2>2. CASE \E from \in {"deciding", "assessing"}, prompt \in Prompt \ {"rebuild"} :
                 Asks(q, from, prompt)
      <3>1. PICK from \in {"deciding", "assessing"}, prompt \in Prompt \ {"rebuild"} :
                 Asks(q, from, prompt)
        BY <2>2
      <3>2. from \in Running \ {"asking", "acting"} /\ from \notin Over
        BY DEF Running, Over
      <3>3. (from = "remote") = FALSE /\ (prompt = "rebuild") = FALSE
        OBVIOUS
      <3> QED
        BY <1>2, <3>1, <3>2, <3>3
    <2>3. CASE Asks(q, "remote", "rebuild")
      <3>1. "remote" \in Running \ {"asking", "acting"} /\ "remote" \notin Over
        BY DEF Running, Over
      <3> QED
        BY <1>2, <2>3, <3>1 DEF Prompt
    <2>4. CASE \E from \in {"deciding", "assessing", "warming"},
                  to \in {"answering", "remote", "assessing", "warming", "local"} :
                 Becomes(q, from, to)
      BY <1>1, <2>4
    <2> QED
      BY <2>1, <2>2, <2>3, <2>4
  <1>5. CASE ReadAnswer(q)
    <2> DEFINE to == IF said[q] = "yes" THEN AfterYes(why[q]) ELSE AfterNo(why[q])
    <2>1. /\ pc[q] = "asking" /\ pc' = [pc EXCEPT ![q] = to] /\ pc'[q] = to
          /\ closed' = closed /\ ForgetPrompts
      BY <1>0, <1>5 DEF ReadAnswer, Rest, links
    <2>2. why[q] \in Prompt
      BY <2>1 DEF ChainInv, IInv, QueryInv, PromptIsKnown
    <2>3. /\ to \in {"acting", "remote", "answering", "local", "assessing", "warming"}
          /\ why[q] = "rebuild" => to \in {"acting", "remote"}
          /\ to = "acting" => why[q] \in {"act", "rebuild"}
      BY <2>2 DEF AfterYes, AfterNo, Prompt, Leaving
    <2>4. to = "acting" => why'[q] = why[q]
      BY <2>1 DEF ForgetPrompts
    <2>5. Open(q) /\ InFlight(q)
      BY <2>1 DEF ChainInv, Attended, InFlight, Running
    <2> HIDE DEF to
    <2>6. Promised(q)
      BY <2>1, <2>3, <2>4, <2>5 DEF Promised, Phase, Over
    <2>7. to \in Stage
      BY <2>3 DEF Stage, Running
    <2> QED
      BY <2>1, <2>5, <2>6, <2>7 DEF OneGoes
  <1>6. CASE RebuildReturns(q)
    <2>1. /\ pc[q] = "acting" /\ pc' = [pc EXCEPT ![q] = "remote"] /\ pc'[q] = "remote"
          /\ why[q] = "rebuild" /\ closed' = closed /\ ForgetPrompts
      BY <1>0, <1>6 DEF RebuildReturns, Rest, links
    <2> QED
      BY <2>1 DEF OneGoes, Promised, Phase, Over, InFlight, Running, Stage
  <1>7. ASSUME NEW to \in Over, pc' = [pc EXCEPT ![q] = to], pc[q] \in Running \ {"asking"},
               closed' = closed, ForgetPrompts
        PROVE  OneGoes(q)
    <2>1. pc'[q] = to /\ to \in Stage
      BY <1>0, <1>7 DEF Over, Stage, Running
    <2>2. Promised(q)
      BY <1>7, <2>1 DEF Promised, Phase, Over
    <2> QED
      BY <1>7, <2>1, <2>2 DEF OneGoes, InFlight, Over
  <1>8. CASE Conclude(q)
    <2>1. \E to \in Over : pc' = [pc EXCEPT ![q] = to]
      BY <1>8 DEF Conclude, Finish, DrainEnds, DrainTimesOut, SendTimesOut, SendRaises,
                  Becomes, Over
    <2>2. pc[q] \in Running \ {"asking"}
      BY <1>8 DEF Conclude, Finish, DrainEnds, DrainTimesOut, SendTimesOut, SendRaises,
                  Becomes, Sending, Running
    <2>3. closed' = closed /\ ForgetPrompts
      BY <1>8 DEF Conclude, Finish, DrainEnds, DrainTimesOut, SendTimesOut, SendRaises,
                  Becomes, Rest, KeepLocals, links
    <2> QED
      BY <1>7, <2>1, <2>2, <2>3
  <1>9. CASE \E answer \in {"yes", "no"} : Respond(q, answer)
    <2>1. pc' = pc /\ why' = why /\ closed' = closed
      BY <1>9 DEF Respond, links
    <2>2. pc' = [pc EXCEPT ![q] = pc[q]] /\ pc[q] \in Stage /\ (pc[q] \in Running => InFlight(q))
      BY <1>0, <2>1 DEF InFlight
    <2>3. Promised(q) /\ (pc[q] \in {"asking", "acting"} => Open(q))
      BY <2>1 DEF Promised, Phase, ChainInv, Attended
    <2> QED
      BY <2>1, <2>2, <2>3 DEF OneGoes
  <1>10. CASE Cancel(q)
    <2>1. /\ pc' = [pc EXCEPT ![q] = AfterCancel(q)] /\ pc'[q] = AfterCancel(q)
          /\ closed' = closed /\ ForgetPrompts /\ pc[q] \in Running \cup {"queued"}
      BY <1>0, <1>10 DEF Cancel, KeepLocals, links, InFlight
    <2>2. CASE pc[q] = "asking"
      <3>1. why[q] \in Prompt /\ InFlight(q)
        BY <2>2 DEF ChainInv, IInv, QueryInv, PromptIsKnown, InFlight, Running
      <3>2. /\ AfterCancel(q) \in {"remote", "answering", "local", "assessing", "warming"}
            /\ why[q] = "rebuild" => AfterCancel(q) = "remote"
        BY <2>2, <3>1 DEF AfterCancel, AfterNo, Prompt, Leaving
      <3>3. Promised(q)
        BY <2>1, <2>2, <3>1, <3>2 DEF Promised, Phase, Over
      <3>4. AfterCancel(q) \in Stage
        BY <3>2 DEF Stage, Running
      <3> QED
        BY <2>1, <3>1, <3>2, <3>3, <3>4 DEF OneGoes
    <2>3. CASE pc[q] # "asking"
      <3>1. AfterCancel(q) \in Over
        BY <2>3 DEF AfterCancel, Over
      <3>2. Promised(q)
        BY <2>1, <2>3, <3>1 DEF Promised, Phase, Over
      <3>3. AfterCancel(q) \in Stage /\ AfterCancel(q) \notin {"asking", "acting"}
        BY <3>1 DEF Stage, Running, Over
      <3>4. AfterCancel(q) \in Running => InFlight(q)
        <4>1. CASE pc[q] = "queued"
          BY <4>1 DEF AfterCancel, Running
        <4> QED
          BY <2>1, <4>1 DEF InFlight
      <3> QED
        BY <2>1, <3>2, <3>3, <3>4 DEF OneGoes
    <2> QED
      BY <2>2, <2>3
  <1> QED
    BY <1>3, <1>4, <1>5, <1>6, <1>8, <1>9, <1>10
    DEF TaskStep, ClientStep, Decide, Conclude

\* A client that leaves takes its queries along: its prompts are answered with a no, its
\* rebuilds are over.
LEMMA DisconnectInTheChain ==
  ASSUME ChainInv, NEW c \in Conns, Disconnect(c)
  PROVE  Chain!Next /\ Locked' /\ Attended'
  <1> DEFINE mine == {q \in Queries : ConnOf[q] = c}
             phases == [u \in Queries |-> Phase(u)]
  <1>1. /\ closed' = closed \cup {c} /\ c \notin closed /\ ForgetPrompts
        /\ \A q \in Queries :
             pc'[q] = IF ConnOf[q] = c /\ (InFlight(q) \/ pc[q] = "queued")
                      THEN IF pc[q] = "asking" THEN AfterNo(why[q]) ELSE "ended"
                      ELSE pc[q]
    BY DEF Disconnect, KeepLocals
  <1>2. ASSUME NEW q \in Queries, pc[q] = "asking"
        PROVE  /\ AfterNo(why[q]) \in {"remote", "answering", "local", "assessing", "warming"}
               /\ (why[q] = "rebuild") = (Phase(q) = "asking")
               /\ (why[q] = "rebuild") = (AfterNo(why[q]) = "remote")
               /\ why[q] # "rebuild" => Phase(q) = "before"
               /\ InFlight(q)
    <2>1. why[q] \in Prompt
      BY <1>2 DEF ChainInv, IInv, QueryInv, PromptIsKnown
    <2> QED
      BY <1>2, <2>1 DEF AfterNo, Prompt, Leaving, Phase, InFlight, Running, Over
  <1>3. Locked'
    <2>1. \A q \in Queries : pc'[q] \in Running => InFlight(q)
      BY <1>1, <1>2 DEF InFlight, Running
    <2> QED
      BY <2>1 DEF ChainInv, Locked, InFlight
  <1>4. Attended'
    <2> SUFFICES ASSUME NEW q \in Queries, pc'[q] \in {"asking", "acting"}
                 PROVE  ConnOf[q] \notin closed'
      BY DEF Attended, Open
    <2>1. CASE ConnOf[q] = c
      <3>1. CASE InFlight(q) \/ pc[q] = "queued"
        BY <1>1, <1>2, <2>1, <3>1
      <3>2. CASE ~(InFlight(q) \/ pc[q] = "queued")
        BY <1>1, <3>2 DEF InFlight, Running
      <3> QED
        BY <3>1, <3>2
    <2>2. CASE ConnOf[q] # c
      BY <1>1, <2>2 DEF ChainInv, Attended, Open
    <2> QED
      BY <2>1, <2>2
  <1>5. \A q \in Queries \ mine : Phase(q)' = Phase(q)
    <2> SUFFICES ASSUME NEW q \in Queries, ConnOf[q] # c PROVE Phase(q)' = Phase(q)
      OBVIOUS
    <2>1. pc'[q] = pc[q]
      BY <1>1
    <2> QED
      BY <1>1, <2>1, PhaseStays DEF ChainInv
  <1>6. \A q \in mine : Phase(q)' \in Chain!AfterLeaving(q)
    <2> SUFFICES ASSUME NEW q \in Queries, ConnOf[q] = c
                 PROVE  Phase(q)' \in Chain!AfterLeaving(q)
      OBVIOUS
    <2>1. phases[q] = Phase(q)
      OBVIOUS
    <2>2. CASE pc[q] = "asking"
      <3>1. pc'[q] = AfterNo(why[q])
        BY <1>1, <1>2, <2>2
      <3>2. CASE why[q] = "rebuild"
        BY <1>2, <2>1, <2>2, <3>1, <3>2 DEF Chain!AfterLeaving, Phase, Over
      <3>3. CASE why[q] # "rebuild"
        <4>1. Phase(q) = "before" /\ Phase(q)' = "before"
          BY <1>2, <2>2, <3>1, <3>3 DEF Phase, Over
        <4> QED
          BY <2>1, <4>1 DEF Chain!AfterLeaving
      <3> QED
        BY <3>2, <3>3
    <2>3. CASE pc[q] # "asking" /\ (InFlight(q) \/ pc[q] = "queued")
      <3>1. pc'[q] = "ended" /\ Phase(q)' = "over"
        BY <1>1, <2>3 DEF Phase, Over
      <3>2. Phase(q) # "asking"
        BY <2>3 DEF Phase
      <3> QED
        BY <2>1, <3>1, <3>2 DEF Chain!AfterLeaving
    <2>4. CASE pc[q] # "asking" /\ ~(InFlight(q) \/ pc[q] = "queued")
      <3>1. pc'[q] = pc[q] /\ pc[q] \in {"new", "ended"}
        BY <1>1, <2>4 DEF ChainInv, IInv, TypeOK, InFlight
      <3>2. Phase(q)' = Phase(q) /\ Phase(q) \in {"before", "over"}
        BY <3>1 DEF Phase, Over
      <3> QED
        BY <2>1, <3>2 DEF Chain!AfterLeaving
    <2> QED
      BY <2>2, <2>3, <2>4
  <1>7. Gone' = Gone \cup mine /\ mine \cap Gone = {}
    BY <1>1 DEF Gone, Open
  <1>8. phases' \in [Queries -> Chain!Phase]
    <2>1. \A q \in Queries : Phase(q)' \in Chain!Phase
      BY <1>5, <1>6, PhaseIsTyped DEF Chain!AfterLeaving, Chain!Phase
    <2> QED
      BY <2>1
  <1>9. \A q \in Queries : IF q \in mine THEN phases'[q] \in Chain!AfterLeaving(q)
                                         ELSE phases'[q] = phases[q]
    BY <1>5, <1>6
  <1>10. Chain!Leave(mine)
    <2> HIDE DEF mine
    <2> QED
      BY <1>7, <1>8, <1>9 DEF Chain!Leave
  <1> QED
    BY <1>3, <1>4, <1>10 DEF Chain!Next

\* Every step of the dispatch is one of the chain's, or none of its business.
LEMMA StepInTheChain ==
  ASSUME ChainInv, [Next]_vars
  PROVE  [Chain!Next]_(Chain!chainVars) /\ ChainInv'
  <1>1. IInv'
    BY NextInvariant, StepsKeepIt DEF ChainInv
  <1>2. ASSUME NEW q \in Queries, TaskStep(q) \/ ClientStep(q)
        PROVE  [Chain!Next]_(Chain!chainVars) /\ Locked' /\ Attended'
    BY <1>2, EachGoesAsPromised, OneGoesInTheChain
  <1>3. ASSUME NEW c \in Conns, Disconnect(c)
        PROVE  [Chain!Next]_(Chain!chainVars) /\ Locked' /\ Attended'
    BY <1>3, DisconnectInTheChain
  <1>4. ASSUME UNCHANGED <<pc, why, closed>>
        PROVE  [Chain!Next]_(Chain!chainVars) /\ Locked' /\ Attended'
    <2>1. \A q \in Queries : Phase(q)' = Phase(q)
      BY <1>4, PhaseStays DEF ChainInv
    <2>2. UNCHANGED Chain!chainVars
      BY <1>4, <2>1 DEF Chain!chainVars, Gone, Open
    <2> QED
      BY <1>4, <2>2 DEF ChainInv, Locked, Attended, InFlight, Open
  <1>5. ASSUME (\E c \in Conns : StopReading(c) \/ ReadOn(c)) \/ LocalChanges \/ UNCHANGED vars
        PROVE  UNCHANGED <<pc, why, closed>>
    BY <1>5 DEF StopReading, ReadOn, LocalChanges, locals, links, vars
  <1> QED
    BY <1>1, <1>2, <1>3, <1>4, <1>5 DEF Next, ChainInv

\* The dispatch starts with nobody in the chain.
LEMMA StartsBeforeTheChain ==
  ASSUME Init
  PROVE  Chain!Init /\ ChainInv
  <1>1. \A q \in Queries : Phase(q) = "before"
    BY DEF Init, Phase, Over
  <1>2. Gone = {}
    BY DEF Init, Gone, Open
  <1>3. Locked /\ Attended
    BY DEF Init, Locked, Attended, InFlight, Running
  <1> QED
    BY <1>1, <1>2, <1>3, InitInvariant, OriginAssumption DEF Chain!Init, ChainInv

\* Whatever connections, locks, prompts and cancels do, a query goes through the remote
\* chain as RemoteChain promises: alone in its conversation, to a rebuild only over its
\* user's yes, and from a prompt never straight to its end (server._dispatch,
\* ClientConn.confirm).
THEOREM KeepsTheChain == Spec => Chain!Spec
  BY StartsBeforeTheChain, StepInTheChain, PTL DEF Spec, Chain!Spec

\* One query of a session is in the chain at a time, and a prompt or the wait for a rebuild
\* is that of a client whose connection is open (server._dispatch, ConnectionManager): the
\* task ends with its connection, while the helper may rebuild on.
THEOREM WaitsEndWithTheClient == Spec => [](Chain!OneAtATime /\ Chain!NobodyWaitsForTheGone)
  <1>1. ChainInv => Chain!OneAtATime
    BY PhaseIsTyped DEF ChainInv, Locked, Chain!OneAtATime
  <1>2. ChainInv => Chain!NobodyWaitsForTheGone
    BY PhaseIsTyped DEF ChainInv, Attended, Gone, Chain!NobodyWaitsForTheGone
  <1> QED
    BY <1>1, <1>2, StartsBeforeTheChain, StepInTheChain, PTL DEF Spec
=============================================================================
