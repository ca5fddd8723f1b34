----------------------------- MODULE AgentProofs -----------------------------
(***************************************************************************)
(* Proofs about the agent loop and its safety gate, for any queries and    *)
(* sessions, and for turns and rounds of any length.  That a switch was    *)
(* tested rests on the session's lock (SessionLock): between the gate's    *)
(* look at the mark and the end of the switch nobody else of the session   *)
(* can take the mark away.                                                 *)
(***************************************************************************)
EXTENDS Agent, TLAPS

\* One query of a session runs at a time.
SessionLock ==
  \A q, u \in Queries :
    session[q] = session[u] /\ pc[q] \in Running /\ pc[u] \in Running => q = u

\* The session's mark is what its last test reported.
MarkIsTrue == testOk = passed

\* A switch that waits for its yes, or runs, has found its session's mark set.
GateHolds ==
  \A q \in Queries :
    pc[q] \in {"prompt", "helper"} /\ Head(calls[q]) = "switch" => session[q] \in testOk

\* An escalated query never awaits the context.
NoContext == \A q \in escalated : pc[q] # "gathering"

IInv ==
  /\ TypeOK
  /\ SessionLock /\ MarkIsTrue /\ GateHolds
  /\ NoContext /\ OnlyReviewedLeaves

-----------------------------------------------------------------------------
(* The initial states, and what a step may change.                         *)

\* The initial states satisfy the whole invariant.
LEMMA InitInvariant == Init => IInv
  <1> SUFFICES ASSUME Init PROVE IInv
    OBVIOUS
  <1>1. TypeOK
    <2>1. <<>> \in Seq(Calls)
      OBVIOUS
    <2>2. \A q \in Queries : calls[q] = <<>> /\ pc[q] = "new"
      BY DEF Init
    <2> QED
      BY <2>1, <2>2, AgentBounds DEF Init, TypeOK
  <1>2. SessionLock /\ MarkIsTrue /\ GateHolds
    BY DEF Init, SessionLock, MarkIsTrue, GateHolds, Running, Awaiting
  <1>3. NoContext /\ OnlyReviewedLeaves
    BY DEF Init, NoContext, OnlyReviewedLeaves
  <1> QED
    BY <1>1, <1>2, <1>3 DEF IInv

\* A turn of the model is a sequence of calls that is not empty.
LEMMA TurnsAreSequences == \A w \in Turns : w \in Seq(Calls) /\ w # <<>>
  <1> SUFFICES ASSUME NEW n \in 1..MaxCalls, NEW w \in [1..n -> Calls]
               PROVE  w \in Seq(Calls) /\ w # <<>>
    BY DEF Turns
  <1>1. n \in Nat /\ n >= 1
    BY AgentBounds
  <1>2. w \in Seq(Calls) /\ Len(w) = n
    BY <1>1
  <1> QED
    BY <1>1, <1>2

\* The others stay where they are, with their calls and their texts, and nobody
\* changes session.
OthersStay(q) ==
  /\ \A u \in Queries \ {q} :
       pc'[u] = pc[u] /\ calls'[u] = calls[u] /\ texts'[u] = texts[u]
  /\ UNCHANGED given

\* An interrupted query goes on at a prompt and ends elsewhere.
LEMMA InterruptIsOneOfTwo ==
  ASSUME NEW q \in Queries, Interrupt(q)
  PROVE  \/ pc[q] = "prompt" /\ NextCall(q) /\ UNCHANGED <<texts, rounds>>
         \/ pc[q] # "prompt" /\ Ends(q)
  BY DEF Interrupt

\* Whatever a query does, it does to itself.
LEMMA StepOfOne ==
  ASSUME TypeOK, NEW q \in Queries, ChainStep(q) \/ UserStep(q)
  PROVE  OthersStay(q)
  <1> USE DEF OthersStay, TypeOK, Goto, Sends, Wants, given
  <1>a. Ends(q) => \A u \in Queries \ {q} :
          pc'[u] = pc[u] /\ calls'[u] = calls[u] /\ texts'[u] = texts[u]
    BY DEF Ends
  <1>b. NextCall(q) => \A u \in Queries \ {q} : pc'[u] = pc[u] /\ calls'[u] = calls[u]
    BY DEF NextCall
  <1>c. Interrupt(q) => \A u \in Queries \ {q} :
          pc'[u] = pc[u] /\ calls'[u] = calls[u] /\ texts'[u] = texts[u]
    BY <1>a, <1>b, InterruptIsOneOfTwo
  <1>1. CASE Start(q)          BY <1>1 DEF Start, Opening
  <1>2. CASE Gathered(q)       BY <1>2 DEF Gathered
  <1>3. CASE Answered(q)       BY <1>3, <1>a DEF Answered
  <1>4. CASE UnknownTool(q)    BY <1>4, <1>b DEF UnknownTool, Remark
  <1>5. CASE InvalidCall(q)    BY <1>5, <1>a DEF InvalidCall
  <1>6. CASE Untested(q)       BY <1>6, <1>b DEF Untested, Remark
  <1>7. CASE Ask(q)
    <2>1. CASE q \in mute      BY <1>7, <2>1, <1>a DEF Ask
    <2>2. CASE q \notin mute   BY <1>7, <2>2 DEF Ask
    <2> QED                    BY <2>1, <2>2
  <1>8. CASE Fetch(q)          BY <1>8 DEF Fetch
  <1>9. CASE Fetched(q)        BY <1>9, <1>b DEF Fetched, Result
  <1>10. CASE Rebuild(q)       BY <1>10 DEF Rebuild
  <1>11. CASE NoStatus(q)      BY <1>11, <1>a DEF NoStatus
  <1>12. ASSUME NEW ok \in BOOLEAN, Rebuilt(q, ok) PROVE OthersStay(q)
    BY <1>12, <1>b DEF Rebuilt, Result
  <1>13. ASSUME NEW w \in Turns, Turn(q, w) PROVE OthersStay(q)
    BY <1>13 DEF Turn
  <1>14. CASE SayYes(q)        BY <1>14 DEF SayYes
  <1>15. CASE SayNo(q)         BY <1>15, <1>b DEF SayNo, Remark
  <1>16. CASE Cancel(q)        BY <1>16, <1>c DEF Cancel
  <1>17. CASE Leave(q)         BY <1>17, <1>c DEF Leave
  <1> QED
    BY <1>1, <1>2, <1>3, <1>4, <1>5, <1>6, <1>7, <1>8, <1>9, <1>10, <1>11, <1>12, <1>13,
       <1>14, <1>15, <1>16, <1>17 DEF ChainStep, ToolStep, UserStep

-----------------------------------------------------------------------------
(* Types.                                                                  *)

\* What one query's calls and its place say of each other.
CallAtHand(q) ==
  /\ (calls[q] # <<>>) = (pc[q] \in {"calling", "fetch", "helper", "prompt"})
  /\ pc[q] = "helper" => Head(calls[q]) \in Rebuilds
  /\ pc[q] = "prompt" => Head(calls[q]) \in {"switch", "boot"}

\* The records of a query's conversation.
Shapes ==
  /\ pc \in [Queries -> Running \cup {"new", "ended"}]
  /\ calls \in [Queries -> Seq(Calls)]
  /\ rounds \in [Queries -> 0..MaxRounds]
  /\ texts \in [Queries -> SUBSET Texts]

\* Dropping the head of a sequence that has one.
LEMMA TailOfCalls ==
  ASSUME NEW s \in Seq(Calls), s # <<>>
  PROVE  /\ Head(s) \in Calls /\ Tail(s) \in Seq(Calls)
         /\ Tail(s) # <<>> <=> Len(s) > 1
  OBVIOUS

\* The end of a task leaves the records in shape.
LEMMA EndsIsTyped ==
  ASSUME TypeOK, NEW q \in Queries, Ends(q)
  PROVE  Shapes' /\ CallAtHand(q)'
  <1>1. <<>> \in Seq(Calls) /\ 0 \in 0..MaxRounds
    BY AgentBounds
  <1>2. calls'[q] = <<>> /\ pc'[q] = "ended"
    BY DEF Ends, TypeOK
  <1>3. Shapes'
    BY <1>1 DEF Ends, TypeOK, Shapes
  <1> QED
    BY <1>2, <1>3 DEF CallAtHand

\* Dropping the call at the head, with the next call or the model next.
LEMMA NextCallIsTyped ==
  ASSUME TypeOK, NEW q \in Queries, NextCall(q), calls[q] # <<>>
  PROVE  /\ pc' \in [Queries -> Running \cup {"new", "ended"}]
         /\ calls' \in [Queries -> Seq(Calls)]
         /\ CallAtHand(q)'
         /\ pc'[q] \in {"calling", "model"}
  <1>1. calls[q] \in Seq(Calls)
    BY DEF TypeOK
  <1>2. /\ Tail(calls[q]) \in Seq(Calls)
        /\ Tail(calls[q]) # <<>> <=> Len(calls[q]) > 1
    BY <1>1, TailOfCalls
  <1>3. calls'[q] = Tail(calls[q]) /\ calls' \in [Queries -> Seq(Calls)]
    BY <1>2 DEF NextCall, TypeOK
  <1>4. ASSUME NEW next \in {"calling", "model"}, pc' = [pc EXCEPT ![q] = next],
               Len(calls[q]) > 1 <=> next = "calling"
        PROVE  pc' \in [Queries -> Running \cup {"new", "ended"}] /\ CallAtHand(q)'
                 /\ pc'[q] \in {"calling", "model"}
    <2>1. next \in Running
      BY DEF Running, Awaiting
    <2>2. pc' \in [Queries -> Running \cup {"new", "ended"}] /\ pc'[q] = next
      BY <1>4, <2>1 DEF TypeOK
    <2>3. calls'[q] # <<>> <=> next = "calling"
      BY <1>2, <1>3, <1>4
    <2>4. (calls'[q] # <<>>) = (next \in {"calling", "fetch", "helper", "prompt"})
      BY <2>3
    <2> QED
      BY <2>2, <2>4 DEF CallAtHand
  <1>5. CASE Len(calls[q]) > 1
    <2>1. pc' = [pc EXCEPT ![q] = "calling"]
      BY <1>5 DEF NextCall
    <2> QED
      BY <1>3, <1>4, <1>5, <2>1
  <1>6. CASE ~(Len(calls[q]) > 1)
    <2>1. pc' = [pc EXCEPT ![q] = "model"]
      BY <1>6 DEF NextCall
    <2> QED
      BY <1>3, <1>4, <1>6, <2>1
  <1> QED
    BY <1>5, <1>6

\* A query's own step keeps the records in shape.
LEMMA StepIsTyped ==
  ASSUME TypeOK, NEW q \in Queries, ChainStep(q) \/ UserStep(q)
  PROVE  Shapes' /\ CallAtHand(q)'
  <1>a. Shapes /\ CallAtHand(q)
    BY DEF TypeOK, Shapes, CallAtHand
  <1>b. Remark(q) /\ calls[q] # <<>> => Shapes' /\ CallAtHand(q)'
    BY <1>a, NextCallIsTyped DEF Remark, Shapes
  <1>c. ResultText(q) \in Texts
    BY DEF ResultText, Texts
  <1>d. Result(q) /\ calls[q] # <<>> => Shapes' /\ CallAtHand(q)'
    <2> SUFFICES ASSUME Result(q), calls[q] # <<>> PROVE Shapes' /\ CallAtHand(q)'
      OBVIOUS
    <2>1. texts' \in [Queries -> SUBSET Texts]
      BY <1>a, <1>c DEF Result, Sends, Shapes
    <2> QED
      BY <1>a, <2>1, NextCallIsTyped DEF Result, Shapes
  <1>e. Interrupt(q) => Shapes' /\ CallAtHand(q)'
    <2>1. CASE pc[q] = "prompt" /\ NextCall(q) /\ UNCHANGED <<texts, rounds>>
      <3>1. calls[q] # <<>>
        BY <2>1, <1>a DEF CallAtHand
      <3> QED
        BY <1>a, <2>1, <3>1, NextCallIsTyped DEF Shapes
    <2> QED
      BY <2>1, InterruptIsOneOfTwo, EndsIsTyped
  <1>f. Wants(q, "unknown") \/ Wants(q, "switch") \/ pc[q] \in {"fetch", "helper", "prompt"}
          => calls[q] # <<>>
    BY <1>a DEF Wants, CallAtHand
  <1> USE DEF Shapes, CallAtHand, Goto, Sends, Wants, Running, Awaiting, Texts
  <1>1. CASE Start(q)
    <2>1. PICK p \in {"model", "gathering"}, t \in {"redacted", "query"} :
            Goto(q, "new", p) /\ Sends(q, t)
      BY <1>1 DEF Start, Opening
    <2> QED
      BY <1>a, <1>1, <2>1 DEF Start
  <1>2. CASE Gathered(q)       BY <1>a, <1>2 DEF Gathered
  <1>3. CASE Answered(q)       BY <1>3, EndsIsTyped DEF Answered
  <1>4. CASE UnknownTool(q)    BY <1>4, <1>b, <1>f DEF UnknownTool
  <1>5. CASE InvalidCall(q)    BY <1>5, EndsIsTyped DEF InvalidCall
  <1>6. CASE Untested(q)       BY <1>6, <1>b, <1>f DEF Untested
  <1>7. CASE Ask(q)
    <2>1. CASE q \in mute      BY <1>7, <2>1, EndsIsTyped DEF Ask
    <2>2. CASE q \notin mute   BY <1>a, <1>7, <2>2 DEF Ask
    <2> QED                    BY <2>1, <2>2
  <1>8. CASE Fetch(q)          BY <1>a, <1>8 DEF Fetch
  <1>9. CASE Fetched(q)        BY <1>9, <1>d, <1>f DEF Fetched
  <1>10. CASE Rebuild(q)       BY <1>a, <1>10 DEF Rebuild, Rebuilds
  <1>11. CASE NoStatus(q)      BY <1>11, EndsIsTyped DEF NoStatus
  <1>12. ASSUME NEW ok \in BOOLEAN, Rebuilt(q, ok) PROVE Shapes' /\ CallAtHand(q)'
    BY <1>12, <1>d, <1>f DEF Rebuilt
  <1>13. ASSUME NEW w \in Turns, Turn(q, w) PROVE Shapes' /\ CallAtHand(q)'
    <2>1. w \in Seq(Calls) /\ w # <<>>
      BY TurnsAreSequences
    <2>2. rounds' \in [Queries -> 0..MaxRounds]
      BY <1>a, <1>13, AgentBounds DEF Turn
    <2> QED
      BY <1>a, <1>13, <2>1, <2>2 DEF Turn
  <1>14. CASE SayYes(q)        BY <1>a, <1>14 DEF SayYes, Rebuilds
  <1>15. CASE SayNo(q)         BY <1>15, <1>b, <1>f DEF SayNo
  <1>16. CASE Cancel(q)        BY <1>16, <1>e DEF Cancel
  <1>17. CASE Leave(q)         BY <1>17, <1>e DEF Leave
  <1> QED
    BY <1>1, <1>2, <1>3, <1>4, <1>5, <1>6, <1>7, <1>8, <1>9, <1>10, <1>11, <1>12, <1>13,
       <1>14, <1>15, <1>16, <1>17 DEF ChainStep, ToolStep, UserStep

-----------------------------------------------------------------------------
(* The session's lock and the gate.                                        *)

\* Only a start begins to run, and it finds its session free.
LEMMA OnlyStartsBegin ==
  ASSUME TypeOK, NEW q \in Queries, ChainStep(q) \/ UserStep(q), pc[q] \notin Running
  PROVE  SessionFree(q)
  <1> USE DEF Goto, Wants, Running, Awaiting
  <1>1. pc[q] = "new" \/ pc[q] = "ended"
    BY DEF TypeOK
  <1>2. Start(q)
    BY <1>1 DEF ChainStep, ToolStep, UserStep, Gathered, Answered, UnknownTool, InvalidCall,
       Untested, Ask, Fetch, Fetched, Rebuild, NoStatus, Rebuilt, Turn, SayYes, SayNo,
       Cancel, Leave
  <1> QED
    BY <1>2 DEF Start

\* The query that takes a step is alone in its session.
LEMMA StepsAlone ==
  ASSUME TypeOK, SessionLock, NEW q \in Queries, ChainStep(q) \/ UserStep(q),
         NEW u \in Queries \ {q}, session[u] = session[q]
  PROVE  pc[u] \notin Running
  <1>1. CASE pc[q] \in Running
    BY <1>1 DEF SessionLock
  <1>2. CASE pc[q] \notin Running
    BY <1>2, OnlyStartsBegin DEF SessionFree
  <1> QED
    BY <1>1, <1>2

\* No step lets two queries of a session run.
LEMMA LockStep ==
  ASSUME TypeOK, SessionLock, NEW q \in Queries, ChainStep(q) \/ UserStep(q)
  PROVE  SessionLock'
  <1>1. session' = session /\ \A u \in Queries \ {q} : pc'[u] = pc[u]
    BY StepOfOne DEF OthersStay, given
  <1>2. \A u \in Queries \ {q} : session[u] = session[q] => pc[u] \notin Running
    BY StepsAlone
  <1> QED
    BY <1>1, <1>2 DEF SessionLock

\* A report changes the mark and the record of the last test alike, for the
\* query's own session; nothing else changes either.
LEMMA MarkStep ==
  ASSUME TypeOK, MarkIsTrue, NEW q \in Queries, ChainStep(q) \/ UserStep(q)
  PROVE  /\ MarkIsTrue'
         /\ testOk' \subseteq Sessions
         /\ \A s \in testOk : s # session[q] => s \in testOk'
         /\ ~(\E ok \in BOOLEAN : Rebuilt(q, ok)) => testOk' = testOk
  <1>1. ASSUME NEW ok \in BOOLEAN, Rebuilt(q, ok)
        PROVE  /\ testOk' = passed'
               /\ testOk' \subseteq Sessions
               /\ \A s \in testOk : s # session[q] => s \in testOk'
    <2>1. session[q] \in Sessions /\ testOk \subseteq Sessions /\ testOk = passed
      BY DEF TypeOK, MarkIsTrue
    <2>2. CASE Head(calls[q]) # "test"
      BY <1>1, <2>1, <2>2 DEF Rebuilt, Record
    <2>3. CASE Head(calls[q]) = "test" /\ ok
      BY <1>1, <2>1, <2>3 DEF Rebuilt, Record
    <2>4. CASE Head(calls[q]) = "test" /\ ~ok
      BY <1>1, <2>1, <2>4 DEF Rebuilt, Record
    <2> QED
      BY <2>2, <2>3, <2>4
  <1>2. ASSUME ~(\E ok \in BOOLEAN : Rebuilt(q, ok)) PROVE UNCHANGED gate
    BY <1>2 DEF ChainStep, ToolStep, UserStep, Start, Gathered, Answered, UnknownTool,
       InvalidCall, Untested, Ask, Fetch, Fetched, Rebuild, NoStatus, Turn, SayYes, SayNo,
       Cancel, Leave, Remark
  <1> QED
    BY <1>1, <1>2 DEF gate, MarkIsTrue, TypeOK

\* A query that waits for a yes or rebuilds after its step was let through by
\* the gate, asked before, or wants no switch.
LEMMA OnlyTheGateLetsThrough ==
  ASSUME TypeOK, NEW q \in Queries, ChainStep(q) \/ UserStep(q),
         pc'[q] \in {"prompt", "helper"}, Head(calls'[q]) = "switch"
  PROVE  /\ calls'[q] = calls[q]
         /\ session[q] \in testOk \/ pc[q] = "prompt"
         /\ ~(\E ok \in BOOLEAN : Rebuilt(q, ok))
  <1> USE DEF TypeOK, Goto, Wants
  <1>a. ~Ends(q)
    BY DEF Ends
  <1>b. ~(calls[q] # <<>> /\ NextCall(q))
    BY NextCallIsTyped
  <1>c. ~(pc[q] \in {"calling", "fetch", "helper", "prompt"} /\ NextCall(q))
    BY <1>b
  <1>d. ~Interrupt(q)
    BY <1>a, <1>c, InterruptIsOneOfTwo
  <1>1. ~Start(q)              BY DEF Start, Opening
  <1>2. ~Gathered(q)           BY DEF Gathered
  <1>3. ~Answered(q)           BY <1>a DEF Answered
  <1>4. ~UnknownTool(q)        BY <1>c DEF UnknownTool, Remark
  <1>5. ~InvalidCall(q)        BY <1>a DEF InvalidCall
  <1>6. ~Untested(q)           BY <1>c DEF Untested, Remark
  <1>7. Ask(q) => calls'[q] = calls[q] /\ session[q] \in testOk
    BY <1>a DEF Ask
  <1>8. ~Fetch(q)              BY DEF Fetch
  <1>9. ~Fetched(q)            BY <1>c DEF Fetched, Result
  <1>10. ~Rebuild(q)           BY DEF Rebuild
  <1>11. ~NoStatus(q)          BY <1>a DEF NoStatus
  <1>12. ~(\E ok \in BOOLEAN : Rebuilt(q, ok))
    BY <1>c DEF Rebuilt, Result
  <1>13. ~(\E w \in Turns : Turn(q, w))
    BY DEF Turn
  <1>14. SayYes(q) => calls'[q] = calls[q] /\ pc[q] = "prompt"
    BY DEF SayYes
  <1>15. ~SayNo(q)             BY <1>c DEF SayNo, Remark
  <1>16. ~Cancel(q)            BY <1>d DEF Cancel
  <1>17. ~Leave(q)             BY <1>d DEF Leave
  <1> QED
    BY <1>1, <1>2, <1>3, <1>4, <1>5, <1>6, <1>7, <1>8, <1>9, <1>10, <1>11, <1>12, <1>13,
       <1>14, <1>15, <1>16, <1>17 DEF ChainStep, ToolStep, UserStep

\* The mark of a session that waits to switch, or switches, stays set.
LEMMA GateStep ==
  ASSUME TypeOK, SessionLock, MarkIsTrue, GateHolds,
         NEW q \in Queries, ChainStep(q) \/ UserStep(q)
  PROVE  GateHolds'
  <1>1. session' = session
    BY StepOfOne DEF OthersStay, given
  <1>2. ASSUME NEW u \in Queries \ {q},
               pc'[u] \in {"prompt", "helper"}, Head(calls'[u]) = "switch"
        PROVE  session[u] \in testOk'
    <2>1. pc'[u] = pc[u] /\ calls'[u] = calls[u]
      BY StepOfOne DEF OthersStay
    <2>2. session[u] \in testOk /\ pc[u] \in Running
      BY <1>2, <2>1 DEF GateHolds, Running, Awaiting
    <2>3. session[u] # session[q]
      BY <2>2, StepsAlone
    <2> QED
      BY <2>2, <2>3, MarkStep
  <1>3. ASSUME pc'[q] \in {"prompt", "helper"}, Head(calls'[q]) = "switch"
        PROVE  session[q] \in testOk'
    <2>1. /\ calls'[q] = calls[q]
          /\ session[q] \in testOk \/ pc[q] = "prompt"
          /\ testOk' = testOk
      BY <1>3, OnlyTheGateLetsThrough, MarkStep
    <2> QED
      BY <1>3, <2>1 DEF GateHolds
  <1> QED
    BY <1>1, <1>2, <1>3 DEF GateHolds

-----------------------------------------------------------------------------
(* What leaves the device.                                                 *)

\* An escalated query never gathers context, and adds scrubbed text alone.
LEMMA ReviewStep ==
  ASSUME TypeOK, NoContext, OnlyReviewedLeaves,
         NEW q \in Queries, ChainStep(q) \/ UserStep(q)
  PROVE  NoContext' /\ OnlyReviewedLeaves'
  <1>1. /\ escalated' = escalated
        /\ \A u \in Queries \ {q} : pc'[u] = pc[u] /\ texts'[u] = texts[u]
    BY StepOfOne DEF OthersStay, given
  <1>2. ASSUME q \in escalated
        PROVE  pc'[q] # "gathering" /\ texts'[q] \subseteq {"redacted", "scrubbed"}
    <2>a. pc[q] # "gathering" /\ texts[q] \subseteq {"redacted", "scrubbed"}
      BY <1>2 DEF NoContext, OnlyReviewedLeaves
    <2> USE <2>a DEF TypeOK, Goto, Wants
    <2> DEFINE Fine == pc'[q] # "gathering" /\ texts'[q] \subseteq {"redacted", "scrubbed"}
    <2>b. Ends(q) => Fine
      BY DEF Ends
    <2>c. pc[q] \in {"calling", "fetch", "helper", "prompt"} /\ NextCall(q)
            => pc'[q] # "gathering"
      BY NextCallIsTyped
    <2>d. Remark(q) /\ pc[q] = "calling" => Fine
      BY <2>c DEF Remark
    <2>e. Result(q) /\ pc[q] \in {"fetch", "helper"} => Fine
      BY <1>2, <2>c DEF Result, Sends, ResultText
    <2>f. Interrupt(q) => Fine
      BY <2>b, <2>c, InterruptIsOneOfTwo
    <2>1. Start(q) => Fine          BY <1>2 DEF Start, Opening, Sends
    <2>2. ~Gathered(q)              BY DEF Gathered
    <2>3. Answered(q) => Fine       BY <2>b DEF Answered
    <2>4. UnknownTool(q) => Fine    BY <2>d DEF UnknownTool
    <2>5. InvalidCall(q) => Fine    BY <2>b DEF InvalidCall
    <2>6. Untested(q) => Fine       BY <2>d DEF Untested
    <2>7. Ask(q) => Fine            BY <2>b DEF Ask
    <2>8. Fetch(q) => Fine          BY DEF Fetch
    <2>9. Fetched(q) => Fine        BY <2>e DEF Fetched
    <2>10. Rebuild(q) => Fine       BY DEF Rebuild
    <2>11. NoStatus(q) => Fine      BY <2>b DEF NoStatus
    <2>12. ASSUME NEW ok \in BOOLEAN, Rebuilt(q, ok) PROVE Fine
      BY <2>12, <2>e DEF Rebuilt
    <2>13. ASSUME NEW w \in Turns, Turn(q, w) PROVE Fine
      BY <2>13 DEF Turn
    <2>14. SayYes(q) => Fine        BY DEF SayYes
    <2>15. SayNo(q) => Fine         BY <2>c DEF SayNo, Remark
    <2>16. Cancel(q) => Fine        BY <2>f DEF Cancel
    <2>17. Leave(q) => Fine         BY <2>f DEF Leave
    <2> HIDE DEF Fine
    <2>18. Fine
      BY <2>1, <2>2, <2>3, <2>4, <2>5, <2>6, <2>7, <2>8, <2>9, <2>10, <2>11, <2>12, <2>13,
         <2>14, <2>15, <2>16, <2>17 DEF ChainStep, ToolStep, UserStep
    <2> QED
      BY <2>18 DEF Fine
  <1> QED
    BY <1>1, <1>2 DEF TypeOK, NoContext, OnlyReviewedLeaves

-----------------------------------------------------------------------------
(* The theorems.                                                           *)

\* A step of any query keeps the type invariant.
LEMMA TypeStep ==
  ASSUME TypeOK, MarkIsTrue, NEW q \in Queries, ChainStep(q) \/ UserStep(q)
  PROVE  TypeOK'
  <1>1. Shapes' /\ CallAtHand(q)'
    BY StepIsTyped
  <1>2. /\ session' = session /\ escalated' = escalated
        /\ \A u \in Queries \ {q} : pc'[u] = pc[u] /\ calls'[u] = calls[u]
    BY StepOfOne DEF OthersStay, given
  <1>3. \A u \in Queries : CallAtHand(u)'
    BY <1>1, <1>2 DEF CallAtHand, TypeOK
  <1>4. {testOk', passed'} \subseteq SUBSET Sessions
    BY MarkStep DEF MarkIsTrue
  <1>5. {stopped', mute'} \subseteq SUBSET Queries
    BY DEF TypeOK, ChainStep, ToolStep, UserStep, Start, Gathered, Answered, UnknownTool,
       InvalidCall, Untested, Ask, Fetch, Fetched, Rebuild, NoStatus, Rebuilt, Turn, SayYes,
       SayNo, Cancel, Leave, Remark, user
  <1> QED
    BY <1>1, <1>2, <1>3, <1>4, <1>5 DEF TypeOK, Shapes, CallAtHand

\* Every step keeps the whole invariant.
LEMMA NextInvariant == IInv /\ [Next]_vars => IInv'
  <1> SUFFICES ASSUME IInv, [Next]_vars PROVE IInv'
    OBVIOUS
  <1>1. CASE Next
    <2>1. PICK q \in Queries : ChainStep(q) \/ UserStep(q)
      BY <1>1 DEF Next
    <2> QED
      BY <2>1, TypeStep, LockStep, MarkStep, GateStep, ReviewStep DEF IInv
  <1>2. CASE UNCHANGED vars
    BY <1>2 DEF IInv, vars, TypeOK, SessionLock, MarkIsTrue, GateHolds, NoContext,
       OnlyReviewedLeaves
  <1> QED
    BY <1>1, <1>2

\* The invariant holds in every reachable state.
LEMMA Invariant == Spec => []IInv
  BY InitInvariant, NextInvariant, PTL DEF Spec

\* The type invariant holds in every reachable state.
THEOREM TypeCorrect == Spec => []TypeOK
  <1>1. IInv => TypeOK
    BY DEF IInv
  <1> QED
    BY <1>1, Invariant, PTL

\* While a switch runs, the last test its session reported passed: the gate
\* holds across the prompt and the rebuild (safety.SafetyGate.rebuild).
THEOREM SwitchTested == Spec => []SwitchIsTested
  <1>1. IInv => SwitchIsTested
    BY DEF IInv, MarkIsTrue, GateHolds, SwitchIsTested
  <1> QED
    BY <1>1, Invariant, PTL

\* Of an escalated query only the reviewed text and scrubbed results are sent,
\* whatever tools the model asks for (server._run_remote).
THEOREM ReviewedOnly == Spec => []OnlyReviewedLeaves
  <1>1. IInv => OnlyReviewedLeaves
    BY DEF IInv
  <1> QED
    BY <1>1, Invariant, PTL

-----------------------------------------------------------------------------
(* The remote chain, as RemoteChain promises it.                           *)

\* Where a query stands in the remote chain: of its rebuilds, test and revert are tools
\* like any other.
Phase(q) ==
  CASE pc[q] = "new" -> "before"
    [] pc[q] = "ended" -> "over"
    [] pc[q] = "prompt" -> "asking"
    [] pc[q] = "helper" /\ Head(calls[q]) \in {"switch", "boot"} -> "awaiting"
    [] OTHER -> "working"

Chain == INSTANCE RemoteChain WITH phase <- [q \in Queries |-> Phase(q)], gone <- mute

ChainInv == IInv /\ Chain!NobodyWaitsForTheGone

\* The moves of one query that RemoteChain has.
Promised(q) ==
  \/ Phase(q)' = Phase(q)
  \/ Phase(q) = "before" /\ Phase(q)' = "working" /\ SessionFree(q)
  \/ Phase(q) = "working" /\ Phase(q)' = "asking" /\ q \notin mute
  \/ Phase(q) = "asking" /\ Phase(q)' = "awaiting" /\ q \notin mute
  \/ Phase(q) \in {"asking", "awaiting"} /\ Phase(q)' = "working"
  \/ Phase(q) \in {"working", "awaiting"} /\ Phase(q)' = "over"

\* A query in the chain runs; its phase is one of RemoteChain's.
LEMMA PhaseIsTyped ==
  ASSUME TypeOK, NEW q \in Queries
  PROVE  /\ Phase(q) \in Chain!Phase
         /\ (Phase(q) \in Chain!Under) = (pc[q] \in Running)
  BY DEF TypeOK, Phase, Chain!Phase, Chain!Under, Running, Awaiting

\* A query with calls left, or none, after a result: it works on.
LEMMA WorksOn ==
  ASSUME TypeOK, NEW q \in Queries, NextCall(q)
  PROVE  Phase(q)' = "working"
  <1>1. pc'[q] \in {"calling", "model"}
    BY DEF NextCall, TypeOK
  <1> QED
    BY <1>1 DEF Phase

\* A query that ends is through with the chain.
LEMMA IsOver ==
  ASSUME TypeOK, NEW q \in Queries, Ends(q)
  PROVE  Phase(q)' = "over"
  <1>1. pc'[q] = "ended"
    BY DEF Ends, TypeOK
  <1> QED
    BY <1>1 DEF Phase

\* Every step of a query is a move it has, or its client leaves.
LEMMA EachMovesAsPromised ==
  ASSUME TypeOK, NEW q \in Queries, ChainStep(q) \/ UserStep(q)
  PROVE  \/ mute' = mute /\ Promised(q)
         \/ Leave(q)
  <1> USE DEF Goto, Wants
  <1>0. pc \in [Queries -> Running \cup {"new", "ended"}] /\ calls \in [Queries -> Seq(Calls)]
    BY DEF TypeOK
  <1>1. CASE Start(q)
    <2>1. /\ pc[q] = "new" /\ pc'[q] \in {"gathering", "model"}
          /\ SessionFree(q) /\ mute' = mute
      BY <1>0, <1>1 DEF Start, Opening, user
    <2> QED
      BY <2>1 DEF Promised, Phase
  <1>2. CASE Gathered(q) \/ (\E wanted \in Turns : Turn(q, wanted)) \/ Fetch(q)
    <2>1. /\ pc[q] \in {"gathering", "model", "calling"} /\ pc'[q] \in {"model", "calling", "fetch"}
          /\ mute' = mute
      BY <1>0, <1>2 DEF Gathered, Turn, Fetch, user
    <2> QED
      BY <2>1 DEF Promised, Phase
  <1>3. CASE Answered(q) \/ InvalidCall(q) \/ NoStatus(q)
    <2>1. Ends(q) /\ mute' = mute /\ pc[q] \in {"model", "calling", "helper"}
      BY <1>3 DEF Answered, InvalidCall, NoStatus, user
    <2> QED
      BY <2>1, IsOver DEF Promised, Phase
  <1>4. CASE \/ UnknownTool(q) \/ Untested(q) \/ Fetched(q) \/ SayNo(q)
             \/ \E ok \in BOOLEAN : Rebuilt(q, ok)
    <2>1. NextCall(q) /\ mute' = mute /\ pc[q] \in {"calling", "fetch", "prompt", "helper"}
      BY <1>4 DEF UnknownTool, Untested, Fetched, SayNo, Rebuilt, Remark, Result, user
    <2> QED
      BY <2>1, WorksOn DEF Promised, Phase
  <1>5. CASE Ask(q)
    <2>1. pc[q] = "calling" /\ mute' = mute
      BY <1>5 DEF Ask, user
    <2>2. CASE q \in mute
      BY <1>5, <2>1, <2>2, IsOver DEF Ask, Promised, Phase
    <2>3. CASE q \notin mute
      <3>1. pc'[q] = "prompt"
        BY <1>0, <1>5, <2>3 DEF Ask
      <3> QED
        BY <2>1, <2>3, <3>1 DEF Promised, Phase
    <2> QED
      BY <2>2, <2>3
  <1>6. CASE Rebuild(q)
    <2>1. /\ pc[q] = "calling" /\ pc'[q] = "helper" /\ mute' = mute
          /\ calls'[q] = calls[q] /\ Head(calls[q]) \in {"test", "revert"}
      BY <1>0, <1>6 DEF Rebuild, user
    <2> QED
      BY <2>1 DEF Promised, Phase
  <1>7. CASE SayYes(q)
    <2>1. /\ pc[q] = "prompt" /\ pc'[q] = "helper" /\ mute' = mute /\ q \notin mute
          /\ calls'[q] = calls[q] /\ Head(calls[q]) \in {"switch", "boot"}
      BY <1>0, <1>7 DEF SayYes, user, TypeOK
    <2> QED
      BY <2>1 DEF Promised, Phase
  <1>8. CASE Cancel(q)
    <2>1. Interrupt(q) /\ mute' = mute /\ pc[q] \in Awaiting
      BY <1>8 DEF Cancel
    <2>2. CASE pc[q] = "prompt"
      BY <2>1, <2>2, WorksOn, InterruptIsOneOfTwo DEF Promised, Phase
    <2>3. CASE pc[q] # "prompt"
      BY <2>1, <2>3, IsOver, InterruptIsOneOfTwo DEF Promised, Phase, Awaiting
    <2> QED
      BY <2>2, <2>3
  <1> QED
    BY <1>1, <1>2, <1>3, <1>4, <1>5, <1>6, <1>7, <1>8 DEF ChainStep, ToolStep, UserStep

\* A step of one query is one of the chain's, or none of its business.
LEMMA OneMovesInTheChain ==
  ASSUME ChainInv, NEW q \in Queries, ChainStep(q) \/ UserStep(q)
  PROVE  [Chain!Next]_(Chain!chainVars) /\ Chain!NobodyWaitsForTheGone'
  <1> DEFINE phases == [u \in Queries |-> Phase(u)]
  <1>0. TypeOK /\ phases[q] = Phase(q)
    BY DEF ChainInv, IInv
  <1>a. mute \subseteq Queries
    BY <1>0 DEF TypeOK
  <1>1. session' = session /\ \A u \in Queries \ {q} : Phase(u)' = Phase(u)
    BY <1>0, StepOfOne DEF OthersStay, given, Phase
  <1>2. ASSUME mute' = mute, Promised(q)
        PROVE  [Chain!Next]_(Chain!chainVars) /\ Chain!NobodyWaitsForTheGone'
    <2>1. phases' = [phases EXCEPT ![q] = Phase(q)']
      BY <1>1
    <2>2. Chain!NobodyWaitsForTheGone'
      <3>1. ASSUME NEW u \in mute
            PROVE  Phase(u) \notin {"asking", "awaiting"} /\ phases'[u] = Phase(u)'
        BY <1>a DEF ChainInv, Chain!NobodyWaitsForTheGone
      <3>2. ASSUME NEW u \in mute
            PROVE  Phase(u)' \notin {"asking", "awaiting"}
        BY <1>a, <1>1, <1>2, <3>1 DEF Promised
      <3> QED
        BY <1>2, <3>1, <3>2 DEF Chain!NobodyWaitsForTheGone
    <2> USE DEF Chain!Goes
    <2>3. CASE Phase(q)' = Phase(q)
      BY <1>1, <1>2, <2>1, <2>2, <2>3 DEF Chain!chainVars
    <2>4. CASE Phase(q) = "before" /\ Phase(q)' = "working" /\ SessionFree(q)
      <3>1. \A u \in Queries : session[u] = session[q] => Phase(u) \notin Chain!Under
        BY <1>0, <2>4, PhaseIsTyped DEF SessionFree
      <3> QED
        BY <1>1, <1>2, <2>1, <2>2, <2>4, <3>1 DEF Chain!Next, Chain!Enter
    <2>5. CASE Phase(q) = "working" /\ Phase(q)' = "asking" /\ q \notin mute
      BY <1>1, <1>2, <2>1, <2>2, <2>5 DEF Chain!Next, Chain!Ask
    <2>6. CASE Phase(q) = "asking" /\ Phase(q)' = "awaiting" /\ q \notin mute
      BY <1>1, <1>2, <2>1, <2>2, <2>6 DEF Chain!Next, Chain!Yes
    <2>7. CASE Phase(q) = "asking" /\ Phase(q)' = "working"
      BY <1>1, <1>2, <2>1, <2>2, <2>7 DEF Chain!Next, Chain!No
    <2>8. CASE Phase(q) = "awaiting" /\ Phase(q)' = "working"
      BY <1>1, <1>2, <2>1, <2>2, <2>8 DEF Chain!Next, Chain!Resumed
    <2>9. CASE Phase(q) \in {"working", "awaiting"} /\ Phase(q)' = "over"
      BY <1>1, <1>2, <2>1, <2>2, <2>9 DEF Chain!Next, Chain!End
    <2> QED
      BY <1>2, <2>3, <2>4, <2>5, <2>6, <2>7, <2>8, <2>9 DEF Promised
  <1>3. CASE Leave(q)
    <2>1. /\ mute' = mute \cup {q} /\ q \notin mute /\ pc[q] \in Awaiting /\ Interrupt(q)
      BY <1>3 DEF Leave
    <2>2. Phase(q)' \in Chain!AfterLeaving(q) /\ Phase(q)' \in {"working", "over"}
      <3>1. CASE pc[q] = "prompt"
        <4>1. Phase(q) = "asking" /\ Phase(q)' = "working"
          BY <1>0, <2>1, <3>1, WorksOn, InterruptIsOneOfTwo DEF Phase
        <4> QED
          BY <1>0, <4>1 DEF Chain!AfterLeaving
      <3>2. CASE pc[q] # "prompt"
        <4>1. Phase(q) \notin {"asking", "before"} /\ Phase(q)' = "over"
          BY <1>0, <2>1, <3>2, IsOver, InterruptIsOneOfTwo DEF Phase, Awaiting
        <4> QED
          BY <1>0, <4>1 DEF Chain!AfterLeaving
      <3> QED
        BY <3>1, <3>2
    <2>3. Chain!NobodyWaitsForTheGone'
      BY <1>1, <2>1, <2>2 DEF ChainInv, IInv, TypeOK, Chain!NobodyWaitsForTheGone
    <2>4. phases' \in [Queries -> Chain!Phase]
      <3>1. \A u \in Queries : Phase(u)' \in Chain!Phase
        BY <1>0, <1>1, <2>2, PhaseIsTyped DEF Chain!Phase
      <3> QED
        BY <3>1
    <2>5. \A u \in Queries : IF u \in {q} THEN phases'[u] \in Chain!AfterLeaving(u)
                                          ELSE phases'[u] = phases[u]
      BY <1>1, <2>2
    <2>6. Chain!Leave({q})
      BY <1>1, <2>1, <2>4, <2>5 DEF Chain!Leave
    <2> QED
      BY <2>3, <2>6 DEF Chain!Next
  <1> QED
    BY <1>0, <1>2, <1>3, EachMovesAsPromised

\* Every step of the agents is one of the chain's, or none of its business.
LEMMA StepInTheChain ==
  ASSUME ChainInv, [Next]_vars
  PROVE  [Chain!Next]_(Chain!chainVars) /\ ChainInv'
  <1>1. IInv'
    BY NextInvariant DEF ChainInv
  <1>2. CASE Next
    <2>1. PICK q \in Queries : ChainStep(q) \/ UserStep(q)
      BY <1>2 DEF Next
    <2> QED
      BY <1>1, <2>1, OneMovesInTheChain DEF ChainInv
  <1>3. CASE UNCHANGED vars
    <2>1. UNCHANGED <<pc, calls, session, mute>>
      BY <1>3 DEF vars, given, gate, user
    <2>2. \A q \in Queries : Phase(q)' = Phase(q)
      BY <2>1 DEF Phase
    <2>3. UNCHANGED Chain!chainVars
      BY <2>1, <2>2 DEF Chain!chainVars
    <2>4. Chain!NobodyWaitsForTheGone'
      BY <2>1, <2>3 DEF ChainInv, Chain!NobodyWaitsForTheGone, Chain!chainVars
    <2> QED
      BY <1>1, <2>3, <2>4 DEF ChainInv
  <1> QED
    BY <1>2, <1>3

\* The agents start with nobody in the chain.
LEMMA StartsBeforeTheChain ==
  ASSUME Init
  PROVE  Chain!Init /\ ChainInv
  <1>1. \A q \in Queries : Phase(q) = "before"
    BY DEF Init, Phase
  <1> QED
    BY <1>1, InitInvariant DEF Init, Chain!Init, ChainInv, Chain!NobodyWaitsForTheGone

\* Whatever tools the model asks for, in turns of any length, a query goes through the
\* remote chain as RemoteChain promises: the gate has switch and boot wait for a yes, and
\* a cancel at a prompt goes on as a no (safety.SafetyGate.rebuild, llm/remote.run).
THEOREM KeepsTheChain == Spec => Chain!Spec
  BY StartsBeforeTheChain, StepInTheChain, PTL DEF Spec, Chain!Spec

\* One query of a conversation is in the chain at a time, and for a client that has left no
\* prompt is open and no task awaits a rebuild (server._dispatch, ClientConn.confirm): the
\* wait ends with the client, the rebuild in the helper may not.
THEOREM WaitsEndWithTheClient == Spec => [](Chain!OneAtATime /\ Chain!NobodyWaitsForTheGone)
  <1>1. ChainInv => Chain!OneAtATime
    BY PhaseIsTyped DEF ChainInv, IInv, SessionLock, Chain!OneAtATime
  <1>2. ChainInv => Chain!NobodyWaitsForTheGone
    BY DEF ChainInv
  <1> QED
    BY <1>1, <1>2, StartsBeforeTheChain, StepInTheChain, PTL DEF Spec
=============================================================================
