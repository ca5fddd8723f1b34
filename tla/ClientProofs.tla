---------------------------- MODULE ClientProofs ----------------------------
(***************************************************************************)
(* Proofs about the daemon's two clients that keep state of their own: the *)
(* web hub (Web) and the tray (Tray).  Each is proved about on its own.    *)
(*                                                                         *)
(* The hub, for any streams, any number of places on the register and of   *)
(* prompts: what the daemon is told for a prompt is what the user clicked. *)
(* Every step but Crowd moves one stream; Apart says so, and the others    *)
(* keep what the invariant says of them.                                   *)
(*                                                                         *)
(* The tray, for any units, refreshes and fixes: what a fix-it restarts    *)
(* was failing since the click, however old the row it was clicked on.     *)
(***************************************************************************)
EXTENDS Web, Tray, TLAPS, FunctionTheorems, SequenceTheorems, FiniteSetTheorems

UpMessage   == Control \cup {"query", "eof"}
DownMessage == {"status", "confirm", "end", "eof"}

-----------------------------------------------------------------------------
(* Queues.                                                                 *)

\* What a queue holds when it is empty.
LEMMA NothingQueued == Range(<<>>) = {}
  BY DEF Range

\* The first in an empty queue is alone in it.
LEMMA Alone ==
  ASSUME NEW x
  PROVE  /\ Append(<<>>, x) = <<x>> /\ Range(<<x>>) = {x}
         /\ Head(<<x>>) = x /\ Tail(<<x>>) = <<>> /\ Len(<<x>>) = 1
  <1>1. Append(<<>>, x) = <<x>>
    OBVIOUS
  <1>2. Head(<<x>>) = x /\ Tail(<<x>>) = <<>> /\ Len(<<x>>) = 1
    OBVIOUS
  <1>3. Range(<<x>>) = {x}
    BY DEF Range
  <1> QED
    BY <1>1, <1>2, <1>3

\* What a queue holds once something was appended.
LEMMA Appending ==
  ASSUME NEW M, NEW q \in Seq(M), NEW x \in M
  PROVE  /\ Append(q, x) \in Seq(M) /\ Append(q, x) # <<>>
         /\ Range(Append(q, x)) = Range(q) \cup {x}
         /\ Head(Append(q, x)) = IF q = <<>> THEN x ELSE Head(q)
         /\ Tail(Append(q, x)) = IF q = <<>> THEN <<>> ELSE Append(Tail(q), x)
  <1>1. /\ Append(q, x) \in Seq(M) /\ Append(q, x) # <<>>
        /\ Len(Append(q, x)) = Len(q) + 1
        /\ \A i \in 1..Len(q) : Append(q, x)[i] = q[i]
        /\ Append(q, x)[Len(q) + 1] = x
    BY AppendProperties
  <1>2. /\ DOMAIN q = 1..Len(q) /\ Len(q) \in Nat
        /\ DOMAIN Append(q, x) = 1..(Len(q) + 1)
    BY <1>1, LenProperties
  <1>3. Range(Append(q, x)) = Range(q) \cup {x}
    BY <1>1, <1>2 DEF Range
  <1> QED
    BY <1>1, <1>3, HeadTailAppend

\* What a queue holds once its head was taken.
LEMMA Taking ==
  ASSUME NEW M, NEW q \in Seq(M), q # <<>>
  PROVE  /\ Head(q) \in M /\ Tail(q) \in Seq(M)
         /\ Range(q) = {Head(q)} \cup Range(Tail(q))
  <1>1. /\ Head(q) \in M /\ Tail(q) \in Seq(M) /\ Len(Tail(q)) = Len(q) - 1
        /\ \A i \in 1..Len(Tail(q)) : Tail(q)[i] = q[i + 1]
    BY HeadTailProperties
  <1>2. /\ DOMAIN q = 1..Len(q) /\ Len(q) \in Nat \ {0} /\ Head(q) = q[1]
        /\ DOMAIN Tail(q) = 1..(Len(q) - 1)
    BY <1>1, LenProperties, EmptySeq
  <1>3. \A i \in 2..Len(q) : i - 1 \in DOMAIN Tail(q) /\ Tail(q)[i - 1] = q[i]
    BY <1>1, <1>2
  <1>4. \A i \in DOMAIN Tail(q) : i + 1 \in DOMAIN q /\ Tail(q)[i] = q[i + 1]
    BY <1>1, <1>2
  <1>5. \A i \in DOMAIN q : i = 1 \/ i \in 2..Len(q)
    BY <1>2
  <1>6. Range(q) \subseteq {Head(q)} \cup Range(Tail(q))
    BY <1>2, <1>3, <1>5 DEF Range
  <1>7. {Head(q)} \cup Range(Tail(q)) \subseteq Range(q)
    BY <1>2, <1>4 DEF Range
  <1> QED
    BY <1>1, <1>6, <1>7

\* What a thread sends as it leaves: a cancel perhaps, and the end of the socket.
LEMMA Leaving ==
  ASSUME NEW q \in Seq(UpMessage), NEW last \in {<<>>, <<"cancel">>}
  PROVE  q \o last \o <<"eof">> =
           IF last = <<>> THEN Append(q, "eof") ELSE Append(Append(q, "cancel"), "eof")
  <1>1. "eof" \in UpMessage /\ "cancel" \in UpMessage
    BY DEF UpMessage, Control
  <1>2. q \o <<>> = q /\ q \o <<"cancel">> = Append(q, "cancel") /\ Append(q, "cancel") \in Seq(UpMessage)
    BY <1>1, ConcatEmptySeq, AppendIsConcat, AppendProperties
  <1>3. /\ q \o <<"eof">> = Append(q, "eof")
        /\ Append(q, "cancel") \o <<"eof">> = Append(Append(q, "cancel"), "eof")
    BY <1>1, <1>2, AppendIsConcat
  <1> QED
    BY <1>2, <1>3

-----------------------------------------------------------------------------
(* The invariant, stream by stream.                                        *)

\* The streams on the register are finitely many and have a thread that serves them.
Registered ==
  /\ IsFiniteSet(sessions)
  /\ \A s \in sessions : thread[s] \in {"reading", "waiting"}

\* A prompt on its way is the next thing the thread reads, and it was asked.
OneConfirm(s) ==
  /\ "confirm" \in Range(down[s]) => asked[s] >= 1
  /\ down[s] # <<>> => "confirm" \notin Range(Tail(down[s]))

\* A thread starts with its card; the card shows a prompt only while the thread waits
\* for the answer, and the prompts that were not shown have none.
CardFollows(s) ==
  /\ card[s] = "new" => thread[s] = "none"
  /\ card[s] = "asked" => thread[s] = "waiting" /\ clicked[s][Shown(s)] = "none"
  /\ thread[s] = "waiting" => Shown(s) >= 1
  /\ \A n \in Prompts : n > Shown(s) => clicked[s][n] = "none"

\* The user gave this answer to a prompt that was shown.
Given(s, a) == \E n \in Prompts : n <= Shown(s) /\ clicked[s][n] = a

\* An answer on its way to the thread is the one the thread waits for.
OneAnswer(s) ==
  /\ \A a \in Answer : <<s, a>> \in posts \/ a \in Range(answers[s]) =>
       /\ Given(s, a) /\ card[s] # "asked"
       /\ \/ thread[s] = "waiting" /\ clicked[s][Shown(s)] = a
          \/ thread[s] = "over"
  /\ thread[s] = "waiting" =>
       /\ \A i, j \in 1..Len(answers[s]) :
            answers[s][i] \in Answer /\ answers[s][j] \in Answer => i = j
       /\ \A a, b \in Answer : <<s, a>> \in posts => b \notin Range(answers[s])

\* What is on its way to the daemon as an answer is one.
SentAsGiven(s) == \A a \in Answer : a \in Range(up[s]) => Given(s, a)

\* Before Stop is pressed there is no cancel, thread and daemon take turns, and an
\* answer that was sent meets the prompt that it was given to.
TakingTurns(s) ==
  \/ /\ thread[s] \in {"none", "opening"} /\ daemon[s] = "none"
     /\ up[s] = <<>> /\ down[s] = <<>>
  \/ /\ thread[s] \in {"connected", "reading"} /\ daemon[s] = "none"
     /\ up[s] = <<"query">> /\ down[s] = <<>>
  \/ /\ thread[s] \in {"connected", "reading"} /\ daemon[s] \in {"running", "told", "ended"}
     /\ up[s] = <<>> /\ "confirm" \notin Range(down[s])
  \/ /\ thread[s] \in {"connected", "reading"} /\ daemon[s] = "asking"
     /\ up[s] = <<>> /\ down[s] = <<"confirm">>
  \/ /\ thread[s] = "waiting" /\ daemon[s] = "asking"
     /\ up[s] = <<>> /\ down[s] = <<>>
  \/ /\ thread[s] = "reading" /\ daemon[s] = "asking"
     /\ Len(up[s]) = 1 /\ Head(up[s]) \in Answer /\ down[s] = <<>>

Undisturbed(s) ==
  ~stopped[s] =>
    /\ <<s, "cancel">> \notin posts /\ "cancel" \notin Range(answers[s])
    /\ thread[s] # "over" => TakingTurns(s)
    /\ up[s] # <<>> =>
         /\ Range(Tail(up[s])) \cap Answer = {}
         /\ Head(up[s]) \in Answer =>
              daemon[s] = "asking" /\ Head(up[s]) = clicked[s][asked[s]]

\* AnswersAreReal, of one stream; the daemon has asked what it was told about.
ToldAsGiven(s) ==
  /\ daemon[s] = "asking" => asked[s] >= 1
  /\ \A n \in Prompts :
       took[s][n] # "none" =>
         \E m \in 1..n : took[s][n] = clicked[s][m] /\ (stopped[s] \/ m = n)

StreamInv(s) ==
  /\ OneConfirm(s) /\ CardFollows(s) /\ OneAnswer(s)
  /\ SentAsGiven(s) /\ Undisturbed(s) /\ ToldAsGiven(s)

IInv == TypeOK /\ Registered /\ \A s \in Streams : StreamInv(s)

-----------------------------------------------------------------------------
(* Types, and the register.                                                *)

CardState   == {"new", "running", "asked", "complete", "lost", "gone", "reset"}
ThreadState == {"none", "opening", "connected", "reading", "waiting", "over"}

\* The variables of the page, of the hub but for the register, of the two queues of
\* the socket, and of the daemon.
PageTyped ==
  /\ card \in [Streams -> CardState]
  /\ stopped \in [Streams -> BOOLEAN]
  /\ clicked \in [Streams -> [Prompts -> Answer \cup {"none"}]]
  /\ posts \in SUBSET (Streams \X Control)

RegisterTyped ==
  /\ thread \in [Streams -> ThreadState]
  /\ sessions \in SUBSET Streams /\ crowd \in Nat
  /\ Cardinality(sessions) + crowd <= MaxSessions

QueuesTyped ==
  /\ answers \in [Streams -> Seq(Control)]
  /\ up \in [Streams -> Seq(UpMessage)]
  /\ down \in [Streams -> Seq(DownMessage)]

DaemonTyped ==
  /\ daemon \in [Streams -> DaemonState]
  /\ asked \in [Streams -> 0..MaxPrompts]
  /\ took \in [Streams -> [Prompts -> Answer \cup {"none"}]]

\* The type invariant in parts, so that a step restores only what it writes.
LEMMA TypesAre ==
  /\ TypeOK <=> PageTyped /\ RegisterTyped /\ QueuesTyped /\ DaemonTyped
  /\ TypeOK' <=> PageTyped' /\ RegisterTyped' /\ QueuesTyped' /\ DaemonTyped'
  BY DEF TypeOK, PageTyped, RegisterTyped, QueuesTyped, DaemonTyped,
         CardState, ThreadState, UpMessage, DownMessage

\* What is shown is a state of the card.
LEMMA ShowTyped ==
  ASSUME card \in [Streams -> CardState], NEW s \in Streams, NEW what \in CardState, Show(s, what)
  PROVE  /\ card' \in [Streams -> CardState]
         /\ card'[s] = what \/ card'[s] = "reset"
         /\ \A t \in Streams : t # s => card'[t] = card[t]
  BY DEF Show, CardState

\* Telling the daemon something appends it.
LEMMA TellTyped ==
  ASSUME up \in [Streams -> Seq(UpMessage)], NEW s \in Streams, NEW what \in UpMessage,
         Tell(s, what)
  PROVE  /\ up' \in [Streams -> Seq(UpMessage)]
         /\ up'[s] = Append(up[s], what)
         /\ \A t \in Streams : t # s => up'[t] = up[t]
  BY Appending DEF Tell

\* A thread that leaves sends no answer.
LEMMA QuitTyped ==
  ASSUME QueuesTyped, NEW s \in Streams, NEW last \in {<<>>, <<"cancel">>}, Quit(s, last)
  PROVE  /\ up' \in [Streams -> Seq(UpMessage)]
         /\ up'[s] = IF last = <<>> THEN Append(up[s], "eof")
                     ELSE Append(Append(up[s], "cancel"), "eof")
         /\ \A t \in Streams : t # s => up'[t] = up[t]
  <1>1. up[s] \in Seq(UpMessage) /\ "eof" \in UpMessage /\ "cancel" \in UpMessage
    BY DEF QueuesTyped, UpMessage, Control
  <1>2. up' = [up EXCEPT ![s] = up[s] \o last \o <<"eof">>]
    BY DEF Quit
  <1>3. /\ Append(up[s], "eof") \in Seq(UpMessage)
        /\ Append(Append(up[s], "cancel"), "eof") \in Seq(UpMessage)
    BY <1>1, Appending
  <1>4. up[s] \o last \o <<"eof">> =
           IF last = <<>> THEN Append(up[s], "eof") ELSE Append(Append(up[s], "cancel"), "eof")
    BY <1>1, Leaving
  <1> QED
    BY <1>2, <1>3, <1>4 DEF QueuesTyped

\* Leaving the register frees a place at most.
LEMMA QuitRegister ==
  ASSUME RegisterTyped, Registered, NEW s \in Streams, NEW last, Quit(s, last), UNCHANGED crowd
  PROVE  RegisterTyped' /\ Registered'
  <1>1. sessions' = sessions \ {s} /\ thread' = [thread EXCEPT ![s] = "over"]
    BY DEF Quit
  <1>2. IsFiniteSet(sessions)
    BY DEF Registered
  <1>3. /\ IsFiniteSet(sessions')
        /\ Cardinality(sessions') = IF s \in sessions THEN Cardinality(sessions) - 1
                                   ELSE Cardinality(sessions)
    BY <1>1, <1>2, FS_RemoveElement
  <1>4. Cardinality(sessions) \in Nat /\ MaxSessions \in Nat
    BY <1>2, FS_CardinalityType, SizesAssumption
  <1>5. Cardinality(sessions') + crowd' <= MaxSessions
    BY <1>3, <1>4 DEF RegisterTyped
  <1>6. RegisterTyped'
    BY <1>1, <1>5 DEF RegisterTyped, ThreadState
  <1>7. Registered'
    BY <1>1, <1>3 DEF Registered, RegisterTyped
  <1> QED
    BY <1>6, <1>7

\* The card of no stream is left untyped, whichever step is taken.
LEMMA PageStaysTyped == TypeOK /\ [Next]_vars => PageTyped'
  <1> SUFFICES ASSUME TypeOK, [Next]_vars PROVE PageTyped'
    OBVIOUS
  <1> USE DEF PageTyped
  <1>0. PageTyped /\ QueuesTyped
    BY TypesAre
  <1>1. ASSUME UNCHANGED browser, UNCHANGED posts PROVE PageTyped'
    BY <1>0, <1>1 DEF browser
  <1>2. ASSUME NEW s \in Streams, NEW what \in CardState, Show(s, what),
               UNCHANGED <<stopped, clicked, posts>>
        PROVE  PageTyped'
    BY <1>0, <1>2, ShowTyped
  <1>3. ASSUME NEW s \in Streams, Start(s) \/ TurnedAway(s) \/ Stop(s) \/ Leave(s)
        PROVE  PageTyped'
    <2>1. CASE Stop(s)
      <3>1. /\ stopped' = [stopped EXCEPT ![s] = TRUE] /\ UNCHANGED <<card, clicked>>
            /\ posts' = posts \cup {<<s, "cancel">>}
        BY <2>1 DEF Stop
      <3>2. "cancel" \in Control
        BY DEF Control
      <3> QED
        BY <1>0, <3>1, <3>2
    <2>2. CASE Start(s) \/ TurnedAway(s) \/ Leave(s)
      <3>1. /\ \E what \in {"running", "lost", "gone"} : card' = [card EXCEPT ![s] = what]
            /\ UNCHANGED <<stopped, clicked, posts>>
        BY <2>2 DEF Start, TurnedAway, Leave
      <3>2. {"running", "lost", "gone"} \subseteq CardState
        BY DEF CardState
      <3> QED
        BY <1>0, <3>1, <3>2
    <2> QED
      BY <1>3, <2>1, <2>2
  <1>4. ASSUME NEW s \in Streams, NEW a \in Answer, Click(s, a) PROVE PageTyped'
    <2>1. [clicked[s] EXCEPT ![Shown(s)] = a] \in [Prompts -> Answer \cup {"none"}]
      BY <1>0
    <2>2. clicked' = [clicked EXCEPT ![s] = [clicked[s] EXCEPT ![Shown(s)] = a]]
      BY <1>4 DEF Click
    <2> QED
      BY <1>0, <1>4, <2>1, <2>2 DEF Click, CardState, Control
  <1>5. ASSUME NEW s \in Streams, NEW what \in Control, HandlePost(s, what) PROVE PageTyped'
    BY <1>0, <1>5 DEF HandlePost, browser
  <1>6. ASSUME NEW s \in Streams, Open(s) \/ Register(s) \/ ReadTimesOut(s) \/ Await(s)
                                 \/ AwaitTimesOut(s)
        PROVE  PageTyped'
    <2>1. "lost" \in CardState
      BY DEF CardState
    <2> QED
      BY <1>1, <1>2, <1>6, <2>1
      DEF Open, Register, ReadTimesOut, Await, AwaitTimesOut, browser
  <1>7. ASSUME NEW s \in Streams, Read(s) PROVE PageTyped'
    <2>1. card[s] \in CardState /\ {"asked", "complete", "lost"} \subseteq CardState
      BY <1>0 DEF CardState
    <2>2. UNCHANGED <<stopped, clicked, posts>>
      BY <1>7 DEF Read
    <2>3. (\E what \in CardState : Show(s, what)) \/ UNCHANGED card
      BY <1>7, <2>1 DEF Read
    <2> QED
      BY <1>1, <1>2, <2>2, <2>3 DEF browser
  <1>8. ASSUME NEW s \in Streams, Work(s) \/ Receive(s) PROVE PageTyped'
    BY <1>1, <1>8 DEF Work, Receive
  <1>9. CASE Crowd
    BY <1>1, <1>9 DEF Crowd
  <1>10. CASE UNCHANGED vars
    BY <1>1, <1>10 DEF vars
  <1> QED
    BY <1>3, <1>4, <1>5, <1>6, <1>7, <1>8, <1>9, <1>10 DEF Next, Thread

\* The register never holds more than it may, and only streams that are served.
LEMMA RegisterStays ==
  IInv /\ [Next]_vars => RegisterTyped' /\ Registered'
  <1> SUFFICES ASSUME IInv, TypeOK, Registered, [Next]_vars
               PROVE  RegisterTyped' /\ Registered'
    BY DEF IInv
  <1> USE DEF RegisterTyped, ThreadState
  <1>0. RegisterTyped
    BY TypesAre
  <1>1. ASSUME UNCHANGED <<thread, sessions, crowd>> PROVE RegisterTyped' /\ Registered'
    BY <1>0, <1>1 DEF Registered
  <1>2. ASSUME NEW s \in Streams, NEW state \in ThreadState,
               s \in sessions => state \in {"reading", "waiting"},
               thread' = [thread EXCEPT ![s] = state], UNCHANGED <<sessions, crowd>>
        PROVE  RegisterTyped' /\ Registered'
    BY <1>0, <1>2 DEF Registered
  <1>3. ASSUME NEW s \in Streams, NEW last, Quit(s, last), UNCHANGED crowd
        PROVE  RegisterTyped' /\ Registered'
    BY <1>0, <1>3, QuitRegister
  <1>4. \A s \in Streams : thread[s] \in {"none", "opening", "connected"} => s \notin sessions
    BY DEF Registered
  <1>5. ASSUME NEW s \in Streams, Register(s), Fits PROVE RegisterTyped' /\ Registered'
    <2>1. thread[s] = "connected" /\ sessions' = sessions \cup {s} /\ UNCHANGED crowd
          /\ thread' = [thread EXCEPT ![s] = "reading"]
      BY <1>5 DEF Register
    <2>2. IsFiniteSet(sessions')
          /\ Cardinality(sessions') = Cardinality(sessions) + 1
      BY <1>4, <2>1, FS_AddElement DEF Registered
    <2>3. Cardinality(sessions) \in Nat /\ MaxSessions \in Nat
      BY FS_CardinalityType, SizesAssumption DEF Registered
    <2>4. Cardinality(sessions') + crowd' <= MaxSessions
      BY <1>0, <1>5, <2>1, <2>2, <2>3 DEF Fits
    <2> QED
      BY <1>0, <2>1, <2>2, <2>4 DEF Registered
  <1>6. ASSUME Crowd PROVE RegisterTyped' /\ Registered'
    <2>1. Cardinality(sessions) \in Nat /\ MaxSessions \in Nat
      BY FS_CardinalityType, SizesAssumption DEF Registered
    <2> QED
      BY <1>0, <1>6, <2>1 DEF Crowd, Fits, hub, Registered
  <1>7. ASSUME NEW s \in Streams, Start(s) PROVE RegisterTyped' /\ Registered'
    <2>1. thread[s] = "none" /\ thread' = [thread EXCEPT ![s] = "opening"]
          /\ UNCHANGED <<sessions, crowd>>
      BY <1>7 DEF Start, IInv, StreamInv, CardFollows
    <2> QED
      BY <1>2, <1>4, <2>1
  <1>8. ASSUME NEW s \in Streams, TurnedAway(s) \/ Stop(s) \/ Leave(s) \/ Work(s) \/ Receive(s)
        PROVE  RegisterTyped' /\ Registered'
    BY <1>1, <1>8 DEF TurnedAway, Stop, Leave, Work, Receive, hub
  <1>9. ASSUME NEW s \in Streams, NEW a \in Answer, Click(s, a)
        PROVE  RegisterTyped' /\ Registered'
    BY <1>1, <1>9 DEF Click, hub
  <1>10. ASSUME NEW s \in Streams, NEW what \in Control, HandlePost(s, what)
         PROVE  RegisterTyped' /\ Registered'
    BY <1>1, <1>10 DEF HandlePost
  <1>11. ASSUME NEW s \in Streams, Open(s) PROVE RegisterTyped' /\ Registered'
    <2>1. /\ thread[s] = "opening" /\ UNCHANGED <<sessions, crowd>>
          /\ \E state \in {"connected", "over"} : thread' = [thread EXCEPT ![s] = state]
      BY <1>11 DEF Open
    <2> QED
      BY <1>2, <1>4, <2>1
  <1>12. ASSUME NEW s \in Streams, Register(s), ~Fits PROVE RegisterTyped' /\ Registered'
    <2>1. /\ thread[s] = "connected" /\ UNCHANGED <<sessions, crowd>>
          /\ thread' = [thread EXCEPT ![s] = "over"]
      BY <1>12 DEF Register
    <2> QED
      BY <1>2, <1>4, <2>1
  <1>13. ASSUME NEW s \in Streams, Read(s) PROVE RegisterTyped' /\ Registered'
    <2>1. /\ UNCHANGED crowd
          /\ \/ UNCHANGED <<thread, sessions>>
             \/ thread' = [thread EXCEPT ![s] = "waiting"] /\ UNCHANGED sessions
             \/ \E last \in {<<>>, <<"cancel">>} : Quit(s, last)
      BY <1>13 DEF Read
    <2> QED
      BY <1>1, <1>2, <1>3, <2>1
  <1>14. ASSUME NEW s \in Streams, Await(s) PROVE RegisterTyped' /\ Registered'
    <2>1. /\ UNCHANGED crowd
          /\ \/ thread' = [thread EXCEPT ![s] = "reading"] /\ UNCHANGED sessions
             \/ Quit(s, <<"cancel">>)
      BY <1>14 DEF Await
    <2> QED
      BY <1>2, <1>3, <2>1
  <1>15. ASSUME NEW s \in Streams, ReadTimesOut(s) \/ AwaitTimesOut(s)
         PROVE  RegisterTyped' /\ Registered'
    BY <1>3, <1>15 DEF ReadTimesOut, AwaitTimesOut
  <1>16. CASE UNCHANGED vars
    BY <1>1, <1>16 DEF vars, hub
  <1> QED
    BY <1>5, <1>6, <1>7, <1>8, <1>9, <1>10, <1>11, <1>12, <1>13, <1>14, <1>15, <1>16
    DEF Next, Thread

\* Queues carry what they are for.
LEMMA QueuesStayTyped == TypeOK /\ [Next]_vars => QueuesTyped'
  <1> SUFFICES ASSUME TypeOK, [Next]_vars PROVE QueuesTyped'
    OBVIOUS
  <1> USE DEF QueuesTyped
  <1>0. QueuesTyped
    BY TypesAre
  <1>1. ASSUME UNCHANGED answers, UNCHANGED link PROVE QueuesTyped'
    BY <1>0, <1>1 DEF link
  <1>2. ASSUME NEW s \in Streams, NEW what \in UpMessage, Tell(s, what) \/ UNCHANGED up,
               UNCHANGED <<answers, down>>
        PROVE  QueuesTyped'
    BY <1>0, <1>2, TellTyped
  <1>3. ASSUME NEW s \in Streams, NEW last \in {<<>>, <<"cancel">>}, Quit(s, last),
               answers' \in [Streams -> Seq(Control)], down' \in [Streams -> Seq(DownMessage)]
        PROVE  QueuesTyped'
    BY <1>0, <1>3, QuitTyped
  <1>4. {"query", "eof", "cancel", "yes", "no"} \subseteq UpMessage
    BY DEF UpMessage, Control, Answer
  <1>5. ASSUME NEW s \in Streams, NEW q \in Seq(DownMessage), down' = [down EXCEPT ![s] = q]
        PROVE  down' \in [Streams -> Seq(DownMessage)]
    BY <1>0, <1>5
  <1>6. ASSUME NEW s \in Streams, Start(s) \/ TurnedAway(s) \/ Stop(s) \/ Leave(s)
        PROVE  QueuesTyped'
    BY <1>1, <1>6 DEF Start, TurnedAway, Stop, Leave, hub
  <1>7. ASSUME NEW s \in Streams, NEW a \in Answer, Click(s, a) PROVE QueuesTyped'
    BY <1>1, <1>7 DEF Click, hub
  <1>8. ASSUME NEW s \in Streams, NEW what \in Control, HandlePost(s, what) PROVE QueuesTyped'
    <2>1. up' \in [Streams -> Seq(UpMessage)]
      BY <1>0, <1>4, <1>8, TellTyped DEF HandlePost
    <2>2. answers[s] \in Seq(Control) /\ Append(answers[s], what) \in Seq(Control)
      BY <1>0, Appending
    <2> QED
      BY <1>0, <1>8, <2>1, <2>2 DEF HandlePost, Queued
  <1>9. ASSUME NEW s \in Streams, Open(s) \/ Register(s) PROVE QueuesTyped'
    BY <1>2, <1>4, <1>9 DEF Open, Register
  <1>10. ASSUME NEW s \in Streams, Read(s) PROVE QueuesTyped'
    <2>1. down' = [down EXCEPT ![s] = Tail(down[s])] /\ down[s] # <<>> /\ UNCHANGED answers
      BY <1>10 DEF Read
    <2>2. down' \in [Streams -> Seq(DownMessage)]
      BY <1>0, <1>5, <2>1, Taking
    <2>3. UNCHANGED up \/ \E last \in {<<>>, <<"cancel">>} : Quit(s, last)
      BY <1>10 DEF Read
    <2> QED
      BY <1>0, <1>3, <2>1, <2>2, <2>3
  <1>11. ASSUME NEW s \in Streams, ReadTimesOut(s) \/ AwaitTimesOut(s) PROVE QueuesTyped'
    BY <1>0, <1>3, <1>11 DEF ReadTimesOut, AwaitTimesOut
  <1>12. ASSUME NEW s \in Streams, Await(s) PROVE QueuesTyped'
    <2>1. /\ answers' = [answers EXCEPT ![s] = Tail(answers[s])] /\ answers[s] # <<>>
          /\ UNCHANGED down
      BY <1>12 DEF Await
    <2>2. Head(answers[s]) \in Control /\ Tail(answers[s]) \in Seq(Control)
      BY <1>0, <2>1, Taking
    <2>3. Tell(s, Head(answers[s])) \/ Quit(s, <<"cancel">>)
      BY <1>12 DEF Await
    <2>4. Head(answers[s]) \in UpMessage
      BY <2>2 DEF UpMessage
    <2>5. up' \in [Streams -> Seq(UpMessage)]
      BY <1>0, <2>3, <2>4, TellTyped, QuitTyped
    <2>6. answers' \in [Streams -> Seq(Control)]
      BY <1>0, <2>1, <2>2
    <2> QED
      BY <1>0, <2>1, <2>5, <2>6
  <1>13. ASSUME NEW s \in Streams, NEW what \in DownMessage, Say(s, what), UNCHANGED answers,
                up' \in [Streams -> Seq(UpMessage)]
         PROVE  QueuesTyped'
    <2>1. Append(down[s], what) \in Seq(DownMessage)
      BY <1>0, Appending
    <2> QED
      BY <1>0, <1>5, <1>13, <2>1 DEF Say
  <1>14. {"status", "confirm", "end", "eof"} \subseteq DownMessage
    BY DEF DownMessage
  <1>15. ASSUME NEW s \in Streams, Work(s) PROVE QueuesTyped'
    BY <1>0, <1>13, <1>14, <1>15 DEF Work, hub
  <1>16. ASSUME NEW s \in Streams, Receive(s) PROVE QueuesTyped'
    <2>1. up[s] # <<>> /\ up' = [up EXCEPT ![s] = Tail(up[s])] /\ UNCHANGED answers
      BY <1>16 DEF Receive, hub
    <2>2. up' \in [Streams -> Seq(UpMessage)]
      BY <1>0, <2>1, Taking
    <2>3. Say(s, "end") \/ UNCHANGED down
      BY <1>16 DEF Receive
    <2> QED
      BY <1>0, <1>13, <1>14, <2>1, <2>2, <2>3
  <1>17. CASE Crowd
    BY <1>1, <1>17 DEF Crowd, hub
  <1>18. CASE UNCHANGED vars
    BY <1>1, <1>18 DEF vars, hub
  <1> QED
    BY <1>6, <1>7, <1>8, <1>9, <1>10, <1>11, <1>12, <1>15, <1>16, <1>17, <1>18 DEF Next, Thread

\* The daemon asks no more than it may, and is told answers only.
LEMMA DaemonStaysTyped == TypeOK /\ [Next]_vars => DaemonTyped'
  <1> SUFFICES ASSUME TypeOK, [Next]_vars PROVE DaemonTyped'
    OBVIOUS
  <1> USE DEF DaemonTyped, DaemonState
  <1>0. DaemonTyped
    BY TypesAre
  <1>1. ASSUME UNCHANGED task PROVE DaemonTyped'
    BY <1>0, <1>1 DEF task
  <1>2. ASSUME NEW s \in Streams, Work(s) PROVE DaemonTyped'
    <2>1. MaxPrompts \in Nat
      BY SizesAssumption
    <2>2. UNCHANGED asked \/ (asked[s] < MaxPrompts /\ asked' = [asked EXCEPT ![s] = asked[s] + 1])
      BY <1>2 DEF Work
    <2>3. asked' \in [Streams -> 0..MaxPrompts]
      BY <1>0, <2>1, <2>2
    <2>4. UNCHANGED took /\ \E state \in {"running", "asking", "ended"} :
                               daemon' = [daemon EXCEPT ![s] = state]
      BY <1>0, <1>2 DEF Work, Becomes
    <2> QED
      BY <1>0, <2>3, <2>4
  <1>3. ASSUME NEW s \in Streams, Receive(s) PROVE DaemonTyped'
    <2>1. UNCHANGED asked
          /\ (UNCHANGED daemon \/ \E state \in {"running", "told", "alone", "ended"} :
                               daemon' = [daemon EXCEPT ![s] = state])
      BY <1>3 DEF Receive, Becomes
    <2>2. UNCHANGED took \/ (Head(up[s]) \in Answer /\
            took' = [took EXCEPT ![s] = [took[s] EXCEPT ![asked[s]] = Head(up[s])]])
      BY <1>3 DEF Receive
    <2>3. took' \in [Streams -> [Prompts -> Answer \cup {"none"}]]
      BY <1>0, <2>2
    <2> QED
      BY <1>0, <2>1, <2>3
  <1>4. ASSUME NEW s \in Streams, Start(s) \/ TurnedAway(s) \/ Stop(s) \/ Leave(s) \/ Thread(s)
        PROVE  DaemonTyped'
    BY <1>1, <1>4 DEF Start, TurnedAway, Stop, Leave, Thread, Open, Register, Read,
                      ReadTimesOut, Await, AwaitTimesOut
  <1>5. ASSUME NEW s \in Streams, NEW a \in Answer, Click(s, a) PROVE DaemonTyped'
    BY <1>1, <1>5 DEF Click
  <1>6. ASSUME NEW s \in Streams, NEW what \in Control, HandlePost(s, what) PROVE DaemonTyped'
    BY <1>1, <1>6 DEF HandlePost
  <1>7. CASE Crowd
    BY <1>1, <1>7 DEF Crowd
  <1>8. CASE UNCHANGED vars
    BY <1>1, <1>8 DEF vars
  <1> QED
    BY <1>2, <1>3, <1>4, <1>5, <1>6, <1>7, <1>8 DEF Next

-----------------------------------------------------------------------------
(* One stream moves at a time.                                             *)

StreamStep(s) ==
  \/ Start(s) \/ TurnedAway(s) \/ Stop(s) \/ Leave(s) \/ \E a \in Answer : Click(s, a)
  \/ \E what \in Control : HandlePost(s, what)
  \/ Thread(s) \/ Work(s) \/ Receive(s)

\* Nothing of the stream changes, except that others may join the register or leave it.
Unmoved(t) ==
  /\ card'[t] = card[t] /\ stopped'[t] = stopped[t] /\ clicked'[t] = clicked[t]
  /\ thread'[t] = thread[t] /\ answers'[t] = answers[t]
  /\ up'[t] = up[t] /\ down'[t] = down[t]
  /\ daemon'[t] = daemon[t] /\ asked'[t] = asked[t] /\ took'[t] = took[t]
  /\ \A what \in Control : <<t, what>> \in posts' <=> <<t, what>> \in posts

\* A stream that does not move keeps what the invariant says of it.
LEMMA UnmovedKeeps ==
  ASSUME NEW t \in Streams, StreamInv(t), Unmoved(t)
  PROVE  StreamInv(t)'
  <1> USE DEF Unmoved
  <1>1. Shown(t)' = Shown(t)
    BY DEF Shown
  <1>2. OneConfirm(t)' /\ CardFollows(t)'
    BY <1>1 DEF StreamInv, OneConfirm, CardFollows
  <1>3. \A a : Given(t, a)' <=> Given(t, a)
    BY <1>1 DEF Given
  <1>4. OneAnswer(t)'
    BY <1>1, <1>3 DEF StreamInv, OneAnswer, Control
  <1>5. SentAsGiven(t)'
    BY <1>3 DEF StreamInv, SentAsGiven
  <1>6. Undisturbed(t)'
    BY DEF StreamInv, Undisturbed, TakingTurns, Control
  <1>7. ToldAsGiven(t)'
    BY DEF StreamInv, ToldAsGiven
  <1> QED
    BY <1>2, <1>4, <1>5, <1>6, <1>7 DEF StreamInv

\* A step of one stream leaves the others alone.
LEMMA Apart ==
  ASSUME TypeOK, NEW s \in Streams, NEW t \in Streams, t # s, StreamStep(s)
  PROVE  Unmoved(t)
  <1>0. PageTyped /\ RegisterTyped /\ QueuesTyped /\ DaemonTyped
    BY TypesAre
  <1>1. ASSUME NEW what \in CardState, Show(s, what) PROVE card'[t] = card[t]
    BY <1>0, <1>1, ShowTyped DEF PageTyped
  <1>2. ASSUME NEW what, Tell(s, what) PROVE up'[t] = up[t]
    BY <1>0, <1>2 DEF QueuesTyped, Tell
  <1>3. ASSUME NEW last, Quit(s, last) PROVE up'[t] = up[t] /\ thread'[t] = thread[t]
    BY <1>0, <1>3 DEF QueuesTyped, RegisterTyped, Quit
  <1>4. ASSUME NEW what, Say(s, what) PROVE down'[t] = down[t]
    BY <1>0, <1>4 DEF QueuesTyped, Say
  <1> USE DEF Unmoved
  <1>5. CASE Start(s) \/ TurnedAway(s) \/ Leave(s)
    BY <1>0, <1>5 DEF Start, TurnedAway, Leave, PageTyped, RegisterTyped, hub, link, task
  <1>6. CASE Stop(s)
    BY <1>0, <1>6 DEF Stop, PageTyped, hub, link, task
  <1>7. ASSUME NEW a \in Answer, Click(s, a) PROVE Unmoved(t)
    BY <1>0, <1>7 DEF Click, PageTyped, hub, link, task
  <1>8. ASSUME NEW what \in Control, HandlePost(s, what) PROVE Unmoved(t)
    BY <1>0, <1>2, <1>8 DEF HandlePost, QueuesTyped, browser, task
  <1>9. CASE Open(s) \/ Register(s)
    BY <1>0, <1>1, <1>2, <1>9 DEF Open, Register, CardState, RegisterTyped, task
  <1>10. CASE Read(s)
    <2>1. card'[t] = card[t]
      BY <1>0, <1>1, <1>10 DEF Read, CardState, PageTyped
    <2>2. down'[t] = down[t]
      BY <1>0, <1>10 DEF Read, QueuesTyped
    <2>3. thread'[t] = thread[t] /\ up'[t] = up[t]
      BY <1>0, <1>3, <1>10 DEF Read, RegisterTyped
    <2>4. UNCHANGED <<stopped, clicked, posts, answers, task>>
      BY <1>10 DEF Read
    <2> QED
      BY <2>1, <2>2, <2>3, <2>4 DEF task
  <1>11. CASE ReadTimesOut(s) \/ AwaitTimesOut(s)
    BY <1>1, <1>3, <1>11 DEF ReadTimesOut, AwaitTimesOut, CardState, task
  <1>12. CASE Await(s)
    BY <1>0, <1>1, <1>2, <1>3, <1>12 DEF Await, CardState, RegisterTyped, QueuesTyped, task
  <1>13. CASE Work(s)
    BY <1>0, <1>4, <1>13 DEF Work, Becomes, DaemonTyped, browser, hub
  <1>14. CASE Receive(s)
    <2>1. UNCHANGED <<browser, posts, hub, asked>>
      BY <1>14 DEF Receive
    <2>2. up'[t] = up[t]
      BY <1>0, <1>14 DEF Receive, QueuesTyped
    <2>3. down'[t] = down[t]
      BY <1>4, <1>14 DEF Receive
    <2>4. daemon'[t] = daemon[t] /\ took'[t] = took[t]
      BY <1>0, <1>14 DEF Receive, Becomes, DaemonTyped
    <2> QED
      BY <2>1, <2>2, <2>3, <2>4 DEF browser, hub
  <1> QED
    BY <1>5, <1>6, <1>7, <1>8, <1>9, <1>10, <1>11, <1>12, <1>13, <1>14 DEF StreamStep, Thread

-----------------------------------------------------------------------------
(* What a step of a stream leaves as it was.                               *)

\* The number of the prompt on the card.
LEMMA ShownIs ==
  ASSUME TypeOK, NEW s \in Streams
  PROVE  Shown(s) \in Int /\ Shown(s) <= asked[s] /\ asked[s] \in 0..MaxPrompts /\ MaxPrompts \in Nat
  BY SizesAssumption DEF TypeOK, Shown

\* An answer that was given stays given: a prompt is answered once.
LEMMA GivenStays ==
  ASSUME NEW s \in Streams, Shown(s) \in Int, Shown(s)' \in Int, Shown(s) <= Shown(s)',
         \A n \in Prompts : clicked[s][n] \in Answer => clicked'[s][n] = clicked[s][n]
  PROVE  \A a \in Answer : Given(s, a) => Given(s, a)'
  BY SizesAssumption DEF Given, Prompts

\* r continues the queue q without an answer.
Continues(q, r) ==
  /\ Range(r) \cap Answer \subseteq Range(q)
  /\ r # <<>> =>
       \/ /\ q # <<>> /\ Head(r) = Head(q)
          /\ Range(Tail(r)) \cap Answer \subseteq Range(Tail(q))
       \/ q = <<>> /\ Head(r) \notin Answer /\ Range(Tail(r)) \cap Answer = {}

\* A message that is no answer continues the queue.
LEMMA Continuing ==
  ASSUME NEW q \in Seq(UpMessage), NEW x \in UpMessage \ Answer
  PROVE  Continues(q, Append(q, x)) /\ Append(q, x) \in Seq(UpMessage)
  <1>0. x \in UpMessage /\ x \notin Answer
    OBVIOUS
  <1>1. CASE q = <<>>
    <2>1. /\ Append(q, x) \in Seq(UpMessage) /\ Range(Append(q, x)) = Range(q) \cup {x}
          /\ Head(Append(q, x)) = x /\ Tail(Append(q, x)) = <<>>
      BY <1>0, <1>1, Appending
    <2> QED
      BY <1>0, <1>1, <2>1, NothingQueued DEF Continues
  <1>2. CASE q # <<>>
    <2>1. Tail(q) \in Seq(UpMessage)
      BY <1>2, Taking
    <2>2. Range(Append(Tail(q), x)) = Range(Tail(q)) \cup {x}
      <3>1. \A r \in Seq(UpMessage) : Range(Append(r, x)) = Range(r) \cup {x}
        BY <1>0, Appending
      <3> QED
        BY <2>1, <3>1, Zenon
    <2>3. /\ Append(q, x) \in Seq(UpMessage) /\ Append(q, x) # <<>>
          /\ Range(Append(q, x)) = Range(q) \cup {x}
          /\ Head(Append(q, x)) = Head(q)
          /\ Tail(Append(q, x)) = Append(Tail(q), x)
      BY <1>0, <1>2, Appending
    <2> QED
      BY <1>0, <1>2, <2>2, <2>3 DEF Continues
  <1> QED
    BY <1>1, <1>2

\* A thread that leaves, with a cancel or without, sends no answer.
LEMMA QuitContinues ==
  ASSUME QueuesTyped, NEW s \in Streams, NEW last \in {<<>>, <<"cancel">>}, Quit(s, last)
  PROVE  Continues(up[s], up'[s])
  <1>1. up[s] \in Seq(UpMessage) /\ {"eof", "cancel"} \subseteq UpMessage \ Answer
    BY DEF QueuesTyped, UpMessage, Control, Answer
  <1>2. Continues(up[s], Append(up[s], "eof"))
    BY <1>1, Continuing
  <1>3. /\ Append(up[s], "cancel") \in Seq(UpMessage) /\ Append(up[s], "cancel") # <<>>
        /\ Continues(up[s], Append(up[s], "cancel"))
    BY <1>1, Continuing, Appending
  <1>4. Continues(Append(up[s], "cancel"), Append(Append(up[s], "cancel"), "eof"))
    BY <1>1, <1>3, Continuing
  <1>5. Continues(up[s], Append(Append(up[s], "cancel"), "eof"))
    BY <1>3, <1>4 DEF Continues
  <1> QED
    BY <1>2, <1>5, QuitTyped

\* The thread has read what came first; a prompt on its way is there no more.
LEMMA ReadTakes ==
  ASSUME TypeOK, NEW s \in Streams, OneConfirm(s), down[s] # <<>>,
         down'[s] = Tail(down[s]), asked'[s] = asked[s]
  PROVE  /\ OneConfirm(s)' /\ "confirm" \notin Range(down'[s])
         /\ Shown(s)' = asked[s]
         /\ Shown(s) = IF Head(down[s]) = "confirm" THEN asked[s] - 1 ELSE asked[s]
         /\ Head(down[s]) = "confirm" => asked[s] >= 1
  <1>1. down[s] \in Seq(DownMessage)
    BY DEF TypeOK, DownMessage
  <1>2. /\ Tail(down[s]) \in Seq(DownMessage)
        /\ Range(down[s]) = {Head(down[s])} \cup Range(Tail(down[s]))
    BY <1>1, Taking
  <1>3. "confirm" \notin Range(Tail(down[s]))
    BY DEF OneConfirm
  <1>4. down'[s] # <<>> => Range(Tail(down'[s])) \subseteq Range(Tail(down[s]))
    BY <1>2, Taking
  <1> QED
    BY <1>2, <1>3, <1>4 DEF OneConfirm, Shown

\* A thread that leaves its stream, whatever it was doing, leaves the invariant.
LEMMA LeavingKeeps ==
  ASSUME TypeOK, NEW s \in Streams, StreamInv(s),
         thread'[s] = "over", card'[s] \notin {"new", "asked"},
         \/ UNCHANGED down
         \/ down[s] # <<>> /\ down'[s] = Tail(down[s]),
         \/ UNCHANGED answers
         \/ answers[s] # <<>> /\ answers'[s] = Tail(answers[s]),
         Continues(up[s], up'[s]),
         UNCHANGED <<stopped, clicked, posts, task>>
  PROVE  StreamInv(s)'
  <1>1. OneConfirm(s)' /\ Shown(s)' \in Int /\ Shown(s) \in Int /\ Shown(s) <= Shown(s)'
    BY ShownIs, ReadTakes DEF StreamInv, OneConfirm, Shown, task
  <1>2. \A a \in Answer : Given(s, a) => Given(s, a)'
    BY <1>1, GivenStays
  <1>3. CardFollows(s)'
    BY <1>1 DEF StreamInv, CardFollows, Prompts
  <1>4. Range(answers'[s]) \subseteq Range(answers[s])
    BY Taking DEF TypeOK
  <1>5. OneAnswer(s)'
    BY <1>2, <1>4 DEF StreamInv, OneAnswer
  <1>6. SentAsGiven(s)'
    BY <1>2 DEF StreamInv, SentAsGiven, Continues
  <1>7. Undisturbed(s)'
    BY <1>4 DEF StreamInv, Undisturbed, Continues, task
  <1>8. ToldAsGiven(s)'
    BY DEF StreamInv, ToldAsGiven, task
  <1> QED
    BY <1>1, <1>3, <1>5, <1>6, <1>7, <1>8 DEF StreamInv

-----------------------------------------------------------------------------
(* The steps of a stream, one by one.                                      *)

\* A page that is opened, turned away or left.
LEMMA PageKeeps ==
  ASSUME TypeOK, NEW s \in Streams, StreamInv(s), Start(s) \/ TurnedAway(s) \/ Leave(s)
  PROVE  StreamInv(s)'
  <1>1. /\ card'[s] \notin {"new", "asked"} /\ UNCHANGED <<stopped, clicked, posts, answers, link, task>>
        /\ \/ thread[s] = "none" /\ thread'[s] = "opening"
           \/ thread'[s] = thread[s]
    BY DEF Start, TurnedAway, Leave, StreamInv, CardFollows, hub, TypeOK
  <1>2. Shown(s)' = Shown(s) /\ \A a : Given(s, a)' <=> Given(s, a)
    BY <1>1 DEF Shown, Given, link, task
  <1>3. OneConfirm(s)' /\ CardFollows(s)'
    BY <1>1, <1>2 DEF StreamInv, OneConfirm, CardFollows, link, task
  <1>4. OneAnswer(s)'
    BY <1>1, <1>2 DEF StreamInv, OneAnswer
  <1>5. SentAsGiven(s)'
    BY <1>1, <1>2 DEF StreamInv, SentAsGiven, link
  <1>6. Undisturbed(s)' /\ ToldAsGiven(s)'
    BY <1>1 DEF StreamInv, Undisturbed, TakingTurns, ToldAsGiven, link, task
  <1> QED
    BY <1>3, <1>4, <1>5, <1>6 DEF StreamInv

\* Stop: from here on a cancel is on its way.
LEMMA StopKeeps ==
  ASSUME TypeOK, NEW s \in Streams, StreamInv(s), Stop(s)
  PROVE  StreamInv(s)'
  <1>1. /\ stopped'[s] = TRUE /\ UNCHANGED <<card, clicked, hub, link, task>>
        /\ posts' = posts \cup {<<s, "cancel">>}
    BY DEF Stop, TypeOK
  <1>2. \A a \in Answer : <<s, a>> \in posts' => <<s, a>> \in posts
    BY <1>1 DEF Answer
  <1>3. Shown(s)' = Shown(s) /\ \A a : Given(s, a)' <=> Given(s, a)
    BY <1>1 DEF Shown, Given, link, task
  <1>4. OneConfirm(s)' /\ CardFollows(s)'
    BY <1>1, <1>3 DEF StreamInv, OneConfirm, CardFollows, link, task, hub
  <1>5. OneAnswer(s)' /\ SentAsGiven(s)'
    BY <1>1, <1>2, <1>3 DEF StreamInv, OneAnswer, SentAsGiven, link, hub
  <1>6. Undisturbed(s)' /\ ToldAsGiven(s)'
    BY <1>1 DEF StreamInv, Undisturbed, ToldAsGiven, task
  <1> QED
    BY <1>4, <1>5, <1>6 DEF StreamInv

\* A click answers the prompt on the card, which had no answer.
LEMMA ClickKeeps ==
  ASSUME TypeOK, NEW s \in Streams, StreamInv(s), NEW a \in Answer, Click(s, a)
  PROVE  StreamInv(s)'
  <1>1. /\ card[s] = "asked" /\ card'[s] = "running"
        /\ clicked' = [clicked EXCEPT ![s] = [clicked[s] EXCEPT ![Shown(s)] = a]]
        /\ posts' = posts \cup {<<s, a>>}
        /\ UNCHANGED <<stopped, hub, link, task>>
    BY DEF Click, TypeOK
  <1>2. Shown(s) \in Prompts /\ thread[s] = "waiting" /\ clicked[s][Shown(s)] = "none"
    BY <1>1, ShownIs DEF StreamInv, CardFollows, Prompts
  <1>3. /\ clicked'[s][Shown(s)] = a
        /\ \A n \in Prompts : n # Shown(s) => clicked'[s][n] = clicked[s][n]
    BY <1>1, <1>2 DEF TypeOK
  <1>4. Shown(s)' = Shown(s) /\ Shown(s) \in Int
    BY <1>1, ShownIs DEF Shown, link, task
  <1>5. \A n \in Prompts : clicked[s][n] \in Answer => clicked'[s][n] = clicked[s][n]
    BY <1>2, <1>3 DEF Answer
  <1>6. \A b \in Answer : Given(s, b) => Given(s, b)'
    BY <1>4, <1>5, GivenStays
  <1>7. Given(s, a)'
    BY <1>2, <1>3, <1>4 DEF Given
  <1>8. \A b \in Answer : <<s, b>> \notin posts /\ b \notin Range(answers[s])
    BY <1>1 DEF StreamInv, OneAnswer
  <1>9. \A b \in Answer : <<s, b>> \in posts' => b = a
    BY <1>1, <1>8
  <1>10. OneConfirm(s)' /\ CardFollows(s)'
    BY <1>1, <1>2, <1>3, <1>4 DEF StreamInv, OneConfirm, CardFollows, link, task, hub
  <1>11. OneAnswer(s)'
    BY <1>1, <1>2, <1>3, <1>4, <1>7, <1>8, <1>9 DEF StreamInv, OneAnswer, hub
  <1>12. SentAsGiven(s)'
    BY <1>1, <1>6 DEF StreamInv, SentAsGiven, link
  <1>13. Undisturbed(s)'
    <2>1. <<s, "cancel">> \in posts' => <<s, "cancel">> \in posts
      BY <1>1 DEF Answer
    <2>2. ~stopped[s] => up[s] = <<>>
      BY <1>2 DEF StreamInv, Undisturbed, TakingTurns
    <2> QED
      BY <1>1, <2>1, <2>2 DEF StreamInv, Undisturbed, TakingTurns, hub, link, task
  <1>14. ToldAsGiven(s)'
    <2>1. \A n \in Prompts : took'[s][n] = took[s][n] /\ stopped'[s] = stopped[s]
      BY <1>1 DEF task
    <2>2. \A n \in Prompts : clicked[s][n] # "none" => clicked'[s][n] = clicked[s][n]
      BY <1>2, <1>3
    <2>3. \A n \in Prompts : 1..n \subseteq Prompts
      BY SizesAssumption DEF Prompts
    <2> QED
      BY <1>1, <2>1, <2>2, <2>3 DEF StreamInv, ToldAsGiven, task
  <1> QED
    BY <1>10, <1>11, <1>12, <1>13, <1>14 DEF StreamInv

\* An answer or a cancel reaches the hub, which queues it for the thread or drops it.
LEMMA HandlePostKeeps ==
  ASSUME TypeOK, Registered, NEW s \in Streams, StreamInv(s), NEW what \in Control,
         HandlePost(s, what)
  PROVE  StreamInv(s)'
  <1>1. /\ <<s, what>> \in posts /\ posts' = posts \ {<<s, what>>}
        /\ UNCHANGED <<browser, thread, down, task>>
    BY DEF HandlePost
  <1>2. Shown(s)' = Shown(s) /\ \A a : Given(s, a)' <=> Given(s, a)
    BY <1>1 DEF Shown, Given, browser, task
  <1>3. OneConfirm(s)' /\ CardFollows(s)' /\ ToldAsGiven(s)'
    BY <1>1, <1>2 DEF StreamInv, OneConfirm, CardFollows, ToldAsGiven, browser, task
  <1>4. CASE UNCHANGED <<answers, up>>
    <2>1. OneAnswer(s)' /\ SentAsGiven(s)'
      BY <1>1, <1>2, <1>4 DEF StreamInv, OneAnswer, SentAsGiven, browser
    <2>2. Undisturbed(s)'
      BY <1>1, <1>4 DEF StreamInv, Undisturbed, TakingTurns, browser, task
    <2> QED
      BY <1>3, <2>1, <2>2 DEF StreamInv
  <1>5. CASE s \in sessions /\ answers' = [answers EXCEPT ![s] = Append(@, Queued(what))]
             /\ IF what = "cancel" THEN Tell(s, "cancel") ELSE UNCHANGED up
    <2>1. thread[s] \in {"reading", "waiting"}
      BY <1>5 DEF Registered
    <2>2. answers[s] \in Seq(Control) /\ answers'[s] = Append(answers[s], what)
      BY <1>5 DEF TypeOK, Queued
    <2>3. Range(answers'[s]) = Range(answers[s]) \cup {what}
      BY <2>2, Appending
    <2>4. /\ Len(answers[s]) \in Nat /\ Len(answers'[s]) = Len(answers[s]) + 1
          /\ \A i \in 1..Len(answers[s]) : answers'[s][i] = answers[s][i]
          /\ answers'[s][Len(answers[s]) + 1] = what
      BY <2>2, AppendProperties, LenProperties
    <2>5. \A i \in 1..Len(answers[s]) : answers[s][i] \in Range(answers[s])
      BY <2>2, LenProperties DEF Range
    <2>6. CASE what = "cancel"
      <3>1. up'[s] = Append(up[s], "cancel") /\ up[s] \in Seq(UpMessage)
        BY <1>5, <2>6, TellTyped DEF TypeOK, UpMessage, Control
      <3>2. Continues(up[s], up'[s])
        BY <3>1, Continuing DEF UpMessage, Control, Answer
      <3>3. SentAsGiven(s)'
        BY <1>2, <3>2 DEF StreamInv, SentAsGiven, Continues
      <3>4. stopped[s] /\ Undisturbed(s)'
        BY <1>1, <2>6 DEF StreamInv, Undisturbed, browser
      <3>5. OneAnswer(s)'
        <4>1. what \notin Answer /\ \A a \in Answer : a \in Range(answers'[s]) <=> a \in Range(answers[s])
          BY <2>3, <2>6 DEF Answer
        <4>2. \A a \in Answer : <<s, a>> \in posts' <=> <<s, a>> \in posts
          BY <1>1, <4>1
        <4>3. \A i \in 1..Len(answers'[s]) :
                answers'[s][i] \in Answer => i \in 1..Len(answers[s]) /\ answers'[s][i] = answers[s][i]
          BY <2>4, <4>1
        <4> QED
          BY <1>1, <1>2, <4>1, <4>2, <4>3 DEF StreamInv, OneAnswer, browser
      <3> QED
        BY <1>3, <3>3, <3>4, <3>5 DEF StreamInv
    <2>7. CASE what # "cancel"
      <3>1. what \in Answer /\ UNCHANGED up
        BY <1>5, <2>7 DEF Control
      <3>2. /\ thread[s] = "waiting" /\ clicked[s][Shown(s)] = what
            /\ Given(s, what) /\ card[s] # "asked"
            /\ \A b \in Answer : b \notin Range(answers[s])
            /\ \A b \in Answer : <<s, b>> \in posts => b = what
        BY <1>1, <2>1, <3>1 DEF StreamInv, OneAnswer
      <3>3. \A b \in Answer : <<s, b>> \notin posts'
        BY <1>1, <3>2
      <3>4. SentAsGiven(s)'
        BY <1>2, <3>1 DEF StreamInv, SentAsGiven
      <3>5. Undisturbed(s)'
        BY <1>1, <2>3, <2>7, <3>1 DEF StreamInv, Undisturbed, TakingTurns, browser, task
      <3>6. \A i \in 1..Len(answers'[s]) :
              answers'[s][i] \in Answer => i = Len(answers[s]) + 1
        BY <2>4, <2>5, <3>2
      <3>7. OneAnswer(s)'
        BY <1>1, <1>2, <2>3, <3>2, <3>3, <3>6 DEF StreamInv, OneAnswer, browser
      <3> QED
        BY <1>3, <3>4, <3>5, <3>7 DEF StreamInv
    <2> QED
      BY <2>6, <2>7
  <1> QED
    BY <1>4, <1>5 DEF HandlePost

\* A thread connects to the daemon, or fails to; it comes on the register, or does not.
LEMMA OpenKeeps ==
  ASSUME TypeOK, NEW s \in Streams, StreamInv(s), Open(s) \/ Register(s)
  PROVE  StreamInv(s)'
  <1>0. PageTyped /\ QueuesTyped
    BY TypesAre
  <1>1. UNCHANGED <<stopped, clicked, posts, answers, down, task>>
    BY DEF Open, Register
  <1>2. up[s] \in Seq(UpMessage) /\ {"query", "eof"} \subseteq UpMessage \ Answer
    BY <1>0 DEF QueuesTyped, UpMessage, Control, Answer
  <1>3. CASE thread'[s] = "over"
    <2>1. Show(s, "lost") /\ (UNCHANGED up \/ Tell(s, "eof"))
      BY <1>3 DEF Open, Register, TypeOK
    <2>2. card'[s] \notin {"new", "asked"}
      BY <1>0, <2>1, ShowTyped DEF CardState, PageTyped
    <2>3. Continues(up[s], up'[s])
      <3>1. CASE UNCHANGED up
        BY <3>1 DEF Continues
      <3>2. CASE Tell(s, "eof")
        BY <1>0, <1>2, <3>2, TellTyped, Continuing DEF QueuesTyped
      <3> QED
        BY <2>1, <3>1, <3>2
    <2> QED
      BY <1>1, <1>3, <2>2, <2>3, LeavingKeeps
  <1>4. CASE thread'[s] # "over"
    <2>1. /\ thread[s] \in {"opening", "connected"} /\ UNCHANGED card
          /\ \/ /\ thread[s] = "opening" /\ thread'[s] = "connected"
                /\ Tell(s, "query")
             \/ /\ thread[s] = "connected" /\ thread'[s] = "reading"
                /\ UNCHANGED up
      BY <1>4 DEF Open, Register, TypeOK
    <2>2. Shown(s)' = Shown(s) /\ \A a : Given(s, a)' <=> Given(s, a)
      BY <1>1 DEF Shown, Given, task
    <2>3. OneConfirm(s)' /\ CardFollows(s)' /\ ToldAsGiven(s)'
      BY <1>1, <2>1, <2>2 DEF StreamInv, OneConfirm, CardFollows, ToldAsGiven, task
    <2>4. OneAnswer(s)'
      BY <1>1, <2>1, <2>2 DEF StreamInv, OneAnswer
    <2>5. CASE UNCHANGED up
      <3>1. thread[s] = "connected" /\ thread'[s] = "reading"
        <4>1. ~Tell(s, "query")
          BY <1>0, <1>2, <2>5, AppendProperties DEF Tell, QueuesTyped
        <4> QED
          BY <2>1, <4>1
      <3>2. SentAsGiven(s)'
        BY <2>2, <2>5 DEF StreamInv, SentAsGiven
      <3>3. Undisturbed(s)'
        BY <1>1, <2>5, <3>1 DEF StreamInv, Undisturbed, TakingTurns, task
      <3> QED
        BY <2>3, <2>4, <3>2, <3>3 DEF StreamInv
    <2>6. CASE thread[s] = "opening" /\ thread'[s] = "connected" /\ Tell(s, "query")
      <3>1. up'[s] = Append(up[s], "query") /\ Continues(up[s], up'[s])
        BY <1>0, <1>2, <2>6, TellTyped, Continuing DEF QueuesTyped
      <3>2. SentAsGiven(s)'
        BY <2>2, <3>1 DEF StreamInv, SentAsGiven, Continues
      <3>3. ~stopped[s] => /\ up[s] = <<>> /\ down[s] = <<>> /\ daemon[s] = "none"
                           /\ up'[s] = <<"query">>
        <4>1. ~stopped[s] => up[s] = <<>> /\ down[s] = <<>> /\ daemon[s] = "none"
          BY <2>6 DEF StreamInv, Undisturbed, TakingTurns
        <4> QED
          BY <3>1, <4>1, Alone
      <3>4. Undisturbed(s)'
        BY <1>1, <2>6, <3>1, <3>3 DEF StreamInv, Undisturbed, TakingTurns, Continues, task
      <3> QED
        BY <2>3, <2>4, <3>2, <3>4 DEF StreamInv
    <2> QED
      BY <2>1, <2>5, <2>6
  <1> QED
    BY <1>3, <1>4

\* A wait that is over: for the daemon, or for the user.
LEMMA TimeoutKeeps ==
  ASSUME TypeOK, NEW s \in Streams, StreamInv(s), ReadTimesOut(s) \/ AwaitTimesOut(s)
  PROVE  StreamInv(s)'
  <1>0. PageTyped /\ RegisterTyped /\ QueuesTyped
    BY TypesAre
  <1>1. \E last \in {<<>>, <<"cancel">>} : Quit(s, last)
    BY DEF ReadTimesOut, AwaitTimesOut
  <1>2. thread'[s] = "over" /\ Continues(up[s], up'[s])
    BY <1>0, <1>1, QuitContinues DEF Quit, RegisterTyped
  <1>3. Show(s, "lost") /\ UNCHANGED <<stopped, clicked, posts, answers, down, task>>
    BY DEF ReadTimesOut, AwaitTimesOut
  <1>4. card'[s] \notin {"new", "asked"}
    BY <1>0, <1>3, ShowTyped DEF CardState, PageTyped
  <1> QED
    BY <1>2, <1>3, <1>4, LeavingKeeps

\* A message from the daemon: a word for the card, a prompt, or the end.
LEMMA ReadKeeps ==
  ASSUME TypeOK, NEW s \in Streams, StreamInv(s), Read(s)
  PROVE  StreamInv(s)'
  <1>0. PageTyped /\ RegisterTyped /\ QueuesTyped
    BY TypesAre
  <1>1. /\ thread[s] = "reading" /\ down[s] # <<>> /\ down' = [down EXCEPT ![s] = Tail(down[s])]
        /\ UNCHANGED <<stopped, clicked, posts, answers, task>>
    BY DEF Read
  <1>2. down'[s] = Tail(down[s])
    BY <1>0, <1>1 DEF QueuesTyped
  <1>3. card[s] # "new" /\ card[s] # "asked"
    BY <1>1 DEF StreamInv, CardFollows
  <1>4. /\ OneConfirm(s)' /\ "confirm" \notin Range(down'[s])
        /\ Shown(s)' = asked[s]
        /\ Shown(s) = IF Head(down[s]) = "confirm" THEN asked[s] - 1 ELSE asked[s]
        /\ Head(down[s]) = "confirm" => asked[s] >= 1
    BY <1>1, <1>2, ReadTakes DEF StreamInv, task
  <1>5. asked[s] \in 0..MaxPrompts /\ MaxPrompts \in Nat
    BY ShownIs
  <1>6. \A a \in Answer : Given(s, a) => Given(s, a)'
    BY <1>1, <1>4, <1>5, GivenStays
  <1>7. \A a \in Answer : <<s, a>> \notin posts /\ a \notin Range(answers[s])
    BY <1>1 DEF StreamInv, OneAnswer
  <1>8. ToldAsGiven(s)'
    BY <1>1 DEF StreamInv, ToldAsGiven, task
  <1>9. CASE \E last \in {<<>>, <<"cancel">>} : Quit(s, last)
    <2>1. thread'[s] = "over" /\ Continues(up[s], up'[s])
      BY <1>0, <1>9, QuitContinues DEF Quit, RegisterTyped
    <2>2. (\E what \in {"complete", "lost"} : Show(s, what)) \/ UNCHANGED card
      <3>1. ~UNCHANGED thread /\ thread'[s] # "waiting"
        BY <1>1, <2>1
      <3> QED
        BY <1>0, <3>1 DEF Read, RegisterTyped
    <2>3. {"complete", "lost"} \subseteq CardState
      BY DEF CardState
    <2>4. card'[s] \notin {"new", "asked"}
      BY <1>0, <1>3, <2>2, <2>3, ShowTyped DEF PageTyped
    <2> QED
      BY <1>1, <1>2, <2>1, <2>4, LeavingKeeps
  <1>10. CASE Head(down[s]) = "status" /\ Show(s, card[s]) /\ UNCHANGED <<thread, sessions, up>>
    <2>1. card'[s] \notin {"new", "asked"}
      <3>1. card[s] \in CardState
        BY <1>0 DEF PageTyped
      <3> QED
        BY <1>0, <1>3, <1>10, <3>1, ShowTyped DEF PageTyped
    <2>2. CardFollows(s)'
      BY <1>1, <1>4, <1>10, <2>1 DEF StreamInv, CardFollows
    <2>3. OneAnswer(s)'
      BY <1>1, <1>7, <1>10 DEF OneAnswer
    <2>4. SentAsGiven(s)'
      BY <1>6, <1>10 DEF StreamInv, SentAsGiven
    <2>5. Undisturbed(s)'
      <3>1. ~stopped[s] => down[s] # <<"confirm">>
        BY <1>10, Alone
      <3>2. ~stopped[s] => /\ daemon[s] \in {"running", "told", "ended"} /\ up[s] = <<>>
        BY <1>1, <3>1 DEF StreamInv, Undisturbed, TakingTurns
      <3> QED
        BY <1>1, <1>4, <1>10, <3>2 DEF StreamInv, Undisturbed, TakingTurns, task
    <2> QED
      BY <1>4, <1>8, <2>2, <2>3, <2>4, <2>5 DEF StreamInv
  <1>11. CASE /\ Head(down[s]) = "confirm" /\ Show(s, "asked")
              /\ thread' = [thread EXCEPT ![s] = "waiting"] /\ UNCHANGED <<sessions, up>>
    <2>1. card'[s] # "new" /\ thread'[s] = "waiting"
      BY <1>0, <1>11, ShowTyped DEF CardState, PageTyped, RegisterTyped
    <2>2. asked[s] \in Prompts /\ asked[s] > Shown(s)
      BY <1>4, <1>5, <1>11 DEF Prompts
    <2>3. clicked'[s] = clicked[s] /\ clicked[s][asked[s]] = "none"
      BY <1>1, <2>2 DEF StreamInv, CardFollows
    <2>4. CardFollows(s)'
      BY <1>4, <1>5, <1>11, <2>1, <2>2, <2>3 DEF StreamInv, CardFollows, Prompts
    <2>5. OneAnswer(s)'
      <3>1. answers[s] \in Seq(Control)
        BY <1>0 DEF QueuesTyped
      <3>2. \A i \in 1..Len(answers[s]) : answers[s][i] \in Range(answers[s])
        BY <3>1, LenProperties DEF Range
      <3> QED
        BY <1>1, <1>7, <3>2 DEF OneAnswer
    <2>6. SentAsGiven(s)'
      BY <1>6, <1>11 DEF StreamInv, SentAsGiven
    <2>7. Undisturbed(s)'
      <3>1. down[s] \in Seq(DownMessage) /\ "confirm" \in Range(down[s])
        BY <1>0, <1>1, <1>11, Taking DEF QueuesTyped
      <3>2. ~stopped[s] => daemon[s] = "asking" /\ up[s] = <<>> /\ down[s] = <<"confirm">>
        BY <1>1, <3>1, NothingQueued DEF StreamInv, Undisturbed, TakingTurns
      <3>3. ~stopped[s] => down'[s] = <<>>
        BY <1>2, <3>2, Alone
      <3> QED
        BY <1>1, <1>11, <2>1, <3>2, <3>3 DEF StreamInv, Undisturbed, TakingTurns, task
    <2> QED
      BY <1>4, <1>8, <2>4, <2>5, <2>6, <2>7 DEF StreamInv
  <1> QED
    BY <1>9, <1>10, <1>11 DEF Read

\* The thread takes what the user said: it tells the daemon, or leaves.
LEMMA AwaitKeeps ==
  ASSUME TypeOK, NEW s \in Streams, StreamInv(s), Await(s)
  PROVE  StreamInv(s)'
  <1>0. PageTyped /\ RegisterTyped /\ QueuesTyped
    BY TypesAre
  <1>1. /\ thread[s] = "waiting" /\ answers[s] # <<>>
        /\ answers' = [answers EXCEPT ![s] = Tail(answers[s])]
        /\ UNCHANGED <<stopped, clicked, posts, down, task>>
    BY DEF Await
  <1>2. answers'[s] = Tail(answers[s]) /\ answers[s] \in Seq(Control)
    BY <1>0, <1>1 DEF QueuesTyped
  <1>3. CASE Quit(s, <<"cancel">>) /\ Show(s, "lost")
    <2>1. thread'[s] = "over" /\ Continues(up[s], up'[s])
      BY <1>0, <1>3, QuitContinues DEF Quit, RegisterTyped
    <2>2. card'[s] \notin {"new", "asked"}
      BY <1>0, <1>3, ShowTyped DEF CardState, PageTyped
    <2> QED
      BY <1>1, <1>2, <2>1, <2>2, LeavingKeeps
  <1>4. CASE /\ Head(answers[s]) # "cancel" /\ Tell(s, Head(answers[s]))
             /\ thread' = [thread EXCEPT ![s] = "reading"] /\ UNCHANGED card
    <2> DEFINE a == Head(answers[s])
    <2>1. a \in Answer /\ a \in UpMessage /\ Range(answers[s]) = {a} \cup Range(Tail(answers[s]))
      BY <1>1, <1>2, <1>4, Taking DEF Control, UpMessage
    <2>2. /\ Given(s, a) /\ card[s] # "asked" /\ clicked[s][Shown(s)] = a
          /\ \A b \in Answer : <<s, b>> \notin posts
      BY <1>1, <2>1 DEF StreamInv, OneAnswer
    <2>3. \A b \in Answer : b \notin Range(Tail(answers[s]))
      <3>1. /\ Len(answers[s]) \in Nat \ {0} /\ a = answers[s][1]
            /\ DOMAIN Tail(answers[s]) = 1..(Len(answers[s]) - 1)
            /\ \A i \in 1..(Len(answers[s]) - 1) : Tail(answers[s])[i] = answers[s][i + 1]
        BY <1>1, <1>2, HeadTailProperties, LenProperties, EmptySeq
      <3>2. \A i \in 2..Len(answers[s]) : answers[s][i] \notin Answer
        BY <1>1, <2>1, <3>1 DEF StreamInv, OneAnswer
      <3> QED
        BY <3>1, <3>2 DEF Range
    <2>4. up[s] \in Seq(UpMessage) /\ up'[s] = Append(up[s], a)
      BY <1>0, <1>4, <2>1, TellTyped DEF QueuesTyped
    <2>5. Range(up'[s]) = Range(up[s]) \cup {a}
      BY <2>1, <2>4, Appending
    <2>6. Shown(s)' = Shown(s) /\ \A b : Given(s, b)' <=> Given(s, b)
      BY <1>1 DEF Shown, Given, task
    <2>7. thread'[s] = "reading"
      BY <1>0, <1>4 DEF RegisterTyped
    <2>8. OneConfirm(s)' /\ CardFollows(s)' /\ ToldAsGiven(s)'
      BY <1>1, <1>4, <2>2, <2>6, <2>7 DEF StreamInv, OneConfirm, CardFollows, ToldAsGiven, task
    <2>9. OneAnswer(s)'
      BY <1>1, <1>2, <2>2, <2>3, <2>7 DEF OneAnswer
    <2>10. SentAsGiven(s)'
      BY <2>2, <2>5, <2>6 DEF StreamInv, SentAsGiven
    <2>11. Undisturbed(s)'
      <3>1. ~stopped[s] => up[s] = <<>> /\ daemon[s] = "asking" /\ down[s] = <<>>
        BY <1>1 DEF StreamInv, Undisturbed, TakingTurns
      <3>2. ~stopped[s] => /\ Head(up'[s]) = a /\ Tail(up'[s]) = <<>> /\ Len(up'[s]) = 1
        BY <2>4, <3>1, Alone
      <3>3. ~stopped[s] => Shown(s) = asked[s]
        BY <3>1, NothingQueued DEF Shown
      <3> QED
        BY <1>1, <1>2, <2>1, <2>2, <2>7, <3>1, <3>2, <3>3, NothingQueued
        DEF StreamInv, Undisturbed, TakingTurns, task
    <2> QED
      BY <2>8, <2>9, <2>10, <2>11 DEF StreamInv
  <1> QED
    BY <1>3, <1>4 DEF Await

\* The daemon says something, asks, or is done.
LEMMA WorkKeeps ==
  ASSUME TypeOK, NEW s \in Streams, StreamInv(s), Work(s)
  PROVE  StreamInv(s)'
  <1>0. QueuesTyped /\ DaemonTyped
    BY TypesAre
  <1>1. /\ daemon[s] \in {"running", "told"} /\ down[s] = <<>>
        /\ UNCHANGED <<browser, posts, hub, up, took>>
    BY DEF Work
  <1>2. PICK what \in DownMessage :
          /\ Say(s, what)
          /\ \/ /\ what = "confirm" /\ asked[s] < MaxPrompts
                /\ asked' = [asked EXCEPT ![s] = @ + 1]
                /\ daemon' = [daemon EXCEPT ![s] = "asking"]
             \/ /\ what # "confirm" /\ UNCHANGED asked
                /\ \E state \in {"running", "ended"} : daemon' = [daemon EXCEPT ![s] = state]
    BY DEF Work, Becomes, DownMessage
  <1>3. down'[s] = <<what>> /\ Range(down'[s]) = {what} /\ Tail(down'[s]) = <<>>
    BY <1>0, <1>1, <1>2, Alone DEF Say, QueuesTyped
  <1>4. /\ asked[s] \in 0..MaxPrompts /\ MaxPrompts \in Nat
        /\ asked'[s] = IF what = "confirm" THEN asked[s] + 1 ELSE asked[s]
    BY <1>0, <1>2, ShownIs DEF DaemonTyped
  <1>5. Shown(s) = asked[s] /\ Shown(s)' = asked[s]
    BY <1>1, <1>3, <1>4, NothingQueued DEF Shown
  <1>6. \A a : Given(s, a)' <=> Given(s, a)
    BY <1>1, <1>5 DEF Given, browser
  <1>7. OneConfirm(s)'
    BY <1>3, <1>4, NothingQueued DEF OneConfirm
  <1>8. CardFollows(s)' /\ OneAnswer(s)' /\ SentAsGiven(s)'
    BY <1>1, <1>5, <1>6 DEF StreamInv, CardFollows, OneAnswer, SentAsGiven, browser, hub
  <1>9. Undisturbed(s)'
    <2>1. ~stopped[s] /\ thread[s] # "over" =>
            thread[s] \in {"connected", "reading"} /\ up[s] = <<>>
      BY <1>1 DEF StreamInv, Undisturbed, TakingTurns
    <2>2. ~stopped[s] /\ up[s] # <<>> => Head(up[s]) \notin Answer
      BY <1>1 DEF StreamInv, Undisturbed
    <2>3. what # "confirm" => daemon'[s] \in {"running", "ended"} /\ "confirm" \notin Range(down'[s])
      BY <1>0, <1>2, <1>3 DEF DaemonTyped
    <2>4. what = "confirm" => daemon'[s] = "asking" /\ down'[s] = <<"confirm">>
      BY <1>0, <1>2, <1>3 DEF DaemonTyped
    <2> QED
      BY <1>1, <2>1, <2>2, <2>3, <2>4 DEF StreamInv, Undisturbed, TakingTurns, browser, hub
  <1>10. ToldAsGiven(s)'
    <2>1. daemon'[s] = "asking" => asked'[s] >= 1
      BY <1>0, <1>1, <1>2, <1>4 DEF DaemonTyped
    <2> QED
      BY <1>1, <2>1 DEF StreamInv, ToldAsGiven, browser
  <1> QED
    BY <1>7, <1>8, <1>9, <1>10 DEF StreamInv

\* The daemon takes the next message from the socket.
LEMMA ReceiveKeeps ==
  ASSUME TypeOK, NEW s \in Streams, StreamInv(s), Receive(s)
  PROVE  StreamInv(s)'
  <1> DEFINE what == Head(up[s])
  <1>0. QueuesTyped /\ DaemonTyped
    BY TypesAre
  <1>1. /\ up[s] # <<>> /\ up' = [up EXCEPT ![s] = Tail(up[s])]
        /\ UNCHANGED <<browser, posts, hub, asked>>
    BY DEF Receive
  <1>2. /\ up[s] \in Seq(UpMessage) /\ Tail(up[s]) \in Seq(UpMessage) /\ up'[s] = Tail(up[s])
        /\ Range(up[s]) = {what} \cup Range(up'[s])
    BY <1>0, <1>1, Taking DEF QueuesTyped
  <1>3. UNCHANGED down \/ (what = "cancel" /\ Say(s, "end"))
    BY DEF Receive
  <1>4. /\ "confirm" \in Range(down'[s]) <=> "confirm" \in Range(down[s])
        /\ down'[s] # <<>> /\ "confirm" \in Range(Tail(down'[s])) =>
             down[s] # <<>> /\ "confirm" \in Range(Tail(down[s]))
    <2>1. CASE UNCHANGED down
      BY <2>1
    <2>2. CASE Say(s, "end")
      <3>1. down[s] \in Seq(DownMessage) /\ down'[s] = Append(down[s], "end") /\ "end" \in DownMessage
        BY <1>0, <2>2 DEF Say, QueuesTyped, DownMessage
      <3>2. /\ Range(down'[s]) = Range(down[s]) \cup {"end"}
            /\ Tail(down'[s]) = IF down[s] = <<>> THEN <<>> ELSE Append(Tail(down[s]), "end")
        BY <3>1, Appending
      <3>3. down[s] # <<>> => Range(Tail(down'[s])) = Range(Tail(down[s])) \cup {"end"}
        <4>1. \A r \in Seq(DownMessage) : Range(Append(r, "end")) = Range(r) \cup {"end"}
          BY <3>1, Appending
        <4>2. down[s] # <<>> => Tail(down[s]) \in Seq(DownMessage)
          BY <3>1, Taking
        <4> QED
          BY <3>2, <4>1, <4>2
      <3> QED
        BY <3>2, <3>3, NothingQueued
    <2> QED
      BY <1>3, <2>1, <2>2
  <1>5. Shown(s)' = Shown(s) /\ \A a : Given(s, a)' <=> Given(s, a)
    BY <1>1, <1>4 DEF Shown, Given, browser
  <1>6. OneConfirm(s)'
    BY <1>1, <1>4 DEF StreamInv, OneConfirm
  <1>7. CardFollows(s)' /\ OneAnswer(s)' /\ SentAsGiven(s)'
    BY <1>1, <1>2, <1>5 DEF StreamInv, CardFollows, OneAnswer, SentAsGiven, browser, hub
  <1>8. daemon'[s] = "asking" => daemon[s] = "asking"
    BY <1>0 DEF Receive, Becomes, DaemonTyped
  <1>9. asked[s] \in 0..MaxPrompts /\ MaxPrompts \in Nat /\ Shown(s) <= asked[s]
    BY ShownIs
  <1>10. Undisturbed(s)'
    <2> SUFFICES ASSUME ~stopped[s] PROVE Undisturbed(s)'
      BY <1>1 DEF Undisturbed, browser
    <2>1. Range(up'[s]) \cap Answer = {}
      BY <1>1, <1>2 DEF StreamInv, Undisturbed
    <2>2. up'[s] # <<>> => Head(up'[s]) \notin Answer /\ Range(Tail(up'[s])) \cap Answer = {}
      <3>1. up'[s] # <<>> => Range(up'[s]) = {Head(up'[s])} \cup Range(Tail(up'[s]))
        BY <1>2, Taking
      <3> QED
        BY <2>1, <3>1
    <2>3. thread[s] # "over" => TakingTurns(s)'
      <3> SUFFICES ASSUME thread[s] # "over" PROVE TakingTurns(s)'
        OBVIOUS
      <3>1. TakingTurns(s)
        BY DEF StreamInv, Undisturbed
      <3>2. CASE up[s] = <<"query">>
        <4>1. /\ what = "query" /\ up'[s] = <<>> /\ down[s] = <<>>
              /\ thread[s] \in {"connected", "reading"}
          BY <1>2, <3>1, <3>2, Alone DEF TakingTurns, Answer
        <4>2. daemon'[s] = "running" /\ UNCHANGED down
          BY <1>0, <4>1 DEF Receive, Becomes, DaemonTyped, Control, Answer
        <4> QED
          BY <1>1, <4>1, <4>2, NothingQueued DEF TakingTurns, hub
      <3>3. CASE up[s] # <<"query">>
        <4>1. /\ thread[s] = "reading" /\ daemon[s] = "asking"
              /\ Len(up[s]) = 1 /\ what \in Answer /\ down[s] = <<>>
          BY <1>1, <3>1, <3>3 DEF TakingTurns
        <4>2. Len(up'[s]) = 0
          <5>1. Len(Tail(up[s])) = Len(up[s]) - 1
            BY <1>1, <1>2, HeadTailProperties
          <5> QED
            BY <1>2, <4>1, <5>1
        <4>3. up'[s] = <<>>
          BY <1>2, <4>2, EmptySeq
        <4>4. daemon'[s] = "told" /\ UNCHANGED down
          BY <1>0, <4>1 DEF Receive, Becomes, DaemonTyped, Control, Answer
        <4> QED
          BY <1>1, <4>1, <4>3, <4>4, NothingQueued DEF TakingTurns, hub
      <3> QED
        BY <3>2, <3>3
    <2> QED
      BY <1>1, <2>2, <2>3 DEF StreamInv, Undisturbed, browser, hub
  <1>11. ToldAsGiven(s)'
    <2>1. daemon'[s] = "asking" => asked'[s] >= 1
      BY <1>1, <1>8 DEF StreamInv, ToldAsGiven
    <2>2. CASE UNCHANGED took
      BY <1>1, <2>1, <2>2 DEF StreamInv, ToldAsGiven, browser
    <2>3. CASE /\ what \in Answer /\ daemon[s] = "asking"
               /\ took' = [took EXCEPT ![s] = [took[s] EXCEPT ![asked[s]] = what]]
      <3>1. asked[s] \in Prompts
        BY <1>9, <2>3 DEF StreamInv, ToldAsGiven, Prompts
      <3>2. /\ took'[s][asked[s]] = what
            /\ \A n \in Prompts : n # asked[s] => took'[s][n] = took[s][n]
        BY <1>0, <2>3, <3>1 DEF DaemonTyped
      <3>3. \E m \in 1..asked[s] : what = clicked[s][m] /\ (stopped[s] \/ m = asked[s])
        <4>1. CASE stopped[s]
          <5>1. Given(s, what)
            BY <1>2, <2>3 DEF StreamInv, SentAsGiven
          <5> QED
            BY <1>9, <4>1, <5>1, ShownIs DEF Given, Prompts
        <4>2. CASE ~stopped[s]
          <5>1. what = clicked[s][asked[s]]
            BY <1>1, <2>3, <4>2 DEF StreamInv, Undisturbed
          <5> QED
            BY <3>1, <5>1 DEF Prompts
        <4> QED
          BY <4>1, <4>2
      <3> QED
        BY <1>1, <2>1, <3>2, <3>3 DEF StreamInv, ToldAsGiven, browser
    <2> QED
      BY <2>2, <2>3 DEF Receive
  <1> QED
    BY <1>6, <1>7, <1>10, <1>11 DEF StreamInv

-----------------------------------------------------------------------------
(* The theorems.                                                           *)

\* The invariant holds before a card is opened.
LEMMA InitInvariant == Init => IInv
  <1> SUFFICES ASSUME Init PROVE IInv
    OBVIOUS
  <1>1. IsFiniteSet(sessions) /\ Cardinality(sessions) = 0
    BY FS_EmptySet DEF Init
  <1>2. TypeOK
    <2>1. MaxSessions \in Nat /\ MaxPrompts \in Nat
      BY SizesAssumption
    <2>2. PageTyped
      BY DEF Init, PageTyped, CardState
    <2>3. RegisterTyped
      BY <1>1, <2>1 DEF Init, RegisterTyped, ThreadState
    <2>4. QueuesTyped
      BY EmptySeq DEF Init, QueuesTyped
    <2>5. DaemonTyped
      BY <2>1 DEF Init, DaemonTyped, DaemonState
    <2> QED
      BY <2>2, <2>3, <2>4, <2>5, TypesAre
  <1>3. Registered
    BY <1>1 DEF Init, Registered
  <1>4. ASSUME NEW s \in Streams PROVE StreamInv(s)
    <2>1. /\ card[s] = "new" /\ stopped[s] = FALSE /\ posts = {} /\ thread[s] = "none"
          /\ answers[s] = <<>> /\ up[s] = <<>> /\ down[s] = <<>>
          /\ daemon[s] = "none" /\ asked[s] = 0
          /\ \A n \in Prompts : clicked[s][n] = "none" /\ took[s][n] = "none"
      BY DEF Init
    <2> QED
      BY <2>1, NothingQueued
      DEF StreamInv, OneConfirm, CardFollows, OneAnswer, SentAsGiven, Undisturbed,
          TakingTurns, ToldAsGiven
  <1> QED
    BY <1>2, <1>3, <1>4 DEF IInv

\* Every step keeps the invariant.
LEMMA NextInvariant == IInv /\ [Next]_vars => IInv'
  <1> SUFFICES ASSUME IInv, [Next]_vars PROVE IInv'
    OBVIOUS
  <1>1. TypeOK /\ Registered /\ \A s \in Streams : StreamInv(s)
    BY DEF IInv
  <1>2. TypeOK' /\ Registered'
    BY <1>1, TypesAre, PageStaysTyped, RegisterStays, QueuesStayTyped, DaemonStaysTyped
  <1>3. CASE Crowd \/ UNCHANGED vars
    <2>1. \A t \in Streams : Unmoved(t)
      BY <1>3 DEF Crowd, vars, browser, hub, link, task, Unmoved
    <2> QED
      BY <1>1, <1>2, <2>1, UnmovedKeeps DEF IInv
  <1>4. ASSUME NEW s \in Streams, StreamStep(s) PROVE IInv'
    <2>1. StreamInv(s)'
      BY <1>1, <1>4, PageKeeps, StopKeeps, ClickKeeps, HandlePostKeeps, OpenKeeps, ReadKeeps,
         TimeoutKeeps, AwaitKeeps, WorkKeeps, ReceiveKeeps DEF StreamStep, Thread
    <2>2. \A t \in Streams : t # s => StreamInv(t)'
      BY <1>1, <1>4, Apart, UnmovedKeeps
    <2> QED
      BY <1>2, <2>1, <2>2 DEF IInv
  <1> QED
    BY <1>3, <1>4 DEF Next, StreamStep

\* Types are kept, and the register never holds more streams than it has places.
THEOREM TypeCorrect == Spec => []TypeOK
  <1>1. IInv => TypeOK
    BY DEF IInv
  <1> QED
    BY <1>1, InitInvariant, NextInvariant, PTL DEF Spec

\* What the daemon is told for a prompt is what the user clicked for it, or, once Stop
\* was pressed, for a prompt before it.
THEOREM OnlyTheUserAnswers == Spec => []AnswersAreReal
  <1>1. IInv => AnswersAreReal
    BY DEF IInv, StreamInv, ToldAsGiven, AnswersAreReal
  <1> QED
    BY <1>1, InitInvariant, NextInvariant, PTL DEF Spec

-----------------------------------------------------------------------------
(* The tray: its listings.                                                 *)

\* Finitely many numbers can be put in order: each takes the place that the count of the
\* smaller ones gives it.
LEMMA Ranking ==
  ASSUME NEW S \in SUBSET Nat, IsFiniteSet(S)
  PROVE  \E s \in [1..Cardinality(S) -> S] :
           \A i, j \in 1..Cardinality(S) : i < j => s[i] < s[j]
  <1> DEFINE n == Cardinality(S)
             below(x) == {y \in S : y < x}
             rank == [x \in S |-> Cardinality(below(x)) + 1]
  <1>1. n \in Nat /\ IsFiniteSet(1..n) /\ Cardinality(1..n) = n
    BY FS_CardinalityType, FS_Interval
  <1>2. ASSUME NEW x \in S
        PROVE  IsFiniteSet(below(x)) /\ Cardinality(below(x)) \in Nat
    <2>1. below(x) \in SUBSET S
      OBVIOUS
    <2> QED
      BY <2>1, FS_Subset, FS_CardinalityType
  <1>3. ASSUME NEW x \in S, NEW y \in S, x < y
        PROVE  rank[x] < rank[y]
    <2>1. /\ IsFiniteSet(below(y) \ {x})
          /\ Cardinality(below(y) \ {x}) = Cardinality(below(y)) - 1
      BY <1>2, <1>3, FS_RemoveElement
    <2>2. below(x) \in SUBSET (below(y) \ {x})
      <3>1. x \in Nat /\ y \in Nat /\ below(x) \in SUBSET S
        OBVIOUS
      <3>2. ASSUME NEW z \in below(x)
            PROVE  z \in S /\ z < y /\ z # x
        <4>1. z \in S /\ z \in Nat /\ z < x
          OBVIOUS
        <4> QED
          BY <3>1, <4>1, <1>3
      <3> QED
        BY <3>2
    <2>3. Cardinality(below(x)) <= Cardinality(below(y) \ {x})
      BY <2>1, <2>2, FS_Subset
    <2>4. Cardinality(below(x)) \in Nat /\ Cardinality(below(y)) \in Nat
      BY <1>2
    <2> HIDE DEF below
    <2> QED
      BY <2>1, <2>3, <2>4
  <1>4. ASSUME NEW x \in S
        PROVE  rank[x] \in 1..n
    <2>1. IsFiniteSet(S \ {x}) /\ Cardinality(S \ {x}) = n - 1
      BY FS_RemoveElement
    <2>2. below(x) \in SUBSET (S \ {x})
      OBVIOUS
    <2>3. Cardinality(below(x)) <= Cardinality(S \ {x})
      BY <2>1, <2>2, FS_Subset
    <2>4. Cardinality(below(x)) \in Nat
      BY <1>2
    <2> HIDE DEF below
    <2> QED
      BY <1>1, <2>1, <2>3, <2>4
  <1> HIDE DEF n
  <1>5. rank \in Injection(S, 1..n)
    <2>1. rank \in [S -> 1..n]
      BY <1>4
    <2>2. \A x, y \in S : x < y => rank[x] < rank[y]
      BY <1>3
    <2>3. \A x, y \in S : x = y \/ x < y \/ y < x
      OBVIOUS
    <2> HIDE DEF rank
    <2>4. \A x \in S : rank[x] \in Nat
      BY <1>1, <2>1
    <2>5. \A x, y \in S : rank[x] = rank[y] => x = y
      BY <2>2, <2>3, <2>4
    <2> QED
      BY <2>1, <2>5 DEF Injection, IsInjective
  <1>6. rank \in Surjection(S, 1..n)
    <2>1. Cardinality(S) = Cardinality(1..n)
      BY <1>1 DEF n
    <2> HIDE DEF rank
    <2> QED
      BY <1>1, <1>5, <2>1, FS_Injection
  <1>7. \A x, y \in S : x < y => rank[x] < rank[y]
    BY <1>3
  <1> HIDE DEF rank
  <1>8. \A i \in 1..n : \E x \in S : rank[x] = i
    BY <1>6 DEF Surjection
  <1> DEFINE s == [i \in 1..n |-> CHOOSE x \in S : rank[x] = i]
  <1>9. \A i \in 1..n : s[i] \in S /\ rank[s[i]] = i
    BY <1>8
  <1>10. s \in [1..n -> S]
    BY <1>9
  <1> HIDE DEF s
  <1>11. ASSUME NEW i \in 1..n, NEW j \in 1..n, i < j
         PROVE  s[i] < s[j]
    <2>1. s[i] \in S /\ s[j] \in S /\ rank[s[i]] = i /\ rank[s[j]] = j
      BY <1>9
    <2>2. s[i] \in Nat /\ s[j] \in Nat
      BY <2>1
    <2>0. i \in Nat /\ j \in Nat
      BY <1>1
    <2>3. CASE s[i] = s[j]
      BY <2>0, <2>1, <2>3, <1>11
    <2>4. CASE s[j] < s[i]
      <3>1. rank[s[j]] < rank[s[i]]
        BY <2>1, <2>4, <1>7
      <3> QED
        BY <2>0, <2>1, <3>1, <1>11
    <2> QED
      BY <2>2, <2>3, <2>4
  <1> QED
    BY <1>10, <1>11 DEF n

\* A listing names units.
LEMMA ListingTyped ==
  ASSUME failing \in SUBSET Units
  PROVE  Listing \in Seq(Units)
  <1>1. failing \in SUBSET Nat /\ IsFiniteSet(Units)
    BY UnitsAssumption
  <1>2. IsFiniteSet(failing)
    BY <1>1, FS_Subset
  <1> DEFINE n == Cardinality(failing)
             Orders(s) == \A i, j \in DOMAIN s : i < j => s[i] < s[j]
  <1>3. n \in Nat
    BY <1>2, FS_CardinalityType
  <1>4. \E s \in [1..n -> failing] : Orders(s)
    BY <1>1, <1>2, Ranking
  <1>5. Listing = CHOOSE s \in [1..n -> failing] : Orders(s)
    BY DEF Listing, InOrder
  <1> HIDE DEF n, Orders
  <1>6. Listing \in [1..n -> failing]
    BY <1>4, <1>5
  <1>7. Listing \in [1..n -> Units]
    BY <1>6
  <1> HIDE DEF Listing
  <1> QED
    BY <1>3, <1>7, SeqDef

-----------------------------------------------------------------------------
(* The tray: its types, and why its fix-its restart what needs it.         *)

TrayTypes ==
  /\ refresh \in [Refreshes -> [at : {"idle", "asked", "listed"}, got : Seq(Units)]]
  /\ fix \in [Fixes -> [at : {"idle", "asked", "matched", "done"}, via : {"tray", "web"},
                        unit : Units \cup {0}, needed : BOOLEAN]]

\* What a fix has seen of its unit: one that fails while the fix is under way, or that
\* the daemon found failing, needed it.
SeenFailing(f) ==
  /\ fix[f].at = "asked" /\ fix[f].unit \in failing => fix[f].needed
  /\ fix[f].at \in {"matched", "done"} => fix[f].needed

TrayInv ==
  /\ TrayTypeOK
  /\ TrayTypes
  /\ \A f \in Fixes : SeenFailing(f)

\* What the records of an idle refresh and an idle fix are.
LEMMA IdleTyped ==
  /\ Idle \in [at : {"idle", "asked", "listed"}, got : Seq(Units)]
  /\ NoFix \in [at : {"idle", "asked", "matched", "done"}, via : {"tray", "web"},
                  unit : Units \cup {0}, needed : BOOLEAN]
  /\ Idle.at = "idle" /\ Idle.got = <<>> /\ NoFix.at = "idle" /\ NoFix.unit = 0
  /\ <<>> \in Seq(Units)
  BY DEF Idle, NoFix

\* The tray starts in a state of the invariant.
LEMMA TrayStarts ==
  ASSUME TrayInit
  PROVE  TrayInv
  <1>1. TrayTypes
    BY IdleTyped DEF TrayInit, TrayTypes
  <1>2. TrayTypeOK
    <2>1. /\ \A r \in Refreshes : refresh[r].at = "idle" /\ refresh[r].got = <<>>
          /\ \A f \in Fixes : fix[f].at = "idle" /\ fix[f].unit = 0
      BY IdleTyped DEF TrayInit
    <2>2. changes \in 0..MaxChanges /\ trouble \in 0..MaxTrouble
      BY BoundsAssumption DEF TrayInit
    <2>3. <<>> \in Seq(Units)
      BY IdleTyped
    <2> QED
      BY <2>1, <2>2, <2>3 DEF TrayInit, TrayTypeOK
  <1>3. \A f \in Fixes : SeenFailing(f)
    BY IdleTyped DEF TrayInit, SeenFailing
  <1> QED
    BY <1>1, <1>2, <1>3 DEF TrayInv

\* A step that leaves the fixes as they are, and lets no unit fail, keeps what they saw.
LEMMA FixesAtRest ==
  ASSUME TrayInv, fix' = fix, failing' \subseteq failing
  PROVE  \A f \in Fixes : SeenFailing(f)'
  BY DEF TrayInv, SeenFailing

\* The counters stay within the bounds.
LEMMA Counted ==
  ASSUME TrayTypeOK, Change \/ Trouble \/ UNCHANGED counts
  PROVE  changes' \in 0..MaxChanges /\ trouble' \in 0..MaxTrouble
  BY BoundsAssumption DEF TrayTypeOK, Change, Trouble, counts

\* The steps of the connection, of the menu and of the icon.
LEMMA SurfacesKeep ==
  ASSUME TrayInv,
         \/ Connect \/ LoseDaemon \/ Draw
         \/ Watch \/ FirstTry \/ Retry \/ WatcherAppears \/ WatcherGoes
  PROVE  TrayInv'
  <1> USE DEF tray, panel, counts
  <1>1. CASE Connect
    BY <1>1, FixesAtRest DEF Connect, TrayInv, TrayTypes, TrayTypeOK
  <1>2. CASE LoseDaemon
    <2>1. Trouble
      BY <1>2 DEF LoseDaemon
    <2>2. changes' \in 0..MaxChanges /\ trouble' \in 0..MaxTrouble
      BY <2>1, Counted DEF TrayInv
    <2>3. TrayTypes'
      BY <1>2, IdleTyped DEF LoseDaemon, TrayInv, TrayTypes
    <2>4. \A r \in Refreshes : refresh'[r] = Idle
      BY <1>2 DEF LoseDaemon
    <2>5. TrayTypeOK'
      <3>1. /\ \A r \in Refreshes : refresh'[r].at = "idle" /\ refresh'[r].got \in Seq(Units)
            /\ \A f \in Fixes : fix'[f].at = "idle" /\ fix'[f].unit = 0
            /\ reach' \in BOOLEAN /\ units' \in Seq(Units)
        BY <1>2, <2>4, IdleTyped DEF LoseDaemon
      <3>2. UNCHANGED <<failing, drawn, boot, watcher, registered, retry, refused>> /\ connected' = FALSE
        BY <1>2 DEF LoseDaemon
      <3> QED
        BY <2>2, <3>1, <3>2 DEF TrayInv, TrayTypeOK
    <2>6. \A f \in Fixes : SeenFailing(f)'
      BY <1>2, IdleTyped DEF LoseDaemon, SeenFailing
    <2> QED
      BY <2>3, <2>5, <2>6 DEF TrayInv
  <1>3. CASE Draw
    BY <1>3, FixesAtRest DEF Draw, Rows, TrayInv, TrayTypes, TrayTypeOK
  <1>4. CASE Watch \/ FirstTry \/ Retry
    <2>1. Trouble \/ UNCHANGED counts
      BY <1>4 DEF Watch, FirstTry, Retry, EnsureRegistered
    <2>2. changes' \in 0..MaxChanges /\ trouble' \in 0..MaxTrouble
      BY <2>1, Counted DEF TrayInv
    <2>3. /\ UNCHANGED <<failing, connected, refresh, reach, units, fix, drawn, watcher>>
          /\ boot' \in {"named", "watching", "tried"}
          /\ registered' \in BOOLEAN /\ retry' \in BOOLEAN /\ refused' \in BOOLEAN
      BY <1>4 DEF Watch, FirstTry, Retry, EnsureRegistered, Elsewhere, TrayInv, TrayTypeOK
    <2> QED
      BY <2>2, <2>3, FixesAtRest DEF TrayInv, TrayTypes, TrayTypeOK
  <1>5. CASE WatcherAppears
    BY <1>5, FixesAtRest DEF WatcherAppears, Elsewhere, Listens, TrayInv, TrayTypes, TrayTypeOK
  <1>6. CASE WatcherGoes
    <2>1. changes' \in 0..MaxChanges /\ trouble' \in 0..MaxTrouble
      BY <1>6, Counted DEF WatcherGoes, TrayInv
    <2>2. /\ UNCHANGED <<failing, connected, refresh, reach, units, fix, boot, retry>>
          /\ watcher' = FALSE /\ registered' = FALSE /\ refused' = FALSE
          /\ drawn' \in Seq(Units)
      BY <1>6, IdleTyped DEF WatcherGoes, Elsewhere
    <2> QED
      BY <2>1, <2>2, FixesAtRest DEF TrayInv, TrayTypes, TrayTypeOK
  <1> QED
    BY <1>1, <1>2, <1>3, <1>4, <1>5, <1>6

\* The steps of a refresh.
LEMMA RefreshKeeps ==
  ASSUME TrayInv, NEW r \in Refreshes,
         Ask(r) \/ List(r) \/ Apply(r) \/ AskTimesOut(r)
  PROVE  TrayInv'
  <1> USE DEF tray, panel, counts
  <1>1. fix' = fix /\ failing' = failing /\ connected' = connected
    BY DEF Ask, List, Apply, AskTimesOut
  <1>2. changes' \in 0..MaxChanges /\ trouble' \in 0..MaxTrouble
    BY Counted DEF Ask, List, Apply, AskTimesOut, TrayInv
  <1>3. /\ TrayTypes' /\ units' \in Seq(Units) /\ reach' \in BOOLEAN
        /\ \A u \in Refreshes : refresh'[u].at # "idle" => connected
    <2> USE DEF TrayInv, TrayTypes, TrayTypeOK
    <2>1. CASE Ask(r)
      BY <1>1, <2>1 DEF Ask
    <2>2. CASE List(r)
      <3>1. Listing \in Seq(Units) /\ <<>> \in Seq(Units)
        BY ListingTyped
      <3>2. PICK got \in {Listing, <<>>} :
               refresh' = [refresh EXCEPT ![r] = [at |-> "listed", got |-> got]]
        BY <2>2 DEF List
      <3>3. refresh[r].at # "idle" /\ units' = units /\ reach' = reach
        BY <2>2 DEF List
      <3> QED
        BY <1>1, <3>1, <3>2, <3>3
    <2>3. CASE Apply(r)
      BY <1>1, <2>3, IdleTyped DEF Apply, News
    <2>4. CASE AskTimesOut(r)
      <3>1. refresh' = [refresh EXCEPT ![r] = Idle] /\ reach' = FALSE /\ units' = <<>>
        BY <2>4 DEF AskTimesOut
      <3>2. TrayTypes'
        BY <1>1, <3>1, IdleTyped
      <3>3. \A u \in Refreshes : refresh'[u].at # "idle" => connected
        BY <3>1, IdleTyped
      <3> QED
        BY <3>1, <3>2, <3>3, IdleTyped
    <2> QED
      BY <2>1, <2>2, <2>3, <2>4
  <1>4. UNCHANGED <<drawn, boot, watcher, registered, retry, refused>>
    BY DEF Ask, List, Apply, AskTimesOut
  <1>5. TrayTypeOK'
    BY <1>1, <1>2, <1>3, <1>4 DEF TrayInv, TrayTypes, TrayTypeOK
  <1> QED
    BY <1>1, <1>3, <1>5, FixesAtRest DEF TrayInv

\* A unit that fails, or recovers: the fixes under way for it see it fail.
LEMMA FlipsKeep ==
  ASSUME TrayInv, NEW u \in Units, Flips(u)
  PROVE  TrayInv'
  <1> USE DEF tray, panel
  <1> DEFINE sees(f) == fix[f].at # "idle" /\ fix[f].unit = u /\ u \notin failing
  <1>1. \A f \in Fixes : fix'[f] = [fix[f] EXCEPT !.needed = @ \/ sees(f)]
    BY DEF Flips
  <1>2. \A f \in Fixes : /\ fix'[f].at = fix[f].at /\ fix'[f].unit = fix[f].unit
                         /\ fix'[f].needed = (fix[f].needed \/ sees(f))
    BY <1>1 DEF TrayInv, TrayTypes
  <1>3. TrayTypes'
    BY DEF Flips, TrayInv, TrayTypes
  <1>4. \A f \in Fixes : SeenFailing(f)'
    <2> SUFFICES ASSUME NEW f \in Fixes PROVE SeenFailing(f)'
      OBVIOUS
    <2>1. SeenFailing(f)
      BY DEF TrayInv
    <2>2. failing' \subseteq failing \cup {u} /\ (u \in failing => failing' \subseteq failing)
      BY DEF Flips
    <2>3. CASE sees(f)
      BY <1>2, <2>3 DEF SeenFailing
    <2>4. CASE ~sees(f)
      BY <1>2, <2>1, <2>2, <2>4 DEF SeenFailing
    <2> QED
      BY <2>3, <2>4
  <1>5. changes' \in 0..MaxChanges /\ trouble' \in 0..MaxTrouble
    BY Counted DEF Flips, TrayInv
  <1>6. TrayTypeOK'
    <2>1. failing' \in SUBSET Units
      BY DEF Flips, TrayInv, TrayTypeOK
    <2>2. UNCHANGED <<connected, refresh, reach, units, drawn, boot, watcher, registered, retry, refused>>
      BY DEF Flips
    <2> QED
      BY <1>2, <1>5, <2>1, <2>2 DEF TrayInv, TrayTypeOK
  <1> QED
    BY <1>3, <1>4, <1>6 DEF TrayInv

\* The steps of a fix: only its own record moves, and units at most recover.
LEMMA FixKeeps ==
  ASSUME TrayInv, NEW f \in Fixes,
         \/ \E i \in DOMAIN drawn : ClickRow(f, i)
         \/ \E u \in Units : ClickPage(f, u)
         \/ Match(f) \/ Restart(f) \/ Record(f) \/ FixTimesOut(f)
  PROVE  TrayInv'
  <1> USE DEF tray, panel, counts
  <1> DEFINE Fix == [at : {"idle", "asked", "matched", "done"}, via : {"tray", "web"},
                     unit : Units \cup {0}, needed : BOOLEAN]
  <1>1. UNCHANGED <<connected, refresh, reach, units, drawn, boot, watcher, registered, retry, refused>>
    BY DEF ClickRow, ClickPage, Match, Restart, Record, FixTimesOut
  <1>2. changes' \in 0..MaxChanges /\ trouble' \in 0..MaxTrouble
    BY Counted DEF ClickRow, ClickPage, Match, Restart, Record, FixTimesOut, TrayInv
  <1>3. failing' \subseteq failing
    BY DEF ClickRow, ClickPage, Match, Restart, Record, FixTimesOut, Restarted
  <1>4. fix[f] \in Fix /\ DOMAIN fix = Fixes /\ SeenFailing(f)
    BY DEF TrayInv, TrayTypes
  <1>5. \E new \in Fix :
          /\ fix' = [fix EXCEPT ![f] = new]
          /\ new.at = "asked" /\ new.unit \in failing => new.needed
          /\ new.at \in {"matched", "done"} => new.needed
    <2>1. ASSUME NEW via \in {"tray", "web"}, NEW u \in Units, Send(f, via, u)
          PROVE  <1>5
      <3> DEFINE new == [at |-> "asked", via |-> via, unit |-> u, needed |-> u \in failing]
      <3>1. new \in Fix /\ fix' = [fix EXCEPT ![f] = new]
        BY <2>1 DEF Send
      <3>2. new.at = "asked" /\ new.unit = u /\ new.needed = (u \in failing)
        OBVIOUS
      <3> HIDE DEF new
      <3> QED
        BY <3>1, <3>2
    <2>2. CASE \E i \in DOMAIN drawn : ClickRow(f, i)
      <3>1. PICK i \in DOMAIN drawn : ClickRow(f, i)
        BY <2>2
      <3>2. Rows \in Seq(Units) /\ i \in DOMAIN Rows
        BY <3>1 DEF ClickRow, Finds, Rows, TrayInv, TrayTypeOK
      <3>3. Rows[i] \in Units
        BY <3>2, ElementOfSeq
      <3> QED
        BY <2>1, <3>1, <3>3 DEF ClickRow
    <2>3. CASE \E u \in Units : ClickPage(f, u)
      BY <2>1, <2>3 DEF ClickPage
    <2>4. CASE fix' = [fix EXCEPT ![f] = NoFix]
      BY <2>4, IdleTyped
    <2>5. CASE Match(f) /\ fix' # [fix EXCEPT ![f] = NoFix]
      <3> DEFINE new == [fix[f] EXCEPT !.at = "matched"]
      <3>1. StillFailing(fix[f].unit) /\ fix' = [fix EXCEPT ![f] = new]
        BY <1>4, <2>5 DEF Match
      <3>2. fix[f].needed
        BY <1>4, <2>5, <3>1 DEF Match, StillFailing, SeenFailing
      <3>3. new \in Fix /\ new.at = "matched" /\ new.needed = fix[f].needed
        BY <1>4
      <3> HIDE DEF new
      <3> QED
        BY <3>1, <3>2, <3>3
    <2>6. CASE Restart(f)
      <3> DEFINE new == [fix[f] EXCEPT !.at = "done"]
      <3>1. fix' = [fix EXCEPT ![f] = new]
        BY <1>4, <2>6 DEF Restart
      <3>2. fix[f].needed
        BY <1>4, <2>6 DEF Restart, SeenFailing
      <3>3. new \in Fix /\ new.at = "done" /\ new.needed = fix[f].needed
        BY <1>4
      <3> HIDE DEF new
      <3> QED
        BY <3>1, <3>2, <3>3
    <2> QED
      BY <2>2, <2>3, <2>4, <2>5, <2>6 DEF Match, Record, FixTimesOut
  <1>6. PICK new \in Fix :
          /\ fix' = [fix EXCEPT ![f] = new]
          /\ new.at = "asked" /\ new.unit \in failing => new.needed
          /\ new.at \in {"matched", "done"} => new.needed
    BY <1>5
  <1>7. TrayTypes'
    BY <1>1, <1>6 DEF TrayInv, TrayTypes
  <1>8. \A g \in Fixes : SeenFailing(g)'
    BY <1>3, <1>4, <1>6 DEF TrayInv, SeenFailing
  <1>9. TrayTypeOK'
    BY <1>1, <1>2, <1>3, <1>7 DEF TrayInv, TrayTypes, TrayTypeOK
  <1> QED
    BY <1>7, <1>8, <1>9 DEF TrayInv

\* Every step keeps the invariant.
LEMMA TrayKeeps ==
  ASSUME TrayInv, [TrayNext]_trayVars
  PROVE  TrayInv'
  <1>1. CASE TrayNext
    BY <1>1, SurfacesKeep, RefreshKeeps, FlipsKeep, FixKeeps DEF TrayNext
  <1>2. CASE UNCHANGED trayVars
    BY <1>2 DEF trayVars, tray, panel, counts, TrayInv, TrayTypes, TrayTypeOK, SeenFailing
  <1> QED
    BY <1>1, <1>2

\* The tray, its refreshes, fixes and registration keep their types; an answer is on its way
\* only over a connection that is up (tray/client.DaemonClient).
THEOREM TrayTypeCorrect == TraySpec => []TrayTypeOK
  <1>1. TrayInit => TrayInv
    BY TrayStarts
  <1>2. TrayInv /\ [TrayNext]_trayVars => TrayInv'
    BY TrayKeeps
  <1>3. TrayInv => TrayTypeOK
    BY DEF TrayInv
  <1> QED
    BY <1>1, <1>2, <1>3, PTL DEF TraySpec

\* However old the menu or the page a fix was clicked on, and whatever failed and recovered
\* since, the daemon restarts a unit only if it was failing at some moment since the click.
THEOREM OnlyNeededRestarts == TraySpec => RestartsWereNeeded
  <1>1. TrayInit => TrayInv
    BY TrayStarts
  <1>2. TrayInv /\ [TrayNext]_trayVars => TrayInv'
    BY TrayKeeps
  <1>3. TrayInv => \A f \in Fixes : Restart(f) => fix[f].needed
    BY DEF TrayInv, SeenFailing, Restart
  <1>4. TrayInv /\ [TrayNext]_trayVars =>
          [\A f \in Fixes : Restart(f) => fix[f].needed]_trayVars
    BY <1>3
  <1> QED
    BY <1>1, <1>2, <1>4, PTL DEF TraySpec, RestartsWereNeeded
=============================================================================
