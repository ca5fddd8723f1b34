-------------------------------- MODULE Web --------------------------------
(***************************************************************************)
(* The hub's invoke bar: a card in the browser (web/assets/operation.js),  *)
(* the HTTP threads that stream a query to it and carry its answers        *)
(* (web/server.py), the session with its own daemon socket                 *)
(* (web/session.QuerySession), and the daemon at the other end.            *)
(*                                                                         *)
(*   thread: none -> opening -> connected -> reading <-> waiting -> over   *)
(*   card:   new -> running <-> asked -> complete, lost, gone              *)
(*                                                                         *)
(* A query id belongs to one stream (operation.js draws it at random), so  *)
(* a stream stands for its id. The n-th prompt of a query is prompt n.     *)
(* Streams meet only on the register, where those outside Streams are      *)
(* counted, and in the pool of MAX_HTTP_THREADS: any request may find it   *)
(* exhausted by others and be turned away at the door.                     *)
(***************************************************************************)
EXTENDS Integers, Sequences, FiniteSets, Functions

CONSTANTS
  Streams,
  MaxSessions,  \* MAX_ACTIVE_SESSIONS
  MaxPrompts    \* bound on the prompts of a query

ASSUME SizesAssumption == {MaxSessions, MaxPrompts} \subseteq Nat

VARIABLES
  card, stopped,     \* per stream: what the user sees; whether Stop was pressed
  clicked,           \* per stream: the answer given to each prompt
  crowd,             \* how many other streams are on the register
  posts,             \* control requests on their way: stream and what it says
  thread, sessions,  \* per stream: its HTTP thread; the streams on register
  answers,           \* per stream: QuerySession._answers
  up, down,          \* per stream: its socket, to the daemon and from it
  daemon, asked,     \* per stream: the daemon's task; the prompts it has sent
  took               \* per stream: what the daemon was told for each prompt

browser == <<card, stopped, clicked>>
hub     == <<thread, sessions, answers>>
link    == <<up, down>>
task    == <<daemon, asked, took>>
vars == <<browser, posts, crowd, hub, link, task>>

Prompts == 1..MaxPrompts
Answer  == {"yes", "no"}
Control == Answer \cup {"cancel"}

\* A task that was told something at its prompt may not have run since; one that is
\* alone goes on without its connection.
DaemonState == {"none", "running", "asking", "told", "alone", "ended"}

TypeOK ==
  /\ card \in [Streams -> {"new", "running", "asked", "complete", "lost", "gone",
                          "reset"}]
  /\ stopped \in [Streams -> BOOLEAN]
  /\ clicked \in [Streams -> [Prompts -> Answer \cup {"none"}]]
  /\ posts \in SUBSET (Streams \X Control)
  /\ thread \in [Streams -> {"none", "opening", "connected", "reading", "waiting", "over"}]
  /\ sessions \in SUBSET Streams /\ crowd \in Nat
  /\ Cardinality(sessions) + crowd <= MaxSessions
  /\ answers \in [Streams -> Seq(Control)]
  /\ up \in [Streams -> Seq(Control \cup {"query", "eof"})]
  /\ down \in [Streams -> Seq({"status", "confirm", "end", "eof"})]
  /\ daemon \in [Streams -> DaemonState]
  /\ asked \in [Streams -> 0..MaxPrompts]
  /\ took \in [Streams -> [Prompts -> Answer \cup {"none"}]]

Init ==
  /\ card = [s \in Streams |-> "new"]
  /\ stopped = [s \in Streams |-> FALSE]
  /\ clicked = [s \in Streams |-> [n \in Prompts |-> "none"]]
  /\ posts = {} /\ crowd = 0
  /\ thread = [s \in Streams |-> "none"] /\ sessions = {}
  /\ answers = [s \in Streams |-> <<>>]
  /\ up = [s \in Streams |-> <<>>] /\ down = [s \in Streams |-> <<>>]
  /\ daemon = [s \in Streams |-> "none"]
  /\ asked = [s \in Streams |-> 0]
  /\ took = [s \in Streams |-> [n \in Prompts |-> "none"]]

\* The first write to a page that is gone may seem to succeed; later ones fail.
Show(s, what) ==
  card' = [card EXCEPT ![s] = IF @ \in {"gone", "reset"} THEN "reset" ELSE what]
Tell(s, what) == up' = [up EXCEPT ![s] = Append(@, what)]

-----------------------------------------------------------------------------
(* The browser.                                                            *)

Start(s) ==
  /\ card[s] = "new"
  /\ card' = [card EXCEPT ![s] = "running"]
  /\ thread' = [thread EXCEPT ![s] = "opening"]
  /\ UNCHANGED <<stopped, clicked, posts, sessions, answers, link, task, crowd>>

\* No slot is free for a thread: a 503, and the card's stream is over.
TurnedAway(s) ==
  /\ card[s] = "new" /\ card' = [card EXCEPT ![s] = "lost"]
  /\ UNCHANGED <<stopped, clicked, posts, hub, link, task, crowd>>

Stop(s) ==
  /\ card[s] \in {"running", "asked"} /\ ~stopped[s]
  /\ stopped' = [stopped EXCEPT ![s] = TRUE]
  /\ posts' = posts \cup {<<s, "cancel">>}
  /\ UNCHANGED <<card, clicked, hub, link, task, crowd>>

\* The prompt on the card: the last one asked, unless that is still on its way.
Shown(s) == IF "confirm" \in Range(down[s]) THEN asked[s] - 1 ELSE asked[s]

\* The buttons go with the first click.
Click(s, a) ==
  /\ card[s] = "asked" /\ card' = [card EXCEPT ![s] = "running"]
  /\ clicked' = [clicked EXCEPT ![s][Shown(s)] = a]
  /\ posts' = posts \cup {<<s, a>>}
  /\ UNCHANGED <<stopped, hub, link, task, crowd>>

Leave(s) ==
  /\ card[s] \in {"running", "asked"}
  /\ card' = [card EXCEPT ![s] = "gone"]
  /\ UNCHANGED <<stopped, clicked, posts, hub, link, task, crowd>>

-----------------------------------------------------------------------------
(* The HTTP threads.                                                       *)

\* The query is sent before the stream is on register.
Open(s) ==
  /\ thread[s] = "opening"
  /\ \/ /\ thread' = [thread EXCEPT ![s] = "connected"]
        /\ Tell(s, "query") /\ UNCHANGED card
     \/ /\ thread' = [thread EXCEPT ![s] = "over"]
        /\ Show(s, "lost") /\ UNCHANGED up
  /\ UNCHANGED <<stopped, clicked, posts, sessions, answers, down, task, crowd>>

\* Mutant: room for one more than there is.
FitsOneMore == Cardinality(sessions) + crowd <= MaxSessions
Fits == Cardinality(sessions) + crowd < MaxSessions

Register(s) ==
  /\ thread[s] = "connected"
  /\ \/ /\ Fits
        /\ sessions' = sessions \cup {s}
        /\ thread' = [thread EXCEPT ![s] = "reading"]
        /\ UNCHANGED <<card, up>>
     \/ /\ ~Fits
        /\ thread' = [thread EXCEPT ![s] = "over"]
        /\ Show(s, "lost") /\ Tell(s, "eof") /\ UNCHANGED sessions
  /\ UNCHANGED <<stopped, clicked, posts, answers, down, task, crowd>>

\* Mutant: a cancel is queued as a no.
QueuedAsDecline(what) == IF what = "cancel" THEN "no" ELSE what
Queued(what) == what

\* An answer or a cancel for a stream that is not on register is a 404, one that
\* finds no thread a 503; either way nobody repeats it.
HandlePost(s, what) ==
  /\ <<s, what>> \in posts /\ posts' = posts \ {<<s, what>>}
  /\ \/ /\ s \in sessions
        /\ answers' = [answers EXCEPT ![s] = Append(@, Queued(what))]
        /\ IF what = "cancel" THEN Tell(s, "cancel") ELSE UNCHANGED up
     \/ UNCHANGED <<answers, up>>
  /\ UNCHANGED <<browser, thread, sessions, down, task, crowd>>

\* Mutant: the socket is left open.
QuitAndKeepSocket(s, last) ==
  /\ thread' = [thread EXCEPT ![s] = "over"]
  /\ sessions' = sessions \ {s}
  /\ up' = [up EXCEPT ![s] = @ \o last]

\* The thread leaves its stream: off the register, and the socket is closed.
Quit(s, last) ==
  /\ thread' = [thread EXCEPT ![s] = "over"]
  /\ sessions' = sessions \ {s}
  /\ up' = [up EXCEPT ![s] = @ \o last \o <<"eof">>]

Read(s) ==
  /\ thread[s] = "reading" /\ down[s] # <<>>
  /\ down' = [down EXCEPT ![s] = Tail(@)]
  /\ LET what == Head(down[s])
     IN  \/ /\ card[s] # "reset" \/ what = "eof"
            /\ \/ what = "status" /\ Show(s, card[s]) /\ UNCHANGED <<thread, sessions, up>>
               \/ /\ what = "confirm" /\ Show(s, "asked")
                  /\ thread' = [thread EXCEPT ![s] = "waiting"] /\ UNCHANGED <<sessions, up>>
               \/ what = "end" /\ Show(s, "complete") /\ Quit(s, <<>>)
               \/ what = "eof" /\ Show(s, "lost") /\ Quit(s, <<>>)
         \/ /\ card[s] \in {"gone", "reset"} /\ what # "eof"
            /\ Quit(s, <<"cancel">>) /\ UNCHANGED card
  /\ UNCHANGED <<stopped, clicked, posts, answers, task, crowd>>

\* Nothing from the daemon for READ_TIMEOUT: the handler dies of it.
ReadTimesOut(s) ==
  /\ thread[s] = "reading" /\ down[s] = <<>>
  /\ Quit(s, <<>>) /\ Show(s, "lost")
  /\ UNCHANGED <<stopped, clicked, posts, answers, down, task, crowd>>

Await(s) ==
  /\ thread[s] = "waiting" /\ answers[s] # <<>>
  /\ answers' = [answers EXCEPT ![s] = Tail(@)]
  /\ IF Head(answers[s]) = "cancel"
     THEN Quit(s, <<"cancel">>) /\ Show(s, "lost")
     ELSE /\ Tell(s, Head(answers[s]))
          /\ thread' = [thread EXCEPT ![s] = "reading"] /\ UNCHANGED <<card, sessions>>
  /\ UNCHANGED <<stopped, clicked, posts, down, task, crowd>>

\* Mutant: the wait for an answer has no end.
WaitForEver(s) == FALSE
WaitedLong(s) == answers[s] = <<>>

AwaitTimesOut(s) ==
  /\ thread[s] = "waiting" /\ WaitedLong(s)
  /\ Quit(s, <<"cancel">>) /\ Show(s, "lost")
  /\ UNCHANGED <<stopped, clicked, posts, answers, down, task, crowd>>

-----------------------------------------------------------------------------
(* The daemon, as far as the hub can tell.                                 *)

Say(s, what) == down' = [down EXCEPT ![s] = Append(@, what)]

Becomes(s, state) == daemon' = [daemon EXCEPT ![s] = state]

Work(s) ==
  /\ daemon[s] \in {"running", "told"} /\ down[s] = <<>>
  /\ \/ Say(s, "status") /\ Becomes(s, "running") /\ UNCHANGED asked
     \/ /\ asked[s] < MaxPrompts /\ Say(s, "confirm") /\ Becomes(s, "asking")
        /\ asked' = [asked EXCEPT ![s] = @ + 1]
     \/ \E last \in {"end", "eof"} : Say(s, last) /\ Becomes(s, "ended") /\ UNCHANGED asked
  /\ UNCHANGED <<browser, posts, hub, up, took, crowd>>

\* A prompt takes a cancel for a no, and the query goes on, even if it has been told
\* another answer that it has not read yet; any other cancel ends it, with or without
\* a word. The end of the connection is a cancel too. An answer that nobody waits for
\* is dropped.
Receive(s) ==
  /\ up[s] # <<>> /\ up' = [up EXCEPT ![s] = Tail(@)]
  /\ LET what == Head(up[s])
         asking == daemon[s] = "asking"
     IN  /\ \/ what = "query" /\ Becomes(s, "running") /\ UNCHANGED down
            \/ what = "eof" /\ ~asking /\ Becomes(s, "ended") /\ UNCHANGED down
            \/ /\ what = "eof" /\ daemon[s] \in {"asking", "told"}
               /\ Becomes(s, "alone") /\ UNCHANGED down
            \/ what \in Control /\ asking /\ Becomes(s, "told") /\ UNCHANGED down
            \/ /\ what = "cancel" /\ daemon[s] \in {"running", "told"} /\ Becomes(s, "ended")
               /\ Say(s, "end") \/ UNCHANGED down
            \/ /\ what \in Control /\ ~asking
               /\ what = "cancel" => daemon[s] # "running"
               /\ UNCHANGED <<daemon, down>>
         /\ took' = IF what \in Answer /\ asking THEN [took EXCEPT ![s][asked[s]] = what]
                    ELSE took
  /\ UNCHANGED <<browser, posts, hub, asked, crowd>>

-----------------------------------------------------------------------------
Thread(s) == \/ Open(s) \/ Register(s) \/ Read(s) \/ ReadTimesOut(s)
             \/ Await(s) \/ AwaitTimesOut(s)

Crowd ==
  /\ \/ Fits /\ crowd' = crowd + 1
     \/ crowd > 0 /\ crowd' = crowd - 1
  /\ UNCHANGED <<browser, posts, hub, link, task>>

Next ==
  \/ Crowd
  \/ \E s \in Streams :
       \/ Start(s) \/ TurnedAway(s) \/ Stop(s) \/ Leave(s) \/ \E a \in Answer : Click(s, a)
       \/ \E what \in Control : HandlePost(s, what)
       \/ Thread(s)
       \/ Work(s) \/ Receive(s)

Spec == Init /\ [][Next]_vars

\* Threads run and both timeouts pass; the daemon reads its socket. It may take for
\* ever over a query, and so may the user over a prompt.
FairSpec == Spec /\ \A s \in Streams : WF_vars(Thread(s)) /\ WF_vars(Receive(s))

-----------------------------------------------------------------------------
\* What the daemon is told for a prompt is what the user clicked for it: a stop, a
\* timeout or a page that was left is never passed on as an answer, and an answer never
\* reaches another prompt (session.QuerySession.cancel and answer). One case is left
\* out: a stop pressed after an answer overtakes it, and the answer may meet the next
\* prompt; even then it is one that was given.
AnswersAreReal ==
  \A s \in Streams, n \in Prompts :
    took[s][n] # "none" =>
      \E m \in 1..n : took[s][n] = clicked[s][m] /\ (stopped[s] \/ m = n)

Forsaken(s) == daemon[s] \in {"none", "ended", "alone"}

\* A page that was left gives its thread and its place on the register back, even if
\* a prompt was open (CONFIRM_WAIT_TIMEOUT), and the daemon's query ends, or goes on
\* without a connection if the end of it was taken for a no (connections._await_response).
AbandonedStreamsEnd ==
  \A s \in Streams : card[s] \in {"gone", "reset"} ~>
    s \notin sessions /\ thread[s] = "over" /\ Forsaken(s)

\* A query whose card lost its stream, because a prompt or a read timed out, the
\* register was full, or the user stopped it, loses its connection: the daemon's query
\* ends, or asks nobody any more.
LostQueriesEnd ==
  \A s \in Streams : card[s] = "lost" ~> Forsaken(s)
=============================================================================
