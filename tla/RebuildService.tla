--------------------------- MODULE RebuildService ---------------------------
(***************************************************************************)
(* What the root helper promises the clients of its socket, with none of   *)
(* its threads, units or watchdogs: a request is queued, runs, ends and is *)
(* answered; two rebuilds accepted by one incarnation of the helper never  *)
(* run together; and "ok" is only ever said of a rebuild that succeeded.   *)
(*                                                                         *)
(* It is also the helper as the daemon's app actions see it.               *)
(***************************************************************************)
EXTENDS Naturals

CONSTANTS
  Conns,       \* connections to the helper's socket, each carrying one request
  MaxCrashes   \* bound on the helper's restarts

VARIABLES
  job,     \* job[c]: where the rebuild asked for on c stands
  answer,  \* answer[c]: the exit status the client of c has been sent
  era,     \* era[c]: the incarnation that accepted c
  now      \* the current incarnation of the helper

svcVars == <<job, answer, era, now>>

JobState == {"none", "queued", "running", "succeeded", "failed", "dropped"}
Answer   == {"none", "ok", "fail"}

SvcTypeOK ==
  /\ job \in [Conns -> JobState]
  /\ answer \in [Conns -> Answer]
  /\ era \in [Conns -> 0..MaxCrashes]
  /\ now \in 0..MaxCrashes

SvcInit ==
  /\ job = [c \in Conns |-> "none"]
  /\ answer = [c \in Conns |-> "none"]
  /\ era = [c \in Conns |-> 0]
  /\ now = 0

Running(c) == job[c] = "running"

Submit(c) ==
  /\ job[c] = "none"
  /\ job' = [job EXCEPT ![c] = "queued"]
  /\ era' = [era EXCEPT ![c] = now]
  /\ UNCHANGED <<answer, now>>

\* A queued rebuild starts once no other of its incarnation is running.
Start(c) ==
  /\ job[c] = "queued"
  /\ \A d \in Conns : Running(d) => era[d] # era[c]
  /\ job' = [job EXCEPT ![c] = "running"]
  /\ UNCHANGED <<answer, era, now>>

\* The rebuild ends, on its own or killed.
Finish(c, result) ==
  /\ Running(c)
  /\ job' = [job EXCEPT ![c] = result]
  /\ UNCHANGED <<answer, era, now>>

\* The rebuild could not be started at all.
Refuse(c) ==
  /\ job[c] = "queued"
  /\ job' = [job EXCEPT ![c] = "dropped"]
  /\ answer' = [answer EXCEPT ![c] = "fail"]
  /\ UNCHANGED <<era, now>>

\* The one promise about answers: "ok" is said of a success only.  A client whose
\* helper died gets no answer at all.
Reply(c, a) ==
  /\ answer[c] = "none" /\ era[c] = now
  /\ job[c] \in {"running", "succeeded", "failed"}
  /\ a = "ok" => job[c] = "succeeded"
  /\ answer' = [answer EXCEPT ![c] = a]
  /\ UNCHANGED <<job, era, now>>

\* The helper dies and comes back: queued requests die with it, running rebuilds
\* do not, and the lock they held is gone.
Restart ==
  /\ now < MaxCrashes
  /\ now' = now + 1
  /\ job' = [c \in Conns |-> IF job[c] = "queued" THEN "dropped" ELSE job[c]]
  /\ UNCHANGED <<answer, era>>

SvcNext ==
  \/ \E c \in Conns :
       \/ Submit(c)
       \/ Start(c)
       \/ \E result \in {"succeeded", "failed"} : Finish(c, result)
       \/ Refuse(c)
       \/ \E a \in {"ok", "fail"} : Reply(c, a)
  \/ Restart

SvcSpec == SvcInit /\ [][SvcNext]_svcVars
=============================================================================
