----------------------------- MODULE MCTimeline -----------------------------
(* An instance of Timeline: one unit that comes and goes, two clients that *)
(* poll, pages of one row and pages as long as the cap. The clients are    *)
(* alike, and no property is about liveness.                               *)
EXTENDS Timeline, TLC

Alike == Permutations(Clients)
=============================================================================
