------------------------------ MODULE MCAgent -------------------------------
(***************************************************************************)
(* Agent with two queries and two conversations, either of which is as     *)
(* good as the other.                                                      *)
(***************************************************************************)
EXTENDS Agent, TLC

Alike == Permutations(Queries) \cup Permutations(Sessions)
=============================================================================
