----------------------------- MODULE MCAutofix -----------------------------
(* Instances of Autofix: a system and a user unit, of two names or of one. *)
EXTENDS Autofix

CONSTANTS backup, dock, sync

TwoNames  == [k \in {backup, dock} |-> k]
OneName   == [k \in {backup, dock} |-> sync]
TwoScopes == [k \in {backup, dock} |-> IF k = backup THEN "system" ELSE "user"]
=============================================================================
