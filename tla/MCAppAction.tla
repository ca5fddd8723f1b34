---------------------------- MODULE MCAppAction ----------------------------
(* Instances of AppAction: two tasks in two sessions, and in one.          *)
EXTENDS AppAction

CONSTANTS t1, t2, s1, s2

TwoSessions == [t \in {t1, t2} |-> IF t = t1 THEN s1 ELSE s2]
OneSession  == [t \in {t1, t2} |-> s1]
=============================================================================
