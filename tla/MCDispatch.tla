----------------------------- MODULE MCDispatch -----------------------------
(* Instances of Dispatch: queries of one session over two connections.     *)
EXTENDS Dispatch

CONSTANTS q1, q2, q3, web, tray, talk

TwoPeers   == [q \in {q1, q2, q3} |-> IF q = q2 THEN tray ELSE web]
OneSession == [q \in {q1, q2, q3} |-> talk]
=============================================================================
