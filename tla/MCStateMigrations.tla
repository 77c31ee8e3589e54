------------------------- MODULE MCStateMigrations -------------------------
(***************************************************************************)
(* A small instance of StateMigrations for TLC: two threads of one server  *)
(* and one of another, builds of both schemas.                             *)
(***************************************************************************)
EXTENDS StateMigrations

CONSTANTS p1, p2, t1, t2, t3

ProcessHere == [t \in {t1, t2, t3} |-> IF t = t3 THEN p2 ELSE p1]
StatementsHere == <<2, 1>>
=============================================================================
