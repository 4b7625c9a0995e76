------------------------------ MODULE MCDb2Lock ------------------------------
(* Three clients: a holder or its orphan, a waiter that came too early to see *)
(* the row stale, and one that comes later.                                   *)
EXTENDS Db2Lock

CONSTANTS a, b, c

MCProc == {a, b, c}
=============================================================================
