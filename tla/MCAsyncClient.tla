---------------------------- MODULE MCAsyncClient ----------------------------
(* Three tasks: one that works, one in the queue, and one that comes then. *)
EXTENDS AsyncClient

CONSTANTS a, b, c
MCThree == {a, b, c}
=============================================================================
