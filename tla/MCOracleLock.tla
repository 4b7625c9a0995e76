---------------------------- MODULE MCOracleLock ----------------------------
(* Four clients, of which any may have DBMS_LOCK. *)
EXTENDS OracleLock

CONSTANTS a, b, c, d

MCProc == {a, b, c, d}
MCMixtures == SUBSET MCProc
=============================================================================
