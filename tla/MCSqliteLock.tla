---------------------------- MODULE MCSqliteLock ----------------------------
(* Three clients, two of which share a process id (pid 1 in two containers). *)
EXTENDS SqliteLock

CONSTANTS a, b, c

MCProc == {a, b, c}
MCPid == [p \in MCProc |-> IF p = c THEN 2 ELSE 1]
=============================================================================
