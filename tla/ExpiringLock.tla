---------------------------- MODULE ExpiringLock ----------------------------
(***************************************************************************)
(* The clients of a lock that counts as left behind when it is old.        *)
(***************************************************************************)
EXTENDS LockClients

CONSTANT MaxHold   \* longest time a live client works under the lock: the code
                   \* has no such bound, its stale age assumes one
=============================================================================
