---------------------------- MODULE LockClients ----------------------------
(***************************************************************************)
(* The clients of a migration lock that is kept in the database.           *)
(***************************************************************************)
CONSTANTS
  Proc,        \* the clients
  MaxCrashes   \* bound on the crashes (and failed releases) of a behaviour

VARIABLES
  pc,          \* where each client is in acquire / hold / release
  crashes      \* how many have crashed so far

\* The clients that acquire_migration_lock has answered True.
holders == {p \in Proc : pc[p] = "holding"}

Lock == INSTANCE MigrationLock

\* Only one client at a time is told that it holds the lock.  SQLite and DB2
\* keep it in a table, where a release looks at the owner of the row (SQLite) or
\* deletes it by name (DB2), provided no live client outlasts the stale age.
LockPromise == Lock!Spec
=============================================================================
