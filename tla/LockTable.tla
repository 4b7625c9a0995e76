----------------------------- MODULE LockTable -----------------------------
(***************************************************************************)
(* A lock table with one row, which its holder has inserted, and what the  *)
(* providers that have such a table promise of it.  A row older than the   *)
(* stale age counts as left by a crash, and waiters delete it.             *)
(***************************************************************************)
EXTENDS Naturals, ExpiringLock

CONSTANTS
  StaleAge,    \* age beyond which a row counts as left by a crash
  NoRow

VARIABLE row   \* the client that inserted the lock row and its age, or NoRow

Held == row # NoRow /\ pc[row.by] = "holding"

\* The row of a holder is its own, and not stale, until it releases it.
RowOfHolder ==
  \A p \in Proc : pc[p] = "holding" =>
    /\ row # NoRow
    /\ row.by = p
    /\ row.age <= MaxHold

\* A row left behind by a crash or by a failed release is cleaned up in the
\* end, by a waiter (SQLite) or by a client that comes when the row is stale
\* (DB2): no crash locks the database for ever.
OrphanRowCleaned == (row # NoRow /\ ~Held) ~> (row = NoRow \/ Held)
=============================================================================
