--------------------------- MODULE LockMechanisms ---------------------------
(***************************************************************************)
(* Oracle's two ways to lock, which do not know of each other, and what    *)
(* the clients promise of both.                                            *)
(***************************************************************************)
EXTENDS LockClients

VARIABLES
  grant,      \* clients for which DBMS_LOCK works; the others use the table
  session,    \* client whose session has the DBMS_LOCK, or NoProc
  inserter    \* client that inserted the lock row, or NoProc

\* While nobody crashes, whatever is locked, session or row, is locked by a
\* client that works under it: a release leaves neither behind.
NoOrphan ==
  crashes = 0 => \A p \in Proc : (session = p \/ inserter = p) => pc[p] = "holding"

SharedLock == INSTANCE MigrationLock
                WITH holders <- {p \in holders : p \in grant \/ grant = {}}

\* Whatever mixture of clients there is, those with DBMS_LOCK exclude each
\* other, and without any the table excludes all ("dblift serialises Oracle
\* migrations", docs/operations/recovery/oracle-lock-timeout.md:3).  Once some
\* have DBMS_LOCK, nothing is promised of the others: their row stops nobody
\* who has it, and every release deletes it.
MixedPromise == SharedLock!Spec
=============================================================================
