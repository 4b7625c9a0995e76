----------------------------- MODULE OracleLock -----------------------------
(***************************************************************************)
(* The Oracle migration lock.  A client asks DBMS_LOCK for an exclusive    *)
(* session lock; when the request fails (no EXECUTE privilege, any other   *)
(* error or result code) it inserts a row of DBLIFT_MIGRATION_LOCK         *)
(* instead.                                                                *)
(***************************************************************************)
EXTENDS Naturals, LockMechanisms

CONSTANTS
  Granted,     \* the sets of clients for which DBMS_LOCK may work
  NoProc

ASSUME OracleAssumption ==
  /\ Granted \subseteq SUBSET Proc
  /\ MaxCrashes \in Nat
  /\ NoProc \notin Proc

VARIABLE handle   \* clients with a handle in _lock_handles

vars == <<grant, pc, session, inserter, handle, crashes>>

TypeOK ==
  /\ grant \in Granted
  /\ pc \in [Proc -> {"idle", "request", "insert", "holding"}]
  /\ session \in Proc \cup {NoProc}
  /\ inserter \in Proc \cup {NoProc}
  /\ handle \subseteq Proc
  /\ crashes \in 0 .. MaxCrashes

Init ==
  /\ grant \in Granted
  /\ pc = [p \in Proc |-> "idle"]
  /\ session = NoProc
  /\ inserter = NoProc
  /\ handle = {}
  /\ crashes = 0

Goto(p, state) == pc' = [pc EXCEPT ![p] = state]

StartAcquire(p) ==
  /\ pc[p] = "idle"
  /\ Goto(p, "request")
  /\ UNCHANGED <<grant, session, inserter, handle, crashes>>

\* Faulty RequestGranted: code 1, a timeout, is taken for success.
RequestAnyCode(p) ==
  /\ pc[p] = "request" /\ p \in grant
  /\ session' = IF session = NoProc THEN p ELSE session
  /\ handle' = handle \cup {p}
  /\ Goto(p, "holding")
  /\ UNCHANGED <<grant, inserter, crashes>>

\* Codes 0 and 4: this session has the lock.
RequestGranted(p) ==
  /\ pc[p] = "request" /\ p \in grant
  /\ session \in {NoProc, p}
  /\ session' = p
  /\ handle' = handle \cup {p}
  /\ Goto(p, "holding")
  /\ UNCHANGED <<grant, inserter, crashes>>

\* Code 1 until wait_timeout_seconds have passed: False, and no fallback.
RequestTimeout(p) ==
  /\ pc[p] = "request" /\ p \in grant
  /\ session \notin {NoProc, p}
  /\ Goto(p, "idle")
  /\ UNCHANGED <<grant, session, inserter, handle, crashes>>

\* Any other code, or an exception.
RequestFails(p) ==
  /\ pc[p] = "request" /\ p \notin grant
  /\ Goto(p, "insert")
  /\ UNCHANGED <<grant, session, inserter, handle, crashes>>

\* _acquire_table_lock
InsertRow(p) ==
  /\ pc[p] = "insert"
  /\ inserter = NoProc
  /\ inserter' = p
  /\ handle' = handle \ {p}
  /\ Goto(p, "holding")
  /\ UNCHANGED <<grant, session, crashes>>

\* The key is taken until the timeout, or another error of the insert.
InsertFails(p) ==
  /\ pc[p] = "insert"
  /\ Goto(p, "idle")
  /\ UNCHANGED <<grant, session, inserter, handle, crashes>>

\* Faulty Release: without a handle it stops before the table.
ReleaseSessionOnly(p) ==
  /\ pc[p] = "holding"
  /\ session' = IF p \in handle /\ session = p THEN NoProc ELSE session
  /\ handle' = handle \ {p}
  /\ Goto(p, "idle")
  /\ UNCHANGED <<grant, inserter, crashes>>

\* Both mechanisms, the table without a look at who inserted the row.
Release(p) ==
  /\ pc[p] = "holding"
  /\ session' = IF p \in handle /\ session = p THEN NoProc ELSE session
  /\ inserter' = NoProc
  /\ handle' = handle \ {p}
  /\ Goto(p, "idle")
  /\ UNCHANGED <<grant, crashes>>

\* The session goes with its process, the row does not.
Crash(p) ==
  /\ pc[p] # "idle"
  /\ crashes < MaxCrashes
  /\ crashes' = crashes + 1
  /\ session' = IF session = p THEN NoProc ELSE session
  /\ handle' = handle \ {p}
  /\ Goto(p, "idle")
  /\ UNCHANGED <<grant, inserter>>

Step(p) ==
  \/ StartAcquire(p) \/ RequestGranted(p) \/ RequestTimeout(p) \/ RequestFails(p)
  \/ InsertRow(p) \/ InsertFails(p) \/ Release(p) \/ Crash(p)

Next == \E p \in Proc : Step(p)

Spec == Init /\ [][Next]_vars

=============================================================================
