------------------------------ MODULE Db2Lock ------------------------------
(***************************************************************************)
(* The DB2 migration lock: one row of DBLIFT_MIGRATION_LOCK.  Unlike       *)
(* SQLite's, a client looks for a stale row only once, when it enters      *)
(* acquire_migration_lock, and releases by deleting the row by name,       *)
(* whoever inserted it.                                                    *)
(***************************************************************************)
EXTENDS LockTable

ASSUME Db2Assumption ==
  /\ StaleAge \in Nat /\ MaxHold \in Nat /\ MaxCrashes \in Nat
  /\ NoRow \notin [by : Proc, age : Nat]

vars == <<pc, row, crashes>>

TypeOK ==
  /\ pc \in [Proc -> {"idle", "inserting", "holding"}]
  /\ row \in [by : Proc, age : 0 .. StaleAge + 1] \cup {NoRow}
  /\ crashes \in 0 .. MaxCrashes

Init ==
  /\ pc = [p \in Proc |-> "idle"]
  /\ row = NoRow
  /\ crashes = 0

Goto(p, state) == pc' = [pc EXCEPT ![p] = state]

\* Faulty Stale: ACQUIRED_AT <= ... instead of <.
StaleAtAge == row # NoRow /\ row.age >= StaleAge

Stale == row # NoRow /\ row.age > StaleAge

\* Faulty StartAcquire: the cleanup is missing.
StartWithoutCleanup(p) ==
  /\ pc[p] = "idle"
  /\ Goto(p, "inserting")
  /\ UNCHANGED <<row, crashes>>

\* Enter acquire_migration_lock and delete the row if it is stale.
StartAcquire(p) ==
  /\ pc[p] = "idle"
  /\ row' = IF Stale THEN NoRow ELSE row
  /\ Goto(p, "inserting")
  /\ UNCHANGED crashes

\* An error of the cleanup is swallowed.
StartCleanupFails(p) ==
  /\ pc[p] = "idle"
  /\ Goto(p, "inserting")
  /\ UNCHANGED <<row, crashes>>

\* Faulty InsertRow: a MERGE that overwrites the row.
MergeRow(p) ==
  /\ pc[p] = "inserting"
  /\ row' = [by |-> p, age |-> 0]
  /\ Goto(p, "holding")
  /\ UNCHANGED crashes

\* A failed insert is repeated until the deadline, with no new cleanup.
InsertRow(p) ==
  /\ pc[p] = "inserting"
  /\ row = NoRow
  /\ row' = [by |-> p, age |-> 0]
  /\ Goto(p, "holding")
  /\ UNCHANGED crashes

Deadline(p) ==
  /\ pc[p] = "inserting"
  /\ Goto(p, "idle")
  /\ UNCHANGED <<row, crashes>>

\* DELETE ... WHERE LOCK_NAME = ?
Release(p) ==
  /\ pc[p] = "holding"
  /\ row' = NoRow
  /\ Goto(p, "idle")
  /\ UNCHANGED crashes

\* A crash anywhere, or a release that raises: the row stays.
Crash(p) ==
  /\ pc[p] # "idle"
  /\ crashes < MaxCrashes
  /\ crashes' = crashes + 1
  /\ Goto(p, "idle")
  /\ UNCHANGED row

Tick ==
  /\ row # NoRow
  /\ row.age <= StaleAge
  /\ Held => row.age < MaxHold
  /\ row' = [row EXCEPT !.age = @ + 1]
  /\ UNCHANGED <<pc, crashes>>

Step(p) ==
  \/ StartAcquire(p) \/ StartCleanupFails(p) \/ InsertRow(p) \/ Deadline(p)
  \/ Release(p) \/ Crash(p)

Next == Tick \/ \E p \in Proc : Step(p)

Spec == Init /\ [][Next]_vars

\* Clocks advance; clients retry after a deadline; a cleanup that is tried
\* again and again does not fail for ever.
FairSpec ==
  /\ Spec
  /\ WF_vars(Tick)
  /\ \A p \in Proc : /\ SF_vars(StartAcquire(p)) /\ SF_vars(InsertRow(p))
                     /\ WF_vars(Deadline(p)) /\ WF_vars(Release(p))
=============================================================================
