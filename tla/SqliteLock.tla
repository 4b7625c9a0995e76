----------------------------- MODULE SqliteLock -----------------------------
(***************************************************************************)
(* The SQLite migration lock: one row of dblift_migration_lock, inserted   *)
(* under a primary key by the client that acquires it, deleted by primary  *)
(* key and process id on release, and deleted by any waiter once it is     *)
(* older than the stale age (24 hours in the code).  The connection is in  *)
(* autocommit mode, so the cleanup and the insert of one attempt are two   *)
(* steps that other clients interleave with.                               *)
(*                                                                         *)
(* Time is the age of the row.  MaxHold bounds how long a live client      *)
(* keeps the lock: the code does not enforce it, the stale age assumes it. *)
(***************************************************************************)
EXTENDS LockTable

CONSTANTS
  Pid,         \* os.getpid() of each client; containers may share a value
  MaxTries     \* attempts before wait_timeout_seconds runs out

ASSUME SqliteAssumption ==
  /\ StaleAge \in Nat /\ MaxHold \in Nat /\ MaxTries \in Nat \ {0}
  /\ MaxCrashes \in Nat
  /\ NoRow \notin [by : Proc, age : Nat]

VARIABLE tries   \* attempts of the current acquire

vars == <<pc, tries, row, crashes>>

States == {"idle", "cleaning", "inserting", "holding", "crashed"}
Ages == 0 .. StaleAge + 1      \* older than stale is all the same
Rows == [by : Proc, age : Ages]

TypeOK ==
  /\ pc \in [Proc -> States]
  /\ tries \in [Proc -> 0 .. MaxTries]
  /\ row \in Rows \cup {NoRow}
  /\ crashes \in 0 .. MaxCrashes

Stale == row # NoRow /\ row.age > StaleAge

Init ==
  /\ pc = [p \in Proc |-> "idle"]
  /\ tries = [p \in Proc |-> 0]
  /\ row = NoRow
  /\ crashes = 0

Goto(p, s) == pc' = [pc EXCEPT ![p] = s]

\* acquire_migration_lock entered: the table exists, the timer starts.
StartAcquire(p) ==
  /\ pc[p] = "idle"
  /\ Goto(p, "cleaning")
  /\ tries' = [tries EXCEPT ![p] = 0]
  /\ UNCHANGED <<row, crashes>>

\* Faulty CleanupStaleLocks: the delete has no condition on the row's age.
CleanupAnyLock(p) ==
  /\ pc[p] = "cleaning"
  /\ row' = NoRow
  /\ Goto(p, "inserting")
  /\ UNCHANGED <<tries, crashes>>

\* Faulty CleanupStaleLocks: the delete is never committed.
CleanupUncommitted(p) ==
  /\ pc[p] = "cleaning"
  /\ Goto(p, "inserting")
  /\ UNCHANGED <<tries, row, crashes>>

CleanupStaleLocks(p) ==
  /\ pc[p] = "cleaning"
  /\ row' = IF Stale THEN NoRow ELSE row
  /\ Goto(p, "inserting")
  /\ UNCHANGED <<tries, crashes>>

\* An error of the cleanup is swallowed; the insert is tried all the same.
CleanupFails(p) ==
  /\ pc[p] = "cleaning"
  /\ Goto(p, "inserting")
  /\ UNCHANGED <<tries, row, crashes>>

\* Faulty InsertLock: INSERT OR REPLACE.
InsertOrReplace(p) ==
  /\ pc[p] = "inserting"
  /\ row' = [by |-> p, age |-> 0]
  /\ Goto(p, "holding")
  /\ UNCHANGED <<tries, crashes>>

InsertLock(p) ==
  /\ pc[p] = "inserting"
  /\ row = NoRow
  /\ row' = [by |-> p, age |-> 0]
  /\ Goto(p, "holding")
  /\ UNCHANGED <<tries, crashes>>

\* The key is taken, or any other error: sleep and start over, until the
\* timeout makes acquire_migration_lock return False.
InsertFails(p) ==
  /\ pc[p] = "inserting"
  /\ tries' = [tries EXCEPT ![p] = @ + 1]
  /\ Goto(p, IF tries[p] + 1 < MaxTries THEN "cleaning" ELSE "idle")
  /\ UNCHANGED <<row, crashes>>

\* DELETE ... WHERE lock_name = ? AND process_id = ?
Release(p) ==
  /\ pc[p] = "holding"
  /\ row' = IF row # NoRow /\ Pid[row.by] = Pid[p] THEN NoRow ELSE row
  /\ Goto(p, "idle")
  /\ UNCHANGED <<tries, crashes>>

\* The delete raises: release_migration_lock logs, returns False, and the
\* row stays although nobody works under it any more.
ReleaseFails(p) ==
  /\ pc[p] = "holding"
  /\ Goto(p, "idle")
  /\ UNCHANGED <<tries, row, crashes>>

Crash(p) ==
  /\ pc[p] # "crashed" /\ crashes < MaxCrashes
  /\ Goto(p, "crashed")
  /\ crashes' = crashes + 1
  /\ UNCHANGED <<tries, row>>

Restart(p) ==
  /\ pc[p] = "crashed"
  /\ Goto(p, "idle")
  /\ UNCHANGED <<tries, row, crashes>>

Tick ==
  /\ row # NoRow
  /\ row.age <= StaleAge
  /\ Held => row.age < MaxHold
  /\ row' = [row EXCEPT !.age = @ + 1]
  /\ UNCHANGED <<pc, tries, crashes>>

Step(p) ==
  \/ StartAcquire(p) \/ CleanupStaleLocks(p) \/ CleanupFails(p)
  \/ InsertLock(p) \/ InsertFails(p) \/ Release(p) \/ ReleaseFails(p)
  \/ Crash(p) \/ Restart(p)

Next == Tick \/ \E p \in Proc : Step(p)

Spec == Init /\ [][Next]_vars

(***************************************************************************)
(* Fairness: clocks advance; a running client keeps taking its steps; and  *)
(* an attempt that finds the database available again and again does not   *)
(* fail for ever.                                                          *)
(***************************************************************************)
Fairness ==
  /\ WF_vars(Tick)
  /\ \A p \in Proc :
       /\ WF_vars(StartAcquire(p)) /\ WF_vars(Release(p)) /\ WF_vars(Restart(p))
       /\ WF_vars(InsertFails(p))
       /\ SF_vars(CleanupStaleLocks(p)) /\ SF_vars(InsertLock(p))

FairSpec == Spec /\ Fairness
=============================================================================
