------------------------ MODULE MigrationLocks_proofs ------------------------
(***************************************************************************)
(* The locks that are kept in the database.  Those that a client can leave *)
(* behind and others delete once they are old, the lock tables of SQLite   *)
(* and DB2 and the document of Cosmos DB, implement the abstract migration *)
(* lock for any number of clients and crashes, provided that no live       *)
(* client works under them for longer than their stale age; and so does    *)
(* Oracle's, for the clients that have the stronger of its two mechanisms. *)
(*                                                                         *)
(* The lock tables and Oracle's lock are instantiated with the constants   *)
(* and variables of the same names; what their modules assume of the       *)
(* constants is the first hypothesis of each statement about them.         *)
(***************************************************************************)
EXTENDS CosmosLock, LockTable, LockMechanisms, TLAPS

CONSTANTS Pid, MaxTries, Granted, NoProc

VARIABLES tries, handle

Sqlite == INSTANCE SqliteLock
Db2    == INSTANCE Db2Lock
Oracle == INSTANCE OracleLock

-----------------------------------------------------------------------------
(***************************************************************************)
(* The SQLite lock table is a migration lock for any number of clients,    *)
(* any stale age and any number of crashes, provided that no live client   *)
(* works under the lock for longer than the stale age.                     *)
(***************************************************************************)

\* TypeOK is not inductive: a client that has used up its attempts must not
\* be making another one.
SqliteAttemptsLeft ==
  \A p \in Proc : pc[p] \in {"cleaning", "inserting"} => tries[p] < MaxTries

SqliteTyped == Sqlite!TypeOK /\ SqliteAttemptsLeft

LEMMA SqliteInitTyped ==
  ASSUME Sqlite!SqliteAssumption PROVE Sqlite!Init => SqliteTyped
  BY Sqlite!SqliteAssumption DEF Sqlite!Init, SqliteTyped, Sqlite!TypeOK,
                                 SqliteAttemptsLeft, Sqlite!States

LEMMA SqliteStepTyped ==
  ASSUME Sqlite!SqliteAssumption
  PROVE  SqliteTyped /\ [Sqlite!Next]_(Sqlite!vars) => SqliteTyped'
<1> SUFFICES ASSUME SqliteTyped, [Sqlite!Next]_(Sqlite!vars) PROVE SqliteTyped'
  OBVIOUS
<1> USE Sqlite!SqliteAssumption DEF SqliteTyped, Sqlite!TypeOK, SqliteAttemptsLeft,
                                    Sqlite!States, Sqlite!Ages, Sqlite!Rows
<1>1. ASSUME NEW p \in Proc, Sqlite!StartAcquire(p) PROVE SqliteTyped'
  BY <1>1 DEF Sqlite!StartAcquire, Sqlite!Goto
<1>2. ASSUME NEW p \in Proc, Sqlite!CleanupStaleLocks(p) \/ Sqlite!CleanupFails(p)
      PROVE SqliteTyped'
  BY <1>2 DEF Sqlite!CleanupStaleLocks, Sqlite!CleanupFails, Sqlite!Goto
<1>3. ASSUME NEW p \in Proc, Sqlite!InsertLock(p) PROVE SqliteTyped'
  BY <1>3 DEF Sqlite!InsertLock, Sqlite!Goto
<1>4. ASSUME NEW p \in Proc, Sqlite!InsertFails(p) PROVE SqliteTyped'
  BY <1>4 DEF Sqlite!InsertFails, Sqlite!Goto
<1>5. ASSUME NEW p \in Proc, Sqlite!Release(p) \/ Sqlite!ReleaseFails(p)
      PROVE SqliteTyped'
  BY <1>5 DEF Sqlite!Release, Sqlite!ReleaseFails, Sqlite!Goto
<1>6. ASSUME NEW p \in Proc, Sqlite!Crash(p) \/ Sqlite!Restart(p) PROVE SqliteTyped'
  BY <1>6 DEF Sqlite!Crash, Sqlite!Restart, Sqlite!Goto
<1>7. ASSUME Sqlite!Tick PROVE SqliteTyped'
  <2>1. row \in Sqlite!Rows /\ row.age + 1 \in Sqlite!Ages
    BY <1>7 DEF Sqlite!Tick
  <2>2. row' \in Sqlite!Rows
    BY <1>7, <2>1 DEF Sqlite!Tick
  <2> QED
    BY <1>7, <2>2 DEF Sqlite!Tick
<1>8. CASE UNCHANGED Sqlite!vars
  BY <1>8 DEF Sqlite!vars
<1> QED
  BY <1>1, <1>2, <1>3, <1>4, <1>5, <1>6, <1>7, <1>8 DEF Sqlite!Next, Sqlite!Step

\* The steps of _cleanup_stale_locks, acquire_migration_lock and
\* release_migration_lock keep every variable within its type; in particular
\* no acquire makes more attempts than its timeout allows.
THEOREM SqliteTyping ==
  ASSUME Sqlite!SqliteAssumption PROVE Sqlite!Spec => []Sqlite!TypeOK
<1>1. SqliteTyped => Sqlite!TypeOK
  BY DEF SqliteTyped
<1> QED
  BY SqliteInitTyped, SqliteStepTyped, <1>1, PTL DEF Sqlite!Spec

-----------------------------------------------------------------------------
(* The lock row of a holder. *)

LEMMA SqliteStepRowOfHolder ==
  ASSUME Sqlite!SqliteAssumption, MaxHold <= StaleAge, SqliteTyped, RowOfHolder,
         [Sqlite!Next]_(Sqlite!vars)
  PROVE  RowOfHolder'
<1> USE Sqlite!SqliteAssumption DEF SqliteTyped, Sqlite!TypeOK, RowOfHolder, Sqlite!Rows,
                                    Sqlite!Ages
<1>1. ASSUME NEW p \in Proc, Sqlite!StartAcquire(p) PROVE RowOfHolder'
  BY <1>1 DEF Sqlite!StartAcquire, Sqlite!Goto
<1>2. ASSUME NEW p \in Proc, Sqlite!CleanupStaleLocks(p) PROVE RowOfHolder'
  <2>1. CASE Sqlite!Stale
    <3>1. row.age > MaxHold
      BY <2>1 DEF Sqlite!Stale
    <3>2. \A q \in Proc : pc[q] # "holding"
      BY <3>1
    <3> QED
      BY <1>2, <3>2 DEF Sqlite!CleanupStaleLocks, Sqlite!Goto
  <2>2. CASE ~Sqlite!Stale
    BY <1>2, <2>2 DEF Sqlite!CleanupStaleLocks, Sqlite!Goto
  <2> QED
    BY <2>1, <2>2
<1>3. ASSUME NEW p \in Proc, Sqlite!InsertLock(p) PROVE RowOfHolder'
  <2>1. \A q \in Proc : pc[q] # "holding"
    BY <1>3 DEF Sqlite!InsertLock
  <2> QED
    BY <1>3, <2>1 DEF Sqlite!InsertLock, Sqlite!Goto
<1>4. ASSUME NEW p \in Proc, Sqlite!CleanupFails(p) \/ Sqlite!InsertFails(p)
             \/ Sqlite!ReleaseFails(p)
                             \/ Sqlite!Crash(p) \/ Sqlite!Restart(p)
      PROVE RowOfHolder'
  BY <1>4 DEF Sqlite!CleanupFails, Sqlite!InsertFails, Sqlite!ReleaseFails, Sqlite!Crash,
              Sqlite!Restart, Sqlite!Goto
<1>5. ASSUME NEW p \in Proc, Sqlite!Release(p) PROVE RowOfHolder'
  <2>1. \A q \in Proc : pc[q] = "holding" => q = p
    BY <1>5 DEF Sqlite!Release
  <2> QED
    BY <1>5, <2>1 DEF Sqlite!Release, Sqlite!Goto
<1>6. ASSUME Sqlite!Tick PROVE RowOfHolder'
  <2>1. row \in Sqlite!Rows /\ row' = [by |-> row.by, age |-> row.age + 1]
    BY <1>6 DEF Sqlite!Tick
  <2>2. row' # NoRow
    BY <2>1
  <2>3. ASSUME NEW p \in Proc, pc'[p] = "holding"
        PROVE row'.by = p /\ row'.age <= MaxHold
    BY <1>6, <2>1, <2>3 DEF Sqlite!Tick, Sqlite!Held
  <2> QED
    BY <2>2, <2>3
<1>7. CASE UNCHANGED Sqlite!vars
  BY <1>7 DEF Sqlite!vars
<1> QED
  BY <1>1, <1>2, <1>3, <1>4, <1>5, <1>6, <1>7 DEF Sqlite!Next, Sqlite!Step

SqliteIInv == SqliteTyped /\ RowOfHolder

LEMMA SqliteIInvInvariant ==
  ASSUME Sqlite!SqliteAssumption, MaxHold <= StaleAge
  PROVE  Sqlite!Spec => []SqliteIInv
<1>1. Sqlite!Init => SqliteIInv
  BY SqliteInitTyped DEF Sqlite!Init, SqliteIInv, RowOfHolder
<1>2. SqliteIInv /\ [Sqlite!Next]_(Sqlite!vars) => SqliteIInv'
  BY SqliteStepTyped, SqliteStepRowOfHolder DEF SqliteIInv
<1> QED
  BY <1>1, <1>2, PTL DEF Sqlite!Spec

\* A client that holds the lock (acquire_migration_lock answered True) finds
\* its own row in dblift_migration_lock until it releases it: no cleanup of
\* another client and no release by process id ever removes it.
THEOREM SqliteHolderHasRow ==
  ASSUME Sqlite!SqliteAssumption, MaxHold <= StaleAge
  PROVE  Sqlite!Spec => []RowOfHolder
<1>1. SqliteIInv => RowOfHolder
  BY DEF SqliteIInv
<1> QED
  BY SqliteIInvInvariant, <1>1, PTL

\* The lock table implements the abstract migration lock: at most one client
\* at a time is told by acquire_migration_lock that it holds the lock.
THEOREM SqliteRefinement ==
  ASSUME Sqlite!SqliteAssumption, MaxHold <= StaleAge
  PROVE  Sqlite!Spec => LockPromise
<1>1. Sqlite!Init => Lock!Init
  BY DEF Sqlite!Init, Lock!Init, holders
<1>2. SqliteIInv /\ [Sqlite!Next]_(Sqlite!vars) => [Lock!Next]_holders
  <2> SUFFICES ASSUME SqliteIInv, [Sqlite!Next]_(Sqlite!vars) PROVE [Lock!Next]_holders
    OBVIOUS
  <2> USE Sqlite!SqliteAssumption DEF SqliteIInv, SqliteTyped, Sqlite!TypeOK,
                                      RowOfHolder, holders
  <2>1. ASSUME NEW p \in Proc, Sqlite!InsertLock(p) PROVE Lock!Acquire(p)
    <3>1. holders = {}
      BY <2>1 DEF Sqlite!InsertLock
    <3>2. holders' = {p}
      BY <2>1, <3>1 DEF Sqlite!InsertLock, Sqlite!Goto
    <3> QED
      BY <3>1, <3>2 DEF Lock!Acquire
  <2>2. ASSUME NEW p \in Proc, Sqlite!Release(p) \/ Sqlite!ReleaseFails(p)
               \/ Sqlite!Crash(p)
        PROVE Lock!Drop(p) \/ UNCHANGED holders
    BY <2>2 DEF Sqlite!Release, Sqlite!ReleaseFails, Sqlite!Crash, Sqlite!Goto, Lock!Drop
  <2>3. ASSUME NEW p \in Proc, Sqlite!StartAcquire(p) \/ Sqlite!CleanupStaleLocks(p)
               \/ Sqlite!CleanupFails(p)
                               \/ Sqlite!InsertFails(p) \/ Sqlite!Restart(p)
        PROVE UNCHANGED holders
    BY <2>3 DEF Sqlite!StartAcquire, Sqlite!CleanupStaleLocks, Sqlite!CleanupFails,
                Sqlite!InsertFails, Sqlite!Restart, Sqlite!Goto
  <2>4. CASE Sqlite!Tick \/ UNCHANGED Sqlite!vars
    BY <2>4 DEF Sqlite!Tick, Sqlite!vars
  <2> QED
    BY <2>1, <2>2, <2>3, <2>4 DEF Sqlite!Next, Sqlite!Step, Lock!Next
<1> QED
  BY SqliteIInvInvariant, <1>1, <1>2, PTL DEF Sqlite!Spec, LockPromise, Lock!Spec

-----------------------------------------------------------------------------
(***************************************************************************)
(* The DB2 lock table is a migration lock for any number of clients, any   *)
(* stale age and any number of crashes, provided that no live client works *)
(* under the lock for longer than the stale age.                           *)
(***************************************************************************)

LEMMA Db2InitTyped ==
  ASSUME Db2!Db2Assumption PROVE Db2!Init => Db2!TypeOK
  BY Db2!Db2Assumption DEF Db2!Init, Db2!TypeOK

LEMMA Db2StepTyped ==
  ASSUME Db2!Db2Assumption PROVE Db2!TypeOK /\ [Db2!Next]_(Db2!vars) => Db2!TypeOK'
<1> SUFFICES ASSUME Db2!TypeOK, [Db2!Next]_(Db2!vars) PROVE Db2!TypeOK'
  OBVIOUS
<1> USE Db2!Db2Assumption DEF Db2!TypeOK
<1>1. ASSUME NEW p \in Proc, Db2!StartAcquire(p) \/ Db2!StartCleanupFails(p)
             \/ Db2!Deadline(p)
      PROVE Db2!TypeOK'
  BY <1>1 DEF Db2!StartAcquire, Db2!StartCleanupFails, Db2!Deadline, Db2!Goto
<1>2. ASSUME NEW p \in Proc, Db2!InsertRow(p) PROVE Db2!TypeOK'
  <2>1. [by |-> p, age |-> 0] \in [by : Proc, age : 0 .. StaleAge + 1]
    OBVIOUS
  <2> QED
    BY <1>2, <2>1 DEF Db2!InsertRow, Db2!Goto
<1>3. ASSUME NEW p \in Proc, Db2!Release(p) \/ Db2!Crash(p) PROVE Db2!TypeOK'
  BY <1>3 DEF Db2!Release, Db2!Crash, Db2!Goto
<1>4. ASSUME Db2!Tick PROVE Db2!TypeOK'
  <2>1. row \in [by : Proc, age : 0 .. StaleAge + 1] /\ row.age + 1 \in 0 .. StaleAge + 1
    BY <1>4 DEF Db2!Tick
  <2>2. row' \in [by : Proc, age : 0 .. StaleAge + 1]
    BY <1>4, <2>1 DEF Db2!Tick
  <2> QED
    BY <1>4, <2>2 DEF Db2!Tick
<1>5. CASE UNCHANGED Db2!vars
  BY <1>5 DEF Db2!vars
<1> QED
  BY <1>1, <1>2, <1>3, <1>4, <1>5 DEF Db2!Next, Db2!Step

\* Type correctness of acquire_migration_lock and release_migration_lock of the
\* DB2 provider; in particular a row is never older than one tick past the
\* stale age, beyond which its age makes no difference.
THEOREM Db2Typing ==
  ASSUME Db2!Db2Assumption PROVE Db2!Spec => []Db2!TypeOK
  BY Db2InitTyped, Db2StepTyped, PTL DEF Db2!Spec

-----------------------------------------------------------------------------
(* The row of a holder. *)

LEMMA Db2StepRowOfHolder ==
  ASSUME Db2!Db2Assumption, MaxHold <= StaleAge, Db2!TypeOK, RowOfHolder,
         [Db2!Next]_(Db2!vars)
  PROVE  RowOfHolder'
<1> USE Db2!Db2Assumption DEF Db2!TypeOK, RowOfHolder
<1>1. ASSUME NEW p \in Proc, Db2!StartAcquire(p) PROVE RowOfHolder'
  <2>1. CASE Db2!Stale
    <3>1. \A q \in Proc : pc[q] # "holding"
      BY <2>1 DEF Db2!Stale
    <3> QED
      BY <1>1, <3>1 DEF Db2!StartAcquire, Db2!Goto
  <2>2. CASE ~Db2!Stale
    BY <1>1, <2>2 DEF Db2!StartAcquire, Db2!Goto
  <2> QED
    BY <2>1, <2>2
<1>2. ASSUME NEW p \in Proc, Db2!StartCleanupFails(p) \/ Db2!Deadline(p) \/ Db2!Crash(p)
      PROVE RowOfHolder'
  BY <1>2 DEF Db2!StartCleanupFails, Db2!Deadline, Db2!Crash, Db2!Goto
<1>3. ASSUME NEW p \in Proc, Db2!InsertRow(p) PROVE RowOfHolder'
  <2>1. \A q \in Proc : pc[q] # "holding"
    BY <1>3 DEF Db2!InsertRow
  <2> QED
    BY <1>3, <2>1 DEF Db2!InsertRow, Db2!Goto
<1>4. ASSUME NEW p \in Proc, Db2!Release(p) PROVE RowOfHolder'
  <2>1. \A q \in Proc : pc[q] = "holding" => q = p
    BY <1>4 DEF Db2!Release
  <2> QED
    BY <1>4, <2>1 DEF Db2!Release, Db2!Goto
<1>5. ASSUME Db2!Tick PROVE RowOfHolder'
  <2>1. row' = [by |-> row.by, age |-> row.age + 1]
    BY <1>5 DEF Db2!Tick
  <2>2. ASSUME NEW p \in Proc, pc'[p] = "holding"
        PROVE row' # NoRow /\ row'.by = p /\ row'.age <= MaxHold
    BY <1>5, <2>1, <2>2 DEF Db2!Tick, Db2!Held
  <2> QED
    BY <2>2
<1>6. CASE UNCHANGED Db2!vars
  BY <1>6 DEF Db2!vars
<1> QED
  BY <1>1, <1>2, <1>3, <1>4, <1>5, <1>6 DEF Db2!Next, Db2!Step

Db2IInv == Db2!TypeOK /\ RowOfHolder

LEMMA Db2IInvInvariant ==
  ASSUME Db2!Db2Assumption, MaxHold <= StaleAge
  PROVE  Db2!Spec => []Db2IInv
<1>1. Db2!Init => Db2IInv
  BY Db2InitTyped DEF Db2!Init, Db2IInv, RowOfHolder
<1>2. Db2IInv /\ [Db2!Next]_(Db2!vars) => Db2IInv'
  BY Db2StepTyped, Db2StepRowOfHolder DEF Db2IInv
<1> QED
  BY <1>1, <1>2, PTL DEF Db2!Spec

\* A client that holds the lock finds its own row in DBLIFT_MIGRATION_LOCK until
\* it releases it, although any client's release deletes the row by name.
THEOREM Db2HolderHasRow ==
  ASSUME Db2!Db2Assumption, MaxHold <= StaleAge
  PROVE  Db2!Spec => []RowOfHolder
<1>1. Db2IInv => RowOfHolder
  BY DEF Db2IInv
<1> QED
  BY Db2IInvInvariant, <1>1, PTL

\* The lock table implements the abstract migration lock: at most one client at
\* a time is told by acquire_migration_lock that it holds the lock.
THEOREM Db2Refinement ==
  ASSUME Db2!Db2Assumption, MaxHold <= StaleAge
  PROVE  Db2!Spec => LockPromise
<1>1. Db2!Init => Lock!Init
  BY DEF Db2!Init, Lock!Init, holders
<1>2. Db2IInv /\ [Db2!Next]_(Db2!vars) => [Lock!Next]_holders
  <2> SUFFICES ASSUME Db2IInv, [Db2!Next]_(Db2!vars) PROVE [Lock!Next]_holders
    OBVIOUS
  <2> USE DEF Db2IInv, Db2!TypeOK, RowOfHolder, holders
  <2>1. ASSUME NEW p \in Proc, Db2!InsertRow(p) PROVE Lock!Acquire(p)
    <3>1. holders = {}
      BY <2>1 DEF Db2!InsertRow
    <3>2. holders' = {p}
      BY <2>1, <3>1 DEF Db2!InsertRow, Db2!Goto
    <3> QED
      BY <3>1, <3>2 DEF Lock!Acquire
  <2>2. ASSUME NEW p \in Proc, Db2!Release(p) \/ Db2!Crash(p)
        PROVE Lock!Drop(p) \/ UNCHANGED holders
    BY <2>2 DEF Db2!Release, Db2!Crash, Db2!Goto, Lock!Drop
  <2>3. ASSUME NEW p \in Proc, Db2!StartAcquire(p) \/ Db2!StartCleanupFails(p)
               \/ Db2!Deadline(p)
        PROVE UNCHANGED holders
    BY <2>3 DEF Db2!StartAcquire, Db2!StartCleanupFails, Db2!Deadline, Db2!Goto
  <2>4. CASE Db2!Tick \/ UNCHANGED Db2!vars
    BY <2>4 DEF Db2!Tick, Db2!vars
  <2> QED
    BY <2>1, <2>2, <2>3, <2>4 DEF Db2!Next, Db2!Step, Lock!Next
<1> QED
  BY Db2IInvInvariant, <1>1, <1>2, PTL DEF Db2!Spec, LockPromise, Lock!Spec

-----------------------------------------------------------------------------
(***************************************************************************)
(* The native protocol of the Cosmos DB lock is a migration lock for any   *)
(* number of clients, any expiry time and any number of crashes, as long   *)
(* as no live client works under the lock for longer than the expiry time. *)
(***************************************************************************)

LEMMA CosmosInitTyped == Init => TypeOK
  BY CosmosAssumption DEF Init, TypeOK, States

LEMMA CosmosNewDocumentTyped ==
  ASSUME TypeOK, NEW p \in Proc, NewDocument(p) PROVE TypeOK'
<1> USE CosmosAssumption DEF TypeOK, States
<1>1. PICK e \in Etag : doc' = [by |-> p, etag |-> e, age |-> 0]
  BY DEF NewDocument
<1>2. doc' \in [by : Proc, etag : Etag, age : 0 .. Expiry + 1]
  BY <1>1
<1> QED
  BY <1>2 DEF NewDocument, Goto

LEMMA CosmosStepTyped == TypeOK /\ [Next]_vars => TypeOK'
<1> SUFFICES ASSUME TypeOK, [Next]_vars PROVE TypeOK'
  OBVIOUS
<1> USE CosmosAssumption DEF TypeOK, States, Goto
<1>1. ASSUME NEW p \in Proc, CreateLock(p) \/ FallbackCreate(p) PROVE TypeOK'
  BY <1>1, CosmosNewDocumentTyped DEF CreateLock, FallbackCreate
<1>2. ASSUME NEW p \in Proc, ReadLock(p) PROVE TypeOK'
  <2>1. CASE doc = NoDoc /\ Goto(p, "create") /\ UNCHANGED seen
    BY <1>2, <2>1 DEF ReadLock
  <2>2. CASE Expired /\ Goto(p, "delete") /\ seen' = [seen EXCEPT ![p] = doc.etag]
    <3>1. doc.etag \in Etag
      BY <2>2 DEF Expired
    <3> QED
      BY <1>2, <2>2, <3>1 DEF ReadLock
  <2> QED
    BY <1>2, <2>1, <2>2 DEF ReadLock
<1>3. ASSUME NEW p \in Proc,
             StartAcquire(p) \/ DeleteExpired(p) \/ DeleteRefused(p) \/ CreateConflict(p)
               \/ FallBack(p)
      PROVE TypeOK'
  BY <1>3 DEF StartAcquire, DeleteExpired, DeleteRefused, CreateConflict, FallBack
<1>4. ASSUME NEW p \in Proc,
             FallbackConflict(p) \/ FallbackRead(p) \/ FallbackDelete(p) \/ Timeout(p)
      PROVE TypeOK'
  BY <1>4 DEF FallbackConflict, FallbackRead, FallbackDelete, Timeout
<1>5. ASSUME NEW p \in Proc, Release(p) \/ Crash(p) PROVE TypeOK'
  BY <1>5 DEF Release, Crash
<1>6. ASSUME Tick PROVE TypeOK'
  <2>1. doc' \in [by : Proc, etag : Etag, age : 0 .. Expiry + 1]
    BY <1>6 DEF Tick
  <2> QED
    BY <1>6, <2>1 DEF Tick
<1>7. CASE UNCHANGED vars
  BY <1>7 DEF vars
<1> QED
  BY <1>1, <1>2, <1>3, <1>4, <1>5, <1>6, <1>7 DEF Next, Acquiring

\* Type correctness of _try_native_lock_acquire, _acquire_document_based_lock
\* and release_migration_lock.
THEOREM CosmosTyping == Spec => []TypeOK
  BY CosmosInitTyped, CosmosStepTyped, PTL DEF Spec

-----------------------------------------------------------------------------
(* What is true of the document in either protocol. *)

\* The document of somebody at work is within the time that he works, and a
\* client that is about to delete a document by its etag can only hit an expired
\* one: a new document has an etag that nobody remembers.
CosmosFresh ==
  /\ DocumentHeld => doc.age <= MaxHold
  /\ \A p \in Proc :
       pc[p] = "delete" /\ doc # NoDoc /\ doc.etag = seen[p] => doc.age > Expiry

CosmosIInv == TypeOK /\ CosmosFresh

LEMMA CosmosNewDocument ==
  ASSUME TypeOK, NEW p \in Proc, NewDocument(p)
  PROVE  /\ doc = NoDoc /\ doc' # NoDoc /\ doc'.by = p /\ doc'.age = 0
         /\ \A q \in Proc : pc[q] = "delete" => doc'.etag # seen[q]
         /\ pc' = [pc EXCEPT ![p] = "holding"] /\ UNCHANGED <<seen, crashes, fallback>>
<1> USE CosmosAssumption DEF TypeOK, NewDocument, Goto
<1>1. PICK e \in Etag \ {seen[q] : q \in {r \in Proc : pc[r] = "delete"}} :
        doc' = [by |-> p, etag |-> e, age |-> 0]
  OBVIOUS
<1>2. doc' # NoDoc
  BY <1>1
<1> QED
  BY <1>1, <1>2

LEMMA CosmosTicked ==
  ASSUME TypeOK, Tick
  PROVE  /\ doc # NoDoc /\ doc' # NoDoc
         /\ doc'.by = doc.by /\ doc'.etag = doc.etag /\ doc'.age = doc.age + 1
         /\ UNCHANGED <<pc, seen, crashes, fallback>>
         /\ DocumentHeld => doc.age < MaxHold
<1> USE CosmosAssumption DEF TypeOK, Tick
<1>1. doc' \in [by : Proc, etag : Etag, age : Nat]
  OBVIOUS
<1> QED
  BY <1>1

LEMMA CosmosStepFresh == ASSUME CosmosIInv, [Next]_vars PROVE CosmosFresh'
<1> USE CosmosAssumption DEF CosmosIInv, TypeOK, States, CosmosFresh, DocumentHeld, Goto
<1>1. ASSUME NEW p \in Proc, StartAcquire(p) \/ DeleteRefused(p) \/ CreateConflict(p)
             \/ FallBack(p) \/ Crash(p)
      PROVE CosmosFresh'
  BY <1>1 DEF StartAcquire, DeleteRefused, CreateConflict, FallBack, Crash
<1>2. ASSUME NEW p \in Proc, ReadLock(p) PROVE CosmosFresh'
  BY <1>2 DEF ReadLock, Expired
<1>3. ASSUME NEW p \in Proc, DeleteExpired(p) PROVE CosmosFresh'
  BY <1>3 DEF DeleteExpired
<1>4. ASSUME NEW p \in Proc, CreateLock(p) \/ FallbackCreate(p) PROVE CosmosFresh'
  <2>1. NewDocument(p)
    BY <1>4 DEF CreateLock, FallbackCreate
  <2>2. /\ doc' # NoDoc /\ doc'.age = 0
        /\ \A q \in Proc : pc[q] = "delete" => doc'.etag # seen[q]
        /\ pc' = [pc EXCEPT ![p] = "holding"] /\ UNCHANGED seen
    BY <2>1, CosmosNewDocument
  <2> QED
    BY <2>2
<1>5. ASSUME NEW p \in Proc, FallbackConflict(p) \/ FallbackRead(p) \/ Timeout(p)
      PROVE CosmosFresh'
  BY <1>5 DEF FallbackConflict, FallbackRead, Timeout
<1>6. ASSUME NEW p \in Proc, FallbackDelete(p) \/ Release(p) PROVE CosmosFresh'
  BY <1>6 DEF FallbackDelete, Release
<1>7. ASSUME Tick PROVE CosmosFresh'
  <2>1. /\ doc # NoDoc
        /\ doc'.by = doc.by /\ doc'.etag = doc.etag /\ doc'.age = doc.age + 1
        /\ UNCHANGED <<pc, seen>>
        /\ DocumentHeld => doc.age < MaxHold
    BY <1>7, CosmosTicked
  <2>2. doc.age \in Nat
    BY <2>1
  <2> QED
    BY <2>1, <2>2
<1>8. CASE UNCHANGED vars
  BY <1>8 DEF vars
<1> QED
  BY <1>1, <1>2, <1>3, <1>4, <1>5, <1>6, <1>7, <1>8 DEF Next, Acquiring

LEMMA CosmosIInvInvariant == Spec => []CosmosIInv
<1>1. Init => CosmosIInv
  BY CosmosInitTyped DEF Init, CosmosIInv, CosmosFresh, DocumentHeld
<1>2. CosmosIInv /\ [Next]_vars => CosmosIInv'
  BY CosmosStepTyped, CosmosStepFresh DEF CosmosIInv
<1> QED
  BY <1>1, <1>2, PTL DEF Spec

\* A conditional delete that waited between its read and its request never hits
\* a document somebody works under.
LEMMA CosmosDeleteMisses ==
  ASSUME MaxHold <= Expiry, CosmosIInv, NEW p \in Proc, DeleteExpired(p), DocumentHeld
  PROVE  doc' = doc
<1>1. doc.age \in Nat /\ doc.age <= MaxHold
  BY CosmosAssumption DEF CosmosIInv, TypeOK, CosmosFresh, DocumentHeld
<1>2. doc.etag # seen[p]
  BY <1>1, CosmosAssumption DEF CosmosIInv, CosmosFresh, DeleteExpired, DocumentHeld
<1> QED
  BY <1>2 DEF DeleteExpired

\* The document of a client that alone holds the lock, and goes on holding it,
\* is lost to nothing but the unconditional delete of
\* _acquire_document_based_lock, whichever clients fall back: a conditional
\* delete of a document that was read earlier does not hit it, nobody creates
\* another over it, and release_migration_lock is called by its creator alone.
THEOREM CosmosDocumentKept == ASSUME MaxHold <= Expiry PROVE Spec => HolderKeepsDocument
<1> DEFINE Kept ==
      \A p \in Proc :
        doc # NoDoc /\ doc.by = p /\ holders = {p} /\ p \in holders'
          => (doc' # NoDoc /\ doc'.by = p) \/ \E q \in Proc : FallbackDelete(q)
<1>1. ASSUME CosmosIInv, [Next]_vars PROVE Kept
  <2> SUFFICES ASSUME NEW p \in Proc, doc # NoDoc, doc.by = p,
                      holders = {p}, p \in holders',
                      ~ \E q \in Proc : FallbackDelete(q)
               PROVE  doc' # NoDoc /\ doc'.by = p
    OBVIOUS
  <2>1. DocumentHeld /\ TypeOK /\ \A q \in Proc : pc[q] = "holding" => q = p
    BY <1>1 DEF DocumentHeld, holders, CosmosIInv
  <2>2. ASSUME NEW q \in Proc, DeleteExpired(q) PROVE doc' = doc
    BY <1>1, <2>1, <2>2, CosmosDeleteMisses
  <2>3. ASSUME NEW q \in Proc, CreateLock(q) \/ FallbackCreate(q) PROVE FALSE
    BY <2>3 DEF CreateLock, FallbackCreate, NewDocument
  <2>4. ASSUME NEW q \in Proc, Release(q) PROVE FALSE
    BY <2>1, <2>4 DEF Release, Goto, holders, TypeOK
  <2>5. ASSUME NEW q \in Proc,
               StartAcquire(q) \/ ReadLock(q) \/ DeleteRefused(q) \/ CreateConflict(q)
                 \/ FallBack(q)
        PROVE doc' = doc
    BY <2>5 DEF StartAcquire, ReadLock, DeleteRefused, CreateConflict, FallBack
  <2>6. ASSUME NEW q \in Proc,
               FallbackConflict(q) \/ FallbackRead(q) \/ Timeout(q) \/ Crash(q)
        PROVE doc' = doc
    BY <2>6 DEF FallbackConflict, FallbackRead, Timeout, Crash
  <2>7. ASSUME Tick PROVE doc' # NoDoc /\ doc'.by = doc.by
    BY <2>1, <2>7, CosmosTicked
  <2>8. CASE UNCHANGED vars
    BY <2>8 DEF vars
  <2> QED
    BY <1>1, <2>2, <2>3, <2>4, <2>5, <2>6, <2>7, <2>8 DEF Next, Acquiring
<1>2. CosmosIInv /\ [Next]_vars => [Kept]_vars
  BY <1>1
<1> QED
  BY CosmosIInvInvariant, <1>2, PTL DEF Spec, HolderKeepsDocument

-----------------------------------------------------------------------------
(* Where no delete comes late, holders own the document. *)

CosmosOwned == \A p \in Proc : pc[p] = "holding" => doc # NoDoc /\ doc.by = p

\* No fallback deletes a document somebody works under.
CosmosTimelyDelete == \A p \in Proc : FallbackDelete(p) => ~DocumentHeld

LEMMA CosmosStepOwned ==
  ASSUME MaxHold <= Expiry, CosmosIInv, CosmosOwned, [Next]_vars, CosmosTimelyDelete
  PROVE  CosmosOwned'
<1> USE DEF CosmosIInv, TypeOK, States, CosmosOwned, Goto
<1>1. ASSUME NEW p \in Proc,
             StartAcquire(p) \/ ReadLock(p) \/ DeleteRefused(p) \/ CreateConflict(p)
               \/ FallBack(p)
      PROVE CosmosOwned'
  BY <1>1 DEF StartAcquire, ReadLock, DeleteRefused, CreateConflict, FallBack
<1>2. ASSUME NEW p \in Proc,
             FallbackConflict(p) \/ FallbackRead(p) \/ Timeout(p) \/ Crash(p)
      PROVE CosmosOwned'
  BY <1>2 DEF FallbackConflict, FallbackRead, Timeout, Crash
<1>3. ASSUME NEW p \in Proc, DeleteExpired(p) PROVE CosmosOwned'
  <2>1. DocumentHeld => doc' = doc
    BY <1>3, CosmosDeleteMisses
  <2>2. \A q \in Proc : pc'[q] = "holding" => pc[q] = "holding"
    BY <1>3 DEF DeleteExpired
  <2>3. \A q \in Proc : pc[q] = "holding" => DocumentHeld
    BY DEF DocumentHeld
  <2> QED
    BY <2>1, <2>2, <2>3
<1>4. ASSUME NEW p \in Proc, CreateLock(p) \/ FallbackCreate(p) PROVE CosmosOwned'
  <2>1. NewDocument(p)
    BY <1>4 DEF CreateLock, FallbackCreate
  <2>2. doc = NoDoc /\ doc' # NoDoc /\ doc'.by = p /\ pc' = [pc EXCEPT ![p] = "holding"]
    BY <2>1, CosmosNewDocument
  <2> QED
    BY <2>2
<1>5. ASSUME NEW p \in Proc, FallbackDelete(p) PROVE CosmosOwned'
  <2>1. \A q \in Proc : pc[q] # "holding"
    BY <1>5 DEF CosmosTimelyDelete, DocumentHeld
  <2> QED
    BY <1>5, <2>1 DEF FallbackDelete
<1>6. ASSUME NEW p \in Proc, Release(p) PROVE CosmosOwned'
  <2>1. \A q \in Proc : pc[q] = "holding" => q = p
    BY <1>6 DEF Release
  <2> QED
    BY <1>6, <2>1 DEF Release
<1>7. ASSUME Tick PROVE CosmosOwned'
  <2>1. doc # NoDoc /\ doc' # NoDoc /\ doc'.by = doc.by /\ UNCHANGED pc
    BY <1>7, CosmosTicked
  <2> QED
    BY <2>1
<1>8. CASE UNCHANGED vars
  BY <1>8 DEF vars
<1> QED
  BY <1>1, <1>2, <1>3, <1>4, <1>5, <1>6, <1>7, <1>8 DEF Next, Acquiring

\* acquire_migration_lock answers True only to a client that found no document.
LEMMA CosmosStepHolders ==
  ASSUME TypeOK, CosmosOwned, [Next]_vars
  PROVE  [\E p \in Proc : \/ holders = {} /\ holders' = {p}
                          \/ p \in holders /\ holders' = holders \ {p}]_holders
<1> USE DEF TypeOK, CosmosOwned, holders, Goto
<1> DEFINE Changes(p) == \/ holders = {} /\ holders' = {p}
                         \/ p \in holders /\ holders' = holders \ {p}
<1>1. ASSUME NEW p \in Proc, CreateLock(p) \/ FallbackCreate(p) PROVE Changes(p)
  <2>1. NewDocument(p)
    BY <1>1 DEF CreateLock, FallbackCreate
  <2>2. doc = NoDoc /\ pc' = [pc EXCEPT ![p] = "holding"]
    BY <2>1, CosmosNewDocument
  <2>3. holders = {}
    BY <2>2
  <2>4. holders' = {p}
    BY <2>2, <2>3
  <2> QED
    BY <2>3, <2>4
<1>2. ASSUME NEW p \in Proc, Release(p) \/ Crash(p)
      PROVE Changes(p) \/ UNCHANGED holders
  <2>1. pc' = [pc EXCEPT ![p] = "idle"]
    BY <1>2 DEF Release, Crash
  <2>2. holders' = holders \ {p}
    BY <2>1
  <2> QED
    BY <2>2
<1>3. ASSUME NEW p \in Proc,
             StartAcquire(p) \/ ReadLock(p) \/ DeleteExpired(p) \/ DeleteRefused(p)
               \/ CreateConflict(p) \/ FallBack(p)
      PROVE UNCHANGED holders
  BY <1>3 DEF StartAcquire, ReadLock, DeleteExpired, DeleteRefused, CreateConflict,
              FallBack
<1>4. ASSUME NEW p \in Proc,
             FallbackConflict(p) \/ FallbackRead(p) \/ FallbackDelete(p) \/ Timeout(p)
      PROVE UNCHANGED holders
  BY <1>4 DEF FallbackConflict, FallbackRead, FallbackDelete, Timeout
<1>5. CASE Tick \/ UNCHANGED vars
  BY <1>5 DEF Tick, vars
<1> QED
  BY <1>1, <1>2, <1>3, <1>4, <1>5 DEF Next, Acquiring

\* The clients fall back as they like, but none of them deletes, in the fallback,
\* a document under which somebody works: the read that found an expired
\* document and the delete have no other client's delete and create in between.
NoLateDelete == [][CosmosTimelyDelete]_vars

\* Both protocols together implement the abstract migration lock in every run
\* in which no fallback deletes late, whichever clients take the fallback and
\* whenever: that delete is all that is wrong with the fallback.
THEOREM CosmosRefinement ==
  ASSUME MaxHold <= Expiry PROVE Spec /\ NoLateDelete => LockPromise
<1>1. Init => CosmosOwned /\ Lock!Init
  BY DEF Init, CosmosOwned, Lock!Init, holders
<1>2. CosmosIInv /\ CosmosOwned /\ [Next]_vars /\ [CosmosTimelyDelete]_vars => CosmosOwned'
  <2>1. CASE CosmosTimelyDelete
    BY <2>1, CosmosStepOwned
  <2>2. CASE UNCHANGED vars
    BY <2>2 DEF vars, CosmosOwned
  <2> QED
    BY <2>1, <2>2
<1>3. CosmosIInv /\ CosmosOwned /\ [Next]_vars => [Lock!Next]_holders
  BY CosmosStepHolders DEF CosmosIInv, Lock!Next, Lock!Acquire, Lock!Drop
<1> QED
  BY CosmosIInvInvariant, <1>1, <1>2, <1>3, PTL
     DEF Spec, NoLateDelete, LockPromise, Lock!Spec

-----------------------------------------------------------------------------
(* Nobody falls back. *)

CosmosNative ==
  fallback = {} =>
    /\ \A p \in Proc : pc[p] \in {"idle", "read", "create", "delete", "holding"}
    /\ CosmosOwned

LEMMA CosmosFallbackUnchanged == [Next]_vars => UNCHANGED fallback
  BY DEF Next, vars, Acquiring, Tick, StartAcquire, ReadLock, DeleteExpired,
         DeleteRefused,
         CreateLock, NewDocument, CreateConflict, FallBack, FallbackCreate,
         FallbackConflict, FallbackRead, FallbackDelete, Timeout, Release, Crash

LEMMA CosmosStepNative ==
  ASSUME MaxHold <= Expiry, CosmosIInv, CosmosNative, [Next]_vars
  PROVE  CosmosNative'
<1> SUFFICES ASSUME fallback = {}
             PROVE  /\ \A p \in Proc :
                         pc'[p] \in {"idle", "read", "create", "delete", "holding"}
                    /\ CosmosOwned'
  BY CosmosFallbackUnchanged DEF CosmosNative
<1> USE DEF CosmosNative
<1>1. CosmosTimelyDelete
  BY DEF CosmosTimelyDelete, FallbackDelete
<1>2. CosmosOwned'
  BY <1>1, CosmosStepOwned
<1>3. \A p \in Proc : pc'[p] \in {"idle", "read", "create", "delete", "holding"}
  BY DEF CosmosIInv, TypeOK, Goto, Next, vars, Acquiring, Tick, StartAcquire, ReadLock,
         DeleteExpired, DeleteRefused,
         CreateLock, NewDocument, CreateConflict, FallBack, FallbackCreate,
         FallbackConflict, FallbackRead, FallbackDelete, Timeout, Release, Crash
<1> QED
  BY <1>2, <1>3

\* The native protocol implements the abstract migration lock: at most one
\* client at a time is told by acquire_migration_lock that it holds the lock.
THEOREM CosmosNativeRefinement == ASSUME MaxHold <= Expiry PROVE Spec => NativePromise
<1> DEFINE held == {p \in holders : fallback = {}}
<1>1. Init => CosmosNative /\ NativeLock!Init
  BY DEF Init, CosmosNative, CosmosOwned, NativeLock!Init, holders
<1>2. CosmosIInv /\ CosmosNative /\ [Next]_vars => CosmosNative'
  BY CosmosStepNative
<1>3. CosmosIInv /\ CosmosNative /\ [Next]_vars => [NativeLock!Next]_held
  <2> SUFFICES ASSUME CosmosIInv, CosmosNative, [Next]_vars PROVE [NativeLock!Next]_held
    OBVIOUS
  <2>1. CASE fallback = {}
    <3>1. held = holders /\ held' = holders'
      BY <2>1, CosmosFallbackUnchanged
    <3>2. [\E p \in Proc : \/ holders = {} /\ holders' = {p}
                           \/ p \in holders /\ holders' = holders \ {p}]_holders
      BY <2>1, CosmosStepHolders DEF CosmosIInv, CosmosNative
    <3>3. [\E p \in Proc : \/ held = {} /\ held' = {p}
                           \/ p \in held /\ held' = held \ {p}]_held
      BY <3>1, <3>2
    <3> QED
      BY <3>3 DEF NativeLock!Next, NativeLock!Acquire, NativeLock!Drop
  <2>2. CASE fallback # {}
    BY <2>2, CosmosFallbackUnchanged
  <2> QED
    BY <2>1, <2>2
<1> QED
  BY CosmosIInvInvariant, <1>1, <1>2, <1>3, PTL DEF Spec, NativePromise, NativeLock!Spec

-----------------------------------------------------------------------------
(***************************************************************************)
(* Oracle's session lock, and its table where nobody has the session lock, *)
(* are a migration lock for any number of clients and crashes and any      *)
(* mixture of clients.                                                     *)
(***************************************************************************)

LEMMA OracleInitTyped ==
  ASSUME Oracle!OracleAssumption PROVE Oracle!Init => Oracle!TypeOK
  BY Oracle!OracleAssumption DEF Oracle!Init, Oracle!TypeOK

LEMMA OracleStepTyped ==
  ASSUME Oracle!OracleAssumption
  PROVE  Oracle!TypeOK /\ [Oracle!Next]_(Oracle!vars) => Oracle!TypeOK'
<1> SUFFICES ASSUME Oracle!TypeOK, [Oracle!Next]_(Oracle!vars) PROVE Oracle!TypeOK'
  OBVIOUS
<1> USE Oracle!OracleAssumption DEF Oracle!TypeOK, Oracle!Goto
<1>1. ASSUME NEW p \in Proc, Oracle!StartAcquire(p) \/ Oracle!RequestGranted(p)
                             \/ Oracle!RequestTimeout(p)
      PROVE Oracle!TypeOK'
  BY <1>1 DEF Oracle!StartAcquire, Oracle!RequestGranted, Oracle!RequestTimeout
<1>2. ASSUME NEW p \in Proc, Oracle!RequestFails(p) \/ Oracle!InsertRow(p)
                             \/ Oracle!InsertFails(p)
      PROVE Oracle!TypeOK'
  BY <1>2 DEF Oracle!RequestFails, Oracle!InsertRow, Oracle!InsertFails
<1>3. ASSUME NEW p \in Proc, Oracle!Release(p) \/ Oracle!Crash(p) PROVE Oracle!TypeOK'
  BY <1>3 DEF Oracle!Release, Oracle!Crash
<1>4. CASE UNCHANGED Oracle!vars
  BY <1>4 DEF Oracle!vars
<1> QED
  BY <1>1, <1>2, <1>3, <1>4 DEF Oracle!Next, Oracle!Step

\* Type correctness of acquire_migration_lock, _acquire_table_lock and
\* release_migration_lock of the Oracle provider.
THEOREM OracleTyping ==
  ASSUME Oracle!OracleAssumption PROVE Oracle!Spec => []Oracle!TypeOK
  BY OracleInitTyped, OracleStepTyped, PTL DEF Oracle!Spec

\* A holder with DBMS_LOCK has locked its session, and knows it by its handle;
\* nobody with DBMS_LOCK is on the way to the table; where nobody has it, a
\* holder has inserted the row.
OracleLocked ==
  \A p \in Proc :
    /\ pc[p] = "holding" /\ p \in grant => session = p /\ p \in handle
    /\ pc[p] = "insert" => p \notin grant
    /\ grant = {} => session = NoProc /\ (pc[p] = "holding" => inserter = p)

OracleIInv == Oracle!TypeOK /\ OracleLocked

LEMMA OracleStepLocked ==
  ASSUME Oracle!OracleAssumption, OracleIInv, [Oracle!Next]_(Oracle!vars)
  PROVE  OracleLocked'
<1> USE Oracle!OracleAssumption DEF OracleIInv, Oracle!TypeOK, OracleLocked, Oracle!Goto
<1>1. ASSUME NEW p \in Proc, Oracle!StartAcquire(p) \/ Oracle!RequestTimeout(p)
                             \/ Oracle!RequestFails(p) \/ Oracle!InsertFails(p)
      PROVE OracleLocked'
  BY <1>1 DEF Oracle!StartAcquire, Oracle!RequestTimeout, Oracle!RequestFails,
              Oracle!InsertFails
<1>2. ASSUME NEW p \in Proc, Oracle!RequestGranted(p) PROVE OracleLocked'
  <2>1. p \in grant /\ \A q \in grant : pc[q] = "holding" => q = p
    BY <1>2 DEF Oracle!RequestGranted
  <2> QED
    BY <1>2, <2>1 DEF Oracle!RequestGranted
<1>3. ASSUME NEW p \in Proc, Oracle!InsertRow(p) PROVE OracleLocked'
  <2>1. p \notin grant /\ (grant = {} => \A q \in Proc : pc[q] # "holding")
    BY <1>3 DEF Oracle!InsertRow
  <2> QED
    BY <1>3, <2>1 DEF Oracle!InsertRow
<1>4. ASSUME NEW p \in Proc, Oracle!Release(p) PROVE OracleLocked'
  <2>1. grant = {} => \A q \in Proc : pc[q] = "holding" => q = p
    BY <1>4 DEF Oracle!Release
  <2> QED
    BY <1>4, <2>1 DEF Oracle!Release
<1>5. ASSUME NEW p \in Proc, Oracle!Crash(p) PROVE OracleLocked'
  BY <1>5 DEF Oracle!Crash
<1>6. CASE UNCHANGED Oracle!vars
  BY <1>6 DEF Oracle!vars
<1> QED
  BY <1>1, <1>2, <1>3, <1>4, <1>5, <1>6 DEF Oracle!Next, Oracle!Step

LEMMA OracleIInvInvariant ==
  ASSUME Oracle!OracleAssumption PROVE Oracle!Spec => []OracleIInv
<1>1. Oracle!Init => OracleIInv
  BY OracleInitTyped DEF Oracle!Init, OracleIInv, OracleLocked
<1>2. OracleIInv /\ [Oracle!Next]_(Oracle!vars) => OracleIInv'
  BY OracleStepTyped, OracleStepLocked DEF OracleIInv
<1> QED
  BY <1>1, <1>2, PTL DEF Oracle!Spec

\* The holders of whom something is promised.
OracleShared == {p \in holders : p \in grant \/ grant = {}}

LEMMA OracleStepShared ==
  ASSUME Oracle!OracleAssumption, OracleIInv, [Oracle!Next]_(Oracle!vars)
  PROVE  [SharedLock!Next]_OracleShared /\ UNCHANGED grant
<1> USE Oracle!OracleAssumption DEF OracleIInv, Oracle!TypeOK, OracleLocked, OracleShared,
                                    holders, Oracle!Goto
<1> DEFINE Goal == [SharedLock!Next]_OracleShared /\ UNCHANGED grant
<1>1. ASSUME NEW p \in Proc, Oracle!RequestGranted(p) PROVE Goal
  <2>1. OracleShared = {}
    BY <1>1 DEF Oracle!RequestGranted
  <2>2. OracleShared' = {p} /\ UNCHANGED grant
    BY <1>1, <2>1 DEF Oracle!RequestGranted
  <2> QED
    BY <2>1, <2>2 DEF SharedLock!Acquire, SharedLock!Next
<1>2. ASSUME NEW p \in Proc, Oracle!InsertRow(p) PROVE Goal
  <2>1. CASE grant = {}
    <3>1. OracleShared = {}
      BY <1>2, <2>1 DEF Oracle!InsertRow
    <3>2. OracleShared' = {p} /\ UNCHANGED grant
      BY <1>2, <2>1, <3>1 DEF Oracle!InsertRow
    <3> QED
      BY <3>1, <3>2 DEF SharedLock!Acquire, SharedLock!Next
  <2>2. CASE grant # {}
    BY <1>2, <2>2 DEF Oracle!InsertRow
  <2> QED
    BY <2>1, <2>2
<1>3. ASSUME NEW p \in Proc, Oracle!Release(p) \/ Oracle!Crash(p) PROVE Goal
  <2>1. UNCHANGED grant /\ OracleShared' = OracleShared \ {p}
    BY <1>3 DEF Oracle!Release, Oracle!Crash
  <2>2. SharedLock!Drop(p) \/ UNCHANGED OracleShared
    BY <2>1 DEF SharedLock!Drop
  <2> QED
    BY <2>1, <2>2 DEF SharedLock!Next
<1>4. ASSUME NEW p \in Proc, Oracle!StartAcquire(p) \/ Oracle!RequestTimeout(p)
                             \/ Oracle!RequestFails(p) \/ Oracle!InsertFails(p)
      PROVE Goal
  BY <1>4 DEF Oracle!StartAcquire, Oracle!RequestTimeout, Oracle!RequestFails,
              Oracle!InsertFails
<1>5. CASE UNCHANGED Oracle!vars
  BY <1>5 DEF Oracle!vars
<1> QED
  BY <1>1, <1>2, <1>3, <1>4, <1>5 DEF Oracle!Next, Oracle!Step

\* Clients for which DBMS_LOCK works exclude each other whatever the others do,
\* the release of a session lock never being another client's; and where it
\* works for none, acquire_migration_lock answers True to one at a time.
THEOREM OracleMixedRefinement ==
  ASSUME Oracle!OracleAssumption PROVE Oracle!Spec => MixedPromise
<1>1. Oracle!Init => SharedLock!Init
  BY DEF Oracle!Init, SharedLock!Init, holders
<1>2. OracleIInv /\ [Oracle!Next]_(Oracle!vars) => [SharedLock!Next]_OracleShared
  BY OracleStepShared
<1> QED
  BY OracleIInvInvariant, <1>1, <1>2, PTL
     DEF Oracle!Spec, MixedPromise, SharedLock!Spec, OracleShared

\* One mechanism for all.
OracleUniform == Granted \subseteq {{}, Proc}

\* Either mechanism, used by all clients, implements the abstract migration
\* lock: at most one client at a time is told by acquire_migration_lock that it
\* holds the lock.
THEOREM OracleRefinement ==
  ASSUME Oracle!OracleAssumption, OracleUniform PROVE Oracle!Spec => LockPromise
<1>1. Oracle!Init => Lock!Init
  BY DEF Oracle!Init, Lock!Init, holders
<1>2. OracleIInv => OracleShared = holders
  BY DEF OracleIInv, Oracle!TypeOK, OracleUniform, OracleShared, holders
<1>3. OracleIInv /\ OracleIInv' /\ [Oracle!Next]_(Oracle!vars) => [Lock!Next]_holders
  <2> SUFFICES ASSUME OracleIInv, OracleIInv', [Oracle!Next]_(Oracle!vars)
               PROVE  [Lock!Next]_holders
    OBVIOUS
  <2>1. OracleShared = holders /\ OracleShared' = holders'
    BY <1>2 DEF OracleIInv, Oracle!TypeOK, OracleUniform, OracleShared, holders
  <2>2. [SharedLock!Next]_OracleShared
    BY OracleStepShared
  <2>3. ASSUME NEW p \in Proc, SharedLock!Acquire(p) \/ SharedLock!Drop(p)
        PROVE  Lock!Acquire(p) \/ Lock!Drop(p)
    BY <2>1, <2>3 DEF SharedLock!Acquire, SharedLock!Drop, Lock!Acquire, Lock!Drop,
                      OracleShared
  <2> QED
    BY <2>1, <2>2, <2>3 DEF SharedLock!Next, Lock!Next
<1> QED
  BY OracleIInvInvariant, <1>1, <1>3, PTL DEF Oracle!Spec, LockPromise, Lock!Spec

\* Whatever the mechanisms, a client that has locked its session has a handle
\* for it, so that its release gives the session lock back.
OracleHandled ==
  crashes = 0 => \A p \in Proc : session = p => p \in handle

LEMMA OracleStepNoOrphan ==
  ASSUME Oracle!OracleAssumption, Oracle!TypeOK, NoOrphan, OracleHandled,
         [Oracle!Next]_(Oracle!vars)
  PROVE  (NoOrphan /\ OracleHandled)'
<1> USE Oracle!OracleAssumption DEF Oracle!TypeOK, NoOrphan, OracleHandled, Oracle!Goto
<1>1. ASSUME NEW p \in Proc, Oracle!StartAcquire(p) \/ Oracle!RequestTimeout(p)
                             \/ Oracle!RequestFails(p) \/ Oracle!InsertFails(p)
      PROVE (NoOrphan /\ OracleHandled)'
  BY <1>1 DEF Oracle!StartAcquire, Oracle!RequestTimeout, Oracle!RequestFails,
              Oracle!InsertFails
<1>2. ASSUME NEW p \in Proc, Oracle!RequestGranted(p) PROVE (NoOrphan /\ OracleHandled)'
  BY <1>2 DEF Oracle!RequestGranted
<1>3. ASSUME NEW p \in Proc, Oracle!InsertRow(p) PROVE (NoOrphan /\ OracleHandled)'
  <2>1. crashes = 0 => session # p
    BY <1>3 DEF Oracle!InsertRow
  <2> QED
    BY <1>3, <2>1 DEF Oracle!InsertRow
<1>4. ASSUME NEW p \in Proc, Oracle!Release(p) PROVE (NoOrphan /\ OracleHandled)'
  BY <1>4 DEF Oracle!Release
<1>5. ASSUME NEW p \in Proc, Oracle!Crash(p) PROVE (NoOrphan /\ OracleHandled)'
  BY <1>5 DEF Oracle!Crash
<1>6. CASE UNCHANGED Oracle!vars
  BY <1>6 DEF Oracle!vars
<1> QED
  BY <1>1, <1>2, <1>3, <1>4, <1>5, <1>6 DEF Oracle!Next, Oracle!Step

\* While nobody crashes, neither a session lock nor a lock row is left without
\* a client that works under it, even if clients use both mechanisms at once.
THEOREM OracleNothingLeft ==
  ASSUME Oracle!OracleAssumption PROVE Oracle!Spec => []NoOrphan
<1>1. Oracle!Init => NoOrphan /\ OracleHandled
  BY Oracle!OracleAssumption DEF Oracle!Init, NoOrphan, OracleHandled
<1>2. Oracle!TypeOK /\ NoOrphan /\ OracleHandled /\ [Oracle!Next]_(Oracle!vars) =>
        (NoOrphan /\ OracleHandled)'
  BY OracleStepNoOrphan
<1> QED
  BY OracleTyping, <1>1, <1>2, PTL DEF Oracle!Spec
=============================================================================
