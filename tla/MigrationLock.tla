--------------------------- MODULE MigrationLock ---------------------------
(***************************************************************************)
(* What every provider promises about the migration lock, whatever it is   *)
(* built from: acquire_migration_lock answers True to at most one client   *)
(* at a time, and a client stops holding the lock when it releases it or   *)
(* when its session or process dies.                                       *)
(***************************************************************************)
CONSTANT Proc

VARIABLE holders   \* clients told True and not yet released (or dead)

TypeOK == holders \subseteq Proc

Init == holders = {}

Acquire(p) == holders = {} /\ holders' = {p}

Drop(p) == p \in holders /\ holders' = holders \ {p}

Next == \E p \in Proc : Acquire(p) \/ Drop(p)

Spec == Init /\ [][Next]_holders
=============================================================================
