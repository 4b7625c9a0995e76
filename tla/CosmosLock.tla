----------------------------- MODULE CosmosLock -----------------------------
(***************************************************************************)
(* The Cosmos DB migration lock: one document that expires five minutes    *)
(* after its creation and is never renewed.  The native protocol reads the *)
(* document and deletes an expired one on condition that its etag is still *)
(* the one it read; the fallback, taken after any error or timeout of the  *)
(* native one, deletes without a condition.  Reading and deleting are      *)
(* requests of their own, so other clients act in between.                 *)
(*                                                                         *)
(* A document is its creator, its etag and its age.  A new document has an *)
(* etag that no client remembers, which is all that its uniqueness is good *)
(* for.  MaxHold bounds how long a live client works under the lock: the   *)
(* code has no such bound, its expiry time assumes one.                    *)
(***************************************************************************)
EXTENDS Naturals, ExpiringLock

CONSTANTS
  Expiry,      \* age from which a document counts as expired
  Fallbacks,   \* the sets of clients whose native protocol may give up
  Etag,        \* values of a document's _etag
  NoDoc

ASSUME CosmosAssumption ==
  /\ Expiry \in Nat /\ MaxHold \in Nat
  /\ MaxCrashes \in Nat
  /\ Fallbacks \subseteq SUBSET Proc
  /\ Etag # {}
  /\ NoDoc \notin [by : Proc, etag : Etag, age : Nat]

VARIABLES
  seen,    \* the etag of the expired document a client is about to delete
  doc,     \* the lock document, or NoDoc
  fallback \* clients that may lose patience with the native protocol

vars == <<pc, seen, doc, crashes, fallback>>

States == {"idle", "read", "create", "delete", "holding",
           "fbCreate", "fbRead", "fbDelete"}

TypeOK ==
  /\ pc \in [Proc -> States]
  /\ seen \in [Proc -> Etag]
  /\ doc \in [by : Proc, etag : Etag, age : 0 .. Expiry + 1] \cup {NoDoc}
  /\ crashes \in 0 .. MaxCrashes
  /\ fallback \in Fallbacks

Init ==
  /\ pc = [p \in Proc |-> "idle"]
  /\ seen = [p \in Proc |-> CHOOSE e \in Etag : TRUE]
  /\ doc = NoDoc
  /\ crashes = 0
  /\ fallback \in Fallbacks

Goto(p, state) == pc' = [pc EXCEPT ![p] = state]

\* Faulty Expired: the test is one tick too early.
ExpiredEarly == doc # NoDoc /\ doc.age >= Expiry

Expired == doc # NoDoc /\ doc.age > Expiry

StartAcquire(p) ==
  /\ pc[p] = "idle"
  /\ Goto(p, "read")
  /\ UNCHANGED <<seen, doc, crashes, fallback>>

-----------------------------------------------------------------------------
(* _try_native_lock_acquire *)

\* A document that has not expired: sleep and read again, a stutter here.
ReadLock(p) ==
  /\ pc[p] = "read"
  /\ \/ doc = NoDoc /\ Goto(p, "create") /\ UNCHANGED seen
     \/ Expired /\ Goto(p, "delete") /\ seen' = [seen EXCEPT ![p] = doc.etag]
  /\ UNCHANGED <<doc, crashes, fallback>>

\* Faulty DeleteExpired: the delete carries no etag.
DeleteUnconditionally(p) ==
  /\ pc[p] = "delete"
  /\ doc' = NoDoc
  /\ Goto(p, "read")
  /\ UNCHANGED <<seen, crashes, fallback>>

\* The conditional delete; 404 and 412 answers make no difference.
DeleteExpired(p) ==
  /\ pc[p] = "delete"
  /\ doc' = IF doc # NoDoc /\ doc.etag = seen[p] THEN NoDoc ELSE doc
  /\ Goto(p, "read")
  /\ UNCHANGED <<seen, crashes, fallback>>

\* The client library refuses the request: swallowed, read again.
DeleteRefused(p) ==
  /\ pc[p] = "delete"
  /\ Goto(p, "read")
  /\ UNCHANGED <<seen, doc, crashes, fallback>>

NewDocument(p) ==
  /\ doc = NoDoc
  /\ \E e \in Etag \ {seen[q] : q \in {r \in Proc : pc[r] = "delete"}} :
       doc' = [by |-> p, etag |-> e, age |-> 0]
  /\ Goto(p, "holding")
  /\ UNCHANGED <<seen, crashes, fallback>>

CreateLock(p) == pc[p] = "create" /\ NewDocument(p)

CreateConflict(p) ==
  /\ pc[p] = "create"
  /\ doc # NoDoc
  /\ Goto(p, "read")
  /\ UNCHANGED <<seen, doc, crashes, fallback>>

\* A read or create error, or the timeout of the native protocol.
FallBack(p) ==
  /\ pc[p] \in {"read", "create"}
  /\ p \in fallback
  /\ Goto(p, "fbCreate")
  /\ UNCHANGED <<seen, doc, crashes, fallback>>

-----------------------------------------------------------------------------
(* _acquire_document_based_lock *)

FallbackCreate(p) == pc[p] = "fbCreate" /\ NewDocument(p)

FallbackConflict(p) ==
  /\ pc[p] = "fbCreate"
  /\ doc # NoDoc
  /\ Goto(p, "fbRead")
  /\ UNCHANGED <<seen, doc, crashes, fallback>>

\* Not found, not expired, or an error: try to create again.
FallbackRead(p) ==
  /\ pc[p] = "fbRead"
  /\ Goto(p, IF Expired THEN "fbDelete" ELSE "fbCreate")
  /\ UNCHANGED <<seen, doc, crashes, fallback>>

\* Faulty FallbackDelete: an expired document is left alone.
FallbackDeleteForgotten(p) ==
  /\ pc[p] = "fbDelete"
  /\ Goto(p, "fbCreate")
  /\ UNCHANGED <<seen, doc, crashes, fallback>>

\* Whatever document is there by now is deleted.
FallbackDelete(p) ==
  /\ pc[p] = "fbDelete"
  /\ doc' = NoDoc
  /\ Goto(p, "fbCreate")
  /\ UNCHANGED <<seen, crashes, fallback>>

\* acquire_migration_lock returns False.
Timeout(p) ==
  /\ pc[p] = "fbCreate"
  /\ doc # NoDoc
  /\ Goto(p, "idle")
  /\ UNCHANGED <<seen, doc, crashes, fallback>>

-----------------------------------------------------------------------------
\* delete_item without a look at who created the document.
Release(p) ==
  /\ pc[p] = "holding"
  /\ doc' = NoDoc
  /\ Goto(p, "idle")
  /\ UNCHANGED <<seen, crashes, fallback>>

\* The holder crashes, or its delete raises and release answers False; a
\* client in any other state crashes too.  It may start over.
Crash(p) ==
  /\ pc[p] # "idle"
  /\ crashes < MaxCrashes
  /\ crashes' = crashes + 1
  /\ Goto(p, "idle")
  /\ UNCHANGED <<seen, doc, fallback>>

DocumentHeld == doc # NoDoc /\ pc[doc.by] = "holding"

Tick ==
  /\ doc # NoDoc
  /\ doc.age <= Expiry
  /\ DocumentHeld => doc.age < MaxHold
  /\ doc' = [doc EXCEPT !.age = @ + 1]
  /\ UNCHANGED <<pc, seen, crashes, fallback>>

Acquiring(p) ==
  \/ ReadLock(p) \/ DeleteExpired(p) \/ DeleteRefused(p)
  \/ CreateLock(p) \/ CreateConflict(p) \/ FallBack(p)
  \/ FallbackCreate(p) \/ FallbackConflict(p) \/ FallbackRead(p)
  \/ FallbackDelete(p) \/ Timeout(p)

Next ==
  \/ Tick
  \/ \E p \in Proc : StartAcquire(p) \/ Acquiring(p) \/ Release(p) \/ Crash(p)

Spec == Init /\ [][Next]_vars

\* Clocks advance, running clients go on, and the native protocol's errors
\* and timeouts, which always come in the end, lead to the fallback.
FairSpec ==
  /\ Spec
  /\ WF_vars(Tick)
  /\ \A p \in Proc : /\ WF_vars(StartAcquire(p))
                     /\ WF_vars(Acquiring(p)) /\ WF_vars(Release(p))
                     /\ SF_vars(FallBack(p))
                     /\ SF_vars(FallbackCreate(p)) /\ SF_vars(FallbackConflict(p))

-----------------------------------------------------------------------------
NativeLock == INSTANCE MigrationLock
                WITH holders <- {p \in holders : fallback = {}}

\* The native protocol is a migration lock as long as no client works under it
\* for longer than the expiry time.
NativePromise == NativeLock!Spec

\* The document of a client that alone holds the lock, and goes on holding it,
\* is lost in one way only: to the unconditional delete of a fallback that read
\* an older document.
HolderKeepsDocument ==
  [][\A p \in Proc :
       doc # NoDoc /\ doc.by = p /\ holders = {p} /\ p \in holders'
         => (doc' # NoDoc /\ doc'.by = p) \/ \E q \in Proc : FallbackDelete(q)]_vars

\* The document of a dead client is cleaned up in the end, were it only by the
\* fallback (the native deletes may all be refused).
OrphanDocumentCleaned ==
  (fallback = Proc /\ doc # NoDoc /\ ~DocumentHeld) ~> (doc = NoDoc \/ DocumentHeld)
=============================================================================
