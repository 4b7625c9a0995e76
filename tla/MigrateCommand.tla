--------------------------- MODULE MigrateCommand ---------------------------
(***************************************************************************)
(* `dblift migrate`, run by several processes against one schema whose     *)
(* migration lock belongs to a database session (PostgreSQL, MySQL,        *)
(* SQL Server, Oracle's DBMS_LOCK).  A process computes its pending        *)
(* scripts and validates them before it waits for the lock, reads the      *)
(* history again once it has it, and then executes one script after the    *)
(* other: the statements, the history row, the commit.                     *)
(*                                                                         *)
(* A script is a model value.  Versioned scripts come before repeatable    *)
(* ones and are ordered by version; contents do not change, so one         *)
(* checksum per script is enough.  Undo, repair and --mark-as-executed are *)
(* in HistoryCommands; without them a script has been executed exactly     *)
(* when history has a row of it.                                           *)
(***************************************************************************)
EXTENDS Naturals, Sequences

CONSTANTS
  Proc,        \* processes that run the command
  Script,      \* all scripts of all their script directories
  Repeatable,  \* the repeatable ones; the others are versioned
  Order,       \* position in execution order; the version, if versioned
  Stmts,       \* number of statements of each script
  RollsBack,   \* scripts executed in a transaction that undoes their DDL
  Visible,     \* scripts in each process's directories
  Strict,      \* --strict
  MaxFaults,   \* bound on the faults of each kind in a behaviour
  NoProc

FaultKinds == {"statement", "history", "callback", "crash", "drop"}

ASSUME MigrateAssumption ==
  /\ Repeatable \subseteq Script /\ RollsBack \subseteq Script
  /\ Order \in [Script -> Nat]
  /\ \A s, t \in Script : Order[s] = Order[t] => s = t
  /\ Stmts \in [Script -> Nat \ {0}]
  /\ Visible \in [Proc -> SUBSET Script]
  /\ Strict \in BOOLEAN
  /\ MaxFaults \in [FaultKinds -> Nat]
  /\ NoProc \notin Proc

VARIABLES
  pc,       \* where each process is in MigrateCommand.execute
  pending,  \* its pending_migrations
  done,     \* statements executed of the script it is at
  session,  \* is its connection the one that took the lock?
  lock,     \* the session lock of the database
  history,  \* committed rows of dblift_schema_history, by installed_rank
  effects,  \* committed statement executions of each script
  faults    \* faults so far

vars == <<pc, pending, done, session, lock, history, effects, faults>>

Row == [script : Script, ok : BOOLEAN]
Versioned == Script \ Repeatable
States == {"idle", "validate", "wait", "reload", "run", "fail", "release"}

TypeOK ==
  /\ pc \in [Proc -> States]
  /\ pending \in [Proc -> SUBSET Script]
  /\ done \in [Proc -> Nat]
  /\ session \in [Proc -> {"up", "down"}]
  /\ lock \in Proc \cup {NoProc}
  /\ history \in Seq(Row)
  /\ effects \in [Script -> Nat]
  /\ faults \in [FaultKinds -> Nat]
  /\ \A k \in FaultKinds : faults[k] <= MaxFaults[k]

Init ==
  /\ pc = [p \in Proc |-> "idle"]
  /\ pending = [p \in Proc |-> {}]
  /\ done = [p \in Proc |-> 0]
  /\ session = [p \in Proc |-> "up"]
  /\ lock = NoProc
  /\ history = <<>>
  /\ effects = [s \in Script |-> 0]
  /\ faults = [k \in FaultKinds |-> 0]

-----------------------------------------------------------------------------
(* What the command reads off the history table. *)

Recorded(s) == \E i \in DOMAIN history : history[i].script = s
Succeeded(s) == \E i \in DOMAIN history : history[i] = [script |-> s, ok |-> TRUE]
Failed(s) == \E i \in DOMAIN history : history[i] = [script |-> s, ok |-> FALSE]

\* Scripts that failed count as executed: migrate leaves them to repair.
PendingScripts(p) == {s \in Visible[p] : ~Recorded(s)}

\* StrictModeError: a pending version at or below the current version.
OutOfOrder(p) ==
  \E s \in PendingScripts(p) \ Repeatable, t \in Versioned :
    Succeeded(t) /\ Order[s] <= Order[t]

\* _validate_failed_migrations, and the repeatable scripts' own check, which
\* is all there is when the directories hold no versioned script.
ValidationFails(p) ==
  IF Visible[p] \subseteq Repeatable
    THEN \E s \in Visible[p] : Failed(s)
    ELSE \E s \in Script : Failed(s)

AlreadyApplied == {s \in Versioned : Succeeded(s)}

Goto(p, state) == pc' = [pc EXCEPT ![p] = state]

Fault(kind) ==
  /\ faults[kind] < MaxFaults[kind]
  /\ faults' = [faults EXCEPT ![kind] = @ + 1]

\* The database session of p ends: so does its lock.
Unlocked(p) == IF lock = p THEN NoProc ELSE lock

-----------------------------------------------------------------------------
(* Before the lock. *)

\* In strict mode an out-of-order version ends the command here.
BuildState(p) ==
  /\ pc[p] = "idle"
  /\ ~(Strict /\ OutOfOrder(p))
  /\ pending' = [pending EXCEPT ![p] = PendingScripts(p)]
  /\ Goto(p, "validate")
  /\ UNCHANGED <<done, session, lock, history, effects, faults>>

\* Faulty Validate: the command ends when there is something to do.
ValidateInverted(p) ==
  /\ pc[p] = "validate"
  /\ Goto(p, IF ValidationFails(p) \/ pending[p] # {} THEN "idle" ELSE "wait")
  /\ UNCHANGED <<pending, done, session, lock, history, effects, faults>>

\* The validator reads the history on its own.
Validate(p) ==
  /\ pc[p] = "validate"
  /\ Goto(p, IF ValidationFails(p) \/ pending[p] = {} THEN "idle" ELSE "wait")
  /\ UNCHANGED <<pending, done, session, lock, history, effects, faults>>

\* Faulty AtScript: the sort is the wrong way round.
AtScriptDescending(p, s) ==
  /\ s \in pending[p]
  /\ \A t \in pending[p] : Order[t] <= Order[s]

AtScript(p, s) ==
  /\ s \in pending[p]
  /\ \A t \in pending[p] : Order[s] <= Order[t]

\* Faulty RecordRow: the INSERT leaves out the success column.
RecordNull(s, success) == history' = Append(history, [script |-> s])

RecordRow(s, success) == history' = Append(history, [script |-> s, ok |-> success])

\* Faulty AcquireLock: the answer of the lock request is not looked at.
AcquireUnchecked(p) ==
  /\ pc[p] = "wait"
  /\ lock' = p
  /\ Goto(p, "reload")
  /\ UNCHANGED <<pending, done, session, history, effects, faults>>

AcquireLock(p) ==
  /\ pc[p] = "wait"
  /\ lock = NoProc
  /\ lock' = p
  /\ Goto(p, "reload")
  /\ UNCHANGED <<pending, done, session, history, effects, faults>>

LockTimeout(p) ==
  /\ pc[p] = "wait"
  /\ lock # NoProc
  /\ Goto(p, "idle")
  /\ UNCHANGED <<pending, done, session, lock, history, effects, faults>>

-----------------------------------------------------------------------------
(* Under the lock. *)

\* Faulty FilterAlreadyApplied: the code before BUG-01, no second look.
NoFilter(p) ==
  /\ pc[p] = "reload" /\ session[p] = "up"
  /\ Goto(p, "run")
  /\ UNCHANGED <<pending, done, session, lock, history, effects, faults>>

\* BUG-01: drop the versions that another process applied meanwhile.
FilterAlreadyApplied(p) ==
  /\ pc[p] = "reload" /\ session[p] = "up"
  /\ pending' = [pending EXCEPT ![p] = @ \ AlreadyApplied]
  /\ Goto(p, IF pending[p] \subseteq AlreadyApplied THEN "release" ELSE "run")
  /\ UNCHANGED <<done, session, lock, history, effects, faults>>

\* The history cannot be read, or a callback before or after a script or the
\* whole run raises: no more scripts are executed.
AbortRun(p) ==
  /\ pc[p] \in {"reload", "run"} /\ done[p] = 0
  /\ \/ session[p] = "down" /\ UNCHANGED faults
     \/ Fault("callback")
  /\ Goto(p, "release")
  /\ UNCHANGED <<pending, done, session, lock, history, effects>>

\* Faulty ExecuteStatement: after a lost connection it goes on with a new one.
ExecuteReconnected(p, s) ==
  /\ pc[p] = "run"
  /\ AtScript(p, s)
  /\ done[p] < Stmts[s]
  /\ done' = [done EXCEPT ![p] = @ + 1]
  /\ effects' = IF s \in RollsBack THEN effects ELSE [effects EXCEPT ![s] = @ + 1]
  /\ session' = [session EXCEPT ![p] = "up"]
  /\ UNCHANGED <<pc, pending, lock, history, faults>>

\* Without a transaction that covers it, a statement commits at once.
ExecuteStatement(p, s) ==
  /\ pc[p] = "run" /\ session[p] = "up"
  /\ AtScript(p, s)
  /\ done[p] < Stmts[s]
  /\ done' = [done EXCEPT ![p] = @ + 1]
  /\ effects' = IF s \in RollsBack THEN effects ELSE [effects EXCEPT ![s] = @ + 1]
  /\ UNCHANGED <<pc, pending, session, lock, history, faults>>

\* The statement, or the probe before it, raises; the transaction is rolled
\* back, and a lost connection is replaced by a new one.
StatementFails(p, s) ==
  /\ pc[p] = "run"
  /\ AtScript(p, s)
  /\ done[p] < Stmts[s]
  /\ \/ session[p] = "down" /\ UNCHANGED faults
     \/ session[p] = "up" /\ Fault("statement")
  /\ Goto(p, "fail")
  /\ UNCHANGED <<pending, done, session, lock, history, effects>>

\* The FAILED row has a transaction of its own, on whatever connection there is.
RecordFailure(p, s) ==
  /\ pc[p] = "fail"
  /\ AtScript(p, s)
  /\ RecordRow(s, FALSE)
  /\ Goto(p, "release")
  /\ UNCHANGED <<pending, done, session, lock, effects, faults>>

RecordFailureFails(p) ==
  /\ pc[p] = "fail"
  /\ Fault("history")
  /\ Goto(p, "release")
  /\ UNCHANGED <<pending, done, session, lock, history, effects>>

\* The history row becomes durable, together with the statements when these
\* are in the same transaction.
RowCommitted(s) ==
  /\ RecordRow(s, TRUE)
  /\ effects' = IF s \in RollsBack THEN [effects EXCEPT ![s] = @ + Stmts[s]] ELSE effects

\* Faulty CommitScript: the row is written before the last statement.
CommitEarly(p, s) ==
  /\ pc[p] = "run" /\ session[p] = "up"
  /\ AtScript(p, s)
  /\ done[p] >= Stmts[s] - 1
  /\ RowCommitted(s)
  /\ pending' = [pending EXCEPT ![p] = @ \ {s}]
  /\ done' = [done EXCEPT ![p] = 0]
  /\ Goto(p, IF pending[p] = {s} THEN "release" ELSE "run")
  /\ UNCHANGED <<session, lock, faults>>

CommitScript(p, s) ==
  /\ pc[p] = "run" /\ session[p] = "up"
  /\ AtScript(p, s)
  /\ done[p] = Stmts[s]
  /\ RowCommitted(s)
  /\ pending' = [pending EXCEPT ![p] = @ \ {s}]
  /\ done' = [done EXCEPT ![p] = 0]
  /\ Goto(p, IF pending[p] = {s} THEN "release" ELSE "run")
  /\ UNCHANGED <<session, lock, faults>>

\* Faulty CommitFails: no rollback, so the next commit takes the statements along.
CommitFailsNoRollback(p, s) ==
  /\ pc[p] = "run"
  /\ AtScript(p, s)
  /\ done[p] = Stmts[s]
  /\ Fault("history")
  /\ effects' = [effects EXCEPT ![s] = @ + Stmts[s]]
  /\ Goto(p, "release")
  /\ UNCHANGED <<pending, done, session, lock, history>>

\* Inserting the row or committing it raises: rollback, and no FAILED row.
CommitFails(p, s) ==
  /\ pc[p] = "run"
  /\ AtScript(p, s)
  /\ done[p] = Stmts[s]
  /\ \/ session[p] = "down" /\ UNCHANGED faults
     \/ session[p] = "up" /\ Fault("history")
  /\ Goto(p, "release")
  /\ UNCHANGED <<pending, done, session, lock, history, effects>>

\* The connection is lost after the commit and before its answer.
CommitUnanswered(p, s) ==
  /\ pc[p] = "run" /\ session[p] = "up"
  /\ AtScript(p, s)
  /\ done[p] = Stmts[s]
  /\ Fault("drop")
  /\ RowCommitted(s)
  /\ session' = [session EXCEPT ![p] = "down"]
  /\ lock' = Unlocked(p)
  /\ Goto(p, "release")
  /\ UNCHANGED <<pending, done>>

\* Faulty ReleaseLock: the release is not in a finally block.
ReleaseAfterSuccess(p) ==
  /\ pc[p] = "release"
  /\ lock' = IF pending[p] = {} THEN Unlocked(p) ELSE lock
  /\ pending' = [pending EXCEPT ![p] = {}]
  /\ done' = [done EXCEPT ![p] = 0]
  /\ session' = [session EXCEPT ![p] = "up"]
  /\ Goto(p, "idle")
  /\ UNCHANGED <<history, effects, faults>>

\* The finally block.  A release that raises is only logged: the lock then ends
\* with the session, when the command's process does.
ReleaseLock(p) ==
  /\ pc[p] = "release"
  /\ lock' = Unlocked(p)
  /\ pending' = [pending EXCEPT ![p] = {}]
  /\ done' = [done EXCEPT ![p] = 0]
  /\ session' = [session EXCEPT ![p] = "up"]
  /\ Goto(p, "idle")
  /\ UNCHANGED <<history, effects, faults>>

-----------------------------------------------------------------------------
(* The environment. *)

\* The process dies, its session with it, or the command ends with an error
\* before it has the lock; somebody may start it again.
Crash(p) ==
  /\ pc[p] # "idle"
  /\ Fault("crash")
  /\ lock' = Unlocked(p)
  /\ pending' = [pending EXCEPT ![p] = {}]
  /\ done' = [done EXCEPT ![p] = 0]
  /\ session' = [session EXCEPT ![p] = "up"]
  /\ Goto(p, "idle")
  /\ UNCHANGED <<history, effects>>

\* The server ends the session of the lock holder; the process goes on.
SessionDrop(p) ==
  /\ lock = p
  /\ Fault("drop")
  /\ lock' = NoProc
  /\ session' = [session EXCEPT ![p] = "down"]
  /\ UNCHANGED <<pc, pending, done, history, effects>>

Command(p) ==
  \/ BuildState(p) \/ Validate(p)
  \/ AcquireLock(p) \/ LockTimeout(p) \/ FilterAlreadyApplied(p) \/ AbortRun(p)
  \/ RecordFailureFails(p) \/ ReleaseLock(p)
  \/ \E s \in Script :
       \/ ExecuteStatement(p, s) \/ StatementFails(p, s) \/ RecordFailure(p, s)
       \/ CommitScript(p, s) \/ CommitFails(p, s) \/ CommitUnanswered(p, s)

Next == \E p \in Proc : Command(p) \/ Crash(p) \/ SessionDrop(p)

Spec == Init /\ [][Next]_vars

\* Every process that has begun the command goes on with it, and the command
\* is run again and again.
FairSpec == Spec /\ \A p \in Proc : WF_vars(Command(p))
-----------------------------------------------------------------------------
Successes(s) == {i \in DOMAIN history : history[i] = [script |-> s, ok |-> TRUE]}

\* However many processes migrate and however they fail, the history never
\* holds two successful rows of one version (_filter_already_applied:
\* "that pair must be unique across history rows").
NoDuplicateSuccess == \A s \in Versioned : \A i, j \in Successes(s) : i = j

\* The statements of a script that rolls back are in the database exactly when
\* its history row is: none without the row, none twice, none missing.
AtomicMigration ==
  \A s \in RollsBack \ Repeatable :
    effects[s] = IF Succeeded(s) THEN Stmts[s] ELSE 0

\* Under autocommit the row still never runs ahead of the statements.
RowAfterStatements ==
  \A s \in Versioned : Succeeded(s) => effects[s] >= Stmts[s]

\* While no session is lost, no FAILED row follows the success of its version:
\* a waiter does not run again what another process has just applied.
NoFailureAfterSuccess ==
  faults["drop"] = 0 =>
    \A s \in Versioned : \A i, j \in DOMAIN history :
      (i \in Successes(s) /\ history[j].script = s /\ ~history[j].ok) => j < i

\* Strict mode applies versions in ascending order, for all processes together.
StrictOrder ==
  Strict => \A s, t \in Versioned : \A i \in Successes(s), j \in Successes(t) :
              i < j => Order[s] < Order[t]

Promised == INSTANCE Deployment
              WITH Version <- Versioned, Whole <- RollsBack \ Repeatable,
                   deployed <- AlreadyApplied,
                   executed <- [s \in Versioned |-> effects[s]]

\* All processes together deploy each version once: in order if strict, as a
\* whole if it can roll back, and from its success on no process executes a
\* statement of it (BUG-01), not even one that lost its session, and the lock,
\* in the middle of the script.
DeploymentPromise == Promised!Spec

\* The lock never stays with one process: each holder gives it back.
LockGivenBack == \A p \in Proc : lock = p ~> lock # p

\* In the end every script of every process is in the history, unless a FAILED
\* row waits for repair: no lost commit, crash or dropped session leaves the
\* processes waiting for each other or a version forgotten.
EventuallySettled ==
  <>[]((\E s \in Script : Failed(s)) \/ \A p \in Proc : PendingScripts(p) = {})
=============================================================================
