------------------------ MODULE MigrateCommand_proofs ------------------------
(***************************************************************************)
(* Safety of `dblift migrate` for any number of processes, scripts,        *)
(* statements and faults.                                                  *)
(*                                                                         *)
(* The argument: a process that may still write success has an open        *)
(* session, hence the lock; the lock has one holder; and the look at the   *)
(* history after the lock has dropped every version applied before, to     *)
(* which only the holder itself can add.                                   *)
(***************************************************************************)
EXTENDS MigrateCommand, TLAPS

\* A process under way whose session lives has the lock.
LockHeld ==
  \A p \in Proc :
    (pc[p] \in {"reload", "run", "fail"} /\ session[p] = "up") => lock = p

\* What it still has to execute has not succeeded yet.
Unapplied ==
  \A p \in Proc :
    (pc[p] \in {"run", "fail"} /\ session[p] = "up")
      => \A s \in pending[p] \ Repeatable : ~Succeeded(s)

\* The statements it has counted are in the database, unless they can roll back.
Counted ==
  \A p \in Proc :
    /\ pc[p] \notin {"run", "fail", "release"} => done[p] = 0
    /\ pc[p] = "run" =>
         \A s \in Script \ RollsBack : AtScript(p, s) => effects[s] >= done[p]

IInv == TypeOK /\ LockHeld /\ Unapplied /\ Counted
-----------------------------------------------------------------------------
(* Lemmas about the history and about the bookkeeping operators. *)

\* Appending to a sequence adds its last index, and no other, to those at which
\* a given element is found.
LEMMA AppendWhere ==
  ASSUME NEW T, NEW h \in Seq(T), NEW x \in T, NEW r, NEW i
  PROVE  (i \in DOMAIN Append(h, x) /\ Append(h, x)[i] = r)
           <=> \/ i \in DOMAIN h /\ h[i] = r
               \/ i = Len(h) + 1 /\ x = r
<1> DEFINE n == Len(h)
           g == Append(h, x)
<1>1. /\ n \in Nat
      /\ DOMAIN h = 1 .. n /\ DOMAIN g = 1 .. (n + 1)
      /\ \A k \in 1 .. n : g[k] = h[k]
      /\ g[n + 1] = x
  OBVIOUS
<1> HIDE DEF n, g
<1>2. (i \in DOMAIN g /\ g[i] = r) <=> \/ i \in DOMAIN h /\ h[i] = r
                                       \/ i = n + 1 /\ x = r
  <2>1. i \in 1 .. (n + 1) <=> (i \in 1 .. n \/ i = n + 1)
    BY <1>1
  <2>2. n + 1 \notin 1 .. n
    BY <1>1
  <2>3. CASE i \in 1 .. n
    <3>1. g[i] = h[i] /\ i # n + 1
      BY <1>1, <2>2, <2>3
    <3>2. i \in DOMAIN g /\ i \in DOMAIN h
      BY <1>1, <2>1, <2>3
    <3> QED
      BY <3>1, <3>2
  <2>4. CASE i = n + 1
    <3>1. g[i] = x /\ i \notin DOMAIN h /\ i \in DOMAIN g
      BY <1>1, <2>1, <2>2, <2>4
    <3> QED
      BY <2>4, <3>1
  <2>5. CASE i \notin 1 .. (n + 1)
    BY <1>1, <2>1, <2>5
  <2> QED
    BY <2>1, <2>3, <2>4, <2>5
<1> QED
  BY <1>2 DEF n, g

LEMMA AppendRow ==
  ASSUME history \in Seq(Row), NEW s \in Script, NEW ok \in BOOLEAN, RecordRow(s, ok)
  PROVE  /\ history' \in Seq(Row)
         /\ Len(history') = Len(history) + 1
         /\ \A r, i : (i \in DOMAIN history' /\ history'[i] = r)
                      <=> \/ i \in DOMAIN history /\ history[i] = r
                          \/ i = Len(history) + 1 /\ r = [script |-> s, ok |-> ok]
<1> DEFINE x == [script |-> s, ok |-> ok]
<1>1. x \in Row /\ history' = Append(history, x)
  BY DEF RecordRow, Row
<1> HIDE DEF x
<1>2. \A r, i : (i \in DOMAIN history' /\ history'[i] = r)
               <=> \/ i \in DOMAIN history /\ history[i] = r
                   \/ i = Len(history) + 1 /\ r = x
  BY <1>1, AppendWhere
<1>3. history' \in Seq(Row) /\ Len(history') = Len(history) + 1
  BY <1>1
<1> QED
  BY <1>2, <1>3 DEF x

LEMMA AppendSuccess ==
  ASSUME history \in Seq(Row), NEW s \in Script, RecordRow(s, TRUE), NEW t \in Script
  PROVE  /\ Succeeded(t)' <=> (Succeeded(t) \/ t = s)
         /\ \A i : i \in Successes(t)'
                   <=> (i \in Successes(t) \/ (t = s /\ i = Len(history) + 1))
<1>1. [script |-> t, ok |-> TRUE] = [script |-> s, ok |-> TRUE] <=> t = s
  OBVIOUS
<1>2. \A i : i \in Successes(t)'
            <=> (i \in Successes(t) \/ (t = s /\ i = Len(history) + 1))
  <2>1. \A r, i : (i \in DOMAIN history' /\ history'[i] = r)
                 <=> \/ i \in DOMAIN history /\ history[i] = r
                     \/ i = Len(history) + 1 /\ r = [script |-> s, ok |-> TRUE]
    BY AppendRow
  <2>2. \A i : i \in Successes(t)' <=> (i \in DOMAIN history' /\ history'[i] = [script |-> t, ok |-> TRUE])
    BY DEF Successes
  <2>3. \A i : i \in Successes(t) <=> (i \in DOMAIN history /\ history[i] = [script |-> t, ok |-> TRUE])
    BY DEF Successes
  <2> QED
    <3> DEFINE r == [script |-> t, ok |-> TRUE]
               x == [script |-> s, ok |-> TRUE]
    <3>1. r = x <=> t = s
      BY <1>1
    <3>2. \A i : i \in Successes(t)' <=> (i \in DOMAIN history' /\ history'[i] = r)
      BY <2>2
    <3>3. \A i : i \in Successes(t) <=> (i \in DOMAIN history /\ history[i] = r)
      BY <2>3
    <3>4. \A i : (i \in DOMAIN history' /\ history'[i] = r)
                <=> \/ i \in DOMAIN history /\ history[i] = r
                    \/ i = Len(history) + 1 /\ r = x
      BY <2>1
    <3> HIDE DEF r, x
    <3> QED
      BY <3>1, <3>2, <3>3, <3>4
<1>3. (Succeeded(t) <=> \E i : i \in Successes(t))
      /\ (Succeeded(t)' <=> \E i : i \in Successes(t)')
  BY DEF Succeeded, Successes
<1> QED
  BY <1>2, <1>3

LEMMA AppendFailure ==
  ASSUME history \in Seq(Row), NEW s \in Script, RecordRow(s, FALSE), NEW t \in Script
  PROVE  /\ Succeeded(t)' <=> Succeeded(t)
         /\ \A i : i \in Successes(t)' <=> i \in Successes(t)
<1>1. [script |-> t, ok |-> TRUE] # [script |-> s, ok |-> FALSE]
  OBVIOUS
<1>2. \A i : i \in Successes(t)' <=> i \in Successes(t)
  <2>1. \A r, i : (i \in DOMAIN history' /\ history'[i] = r)
                 <=> \/ i \in DOMAIN history /\ history[i] = r
                     \/ i = Len(history) + 1 /\ r = [script |-> s, ok |-> FALSE]
    BY AppendRow
  <2>2. \A i : i \in Successes(t)' <=> (i \in DOMAIN history' /\ history'[i] = [script |-> t, ok |-> TRUE])
    BY DEF Successes
  <2>3. \A i : i \in Successes(t) <=> (i \in DOMAIN history /\ history[i] = [script |-> t, ok |-> TRUE])
    BY DEF Successes
  <2> QED
    <3> DEFINE r == [script |-> t, ok |-> TRUE]
               x == [script |-> s, ok |-> FALSE]
    <3>1. r = x <=> FALSE
      BY <1>1
    <3>2. \A i : i \in Successes(t)' <=> (i \in DOMAIN history' /\ history'[i] = r)
      BY <2>2
    <3>3. \A i : i \in Successes(t) <=> (i \in DOMAIN history /\ history[i] = r)
      BY <2>3
    <3>4. \A i : (i \in DOMAIN history' /\ history'[i] = r)
                <=> \/ i \in DOMAIN history /\ history[i] = r
                    \/ i = Len(history) + 1 /\ r = x
      BY <2>1
    <3> HIDE DEF r, x
    <3> QED
      BY <3>1, <3>2, <3>3, <3>4
<1>3. (Succeeded(t) <=> \E i : i \in Successes(t))
      /\ (Succeeded(t)' <=> \E i : i \in Successes(t)')
  BY DEF Succeeded, Successes
<1> QED
  BY <1>2, <1>3

LEMMA FaultTyped ==
  ASSUME TypeOK, NEW kind \in FaultKinds, Fault(kind)
  PROVE  /\ faults' \in [FaultKinds -> Nat]
         /\ \A k \in FaultKinds : faults'[k] <= MaxFaults[k]
<1>1. faults[kind] + 1 <= MaxFaults[kind]
  <2>1. faults[kind] \in Nat /\ faults[kind] < MaxFaults[kind]
    BY DEF TypeOK, Fault
  <2>2. MaxFaults[kind] \in Nat
    BY MigrateAssumption
  <2> QED
    BY <2>1, <2>2
<1>2. faults' = [faults EXCEPT ![kind] = faults[kind] + 1]
  BY DEF Fault
<1> QED
  BY <1>1, <1>2 DEF TypeOK

\* At most one script is the next one of a process.
LEMMA OneNext ==
  ASSUME TypeOK, NEW p \in Proc, NEW s \in Script, NEW t \in Script,
         AtScript(p, s), AtScript(p, t)
  PROVE  s = t
<1>1. Order[s] <= Order[t] /\ Order[t] <= Order[s]
  BY DEF AtScript
<1> QED
  BY <1>1, MigrateAssumption

-----------------------------------------------------------------------------
(* Types. *)

LEMMA InitTyped == Init => TypeOK
BY MigrateAssumption DEF Init, TypeOK, States, Row, FaultKinds

LEMMA StepTyped == TypeOK /\ [Next]_vars => TypeOK'
<1> SUFFICES ASSUME TypeOK, [Next]_vars PROVE TypeOK'
  OBVIOUS
<1>a. \A k \in FaultKinds : MaxFaults[k] \in Nat
  BY MigrateAssumption
<1>b. {"statement", "history", "callback", "crash", "drop"} \subseteq FaultKinds
  BY DEF FaultKinds
<1> USE MigrateAssumption DEF TypeOK, States, Goto
<1>1. ASSUME NEW p \in Proc, BuildState(p) PROVE TypeOK'
  BY <1>1 DEF BuildState, PendingScripts
<1>2. ASSUME NEW p \in Proc, Validate(p) PROVE TypeOK'
  BY <1>2 DEF Validate
<1>3. ASSUME NEW p \in Proc, RecordFailureFails(p) PROVE TypeOK'
  BY <1>3, <1>b, FaultTyped DEF RecordFailureFails
<1>4. ASSUME NEW p \in Proc, AcquireLock(p) \/ LockTimeout(p) PROVE TypeOK'
  BY <1>4 DEF AcquireLock, LockTimeout
<1>5. ASSUME NEW p \in Proc, FilterAlreadyApplied(p) PROVE TypeOK'
  BY <1>5 DEF FilterAlreadyApplied
<1>6. ASSUME NEW p \in Proc, AbortRun(p) PROVE TypeOK'
  BY <1>6, <1>b, FaultTyped DEF AbortRun
<1>7. ASSUME NEW p \in Proc, ReleaseLock(p) PROVE TypeOK'
  BY <1>7 DEF ReleaseLock, Unlocked
<1>9. ASSUME NEW p \in Proc, NEW s \in Script, ExecuteStatement(p, s) PROVE TypeOK'
  BY <1>9 DEF ExecuteStatement
<1>10. ASSUME NEW p \in Proc, NEW s \in Script, StatementFails(p, s) PROVE TypeOK'
  BY <1>10, <1>b, FaultTyped DEF StatementFails
<1>11. ASSUME NEW p \in Proc, NEW s \in Script, RecordFailure(p, s) PROVE TypeOK'
  BY <1>11, AppendRow DEF RecordFailure
<1>12. ASSUME NEW s \in Script, RowCommitted(s)
       PROVE history' \in Seq(Row) /\ effects' \in [Script -> Nat]
  <2>1. effects[s] + Stmts[s] \in Nat
    OBVIOUS
  <2> QED
    BY <1>12, <2>1, AppendRow DEF RowCommitted
<1>13. ASSUME NEW p \in Proc, NEW s \in Script, CommitScript(p, s) PROVE TypeOK'
  BY <1>12, <1>13 DEF CommitScript
<1>14. ASSUME NEW p \in Proc, NEW s \in Script, CommitFails(p, s) PROVE TypeOK'
  BY <1>14, <1>b, FaultTyped DEF CommitFails
<1>15. ASSUME NEW p \in Proc, NEW s \in Script, CommitUnanswered(p, s) PROVE TypeOK'
  BY <1>12, <1>15, <1>b, FaultTyped DEF CommitUnanswered, Unlocked
<1>16. ASSUME NEW p \in Proc, Crash(p) PROVE TypeOK'
  BY <1>16, <1>b, FaultTyped DEF Crash, Unlocked
<1>17. ASSUME NEW p \in Proc, SessionDrop(p) PROVE TypeOK'
  BY <1>17, <1>b, FaultTyped DEF SessionDrop
<1>18. CASE UNCHANGED vars
  BY <1>18 DEF vars
<1> QED
  BY <1>1, <1>2, <1>3, <1>4, <1>5, <1>6, <1>7, <1>9, <1>10, <1>11, <1>13, <1>14,
     <1>15, <1>16, <1>17, <1>18 DEF Next, Command

\* Every step of MigrateCommand.execute and of the execution engine, every
\* fault and every crash keeps the state of the processes, the lock and the
\* history within their types.
THEOREM Typing == Spec => []TypeOK
BY InitTyped, StepTyped, PTL DEF Spec
-----------------------------------------------------------------------------
(* The lock. *)

LEMMA StepLockHeld ==
  ASSUME TypeOK, LockHeld, [Next]_vars PROVE LockHeld'
<1> USE MigrateAssumption DEF LockHeld, TypeOK, Goto
<1>1. ASSUME NEW p \in Proc, AcquireLock(p) PROVE LockHeld'
  BY <1>1 DEF AcquireLock
<1>2. ASSUME NEW p \in Proc, ReleaseLock(p) \/ Crash(p) PROVE LockHeld'
  <2>1. pc' = [pc EXCEPT ![p] = "idle"] /\ session' = [session EXCEPT ![p] = "up"]
    BY <1>2 DEF ReleaseLock, Crash
  <2>2. lock' = IF lock = p THEN NoProc ELSE lock
    BY <1>2 DEF ReleaseLock, Crash, Unlocked
  <2> QED
    BY <2>1, <2>2
<1>3. ASSUME NEW p \in Proc, SessionDrop(p) PROVE LockHeld'
  BY <1>3 DEF SessionDrop
<1>4. ASSUME NEW p \in Proc, NEW s \in Script, CommitUnanswered(p, s) PROVE LockHeld'
  BY <1>4 DEF CommitUnanswered, Unlocked
<1>5. ASSUME NEW p \in Proc,
             \/ BuildState(p) \/ Validate(p) \/ LockTimeout(p)
             \/ FilterAlreadyApplied(p) \/ AbortRun(p) \/ RecordFailureFails(p)
      PROVE LockHeld'
  <2>1. UNCHANGED <<session, lock>>
    BY <1>5 DEF BuildState, Validate, LockTimeout, FilterAlreadyApplied,
                AbortRun, RecordFailureFails
  <2>2. \/ pc[p] \in {"reload", "run", "fail"}
        \/ pc'[p] \notin {"reload", "run", "fail"}
    BY <1>5 DEF BuildState, Validate, LockTimeout, FilterAlreadyApplied,
                AbortRun, RecordFailureFails
  <2>3. \A q \in Proc : q # p => pc'[q] = pc[q]
    BY <1>5 DEF BuildState, Validate, LockTimeout, FilterAlreadyApplied,
                AbortRun, RecordFailureFails
  <2> QED
    BY <2>1, <2>2, <2>3
<1>6. ASSUME NEW p \in Proc, NEW s \in Script,
             \/ ExecuteStatement(p, s) \/ StatementFails(p, s)
             \/ RecordFailure(p, s) \/ CommitScript(p, s) \/ CommitFails(p, s)
      PROVE LockHeld'
  <2>1. UNCHANGED <<session, lock>>
    BY <1>6 DEF ExecuteStatement, StatementFails, RecordFailure,
                CommitScript, CommitFails
  <2>2. \/ pc[p] \in {"reload", "run", "fail"}
        \/ pc'[p] \notin {"reload", "run", "fail"}
    BY <1>6 DEF ExecuteStatement, StatementFails, RecordFailure,
                CommitScript, CommitFails
  <2>3. \A q \in Proc : q # p => pc'[q] = pc[q]
    BY <1>6 DEF ExecuteStatement, StatementFails, RecordFailure,
                CommitScript, CommitFails
  <2> QED
    BY <2>1, <2>2, <2>3
<1>7. CASE UNCHANGED vars
  BY <1>7 DEF vars
<1> QED
  BY <1>1, <1>2, <1>3, <1>4, <1>5, <1>6, <1>7 DEF Next, Command

\* Two processes are never under way on live sessions.
LEMMA OneAtWork ==
  ASSUME LockHeld, NEW p \in Proc, NEW q \in Proc,
         pc[p] \in {"run", "fail"}, session[p] = "up",
         pc[q] \in {"run", "fail"}, session[q] = "up"
  PROVE  p = q
BY DEF LockHeld

LEMMA SameHistory ==
  ASSUME UNCHANGED history, NEW t
  PROVE  (Succeeded(t)' <=> Succeeded(t)) /\ Successes(t)' = Successes(t)
BY DEF Succeeded, Successes

-----------------------------------------------------------------------------
(* Nothing that is still to be executed has succeeded. *)

LEMMA StepUnapplied ==
  ASSUME TypeOK, LockHeld, Unapplied, [Next]_vars PROVE Unapplied'
<1> USE DEF Unapplied, TypeOK, Goto
<1>1. ASSUME NEW p \in Proc, FilterAlreadyApplied(p) PROVE Unapplied'
  BY <1>1, SameHistory DEF FilterAlreadyApplied, AlreadyApplied, Versioned
<1>2. ASSUME NEW p \in Proc,
             \/ BuildState(p) \/ Validate(p) \/ AcquireLock(p)
             \/ LockTimeout(p) \/ AbortRun(p) \/ RecordFailureFails(p)
             \/ ReleaseLock(p) \/ Crash(p) \/ SessionDrop(p)
      PROVE Unapplied'
  BY <1>2, SameHistory DEF BuildState, Validate, AcquireLock, LockTimeout,
              AbortRun, RecordFailureFails, ReleaseLock, Crash, SessionDrop
<1>3. ASSUME NEW p \in Proc, NEW s \in Script,
             \/ ExecuteStatement(p, s) \/ StatementFails(p, s) \/ CommitFails(p, s)
      PROVE Unapplied'
  BY <1>3, SameHistory DEF ExecuteStatement, StatementFails, CommitFails
<1>4. ASSUME NEW p \in Proc, NEW s \in Script, RecordFailure(p, s) PROVE Unapplied'
  BY <1>4, AppendFailure DEF RecordFailure
<1>5. ASSUME NEW p \in Proc, NEW s \in Script, CommitScript(p, s) PROVE Unapplied'
  BY <1>5, AppendSuccess, OneAtWork DEF CommitScript, RowCommitted
<1>6. ASSUME NEW p \in Proc, NEW s \in Script, CommitUnanswered(p, s) PROVE Unapplied'
  BY <1>6, AppendSuccess, OneAtWork DEF CommitUnanswered, RowCommitted
<1>8. CASE UNCHANGED vars
  BY <1>8, SameHistory DEF vars
<1> QED
  BY <1>1, <1>2, <1>3, <1>4, <1>5, <1>6, <1>8 DEF Next, Command
-----------------------------------------------------------------------------
(* Statements that commit one by one. *)

LEMMA StepCounted ==
  ASSUME TypeOK, Counted, [Next]_vars PROVE Counted'
<1>a. \A t \in Script : effects[t] \in Nat /\ effects'[t] \in Nat
  BY StepTyped DEF TypeOK
<1> USE MigrateAssumption DEF Counted, TypeOK, Goto
<1>1. ASSUME NEW p \in Proc,
             \/ BuildState(p) \/ Validate(p) \/ AcquireLock(p)
             \/ LockTimeout(p) \/ AbortRun(p) \/ RecordFailureFails(p)
             \/ ReleaseLock(p) \/ Crash(p) \/ SessionDrop(p)
      PROVE Counted'
  BY <1>1 DEF AtScript, BuildState, Validate, AcquireLock, LockTimeout,
              AbortRun, RecordFailureFails, ReleaseLock, Crash, SessionDrop
<1>2. ASSUME NEW p \in Proc, FilterAlreadyApplied(p) PROVE Counted'
  BY <1>2 DEF AtScript, FilterAlreadyApplied
<1>3. ASSUME NEW p \in Proc, NEW s \in Script, ExecuteStatement(p, s) PROVE Counted'
  <2>1. \A q \in Proc, t \in Script : AtScript(q, t)' <=> AtScript(q, t)
    BY <1>3 DEF AtScript, ExecuteStatement
  <2>2. \A q \in Proc : pc'[q] = pc[q] /\ (q # p => done'[q] = done[q])
    BY <1>3 DEF ExecuteStatement
  <2>3. pc[p] = "run" /\ AtScript(p, s) /\ done'[p] = done[p] + 1
    BY <1>3 DEF ExecuteStatement
  <2>4. \A t \in Script : effects'[t] >= effects[t]
    BY <1>3 DEF ExecuteStatement
  <2>5. s \notin RollsBack => effects'[s] = effects[s] + 1
    BY <1>3 DEF ExecuteStatement
  <2>6. \A t \in Script \ RollsBack : AtScript(p, t) => effects'[t] >= done'[p]
    BY <2>3, <2>5, OneNext
  <2>7. \A q \in Proc : q # p =>
          /\ pc[q] \notin {"run", "fail", "release"} => done'[q] = 0
          /\ pc[q] = "run" =>
               \A t \in Script \ RollsBack : AtScript(q, t) => effects'[t] >= done'[q]
    BY <1>a, <2>2, <2>4
  <2> QED
    BY <2>1, <2>2, <2>3, <2>6, <2>7
<1>4. ASSUME NEW p \in Proc, NEW s \in Script,
             StatementFails(p, s) \/ RecordFailure(p, s) \/ CommitFails(p, s)
      PROVE Counted'
  BY <1>4 DEF AtScript, StatementFails, RecordFailure, CommitFails
<1>5. ASSUME NEW p \in Proc, NEW s \in Script,
             CommitScript(p, s) \/ CommitUnanswered(p, s)
      PROVE Counted'
  <2>1. \A q \in Proc, t \in Script : q # p => (AtScript(q, t)' <=> AtScript(q, t))
    BY <1>5 DEF AtScript, CommitScript, CommitUnanswered
  <2>2. \A t \in Script : effects'[t] >= effects[t]
    <3>1. RowCommitted(s)
      BY <1>5 DEF CommitScript, CommitUnanswered
    <3>2. CASE s \in RollsBack
      <4>1. effects' = [effects EXCEPT ![s] = effects[s] + Stmts[s]]
        BY <3>1, <3>2 DEF RowCommitted
      <4>2. Stmts[s] \in Nat
        OBVIOUS
      <4> QED
        BY <4>1, <4>2, <1>a
    <3>3. CASE s \notin RollsBack
      <4>1. effects' = effects
        BY <3>1, <3>3 DEF RowCommitted
      <4> QED
        BY <4>1, <1>a
    <3> QED
      BY <3>2, <3>3
  <2>3. \A q \in Proc : q # p => pc'[q] = pc[q] /\ done'[q] = done[q]
    BY <1>5 DEF CommitScript, CommitUnanswered
  <2>4. pc'[p] = "release" \/ done'[p] = 0
    BY <1>5 DEF CommitScript, CommitUnanswered
  <2>5. pc'[p] \in {"run", "release"}
    BY <1>5 DEF CommitScript, CommitUnanswered
  <2>6. ASSUME NEW q \in Proc, q # p, pc'[q] = "run", NEW t \in Script \ RollsBack, AtScript(q, t)'
        PROVE effects'[t] >= done'[q]
    <3>1. effects[t] >= done[q]
      BY <2>1, <2>3, <2>6
    <3> QED
      BY <1>a, <2>2, <2>3, <2>6, <3>1
  <2>7. \A q \in Proc : pc'[q] \notin {"run", "fail", "release"} => done'[q] = 0
    BY <2>3, <2>5
  <2>8. \A t \in Script : pc'[p] = "run" => effects'[t] >= done'[p]
    BY <1>a, <2>4
  <2> QED
    BY <2>6, <2>7, <2>8
<1>7. CASE UNCHANGED vars
  BY <1>7 DEF vars, AtScript
<1> QED
  BY <1>1, <1>2, <1>3, <1>4, <1>5, <1>7 DEF Next, Command

LEMMA IInvInvariant == Spec => []IInv
<1>1. Init => IInv
  BY InitTyped DEF Init, IInv, LockHeld, Unapplied, Counted
<1>2. IInv /\ [Next]_vars => IInv'
  BY StepTyped, StepLockHeld, StepUnapplied, StepCounted DEF IInv
<1> QED
  BY <1>1, <1>2, PTL DEF Spec
-----------------------------------------------------------------------------
(* What a step does to the history and to the database. *)

\* A successful row is written by the holder of the lock, for the first time if
\* the script is versioned, and after the statements that do not roll back.
LEMMA CommitStep ==
  ASSUME IInv, NEW p \in Proc, NEW s \in Script, CommitScript(p, s) \/ CommitUnanswered(p, s)
  PROVE  /\ RowCommitted(s)
         /\ s \in Versioned => ~Succeeded(s)
         /\ s \notin RollsBack => effects[s] >= Stmts[s]
<1>1. /\ pc[p] = "run" /\ session[p] = "up" /\ AtScript(p, s) /\ done[p] = Stmts[s]
      /\ RowCommitted(s)
  BY DEF CommitScript, CommitUnanswered
<1>2. s \in Versioned => ~Succeeded(s)
  BY <1>1 DEF IInv, Unapplied, AtScript, Versioned
<1>3. s \notin RollsBack => effects[s] >= Stmts[s]
  BY <1>1 DEF IInv, Counted
<1> QED
  BY <1>1, <1>2, <1>3

\* A FAILED row is for a script of a process under way.
LEMMA FailureStep ==
  ASSUME IInv, NEW p \in Proc, NEW s \in Script, RecordFailure(p, s)
  PROVE  /\ RecordRow(s, FALSE) /\ UNCHANGED effects
         /\ session[p] = "up" /\ s \in Versioned => ~Succeeded(s)
BY DEF RecordFailure, IInv, Unapplied, AtScript, Versioned

\* Every other step leaves the history alone, and the effects of all scripts
\* that roll back; effects are never undone.
LEMMA OtherStep ==
  ASSUME IInv, [Next]_vars,
         ~\E p \in Proc, s \in Script :
            CommitScript(p, s) \/ CommitUnanswered(p, s) \/ RecordFailure(p, s)
  PROVE  /\ UNCHANGED history
         /\ \A s \in RollsBack : effects'[s] = effects[s]
         /\ \A s \in Script : effects'[s] >= effects[s]
<1> DEFINE Goal == /\ UNCHANGED history
                   /\ \A s \in RollsBack : effects'[s] = effects[s]
                   /\ \A s \in Script : effects'[s] >= effects[s]
<1>a. effects \in [Script -> Nat] /\ RollsBack \subseteq Script
  BY MigrateAssumption DEF IInv, TypeOK
<1>1. ASSUME NEW p \in Proc, NEW s \in Script, ExecuteStatement(p, s) PROVE Goal
  <2>1. UNCHANGED history
    BY <1>1 DEF ExecuteStatement
  <2>2. CASE s \in RollsBack
    BY <1>a, <1>1, <2>1, <2>2 DEF ExecuteStatement
  <2>3. CASE s \notin RollsBack
    <3>1. effects' = [effects EXCEPT ![s] = effects[s] + 1]
      BY <1>1, <2>3 DEF ExecuteStatement
    <3> QED
      BY <1>a, <2>1, <2>3, <3>1
  <2> QED
    BY <2>2, <2>3
<1>3. ASSUME NEW p \in Proc, NEW s \in Script, StatementFails(p, s) \/ CommitFails(p, s)
      PROVE Goal
  BY <1>a, <1>3 DEF StatementFails, CommitFails
<1>4. ASSUME NEW p \in Proc,
             \/ BuildState(p) \/ Validate(p) \/ AcquireLock(p)
             \/ LockTimeout(p) \/ FilterAlreadyApplied(p) \/ AbortRun(p)
             \/ RecordFailureFails(p) \/ ReleaseLock(p) \/ Crash(p) \/ SessionDrop(p)
      PROVE Goal
  <2>1. UNCHANGED <<history, effects>>
    BY <1>4 DEF BuildState, Validate, AcquireLock, LockTimeout, AbortRun,
          FilterAlreadyApplied, RecordFailureFails, ReleaseLock, Crash, SessionDrop
  <2> QED
    BY <1>a, <2>1
<1>5. ASSUME UNCHANGED vars PROVE Goal
  BY <1>a, <1>5 DEF vars
<1> HIDE DEF Goal
<1>6. ASSUME Next PROVE Goal
  <2>1. PICK p \in Proc : Command(p) \/ Crash(p) \/ SessionDrop(p)
    BY <1>6 DEF Next
  <2>2. CASE \E s \in Script : \/ ExecuteStatement(p, s)
                              \/ StatementFails(p, s) \/ CommitFails(p, s)
    BY <2>2, <1>1, <1>3
  <2> QED
    BY <2>1, <2>2, <1>4 DEF Command
<1>7. Goal
  BY <1>5, <1>6
<1> QED
  BY <1>7 DEF Goal

LEMMA CommitEffects ==
  ASSUME IInv, NEW s \in Script, RowCommitted(s), NEW t \in Script
  PROVE  effects'[t] = IF t = s /\ s \in RollsBack THEN effects[t] + Stmts[t] ELSE effects[t]
<1>1. effects \in [Script -> Nat]
  BY DEF IInv, TypeOK
<1>2. CASE s \in RollsBack
  BY <1>1, <1>2 DEF RowCommitted
<1>3. CASE s \notin RollsBack
  BY <1>1, <1>3 DEF RowCommitted
<1> QED
  BY <1>2, <1>3

-----------------------------------------------------------------------------
(* The properties. *)

LEMMA StepNoDuplicate ==
  ASSUME IInv, NoDuplicateSuccess, [Next]_vars PROVE NoDuplicateSuccess'
<1> USE DEF NoDuplicateSuccess
<1>a. history \in Seq(Row) /\ Versioned \subseteq Script
  BY DEF IInv, TypeOK, Versioned
<1>1. ASSUME NEW p \in Proc, NEW s \in Script, CommitScript(p, s) \/ CommitUnanswered(p, s)
      PROVE NoDuplicateSuccess'
  <2>1. RecordRow(s, TRUE) /\ (s \in Versioned => ~Succeeded(s))
    BY <1>1, CommitStep DEF RowCommitted
  <2>2. s \in Versioned => ~\E i : i \in Successes(s)
    BY <2>1 DEF Succeeded, Successes
  <2>3. \A t \in Script : \A i : i \in Successes(t)'
                <=> (i \in Successes(t) \/ (t = s /\ i = Len(history) + 1))
    BY <1>a, <2>1, AppendSuccess
  <2> QED
    BY <1>a, <2>2, <2>3
<1>2. ASSUME NEW p \in Proc, NEW s \in Script, RecordFailure(p, s)
      PROVE NoDuplicateSuccess'
  BY <1>a, <1>2, AppendFailure DEF RecordFailure
<1>3. CASE ~\E p \in Proc, s \in Script :
             CommitScript(p, s) \/ CommitUnanswered(p, s) \/ RecordFailure(p, s)
  BY <1>a, <1>3, OtherStep, SameHistory
<1> QED
  BY <1>1, <1>2, <1>3

\* _filter_already_applied's promise, for every number of processes and faults:
\* no version has two successful rows in the history.
THEOREM NoDuplicates == Spec => []NoDuplicateSuccess
<1>1. Init => NoDuplicateSuccess
  BY DEF Init, NoDuplicateSuccess, Successes
<1>2. IInv /\ NoDuplicateSuccess /\ [Next]_vars => NoDuplicateSuccess'
  BY StepNoDuplicate
<1> QED
  BY IInvInvariant, <1>1, <1>2, PTL DEF Spec

LEMMA StepAtomic ==
  ASSUME IInv, AtomicMigration, [Next]_vars PROVE AtomicMigration'
<1> USE DEF AtomicMigration
<1>a. /\ history \in Seq(Row) /\ RollsBack \subseteq Script
      /\ \A t \in Script : Stmts[t] \in Nat
      /\ RollsBack \ Repeatable \subseteq Versioned
  BY MigrateAssumption DEF IInv, TypeOK, Versioned
<1>1. ASSUME NEW p \in Proc, NEW s \in Script, CommitScript(p, s) \/ CommitUnanswered(p, s)
      PROVE AtomicMigration'
  <2>1. RowCommitted(s) /\ RecordRow(s, TRUE) /\ (s \in Versioned => ~Succeeded(s))
    BY <1>1, CommitStep DEF RowCommitted
  <2>2. \A t \in Script : Succeeded(t)' <=> (Succeeded(t) \/ t = s)
    BY <1>a, <2>1, AppendSuccess
  <2>3. \A t \in Script : effects'[t] = IF t = s /\ s \in RollsBack
                                        THEN effects[t] + Stmts[t] ELSE effects[t]
    BY <2>1, CommitEffects
  <2> QED
    BY <1>a, <2>1, <2>2, <2>3
<1>2. ASSUME NEW p \in Proc, NEW s \in Script, RecordFailure(p, s)
      PROVE AtomicMigration'
  <2>1. UNCHANGED effects /\ \A t \in Script : Succeeded(t)' <=> Succeeded(t)
    BY <1>a, <1>2, AppendFailure DEF RecordFailure
  <2> QED
    BY <1>a, <2>1
<1>3. CASE ~\E p \in Proc, s \in Script :
             CommitScript(p, s) \/ CommitUnanswered(p, s) \/ RecordFailure(p, s)
  BY <1>a, <1>3, OtherStep, SameHistory
<1> QED
  BY <1>1, <1>2, <1>3

\* execute_migration commits the history row and the statements of a
\* transactional script together: in every reachable state the database has
\* the effects of such a script exactly when the history has its success.
THEOREM Atomicity == Spec => []AtomicMigration
<1>1. Init => AtomicMigration
  BY MigrateAssumption DEF Init, AtomicMigration, Succeeded
<1>2. IInv /\ AtomicMigration /\ [Next]_vars => AtomicMigration'
  BY StepAtomic
<1> QED
  BY IInvInvariant, <1>1, <1>2, PTL DEF Spec

LEMMA StepRowAfter ==
  ASSUME IInv, RowAfterStatements, [Next]_vars PROVE RowAfterStatements'
<1> USE DEF RowAfterStatements
<1>a. /\ history \in Seq(Row) /\ Versioned \subseteq Script
      /\ \A t \in Script : Stmts[t] \in Nat
      /\ \A t \in Script : effects[t] \in Nat /\ effects'[t] \in Nat
  BY StepTyped, MigrateAssumption DEF IInv, TypeOK, Versioned
<1>1. ASSUME NEW p \in Proc, NEW s \in Script, CommitScript(p, s) \/ CommitUnanswered(p, s)
      PROVE RowAfterStatements'
  <2>1. RowCommitted(s) /\ RecordRow(s, TRUE) /\ (s \notin RollsBack => effects[s] >= Stmts[s])
    BY <1>1, CommitStep DEF RowCommitted
  <2>2. \A t \in Script : Succeeded(t)' <=> (Succeeded(t) \/ t = s)
    BY <1>a, <2>1, AppendSuccess
  <2>3. \A t \in Script : effects'[t] = IF t = s /\ s \in RollsBack
                                        THEN effects[t] + Stmts[t] ELSE effects[t]
    BY <2>1, CommitEffects
  <2> QED
    BY <1>a, <2>1, <2>2, <2>3
<1>2. ASSUME NEW p \in Proc, NEW s \in Script, RecordFailure(p, s)
      PROVE RowAfterStatements'
  <2>1. UNCHANGED effects /\ \A t \in Script : Succeeded(t)' <=> Succeeded(t)
    BY <1>a, <1>2, AppendFailure DEF RecordFailure
  <2> QED
    BY <1>a, <2>1
<1>3. CASE ~\E p \in Proc, s \in Script :
             CommitScript(p, s) \/ CommitUnanswered(p, s) \/ RecordFailure(p, s)
  <2>1. \A t \in Script : (Succeeded(t)' <=> Succeeded(t)) /\ effects'[t] >= effects[t]
    BY <1>3, OtherStep, SameHistory
  <2> QED
    BY <1>a, <2>1
<1> QED
  BY <1>1, <1>2, <1>3

\* The row of a script, transactional or not, is written after its statements
\* (_execute_statements before record_migration): success in the history means
\* that every statement has been executed.
THEOREM RowsComeLast == Spec => []RowAfterStatements
<1>1. Init => RowAfterStatements
  BY DEF Init, RowAfterStatements, Succeeded
<1>2. IInv /\ RowAfterStatements /\ [Next]_vars => RowAfterStatements'
  BY StepRowAfter
<1> QED
  BY IInvInvariant, <1>1, <1>2, PTL DEF Spec
-----------------------------------------------------------------------------
(* Until a session is lost. *)

AllUp == faults["drop"] = 0 => \A p \in Proc : session[p] = "up"

LEMMA DropsAreCounted ==
  ASSUME TypeOK, [Next]_vars, faults'["drop"] = 0 PROVE faults["drop"] = 0 /\ ~Fault("drop")
<1>a. "drop" \in FaultKinds /\ faults \in [FaultKinds -> Nat]
  BY DEF FaultKinds, TypeOK
<1>1. ASSUME NEW kind \in FaultKinds, Fault(kind) PROVE faults["drop"] = 0 /\ kind # "drop"
  <2>1. faults' = [faults EXCEPT ![kind] = faults[kind] + 1] /\ faults[kind] \in Nat
    BY <1>a, <1>1 DEF Fault
  <2> QED
    BY <1>a, <2>1
<1>b. {"statement", "history", "callback", "crash", "drop"} \subseteq FaultKinds
  BY DEF FaultKinds
<1>2. ~Fault("drop")
  BY <1>a, <1>1
<1>3. UNCHANGED faults \/ \E kind \in FaultKinds : Fault(kind)
  BY <1>b DEF Next, Command, vars, BuildState, Validate, AcquireLock, LockTimeout,
     FilterAlreadyApplied, AbortRun, RecordFailureFails, ReleaseLock, Crash, SessionDrop,
     ExecuteStatement, StatementFails, RecordFailure, CommitScript, CommitFails,
     CommitUnanswered
<1> QED
  BY <1>1, <1>2, <1>3

LEMMA StepAllUp ==
  ASSUME TypeOK, AllUp, [Next]_vars PROVE AllUp'
<1> SUFFICES ASSUME faults'["drop"] = 0
             PROVE \A q \in Proc : session'[q] = "up"
  BY DEF AllUp
<1>a. ~Fault("drop") /\ \A q \in Proc : session[q] = "up"
  BY DropsAreCounted DEF AllUp
<1> DEFINE Up == \A q \in Proc : session'[q] = "up"
<1> USE DEF TypeOK
<1>1. ASSUME NEW p \in Proc, ReleaseLock(p) \/ Crash(p) PROVE Up
  BY <1>1, <1>a DEF ReleaseLock, Crash
<1>2. ASSUME NEW p \in Proc, SessionDrop(p) PROVE Up
  BY <1>2, <1>a DEF SessionDrop
<1>3. ASSUME NEW p \in Proc, NEW s \in Script, CommitUnanswered(p, s) PROVE Up
  BY <1>3, <1>a DEF CommitUnanswered
<1>4. ASSUME NEW p \in Proc,
             \/ BuildState(p) \/ Validate(p) \/ AcquireLock(p)
             \/ LockTimeout(p) \/ FilterAlreadyApplied(p) \/ AbortRun(p)
             \/ RecordFailureFails(p)
      PROVE Up
  BY <1>4, <1>a DEF BuildState, Validate, AcquireLock, LockTimeout,
              FilterAlreadyApplied, AbortRun, RecordFailureFails
<1>5. ASSUME NEW p \in Proc, NEW s \in Script,
             \/ ExecuteStatement(p, s) \/ StatementFails(p, s)
             \/ RecordFailure(p, s) \/ CommitScript(p, s) \/ CommitFails(p, s)
      PROVE Up
  BY <1>5, <1>a DEF ExecuteStatement, StatementFails, RecordFailure,
              CommitScript, CommitFails
<1>6. CASE UNCHANGED vars
  BY <1>6, <1>a DEF vars
<1> QED
  BY <1>1, <1>2, <1>3, <1>4, <1>5, <1>6 DEF Next, Command

LEMMA StepNoFailureAfterSuccess ==
  ASSUME IInv, AllUp, NoFailureAfterSuccess, [Next]_vars PROVE NoFailureAfterSuccess'
<1> DEFINE Late == \A s \in Versioned : \A i, j \in DOMAIN history :
              (i \in Successes(s) /\ history[j].script = s /\ ~history[j].ok) => j < i
<1> SUFFICES ASSUME faults'["drop"] = 0 PROVE Late'
  BY DEF NoFailureAfterSuccess
<1>c. Late /\ \A p \in Proc : session[p] = "up"
  BY DropsAreCounted DEF NoFailureAfterSuccess, AllUp, IInv
<1>a. history \in Seq(Row) /\ Versioned \subseteq Script /\ Len(history) \in Nat
  BY DEF IInv, TypeOK, Versioned
<1>b. \A t \in Versioned : \A i : i \in Successes(t) => Succeeded(t)
  BY DEF Succeeded, Successes
<1>1. ASSUME NEW p \in Proc, NEW s \in Script, CommitScript(p, s) \/ CommitUnanswered(p, s)
      PROVE Late'
  <2>1. RecordRow(s, TRUE)
    BY <1>1, CommitStep DEF RowCommitted
  <2>2. \A t \in Script : \A i : i \in Successes(t)'
                <=> (i \in Successes(t) \/ (t = s /\ i = Len(history) + 1))
    BY <1>a, <2>1, AppendSuccess
  <2>3. ASSUME NEW j \in DOMAIN history', ~history'[j].ok
        PROVE j \in DOMAIN history /\ history[j] = history'[j] /\ j < Len(history) + 1
    BY <1>a, <2>1, <2>3 DEF RecordRow
  <2> SUFFICES ASSUME NEW t \in Versioned, NEW i \in Successes(t)', NEW j \in DOMAIN history',
                      history'[j].script = t, ~history'[j].ok
               PROVE j < i
    OBVIOUS
  <2>4. j \in DOMAIN history /\ history[j] = history'[j] /\ j < Len(history) + 1
    BY <2>3
  <2>5. CASE i \in Successes(t)
    <3>1. i \in DOMAIN history
      BY <2>5 DEF Successes
    <3> QED
      BY <1>c, <2>4, <2>5, <3>1
  <2> QED
    BY <1>a, <2>2, <2>4, <2>5
<1>2. ASSUME NEW p \in Proc, NEW s \in Script, RecordFailure(p, s)
      PROVE Late'
  <2>1. RecordRow(s, FALSE) /\ (s \in Versioned => ~Succeeded(s))
    BY <1>c, <1>2, FailureStep
  <2>2. \A t \in Script : \A i : i \in Successes(t)' <=> i \in Successes(t)
    BY <1>a, <2>1, AppendFailure
  <2>3. ASSUME NEW j \in DOMAIN history'
        PROVE \/ j \in DOMAIN history /\ history[j] = history'[j]
              \/ history'[j].script = s
    BY <1>a, <2>1, <2>3 DEF RecordRow
  <2> SUFFICES ASSUME NEW t \in Versioned, NEW i \in Successes(t)', NEW j \in DOMAIN history',
                      history'[j].script = t, ~history'[j].ok
               PROVE j < i
    OBVIOUS
  <2>4. i \in Successes(t) /\ i \in DOMAIN history
    BY <1>a, <2>2 DEF Successes
  <2>5. t # s
    BY <1>b, <2>1, <2>4
  <2>6. j \in DOMAIN history /\ history[j] = history'[j]
    BY <2>3, <2>5
  <2> QED
    BY <1>c, <2>4, <2>6
<1>3. CASE ~\E p \in Proc, s \in Script :
             CommitScript(p, s) \/ CommitUnanswered(p, s) \/ RecordFailure(p, s)
  <2>1. UNCHANGED history /\ \A t \in Script : Successes(t)' = Successes(t)
    BY <1>3, OtherStep, SameHistory
  <2> QED
    BY <1>a, <1>c, <2>1
<1> QED
  BY <1>1, <1>2, <1>3

\* As long as no session is lost, a process that has waited for the lock never
\* fails on what another process has applied: no FAILED row follows a success.
THEOREM NoLateFailure == Spec => []NoFailureAfterSuccess
<1>1. Init => AllUp /\ NoFailureAfterSuccess
  BY DEF Init, AllUp, NoFailureAfterSuccess, Successes
<1>2. IInv /\ AllUp /\ NoFailureAfterSuccess /\ [Next]_vars => (AllUp /\ NoFailureAfterSuccess)'
  BY StepAllUp, StepNoFailureAfterSuccess DEF IInv
<1> QED
  BY IInvInvariant, <1>1, <1>2, PTL DEF Spec

-----------------------------------------------------------------------------
(* The order of versions. *)

\* Every process has the same versioned scripts in its directories.
SameVersions == \A p, q \in Proc : Visible[p] \ Repeatable = Visible[q] \ Repeatable

\* No version is skipped: what a process does not have pending is in the
\* history, and once the validator has passed, as a success.
Covered ==
  \A p \in Proc :
    /\ pending[p] \subseteq Visible[p]
    /\ pc[p] = "validate" =>
         \A s \in Visible[p] \ Repeatable : s \in pending[p] \/ Recorded(s)
    /\ pc[p] \in {"wait", "reload", "run"} =>
         \A s \in Visible[p] \ Repeatable : s \in pending[p] \/ Succeeded(s)

\* All versions below one that has succeeded have succeeded.
Downward ==
  \A t \in Versioned, p \in Proc : \A s \in Visible[p] \ Repeatable :
    Succeeded(t) /\ Order[s] < Order[t] => Succeeded(s)

\* Rows stay.
LEMMA RowsStay ==
  ASSUME IInv, [Next]_vars, NEW t \in Script
  PROVE  (Recorded(t) => Recorded(t)') /\ (Succeeded(t) => Succeeded(t)')
<1>a. history \in Seq(Row)
  BY DEF IInv, TypeOK
<1>1. ASSUME NEW s \in Script, NEW ok \in BOOLEAN, RecordRow(s, ok)
      PROVE  (Recorded(t) => Recorded(t)') /\ (Succeeded(t) => Succeeded(t)')
  <2>1. \A r, i : i \in DOMAIN history /\ history[i] = r => i \in DOMAIN history' /\ history'[i] = r
    BY <1>a, <1>1, AppendRow
  <2> QED
    BY <2>1 DEF Recorded, Succeeded
<1>2. CASE \E p \in Proc, s \in Script :
             CommitScript(p, s) \/ CommitUnanswered(p, s) \/ RecordFailure(p, s)
  BY <1>1, <1>2, CommitStep, FailureStep DEF RowCommitted
<1>3. CASE ~\E p \in Proc, s \in Script :
             CommitScript(p, s) \/ CommitUnanswered(p, s) \/ RecordFailure(p, s)
  BY <1>3, OtherStep DEF Recorded, Succeeded
<1> QED
  BY <1>2, <1>3

\* A process that is left alone keeps what it had, as rows stay.
LEMMA StepCovered ==
  ASSUME IInv, Covered, [Next]_vars PROVE Covered'
<1> DEFINE Fine(p) ==
             /\ pending[p] \subseteq Visible[p]
             /\ pc[p] = "validate" =>
                  \A s \in Visible[p] \ Repeatable : s \in pending[p] \/ Recorded(s)
             /\ pc[p] \in {"wait", "reload", "run"} =>
                  \A s \in Visible[p] \ Repeatable : s \in pending[p] \/ Succeeded(s)
<1>a. /\ pc \in [Proc -> States] /\ pending \in [Proc -> SUBSET Script]
      /\ history \in Seq(Row)
  BY DEF IInv, TypeOK
<1>b. \A p \in Proc : Visible[p] \subseteq Script
  BY MigrateAssumption
<1>c. \A t \in Script : (Recorded(t) => Recorded(t)') /\ (Succeeded(t) => Succeeded(t)')
  BY RowsStay
<1>d. \A p \in Proc : Fine(p)
  BY DEF Covered
<1>0. ASSUME NEW q \in Proc, pending'[q] = pending[q],
             \/ pc'[q] = pc[q]
             \/ pc'[q] \in {"idle", "fail", "release"}
             \/ pc[q] \in {"wait", "reload", "run"} /\ pc'[q] \in {"wait", "reload", "run"}
      PROVE  Fine(q)'
  <2>1. Fine(q)
    BY <1>d
  <2> QED
    BY <2>1, <1>0, <1>b, <1>c
<1>1. ASSUME NEW p \in Proc, BuildState(p) PROVE Fine(p)'
  <2>1. /\ pending'[p] = PendingScripts(p) /\ pc'[p] = "validate" /\ UNCHANGED history
    BY <1>1, <1>a DEF BuildState, Goto
  <2>2. \A s \in Visible[p] : s \in pending'[p] \/ Recorded(s)'
    BY <2>1 DEF PendingScripts, Recorded
  <2> QED
    BY <2>1, <2>2 DEF PendingScripts
<1>2. ASSUME NEW p \in Proc, Validate(p) PROVE Fine(p)'
  <2>1. /\ pending'[p] = pending[p] /\ UNCHANGED history /\ pc[p] = "validate"
        /\ pc'[p] = IF ValidationFails(p) \/ pending[p] = {} THEN "idle" ELSE "wait"
    BY <1>2, <1>a DEF Validate, Goto
  <2>2. CASE pc'[p] = "wait"
    <3>1. ~ValidationFails(p)
      BY <2>1, <2>2
    <3>2. ASSUME NEW s \in Visible[p] \ Repeatable, Recorded(s) PROVE Succeeded(s)
      <4>1. ~Failed(s)
        BY <3>1, <3>2, <1>b DEF ValidationFails
      <4>2. PICK i \in DOMAIN history : history[i].script = s
        BY <3>2 DEF Recorded
      <4>3. history[i] \in Row
        BY <1>a
      <4>4. history[i] = [script |-> s, ok |-> TRUE] \/ history[i] = [script |-> s, ok |-> FALSE]
        BY <4>2, <4>3 DEF Row
      <4> QED
        BY <4>1, <4>4 DEF Failed, Succeeded
    <3>3. \A s \in Visible[p] \ Repeatable : s \in pending[p] \/ Succeeded(s)
      BY <3>2, <2>1, <1>d
    <3> QED
      BY <3>3, <2>1, <2>2, <1>b, <1>c, <1>d
  <2>3. CASE pc'[p] = "idle"
    BY <2>1, <2>3, <1>0
  <2> QED
    BY <2>1, <2>2, <2>3
<1>3. ASSUME NEW p \in Proc, FilterAlreadyApplied(p) PROVE Fine(p)'
  <2>1. /\ pending'[p] = pending[p] \ AlreadyApplied /\ pc[p] = "reload"
        /\ pc'[p] \in {"release", "run"}
    BY <1>3, <1>a DEF FilterAlreadyApplied, Goto
  <2>2. \A s \in AlreadyApplied : s \in Script /\ Succeeded(s)
    BY DEF AlreadyApplied, Versioned
  <2> QED
    BY <2>1, <2>2, <1>b, <1>c, <1>d
<1>4. ASSUME NEW p \in Proc, NEW s \in Script, CommitScript(p, s) PROVE Fine(p)'
  <2>1. /\ pending'[p] = pending[p] \ {s} /\ pc[p] = "run" /\ pc'[p] \in {"release", "run"}
    BY <1>4, <1>a DEF CommitScript, Goto
  <2>2. Succeeded(s)'
    BY <1>4, <1>a, CommitStep, AppendSuccess DEF RowCommitted
  <2> QED
    BY <2>1, <2>2, <1>b, <1>c, <1>d
<1>5. ASSUME NEW p \in Proc, ReleaseLock(p) \/ Crash(p) PROVE Fine(p)'
  <2>1. pending'[p] = {} /\ pc'[p] = "idle"
    BY <1>5, <1>a DEF ReleaseLock, Crash, Goto
  <2> QED
    BY <2>1
<1>6. ASSUME NEW p \in Proc,
             \/ AcquireLock(p) \/ LockTimeout(p) \/ AbortRun(p) \/ RecordFailureFails(p)
             \/ SessionDrop(p)
             \/ \E s \in Script :
                  \/ ExecuteStatement(p, s) \/ StatementFails(p, s) \/ RecordFailure(p, s)
                  \/ CommitFails(p, s) \/ CommitUnanswered(p, s)
      PROVE  Fine(p)'
  <2>1. pending'[p] = pending[p]
    BY <1>6, <1>a DEF AcquireLock, LockTimeout, AbortRun, RecordFailureFails, SessionDrop,
       ExecuteStatement, StatementFails, RecordFailure, CommitFails, CommitUnanswered
  <2>2. \/ pc'[p] = pc[p]
        \/ pc'[p] \in {"idle", "fail", "release"}
        \/ pc[p] = "wait" /\ pc'[p] = "reload"
    BY <1>6, <1>a DEF AcquireLock, LockTimeout, AbortRun, RecordFailureFails, SessionDrop,
       ExecuteStatement, StatementFails, RecordFailure, CommitFails, CommitUnanswered, Goto
  <2> QED
    BY <2>1, <2>2, <1>0
<1>7. ASSUME NEW p \in Proc, Command(p) \/ Crash(p) \/ SessionDrop(p), NEW q \in Proc, q # p
      PROVE  Fine(q)'
  <2>1. pc'[q] = pc[q] /\ pending'[q] = pending[q]
    BY <1>7, <1>a DEF Command, Crash, SessionDrop, BuildState, Validate, AcquireLock,
       LockTimeout, FilterAlreadyApplied, AbortRun, RecordFailureFails, ReleaseLock,
       ExecuteStatement, StatementFails, RecordFailure, CommitScript, CommitFails,
       CommitUnanswered, Goto
  <2> QED
    BY <2>1, <1>0
<1>8. ASSUME Next, NEW q \in Proc PROVE Fine(q)'
  <2>1. PICK p \in Proc : Command(p) \/ Crash(p) \/ SessionDrop(p)
    BY <1>8 DEF Next
  <2>2. CASE p = q
    <3> HIDE DEF Fine
    <3> QED
      BY <2>1, <2>2, <1>1, <1>2, <1>3, <1>4, <1>5, <1>6 DEF Command
  <2>3. CASE p # q
    <3> HIDE DEF Fine
    <3> QED
      BY <2>1, <2>3, <1>7
  <2> QED
    BY <2>2, <2>3
<1>9. ASSUME UNCHANGED vars, NEW q \in Proc PROVE Fine(q)'
  <2>1. pc'[q] = pc[q] /\ pending'[q] = pending[q]
    BY <1>9 DEF vars
  <2> QED
    BY <2>1, <1>0
<1>10. \A q \in Proc : Fine(q)'
  <2> HIDE DEF Fine
  <2> QED
    BY <1>8, <1>9
<1> QED
  BY <1>10 DEF Covered

\* The version that a process commits is the lowest one that it has pending,
\* so those below it have succeeded.
LEMMA StepDownward ==
  ASSUME IInv, Covered, Downward, SameVersions, [Next]_vars PROVE Downward'
<1>a. history \in Seq(Row) /\ Versioned \subseteq Script
  BY DEF IInv, TypeOK, Versioned
<1>b. \A p \in Proc : Visible[p] \subseteq Script
  BY MigrateAssumption
<1>c. \A t \in Script : Succeeded(t) => Succeeded(t)'
  BY RowsStay
<1>d. \A s \in Script : Order[s] \in Nat
  BY MigrateAssumption
<1>1. SUFFICES ASSUME NEW t \in Versioned, NEW p \in Proc, NEW s \in Visible[p] \ Repeatable,
                      Succeeded(t)', Order[s] < Order[t]
               PROVE  Succeeded(s)
  BY <1>b, <1>c DEF Downward
<1>2. CASE Succeeded(t)
  BY <1>1, <1>2 DEF Downward
<1>3. CASE ~Succeeded(t)
  <2>1. PICK q \in Proc : CommitScript(q, t) \/ CommitUnanswered(q, t)
    <3>1. CASE \E q \in Proc, r \in Script : CommitScript(q, r) \/ CommitUnanswered(q, r)
      <4>1. PICK q \in Proc, r \in Script : CommitScript(q, r) \/ CommitUnanswered(q, r)
        BY <3>1
      <4>2. RecordRow(r, TRUE)
        BY <4>1, CommitStep DEF RowCommitted
      <4>3. t = r
        BY <1>1, <1>3, <1>a, <4>2, AppendSuccess
      <4> QED
        BY <4>1, <4>3
    <3>2. ASSUME NEW q \in Proc, NEW r \in Script, RecordFailure(q, r) PROVE FALSE
      BY <1>1, <1>3, <1>a, <3>2, FailureStep, AppendFailure
    <3>3. CASE ~\E q \in Proc, r \in Script :
                 CommitScript(q, r) \/ CommitUnanswered(q, r) \/ RecordFailure(q, r)
      BY <1>1, <1>3, <3>3, OtherStep, SameHistory
    <3> QED
      BY <3>1, <3>2, <3>3
  <2>2. pc[q] = "run" /\ AtScript(q, t)
    BY <2>1 DEF CommitScript, CommitUnanswered
  <2>3. s \in Visible[q] \ Repeatable
    BY DEF SameVersions
  <2>4. s \notin pending[q]
    <3>1. Order[s] \in Nat /\ Order[t] \in Nat
      BY <1>a, <1>b, <1>d
    <3> QED
      BY <1>1, <2>2, <3>1 DEF AtScript
  <2> QED
    BY <2>2, <2>3, <2>4 DEF Covered
<1> QED
  BY <1>2, <1>3

\* The version that a process commits is above all that have succeeded.
LEMMA AboveAll ==
  ASSUME IInv, Covered, Downward, NEW p \in Proc, NEW s \in Versioned,
         CommitScript(p, s) \/ CommitUnanswered(p, s),
         NEW t \in Versioned, Succeeded(t)
  PROVE  Order[t] < Order[s]
<1>a. Versioned \subseteq Script
  BY DEF Versioned
<1>1. ~Succeeded(s) /\ s \in pending[p]
  BY <1>a, CommitStep DEF CommitScript, CommitUnanswered, AtScript
<1>2. Order[s] # Order[t] /\ Order[s] \in Nat /\ Order[t] \in Nat
  BY <1>a, <1>1, MigrateAssumption
<1>3. s \in Visible[p] \ Repeatable
  BY <1>1 DEF Covered, Versioned
<1>4. ~(Order[s] < Order[t])
  BY <1>1, <1>3 DEF Downward
<1> QED
  BY <1>2, <1>4

LEMMA StepStrictOrder ==
  ASSUME IInv, Covered, Downward, StrictOrder, [Next]_vars PROVE StrictOrder'
<1> DEFINE Ascending == \A s, t \in Versioned : \A i \in Successes(s), j \in Successes(t) :
              i < j => Order[s] < Order[t]
<1> SUFFICES ASSUME Strict PROVE Ascending'
  BY DEF StrictOrder
<1>a. /\ history \in Seq(Row) /\ Versioned \subseteq Script /\ Len(history) \in Nat
      /\ Ascending
  BY DEF IInv, TypeOK, Versioned, StrictOrder
<1>b. \A s \in Script : Order[s] \in Nat
  BY MigrateAssumption
<1>1. ASSUME NEW p \in Proc, NEW u \in Script, CommitScript(p, u) \/ CommitUnanswered(p, u)
      PROVE Ascending'
  <2>1. RecordRow(u, TRUE)
    BY <1>1, CommitStep DEF RowCommitted
  <2>2. \A t \in Script : \A i : i \in Successes(t)'
                <=> (i \in Successes(t) \/ (t = u /\ i = Len(history) + 1))
    BY <1>a, <2>1, AppendSuccess
  <2>3. \A t \in Script : \A i \in Successes(t) : i \in 1 .. Len(history) /\ Succeeded(t)
    BY <1>a DEF Successes, Succeeded
  <2> SUFFICES ASSUME NEW s \in Versioned, NEW t \in Versioned,
                      NEW i \in Successes(s)', NEW j \in Successes(t)', i < j
               PROVE  Order[s] < Order[t]
    OBVIOUS
  <2>4. i \in Successes(s) \/ (s = u /\ i = Len(history) + 1)
    BY <1>a, <2>2
  <2>5. j \in Successes(t) \/ (t = u /\ j = Len(history) + 1)
    BY <1>a, <2>2
  <2>6. CASE i \in Successes(s) /\ j \in Successes(t)
    BY <1>a, <2>6
  <2>7. CASE i \in Successes(s) /\ t = u /\ j = Len(history) + 1
    BY <1>1, <2>3, <2>7, <1>a, AboveAll
  <2>8. CASE s = u /\ i = Len(history) + 1
    <3>1. j \in 1 .. (Len(history) + 1)
      BY <1>a, <2>3, <2>5
    <3> QED
      BY <1>a, <2>8, <3>1
  <2> QED
    BY <2>4, <2>5, <2>6, <2>7, <2>8
<1>2. ASSUME NEW p \in Proc, NEW u \in Script, RecordFailure(p, u)
      PROVE Ascending'
  <2>1. \A t \in Script : \A i : i \in Successes(t)' <=> i \in Successes(t)
    BY <1>a, <1>2, FailureStep, AppendFailure
  <2> QED
    BY <1>a, <2>1
<1>3. CASE ~\E p \in Proc, s \in Script :
             CommitScript(p, s) \/ CommitUnanswered(p, s) \/ RecordFailure(p, s)
  <2>1. \A t \in Script : Successes(t)' = Successes(t)
    BY <1>3, OtherStep, SameHistory
  <2> QED
    BY <1>a, <2>1
<1> QED
  BY <1>1, <1>2, <1>3

\* Versions succeed in ascending order, whatever processes start, wait, crash
\* or fail at any point, as long as all of them have the same versions.
THEOREM InOrder == SameVersions => (Spec => []StrictOrder)
<1> SUFFICES ASSUME SameVersions PROVE Spec => []StrictOrder
  OBVIOUS
<1>1. Init => Covered /\ Downward /\ StrictOrder
  BY DEF Init, Covered, Downward, StrictOrder, Succeeded, Successes
<1>2. IInv /\ Covered /\ Downward /\ StrictOrder /\ [Next]_vars
        => (Covered /\ Downward /\ StrictOrder)'
  BY StepCovered, StepDownward, StepStrictOrder
<1> QED
  BY IInvInvariant, <1>1, <1>2, PTL DEF Spec
-----------------------------------------------------------------------------
(* All processes together deploy each version once. *)

\* What the refinement needs of the state: the order is a matter of strict mode.
DeployInv == IInv /\ AtomicMigration /\ Covered /\ (Strict => Downward)

\* The view that the refinement mapping takes of the database.
Executed == [s \in Versioned |-> effects[s]]

LEMMA DeployInvInvariant ==
  ASSUME Strict => SameVersions PROVE Spec => []DeployInv
<1>1. Init => Covered /\ Downward
  BY DEF Init, Covered, Downward, Succeeded
<1>2. Init => AtomicMigration
  BY MigrateAssumption DEF Init, AtomicMigration, Succeeded
<1>3. IInv /\ AtomicMigration /\ Covered /\ (Strict => Downward) /\ [Next]_vars
        => (AtomicMigration /\ Covered /\ (Strict => Downward))'
  BY StepAtomic, StepCovered, StepDownward
<1> QED
  BY IInvInvariant, <1>1, <1>2, <1>3, PTL DEF Spec, DeployInv

\* A commit deploys the version, or concerns a repeatable script.
LEMMA CommitDeploys ==
  ASSUME DeployInv, NEW p \in Proc, NEW s \in Script,
         CommitScript(p, s) \/ CommitUnanswered(p, s)
  PROVE  [Promised!Next]_<<AlreadyApplied, Executed>>
<1>a. /\ history \in Seq(Row) /\ Versioned \subseteq Script
      /\ effects \in [Script -> Nat] /\ \A t \in Script : Stmts[t] \in Nat
  BY MigrateAssumption DEF DeployInv, IInv, TypeOK, Versioned
<1>1. /\ RowCommitted(s) /\ RecordRow(s, TRUE)
      /\ s \in Versioned => ~Succeeded(s)
      /\ s \notin RollsBack => effects[s] >= Stmts[s]
  BY CommitStep DEF DeployInv, RowCommitted
<1>2. \A t \in Script : Succeeded(t)' <=> (Succeeded(t) \/ t = s)
  BY <1>a, <1>1, AppendSuccess
<1>3. \A t \in Script : effects'[t] = IF t = s /\ s \in RollsBack
                                      THEN effects[t] + Stmts[t] ELSE effects[t]
  BY <1>1, CommitEffects DEF DeployInv
<1>4. CASE s \in Versioned
  <2>1. s \notin AlreadyApplied /\ AlreadyApplied' = AlreadyApplied \cup {s}
    BY <1>a, <1>1, <1>2, <1>4 DEF AlreadyApplied
  <2>2. Strict => \A w \in AlreadyApplied : Order[w] < Order[s]
    BY <1>4, AboveAll DEF AlreadyApplied, DeployInv
  <2>3. CASE s \in RollsBack
    <3>1. s \in RollsBack \ Repeatable
      BY <1>4, <2>3 DEF Versioned
    <3>2. effects[s] = 0
      BY <1>1, <1>4, <3>1 DEF DeployInv, AtomicMigration
    <3>3. Executed[s] = 0 /\ Executed' = [Executed EXCEPT ![s] = Stmts[s]]
      <4>1. \A t \in Versioned : effects'[t] = IF t = s THEN Stmts[t] ELSE effects[t]
        BY <1>a, <1>3, <1>4, <2>3, <3>2
      <4>2. Executed' = [t \in Versioned |-> IF t = s THEN Stmts[t] ELSE effects[t]]
        BY <4>1 DEF Executed
      <4> QED
        BY <1>4, <3>2, <4>2 DEF Executed
    <3>4. Promised!Deploy(s)
      BY <2>1, <2>2, <3>1, <3>3 DEF Promised!Deploy, Executed
    <3> QED
      BY <1>4, <3>4 DEF Promised!Next
  <2>4. CASE s \notin RollsBack
    <3>1. Executed[s] >= Stmts[s] /\ Executed' = Executed
      BY <1>a, <1>1, <1>3, <1>4, <2>4 DEF Executed
    <3>2. Promised!Deploy(s)
      BY <2>1, <2>2, <2>4, <3>1 DEF Promised!Deploy, Executed
    <3> QED
      BY <1>4, <3>2 DEF Promised!Next
  <2> QED
    BY <2>3, <2>4
<1>5. CASE s \notin Versioned
  <2>1. AlreadyApplied' = AlreadyApplied
    BY <1>a, <1>2, <1>5 DEF AlreadyApplied
  <2>2. Executed' = Executed
    BY <1>a, <1>3, <1>5 DEF Executed
  <2> QED
    BY <2>1, <2>2
<1> QED
  BY <1>4, <1>5

\* A statement that is executed at once belongs to a version that has not
\* succeeded yet.
LEMMA StatementExecutes ==
  ASSUME DeployInv, NEW p \in Proc, NEW s \in Script, ExecuteStatement(p, s)
  PROVE  [Promised!Next]_<<AlreadyApplied, Executed>>
<1>a. Versioned \subseteq Script /\ effects \in [Script -> Nat]
  BY DEF DeployInv, IInv, TypeOK, Versioned
<1>1. AlreadyApplied' = AlreadyApplied
  BY SameHistory DEF ExecuteStatement, AlreadyApplied
<1>2. CASE s \in Versioned /\ s \notin RollsBack
  <2>1. s \notin AlreadyApplied
    BY <1>2 DEF ExecuteStatement, AtScript, DeployInv, IInv, Unapplied,
                AlreadyApplied, Versioned
  <2>2. Executed' = [Executed EXCEPT ![s] = Executed[s] + 1]
    BY <1>a, <1>2 DEF ExecuteStatement, Executed
  <2>3. Promised!Execute(s)
    BY <1>1, <1>2, <2>1, <2>2 DEF Promised!Execute, Executed
  <2> QED
    BY <1>2, <2>3 DEF Promised!Next
<1>3. CASE s \notin Versioned \/ s \in RollsBack
  <2>1. Executed' = Executed
    BY <1>a, <1>3 DEF ExecuteStatement, Executed
  <2> QED
    BY <1>1, <2>1
<1> QED
  BY <1>2, <1>3

\* Nothing else is seen of the command.
LEMMA OthersStutter ==
  ASSUME DeployInv, [Next]_vars,
         ~\E p \in Proc, s \in Script :
            CommitScript(p, s) \/ CommitUnanswered(p, s) \/ ExecuteStatement(p, s)
  PROVE  UNCHANGED <<AlreadyApplied, Executed>>
<1>a. history \in Seq(Row) /\ Versioned \subseteq Script
  BY DEF DeployInv, IInv, TypeOK, Versioned
<1>1. ASSUME UNCHANGED <<history, effects>> PROVE UNCHANGED <<AlreadyApplied, Executed>>
  BY <1>1, SameHistory DEF AlreadyApplied, Executed
<1>2. ASSUME NEW p \in Proc, NEW s \in Script, RecordFailure(p, s)
      PROVE UNCHANGED <<AlreadyApplied, Executed>>
  BY <1>a, <1>2, AppendFailure DEF RecordFailure, AlreadyApplied, Executed
<1>3. ASSUME NEW p \in Proc, NEW s \in Script, StatementFails(p, s) \/ CommitFails(p, s)
      PROVE UNCHANGED <<history, effects>>
  BY <1>3 DEF StatementFails, CommitFails
<1>4. ASSUME NEW p \in Proc,
             \/ BuildState(p) \/ Validate(p) \/ AcquireLock(p)
             \/ LockTimeout(p) \/ FilterAlreadyApplied(p) \/ AbortRun(p)
             \/ RecordFailureFails(p) \/ ReleaseLock(p) \/ Crash(p) \/ SessionDrop(p)
      PROVE UNCHANGED <<history, effects>>
  BY <1>4 DEF BuildState, Validate, AcquireLock, LockTimeout, AbortRun,
          FilterAlreadyApplied, RecordFailureFails, ReleaseLock, Crash, SessionDrop
<1>5. CASE UNCHANGED vars
  BY <1>1, <1>5 DEF vars
<1>6. CASE Next
  <2>1. PICK p \in Proc : Command(p) \/ Crash(p) \/ SessionDrop(p)
    BY <1>6 DEF Next
  <2> QED
    BY <2>1, <1>1, <1>2, <1>3, <1>4 DEF Command
<1> QED
  BY <1>5, <1>6

\* migrate implements the deployment of versions: however many processes run
\* MigrateCommand.execute, wait, crash, lose their sessions or their commits'
\* answers, each version is applied once, as a whole if it can roll back, in
\* order if strict, and never executed again after its success.
THEOREM Deploys ==
  ASSUME Strict => SameVersions PROVE Spec => DeploymentPromise
<1>1. Init => Promised!Init
  <2> SUFFICES ASSUME Init PROVE Promised!Init
    OBVIOUS
  <2>1. AlreadyApplied = {}
    BY DEF Init, AlreadyApplied, Succeeded
  <2>2. Executed = [s \in Versioned |-> 0]
    BY DEF Init, Executed, Versioned
  <2> QED
    BY <2>1, <2>2 DEF Promised!Init, Executed
<1>2. DeployInv /\ [Next]_vars => [Promised!Next]_<<AlreadyApplied, Executed>>
  BY CommitDeploys, StatementExecutes, OthersStutter
<1> QED
  BY DeployInvInvariant, <1>1, <1>2, PTL
     DEF Spec, DeploymentPromise, Promised!Spec, Executed
=============================================================================
