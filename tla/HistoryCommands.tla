-------------------------- MODULE HistoryCommands --------------------------
(***************************************************************************)
(* The commands that read and write the history table, run in any order by *)
(* several processes: migrate, migrate --mark-as-executed, undo, undo       *)
(* --target-version, repair and baseline.  Only migrate takes the migration *)
(* lock.  Each of the others decides what to do from one reading of the     *)
(* history and does it afterwards, whatever has happened meanwhile; which   *)
(* commands the operators let run at the same time is a constant.           *)
(*                                                                         *)
(* The run of one script, which is MigrateCommand's subject, is one step    *)
(* here: statements and history row commit together or a FAILED row is      *)
(* written.  `deployed` is what the database itself holds, which no command *)
(* ever looks at.                                                           *)
(***************************************************************************)
EXTENDS HistoryRules

CONSTANTS
  Proc, NoProc,
  NoScript,     \* stands for the script name of a baseline row
  Commands,     \* commands that are used
  MayOverlap,   \* sets of commands that may be in progress at the same time
  Editable,     \* files that are edited, removed and put back meanwhile
  Targets,      \* versions that are given to --target-version
  BaselineAt,   \* versions that are given to baseline
  MaxRank,      \* bound: no command starts when the history has had this many rows
  MaxEdits,     \* bound on the changes of files
  MaxFailures   \* bound on the scripts that fail

AllCommands == {"migrate", "mark", "undo", "undoTo", "repair", "baseline"}

ASSUME HistoryCommandsAssumption ==
  /\ HistoryRulesAssumption
  /\ NoProc \notin Proc /\ NoScript \notin Script
  /\ Commands \subseteq AllCommands
  /\ MayOverlap \subseteq SUBSET AllCommands
  /\ Editable \subseteq Script
  /\ Targets \subseteq Version /\ BaselineAt \subseteq Version
  /\ MaxRank \in Nat /\ MaxEdits \in Nat /\ MaxFailures \in Nat
  /\ 1 \in Sum /\ Sum \subseteq Nat

VARIABLES
  rows,       \* committed rows of dblift_schema_history, by installed_rank
  nextRank,   \* the next value of the identity column
  deployed,   \* checksum of the script that the database reflects, or Absent
  content,    \* the script files
  cmd,        \* the command each process is in
  scripts,    \* the scripts it has loaded, with their checksums
  chosen,     \* the rows it means to undo, or to mark as deleted
  lock,       \* the migration lock
  edits, failures

dbVars == <<rows, nextRank, deployed>>
procVars == <<cmd, scripts, chosen>>
vars == <<dbVars, content, procVars, lock, edits, failures>>

RowTypes == VersionedTypes \cup {"REPEATABLE", "UNDO_SQL", "BASELINE", "DELETE"}
Row == [type : RowTypes, script : Script \cup {NoScript}, version : Version \cup {NoVersion},
        sum : Sum \cup {Absent}, ok : BOOLEAN]

Stages == {"none", "validate", "wait"} \cup AllCommands
PartialFunction(f, S, T) == DOMAIN f \subseteq S /\ \A x \in DOMAIN f : f[x] \in T

\* A row, its script, version and type are what repair and undo go by.
RowFits(r) ==
  /\ r \in Row
  /\ r.type = "BASELINE" => r.script = NoScript /\ r.version \in Version /\ r.ok
  /\ r.type # "BASELINE" => r.script \in Script /\ r.version = VersionOf[r.script]
  /\ r.type \notin {"BASELINE", "DELETE"} => r.type = TypeOf[r.script]
  /\ r.type = "DELETE" => r.ok

TypeOK ==
  /\ nextRank \in Nat \ {0}
  /\ DOMAIN rows \subseteq 1 .. (nextRank - 1)
  /\ \A i \in DOMAIN rows : RowFits(rows[i])
  /\ deployed \in [Script -> Sum \cup {Absent}]
  /\ content \in [Script -> Sum \cup {Absent}]
  /\ cmd \in [Proc -> Stages]
  /\ DOMAIN scripts = Proc /\ DOMAIN chosen = Proc
  /\ \A p \in Proc : PartialFunction(scripts[p], Script, Sum \cup {Absent})
  /\ \A p \in Proc : PartialFunction(chosen[p], 1 .. (nextRank - 1), Script)
  /\ lock \in Proc \cup {NoProc}
  /\ edits \in 0 .. MaxEdits /\ failures \in 0 .. MaxFailures

Init ==
  /\ rows = [i \in {} |-> NoVersion] /\ nextRank = 1
  /\ deployed = [s \in Script |-> Absent]
  /\ content = [s \in Script |-> 1]
  /\ cmd = [p \in Proc |-> "none"]
  /\ scripts = [p \in Proc |-> [s \in {} |-> 1]]
  /\ chosen = [p \in Proc |-> [i \in {} |-> NoVersion]]
  /\ lock = NoProc
  /\ edits = 0 /\ failures = 0

-----------------------------------------------------------------------------
FileRow(s, sum, success) ==
  [type |-> TypeOf[s], script |-> s, version |-> VersionOf[s], sum |-> sum, ok |-> success]

DeleteRow(s) ==
  [type |-> "DELETE", script |-> s, version |-> VersionOf[s], sum |-> Absent, ok |-> TRUE]

BaselineRow(v) ==
  [type |-> "BASELINE", script |-> NoScript, version |-> v, sum |-> Absent, ok |-> TRUE]

\* Faulty Record: ranks are counted, COUNT(*) + 1.
RecordCounting(row) ==
  /\ rows' = [i \in DOMAIN rows \cup {nextRank} |-> IF i = nextRank THEN row ELSE rows[i]]
  /\ nextRank' = Cardinality(DOMAIN rows \cup {nextRank}) + 1

\* record_migration: the row gets the next rank.
Record(row) ==
  /\ rows' = [i \in DOMAIN rows \cup {nextRank} |-> IF i = nextRank THEN row ELSE rows[i]]
  /\ nextRank' = nextRank + 1

NoScripts == [s \in {} |-> 1]
NoRows == [i \in {} |-> NoVersion]

Load(S) == [s \in S |-> content[s]]
ScriptsOf(R) == [i \in R |-> rows[i].script]
Without(f, x) == [y \in DOMAIN f \ {x} |-> f[y]]

Step(p, stage, loaded, picked) ==
  /\ cmd' = [cmd EXCEPT ![p] = stage]
  /\ scripts' = [scripts EXCEPT ![p] = loaded]
  /\ chosen' = [chosen EXCEPT ![p] = picked]

\* The command ends; migrate gives the lock back.
Finish(p) ==
  /\ Step(p, "none", NoScripts, NoRows)
  /\ lock' = IF lock = p THEN NoProc ELSE lock

\* A process in migrate's preparations is running migrate.
Running(p) == IF cmd[p] \in {"validate", "wait"} THEN "migrate" ELSE cmd[p]

MayStart(p, command) ==
  /\ cmd[p] = "none" /\ command \in Commands
  /\ nextRank <= MaxRank
  /\ \A q \in Proc \ {p} : cmd[q] # "none" => {command, Running(q)} \in MayOverlap

-----------------------------------------------------------------------------
(* migrate, with and without --mark-as-executed *)

\* The script files are read here and not again.
PlanMigrate(p, command) ==
  /\ command \in {"migrate", "mark"} /\ MayStart(p, command)
  /\ PendingScripts(rows, content) # {}
  /\ Step(p, IF command = "mark" THEN "mark" ELSE "validate",
          Load(PendingScripts(rows, content)), NoRows)
  /\ UNCHANGED <<dbVars, content, lock, edits, failures>>

\* The validator reads history and files on its own.
Validate(p) ==
  /\ cmd[p] = "validate"
  /\ IF ValidationFails(rows, content) THEN Finish(p)
     ELSE Step(p, "wait", scripts[p], NoRows) /\ UNCHANGED lock
  /\ UNCHANGED <<dbVars, content, edits, failures>>

\* Faulty AcquireLock: runs everything it planned before it had the lock.
AcquireUnchecked(p) ==
  /\ cmd[p] = "wait" /\ lock = NoProc
  /\ Step(p, "migrate", scripts[p], NoRows)
  /\ lock' = p
  /\ UNCHANGED <<dbVars, content, edits, failures>>

\* Takes the lock and drops what another process has applied meanwhile.
AcquireLock(p) ==
  /\ cmd[p] = "wait" /\ lock = NoProc
  /\ LET left == DOMAIN scripts[p] \ AlreadyApplied(rows)
     IN IF left = {} THEN Finish(p)
        ELSE /\ Step(p, "migrate", [s \in left |-> scripts[p][s]], NoRows)
             /\ lock' = p
  /\ UNCHANGED <<dbVars, content, edits, failures>>

\* Versioned scripts go first, by version.
Before(s, t) ==
  \/ s \in VersionedScripts /\ t \notin VersionedScripts
  \/ /\ s \in VersionedScripts /\ t \in VersionedScripts
     /\ Order[VersionOf[s]] < Order[VersionOf[t]]

IsNext(p, s) == s \in DOMAIN scripts[p] /\ \A t \in DOMAIN scripts[p] : ~Before(t, s)

\* One of the scripts is through.
Proceed(p, s) ==
  IF DOMAIN scripts[p] = {s} THEN Finish(p)
  ELSE Step(p, cmd[p], Without(scripts[p], s), NoRows) /\ UNCHANGED lock

RunScript(p, s) ==
  /\ cmd[p] = "migrate" /\ IsNext(p, s)
  /\ Record(FileRow(s, scripts[p][s], TRUE))
  /\ deployed' = [deployed EXCEPT ![s] = scripts[p][s]]
  /\ Proceed(p, s)
  /\ UNCHANGED <<content, edits, failures>>

\* The transaction is rolled back, a FAILED row is written, migrate stops.
ScriptFails(p, s) ==
  /\ cmd[p] = "migrate" /\ IsNext(p, s)
  /\ failures < MaxFailures /\ failures' = failures + 1
  /\ Record(FileRow(s, scripts[p][s], FALSE))
  /\ Finish(p)
  /\ UNCHANGED <<deployed, content, edits>>

\* --mark-as-executed: a successful row for each script, without the lock and
\* without another look at the history.  The operator says that the database
\* is as if the script had run.
MarkAsExecuted(p, s) ==
  /\ cmd[p] = "mark" /\ IsNext(p, s)
  /\ Record(FileRow(s, scripts[p][s], TRUE))
  /\ deployed' = [deployed EXCEPT ![s] = scripts[p][s]]
  /\ Proceed(p, s)
  /\ UNCHANGED <<content, edits, failures>>

-----------------------------------------------------------------------------
(* undo *)

UndoScripts == {s \in Script : TypeOf[s] = "UNDO_SQL"}

BeginUndo(p, command, R) ==
  /\ MayStart(p, command)
  /\ R # {}
  /\ Step(p, command, Load({s \in UndoScripts : content[s] # Absent}), ScriptsOf(R))
  /\ UNCHANGED <<dbVars, content, lock, edits, failures>>

PlanUndo(p) == BeginUndo(p, "undo", LatestToUndo(rows))

\* One version that must not be undone again makes the whole command fail.
PlanUndoTo(p, target) ==
  /\ \A i \in AboveTarget(rows, target) : CanUndo(rows, rows[i].version)
  /\ BeginUndo(p, "undoTo", AboveTarget(rows, target))

\* The newest row that is left.  Without an undo script the command fails.
UndoNext(p, i, u) ==
  /\ cmd[p] \in {"undo", "undoTo"}
  /\ i \in DOMAIN chosen[p] /\ \A j \in DOMAIN chosen[p] : j <= i
  /\ u \in DOMAIN scripts[p] /\ VersionOf[u] = VersionOf[chosen[p][i]]

RunUndo(p, i, u) ==
  /\ UndoNext(p, i, u)
  /\ Record(FileRow(u, scripts[p][u], TRUE))
  /\ deployed' = [s \in Script |->
       IF s \in VersionedScripts /\ VersionOf[s] = VersionOf[u] THEN Absent ELSE deployed[s]]
  /\ IF DOMAIN chosen[p] = {i} THEN Finish(p)
     ELSE Step(p, cmd[p], scripts[p], Without(chosen[p], i)) /\ UNCHANGED lock
  /\ UNCHANGED <<content, edits, failures>>

UndoFails(p, i, u) ==
  /\ UndoNext(p, i, u)
  /\ failures < MaxFailures /\ failures' = failures + 1
  /\ Record(FileRow(u, scripts[p][u], FALSE))
  /\ Finish(p)
  /\ UNCHANGED <<deployed, content, edits>>

-----------------------------------------------------------------------------
(* repair and baseline *)

\* Absent stands for deleting the script's FAILED rows, a checksum for writing
\* it into all rows of the script.
Repairs ==
  [s \in FailedScripts(rows) \cup ChangedRepeatables(rows, content)
           \cup DriftedScripts(rows, content)
     |-> IF s \in FailedScripts(rows) THEN Absent ELSE content[s]]

PlanRepair(p) ==
  /\ MayStart(p, "repair")
  /\ ~NothingToRepair(rows, content) /\ ~RepairRefused(rows, content)
  /\ Step(p, "repair", Repairs, ScriptsOf(MissingRows(rows, content)))
  /\ UNCHANGED <<dbVars, content, lock, edits, failures>>

\* A checksum that is repaired also marks the row as successful.
Repaired(fixes, row) ==
  IF row.script \in DOMAIN fixes /\ fixes[row.script] # Absent
    THEN [row EXCEPT !.sum = fixes[row.script], !.ok = TRUE]
    ELSE row

\* Faulty RemovedRows: every row of a script that has failed.
RemovedWithSuccesses(fixes) ==
  {i \in DOMAIN rows : /\ rows[i].script \in DOMAIN fixes
                       /\ fixes[rows[i].script] = Absent}

RemovedRows(fixes) ==
  {i \in DOMAIN rows : /\ rows[i].script \in DOMAIN fixes
                       /\ fixes[rows[i].script] = Absent /\ ~rows[i].ok}

\* One transaction: checksums, DELETE rows for missing scripts, FAILED rows.
RunRepair(p) ==
  /\ cmd[p] = "repair"
  /\ LET gone == chosen[p]
         rank(m) == nextRank + Cardinality({k \in DOMAIN gone : k < m})
         new == {rank(m) : m \in DOMAIN gone}
     IN /\ rows' = [i \in (DOMAIN rows \ RemovedRows(scripts[p])) \cup new |->
                      IF i \in new
                        THEN DeleteRow(gone[CHOOSE m \in DOMAIN gone : rank(m) = i])
                        ELSE Repaired(scripts[p], rows[i])]
        /\ nextRank' = nextRank + Cardinality(DOMAIN gone)
  /\ Finish(p)
  /\ UNCHANGED <<deployed, content, edits, failures>>

\* _check_baseline_safety: only an empty history gets a baseline.
PlanBaseline(p) ==
  /\ MayStart(p, "baseline")
  /\ rows = NoRows
  /\ Step(p, "baseline", NoScripts, NoRows)
  /\ UNCHANGED <<dbVars, content, lock, edits, failures>>

RunBaseline(p, v) ==
  /\ cmd[p] = "baseline"
  /\ Record(BaselineRow(v))
  /\ Finish(p)
  /\ UNCHANGED <<deployed, content, edits, failures>>

-----------------------------------------------------------------------------
(* The environment. *)

\* The process dies, or an error or a lock timeout ends its command between
\* two steps.
Abort(p) ==
  /\ cmd[p] # "none"
  /\ Finish(p)
  /\ UNCHANGED <<dbVars, content, edits, failures>>

Edit(s, sum) ==
  /\ s \in Editable /\ sum # content[s]
  /\ edits < MaxEdits /\ edits' = edits + 1
  /\ content' = [content EXCEPT ![s] = sum]
  /\ UNCHANGED <<dbVars, procVars, lock, failures>>

Next ==
  \/ \E p \in Proc :
       \/ Validate(p) \/ AcquireLock(p)
       \/ PlanUndo(p) \/ PlanRepair(p) \/ RunRepair(p) \/ PlanBaseline(p) \/ Abort(p)
       \/ \E command \in Commands : PlanMigrate(p, command)
       \/ \E s \in Script : RunScript(p, s) \/ ScriptFails(p, s) \/ MarkAsExecuted(p, s)
       \/ \E t \in Targets : PlanUndoTo(p, t)
       \/ \E i \in DOMAIN chosen[p] : \E u \in Script : RunUndo(p, i, u) \/ UndoFails(p, i, u)
       \/ \E v \in BaselineAt : RunBaseline(p, v)
  \/ \E s \in Script, sum \in Sum \cup {Absent} : Edit(s, sum)

Spec == Init /\ [][Next]_vars
-----------------------------------------------------------------------------
\* The history tells the truth about the database: a versioned script is
\* deployed exactly when its version has a successful execution that no
\* successful undo follows, whatever commands ran, failed or were cut off.
HistoryTruthful ==
  \A s \in VersionedScripts :
    deployed[s] # Absent <=>
      \E i \in Applies(rows, VersionOf[s]) : \A u \in Undos(rows, VersionOf[s]) : u < i

\* Of the scripts that are there migrate finds pending exactly those that are
\* not deployed, but for versions with a FAILED row or under the baseline.
PendingTruthful ==
  \A s \in VersionedScripts :
    /\ VersionPending(rows, VersionOf[s]) => deployed[s] = Absent
    /\ deployed[s] = Absent =>
         \/ VersionPending(rows, VersionOf[s])
         \/ CoveredByBaseline(rows, VersionOf[s])
         \/ \E i \in FailedRows(rows) : rows[i].version = VersionOf[s]

\* What stops migrate's validation repair can put right: when repair finds
\* nothing to do, validation passes.  (Not for a deleted script that is back,
\* and not for a changed Python script.)
RepairCoversValidation ==
  (/\ NothingToRepair(rows, content)
   /\ Reappeared(rows, content) = {}
   /\ \A s \in Script : TypeOf[s] = "PYTHON" => ~Modified(rows, content, s))
  => ~ValidationFails(rows, content)

\* migrate never runs a script on a database that has it already.
NeverDeployedTwice ==
  [][\A p \in Proc, s \in VersionedScripts : RunScript(p, s) => deployed[s] = Absent]_vars

\* Undo without a target takes the highest version that is deployed, when that
\* is an SQL script.
UndoTakesLatest ==
  [][\A p \in Proc : PlanUndo(p) =>
       \A i \in DOMAIN chosen'[p], s \in VersionedScripts :
         deployed[s] # Absent /\ TypeOf[s] = "SQL" =>
           Order[VersionOf[s]] <= Order[VersionOf[chosen'[p][i]]]]_vars

\* One undo command undoes a version at most once ("cannot undo multiple times
\* without reapplying", migration_rules.py).
NoDoubleUndo ==
  [][\A p \in Proc, u \in Script : \A i \in DOMAIN chosen[p] :
       RunUndo(p, i, u) =>
         \E s \in VersionedScripts : VersionOf[s] = VersionOf[u] /\ deployed[s] # Absent]_vars
=============================================================================
