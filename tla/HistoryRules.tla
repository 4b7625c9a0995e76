---------------------------- MODULE HistoryRules ----------------------------
(***************************************************************************)
(* What dblift reads off its history table: which versions count as        *)
(* executed, undone and applied again, which scripts are pending, which     *)
(* version an undo takes, whether migrate may run at all and what repair    *)
(* would change.  The answers come from three classes that walk over the    *)
(* same rows independently of each other (MigrationDataService,             *)
(* MigrationStateManager, MigrationRules), and from the validator.          *)
(*                                                                         *)
(* `rows` is a function from installed ranks, which the database hands out  *)
(* and never reuses, to rows; `content` gives the checksum of each file, or *)
(* Absent.  A script name determines the type and the version of a script.  *)
(***************************************************************************)
EXTENDS Integers, FiniteSets

CONSTANTS
  Script,     \* names of script files
  TypeOf,     \* SQL, PYTHON, REPEATABLE or UNDO_SQL
  VersionOf,  \* version of each script, NoVersion for a repeatable one
  Version,
  Order,      \* compare_versions: versions that differ may compare equal
  NoVersion,
  Absent,     \* "checksum" of a file that is not there
  Sum         \* checksums

VersionedTypes == {"SQL", "PYTHON"}

HistoryRulesAssumption ==
  /\ TypeOf \in [Script -> VersionedTypes \cup {"REPEATABLE", "UNDO_SQL"}]
  /\ VersionOf \in [Script -> Version \cup {NoVersion}]
  /\ NoVersion \notin Version
  /\ \A s \in Script : VersionOf[s] = NoVersion <=> TypeOf[s] = "REPEATABLE"
  /\ \A s, t \in Script :   \* _validate_duplicate_versions
       /\ TypeOf[s] \in VersionedTypes /\ TypeOf[t] \in VersionedTypes
       /\ VersionOf[s] = VersionOf[t]
       => s = t
  /\ Order \in [Version -> Nat]
  /\ Absent \notin Sum

VersionedScripts == {s \in Script : TypeOf[s] \in VersionedTypes}
RepeatableScripts == {s \in Script : TypeOf[s] = "REPEATABLE"}

-----------------------------------------------------------------------------
(* MigrationDataService._build_analysis_context. *)

Done(rows, types, v) ==
  {i \in DOMAIN rows : rows[i].type \in types /\ rows[i].version = v /\ rows[i].ok}

Applies(rows, v) == Done(rows, VersionedTypes, v)
Undos(rows, v) == Done(rows, {"UNDO_SQL"}, v)

UndoneVersions(rows) == {v \in Version : Undos(rows, v) # {}}

\* The first undo counts, and a versioned row after it whether or not it was
\* successful.
ReappliedVersions(rows) ==
  {v \in UndoneVersions(rows) :
     /\ Applies(rows, v) # {}
     /\ \E i \in DOMAIN rows, u \in Undos(rows, v) :
          /\ rows[i].type \in VersionedTypes /\ rows[i].version = v /\ i > u
          /\ \A w \in Undos(rows, v) : u <= w}

ListedUndone(rows) == UndoneVersions(rows) \ ReappliedVersions(rows)

Baselines(rows) == {i \in DOMAIN rows : rows[i].type = "BASELINE"}

\* Only the first baseline row counts.
CoveredByBaseline(rows, v) ==
  \E b \in Baselines(rows) :
    /\ \A c \in Baselines(rows) : b <= c
    /\ Order[v] <= Order[rows[b].version]

-----------------------------------------------------------------------------
(* MigrationStateManager. *)

FailedRows(rows) == {i \in DOMAIN rows : ~rows[i].ok /\ rows[i].type # "DELETE"}

DeletedScripts(rows) ==
  {rows[i].script : i \in {j \in DOMAIN rows : rows[j].type = "DELETE"}}

ExecutedVersions(rows) ==
  {v \in Version \ ListedUndone(rows) : Applies(rows, v) # {}}
    \cup {rows[i].version : i \in FailedRows(rows)}

\* Faulty EffectivelyUndone: looks at the first undo, as the other class does.
FirstUndoIsLast(rows) ==
  {v \in Version : \E u \in Undos(rows, v) :
     /\ \A i \in Applies(rows, v) : i < u
     /\ \A w \in Undos(rows, v) : u <= w}

\* Here the last undo of a version is compared with its last successful
\* execution: undone versions that are pending whatever else is true.
EffectivelyUndone(rows) ==
  {v \in Version : \E u \in Undos(rows, v) : \A i \in Applies(rows, v) : i < u}

VersionPending(rows, v) ==
  \/ v \in EffectivelyUndone(rows)
  \/ v \notin ExecutedVersions(rows) /\ ~CoveredByBaseline(rows, v)

Runs(rows, s) ==
  {i \in DOMAIN rows : rows[i].type = "REPEATABLE" /\ rows[i].script = s /\ rows[i].ok}

\* A repeatable script is pending when it has never been executed, or when its
\* file differs from the checksum of its last successful row.
RepeatablePending(rows, s, sum) ==
  IF Runs(rows, s) = {}
    THEN \A i \in FailedRows(rows) : rows[i].script # s
    ELSE \E i \in Runs(rows, s) : rows[i].sum # sum /\ \A j \in Runs(rows, s) : j <= i

PendingScripts(rows, content) ==
  {s \in VersionedScripts : content[s] # Absent /\ VersionPending(rows, VersionOf[s])}
    \cup {s \in RepeatableScripts :
            content[s] # Absent /\ RepeatablePending(rows, s, content[s])}

\* applied_objects: the rows of undone versions are left out.
Listed(rows) ==
  {i \in DOMAIN rows :
     rows[i].type \in VersionedTypes => rows[i].version \notin ListedUndone(rows)}

-----------------------------------------------------------------------------
(* MigrationRules.should_undo_version and UndoCommand. *)

\* Only SQL rows count as a new execution after an undo.
CanUndo(rows, v) ==
  \A u \in Undos(rows, v) : \E i \in Done(rows, {"SQL"}, v) : u < i

\* The successful versioned rows that undo goes through.
UndoCandidates(rows) ==
  {i \in Listed(rows) : rows[i].type \in VersionedTypes /\ rows[i].ok}

\* Faulty LatestToUndo: the row that was written last.
LastExecuted(rows) ==
  LET can == {i \in UndoCandidates(rows) : CanUndo(rows, rows[i].version)}
  IN {i \in can : \A j \in can : j <= i}

\* Without a target: one row of the highest version that can be undone (a
\* stable sort, so the first one of them).
LatestToUndo(rows) ==
  LET can == {i \in UndoCandidates(rows) : CanUndo(rows, rows[i].version)}
      order(i) == Order[rows[i].version]
  IN {i \in can : \A j \in can : order(j) < order(i) \/ (order(j) = order(i) /\ i <= j)}

\* With a target the rows are walked backwards, up to the first row, of
\* whatever type, of a version that is not above the target.
AboveTarget(rows, target) ==
  {i \in UndoCandidates(rows) :
     /\ Order[rows[i].version] > Order[target]
     /\ \A j \in Listed(rows) :
          j > i => (rows[j].version \in Version => Order[rows[j].version] > Order[target])}

-----------------------------------------------------------------------------
(* MigrationValidator.validate_migrations, without --strict. *)

\* Rows of a script that count as its application, the last one first.
LastApplied(rows, s) ==
  LET applied == {i \in DOMAIN rows : /\ rows[i].script = s /\ rows[i].ok
                                      /\ rows[i].type \notin {"DELETE", "UNDO_SQL"}}
  IN {i \in applied : \A j \in applied : j <= i}

Modified(rows, content, s) ==
  content[s] # Absent /\ \E i \in LastApplied(rows, s) : rows[i].sum # content[s]

Reappeared(rows, content) == {s \in DeletedScripts(rows) : content[s] # Absent}

\* A repeatable script whose last row is a failure with the same checksum.
FailsUnchanged(rows, content, s) ==
  \E i \in DOMAIN rows :
    /\ rows[i].script = s /\ ~rows[i].ok /\ rows[i].sum = content[s]
    /\ \A j \in DOMAIN rows : rows[j].script = s => j <= i

Present(content) == {s \in Script : content[s] # Absent}

ValidationFails(rows, content) ==
  IF Present(content) \subseteq RepeatableScripts
    THEN \E s \in Present(content) : FailsUnchanged(rows, content, s)
    ELSE \/ FailedRows(rows) # {}
         \/ \E s \in VersionedScripts : Modified(rows, content, s)
         \/ Reappeared(rows, content) # {}

\* MigrateCommand._filter_already_applied, once migrate has the lock.
AlreadyApplied(rows) ==
  {s \in VersionedScripts :
     \E i \in Done(rows, {TypeOf[s]}, VersionOf[s]) :
       \A u \in Undos(rows, VersionOf[s]) : u < i}

-----------------------------------------------------------------------------
(* RepairCommand: what it finds to repair. *)

MissingRows(rows, content) ==
  {i \in Listed(rows) :
     /\ rows[i].type \notin {"DELETE", "BASELINE"}
     /\ rows[i].script \notin DeletedScripts(rows)
     /\ content[rows[i].script] = Absent}

FailedScripts(rows) == {rows[i].script : i \in FailedRows(rows)}

\* Repeatable scripts that will run again because their file has changed.
ChangedRepeatables(rows, content) ==
  {s \in RepeatableScripts :
     content[s] # Absent /\ Runs(rows, s) # {} /\ RepeatablePending(rows, s, content[s])}

\* Faulty DriftedScripts: only the first row of a script is compared.
DriftOfFirstRow(rows, content) ==
  {s \in Script \ (FailedScripts(rows)
                     \cup {rows[i].script : i \in MissingRows(rows, content)}) :
     \E i \in DOMAIN rows :
       /\ rows[i].type = "SQL" /\ rows[i].script = s
       /\ content[s] \notin {Absent, rows[i].sum}
       /\ \A j \in DOMAIN rows : rows[j].script = s => i <= j}

\* A script is not looked at again when there is another repair for it.
DriftedScripts(rows, content) ==
  {s \in Script \ (FailedScripts(rows)
                     \cup {rows[i].script : i \in MissingRows(rows, content)}) :
     \E i \in DOMAIN rows :
       /\ rows[i].type = "SQL" /\ rows[i].script = s
       /\ content[s] \notin {Absent, rows[i].sum}}

\* The safety gate: an empty directory would delete everything.
RepairRefused(rows, content) ==
  Present(content) = {} /\ MissingRows(rows, content) # {}

NothingToRepair(rows, content) ==
  /\ ChangedRepeatables(rows, content) = {} /\ DriftedScripts(rows, content) = {}
  /\ MissingRows(rows, content) = {} /\ FailedScripts(rows) = {}
=============================================================================
