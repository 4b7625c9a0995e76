----------------------- MODULE HistoryCommands_proofs -----------------------
(***************************************************************************)
(* The history table tells which versions are deployed, for any scripts,    *)
(* any number of processes and any overlap of commands but one: repair and  *)
(* migrate at the same time.                                                *)
(***************************************************************************)
EXTENDS HistoryCommands, FiniteSetTheorems, TLAPS

\* repair writes a checksum into all rows of a script, and marks them as
\* successful, from what it read before; a migrate in between may have written
\* a FAILED row of that script.
NoRepairDuringMigrate == {"migrate", "repair"} \notin MayOverlap

MigrateStages == {"validate", "wait", "migrate"}
Migrating(p) == cmd[p] \in MigrateStages

NoneFailed(R, s) == \A i \in DOMAIN R : R[i].script = s => R[i].ok

\* What the scripts are that a process holds, by its command.
HoldsFor(R, c, S) ==
  /\ c \in MigrateStages \cup {"mark"} =>
       \A s \in DOMAIN S : TypeOf[s] # "UNDO_SQL" /\ S[s] \in Sum
  /\ c \in {"undo", "undoTo"} =>
       \A u \in DOMAIN S : TypeOf[u] = "UNDO_SQL" /\ S[u] \in Sum
  /\ c = "repair" =>
       \A s \in DOMAIN S : S[s] # Absent => TypeOf[s] # "UNDO_SQL" /\ NoneFailed(R, s)

Holds(p) == HoldsFor(rows, cmd[p], scripts[p])

Apart == \A p, q \in Proc : cmd[p] = "repair" => ~Migrating(q)

IInv == TypeOK /\ Apart /\ (\A p \in Proc : Holds(p)) /\ HistoryTruthful

-----------------------------------------------------------------------------
(* Rows *)

LEMMA ScriptFacts ==
  /\ \A s \in Script : TypeOf[s] \in {"SQL", "PYTHON", "REPEATABLE", "UNDO_SQL"}
  /\ \A s \in Script : VersionOf[s] \in Version \cup {NoVersion}
  /\ \A s \in VersionedScripts : s \in Script /\ VersionOf[s] \in Version
  /\ \A s \in Script : TypeOf[s] = "REPEATABLE" => VersionOf[s] = NoVersion
  /\ \A s, t \in VersionedScripts : VersionOf[s] = VersionOf[t] => s = t
  /\ NoVersion \notin Version /\ NoScript \notin Script /\ Absent \notin Sum
  BY HistoryCommandsAssumption
     DEF HistoryCommandsAssumption, HistoryRulesAssumption, VersionedScripts, VersionedTypes

\* A row of a script file is well formed.
LEMMA FileRowFits ==
  ASSUME NEW s \in Script, NEW sum \in Sum \cup {Absent}, NEW success \in BOOLEAN
  PROVE  RowFits(FileRow(s, sum, success))
  BY ScriptFacts DEF RowFits, FileRow, Row, RowTypes, VersionedTypes

\* Recording adds one row, with a rank that no row has.
LEMMA Recorded ==
  ASSUME TypeOK, NEW row, RowFits(row), Record(row)
  PROVE  /\ nextRank' \in Nat \ {0} /\ nextRank' = nextRank + 1
         /\ DOMAIN rows' = DOMAIN rows \cup {nextRank}
         /\ nextRank \notin DOMAIN rows
         /\ \A i \in DOMAIN rows : i < nextRank
         /\ DOMAIN rows' \subseteq 1 .. (nextRank' - 1)
         /\ rows'[nextRank] = row
         /\ \A i \in DOMAIN rows : rows'[i] = rows[i]
         /\ \A i \in DOMAIN rows' : RowFits(rows'[i])
<1>1. /\ nextRank \in Nat \ {0} /\ DOMAIN rows \subseteq 1 .. (nextRank - 1)
      /\ nextRank' = nextRank + 1
      /\ \A i \in DOMAIN rows : RowFits(rows[i])
  BY DEF TypeOK, Record
<1>2. rows' = [i \in DOMAIN rows \cup {nextRank} |-> IF i = nextRank THEN row ELSE rows[i]]
  BY DEF Record
<1>3. nextRank \notin DOMAIN rows /\ \A i \in DOMAIN rows : i < nextRank
  BY <1>1
<1>4. /\ DOMAIN rows' = DOMAIN rows \cup {nextRank}
      /\ rows'[nextRank] = row
      /\ \A i \in DOMAIN rows : rows'[i] = rows[i]
  BY <1>2, <1>3
<1>5. DOMAIN rows' \subseteq 1 .. (nextRank' - 1)
  BY <1>1, <1>4
<1>6. \A i \in DOMAIN rows' : RowFits(rows'[i])
  <2>1. SUFFICES ASSUME NEW i \in DOMAIN rows' PROVE RowFits(rows'[i])
    OBVIOUS
  <2>2. CASE i = nextRank
    BY <2>2, <1>4
  <2>3. CASE i \in DOMAIN rows
    <3>1. rows'[i] = rows[i] /\ RowFits(rows[i])
      BY <2>3, <1>4, <1>1
    <3> QED
      BY <3>1
  <2> QED
    BY <2>1, <2>2, <2>3, <1>4
<1> QED
  BY <1>1, <1>3, <1>4, <1>5, <1>6

\* What the new row adds to the executions and undos of a version.
LEMMA DoneRecorded ==
  ASSUME TypeOK, NEW row, RowFits(row), Record(row), NEW types, NEW v
  PROVE  Done(rows', types, v) =
           Done(rows, types, v) \cup
             (IF row.type \in types /\ row.version = v /\ row.ok THEN {nextRank} ELSE {})
<1>1. /\ DOMAIN rows' = DOMAIN rows \cup {nextRank}
      /\ nextRank \notin DOMAIN rows
      /\ rows'[nextRank] = row
      /\ \A i \in DOMAIN rows : rows'[i] = rows[i]
  BY Recorded
<1> QED
  BY <1>1 DEF Done

\* A row that is neither a successful execution nor a successful undo leaves
\* both as they are.
LEMMA OtherRow ==
  ASSUME TypeOK, NEW row, RowFits(row), Record(row),
         ~row.ok \/ row.type \notin {"SQL", "PYTHON", "UNDO_SQL"}
  PROVE  \A v : Applies(rows', v) = Applies(rows, v) /\ Undos(rows', v) = Undos(rows, v)
<1>1. SUFFICES ASSUME NEW v
               PROVE  Applies(rows', v) = Applies(rows, v) /\ Undos(rows', v) = Undos(rows, v)
  OBVIOUS
<1>2. Applies(rows', v) = Applies(rows, v) \cup
        (IF row.type \in VersionedTypes /\ row.version = v /\ row.ok THEN {nextRank} ELSE {})
  BY DoneRecorded DEF Applies
<1>3. Undos(rows', v) = Undos(rows, v) \cup
        (IF row.type \in {"UNDO_SQL"} /\ row.version = v /\ row.ok THEN {nextRank} ELSE {})
  BY DoneRecorded DEF Undos
<1> QED
  BY <1>2, <1>3 DEF VersionedTypes

-----------------------------------------------------------------------------
(* repair *)

\* The ranks that repair gives to the DELETE rows it writes.
RankOf(gone, m) == nextRank + Cardinality({k \in DOMAIN gone : k < m})

LEMMA RanksAreNew ==
  ASSUME nextRank \in Nat \ {0}, NEW gone, DOMAIN gone \subseteq 1 .. (nextRank - 1)
  PROVE  /\ Cardinality(DOMAIN gone) \in Nat
         /\ \A m \in DOMAIN gone :
              RankOf(gone, m) \in nextRank .. (nextRank + Cardinality(DOMAIN gone) - 1)
<1>1. IsFiniteSet(DOMAIN gone) /\ Cardinality(DOMAIN gone) \in Nat
  <2>1. IsFiniteSet(1 .. (nextRank - 1))
    BY FS_Interval
  <2> QED
    BY <2>1, FS_Subset, FS_CardinalityType
<1>2. ASSUME NEW m \in DOMAIN gone
      PROVE  RankOf(gone, m) \in nextRank .. (nextRank + Cardinality(DOMAIN gone) - 1)
  <2> DEFINE below == {k \in DOMAIN gone : k < m}
  <2>1. below \subseteq DOMAIN gone /\ m \in DOMAIN gone /\ m \notin below
    <3>1. m \in Nat
      BY <1>2
    <3> QED
      BY <3>1, <1>2
  <2>2. Cardinality(below) \in Nat
    BY <1>1, <2>1, FS_Subset, FS_CardinalityType
  <2>3. Cardinality(below) < Cardinality(DOMAIN gone)
    <3>1. below # DOMAIN gone
      BY <2>1
    <3> HIDE DEF below
    <3> QED
      BY <3>1, <2>1, <2>2, <1>1, FS_Subset
  <2>4. RankOf(gone, m) = nextRank + Cardinality(below)
    BY DEF RankOf
  <2> HIDE DEF below
  <2> QED
    BY <2>2, <2>3, <2>4, <1>1
<1> QED
  BY <1>1, <1>2

\* What repair does to the rows: it adds DELETE rows, removes failed ones and
\* writes checksums.
LEMMA RowsRepaired ==
  ASSUME TypeOK, NEW p \in Proc, RunRepair(p)
  PROVE  /\ nextRank' \in Nat \ {0} /\ nextRank <= nextRank'
         /\ DOMAIN rows' \subseteq 1 .. (nextRank' - 1)
         /\ DOMAIN rows \ RemovedRows(scripts[p]) \subseteq DOMAIN rows'
         /\ \A i \in DOMAIN rows' :
              IF i \in DOMAIN rows
                THEN /\ rows'[i] = Repaired(scripts[p], rows[i])
                     /\ i \notin RemovedRows(scripts[p])
                ELSE \E s \in Script : rows'[i] = DeleteRow(s)
<1> DEFINE gone == chosen[p]
           new == {RankOf(gone, m) : m \in DOMAIN gone}
           kept == DOMAIN rows \ RemovedRows(scripts[p])
<1>1. /\ nextRank \in Nat \ {0} /\ DOMAIN rows \subseteq 1 .. (nextRank - 1)
      /\ DOMAIN gone \subseteq 1 .. (nextRank - 1)
      /\ \A m \in DOMAIN gone : gone[m] \in Script
  BY DEF TypeOK, PartialFunction
<1>2. /\ Cardinality(DOMAIN gone) \in Nat
      /\ \A m \in DOMAIN gone :
           RankOf(gone, m) \in nextRank .. (nextRank + Cardinality(DOMAIN gone) - 1)
  <2> HIDE DEF gone
  <2> QED
    BY <1>1, RanksAreNew
<1>3. /\ rows' = [i \in kept \cup new |->
           IF i \in new
             THEN DeleteRow(gone[CHOOSE m \in DOMAIN gone : RankOf(gone, m) = i])
             ELSE Repaired(scripts[p], rows[i])]
      /\ nextRank' = nextRank + Cardinality(DOMAIN gone)
  BY DEF RunRepair, RankOf
<1>4. \A i \in new : i \in nextRank .. (nextRank' - 1)
  <2>1. SUFFICES ASSUME NEW i \in new PROVE i \in nextRank .. (nextRank' - 1)
    OBVIOUS
  <2>2. PICK m \in DOMAIN gone : i = RankOf(gone, m)
    OBVIOUS
  <2>3. i \in nextRank .. (nextRank + Cardinality(DOMAIN gone) - 1)
    BY <1>2, <2>2
  <2>4. nextRank' = nextRank + Cardinality(DOMAIN gone)
    BY <1>3
  <2> HIDE DEF new, gone
  <2> QED
    BY <2>3, <2>4, <1>1, <1>2
<1>5. \A i \in new : i \notin DOMAIN rows
  <2>1. SUFFICES ASSUME NEW i \in new PROVE i \notin DOMAIN rows
    OBVIOUS
  <2>2. i \in nextRank .. (nextRank' - 1)
    BY <1>4
  <2> HIDE DEF new
  <2> QED
    BY <2>2, <1>1, <1>2, <1>3
<1>6. nextRank' \in Nat \ {0} /\ nextRank <= nextRank'
  BY <1>1, <1>2, <1>3
<1>7. DOMAIN rows' = kept \cup new
  BY <1>3
<1>8. DOMAIN rows' \subseteq 1 .. (nextRank' - 1)
  <2> HIDE DEF new
  <2> QED
    BY <1>1, <1>4, <1>6, <1>7
<1>9. ASSUME NEW i \in DOMAIN rows'
      PROVE  IF i \in DOMAIN rows
               THEN rows'[i] = Repaired(scripts[p], rows[i]) /\ i \notin RemovedRows(scripts[p])
               ELSE \E s \in Script : rows'[i] = DeleteRow(s)
  <2>1. CASE i \in new
    <3>1. PICK m \in DOMAIN gone : RankOf(gone, m) = i
      BY <2>1
    <3> DEFINE n == CHOOSE k \in DOMAIN gone : RankOf(gone, k) = i
    <3>2. n \in DOMAIN gone
      BY <3>1
    <3>3. rows'[i] = DeleteRow(gone[n])
      BY <1>3, <2>1
    <3>4. i \notin DOMAIN rows
      BY <1>5, <2>1
    <3> HIDE DEF n
    <3>5. gone[n] \in Script
      BY <3>2, <1>1
    <3> QED
      BY <3>3, <3>4, <3>5
  <2>2. CASE i \notin new
    <3>1. i \in kept
      BY <1>7, <1>9, <2>2
    <3> QED
      BY <1>3, <2>2, <3>1
  <2> QED
    BY <2>1, <2>2
<1> QED
  BY <1>6, <1>7, <1>8, <1>9

-----------------------------------------------------------------------------
(* Type correctness *)

RowsFit ==
  /\ nextRank \in Nat \ {0}
  /\ DOMAIN rows \subseteq 1 .. (nextRank - 1)
  /\ \A i \in DOMAIN rows : RowFits(rows[i])

ProcsFit ==
  /\ cmd \in [Proc -> Stages]
  /\ DOMAIN scripts = Proc /\ DOMAIN chosen = Proc
  /\ \A p \in Proc : PartialFunction(scripts[p], Script, Sum \cup {Absent})
  /\ \A p \in Proc : PartialFunction(chosen[p], 1 .. (nextRank - 1), Script)

RestFits ==
  /\ deployed \in [Script -> Sum \cup {Absent}]
  /\ content \in [Script -> Sum \cup {Absent}]
  /\ lock \in Proc \cup {NoProc}
  /\ edits \in 0 .. MaxEdits /\ failures \in 0 .. MaxFailures

LEMMA TypeParts == TypeOK <=> RowsFit /\ ProcsFit /\ RestFits
  BY DEF TypeOK, RowsFit, ProcsFit, RestFits

LEMMA TypePartsNext == RowsFit' /\ ProcsFit' /\ RestFits' => TypeOK'
  BY DEF TypeOK, RowsFit, ProcsFit, RestFits

LEMMA IntervalGrows ==
  ASSUME NEW m \in Nat, NEW n \in Nat, m <= n
  PROVE  1 .. (m - 1) \subseteq 1 .. (n - 1)
  OBVIOUS

LEMMA StepFits ==
  ASSUME TypeOK, NEW p \in Proc, NEW stage \in Stages, NEW loaded, NEW picked,
         PartialFunction(loaded, Script, Sum \cup {Absent}),
         PartialFunction(picked, 1 .. (nextRank - 1), Script),
         nextRank' \in Nat, nextRank <= nextRank',
         Step(p, stage, loaded, picked)
  PROVE  ProcsFit'
<1>1. /\ cmd' = [cmd EXCEPT ![p] = stage]
      /\ scripts' = [scripts EXCEPT ![p] = loaded]
      /\ chosen' = [chosen EXCEPT ![p] = picked]
  BY DEF Step
<1>2. ProcsFit /\ nextRank \in Nat
  BY TypeParts DEF RowsFit
<1>3. cmd' \in [Proc -> Stages] /\ DOMAIN scripts' = Proc /\ DOMAIN chosen' = Proc
  BY <1>1, <1>2 DEF ProcsFit
<1>4. ASSUME NEW q \in Proc
      PROVE  /\ PartialFunction(scripts'[q], Script, Sum \cup {Absent})
             /\ PartialFunction(chosen'[q], 1 .. (nextRank' - 1), Script)
  <2>1. 1 .. (nextRank - 1) \subseteq 1 .. (nextRank' - 1)
    BY <1>2, IntervalGrows
  <2>2. CASE q = p
    <3>1. scripts'[q] = loaded /\ chosen'[q] = picked
      BY <1>1, <1>2, <2>2 DEF ProcsFit
    <3> QED
      BY <3>1, <2>1 DEF PartialFunction
  <2>3. CASE q # p
    <3>1. scripts'[q] = scripts[q] /\ chosen'[q] = chosen[q]
      BY <1>1, <1>2, <2>3 DEF ProcsFit
    <3>2. /\ PartialFunction(scripts[q], Script, Sum \cup {Absent})
          /\ PartialFunction(chosen[q], 1 .. (nextRank - 1), Script)
      BY <1>2 DEF ProcsFit
    <3> QED
      BY <3>1, <3>2, <2>1 DEF PartialFunction
  <2> QED
    BY <2>2, <2>3
<1> QED
  BY <1>3, <1>4 DEF ProcsFit

LEMMA FinishFits ==
  ASSUME TypeOK, NEW p \in Proc, Finish(p), nextRank' \in Nat, nextRank <= nextRank'
  PROVE  ProcsFit' /\ lock' \in Proc \cup {NoProc}
<1>1. /\ PartialFunction(NoScripts, Script, Sum \cup {Absent})
      /\ PartialFunction(NoRows, 1 .. (nextRank - 1), Script)
  BY DEF NoScripts, NoRows, PartialFunction
<1>2. "none" \in Stages
  BY DEF Stages
<1>3. Step(p, "none", NoScripts, NoRows)
  BY DEF Finish
<1>4. ProcsFit'
  BY <1>1, <1>2, <1>3, StepFits
<1> QED
  BY <1>4 DEF Finish, TypeOK

\* What a process has loaded of some scripts.
LEMMA LoadFits ==
  ASSUME TypeOK, NEW S \in SUBSET Script
  PROVE  PartialFunction(Load(S), Script, Sum \cup {Absent})
  BY DEF TypeOK, Load, PartialFunction

LEMMA WithoutFits ==
  ASSUME NEW f, NEW S, NEW T, NEW x, PartialFunction(f, S, T)
  PROVE  PartialFunction(Without(f, x), S, T)
  BY DEF PartialFunction, Without

LEMMA NothingFits ==
  ASSUME NEW S, NEW T
  PROVE  PartialFunction(NoScripts, S, T) /\ PartialFunction(NoRows, S, T)
  BY DEF NoScripts, NoRows, PartialFunction

\* The scripts of rows that are not baselines.
LEMMA ScriptsOfFit ==
  ASSUME TypeOK, NEW R \in SUBSET DOMAIN rows, \A i \in R : rows[i].type # "BASELINE"
  PROVE  PartialFunction(ScriptsOf(R), 1 .. (nextRank - 1), Script)
<1>1. \A i \in R : rows[i].script \in Script
  BY DEF TypeOK, RowFits
<1> QED
  BY <1>1 DEF TypeOK, ScriptsOf, PartialFunction

\* The rows stay as they are.
LEMMA SameRowsFit ==
  ASSUME TypeOK, UNCHANGED dbVars
  PROVE  RowsFit' /\ nextRank' \in Nat /\ nextRank <= nextRank'
  BY DEF TypeOK, RowsFit, dbVars

LEMMA NewRowFits ==
  ASSUME TypeOK, NEW row, RowFits(row), Record(row)
  PROVE  RowsFit' /\ nextRank' \in Nat /\ nextRank <= nextRank'
<1>1. /\ nextRank' \in Nat \ {0} /\ nextRank' = nextRank + 1
      /\ DOMAIN rows' \subseteq 1 .. (nextRank' - 1)
      /\ \A i \in DOMAIN rows' : RowFits(rows'[i])
  BY Recorded
<1>2. nextRank \in Nat
  BY DEF TypeOK
<1>3. nextRank <= nextRank'
  BY <1>1, <1>2
<1>4. RowsFit'
  BY <1>1 DEF RowsFit, RowFits, Row
<1> QED
  BY <1>1, <1>3, <1>4

\* A script of migrate or mark has been through.
LEMMA ProceedFits ==
  ASSUME TypeOK, NEW p \in Proc, NEW s \in Script, Proceed(p, s),
         nextRank' \in Nat, nextRank <= nextRank'
  PROVE  ProcsFit' /\ lock' \in Proc \cup {NoProc}
<1>1. CASE DOMAIN scripts[p] = {s}
  BY <1>1, FinishFits DEF Proceed
<1>2. CASE DOMAIN scripts[p] # {s}
  <2>1. Step(p, cmd[p], Without(scripts[p], s), NoRows) /\ lock' = lock
    BY <1>2 DEF Proceed
  <2>2. PartialFunction(scripts[p], Script, Sum \cup {Absent}) /\ cmd[p] \in Stages
    BY DEF TypeOK
  <2>3. PartialFunction(Without(scripts[p], s), Script, Sum \cup {Absent})
    BY <2>2, WithoutFits
  <2>4. PartialFunction(NoRows, 1 .. (nextRank - 1), Script)
    BY NothingFits
  <2>5. ProcsFit'
    BY <2>1, <2>2, <2>3, <2>4, StepFits
  <2> QED
    BY <2>1, <2>5 DEF TypeOK
<1> QED
  BY <1>1, <1>2

LEMMA UndoRowsFit ==
  ASSUME TypeOK, NEW R \in SUBSET UndoCandidates(rows)
  PROVE  PartialFunction(ScriptsOf(R), 1 .. (nextRank - 1), Script)
<1>1. R \subseteq DOMAIN rows /\ \A i \in R : rows[i].type # "BASELINE"
  BY DEF UndoCandidates, Listed, VersionedTypes
<1> QED
  BY <1>1, ScriptsOfFit

LEMMA PlanUndoFits ==
  ASSUME TypeOK, NEW p \in Proc, NEW command \in {"undo", "undoTo"},
         NEW R \in SUBSET UndoCandidates(rows), BeginUndo(p, command, R)
  PROVE  TypeOK'
<1>1. /\ Step(p, command, Load({s \in UndoScripts : content[s] # Absent}), ScriptsOf(R))
      /\ UNCHANGED <<dbVars, content, lock, edits, failures>>
  BY DEF BeginUndo
<1>2. RowsFit' /\ nextRank' \in Nat /\ nextRank <= nextRank'
  BY <1>1, SameRowsFit
<1>3. PartialFunction(Load({s \in UndoScripts : content[s] # Absent}), Script, Sum \cup {Absent})
  BY LoadFits DEF UndoScripts
<1>4. command \in Stages
  BY DEF Stages, AllCommands
<1>5. PartialFunction(ScriptsOf(R), 1 .. (nextRank - 1), Script)
  BY UndoRowsFit
<1>6. ProcsFit'
  BY <1>1, <1>2, <1>3, <1>4, <1>5, StepFits
<1>7. RestFits'
  BY <1>1 DEF TypeOK, RestFits, dbVars
<1> QED
  BY <1>2, <1>6, <1>7, TypePartsNext

LEMMA RunUndoFits ==
  ASSUME TypeOK, NEW p \in Proc, NEW i \in DOMAIN chosen[p], NEW u \in Script, RunUndo(p, i, u)
  PROVE  TypeOK'
<1>1. /\ u \in DOMAIN scripts[p]
      /\ Record(FileRow(u, scripts[p][u], TRUE))
      /\ deployed' = [s \in Script |->
           IF s \in VersionedScripts /\ VersionOf[s] = VersionOf[u] THEN Absent ELSE deployed[s]]
      /\ UNCHANGED <<content, edits, failures>>
  BY DEF RunUndo, UndoNext
<1>2. /\ cmd[p] \in Stages
      /\ PartialFunction(scripts[p], Script, Sum \cup {Absent})
      /\ PartialFunction(chosen[p], 1 .. (nextRank - 1), Script)
  BY DEF TypeOK
<1>3. RowsFit' /\ nextRank' \in Nat /\ nextRank <= nextRank'
  <2>1. scripts[p][u] \in Sum \cup {Absent}
    BY <1>1, <1>2 DEF PartialFunction
  <2> QED
    BY <1>1, <2>1, FileRowFits, NewRowFits
<1>4. ProcsFit' /\ lock' \in Proc \cup {NoProc}
  <2>1. CASE DOMAIN chosen[p] = {i}
    BY <2>1, <1>3, FinishFits DEF RunUndo
  <2>2. CASE DOMAIN chosen[p] # {i}
    <3>1. Step(p, cmd[p], scripts[p], Without(chosen[p], i)) /\ lock' = lock
      BY <2>2 DEF RunUndo
    <3>2. PartialFunction(Without(chosen[p], i), 1 .. (nextRank - 1), Script)
      BY <1>2, WithoutFits
    <3>3. ProcsFit'
      BY <1>2, <1>3, <3>1, <3>2, StepFits
    <3> QED
      BY <3>1, <3>3 DEF TypeOK
  <2> QED
    BY <2>1, <2>2
<1>5. deployed' \in [Script -> Sum \cup {Absent}]
  BY <1>1 DEF TypeOK
<1>6. RestFits'
  BY <1>1, <1>4, <1>5 DEF TypeOK, RestFits
<1> QED
  BY <1>3, <1>4, <1>6, TypePartsNext

LEMMA PendingAreScripts == PendingScripts(rows, content) \subseteq Script
  BY DEF PendingScripts, VersionedScripts, RepeatableScripts

LEMMA PlanMigrateFits ==
  ASSUME TypeOK, NEW p \in Proc, NEW command, PlanMigrate(p, command)
  PROVE  TypeOK'
<1> DEFINE stage == IF command = "mark" THEN "mark" ELSE "validate"
           loaded == Load(PendingScripts(rows, content))
<1>1. Step(p, stage, loaded, NoRows) /\ UNCHANGED <<dbVars, content, lock, edits, failures>>
  BY DEF PlanMigrate
<1>2. stage \in Stages
  <2>1. stage = "mark" \/ stage = "validate"
    OBVIOUS
  <2> QED
    BY <2>1 DEF Stages, AllCommands
<1>3. PartialFunction(loaded, Script, Sum \cup {Absent})
  BY LoadFits, PendingAreScripts
<1>4. RowsFit' /\ nextRank' \in Nat /\ nextRank <= nextRank'
  BY <1>1, SameRowsFit
<1>5. RestFits'
  BY <1>1 DEF TypeOK, RestFits, dbVars
<1> HIDE DEF stage, loaded
<1>6. ProcsFit'
  <2>1. PartialFunction(NoRows, 1 .. (nextRank - 1), Script)
    BY NothingFits
  <2> QED
    BY <1>1, <1>2, <1>3, <1>4, <2>1, StepFits
<1> QED
  BY <1>4, <1>5, <1>6, TypePartsNext

LEMMA ValidateFits ==
  ASSUME TypeOK, NEW p \in Proc, Validate(p)
  PROVE  TypeOK'
<1>1. UNCHANGED <<dbVars, content, edits, failures>>
  BY DEF Validate
<1>2. RowsFit' /\ nextRank' \in Nat /\ nextRank <= nextRank'
  BY <1>1, SameRowsFit
<1>3. ProcsFit' /\ lock' \in Proc \cup {NoProc}
  <2>1. CASE ValidationFails(rows, content)
    BY <1>2, <2>1, FinishFits DEF Validate
  <2>2. CASE ~ValidationFails(rows, content)
    <3>1. Step(p, "wait", scripts[p], NoRows) /\ lock' = lock
      BY <2>2 DEF Validate
    <3>2. PartialFunction(scripts[p], Script, Sum \cup {Absent}) /\ "wait" \in Stages
      BY DEF TypeOK, Stages
    <3>3. ProcsFit'
      BY <1>2, <3>1, <3>2, NothingFits, StepFits
    <3> QED
      BY <3>1, <3>3 DEF TypeOK
  <2> QED
    BY <2>1, <2>2
<1>4. RestFits'
  BY <1>1, <1>3 DEF TypeOK, RestFits, dbVars
<1> QED
  BY <1>2, <1>3, <1>4, TypePartsNext

LEMMA AcquireLockFits ==
  ASSUME TypeOK, NEW p \in Proc, AcquireLock(p)
  PROVE  TypeOK'
<1> DEFINE left == DOMAIN scripts[p] \ AlreadyApplied(rows)
           loaded == [s \in left |-> scripts[p][s]]
<1>1. UNCHANGED <<dbVars, content, edits, failures>>
  BY DEF AcquireLock
<1>2. RowsFit' /\ nextRank' \in Nat /\ nextRank <= nextRank'
  BY <1>1, SameRowsFit
<1>3. ProcsFit' /\ lock' \in Proc \cup {NoProc}
  <2>1. CASE left = {}
    BY <1>2, <2>1, FinishFits DEF AcquireLock
  <2>2. CASE left # {}
    <3>1. Step(p, "migrate", loaded, NoRows) /\ lock' = p
      BY <2>2 DEF AcquireLock
    <3>2. PartialFunction(scripts[p], Script, Sum \cup {Absent}) /\ "migrate" \in Stages
      BY DEF TypeOK, Stages, AllCommands
    <3>3. PartialFunction(loaded, Script, Sum \cup {Absent})
      BY <3>2 DEF PartialFunction
    <3> HIDE DEF left, loaded
    <3>4. ProcsFit'
      BY <1>2, <3>1, <3>2, <3>3, NothingFits, StepFits
    <3> QED
      BY <3>1, <3>4
  <2> QED
    BY <2>1, <2>2
<1>4. RestFits'
  BY <1>1, <1>3 DEF TypeOK, RestFits, dbVars
<1> QED
  BY <1>2, <1>3, <1>4, TypePartsNext

\* RunScript and MarkAsExecuted.
LEMMA ScriptDoneFits ==
  ASSUME TypeOK, NEW p \in Proc, NEW s \in Script, IsNext(p, s),
         Record(FileRow(s, scripts[p][s], TRUE)),
         deployed' = [deployed EXCEPT ![s] = scripts[p][s]],
         Proceed(p, s), UNCHANGED <<content, edits, failures>>
  PROVE  TypeOK'
<1>1. scripts[p][s] \in Sum \cup {Absent}
  BY DEF IsNext, TypeOK, PartialFunction
<1>2. RowsFit' /\ nextRank' \in Nat /\ nextRank <= nextRank'
  BY <1>1, FileRowFits, NewRowFits
<1>3. ProcsFit' /\ lock' \in Proc \cup {NoProc}
  BY <1>2, ProceedFits
<1>4. deployed' \in [Script -> Sum \cup {Absent}]
  BY <1>1 DEF TypeOK
<1>5. RestFits'
  BY <1>3, <1>4 DEF TypeOK, RestFits
<1> QED
  BY <1>2, <1>3, <1>5, TypePartsNext

\* ScriptFails and UndoFails.
LEMMA FailureFits ==
  ASSUME TypeOK, NEW p \in Proc, NEW s \in Script, s \in DOMAIN scripts[p],
         failures < MaxFailures, failures' = failures + 1,
         Record(FileRow(s, scripts[p][s], FALSE)), Finish(p),
         UNCHANGED <<deployed, content, edits>>
  PROVE  TypeOK'
<1>1. scripts[p][s] \in Sum \cup {Absent}
  BY DEF TypeOK, PartialFunction
<1>2. RowsFit' /\ nextRank' \in Nat /\ nextRank <= nextRank'
  BY <1>1, FileRowFits, NewRowFits
<1>3. ProcsFit' /\ lock' \in Proc \cup {NoProc}
  BY <1>2, FinishFits
<1>4. failures' \in 0 .. MaxFailures
  BY HistoryCommandsAssumption DEF HistoryCommandsAssumption, TypeOK
<1>5. RestFits'
  BY <1>3, <1>4 DEF TypeOK, RestFits
<1> QED
  BY <1>2, <1>3, <1>5, TypePartsNext

LEMMA PlanRepairFits ==
  ASSUME TypeOK, NEW p \in Proc, PlanRepair(p)
  PROVE  TypeOK'
<1>1. /\ Step(p, "repair", Repairs, ScriptsOf(MissingRows(rows, content)))
      /\ UNCHANGED <<dbVars, content, lock, edits, failures>>
  BY DEF PlanRepair
<1>2. RowsFit' /\ nextRank' \in Nat /\ nextRank <= nextRank'
  BY <1>1, SameRowsFit
<1>3. PartialFunction(ScriptsOf(MissingRows(rows, content)), 1 .. (nextRank - 1), Script)
  <2>1. /\ MissingRows(rows, content) \subseteq DOMAIN rows
        /\ \A i \in MissingRows(rows, content) : rows[i].type # "BASELINE"
    BY DEF MissingRows, Listed
  <2> QED
    BY <2>1, ScriptsOfFit
<1>4. PartialFunction(Repairs, Script, Sum \cup {Absent})
  <2>1. \A s \in FailedScripts(rows) : s \in Script
    BY DEF FailedScripts, FailedRows, TypeOK, RowFits
  <2>2. DOMAIN Repairs \subseteq Script
    BY <2>1 DEF Repairs, ChangedRepeatables, RepeatableScripts, DriftedScripts
  <2>3. \A s \in DOMAIN Repairs : Repairs[s] = Absent \/ Repairs[s] = content[s]
    BY DEF Repairs
  <2>4. \A s \in Script : content[s] \in Sum \cup {Absent}
    BY DEF TypeOK
  <2> QED
    BY <2>2, <2>3, <2>4 DEF PartialFunction
<1>5. "repair" \in Stages
  BY DEF Stages, AllCommands
<1>6. ProcsFit'
  BY <1>1, <1>2, <1>3, <1>4, <1>5, StepFits
<1>7. RestFits'
  BY <1>1 DEF TypeOK, RestFits, dbVars
<1> QED
  BY <1>2, <1>6, <1>7, TypePartsNext

LEMMA RepairedFits ==
  ASSUME NEW fixes, PartialFunction(fixes, Script, Sum \cup {Absent}),
         NEW row, RowFits(row)
  PROVE  RowFits(Repaired(fixes, row))
<1>1. CASE row.script \in DOMAIN fixes /\ fixes[row.script] # Absent
  <2> DEFINE new == [row EXCEPT !.sum = fixes[row.script], !.ok = TRUE]
  <2>1. Repaired(fixes, row) = new
    BY <1>1 DEF Repaired
  <2>2. row \in Row
    BY DEF RowFits
  <2>3. fixes[row.script] \in Sum \cup {Absent}
    BY <1>1 DEF PartialFunction
  <2>4. /\ new \in Row
        /\ new.type = row.type /\ new.script = row.script /\ new.version = row.version
        /\ new.ok = TRUE
    BY <2>2, <2>3 DEF Row
  <2> HIDE DEF new
  <2>5. RowFits(new)
    BY <2>4 DEF RowFits
  <2> QED
    BY <2>1, <2>5
<1>2. CASE ~(row.script \in DOMAIN fixes /\ fixes[row.script] # Absent)
  BY <1>2 DEF Repaired
<1> QED
  BY <1>1, <1>2

LEMMA RunRepairFits ==
  ASSUME TypeOK, NEW p \in Proc, RunRepair(p)
  PROVE  TypeOK'
<1>1. /\ Finish(p)
      /\ UNCHANGED <<deployed, content, edits, failures>>
  BY DEF RunRepair
<1>2. /\ nextRank' \in Nat \ {0} /\ nextRank <= nextRank'
      /\ DOMAIN rows' \subseteq 1 .. (nextRank' - 1)
      /\ \A i \in DOMAIN rows' :
           IF i \in DOMAIN rows
             THEN rows'[i] = Repaired(scripts[p], rows[i])
             ELSE \E s \in Script : rows'[i] = DeleteRow(s)
  BY RowsRepaired
<1>3. ASSUME NEW i \in DOMAIN rows'
      PROVE  RowFits(rows'[i])
  <2>1. CASE i \in DOMAIN rows
    <3>1. RowFits(rows[i]) /\ PartialFunction(scripts[p], Script, Sum \cup {Absent})
      BY <2>1 DEF TypeOK
    <3>2. rows'[i] = Repaired(scripts[p], rows[i])
      BY <1>2, <2>1
    <3> QED
      BY <3>1, <3>2, RepairedFits
  <2>2. CASE i \notin DOMAIN rows
    <3>1. PICK s \in Script : rows'[i] = DeleteRow(s)
      BY <1>2, <2>2
    <3>2. RowFits(DeleteRow(s))
      BY ScriptFacts DEF DeleteRow, RowFits, Row, RowTypes
    <3> QED
      BY <3>1, <3>2
  <2> QED
    BY <2>1, <2>2
<1>4. RowsFit'
  BY <1>2, <1>3 DEF RowsFit, RowFits, Row
<1>5. ProcsFit' /\ lock' \in Proc \cup {NoProc}
  BY <1>1, <1>2, FinishFits
<1>6. RestFits'
  BY <1>1, <1>5 DEF TypeOK, RestFits
<1> QED
  BY <1>4, <1>5, <1>6, TypePartsNext

LEMMA BaselineFits ==
  ASSUME TypeOK, NEW p \in Proc, PlanBaseline(p) \/ \E v \in BaselineAt : RunBaseline(p, v)
  PROVE  TypeOK'
<1>1. CASE PlanBaseline(p)
  <2>1. /\ Step(p, "baseline", NoScripts, NoRows)
        /\ UNCHANGED <<dbVars, content, lock, edits, failures>>
    BY <1>1 DEF PlanBaseline
  <2>2. RowsFit' /\ nextRank' \in Nat /\ nextRank <= nextRank'
    BY <2>1, SameRowsFit
  <2>3. /\ "baseline" \in Stages
        /\ PartialFunction(NoScripts, Script, Sum \cup {Absent})
        /\ PartialFunction(NoRows, 1 .. (nextRank - 1), Script)
    BY NothingFits DEF Stages, AllCommands
  <2>4. ProcsFit'
    BY <2>1, <2>2, <2>3, StepFits
  <2>5. RestFits'
    BY <2>1 DEF TypeOK, RestFits, dbVars
  <2> QED
    BY <2>2, <2>4, <2>5, TypePartsNext
<1>2. ASSUME NEW v \in BaselineAt, RunBaseline(p, v) PROVE TypeOK'
  <2>1. /\ Record(BaselineRow(v)) /\ Finish(p)
        /\ UNCHANGED <<deployed, content, edits, failures>>
    BY <1>2 DEF RunBaseline
  <2>2. RowFits(BaselineRow(v))
    BY HistoryCommandsAssumption
       DEF HistoryCommandsAssumption, RowFits, BaselineRow, Row, RowTypes
  <2>3. RowsFit' /\ nextRank' \in Nat /\ nextRank <= nextRank'
    BY <2>1, <2>2, NewRowFits
  <2>4. ProcsFit' /\ lock' \in Proc \cup {NoProc}
    BY <2>1, <2>3, FinishFits
  <2>5. RestFits'
    BY <2>1, <2>4 DEF TypeOK, RestFits
  <2> QED
    BY <2>3, <2>4, <2>5, TypePartsNext
<1> QED
  BY <1>1, <1>2

LEMMA AbortFits ==
  ASSUME TypeOK, NEW p \in Proc, Abort(p)
  PROVE  TypeOK'
<1>1. Finish(p) /\ UNCHANGED <<dbVars, content, edits, failures>>
  BY DEF Abort
<1>2. RowsFit' /\ nextRank' \in Nat /\ nextRank <= nextRank'
  BY <1>1, SameRowsFit
<1>3. ProcsFit' /\ lock' \in Proc \cup {NoProc}
  BY <1>1, <1>2, FinishFits
<1>4. RestFits'
  BY <1>1, <1>3 DEF TypeOK, RestFits, dbVars
<1> QED
  BY <1>2, <1>3, <1>4, TypePartsNext

LEMMA EditFits ==
  ASSUME TypeOK, NEW s \in Script, NEW sum \in Sum \cup {Absent}, Edit(s, sum)
  PROVE  TypeOK'
<1>1. /\ content' = [content EXCEPT ![s] = sum]
      /\ edits < MaxEdits /\ edits' = edits + 1
      /\ UNCHANGED <<dbVars, procVars, lock, failures>>
  BY DEF Edit
<1>2. RowsFit'
  BY <1>1, SameRowsFit
<1>3. ProcsFit'
  BY <1>1 DEF TypeOK, ProcsFit, procVars, dbVars
<1>4. content' \in [Script -> Sum \cup {Absent}]
  BY <1>1 DEF TypeOK
<1>5. edits' \in 0 .. MaxEdits
  BY <1>1, HistoryCommandsAssumption DEF HistoryCommandsAssumption, TypeOK
<1>6. RestFits'
  BY <1>1, <1>4, <1>5 DEF TypeOK, RestFits, dbVars
<1> QED
  BY <1>2, <1>3, <1>6, TypePartsNext

LEMMA TypeStep == TypeOK /\ [Next]_vars => TypeOK'
<1> SUFFICES ASSUME TypeOK, [Next]_vars PROVE TypeOK'
  OBVIOUS
<1>1. ASSUME NEW p \in Proc, Validate(p) \/ AcquireLock(p) PROVE TypeOK'
  BY <1>1, ValidateFits, AcquireLockFits
<1>2. ASSUME NEW p \in Proc, PlanUndo(p) PROVE TypeOK'
  <2>1. LatestToUndo(rows) \subseteq UndoCandidates(rows)
    BY DEF LatestToUndo
  <2> QED
    BY <1>2, <2>1, PlanUndoFits DEF PlanUndo
<1>3. ASSUME NEW p \in Proc, NEW t \in Targets, PlanUndoTo(p, t) PROVE TypeOK'
  <2>1. AboveTarget(rows, t) \subseteq UndoCandidates(rows)
    BY DEF AboveTarget
  <2> QED
    BY <1>3, <2>1, PlanUndoFits DEF PlanUndoTo
<1>4. ASSUME NEW p \in Proc, PlanRepair(p) \/ RunRepair(p) PROVE TypeOK'
  BY <1>4, PlanRepairFits, RunRepairFits
<1>5. ASSUME NEW p \in Proc, PlanBaseline(p) \/ \E v \in BaselineAt : RunBaseline(p, v)
      PROVE  TypeOK'
  BY <1>5, BaselineFits
<1>6. ASSUME NEW p \in Proc, Abort(p) PROVE TypeOK'
  BY <1>6, AbortFits
<1>7. ASSUME NEW p \in Proc, NEW command \in Commands, PlanMigrate(p, command) PROVE TypeOK'
  BY <1>7, PlanMigrateFits
<1>8. ASSUME NEW p \in Proc, NEW s \in Script, RunScript(p, s) \/ MarkAsExecuted(p, s)
      PROVE  TypeOK'
  BY <1>8, ScriptDoneFits DEF RunScript, MarkAsExecuted
<1>9. ASSUME NEW p \in Proc, NEW s \in Script, ScriptFails(p, s) PROVE TypeOK'
  BY <1>9, FailureFits DEF ScriptFails, IsNext
<1>10. ASSUME NEW p \in Proc, NEW i \in DOMAIN chosen[p], NEW u \in Script, RunUndo(p, i, u)
       PROVE  TypeOK'
  BY <1>10, RunUndoFits
<1>11. ASSUME NEW p \in Proc, NEW i \in DOMAIN chosen[p], NEW u \in Script, UndoFails(p, i, u)
       PROVE  TypeOK'
  BY <1>11, FailureFits DEF UndoFails, UndoNext
<1>12. ASSUME NEW s \in Script, NEW sum \in Sum \cup {Absent}, Edit(s, sum) PROVE TypeOK'
  BY <1>12, EditFits
<1>13. CASE UNCHANGED vars
  BY <1>13 DEF TypeOK, RowFits, vars, dbVars, procVars
<1> QED
  BY <1>1, <1>2, <1>3, <1>4, <1>5, <1>6, <1>7, <1>8, <1>9, <1>10, <1>11, <1>12, <1>13 DEF Next

-----------------------------------------------------------------------------
(* What processes hold, and that repair and migrate stay apart *)

LEMMA StepHolds ==
  ASSUME TypeOK, Apart, \A q \in Proc : Holds(q),
         NEW p \in Proc, NEW stage, NEW loaded, NEW picked,
         Step(p, stage, loaded, picked),
         HoldsFor(rows', stage, loaded),
         stage = "repair" => \A q \in Proc \ {p} : ~Migrating(q),
         stage \in MigrateStages => \A q \in Proc \ {p} : cmd[q] # "repair",
         \A q \in Proc \ {p}, s \in Script :
           cmd[q] = "repair" /\ TypeOf[s] # "UNDO_SQL" /\ NoneFailed(rows, s) => NoneFailed(rows', s)
  PROVE  Apart' /\ \A q \in Proc : Holds(q)'
<1>1. /\ cmd'[p] = stage /\ scripts'[p] = loaded
      /\ \A q \in Proc \ {p} : cmd'[q] = cmd[q] /\ scripts'[q] = scripts[q]
  BY DEF TypeOK, Step
<1>2. Apart'
  <2>1. SUFFICES ASSUME NEW q \in Proc, NEW r \in Proc, cmd'[q] = "repair", cmd'[r] \in MigrateStages
                 PROVE  FALSE
    BY DEF Apart, Migrating
  <2>2. q # r
    BY <2>1 DEF MigrateStages
  <2>3. CASE q = p
    BY <1>1, <2>1, <2>2, <2>3 DEF Migrating
  <2>4. CASE r = p
    BY <1>1, <2>1, <2>2, <2>4
  <2>5. CASE q # p /\ r # p
    BY <1>1, <2>1, <2>5 DEF Apart, Migrating
  <2> QED
    BY <2>3, <2>4, <2>5
<1>3. Holds(p)'
  BY <1>1 DEF Holds
<1>4. ASSUME NEW q \in Proc \ {p} PROVE Holds(q)'
  <2>1. HoldsFor(rows, cmd[q], scripts[q])
    BY DEF Holds
  <2>2. \A s \in DOMAIN scripts[q] : s \in Script
    BY DEF TypeOK, PartialFunction
  <2>3. HoldsFor(rows', cmd[q], scripts[q])
    BY <2>1, <2>2 DEF HoldsFor
  <2> QED
    BY <2>3, <1>1, <1>4 DEF Holds
<1> QED
  BY <1>2, <1>3, <1>4

\* The conjuncts of the invariant that StepHolds keeps.
HoldInv == TypeOK /\ Apart /\ \A q \in Proc : Holds(q)
Held == Apart' /\ \A q \in Proc : Holds(q)'

LEMMA RecordedFailures ==
  ASSUME TypeOK, NEW row, RowFits(row), Record(row), NEW s, NoneFailed(rows, s),
         row.ok \/ row.script # s
  PROVE  NoneFailed(rows', s)
<1>1. /\ DOMAIN rows' = DOMAIN rows \cup {nextRank}
      /\ rows'[nextRank] = row
      /\ \A i \in DOMAIN rows : rows'[i] = rows[i]
  BY Recorded
<1> QED
  BY <1>1 DEF NoneFailed

\* A command ends without leaving a failed row of a script that repair may be
\* working on.
LEMMA FinishHolds ==
  ASSUME HoldInv, NEW p \in Proc, Finish(p),
         \A q \in Proc \ {p}, s \in Script :
           cmd[q] = "repair" /\ TypeOf[s] # "UNDO_SQL" /\ NoneFailed(rows, s) => NoneFailed(rows', s)
  PROVE  Held
<1>1. Step(p, "none", NoScripts, NoRows)
  BY DEF Finish
<1>2. HoldsFor(rows', "none", NoScripts)
  BY DEF HoldsFor, MigrateStages
<1>3. "none" # "repair" /\ "none" \notin MigrateStages
  BY DEF MigrateStages
<1> QED
  BY <1>1, <1>2, <1>3, StepHolds DEF HoldInv, Held

\* A command may start only when no command runs that must not overlap with it.
LEMMA StartedApart ==
  ASSUME TypeOK, NoRepairDuringMigrate, NEW p \in Proc, NEW command, MayStart(p, command)
  PROVE  /\ command = "repair" => \A q \in Proc \ {p} : ~Migrating(q)
         /\ command = "migrate" => \A q \in Proc \ {p} : cmd[q] # "repair"
<1>1. \A q \in Proc \ {p} : cmd[q] # "none" => {command, Running(q)} \in MayOverlap
  BY DEF MayStart
<1>2. \A q \in Proc : Migrating(q) => Running(q) = "migrate" /\ cmd[q] # "none"
  BY DEF Migrating, MigrateStages, Running
<1>3. \A q \in Proc : cmd[q] = "repair" => Running(q) = "repair" /\ cmd[q] # "none"
  BY DEF Running
<1>4. {"repair", "migrate"} = {"migrate", "repair"}
  OBVIOUS
<1> QED
  BY <1>1, <1>2, <1>3, <1>4 DEF NoRepairDuringMigrate

LEMMA PlanMigrateHolds ==
  ASSUME HoldInv, NoRepairDuringMigrate, NEW p \in Proc, NEW command, PlanMigrate(p, command)
  PROVE  Held
<1> DEFINE stage == IF command = "mark" THEN "mark" ELSE "validate"
           loaded == Load(PendingScripts(rows, content))
<1>1. /\ Step(p, stage, loaded, NoRows) /\ rows' = rows
      /\ command \in {"migrate", "mark"} /\ MayStart(p, command)
  BY DEF PlanMigrate, dbVars
<1>2. \A s \in DOMAIN loaded : TypeOf[s] # "UNDO_SQL" /\ loaded[s] \in Sum
  <2>1. \A s \in PendingScripts(rows, content) :
          TypeOf[s] # "UNDO_SQL" /\ content[s] # Absent /\ s \in Script
    BY DEF PendingScripts, VersionedScripts, RepeatableScripts, VersionedTypes
  <2> QED
    BY <2>1 DEF Load, HoldInv, TypeOK
<1>3. stage \in {"mark", "validate"}
  OBVIOUS
<1>4. HoldsFor(rows', stage, loaded)
  <2> HIDE DEF stage, loaded
  <2> QED
    BY <1>2, <1>3 DEF HoldsFor
<1>5. stage \in MigrateStages => \A q \in Proc \ {p} : cmd[q] # "repair"
  BY <1>1, StartedApart DEF MigrateStages, HoldInv
<1>6. stage # "repair"
  BY <1>3
<1> HIDE DEF stage, loaded
<1> QED
  BY <1>1, <1>4, <1>5, <1>6, StepHolds DEF HoldInv, Held

LEMMA ValidateHolds ==
  ASSUME HoldInv, NEW p \in Proc, Validate(p)
  PROVE  Held
<1>1. cmd[p] = "validate" /\ rows' = rows
  BY DEF Validate, dbVars
<1>2. CASE ValidationFails(rows, content)
  BY <1>1, <1>2, FinishHolds DEF Validate
<1>3. CASE ~ValidationFails(rows, content)
  <2>1. Step(p, "wait", scripts[p], NoRows)
    BY <1>3 DEF Validate
  <2>2. HoldsFor(rows', "wait", scripts[p])
    BY <1>1 DEF HoldInv, Holds, HoldsFor, MigrateStages
  <2>3. "wait" # "repair" /\ \A q \in Proc \ {p} : cmd[q] # "repair"
    BY <1>1 DEF HoldInv, Apart, Migrating, MigrateStages
  <2> QED
    BY <1>1, <2>1, <2>2, <2>3, StepHolds DEF HoldInv, Held
<1> QED
  BY <1>2, <1>3

LEMMA AcquireLockHolds ==
  ASSUME HoldInv, NEW p \in Proc, AcquireLock(p)
  PROVE  Held
<1> DEFINE left == DOMAIN scripts[p] \ AlreadyApplied(rows)
           loaded == [s \in left |-> scripts[p][s]]
<1>1. cmd[p] = "wait" /\ rows' = rows
  BY DEF AcquireLock, dbVars
<1>2. CASE left = {}
  BY <1>1, <1>2, FinishHolds DEF AcquireLock
<1>3. CASE left # {}
  <2>1. Step(p, "migrate", loaded, NoRows)
    BY <1>3 DEF AcquireLock
  <2>2. \A s \in DOMAIN loaded : TypeOf[s] # "UNDO_SQL" /\ loaded[s] \in Sum
    BY <1>1 DEF HoldInv, Holds, HoldsFor, MigrateStages
  <2> HIDE DEF loaded
  <2>3. HoldsFor(rows', "migrate", loaded)
    BY <2>2 DEF HoldsFor
  <2>4. "migrate" # "repair" /\ \A q \in Proc \ {p} : cmd[q] # "repair"
    BY <1>1 DEF HoldInv, Apart, Migrating, MigrateStages
  <2> QED
    BY <1>1, <2>1, <2>3, <2>4, StepHolds DEF HoldInv, Held
<1> QED
  BY <1>2, <1>3

\* RunScript and MarkAsExecuted.
LEMMA ScriptDoneHolds ==
  ASSUME HoldInv, NEW p \in Proc, cmd[p] \in {"migrate", "mark"}, NEW s \in Script,
         s \in DOMAIN scripts[p], Record(FileRow(s, scripts[p][s], TRUE)), Proceed(p, s)
  PROVE  Held
<1>1. RowFits(FileRow(s, scripts[p][s], TRUE)) /\ FileRow(s, scripts[p][s], TRUE).ok
  <2>1. scripts[p][s] \in Sum \cup {Absent}
    BY DEF HoldInv, TypeOK, PartialFunction
  <2> QED
    BY <2>1, FileRowFits DEF FileRow
<1>2. \A t : NoneFailed(rows, t) => NoneFailed(rows', t)
  BY <1>1, RecordedFailures DEF HoldInv
<1>3. CASE DOMAIN scripts[p] = {s}
  BY <1>2, <1>3, FinishHolds DEF Proceed
<1>4. CASE DOMAIN scripts[p] # {s}
  <2>1. Step(p, cmd[p], Without(scripts[p], s), NoRows)
    BY <1>4 DEF Proceed
  <2>2. HoldsFor(rows', cmd[p], Without(scripts[p], s))
    BY DEF HoldInv, Holds, HoldsFor, MigrateStages, Without
  <2>3. /\ cmd[p] # "repair"
        /\ cmd[p] \in MigrateStages => \A q \in Proc \ {p} : cmd[q] # "repair"
    BY DEF HoldInv, Apart, Migrating
  <2> QED
    BY <1>2, <2>1, <2>2, <2>3, StepHolds DEF HoldInv, Held
<1> QED
  BY <1>3, <1>4

\* The script is not one that repair writes a checksum for: repair does not
\* run when migrate does.
LEMMA ScriptFailsHolds ==
  ASSUME HoldInv, NEW p \in Proc, NEW s \in Script, ScriptFails(p, s)
  PROVE  Held
<1>1. cmd[p] = "migrate" /\ Finish(p)
  BY DEF ScriptFails
<1>2. \A q \in Proc : cmd[q] # "repair"
  BY <1>1 DEF HoldInv, Apart, Migrating, MigrateStages
<1> QED
  BY <1>1, <1>2, FinishHolds

LEMMA BeginUndoHolds ==
  ASSUME HoldInv, NEW p \in Proc, NEW command \in {"undo", "undoTo"}, NEW R,
         BeginUndo(p, command, R)
  PROVE  Held
<1> DEFINE loaded == Load({s \in UndoScripts : content[s] # Absent})
<1>1. Step(p, command, loaded, ScriptsOf(R)) /\ rows' = rows
  BY DEF BeginUndo, dbVars
<1>2. \A u \in DOMAIN loaded : TypeOf[u] = "UNDO_SQL" /\ loaded[u] \in Sum
  BY DEF Load, UndoScripts, HoldInv, TypeOK
<1>3. command # "repair" /\ command \notin MigrateStages
  BY DEF MigrateStages
<1> HIDE DEF loaded
<1>4. HoldsFor(rows', command, loaded)
  BY <1>2, <1>3 DEF HoldsFor
<1> QED
  BY <1>1, <1>3, <1>4, StepHolds DEF HoldInv, Held

LEMMA RunUndoHolds ==
  ASSUME HoldInv, NEW p \in Proc, NEW i, NEW u \in Script, RunUndo(p, i, u)
  PROVE  Held
<1>1. /\ cmd[p] \in {"undo", "undoTo"} /\ u \in DOMAIN scripts[p]
      /\ Record(FileRow(u, scripts[p][u], TRUE))
  BY DEF RunUndo, UndoNext
<1>2. RowFits(FileRow(u, scripts[p][u], TRUE)) /\ FileRow(u, scripts[p][u], TRUE).ok
  <2>1. scripts[p][u] \in Sum \cup {Absent}
    BY <1>1 DEF HoldInv, TypeOK, PartialFunction
  <2> QED
    BY <2>1, FileRowFits DEF FileRow
<1>3. \A t : NoneFailed(rows, t) => NoneFailed(rows', t)
  BY <1>1, <1>2, RecordedFailures DEF HoldInv
<1>4. CASE DOMAIN chosen[p] = {i}
  BY <1>3, <1>4, FinishHolds DEF RunUndo
<1>5. CASE DOMAIN chosen[p] # {i}
  <2>1. Step(p, cmd[p], scripts[p], Without(chosen[p], i))
    BY <1>5 DEF RunUndo
  <2>2. HoldsFor(rows', cmd[p], scripts[p])
    BY <1>1 DEF HoldInv, Holds, HoldsFor, MigrateStages
  <2>3. cmd[p] # "repair" /\ cmd[p] \notin MigrateStages
    BY <1>1 DEF MigrateStages
  <2> QED
    BY <1>3, <2>1, <2>2, <2>3, StepHolds DEF HoldInv, Held
<1> QED
  BY <1>4, <1>5

\* The failed row is of an undo script, which repair writes no checksum for.
LEMMA UndoFailsHolds ==
  ASSUME HoldInv, NEW p \in Proc, NEW i, NEW u \in Script, UndoFails(p, i, u)
  PROVE  Held
<1> DEFINE row == FileRow(u, scripts[p][u], FALSE)
<1>1. /\ cmd[p] \in {"undo", "undoTo"} /\ u \in DOMAIN scripts[p]
      /\ Record(row) /\ Finish(p)
  BY DEF UndoFails, UndoNext
<1>2. RowFits(row) /\ row.script = u
  <2>1. scripts[p][u] \in Sum \cup {Absent}
    BY <1>1 DEF HoldInv, TypeOK, PartialFunction
  <2> QED
    BY <2>1, FileRowFits DEF FileRow
<1>3. TypeOf[u] = "UNDO_SQL"
  BY <1>1 DEF HoldInv, Holds, HoldsFor
<1> HIDE DEF row
<1>4. \A t : TypeOf[t] # "UNDO_SQL" /\ NoneFailed(rows, t) => NoneFailed(rows', t)
  BY <1>1, <1>2, <1>3, RecordedFailures DEF HoldInv
<1> QED
  BY <1>1, <1>4, FinishHolds

\* A script gets a new checksum only when it has no failed row.
LEMMA PlanRepairHolds ==
  ASSUME HoldInv, NoRepairDuringMigrate, NEW p \in Proc, PlanRepair(p)
  PROVE  Held
<1>1. /\ MayStart(p, "repair") /\ rows' = rows
      /\ Step(p, "repair", Repairs, ScriptsOf(MissingRows(rows, content)))
  BY DEF PlanRepair, dbVars
<1>2. ASSUME NEW s \in DOMAIN Repairs, Repairs[s] # Absent
      PROVE  TypeOf[s] # "UNDO_SQL" /\ NoneFailed(rows, s)
  <2>1. /\ s \notin FailedScripts(rows)
        /\ s \in ChangedRepeatables(rows, content) \cup DriftedScripts(rows, content)
    BY <1>2 DEF Repairs
  <2>2. NoneFailed(rows, s)
    BY <2>1 DEF FailedScripts, FailedRows, NoneFailed, HoldInv, TypeOK, RowFits
  <2>3. CASE s \in ChangedRepeatables(rows, content)
    BY <2>2, <2>3 DEF ChangedRepeatables, RepeatableScripts
  <2>4. CASE s \in DriftedScripts(rows, content)
    <3>1. PICK i \in DOMAIN rows : rows[i].type = "SQL" /\ rows[i].script = s
      BY <2>4 DEF DriftedScripts
    <3>2. RowFits(rows[i])
      BY DEF HoldInv, TypeOK
    <3>3. TypeOf[s] = "SQL"
      BY <3>1, <3>2 DEF RowFits
    <3> QED
      BY <2>2, <3>3
  <2> QED
    BY <2>1, <2>3, <2>4
<1>3. HoldsFor(rows', "repair", Repairs)
  BY <1>1, <1>2 DEF HoldsFor, MigrateStages
<1>4. \A q \in Proc \ {p} : ~Migrating(q)
  BY <1>1, StartedApart DEF HoldInv
<1>5. "repair" \notin MigrateStages
  BY DEF MigrateStages
<1> QED
  BY <1>1, <1>3, <1>4, <1>5, StepHolds DEF HoldInv, Held

LEMMA RunRepairHolds ==
  ASSUME HoldInv, NEW p \in Proc, RunRepair(p)
  PROVE  Held
<1>1. \A i \in DOMAIN rows' :
        IF i \in DOMAIN rows
          THEN rows'[i] = Repaired(scripts[p], rows[i])
          ELSE \E s \in Script : rows'[i] = DeleteRow(s)
  BY RowsRepaired DEF HoldInv
<1>2. ASSUME NEW s, NoneFailed(rows, s), NEW i \in DOMAIN rows', rows'[i].script = s
      PROVE  rows'[i].ok
  <2>1. CASE i \in DOMAIN rows
    <3>1. rows'[i] = Repaired(scripts[p], rows[i]) /\ rows[i] \in Row
      BY <1>1, <2>1 DEF HoldInv, TypeOK, RowFits
    <3>2. rows'[i].script = rows[i].script /\ (rows[i].ok => rows'[i].ok)
      BY <3>1 DEF Repaired, Row
    <3> QED
      BY <1>2, <2>1, <3>2 DEF NoneFailed
  <2>2. CASE i \notin DOMAIN rows
    BY <1>1, <2>2 DEF DeleteRow
  <2> QED
    BY <2>1, <2>2
<1>3. \A s : NoneFailed(rows, s) => NoneFailed(rows', s)
  BY <1>2 DEF NoneFailed
<1> QED
  BY <1>3, FinishHolds DEF RunRepair

LEMMA PlanBaselineHolds ==
  ASSUME HoldInv, NEW p \in Proc, PlanBaseline(p)
  PROVE  Held
<1>1. Step(p, "baseline", NoScripts, NoRows) /\ rows' = rows
  BY DEF PlanBaseline, dbVars
<1>2. "baseline" # "repair" /\ "baseline" \notin MigrateStages
  BY DEF MigrateStages
<1>3. HoldsFor(rows', "baseline", NoScripts)
  BY <1>2 DEF HoldsFor
<1> QED
  BY <1>1, <1>2, <1>3, StepHolds DEF HoldInv, Held

LEMMA BaselineFitsRow ==
  ASSUME NEW v \in BaselineAt
  PROVE  RowFits(BaselineRow(v))
  BY HistoryCommandsAssumption
     DEF HistoryCommandsAssumption, RowFits, BaselineRow, Row, RowTypes

LEMMA RunBaselineHolds ==
  ASSUME HoldInv, NEW p \in Proc, NEW v \in BaselineAt, RunBaseline(p, v)
  PROVE  Held
<1>1. Record(BaselineRow(v)) /\ Finish(p) /\ BaselineRow(v).ok
  BY DEF RunBaseline, BaselineRow
<1>2. \A t : NoneFailed(rows, t) => NoneFailed(rows', t)
  BY <1>1, BaselineFitsRow, RecordedFailures DEF HoldInv
<1> QED
  BY <1>1, <1>2, FinishHolds

LEMMA HoldStep ==
  ASSUME HoldInv, NoRepairDuringMigrate, [Next]_vars
  PROVE  Held
<1>1. ASSUME NEW p \in Proc, Validate(p) \/ AcquireLock(p) PROVE Held
  BY <1>1, ValidateHolds, AcquireLockHolds
<1>2. ASSUME NEW p \in Proc, PlanUndo(p) \/ \E t \in Targets : PlanUndoTo(p, t) PROVE Held
  BY <1>2, BeginUndoHolds DEF PlanUndo, PlanUndoTo
<1>3. ASSUME NEW p \in Proc, PlanRepair(p) \/ RunRepair(p) PROVE Held
  BY <1>3, PlanRepairHolds, RunRepairHolds
<1>4. ASSUME NEW p \in Proc, PlanBaseline(p) \/ \E v \in BaselineAt : RunBaseline(p, v)
      PROVE  Held
  BY <1>4, PlanBaselineHolds, RunBaselineHolds
<1>5. ASSUME NEW p \in Proc, Abort(p) PROVE Held
  BY <1>5, FinishHolds DEF Abort, dbVars
<1>6. ASSUME NEW p \in Proc, NEW command \in Commands, PlanMigrate(p, command) PROVE Held
  BY <1>6, PlanMigrateHolds
<1>7. ASSUME NEW p \in Proc, NEW s \in Script, RunScript(p, s) \/ MarkAsExecuted(p, s)
      PROVE  Held
  BY <1>7, ScriptDoneHolds DEF RunScript, MarkAsExecuted, IsNext
<1>8. ASSUME NEW p \in Proc, NEW s \in Script, ScriptFails(p, s) PROVE Held
  BY <1>8, ScriptFailsHolds
<1>9. ASSUME NEW p \in Proc, NEW i \in DOMAIN chosen[p], NEW u \in Script,
             RunUndo(p, i, u) \/ UndoFails(p, i, u)
      PROVE  Held
  BY <1>9, RunUndoHolds, UndoFailsHolds
<1>10. ASSUME UNCHANGED <<rows, cmd, scripts>> PROVE Held
  BY <1>10 DEF HoldInv, Held, Apart, Migrating, Holds
<1>11. ASSUME NEW s \in Script, NEW sum \in Sum \cup {Absent}, Edit(s, sum) PROVE Held
  BY <1>10, <1>11 DEF Edit, dbVars, procVars
<1>12. CASE UNCHANGED vars
  BY <1>10, <1>12 DEF vars, dbVars, procVars
<1> QED
  BY <1>1, <1>2, <1>3, <1>4, <1>5, <1>6, <1>7, <1>8, <1>9, <1>11, <1>12 DEF Next

-----------------------------------------------------------------------------
(* The history tells the truth *)

LEMMA TruthKept ==
  ASSUME HistoryTruthful,
         \A v : Applies(rows', v) = Applies(rows, v) /\ Undos(rows', v) = Undos(rows, v),
         deployed' = deployed
  PROVE  HistoryTruthful'
  BY DEF HistoryTruthful

LEMMA RunRepairTruth ==
  ASSUME HoldInv, HistoryTruthful, NEW p \in Proc, RunRepair(p)
  PROVE  HistoryTruthful'
<1>1. /\ DOMAIN rows \ RemovedRows(scripts[p]) \subseteq DOMAIN rows'
      /\ \A i \in DOMAIN rows' :
           IF i \in DOMAIN rows
             THEN /\ rows'[i] = Repaired(scripts[p], rows[i])
                  /\ i \notin RemovedRows(scripts[p])
             ELSE \E s \in Script : rows'[i] = DeleteRow(s)
  BY RowsRepaired DEF HoldInv
<1>2. cmd[p] = "repair" /\ deployed' = deployed
  BY DEF RunRepair
<1>3. ASSUME NEW i \in DOMAIN rows
      PROVE  LET row == Repaired(scripts[p], rows[i])
             IN row.type = rows[i].type /\ row.version = rows[i].version /\ row.ok = rows[i].ok
  <2>1. rows[i] \in Row
    BY DEF HoldInv, TypeOK, RowFits
  <2>2. \A s \in DOMAIN scripts[p] : scripts[p][s] # Absent => NoneFailed(rows, s)
    BY <1>2 DEF HoldInv, Holds, HoldsFor
  <2>3. CASE rows[i].script \in DOMAIN scripts[p] /\ scripts[p][rows[i].script] # Absent
    <3>1. rows[i].ok
      BY <2>2, <2>3 DEF NoneFailed
    <3> QED
      BY <2>1, <2>3, <3>1 DEF Repaired, Row
  <2>4. CASE ~(rows[i].script \in DOMAIN scripts[p] /\ scripts[p][rows[i].script] # Absent)
    BY <2>4 DEF Repaired
  <2> QED
    BY <2>3, <2>4
<1>4. ASSUME NEW types, NEW v, "DELETE" \notin types
      PROVE  Done(rows', types, v) = Done(rows, types, v)
  <2>1. ASSUME NEW i \in Done(rows, types, v) PROVE i \in Done(rows', types, v)
    <3>1. i \in DOMAIN rows /\ rows[i].type \in types /\ rows[i].version = v /\ rows[i].ok
      BY <2>1 DEF Done
    <3>2. i \in DOMAIN rows'
      BY <1>1, <3>1 DEF RemovedRows
    <3> QED
      BY <1>1, <1>3, <3>1, <3>2 DEF Done
  <2>2. ASSUME NEW i \in Done(rows', types, v) PROVE i \in Done(rows, types, v)
    <3>1. i \in DOMAIN rows' /\ rows'[i].type \in types /\ rows'[i].version = v /\ rows'[i].ok
      BY <2>2 DEF Done
    <3>2. i \in DOMAIN rows
      BY <1>1, <1>4, <3>1 DEF DeleteRow
    <3> QED
      BY <1>1, <1>3, <3>1, <3>2 DEF Done
  <2> QED
    BY <2>1, <2>2
<1>5. \A v : Applies(rows', v) = Applies(rows, v) /\ Undos(rows', v) = Undos(rows, v)
  BY <1>4 DEF Applies, Undos, VersionedTypes
<1> QED
  BY <1>2, <1>5, TruthKept

\* RunScript and MarkAsExecuted: the new row comes after every undo.
LEMMA ScriptDoneTruth ==
  ASSUME HoldInv, HistoryTruthful, NEW p \in Proc, cmd[p] \in {"migrate", "mark"},
         NEW s \in Script, s \in DOMAIN scripts[p],
         Record(FileRow(s, scripts[p][s], TRUE)),
         deployed' = [deployed EXCEPT ![s] = scripts[p][s]]
  PROVE  HistoryTruthful'
<1> DEFINE row == FileRow(s, scripts[p][s], TRUE)
<1>1. /\ TypeOf[s] # "UNDO_SQL" /\ scripts[p][s] \in Sum /\ scripts[p][s] # Absent
      /\ TypeOK
  BY ScriptFacts DEF HoldInv, Holds, HoldsFor, MigrateStages
<1>2. /\ RowFits(row) /\ row.ok = TRUE
      /\ row.type = TypeOf[s] /\ row.version = VersionOf[s]
  BY <1>1, FileRowFits DEF FileRow
<1>3. \A i \in DOMAIN rows : i < nextRank
  BY <1>1, <1>2, Recorded
<1> HIDE DEF row
<1>4. Record(row)
  BY DEF row
<1>5. ASSUME NEW v
      PROVE  /\ Undos(rows', v) = Undos(rows, v)
             /\ Applies(rows', v) = Applies(rows, v) \cup
                  (IF TypeOf[s] \in VersionedTypes /\ VersionOf[s] = v THEN {nextRank} ELSE {})
  <2>1. Undos(rows', v) = Undos(rows, v) \cup
          (IF row.type \in {"UNDO_SQL"} /\ row.version = v /\ row.ok THEN {nextRank} ELSE {})
    BY <1>1, <1>2, <1>4, DoneRecorded DEF Undos
  <2>2. Applies(rows', v) = Applies(rows, v) \cup
          (IF row.type \in VersionedTypes /\ row.version = v /\ row.ok THEN {nextRank} ELSE {})
    BY <1>1, <1>2, <1>4, DoneRecorded DEF Applies
  <2> QED
    BY <1>1, <1>2, <2>1, <2>2
<1>6. ASSUME NEW t \in VersionedScripts
      PROVE  deployed'[t] # Absent <=>
               \E i \in Applies(rows', VersionOf[t]) : \A u \in Undos(rows', VersionOf[t]) : u < i
  <2>1. t \in Script /\ TypeOf[t] \in VersionedTypes
    BY DEF VersionedScripts
  <2>2. CASE t = s
    <3>1. nextRank \in Applies(rows', VersionOf[t])
      BY <1>5, <2>1, <2>2
    <3>2. \A u \in Undos(rows', VersionOf[t]) : u < nextRank
      BY <1>3, <1>5 DEF Undos, Done
    <3>3. deployed'[t] # Absent
      BY <1>1, <2>2 DEF TypeOK
    <3> QED
      BY <3>1, <3>2, <3>3
  <2>3. CASE t # s
    <3>1. ~(TypeOf[s] \in VersionedTypes /\ VersionOf[s] = VersionOf[t])
      BY <2>3, ScriptFacts DEF VersionedScripts
    <3>2. /\ Applies(rows', VersionOf[t]) = Applies(rows, VersionOf[t])
          /\ Undos(rows', VersionOf[t]) = Undos(rows, VersionOf[t])
      BY <1>5, <3>1
    <3>3. deployed'[t] = deployed[t]
      BY <1>1, <2>1, <2>3 DEF TypeOK
    <3> QED
      BY <3>2, <3>3 DEF HistoryTruthful
  <2> QED
    BY <2>2, <2>3
<1> QED
  BY <1>6 DEF HistoryTruthful

\* The new row comes after every execution.
LEMMA RunUndoTruth ==
  ASSUME HoldInv, HistoryTruthful, NEW p \in Proc, NEW i, NEW u \in Script, RunUndo(p, i, u)
  PROVE  HistoryTruthful'
<1> DEFINE row == FileRow(u, scripts[p][u], TRUE)
<1>1. /\ cmd[p] \in {"undo", "undoTo"} /\ u \in DOMAIN scripts[p] /\ TypeOK
      /\ Record(row)
      /\ deployed' = [s \in Script |->
           IF s \in VersionedScripts /\ VersionOf[s] = VersionOf[u] THEN Absent ELSE deployed[s]]
  BY DEF RunUndo, UndoNext, HoldInv
<1>2. TypeOf[u] = "UNDO_SQL" /\ scripts[p][u] \in Sum
  BY <1>1 DEF HoldInv, Holds, HoldsFor
<1>3. /\ RowFits(row) /\ row.ok = TRUE
      /\ row.type = "UNDO_SQL" /\ row.version = VersionOf[u]
  BY <1>2, FileRowFits DEF FileRow
<1>4. \A k \in DOMAIN rows : k < nextRank
  BY <1>1, <1>3, Recorded
<1>5. nextRank \in Nat
  BY <1>1 DEF TypeOK
<1> HIDE DEF row
<1>6. ASSUME NEW v
      PROVE  /\ Applies(rows', v) = Applies(rows, v)
             /\ Undos(rows', v) = Undos(rows, v) \cup
                  (IF VersionOf[u] = v THEN {nextRank} ELSE {})
  <2>1. Undos(rows', v) = Undos(rows, v) \cup
          (IF row.type \in {"UNDO_SQL"} /\ row.version = v /\ row.ok THEN {nextRank} ELSE {})
    BY <1>1, <1>3, DoneRecorded DEF Undos
  <2>2. Applies(rows', v) = Applies(rows, v) \cup
          (IF row.type \in VersionedTypes /\ row.version = v /\ row.ok THEN {nextRank} ELSE {})
    BY <1>1, <1>3, DoneRecorded DEF Applies
  <2> QED
    BY <1>3, <2>1, <2>2 DEF VersionedTypes
<1>7. ASSUME NEW t \in VersionedScripts
      PROVE  deployed'[t] # Absent <=>
               \E k \in Applies(rows', VersionOf[t]) : \A w \in Undos(rows', VersionOf[t]) : w < k
  <2>1. t \in Script
    BY DEF VersionedScripts
  <2>2. CASE VersionOf[t] = VersionOf[u]
    <3>1. deployed'[t] = Absent
      BY <1>1, <2>1, <2>2
    <3>2. nextRank \in Undos(rows', VersionOf[t])
      BY <1>6, <2>2
    <3>3. ASSUME NEW k \in Applies(rows', VersionOf[t]) PROVE ~(nextRank < k)
      <4>1. k \in DOMAIN rows
        BY <1>6, <3>3 DEF Applies, Done
      <4>2. k \in Nat /\ k < nextRank
        BY <1>1, <1>4, <4>1 DEF TypeOK
      <4> QED
        BY <1>5, <4>2
    <3> QED
      BY <3>1, <3>2, <3>3
  <2>3. CASE VersionOf[t] # VersionOf[u]
    <3>1. /\ Applies(rows', VersionOf[t]) = Applies(rows, VersionOf[t])
          /\ Undos(rows', VersionOf[t]) = Undos(rows, VersionOf[t])
      BY <1>6, <2>3
    <3>2. deployed'[t] = deployed[t]
      BY <1>1, <2>1, <2>3
    <3> QED
      BY <3>1, <3>2 DEF HistoryTruthful
  <2> QED
    BY <2>2, <2>3
<1> QED
  BY <1>7 DEF HistoryTruthful

\* Failures and baselines are neither executions nor undos.
LEMMA OtherRowTruth ==
  ASSUME HoldInv, HistoryTruthful, NEW row, RowFits(row), Record(row), deployed' = deployed,
         ~row.ok \/ row.type \notin {"SQL", "PYTHON", "UNDO_SQL"}
  PROVE  HistoryTruthful'
<1>1. \A v : Applies(rows', v) = Applies(rows, v) /\ Undos(rows', v) = Undos(rows, v)
  BY OtherRow DEF HoldInv
<1> QED
  BY <1>1, TruthKept

LEMMA FailureTruth ==
  ASSUME HoldInv, HistoryTruthful, NEW p \in Proc, NEW s \in Script, s \in DOMAIN scripts[p],
         Record(FileRow(s, scripts[p][s], FALSE)), deployed' = deployed
  PROVE  HistoryTruthful'
<1>1. scripts[p][s] \in Sum \cup {Absent}
  BY DEF HoldInv, TypeOK, PartialFunction
<1>2. RowFits(FileRow(s, scripts[p][s], FALSE)) /\ ~FileRow(s, scripts[p][s], FALSE).ok
  BY <1>1, FileRowFits DEF FileRow
<1> QED
  BY <1>2, OtherRowTruth

LEMMA TruthStep ==
  ASSUME HoldInv, HistoryTruthful, [Next]_vars
  PROVE  HistoryTruthful'
<1>1. ASSUME UNCHANGED dbVars PROVE HistoryTruthful'
  BY <1>1, TruthKept DEF dbVars
<1>2. ASSUME NEW p \in Proc,
             \/ Validate(p) \/ AcquireLock(p) \/ PlanUndo(p) \/ PlanRepair(p)
             \/ PlanBaseline(p) \/ Abort(p)
             \/ \E command \in Commands : PlanMigrate(p, command)
             \/ \E t \in Targets : PlanUndoTo(p, t)
      PROVE  HistoryTruthful'
  BY <1>1, <1>2 DEF Validate, AcquireLock, PlanUndo, BeginUndo, PlanRepair, PlanBaseline,
                    Abort, PlanMigrate, PlanUndoTo
<1>3. ASSUME NEW p \in Proc, RunRepair(p) PROVE HistoryTruthful'
  BY <1>3, RunRepairTruth
<1>4. ASSUME NEW p \in Proc, NEW v \in BaselineAt, RunBaseline(p, v) PROVE HistoryTruthful'
  <2>1. /\ Record(BaselineRow(v)) /\ deployed' = deployed
        /\ BaselineRow(v).type \notin {"SQL", "PYTHON", "UNDO_SQL"}
    BY <1>4 DEF RunBaseline, BaselineRow
  <2> QED
    BY <2>1, BaselineFitsRow, OtherRowTruth
<1>5. ASSUME NEW p \in Proc, NEW s \in Script, RunScript(p, s) \/ MarkAsExecuted(p, s)
      PROVE  HistoryTruthful'
  BY <1>5, ScriptDoneTruth DEF RunScript, MarkAsExecuted, IsNext
<1>6. ASSUME NEW p \in Proc, NEW s \in Script, ScriptFails(p, s) PROVE HistoryTruthful'
  BY <1>6, FailureTruth DEF ScriptFails, IsNext
<1>7. ASSUME NEW p \in Proc, NEW i \in DOMAIN chosen[p], NEW u \in Script, RunUndo(p, i, u)
      PROVE  HistoryTruthful'
  BY <1>7, RunUndoTruth
<1>8. ASSUME NEW p \in Proc, NEW i \in DOMAIN chosen[p], NEW u \in Script, UndoFails(p, i, u)
      PROVE  HistoryTruthful'
  BY <1>8, FailureTruth DEF UndoFails, UndoNext
<1>9. ASSUME NEW s \in Script, NEW sum \in Sum \cup {Absent}, Edit(s, sum)
      PROVE  HistoryTruthful'
  BY <1>1, <1>9 DEF Edit
<1>10. CASE UNCHANGED vars
  BY <1>1, <1>10 DEF vars
<1> QED
  BY <1>2, <1>3, <1>4, <1>5, <1>6, <1>7, <1>8, <1>9, <1>10 DEF Next

-----------------------------------------------------------------------------
LEMMA InitTypes == Init => TypeOK
<1> SUFFICES ASSUME Init PROVE TypeOK
  OBVIOUS
<1>1. RowsFit
  BY DEF Init, RowsFit
<1>2. ProcsFit
  BY DEF Init, ProcsFit, Stages, PartialFunction
<1>3. RestFits
  BY HistoryCommandsAssumption DEF HistoryCommandsAssumption, Init, RestFits
<1> QED
  BY <1>1, <1>2, <1>3, TypeParts

LEMMA InitInv == Init => IInv
<1> SUFFICES ASSUME Init PROVE IInv
  OBVIOUS
<1>1. TypeOK
  BY InitTypes
<1>2. \A p \in Proc : cmd[p] = "none"
  BY DEF Init
<1>3. Apart
  BY <1>2 DEF Apart
<1>4. \A p \in Proc : Holds(p)
  BY <1>2 DEF Holds, HoldsFor, MigrateStages
<1>5. HistoryTruthful
  BY DEF Init, HistoryTruthful, Applies, Done, VersionedScripts
<1> QED
  BY <1>1, <1>3, <1>4, <1>5 DEF IInv

LEMMA StepInv ==
  ASSUME NoRepairDuringMigrate
  PROVE  IInv /\ [Next]_vars => IInv'
<1> SUFFICES ASSUME IInv, [Next]_vars PROVE IInv'
  OBVIOUS
<1>1. HoldInv /\ HistoryTruthful
  BY DEF IInv, HoldInv
<1>2. TypeOK'
  BY TypeStep DEF IInv
<1>3. Held
  BY <1>1, HoldStep
<1>4. HistoryTruthful'
  BY <1>1, TruthStep
<1> QED
  BY <1>2, <1>3, <1>4 DEF IInv, Held

\* Every row is well formed and belongs to its script, and ranks are unused
\* before they are given out, for any number of processes and any overlap.
THEOREM Typing == Spec => []TypeOK
  BY InitTypes, TypeStep, PTL DEF Spec

\* Unless repair runs beside migrate, a versioned script is deployed exactly
\* when its version has a successful execution that no successful undo follows.
THEOREM Truthful == NoRepairDuringMigrate => (Spec => []HistoryTruthful)
<1> SUFFICES ASSUME NoRepairDuringMigrate PROVE Spec => []HistoryTruthful
  OBVIOUS
<1>1. IInv => HistoryTruthful
  BY DEF IInv
<1>2. IInv /\ [Next]_vars => IInv'
  BY StepInv
<1> QED
  BY <1>1, <1>2, InitInv, PTL DEF Spec

-----------------------------------------------------------------------------
(* No script runs on a database that has it *)

\* --mark-as-executed records a script without the lock, also one that a
\* running migrate is about to execute.
NoMarkDuringMigrate == {"migrate", "mark"} \notin MayOverlap

\* What a process in migrate's loop has left to do is not deployed: it has the
\* lock and the history was read under it.
Fresh ==
  \A p \in Proc :
    /\ cmd[p] = "mark" => \A q \in Proc : ~Migrating(q)
    /\ cmd[p] = "migrate" =>
         /\ lock = p
         /\ \A s \in DOMAIN scripts[p] \cap VersionedScripts : deployed[s] = Absent

LEMMA StepFresh ==
  ASSUME TypeOK, Fresh,
         NEW p \in Proc, NEW stage, NEW loaded, NEW picked,
         Step(p, stage, loaded, picked),
         stage = "mark" => \A q \in Proc \ {p} : ~Migrating(q),
         stage \in MigrateStages => \A q \in Proc \ {p} : cmd[q] # "mark",
         stage = "migrate" =>
           lock' = p /\ \A s \in DOMAIN loaded \cap VersionedScripts : deployed'[s] = Absent,
         \A q \in Proc \ {p} : cmd[q] = "migrate" =>
           lock' = lock /\ \A s \in VersionedScripts : deployed[s] = Absent => deployed'[s] = Absent
  PROVE  Fresh'
<1>1. /\ cmd'[p] = stage /\ scripts'[p] = loaded
      /\ \A q \in Proc \ {p} : cmd'[q] = cmd[q] /\ scripts'[q] = scripts[q]
  BY DEF TypeOK, Step
<1>2. ASSUME NEW q \in Proc, NEW r \in Proc, cmd'[q] = "mark" PROVE ~Migrating(r)'
  <2>1. CASE q = r
    BY <1>2, <2>1 DEF Migrating, MigrateStages
  <2>2. CASE q # r /\ q = p
    BY <1>1, <1>2, <2>2 DEF Migrating
  <2>3. CASE q # r /\ r = p
    BY <1>1, <1>2, <2>3 DEF Migrating
  <2>4. CASE q # p /\ r # p
    BY <1>1, <1>2, <2>4 DEF Fresh, Migrating
  <2> QED
    BY <2>1, <2>2, <2>3, <2>4
<1>3. ASSUME NEW q \in Proc, cmd'[q] = "migrate"
      PROVE  lock' = q /\ \A s \in DOMAIN scripts'[q] \cap VersionedScripts : deployed'[s] = Absent
  <2>1. CASE q = p
    BY <1>1, <1>3, <2>1
  <2>2. CASE q # p
    <3>1. cmd[q] = "migrate" /\ scripts'[q] = scripts[q]
      BY <1>1, <1>3, <2>2
    <3> QED
      BY <2>2, <3>1 DEF Fresh
  <2> QED
    BY <2>1, <2>2
<1> QED
  BY <1>2, <1>3 DEF Fresh

LEMMA FinishFresh ==
  ASSUME TypeOK, Fresh, NEW p \in Proc, Finish(p),
         \A q \in Proc \ {p} : cmd[q] = "migrate" =>
           \A s \in VersionedScripts : deployed[s] = Absent => deployed'[s] = Absent
  PROVE  Fresh'
<1>1. Step(p, "none", NoScripts, NoRows)
  BY DEF Finish
<1>2. \A q \in Proc \ {p} : cmd[q] = "migrate" => lock' = lock
  BY DEF Finish, Fresh
<1>3. "none" # "mark" /\ "none" # "migrate" /\ "none" \notin MigrateStages
  BY DEF MigrateStages
<1> QED
  BY <1>1, <1>2, <1>3, StepFresh

LEMMA StartedWithoutMark ==
  ASSUME NoMarkDuringMigrate, NEW p \in Proc, NEW command, MayStart(p, command)
  PROVE  /\ command = "mark" => \A q \in Proc \ {p} : ~Migrating(q)
         /\ command = "migrate" => \A q \in Proc \ {p} : cmd[q] # "mark"
<1>1. \A q \in Proc \ {p} : cmd[q] # "none" => {command, Running(q)} \in MayOverlap
  BY DEF MayStart
<1>2. \A q \in Proc : Migrating(q) => Running(q) = "migrate" /\ cmd[q] # "none"
  BY DEF Migrating, MigrateStages, Running
<1>3. \A q \in Proc : cmd[q] = "mark" => Running(q) = "mark" /\ cmd[q] # "none"
  BY DEF Running
<1>4. {"mark", "migrate"} = {"migrate", "mark"}
  OBVIOUS
<1> QED
  BY <1>1, <1>2, <1>3, <1>4 DEF NoMarkDuringMigrate

\* A process that has the lock finds what is deployed in the history.
LEMMA UnappliedIsAbsent ==
  ASSUME TypeOK, HistoryTruthful, NEW s \in VersionedScripts, s \notin AlreadyApplied(rows)
  PROVE  deployed[s] = Absent
<1>1. SUFFICES ASSUME NEW i \in Applies(rows, VersionOf[s]),
                      \A u \in Undos(rows, VersionOf[s]) : u < i
               PROVE  FALSE
  BY DEF HistoryTruthful
<1>2. /\ i \in DOMAIN rows /\ RowFits(rows[i]) /\ rows[i].ok
      /\ rows[i].type \in VersionedTypes /\ rows[i].version = VersionOf[s]
  BY <1>1 DEF Applies, Done, TypeOK
<1>3. rows[i].script \in VersionedScripts /\ VersionOf[rows[i].script] = VersionOf[s]
  BY <1>2, ScriptFacts DEF RowFits, VersionedScripts, VersionedTypes
<1>4. rows[i].type = TypeOf[s]
  BY <1>2, <1>3, ScriptFacts DEF RowFits, VersionedTypes
<1>5. i \in Done(rows, {TypeOf[s]}, VersionOf[s])
  BY <1>2, <1>4 DEF Done
<1> QED
  BY <1>1, <1>5 DEF AlreadyApplied

LEMMA PlanMigrateFresh ==
  ASSUME TypeOK, Fresh, NoMarkDuringMigrate, NEW p \in Proc, NEW command, PlanMigrate(p, command)
  PROVE  Fresh'
<1> DEFINE stage == IF command = "mark" THEN "mark" ELSE "validate"
           loaded == Load(PendingScripts(rows, content))
<1>1. /\ Step(p, stage, loaded, NoRows) /\ UNCHANGED <<deployed, lock>>
      /\ command \in {"migrate", "mark"} /\ MayStart(p, command)
  BY DEF PlanMigrate, dbVars
<1>2. /\ stage = "mark" => \A q \in Proc \ {p} : ~Migrating(q)
      /\ stage \in MigrateStages => \A q \in Proc \ {p} : cmd[q] # "mark"
      /\ stage # "migrate"
  BY <1>1, StartedWithoutMark DEF MigrateStages
<1> HIDE DEF stage, loaded
<1> QED
  BY <1>1, <1>2, StepFresh

LEMMA ValidateFresh ==
  ASSUME TypeOK, Fresh, NEW p \in Proc, Validate(p)
  PROVE  Fresh'
<1>1. cmd[p] = "validate" /\ UNCHANGED deployed
  BY DEF Validate, dbVars
<1>2. CASE ValidationFails(rows, content)
  BY <1>1, <1>2, FinishFresh DEF Validate
<1>3. CASE ~ValidationFails(rows, content)
  <2>1. Step(p, "wait", scripts[p], NoRows) /\ UNCHANGED lock
    BY <1>3 DEF Validate
  <2>2. "wait" # "mark" /\ "wait" # "migrate" /\ \A q \in Proc \ {p} : cmd[q] # "mark"
    BY <1>1 DEF Fresh, Migrating, MigrateStages
  <2> QED
    BY <1>1, <2>1, <2>2, StepFresh
<1> QED
  BY <1>2, <1>3

LEMMA AcquireLockFresh ==
  ASSUME TypeOK, Fresh, HistoryTruthful, NEW p \in Proc, AcquireLock(p)
  PROVE  Fresh'
<1> DEFINE left == DOMAIN scripts[p] \ AlreadyApplied(rows)
           loaded == [s \in left |-> scripts[p][s]]
<1>1. cmd[p] = "wait" /\ lock = NoProc /\ UNCHANGED deployed
  BY DEF AcquireLock, dbVars
<1>2. CASE left = {}
  BY <1>1, <1>2, FinishFresh DEF AcquireLock
<1>3. CASE left # {}
  <2>1. Step(p, "migrate", loaded, NoRows) /\ lock' = p
    BY <1>3 DEF AcquireLock
  <2>2. \A s \in DOMAIN loaded \cap VersionedScripts : deployed'[s] = Absent
    BY <1>1, UnappliedIsAbsent
  <2>3. "migrate" # "mark" /\ \A q \in Proc \ {p} : cmd[q] # "mark" /\ cmd[q] # "migrate"
    BY <1>1, HistoryCommandsAssumption
       DEF HistoryCommandsAssumption, Fresh, Migrating, MigrateStages
  <2> HIDE DEF loaded
  <2> QED
    BY <2>1, <2>2, <2>3, StepFresh
<1> QED
  BY <1>2, <1>3

\* RunScript and MarkAsExecuted: nobody else is in migrate's loop.
LEMMA ScriptDoneFresh ==
  ASSUME TypeOK, Fresh, NEW p \in Proc, cmd[p] \in {"migrate", "mark"}, NEW s \in Script,
         Proceed(p, s), deployed' = [deployed EXCEPT ![s] = scripts[p][s]]
  PROVE  Fresh'
<1>1. \A q \in Proc \ {p} : cmd[q] # "migrate"
  BY DEF Fresh, Migrating, MigrateStages
<1>2. CASE DOMAIN scripts[p] = {s}
  BY <1>1, <1>2, FinishFresh DEF Proceed
<1>3. CASE DOMAIN scripts[p] # {s}
  <2>1. Step(p, cmd[p], Without(scripts[p], s), NoRows) /\ UNCHANGED lock
    BY <1>3 DEF Proceed
  <2>2. /\ cmd[p] = "mark" => \A q \in Proc \ {p} : ~Migrating(q)
        /\ cmd[p] \in MigrateStages => \A q \in Proc \ {p} : cmd[q] # "mark"
    BY DEF Fresh, Migrating, MigrateStages
  <2>3. cmd[p] = "migrate" =>
          lock' = p /\ \A t \in DOMAIN Without(scripts[p], s) \cap VersionedScripts : deployed'[t] = Absent
    <3>1. \A t \in DOMAIN Without(scripts[p], s) : t \in DOMAIN scripts[p] /\ t # s
      BY DEF Without
    <3>2. \A t \in VersionedScripts : t # s => deployed'[t] = deployed[t]
      BY DEF TypeOK, VersionedScripts
    <3> QED
      BY <2>1, <3>1, <3>2 DEF Fresh
  <2> QED
    BY <1>1, <2>1, <2>2, <2>3, StepFresh
<1> QED
  BY <1>2, <1>3

\* Undo only takes away.
LEMMA RunUndoFresh ==
  ASSUME TypeOK, Fresh, NEW p \in Proc, NEW i, NEW u, RunUndo(p, i, u)
  PROVE  Fresh'
<1>1. cmd[p] \in {"undo", "undoTo"}
  BY DEF RunUndo, UndoNext
<1>2. \A s \in VersionedScripts : deployed[s] = Absent => deployed'[s] = Absent
  BY DEF RunUndo, VersionedScripts
<1>3. CASE DOMAIN chosen[p] = {i}
  BY <1>2, <1>3, FinishFresh DEF RunUndo
<1>4. CASE DOMAIN chosen[p] # {i}
  <2>1. Step(p, cmd[p], scripts[p], Without(chosen[p], i)) /\ UNCHANGED lock
    BY <1>4 DEF RunUndo
  <2>2. cmd[p] # "mark" /\ cmd[p] # "migrate" /\ cmd[p] \notin MigrateStages
    BY <1>1 DEF MigrateStages
  <2> QED
    BY <1>2, <2>1, <2>2, StepFresh
<1> QED
  BY <1>3, <1>4

\* undo, repair and baseline make their plans.
LEMMA PlanFresh ==
  ASSUME TypeOK, Fresh, NEW p \in Proc, NEW stage \in {"undo", "undoTo", "repair", "baseline"},
         NEW loaded, NEW picked, Step(p, stage, loaded, picked), UNCHANGED <<deployed, lock>>
  PROVE  Fresh'
<1>1. stage # "mark" /\ stage # "migrate" /\ stage \notin MigrateStages
  BY DEF MigrateStages
<1> QED
  BY <1>1, StepFresh

LEMMA FreshStep ==
  ASSUME TypeOK, Fresh, HistoryTruthful, NoMarkDuringMigrate, [Next]_vars
  PROVE  Fresh'
<1>1. ASSUME NEW p \in Proc, Validate(p) \/ AcquireLock(p) PROVE Fresh'
  BY <1>1, ValidateFresh, AcquireLockFresh
<1>2. ASSUME NEW p \in Proc, PlanUndo(p) \/ \E t \in Targets : PlanUndoTo(p, t) PROVE Fresh'
  BY <1>2, PlanFresh DEF PlanUndo, PlanUndoTo, BeginUndo, dbVars
<1>3. ASSUME NEW p \in Proc, PlanRepair(p) \/ PlanBaseline(p) PROVE Fresh'
  BY <1>3, PlanFresh DEF PlanRepair, PlanBaseline, dbVars
<1>4. ASSUME NEW p \in Proc, RunRepair(p) \/ Abort(p) \/ \E v \in BaselineAt : RunBaseline(p, v)
      PROVE  Fresh'
  BY <1>4, FinishFresh DEF RunRepair, Abort, RunBaseline, dbVars
<1>5. ASSUME NEW p \in Proc, NEW command \in Commands, PlanMigrate(p, command) PROVE Fresh'
  BY <1>5, PlanMigrateFresh
<1>6. ASSUME NEW p \in Proc, NEW s \in Script, RunScript(p, s) \/ MarkAsExecuted(p, s)
      PROVE  Fresh'
  BY <1>6, ScriptDoneFresh DEF RunScript, MarkAsExecuted
<1>7. ASSUME NEW p \in Proc, NEW s \in Script, ScriptFails(p, s) PROVE Fresh'
  BY <1>7, FinishFresh DEF ScriptFails
<1>8. ASSUME NEW p \in Proc, NEW i \in DOMAIN chosen[p], NEW u \in Script,
             RunUndo(p, i, u) \/ UndoFails(p, i, u)
      PROVE  Fresh'
  BY <1>8, RunUndoFresh, FinishFresh DEF UndoFails
<1>9. ASSUME UNCHANGED <<deployed, cmd, scripts, lock>> PROVE Fresh'
  BY <1>9 DEF Fresh, Migrating
<1>10. ASSUME NEW s \in Script, NEW sum \in Sum \cup {Absent}, Edit(s, sum) PROVE Fresh'
  BY <1>9, <1>10 DEF Edit, dbVars, procVars
<1>11. CASE UNCHANGED vars
  BY <1>9, <1>11 DEF vars, dbVars, procVars
<1> QED
  BY <1>1, <1>2, <1>3, <1>4, <1>5, <1>6, <1>7, <1>8, <1>10, <1>11 DEF Next

\* migrate never executes a versioned script on a database that reflects it
\* already, although its pending scripts were computed before it waited for the
\* lock: provided that neither repair nor --mark-as-executed runs beside it.
THEOREM NeverTwice ==
  NoRepairDuringMigrate /\ NoMarkDuringMigrate => (Spec => NeverDeployedTwice)
<1> SUFFICES ASSUME NoRepairDuringMigrate, NoMarkDuringMigrate PROVE Spec => NeverDeployedTwice
  OBVIOUS
<1> DEFINE Once == \A p \in Proc, s \in VersionedScripts : RunScript(p, s) => deployed[s] = Absent
<1>1. Init => Fresh
  BY DEF Init, Fresh
<1>2. IInv /\ [Next]_vars => IInv'
  BY StepInv
<1>3. IInv /\ Fresh /\ [Next]_vars => Fresh'
  BY FreshStep DEF IInv
<1>4. Fresh => Once
  <2>1. ASSUME Fresh, NEW p \in Proc, NEW s \in VersionedScripts, RunScript(p, s)
        PROVE  deployed[s] = Absent
    <3>1. cmd[p] = "migrate" /\ s \in DOMAIN scripts[p]
      BY <2>1 DEF RunScript, IsNext
    <3> QED
      BY <2>1, <3>1 DEF Fresh
  <2> QED
    BY <2>1
<1>5. IInv /\ Fresh /\ [Next]_vars => [Once]_vars
  BY <1>4
<1> HIDE DEF Once
<1>6. Spec => [][Once]_vars
  BY <1>1, <1>2, <1>3, <1>5, InitInv, PTL DEF Spec
<1> QED
  BY <1>6 DEF NeverDeployedTwice, Once

-----------------------------------------------------------------------------
(* Pending means not deployed *)

\* The natural numbers are well-founded.
LEMMA Least ==
  ASSUME NEW T, T \subseteq Nat, T # {}
  PROVE  \E m \in T : \A n \in T : m <= n
<1> DEFINE R == OpToRel(<, Nat)
<1>1. IsWellFoundedOn(R, Nat)
  BY NatLessThanWellFounded
<1>2. \A m, n \in Nat : m < n => <<m, n>> \in R
  BY DEF OpToRel
<1> HIDE DEF R
<1>3. PICK m \in T : \A n \in T : ~ (<<n, m>> \in R)
  BY <1>1, WFMin
<1>4. ASSUME NEW n \in T PROVE m <= n
  <2>1. ~ (n < m)
    BY <1>2, <1>3, <1>4
  <2> QED
    BY <2>1
<1> QED
  BY <1>3, <1>4

LEMMA Greatest ==
  ASSUME NEW N \in Nat, NEW T, T \subseteq 1 .. N, T # {}
  PROVE  \E m \in T : \A n \in T : n <= m
<1> DEFINE S == {N - n : n \in T}
<1>1. S \subseteq Nat /\ S # {}
  <2>1. \A n \in T : N - n \in Nat
    OBVIOUS
  <2> QED
    BY <2>1
<1>2. PICK d \in S : \A e \in S : d <= e
  <2> HIDE DEF S
  <2> QED
    BY <1>1, Least
<1>3. PICK m \in T : d = N - m
  BY <1>2
<1>4. ASSUME NEW n \in T PROVE n <= m
  <2>1. N - n \in S
    OBVIOUS
  <2>2. N - m <= N - n
    BY <1>2, <1>3, <2>1
  <2> QED
    BY <2>2, <1>3
<1> QED
  BY <1>4

\* Executions and undos of a version are different rows.
LEMMA RanksOfVersion ==
  ASSUME TypeOK, NEW v
  PROVE  /\ nextRank - 1 \in Nat
         /\ Applies(rows, v) \subseteq 1 .. (nextRank - 1)
         /\ Undos(rows, v) \subseteq 1 .. (nextRank - 1)
         /\ Applies(rows, v) \cap Undos(rows, v) = {}
<1>1. nextRank - 1 \in Nat /\ DOMAIN rows \subseteq 1 .. (nextRank - 1)
  BY DEF TypeOK
<1>2. Applies(rows, v) \subseteq DOMAIN rows /\ Undos(rows, v) \subseteq DOMAIN rows
  BY DEF Applies, Undos, Done
<1>3. Applies(rows, v) \cap Undos(rows, v) = {}
  BY DEF Applies, Undos, Done, VersionedTypes
<1> QED
  BY <1>1, <1>2, <1>3

\* A version with an execution that no undo follows is not listed as undone,
\* although only the first of its undos is looked at.
LEMMA InForceIsNotListed ==
  ASSUME TypeOK, NEW v \in Version, NEW i \in Applies(rows, v),
         \A u \in Undos(rows, v) : u < i
  PROVE  v \notin ListedUndone(rows)
<1>1. SUFFICES ASSUME Undos(rows, v) # {} PROVE v \in ReappliedVersions(rows)
  BY DEF ListedUndone, UndoneVersions
<1>2. Applies(rows, v) \subseteq Nat /\ Undos(rows, v) \subseteq Nat
  BY RanksOfVersion
<1>3. PICK u \in Undos(rows, v) : \A w \in Undos(rows, v) : u <= w
  BY <1>1, <1>2, Least
<1>4. i \in DOMAIN rows /\ rows[i].type \in VersionedTypes /\ rows[i].version = v
  BY DEF Applies, Done
<1>5. i > u
  BY <1>2, <1>3
<1> QED
  BY <1>1, <1>3, <1>4, <1>5 DEF ReappliedVersions, UndoneVersions

\* The two classes that read the history agree: a version with an execution
\* that no undo follows is neither listed as undone nor undone for the state
\* manager.
LEMMA InForceIsNotPending ==
  ASSUME TypeOK, NEW v \in Version, NEW i \in Applies(rows, v),
         \A u \in Undos(rows, v) : u < i
  PROVE  ~VersionPending(rows, v)
<1>1. /\ Applies(rows, v) \subseteq Nat /\ Undos(rows, v) \subseteq Nat
  BY RanksOfVersion
<1>2. v \notin EffectivelyUndone(rows)
  <2>1. SUFFICES ASSUME NEW u \in Undos(rows, v), \A j \in Applies(rows, v) : j < u
                 PROVE  FALSE
    BY DEF EffectivelyUndone
  <2>2. u < i /\ i < u
    BY <2>1
  <2> QED
    BY <2>2, <1>1
<1>3. v \notin ListedUndone(rows)
  BY InForceIsNotListed
<1>4. v \in ExecutedVersions(rows)
  BY <1>3 DEF ExecutedVersions
<1> QED
  BY <1>2, <1>4 DEF VersionPending

\* A version whose executions have all been undone is pending, or is held back
\* by a FAILED row or the baseline.
LEMMA NotInForceIsPending ==
  ASSUME TypeOK, NEW v \in Version,
         \A i \in Applies(rows, v) : \E u \in Undos(rows, v) : ~ (u < i)
  PROVE  \/ VersionPending(rows, v)
         \/ CoveredByBaseline(rows, v)
         \/ \E i \in FailedRows(rows) : rows[i].version = v
<1>1. CASE Applies(rows, v) = {}
  BY <1>1 DEF VersionPending, ExecutedVersions
<1>2. CASE Applies(rows, v) # {}
  <2>1. PICK i \in Applies(rows, v) : \A j \in Applies(rows, v) : j <= i
    BY <1>2, RanksOfVersion, Greatest
  <2>2. PICK u \in Undos(rows, v) : ~ (u < i)
    BY <2>1
  <2>3. /\ i \in Nat /\ u \in Nat /\ i # u
        /\ Applies(rows, v) \subseteq Nat
    BY RanksOfVersion
  <2>4. \A j \in Applies(rows, v) : j < u
    BY <2>1, <2>2, <2>3
  <2>5. v \in EffectivelyUndone(rows)
    BY <2>4 DEF EffectivelyUndone
  <2> QED
    BY <2>5 DEF VersionPending
<1> QED
  BY <1>1, <1>2

\* A script that migrate finds pending is not deployed, and one that is not
\* deployed is pending unless a FAILED row or the baseline holds it back,
\* provided that repair does not run beside migrate: what two classes read
\* off the rows in two ways is the truth about the database.
THEOREM PendingTruth == NoRepairDuringMigrate => (Spec => []PendingTruthful)
<1> SUFFICES ASSUME NoRepairDuringMigrate PROVE Spec => []PendingTruthful
  OBVIOUS
<1>1. IInv => PendingTruthful
  <2>1. SUFFICES ASSUME IInv, NEW s \in VersionedScripts
                 PROVE  /\ VersionPending(rows, VersionOf[s]) => deployed[s] = Absent
                        /\ deployed[s] = Absent =>
                             \/ VersionPending(rows, VersionOf[s])
                             \/ CoveredByBaseline(rows, VersionOf[s])
                             \/ \E i \in FailedRows(rows) : rows[i].version = VersionOf[s]
    BY DEF PendingTruthful
  <2>2. TypeOK /\ VersionOf[s] \in Version
    BY <2>1, ScriptFacts DEF IInv
  <2>3. deployed[s] # Absent <=>
          \E i \in Applies(rows, VersionOf[s]) : \A u \in Undos(rows, VersionOf[s]) : u < i
    BY <2>1 DEF IInv, HistoryTruthful
  <2>4. VersionPending(rows, VersionOf[s]) => deployed[s] = Absent
    BY <2>2, <2>3, InForceIsNotPending
  <2>5. ASSUME deployed[s] = Absent
        PROVE  \/ VersionPending(rows, VersionOf[s])
               \/ CoveredByBaseline(rows, VersionOf[s])
               \/ \E i \in FailedRows(rows) : rows[i].version = VersionOf[s]
    BY <2>2, <2>3, <2>5, NotInForceIsPending
  <2> QED
    BY <2>4, <2>5
<1>2. IInv /\ [Next]_vars => IInv'
  BY StepInv
<1> QED
  BY <1>1, <1>2, InitInv, PTL DEF Spec

-----------------------------------------------------------------------------
(* undo and repair *)

\* The successful row of a version that is in force is one that undo may take.
LEMMA InForceCanBeUndone ==
  ASSUME TypeOK, NEW s \in VersionedScripts, TypeOf[s] = "SQL",
         NEW i \in Applies(rows, VersionOf[s]),
         \A u \in Undos(rows, VersionOf[s]) : u < i
  PROVE  i \in UndoCandidates(rows) /\ CanUndo(rows, rows[i].version)
<1>1. s \in Script /\ VersionOf[s] \in Version
  BY ScriptFacts
<1>2. /\ i \in DOMAIN rows /\ RowFits(rows[i]) /\ rows[i].ok
      /\ rows[i].type \in VersionedTypes /\ rows[i].version = VersionOf[s]
  BY DEF Applies, Done, TypeOK
<1>3. rows[i].script \in VersionedScripts /\ VersionOf[rows[i].script] = VersionOf[s]
  BY <1>2, ScriptFacts DEF RowFits, VersionedScripts, VersionedTypes
<1>4. rows[i].type = "SQL"
  BY <1>2, <1>3, ScriptFacts DEF RowFits, VersionedTypes
<1>5. VersionOf[s] \notin ListedUndone(rows)
  BY <1>1, InForceIsNotListed
<1>6. i \in UndoCandidates(rows)
  BY <1>2, <1>5 DEF UndoCandidates, Listed
<1>7. i \in Done(rows, {"SQL"}, VersionOf[s])
  BY <1>2, <1>4 DEF Done
<1> QED
  BY <1>2, <1>6, <1>7 DEF CanUndo

\* Undo without a target plans to undo the highest version that is deployed as
\* an SQL script, whatever undos, repairs and failures the history has seen,
\* provided that repair does not run beside migrate.
THEOREM LatestIsUndone == NoRepairDuringMigrate => (Spec => UndoTakesLatest)
<1> SUFFICES ASSUME NoRepairDuringMigrate PROVE Spec => UndoTakesLatest
  OBVIOUS
<1> DEFINE Latest == \A p \in Proc : PlanUndo(p) =>
             \A i \in DOMAIN chosen'[p], s \in VersionedScripts :
               deployed[s] # Absent /\ TypeOf[s] = "SQL" =>
                 Order[VersionOf[s]] <= Order[VersionOf[chosen'[p][i]]]
<1>1. ASSUME IInv, NEW p \in Proc, PlanUndo(p), NEW i \in DOMAIN chosen'[p],
             NEW s \in VersionedScripts, deployed[s] # Absent, TypeOf[s] = "SQL"
      PROVE  Order[VersionOf[s]] <= Order[VersionOf[chosen'[p][i]]]
  <2>1. TypeOK /\ HistoryTruthful
    BY <1>1 DEF IInv
  <2>2. chosen'[p] = ScriptsOf(LatestToUndo(rows))
    BY <1>1, <2>1 DEF PlanUndo, BeginUndo, Step, TypeOK
  <2>3. i \in LatestToUndo(rows) /\ chosen'[p][i] = rows[i].script
    BY <1>1, <2>2 DEF ScriptsOf
  <2>4. PICK j \in Applies(rows, VersionOf[s]) :
               \A u \in Undos(rows, VersionOf[s]) : u < j
    BY <1>1, <2>1 DEF HistoryTruthful
  <2>5. j \in UndoCandidates(rows) /\ CanUndo(rows, rows[j].version)
    BY <1>1, <2>1, <2>4, InForceCanBeUndone
  <2>6. rows[j].version = VersionOf[s]
    BY <2>4 DEF Applies, Done
  <2>7. \/ Order[rows[j].version] < Order[rows[i].version]
        \/ Order[rows[j].version] = Order[rows[i].version]
    BY <2>3, <2>5 DEF LatestToUndo
  <2>8. rows[i].version = VersionOf[rows[i].script] /\ rows[i].version \in Version
    <3>1. i \in DOMAIN rows /\ RowFits(rows[i]) /\ rows[i].type \in VersionedTypes
      BY <2>1, <2>3 DEF LatestToUndo, UndoCandidates, Listed, TypeOK
    <3>2. /\ rows[i].script \in Script /\ rows[i].version = VersionOf[rows[i].script]
          /\ rows[i].type = TypeOf[rows[i].script]
      BY <3>1 DEF RowFits, VersionedTypes
    <3> QED
      BY <3>1, <3>2, ScriptFacts DEF VersionedScripts
  <2>9. VersionOf[s] \in Version /\ Order \in [Version -> Nat]
    BY ScriptFacts, HistoryCommandsAssumption
       DEF HistoryCommandsAssumption, HistoryRulesAssumption
  <2>10. Order[VersionOf[s]] \in Nat /\ Order[rows[i].version] \in Nat
    BY <2>8, <2>9
  <2> QED
    BY <2>3, <2>6, <2>7, <2>8, <2>10
<1>2. IInv => [Latest]_vars
  BY <1>1
<1>3. IInv /\ [Next]_vars => IInv'
  BY StepInv
<1> HIDE DEF Latest
<1>4. Spec => [][Latest]_vars
  BY <1>2, <1>3, InitInv, PTL DEF Spec
<1> QED
  BY <1>4 DEF UndoTakesLatest, Latest

\* Whatever the validator of migrate objects to, repair has a repair for it,
\* but for deleted scripts that are back and changed Python scripts: the two
\* search the history independently.
THEOREM RepairCovers == Spec => []RepairCoversValidation
<1>1. TypeOK => RepairCoversValidation
  <2>1. SUFFICES ASSUME TypeOK, NothingToRepair(rows, content), Reappeared(rows, content) = {},
                        \A s \in Script : TypeOf[s] = "PYTHON" => ~Modified(rows, content, s)
                 PROVE  ~ValidationFails(rows, content)
    BY DEF RepairCoversValidation
  <2>2. \A i \in DOMAIN rows : RowFits(rows[i])
    BY <2>1 DEF TypeOK
  <2>3. FailedRows(rows) = {}
    BY <2>1 DEF NothingToRepair, FailedScripts
  <2>4. \A i \in DOMAIN rows : rows[i].ok
    <3>1. ASSUME NEW i \in DOMAIN rows, ~rows[i].ok PROVE FALSE
      <4>1. rows[i].type # "DELETE"
        BY <2>2, <3>1 DEF RowFits
      <4> QED
        BY <2>3, <3>1, <4>1 DEF FailedRows
    <3> QED
      BY <3>1
  <2>5. \A s : ~FailsUnchanged(rows, content, s)
    BY <2>4 DEF FailsUnchanged
  <2>6. ASSUME NEW s \in VersionedScripts, Modified(rows, content, s) PROVE FALSE
    <3>1. s \in Script /\ TypeOf[s] = "SQL"
      BY <2>1, <2>6, ScriptFacts DEF VersionedScripts, VersionedTypes
    <3>2. PICK i \in LastApplied(rows, s) : content[s] # Absent /\ rows[i].sum # content[s]
      BY <2>6 DEF Modified
    <3>3. /\ i \in DOMAIN rows /\ rows[i].script = s /\ RowFits(rows[i])
          /\ rows[i].type \notin {"DELETE", "UNDO_SQL"}
      BY <2>2, <3>2 DEF LastApplied
    <3>4. rows[i].type = "SQL"
      BY <3>1, <3>3, ScriptFacts DEF RowFits
    <3>5. s \notin FailedScripts(rows) /\ MissingRows(rows, content) = {}
      BY <2>1, <2>3 DEF NothingToRepair, FailedScripts
    <3>6. s \in DriftedScripts(rows, content)
      BY <3>1, <3>2, <3>3, <3>4, <3>5 DEF DriftedScripts
    <3> QED
      BY <2>1, <3>6 DEF NothingToRepair
  <2> QED
    BY <2>1, <2>3, <2>5, <2>6 DEF ValidationFails
<1> QED
  BY <1>1, Typing, PTL
=============================================================================
