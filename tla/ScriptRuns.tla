----------------------------- MODULE ScriptRuns -----------------------------
(***************************************************************************)
(* What a client reports about the scripts it runs.  One client performs    *)
(* migrate and undo operations one after the other.  While it does, it      *)
(* keeps a journal of the statements of each script (MigrationJournal) and  *)
(* emits events, from which the OpenTelemetry listener (OtelHandle) makes   *)
(* spans: a stack, because an event does not say which span it ends.        *)
(*                                                                         *)
(* Callbacks before and after each script, the statements, and recording or *)
(* committing a script may all fail, and migrate and undo report their      *)
(* failures differently: migrate emits no event when the engine raises,     *)
(* undo emits one when a callback does.                                     *)
(***************************************************************************)
EXTENDS Subsequences, SequencesExt

CONSTANTS
  Script,
  NoScript,
  Operation,    \* stands for the operation, next to the scripts, as what a span is of
  Statements,   \* number of statements of each script
  Pending,      \* the sequences of scripts that a migrate may have to run
  ToUndo,       \* the sequences of undo scripts that an undo may have to run
  MaxOps        \* bound on the operations of the client

ASSUME ScriptRunsAssumption ==
  /\ NoScript \notin Script /\ Operation \notin Script
  /\ Statements \in [Script -> Nat]
  /\ Pending \subseteq Seq(Script) /\ ToUndo \subseteq Seq(Script)
  /\ MaxOps \in Nat

VARIABLES
  command,   \* the operation in progress
  stage,     \* how far it is with the current script
  queue,     \* the scripts to run; the first is the current one until it is done
  script,    \* the script that was started last
  stmt,      \* number of its statements that are through
  error,     \* result.error_message is set
  named,     \* "_undo_script_data" in locals(): undo has started a script
  current,   \* the journal's current_migration_id
  journals,  \* the journal's entries of each script
  spans,     \* OtelHandle._stack
  status,    \* status of the last span of each script and of the operation
  outcome,   \* how the last run of each script ended for its history row
  ops

runVars == <<command, stage, queue, script, stmt, error, named>>
journalVars == <<current, journals>>
spanVars == <<spans, status>>
vars == <<runVars, journalVars, spanVars, outcome, ops>>

Commands == {"migrate", "undo"}
Stages == {"idle", "each", "journal", "run", "over", "end"}
SpanOf == Script \cup {Operation}

Entry == [type : {"start", "complete", "failed", "stmtStart", "stmtDone", "stmtFailed"}, index : Nat]
EndTypes == {"complete", "failed"}

Init ==
  /\ command = "none" /\ stage = "idle"
  /\ queue = <<>> /\ script = NoScript /\ stmt = 0
  /\ error = FALSE /\ named = FALSE
  /\ current = NoScript /\ journals = [s \in Script |-> <<>>]
  /\ spans = <<>> /\ status = [x \in SpanOf |-> "none"]
  /\ outcome = [s \in Script |-> "none"]
  /\ ops = 0

-----------------------------------------------------------------------------
(* MigrationJournal *)

\* Faulty Written: entries of an earlier run stay.
WrittenAll(entries, e) == Append(entries, e)

\* _write_entry: an end entry replaces earlier end entries, a statement that
\* starts or completes replaces the entry of the same kind with its index.
Written(entries, e) ==
  LET replaced(f) ==
        \/ e.type \in EndTypes /\ f.type \in EndTypes
        \/ e.type \in {"stmtStart", "stmtDone"} /\ f = e
  IN Append(Subsequence(entries, {i \in DOMAIN entries : ~replaced(entries[i])}), e)

Mark(type, i) == [type |-> type, index |-> i]

JournalStart(s) ==
  /\ current' = s
  /\ journals' = [journals EXCEPT ![s] = Written(@, Mark("start", 0))]

\* The entries of statement `i`, which completes or fails.
JournalStatement(s, i, type) ==
  /\ current = s
  /\ journals' = [journals EXCEPT ![s] = Written(Written(@, Mark("stmtStart", i)), Mark(type, i))]
  /\ UNCHANGED current

\* end_migration does nothing for a script that is not the current one.
JournalEnd(s, type) ==
  IF current = s
    THEN /\ journals' = [journals EXCEPT ![s] = Written(@, Mark(type, 0))]
         /\ current' = NoScript
    ELSE UNCHANGED journalVars

-----------------------------------------------------------------------------
(* OtelHandle._on_event *)

Opened(x) ==
  /\ spans' = Append(spans, x)
  /\ status' = [status EXCEPT ![x] = "open"]

\* The spans below the script spans on top: what the end of an operation
\* leaves of the stack before it takes its own span off.
Drained ==
  LET depths == {n \in 0 .. Len(spans) : n = 0 \/ spans[n] = Operation}
  IN SubSeq(spans, 1, CHOOSE n \in depths : \A m \in depths : m <= n)

\* An end event takes one span off the stack, whatever it is of; an operation
\* first ends the script spans that are above it, as errors.
Closed(x, result) ==
  LET left == IF x = Operation THEN Drained ELSE spans
      leaked == {spans[i] : i \in (Len(left) + 1) .. Len(spans)}
      drained == [y \in SpanOf |-> IF y \in leaked THEN "ERROR" ELSE status[y]]
  IN IF left = <<>> THEN spans' = <<>> /\ status' = drained
     ELSE spans' = Front(left) /\ status' = [drained EXCEPT ![Last(left)] = result]

-----------------------------------------------------------------------------
(* The operations *)

\* The client emits the start and runs the command.
Begin(c, todo) ==
  /\ stage = "idle" /\ ops < MaxOps
  /\ ops' = ops + 1
  /\ command' = c /\ queue' = todo
  /\ stage' = "each" /\ script' = NoScript /\ stmt' = 0
  /\ error' = FALSE /\ named' = FALSE
  /\ Opened(Operation)
  /\ UNCHANGED <<journalVars, outcome>>

Stop == stage' = "end" /\ error' = TRUE

\* Validation, a callback around the whole run, showing the SQL.
OperationFails ==
  /\ stage = "each"
  /\ queue = <<>> \/ command = "migrate" \/ ~named
  /\ Stop
  /\ UNCHANGED <<command, queue, script, stmt, named, journalVars, spanVars, outcome, ops>>

AllDone ==
  /\ stage = "each" /\ queue = <<>>
  /\ stage' = "end"
  /\ UNCHANGED <<command, queue, script, stmt, error, named, journalVars, spanVars, outcome, ops>>

\* beforeEach callbacks, and undo finds its script.
BeforeEach ==
  /\ stage = "each" /\ queue # <<>>
  /\ stage' = "journal"
  /\ UNCHANGED <<command, queue, script, stmt, error, named, journalVars, spanVars, outcome, ops>>

\* A beforeEach callback fails.  In migrate, start_time is not bound yet, so
\* the handler itself raises; undo reports a failed script if it has started
\* an earlier one.
BeforeEachFails ==
  /\ stage = "each" /\ queue # <<>>
  /\ Stop
  /\ IF command = "undo" /\ named THEN Closed(Head(queue), "ERROR") ELSE UNCHANGED spanVars
  /\ UNCHANGED <<command, queue, script, stmt, named, journalVars, outcome, ops>>

NoUndoScript ==
  /\ command = "undo" /\ stage = "each" /\ queue # <<>>
  /\ Stop
  /\ UNCHANGED <<command, queue, script, stmt, named, journalVars, spanVars, outcome, ops>>

\* undo --show-sql cannot read the script: it is journaled but not started.
ShowSqlFails ==
  /\ command = "undo" /\ stage = "journal"
  /\ LET s == Head(queue)
     IN /\ journals' = [journals EXCEPT ![s] =
             Written(Written(@, Mark("start", 0)), Mark("failed", 0))]
        /\ current' = NoScript
        /\ outcome' = [outcome EXCEPT ![s] = "unread"]
  /\ Stop
  /\ UNCHANGED <<command, queue, script, stmt, named, spanVars, ops>>

StartScript ==
  /\ stage = "journal"
  /\ stage' = "run" /\ script' = Head(queue) /\ stmt' = 0
  /\ named' = (command = "undo")
  /\ JournalStart(Head(queue))
  /\ Opened(Head(queue))
  /\ UNCHANGED <<command, queue, error, outcome, ops>>

StatementDone ==
  /\ stage = "run" /\ stmt < Statements[script]
  /\ stmt' = stmt + 1
  /\ JournalStatement(script, stmt + 1, "stmtDone")
  /\ UNCHANGED <<command, stage, queue, script, error, named, spanVars, outcome, ops>>

\* The engine returns with an error: a statement has failed, or nothing was
\* executed (the script cannot be parsed, no transaction).
EngineFails(type) ==
  /\ stage = "run"
  /\ IF type = "statement" THEN stmt < Statements[script] ELSE stmt = 0
  /\ LET entries == IF type = "statement"
           THEN Written(Written(journals[script], Mark("stmtStart", stmt + 1)),
                        Mark("stmtFailed", stmt + 1))
           ELSE journals[script]
     IN journals' = [journals EXCEPT ![script] = Written(entries, Mark("failed", 0))]
  /\ current' = NoScript
  /\ Stop
  /\ outcome' = [outcome EXCEPT ![script] = "failed"]
  /\ Closed(script, "ERROR")
  /\ UNCHANGED <<command, queue, script, stmt, named, ops>>

\* Faulty EngineRaises: the journal is not told.
EngineRaisesUnjournaled ==
  /\ stage = "run" /\ stmt = Statements[script]
  /\ Stop
  /\ outcome' = [outcome EXCEPT ![script] = "unclear"]
  /\ IF command = "undo" THEN Closed(script, "ERROR") ELSE UNCHANGED spanVars
  /\ UNCHANGED <<command, queue, script, stmt, named, journalVars, ops>>

\* The history row cannot be written or the commit fails; whether the database
\* has committed is not known.  migrate emits nothing.
EngineRaises ==
  /\ stage = "run" /\ stmt = Statements[script]
  /\ Stop
  /\ outcome' = [outcome EXCEPT ![script] = "unclear"]
  /\ JournalEnd(script, "failed")
  /\ IF command = "undo" THEN Closed(script, "ERROR") ELSE UNCHANGED spanVars
  /\ UNCHANGED <<command, queue, script, stmt, named, ops>>

EngineSucceeds ==
  /\ stage = "run" /\ stmt = Statements[script]
  /\ stage' = "over" /\ queue' = Tail(queue)
  /\ outcome' = [outcome EXCEPT ![script] = "committed"]
  /\ JournalEnd(script, "complete")
  /\ Closed(script, "OK")
  /\ UNCHANGED <<command, script, stmt, error, named, ops>>

AfterEach ==
  /\ stage = "over"
  /\ stage' = "each"
  /\ UNCHANGED <<command, queue, script, stmt, error, named, journalVars, spanVars, outcome, ops>>

\* Faulty AfterEachFails: the result does not get the error.
AfterEachIgnored ==
  /\ stage = "over"
  /\ stage' = "end"
  /\ IF command = "undo" THEN Closed(script, "ERROR") /\ UNCHANGED journalVars
     ELSE JournalEnd(script, "failed") /\ UNCHANGED spanVars
  /\ UNCHANGED <<command, queue, script, stmt, error, named, outcome, ops>>

\* An afterEach callback fails after the script has been reported as complete:
\* undo reports it as failed as well, migrate only tries to end its journal.
AfterEachFails ==
  /\ stage = "over"
  /\ Stop
  /\ IF command = "undo" THEN Closed(script, "ERROR") /\ UNCHANGED journalVars
     ELSE JournalEnd(script, "failed") /\ UNCHANGED spanVars
  /\ UNCHANGED <<command, queue, script, stmt, named, outcome, ops>>

\* The client emits the end.
End ==
  /\ stage = "end"
  /\ stage' = "idle" /\ command' = "none"
  /\ Closed(Operation, IF error THEN "ERROR" ELSE "OK")
  /\ UNCHANGED <<queue, script, stmt, error, named, journalVars, outcome, ops>>

Next ==
  \/ \E todo \in Pending : Begin("migrate", todo)
  \/ \E todo \in ToUndo : Begin("undo", todo)
  \/ OperationFails \/ AllDone \/ BeforeEach \/ BeforeEachFails \/ NoUndoScript
  \/ ShowSqlFails \/ StartScript \/ StatementDone
  \/ \E type \in {"statement", "refused"} : EngineFails(type)
  \/ EngineRaises \/ EngineSucceeds \/ AfterEach \/ AfterEachFails
  \/ End

Spec == Init /\ [][Next]_vars
-----------------------------------------------------------------------------
LastEntry(s) == Last(journals[s]).type

\* Between operations the journal of every script that was run is closed ("so
\* the journal entry is always closed", undo_command.py), and closed as a
\* success exactly if the script's last run was one.
JournalTellsOutcome ==
  stage = "idle" =>
    /\ current = NoScript
    /\ \A s \in Script :
         journals[s] # <<>> =>
           /\ LastEntry(s) \in EndTypes
           /\ LastEntry(s) = "complete" <=> outcome[s] = "committed"

\* The performance summary of a script that was run successfully counts each of
\* its statements once, however often the script was run before and wherever it
\* failed then.
SummaryComplete ==
  \A s \in Script :
    outcome[s] = "committed" /\ ~(stage = "run" /\ s = script) =>
      LET done == {i \in DOMAIN journals[s] : journals[s][i].type = "stmtDone"}
      IN /\ {journals[s][i].index : i \in done} = 1 .. Statements[s]
         /\ \A i, j \in done : journals[s][i].index = journals[s][j].index => i = j

\* No span stays open when an operation is over, although some failures of a
\* script are not reported and others are reported twice, and a span ends as
\* the operation or the script, unless it was not even started, did.
SpansTellOutcome ==
  stage = "idle" =>
    /\ spans = <<>>
    /\ ops > 0 => status[Operation] = IF error THEN "ERROR" ELSE "OK"
    /\ \A s \in Script :
         status[s] # "none" /\ outcome[s] # "unread" => (status[s] = "OK" <=> outcome[s] = "committed")
=============================================================================
