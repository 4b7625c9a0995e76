# Verification of dblift

dblift migrates database schemas: it finds SQL and Python scripts in
directories, compares them with the rows of a history table
(`dblift_schema_history`), and executes the pending ones, one after the other,
under a migration lock. It runs as a CLI or in process (`api/`), against
SQLite, PostgreSQL, MySQL, SQL Server, Oracle, DB2, Cosmos DB and others, each
behind a provider in `db/plugins/`.

This directory holds TLA+ models of the parts whose correctness depends on the
order in which things happen: several processes at one database, failures
between two steps, long sequences of commands, callbacks that call back, and
parsers that carry a state from token to token; the configurations that check
them with TLC; and proofs for every size of the system, checked by TLAPS.

## 1. The system

| Part | State | Operations | Interacts with |
|---|---|---|---|
| Migration lock (`db/plugins/*`, `MigrationLockProvider`) | a session lock, a row of a lock table, or a document | acquire with timeout, release, clean up what a dead client left | other processes through the database |
| Migrate command (`commands/migrate_command.py`) | pending scripts, lock flag | snapshot, validate, wait for the lock, look again, execute, release; or mark as executed | state manager, validator, lock, execution engine, callbacks |
| Execution engine (`executor/`) | open transaction, connection | execute statements, roll back, record success or failure, commit | provider, history manager |
| History (`history/migration_history_manager.py`) | rows with `installed_rank`, version, type, checksum, success | create table, insert, update, delete, read | provider |
| Migration state (`state/`, `rules/`) | none, computed from rows and files | pending, applied, undone, reapplied, strict order | history, scripts |
| Validator (`sql_validator/`) | none | failed migrations, checksums, missing files, strictness | history, scripts |
| Undo, repair, baseline, import-flyway (`commands/`) | none | insert, update and delete history rows; undo also executes scripts | all of the above, but not the migration lock |
| Clean (`commands/clean_command.py`, `schema_operations.py` of the providers) | the list of objects to drop, foreign key switch of the session | ask the catalog, drop, run callbacks | provider; not the migration lock |
| Event emitter (`api/events.py`), client, telemetry | listeners, batch, spans | subscribe, emit, batch, flush | commands emit, user callbacks listen |
| Asynchronous client (`api/async_client.py`) | lock, worker thread, closed flag | call, close, cancel | event loop, synchronous client |
| Journal (`journals/`) | entries per migration | start, statement, complete, failed | execution engine |
| Statement parsers (`core/sql_parser/`, `db/plugins/*/parser/`) | block depth, delimiter, flags | read a token, cut | tokenizer, execution engine |
| Scripts and versions (`scripting/`, `migration.py`, `version_utils.py`) | loaded scripts | load, order, compare versions | file system |
| Introspection, object model, diff, snapshots, undo generation | none | translations | provider |
| CLI, configuration, placeholders, logging, reports | none | input and output | |

What is hard in it:

- **Interleaving.** `migrate` computes and validates its pending scripts
  *before* it waits for the lock, up to a minute, during which another process
  may apply, fail, or leave them.
- **Locks made of data.** SQLite, DB2, Oracle's fallback and Cosmos DB build
  the lock from a row or document, which outlives its creator; someone has to
  decide that it is stale, and deciding and deleting are separate requests.
- **Sessions that end.** A session lock is gone with its session; the process
  goes on and reconnects.
- **Partial failure.** The statements, the row and the commit fail one by one;
  some databases commit every DDL statement at once; a drop that fails may
  poison the transaction of those after it.
- **Commands without the lock.** Mark-as-executed, undo, repair, baseline and
  clean write the history or the schema without it.
- **Long histories.** Failed, successful, undo, baseline and deleted rows of
  one version follow each other in any order, and four classes read them, each
  with a rule of its own.
- **Re-entrance and cancellation.** Listeners call the emitter that calls them;
  tasks are cancelled while a thread works for them.
- **Parsers that guess.** The statement parsers know blocks by keywords, and
  each dialect uses the same keywords for several things.

Correctness, per component:

- lock: one holder at a time; a holder's row is its own; a dead client's row
  goes in the end;
- migrate and engine: a version succeeds once; a transactional script's effects
  and its row are there together or not at all; success is never recorded
  before the statements; versions run in order under `--strict`; the lock is
  given back, and what is pending is settled;
- history: it tells which versions the database has; what is pending, undone or
  to be repaired follows from that; nothing is deployed twice;
- clean: success means that the objects are gone; the session checks foreign
  keys again, whatever failed;
- emitter: every event reaches every listener, none is lost, whatever listeners
  do meanwhile;
- journal and spans: closed, and as the scripts ended;
- asynchronous client: callers learn what happened to their calls, nothing runs
  after closing, every call ends;
- parsers: cut where a statement ends and nowhere else (they do so in scripts
  without the constructs they misread, see section 3).

`PROJECT.json` lists the hazards, each at its line, with the properties that
cover it or the reason why none does.

## 2. Modules

| Module | Models | Uses |
|---|---|---|
| `MigrationLock` | the abstract lock: a set of holders, one `Acquire` at a time | |
| `LockClients` | what the locks in a database share: the clients, where each is, who holds, the promise | `MigrationLock` |
| `ExpiringLock` | the bound `MaxHold` of locks that expire | `LockClients` |
| `LockTable` | what the two lock tables share: the row, its staleness, the properties | `ExpiringLock` |
| `SqliteLock` | `db/plugins/sqlite/sqlite/locking_manager.py` | `LockTable`; implements `MigrationLock` |
| `Db2Lock` | locking methods of `db/plugins/db2/provider.py` | `LockTable`; implements `MigrationLock` |
| `LockMechanisms` | Oracle's session lock and lock row: that a release leaves neither, and what is promised of clients that use both | `LockClients`, `MigrationLock` |
| `OracleLock` | locking methods of `db/plugins/oracle/provider.py` | `LockMechanisms`; implements `MigrationLock` |
| `CosmosLock` | `db/plugins/cosmosdb/cosmosdb/locking_manager.py` | `ExpiringLock`; implements `MigrationLock` |
| `Deployment` | what migrate promises: versions deployed once each, without processes, locks or transactions | |
| `MigrateCommand` | `MigrateCommand.execute`, the execution engine, a session lock | implements `Deployment` |
| `HistoryRules` | the rules of `MigrationDataService`, `MigrationStateManager`, `MigrationRules`, the validator and repair, as operators on rows | |
| `HistoryCommands` | migrate, mark-as-executed, undo, repair, baseline over one history | `HistoryRules` |
| `CleanCommand` | clean with the catalog queries of six providers | |
| `EventEmitter` | `api/events.py` | `Subsequences` |
| `ScriptRuns` | what migrate and undo write to the journal and report as events, and the spans made of them | `Subsequences` |
| `Subsequences` | a list comprehension with a filter, without recursion (the library's `SelectSeq` is recursive, which nothing can be proved of) | |
| `AsyncClient` | `api/async_client.py` over asyncio's lock and a worker thread | |
| `SqlScript` | the writer of a script, who knows SQL (external) | |
| `StatementSplitter` | the statement parsers of five dialects, token by token | `SqlScript` |
| `MC*` | constants for TLC | the module of that name |
| `MigrationLocks_proofs` | theorems about `SqliteLock`, `Db2Lock`, `OracleLock` (as instances, over the same variables) and `CosmosLock` | |
| `*_proofs` | theorems about the module of that name | |

Definitions whose comment begins with "Faulty" are deliberate mistakes: the
definition that follows with one plausible slip. They are not part of any
specification; they serve to confirm that each property notices a defect.

### The lock modules

`pc[p]` says where a client is in `acquire_migration_lock` or whether it holds
the lock. `row` (`doc`) is the lock row (document) with its creator and its age
in ticks. `Tick` is the clock. `holders`, the clients that were told `True` and
have neither released nor died, is what the refinement mapping hands to
`MigrationLock`; `LockPromise` (`NativePromise`, `MixedPromise`) is that
refinement.

Every statement of these providers runs in autocommit mode, so each is a step
of its own. `SqliteLock` cleans up before every attempt (`CleanupStaleLocks`,
`InsertLock`, `InsertFails` until `MaxTries`); `Db2Lock` only once per acquire
and releases by name alone; `OracleLock` has the answers of `DBMS_LOCK.REQUEST`
(0 and 4 granted, 1 timeout, anything else the fallback; `session` has the
session lock, `inserter` inserted the row) and releases both mechanisms;
`CosmosLock` has the native protocol (conditional delete by etag) and the
fallback (unconditional delete). A crash at any point leaves the row.

*What is promised of a mixture.* The two mechanisms of Oracle do not know of
each other, so the whole set of holders is a migration lock only if all clients
use the same one. `MixedPromise` says what remains for every `grant`, the set of
clients that may use `DBMS_LOCK`: those exclude each other, whatever the others
do, and where there are none, the table excludes all. For Cosmos DB
`fallback` is the set of clients that may leave the native protocol.
`NativePromise` is about an empty one. `HolderKeepsDocument` is about any: a
client that alone holds the lock loses its document to the fallback's
unconditional delete and to nothing else.

*Assumption, not enforced by the code:* a live client works under the lock no
longer than `MaxHold`. With `MaxHold` greater than the stale age (24 hours for
SQLite, `DB2_LOCK_STALE_SECONDS`, five minutes for Cosmos DB, where nothing
renews the document) the promise fails, as one expects of a lease; the configurations
and the proofs take `MaxHold <= StaleAge`. The bound is tight: one tick more
and TLC finds two holders.

Etags of Cosmos DB are drawn from a small set. A new document gets one that no
client still intends to delete, which is all that uniqueness is used for.

### `MigrateCommand`

| State | Code |
|---|---|
| `pc[p]` | position in `execute`: `idle`, `validate`, `wait` (for the lock), `reload`, `run`, `fail` (statement failed and rolled back), `release` |
| `pending[p]` | `pending_migrations` |
| `done[p]` | statements executed of the script at hand |
| `session[p]` | `down` after the connection that took the lock is lost |
| `lock` | the advisory lock, `GET_LOCK`, `sp_getapplock` or `DBMS_LOCK` of the schema |
| `history` | committed rows (script, success) in order of `installed_rank` |
| `effects[s]` | committed executions of statements of `s` |
| `faults` | faults so far, by kind, each kind bounded by `MaxFaults` |

The actions follow the code from top to bottom: `BuildState` (snapshot, strict
check), `Validate` (the validator reads the history once more and looks for
FAILED rows), `AcquireLock`/`LockTimeout`, `FilterAlreadyApplied` (the second
look, versioned scripts only), then `ExecuteStatement`, `StatementFails`,
`RecordFailure`, `RecordFailureFails`, `CommitScript`, `CommitFails`,
`CommitUnanswered`, `AbortRun` and `ReleaseLock` (the `finally` block). `Crash`
and `SessionDrop` are the environment.

A script in `RollsBack` is executed in one transaction with its row
(transactional DDL); any other one commits each statement at once (DDL on MySQL
or Oracle, autocommit and mixed scripts) and has its row in a short transaction.

A process is a run of the CLI: its session ends with it, so a release that
raises, which the code only logs, still frees the lock. A long-lived API client
that keeps its connection is not covered by that.

Left out on purpose: contents of scripts and checksums (a script does not
change here; `HistoryCommands` has them), filters, `--dry-run`, callbacks other
than as something that raises, Python migrations, and Oracle's `WHENEVER
SQLERROR CONTINUE`. A row of any kind means "executed"; this is right as long
as there are no undo, baseline or delete rows, which are in `HistoryCommands`.

### `HistoryRules` and `HistoryCommands`

| State | Code |
|---|---|
| `rows` | the rows of the history table, a function from `installed_rank`; repair deletes some |
| `nextRank` | the identity column |
| `deployed[s]` | checksum of the script whose effects the database has; no command reads it, the properties do |
| `content[s]` | the file of `s`, edited, removed and put back by `Edit` |
| `cmd[p]`, `scripts[p]`, `chosen[p]` | the command a process is in, what it has loaded and what it has picked to undo or mark deleted, read before it acts |
| `lock` | the migration lock, taken by migrate only |

A command is two or more steps: it plans on one reading of the history
(`PlanMigrate`, `PlanUndo`, `PlanUndoTo`, `PlanRepair`, `PlanBaseline`) and acts
later (`Validate`, `AcquireLock`, `RunScript`, `ScriptFails`, `MarkAsExecuted`,
`RunUndo`, `UndoFails`, `RunRepair`, `RunBaseline`), and may be cut off in
between (`Abort`). The run of one script is one step here, since
`MigrateCommand` has its inside; repair's transaction is one step because the
code commits once. The rules are translated separately from each class that
has them, although they ought to agree: whether they do is part of the
question.

`MayOverlap` says which commands the operators let run at the same time. The
code does not forbid any pair; the runs and theorems name the pairs they need
to be absent.

### `CleanCommand`

`dialect` fixes the order in which `schema_operations.py` lists kinds of
objects and whether failed statements abort the transaction; within a kind the
catalog answers in any order, as several of the queries have no `ORDER BY`. `present`,
`with` (dropped together with) and `needs` (cannot be dropped before) are the
schema; TLC starts from every legal one. `list` is what is still to be dropped,
with the switching off and on of foreign key checks where MySQL and SQLite have
it; `checks` and `aborted` are the session's state, which the next command of
the same client inherits (`Reconnect` is a new client). `onFailed` is a history
variable of `ChecksRestored`: the statement that puts the checks on was executed
and failed. That is the only excuse of a session that does not check foreign
keys: a failing query, switch off, drop or callback is none. A
drop does fail while the checks are off (`StatementError`: the object is gone
already, or for a reason of its own); a clean that gave up at it would leave them
off, as the mutant `StatementStops` does. Somebody
else may create objects again meanwhile, as clean does not take the lock.

### `EventEmitter`

`lists` are Python list objects by identity, `exact` and `wild` the ones
registered; `off` and `clear` change a list in place or bind a new one, as the
code does, while a dispatch may be walking over it. `stack` holds the calls of
`flush_batch` and `_dispatch` in progress; a listener on top of it may call any
method, so frames nest. `batchMode`, `batched` and `stopped` are the emitter's
fields. `due` and `shifted` in a frame are history variables of
`RegisteredAreCalled`: the listeners owed the event and whether one was removed
ahead of the position.

### `ScriptRuns`

`stage`, `queue`, `script`, `stmt`, `error`, `named` follow the loops of
migrate and undo; `current` and `journals` are `MigrationJournal`; `spans` is
the telemetry listener's stack, to which events are delivered in the same step;
`status` and `outcome` record how spans and scripts ended. Failures happen in
callbacks before and after each script, in statements, in the writing of the
history and at the commit; each leaves its own trail of events.

### `AsyncClient`

`pc`, `kind`, `cancelled` follow `_run_in_thread`, one step between two awaits;
`request` is a cancellation on its way. `locked`, `waiters`, `future` are
asyncio's lock with its rule that a newcomer queues behind a waiter that was
woken, and that a cancelled waiter passes the wake-up on; `executor` and `job`
are the thread pool. `closed` is `_closed`, `exited` says that the synchronous
client was closed.

### `SqlScript` and `StatementSplitter`

`SqlScript` writes a script token by token from a grammar of blocks, control
statements, expressions, packages and compound triggers; its `nest` knows what
is open and `ahead.ends` where a statement ends. `StatementSplitter` reads one
token behind it (parsers peek at the next one) and has the fields of the
`ParserContext`: `depth`, `initiator`, `program`, `parens`, and the flags of
Oracle's parser. `split` is the parser's decision, `ended` the truth.
Tokenizing, strings and comments are not in the model; `semi` is the semicolon,
`keyword` a keyword that no rule is about, `new-semi` and `new-$$` are MySQL's `DELIMITER` commands.

A `LOOP` of Oracle looks back for its `FOR` or `WHILE` over the keywords before
it, and gives up after `_MAX_KEYWORD_LOOKBACK`, 15. `oracle.since` is how many of
them there are since the last `FOR` or `WHILE`, up to `OutOfReach`, where the parser finds none and the
`LOOP` counts as a block of its own. The writer counts the same keywords in `headWords`, so that
it can write heads just within the limit and, if `Unused` lets it, one beyond it.

Constructs that a parser misreads are excluded from the scripts by `Unused`:
section 3 lists them. The run and the proofs say nothing about scripts that use
them, in which bodies are torn and statements merged; the run shows
that within its bounds there are no others.

## 3. Runs

| Run | Question | Instance |
|---|---|---|
| `sqlite_lock` | Is the lock table a migration lock, is a holder's row its own, does an orphan row go? | 3 clients, two with one process id, stale age 2, 2 attempts, 2 crashes |
| `db2_lock` | the same for DB2 | 3 clients, stale age 2, 2 crashes or failed releases |
| `oracle_lock` | Do the clients with `DBMS_LOCK` exclude each other, and all clients where nobody has it, and does a release leave nothing? | 4 clients, any of them with `DBMS_LOCK`, 2 crashes |
| `cosmos_lock` | Is the native protocol a lock, who can delete a sole holder's document, does a dead client's document go? | 2 clients, any of which may fall back, expiry 2, 4 etags, 2 crashes |
| `migrate` | Do history and database agree, does a version succeed once, are versions applied in order, is the whole a deployment of each version, is the lock given back, does everything get settled? | 2 processes, strict, a transactional and an autocommit version (2 statements), a repeatable script, one fault of each of five kinds |
| `history` | Does the history tell the truth, and do the commands draw the right conclusions from it? | 2 processes, 2 versions with undo scripts, a repeatable, two checksums, no command after 4 ranks, 2 edits, 1 failing script; every pair of commands but the two below |
| `undo_twice` | Does one undo command undo a version once? **No** | 1 process, no command after 5 ranks |
| `events` | Is an event lost or repeated, a listener skipped, the batch mode wrong? | 2 listeners, 7 calls, 4 frames |
| `script_runs` | Do journal, summary and spans tell how the scripts ended? | 2 versions (2 and 0 statements) with undo scripts, 4 operations |
| `clean` | Is the schema empty after a success, does the session check foreign keys again, does repeating help? | every schema of 3 objects on 6 databases, 1 failing statement, 1 object created again |
| `splitter` | Are scripts without misread constructs cut exactly where statements end? | 5 dialects, nesting to 5, `FOR` to depth 4, a look-back over 1 keyword (15 in the code) |
| `async` | Are callers told the truth, does nothing run after closing, does every call end? | 3 tasks, 2 cancellations per call |

**Bounds.** The conflicts of a lock row need a holder or orphan, a waiter that
looked before, and a latecomer: three clients (in Cosmos DB's native protocol
the orphan's document plays one of them). Two crashes make an orphan and then a
second one whose row a slow client takes for the first. Ages beyond the stale
age are alike, so one tick past it is enough. For `migrate`, two processes
give every order of snapshot, wait and execution; a version of each transaction
kind and a repeatable script give every kind of script and both orders of
commit and fault; the autocommit version has two statements, so that it can stop
half-way. One fault of each of five kinds gives up to five faults per behaviour.
In `history` a command may add rows beyond `MaxRank`, which only keeps new ones
from starting: so that histories with more rows than that occur. In `events` seven
calls are enough for a flush in a listener of a flush that starts a batch and unregisters another
listener. Four operations let a script fail, fail elsewhere, succeed and be
undone. Three objects give chains, and an object that blocks
two others. Five open constructs nest every kind in every other. With a look-back over one
keyword a loop head can have fewer keywords than are looked at, as many, and, when
allowed, too many; plain keywords (`keyword`) are written in loop heads only. The
proof is for any look-back and for keywords everywhere. Three
tasks are one at work, one woken and one queued behind it.

**Fairness.**

- Locks: clocks advance (`WF(Tick)`), clients take their steps (`WF`), and a
  request that is tried again and again succeeds in the end (`SF` of stale-row
  cleanup and insert for SQLite, of start and insert for DB2, of the fallback's
  steps for Cosmos DB): each is made in the code's retry loop, until the lock's
  timeout, and the command is repeated. Crashes are never fair.
- `migrate`: `WF(Command(p))` says that a process goes on, as the code has no wait
  without a timeout, and that an operator, scheduler or deployment runs the
  command again; `EventuallySettled` is meaningful only with the latter, and faults are
  bounded because no program finishes under endless faults.
- `clean`: a command that has started goes on (`WF(Statement)`); whoever wants an
  empty schema repeats it, from a new session (`SF`).
- `async`: an event loop runs each task that is ready, and operations of the
  worker thread end, because each of their waits has a timeout (`WF` per task
  and job).

**Pairs of commands.** `MCSafePairs` excludes migrate with repair, and migrate
with mark-as-executed. Both exclusions are needed: with the first pair allowed
TLC finds `HistoryTruthful` violated, with the second `NeverDeployedTwice`. Two
undos beside each other, or an undo beside a migrate, violate neither, although
they may execute an undo script on a database that does not have the version.

### What the violated run shows

`undo_twice`: `undo --target-version` collects every successful row above the
target. After apply, undo, apply of one version it has two, and the undo script
is executed twice, although `MigrationRules` says that a version cannot be
undone "multiple times without reapplying".

### Further observations

Met while modelling, by TLC with other constants or by reading the code that
is being modelled. None has a run of its own.

*Commands beside each other.*

- Repair beside migrate: repair's stale plan turns the FAILED row of a new
  attempt into a success. Mark beside migrate: migrate executes a script that
  was marked meanwhile. Undo beside undo: the undo script is executed twice.
- Two processes that wait for the lock both execute the same repeatable script:
  the second look at the history drops versioned scripts only.
- A waiter goes on after another process's FAILED row, since that check precedes the
  wait (`docs/operations/recovery/schema-history-corruption.md:21` says that a
  failed row blocks).
- A process that lost its session, and the lock with it, records its failure
  after another process has applied the version.
- Two strict processes with different script directories may apply a version
  below the current one.
- Oracle clients with and without `DBMS_LOCK` hold the lock together, and a
  release by one that has it deletes the lock row of one that has not. Two
  Cosmos DB clients in the fallback that read the same expired document both
  delete and create, and both hold the lock. `MixedPromise` and
  `CosmosRefinement` say that nothing else goes wrong.
- Baseline checks for an empty history and then inserts, without a lock.

*Long sequences of commands.*

- A deleted script that reappears blocks migrate for good; after an undo, an edited
  script fails the validation until repair. Repair gives a changed repeatable
  script its new checksum, so that it does not run. A changed Python script is
  never repaired.
- After apply, undo, apply, undo the version is listed as not undone. The loop of
  `undo --target-version` ends at the first row at or below the target, in
  the order of rows. `should_undo_version` counts SQL rows only.
- `1` and `1.0` compare equal but are different keys. Cosmos DB keeps one history
  document per script name.
- A failed commit, or a failed insert of the success row, leaves no FAILED row.
  Repair with nothing to do leaves its transaction open.

*Emitter, journal, asynchronous client.*

- `start_batch` drops pending events. A listener under an exact name is skipped
  when an earlier one unregisters itself.
- migrate emits no `migration.script.failed` when the engine raises; undo emits
  "failed" after "completed" when `afterEach` fails, and for a script that was never started
  when `beforeEach` fails. `beforeEach` failing in migrate ends in an
  `UnboundLocalError` for `start_time`.
- A result is lost when a cancellation comes as the job ends. A listener that blocks the
  worker thread on another operation of the same client waits for ever.

*Clean.*

- A second clean by the same PostgreSQL client after a failed drop finds each
  catalog query fail in the aborted transaction; the errors are swallowed, and it
  reports success with nothing dropped. Overloaded routines cannot be
  dropped by name, ever. Range types are not listed.
- Oracle lists triggers after tables, so that a table with a trigger makes clean
  report a failure although the schema is empty; likewise a DB2 query table on a
  view. The client emits `migration.completed` also when clean failed.
- Clean takes no lock: it drops history and lock tables under a running migrate.

*Statement parsers* (each confirmed by executing the parser).

- SQL Server: `CASE … END` in a block cuts the procedure apart, although
  `sqlserver_regex_parser.py:51-52` promises "BEGIN/END blocks" and "Preserve block
  statements (procedures, functions, etc.)": without `case-in-block` in `Unused`
  TLC finds `BlocksStayWhole` violated. `BEGIN DISTRIBUTED TRAN` makes the
  rest one statement; a body beyond one block or statement is cut.
- MySQL: `END REPEAT` and `CREATE DEFINER=… PROCEDURE` under `;` are cut mid-body.
- Oracle: `FOR UPDATE` or `OPEN c FOR` in a block, `CASE` in a loop head, `DROP
  TABLE IF EXISTS`, `GRANT CREATE PROCEDURE`, a `/` after plain SQL without `;`, and
  more than fifteen keywords in a loop head (a cursor loop over a longer query;
  `oracle_statement_parser.py:27, 410-413`) merge statements with the next ones:
  leave any of these out of `Unused` (`long-loop-head` for the last), and TLC finds
  `StatementsApart` violated.
- SQLite: the `BEGIN` of a transaction takes the rest of the script; names that
  begin with `begin_`, `end_` or `case_` are read as keywords.
- Rebuilding text from tokens changes `5 - -1` into `5 --1` and `'a' 'b'` into `'a''b'`.

## 4. Proofs

TLAPS proves these for any number of processes, scripts, statements, objects,
tasks, crashes, faults, calls and edits, and any depth of nesting. Each theorem below rests on an
inductive invariant, named `IInv` unless said otherwise, which is stronger than
what it is for: the last column says what it adds.

| Theorem | Assuming | Along |
|---|---|---|
| `MigrationLocks`: `SqliteTyping`, `SqliteHolderHasRow`, `SqliteRefinement` | the module's assumption on its constants; the last two `MaxHold <= StaleAge` | a client that attempts has attempts left (`AttemptsLeft`); a holder's row exists, is its own and not older than `MaxHold` (`RowOfHolder`). No cleanup deletes it, and no release by process id, as nobody else holds the lock. An insert hence finds no holder, which is the abstract `Acquire` |
| `Db2Typing`, `Db2HolderHasRow`, `Db2Refinement` | the same | the same, with releases by name |
| `CosmosTyping`, `CosmosDocumentKept` | the second `MaxHold <= Expiry` | in either protocol, the document of a client at work is not older than `MaxHold`, and one whose etag a client is about to delete has expired (`CosmosFresh`): a conditional delete misses whoever works (`CosmosDeleteMisses`) |
| `CosmosNativeRefinement`, `CosmosRefinement` (`LockPromise`) | `MaxHold <= Expiry`; the second is about the behaviours without a late delete (`NoLateDelete`) | a holder owns the document (`CosmosOwned`), so that who creates one finds no holder; without a fallback there is no late delete (`CosmosNative`) |
| `OracleMixedRefinement` (`MixedPromise`), `OracleRefinement` (`LockPromise`), `OracleNothingLeft` | the second: all clients have `DBMS_LOCK` or none (`OracleUniform`) | who holds with `DBMS_LOCK` has the session lock, and the row is its holder's where nobody has it (`OracleLocked`); what is locked has a client that will release it (`OracleHandled`). The second theorem follows from the first, as with one mechanism everybody is among those it is about |
| `MigrateCommand`: `Typing`, `NoDuplicates`, `Atomicity`, `RowsComeLast` | | a process under way on a live session has the lock (`LockHeld`); what it has still to execute has not succeeded (`Unapplied`), which the second look establishes and the lock preserves; the statements it counted are in the database unless they can roll back (`Counted`) |
| `NoLateFailure` | stated for behaviours without a lost session | the same and `AllUp` |
| `InOrder` (`StrictOrder`) | all processes see the same versioned scripts (`SameVersions`) | a script under way has all lower versions behind it (`Covered`), and successes are downward closed (`Downward`) |
| `Deploys` (`DeploymentPromise`) | under `--strict`, `SameVersions` | all of the above (`DeployInv`). A commit is the abstract `Deploy` (`CommitDeploys`): by `Counted` the statements are there, by `Unapplied` the version is not yet deployed, by `Covered` and `Downward` nothing above it is. A statement is `Execute`, or nothing while it can roll back (`StatementExecutes`); everything else, all faults and crashes included, changes neither the versions deployed nor what is visible of the others (`OthersStutter`) |
| `HistoryCommands`: `Typing`, `Truthful`, `PendingTruth`, `LatestIsUndone` | the last three: repair never overlaps migrate (`NoRepairDuringMigrate`) | rows fit their scripts and ranks are new; what repair has planned still holds when it acts (`Holds`, `Apart`); `HistoryTruthful` itself. `Least`, `Greatest` and the `InForce…` lemmas turn the rules of the three classes into the same statement about ranks |
| `NeverTwice` | also mark-as-executed never overlaps migrate | what migrate has still to run is not deployed (`Fresh`), from the second look on |
| `RepairCovers` | | a fact about the two searches, in any typed state |
| `EventEmitter`: `EventsAreKept`, `ModeIsAsAsked` | | each event is in one place, and flushes hold disjoint events (`Typed`, `Apart`); the mode differs from the one asked for only inside a flush (`ModeKept`) |
| `NobodySkipped` | | `WalkInv`: every list that is registered is distinct and known (`Lists`), and each dispatch has its listeners still ahead of its position (`Frames`) |
| `ScriptRuns`: `SpansTruthful` | | the stack has the shape the stage calls for (`Stack`), and ended spans tell what happened (`Told`) |
| `JournalsAreClosed`, `SummariesAreComplete` | | `JInv`: a journal is closed outside its run (`Closing`), and has the statements done so far once each (`Counting`) |
| `CleanCommand`: `SuccessIsGone` | every kind the schema may hold is one that its provider asks for (`KindsAreListed`) | what was there and is not gone is still to be asked for, or in the list to be dropped, unless an answer was missing or a statement failed (`Pending`). A drop leaves the list only with its object gone or with an error noted |
| `ChecksComeBack` | | while the list holds a switch, its last entry switches the checks on, and while it holds none the checks are on unless that entry has failed (`Switching`): every other failure takes one entry off the list and leaves the rest, the switch included |
| `AsyncClient`: `Truthful` | | the lock is held exactly while a task works, and one does (`Exclusive`); only the first waiter has been woken, and only while the lock is free (`Queue`); a job in the pool is the working task's (`Jobs`); where a cancellation is until its call ends (`Cancellations`) |
| `ExitIsLast` (`NothingAfterExit`) | | the same and `Closing`: from the beginning of the exit on, the task that closes is the one that works, or the client is closed |
| `StatementSplitter`: `NothingTorn` (`BlocksStayWhole`), `AllApart` (`StatementsApart`) | scripts do without what the parser of their dialect misreads (`NothingMisread`, listed below): not a statement about all scripts | the parser is one token behind the writer (`InStep`): the token ahead says what it opened or closed (`Wrote`), and what the parser has counted agrees with what was open before it (`Agree`, see below); what is open has the shape a script can give it (`Shape`) |

`NoLateDelete` is an assumption on behaviours, not on the code: a fallback that
deletes does so while nobody works under the document that is there. The code
cannot see to it, as its read and its delete are two requests and the delete
has no condition (`FallbackDelete`); the theorem says that this is all that is
missing. With `MaxHold` greater than `Expiry`, TLC finds two holders even so.

The assumptions on overlapping commands are those of the runs; without either,
TLC finds a counterexample (see *Pairs of commands*). `InOrder` needs less than the run: TLC checks it with equal
directories, the proof lets repeatable scripts differ.

`KindsAreListed` is needed: with PostgreSQL's range types among the kinds of a
schema it fails, and a clean reports success although they are still there (see
*Further observations*).

`Misread` lists the constructs of `NothingMisread`: `DEFINER` and `REPEAT` under
`;` in MySQL; `CASE` in a block and `BEGIN DISTRIBUTED` in SQL Server; in Oracle
`FOR UPDATE` and `OPEN c FOR` in a block, `IF EXISTS`, `GRANT CREATE PROCEDURE`, a `/`
behind plain SQL, `CASE` in a loop head, and loop heads of more than `MaxKeywordLookback`
keywords; the `BEGIN` of a transaction in SQLite. The run's `MCUnused`
satisfies it (and leaves out `other-keywords`, which only keeps the run small); leave one of them in the scripts and TLC finds a statement that is
torn or not cut off. `Agree` differs by dialect. PostgreSQL's depth is the
number of open blocks and `CASE`s; SQLite counts the `CASE`s apart from the
block, SQL Server the blocks alone. MySQL's depth is the number of frames
outside parentheses under `;`, and at most that under another delimiter, where a
semicolon decides nothing. Oracle's parser is in a program exactly while the
writer is, and its depth is at most the number of frames it should count, so
that it is back at zero with them; in a package a flag decides instead. What its `LOOP` sees of a loop head is
what the writer has counted (`LoopHeadSeen`), which the limit on heads keeps within reach
(`HeadsShort`). Neither
proof bounds the nesting or `MaxDepth`.

Lemmas that several of these proofs need stand before them: what appending to,
cutting and filtering a sequence does to its entries (`Subsequences` in
`ScriptRuns_proofs` and `EventEmitter_proofs`, `Tails` and `Joined` in
`CleanCommand_proofs`, `Leaving` for a queue in `AsyncClient_proofs`), and what
one step does to the rows in force (`HistoryCommands_proofs`).

Only model-checked: the liveness properties (`OrphanRowCleaned`,
`OrphanDocumentCleaned`, `LockGivenBack`, `EventuallySettled`, `Converges`,
`EveryCallEnds`), as liveness under fairness and `ENABLED` are beyond the prover.
Every invariant and action property that a run expects to hold is proved.

## 5. Not modelled

The mapped definitions stand for about a fourteenth of the code. Most of
dblift is text for and from databases, dialect by dialect: there is nothing in
it that can happen in another order.

- *Introspection, object model, diff, snapshots, normalization.* Queries of
  catalogs, and pure translations between rows, objects and SQL text.
- *Undo generation.* Statement by statement, last to first, one template each.
- *Tokenizers, object extraction, DB2's splitting.* Regular expressions; DB2 chooses
  one way of splitting for a whole script. What the model takes from the
  tokenizers is a stream of keywords without strings and comments.
- *Placeholders, file names, version comparison.* Functions of one string or two.
- *Creation of the history table.* Two first runs may both create it; the loser
  retries (`migration_history_manager.py:249`). The table exists in all models.
- *Transactions and connections* beyond commit, rollback and loss: pools and
  engines are SQLAlchemy's.
- *Python migrations, mixed scripts, `WHENEVER SQLERROR CONTINUE`, `--dry-run`
  of migrate and undo, filters by target, tag or version, baseline-on-migrate,
  import-flyway, the older `clean_schema`, and clean on the other databases.*
  Variants of what is modelled, left out of the commands' models; the components
  that have them are listed as partly modelled.
- *Info, validate, CLI, configuration, logging, reports.* They read and print.
