---------------------------- MODULE CleanCommand ----------------------------
(***************************************************************************)
(* The clean command: ask the catalog for the objects of the schema, one   *)
(* query per kind of object, then drop each of them once, in that order.   *)
(* A drop that fails is counted and the next one is tried.  Whether the    *)
(* order is good depends on the database: what goes with what, what keeps  *)
(* what from being dropped, and what a failed statement does to a session. *)
(*                                                                         *)
(* clean does not take the migration lock: somebody else may create an     *)
(* object again while it runs.                                             *)
(***************************************************************************)
EXTENDS Naturals, Sequences, FiniteSets, SequencesExt

CONSTANTS
  Object,        \* the objects that a schema may hold
  Dialects,      \* the databases to look at
  KindsOf,       \* for each of them, the kinds its objects may be of
  MaxFailures,   \* bound on statements that fail for no reason of the schema's
  MaxCreations   \* bound on objects that somebody creates again

ASSUME CleanAssumption ==
  /\ IsFiniteSet(Object)
  /\ Dialects \subseteq {"sqlite", "mysql", "postgresql", "sqlserver", "oracle", "db2"}
  /\ MaxFailures \in Nat /\ MaxCreations \in Nat

VARIABLES
  dialect, kind,
  with,       \* <<part, whole>>: dropping the whole drops the part
  needs,      \* <<user, base>>: the base cannot be dropped while the user is there
  present,    \* the objects in the schema
  pc, dry,
  kinds,      \* the kinds still to be asked for
  list,       \* what list_droppable_objects returns, then what is left of it:
              \* <<"drop", o>>, <<"off">> and <<"on">>
  targets,    \* the objects that were there when the command started
  recreated,  \* those created again since
  checks,     \* the session enforces foreign keys
  aborted,    \* the session is in a failed transaction
  onFailed,   \* the last switch of the checks failed to put them on (the program
              \* does not know: only ChecksRestored reads this)
  complete,   \* every query was answered
  errors, success, failures, creations

schemaVars == <<dialect, kind, with>>
sessionVars == <<checks, aborted, onFailed>>
boundVars == <<failures, creations>>
vars == <<schemaVars, needs, present, pc, dry, kinds, list, targets, recreated,
          sessionVars, complete, errors, success, boundVars>>

-----------------------------------------------------------------------------
\* The kinds of objects, in the order in which each provider lists them.
SqliteOrder == <<"view", "trigger", "table">>

MySqlOrder == <<"trigger", "view", "table", "function", "procedure", "event">>

PostgresOrder ==
  <<"extension", "view", "materialized_view", "table", "sequence", "routine", "type">>

SqlServerOrder ==
  <<"foreign_key", "view", "table", "routine", "sequence", "type", "synonym">>

\* PACKAGE BODY and TYPE BODY come before the other programs, among them triggers.
OracleOrder ==
  <<"database_link", "view", "materialized_view", "table", "sequence", "body", "program",
    "synonym">>

Db2Order ==
  <<"trigger", "foreign_key", "view", "materialized_query_table", "global_temporary_table",
    "table", "alias", "sequence", "function", "procedure", "type", "module">>

CleanOrder ==
  [sqlite |-> SqliteOrder, mysql |-> MySqlOrder, postgresql |-> PostgresOrder,
   sqlserver |-> SqlServerOrder, oracle |-> OracleOrder, db2 |-> Db2Order]

\* The queries whose errors are logged and taken for an empty answer.
Swallowed(d, k) ==
  \/ d \in {"mysql", "postgresql", "oracle"}
  \/ d = "sqlserver" /\ k \in {"sequence", "type", "synonym"}

\* SQLite and MySQL switch foreign keys off before the drops and on again after.
Switches == {"sqlite", "mysql"}

\* Faulty WithControls: the checks are not switched off.
WithoutControls(objects) == objects

WithControls(objects) ==
  IF dialect \in Switches /\ objects # <<>>
    THEN <<<<"off">>>> \o objects \o <<<<"on">>>> ELSE objects

\* The DROPs that say IF EXISTS.
IfExists == dialect \in {"sqlite", "mysql", "postgresql"}

-----------------------------------------------------------------------------
\* What the databases do.  <<part, whole>>: PostgreSQL's views are parts
\* because its drops say CASCADE.
Parts ==
  [sqlite     |-> {<<"trigger", "table">>, <<"trigger", "view">>},
   mysql      |-> {<<"trigger", "table">>},
   postgresql |-> {<<"view", "view">>, <<"view", "table">>, <<"sequence", "table">>},
   sqlserver  |-> {<<"foreign_key", "table">>},
   oracle     |-> {<<"program", "table">>},
   db2        |-> {<<"trigger", "table">>, <<"foreign_key", "table">>}]

\* <<user, base>>: foreign keys, schema-bound views and functions, temporal
\* tables and their histories, and PostgreSQL's overloaded routines, which
\* cannot be dropped by name while there are several.
Blocks ==
  [sqlite     |-> {<<"table", "table">>},
   mysql      |-> {<<"table", "table">>},
   postgresql |-> {<<"routine", "routine">>},
   sqlserver  |-> {<<"foreign_key", "table">>, <<"view", "view">>, <<"table", "table">>,
                   <<"routine", "table">>, <<"routine", "view">>},
   oracle     |-> {},
   db2        |-> {<<"function", "function">>}]

Pairs(d, k, rules) == {e \in Object \X Object : e[1] # e[2] /\ <<k[e[1]], k[e[2]]>> \in rules[d]}

Acyclic(relation) ==
  \A S \in SUBSET Object : S # {} => \E o \in S : \A p \in S : <<p, o>> \notin relation

LegalSchema(d, k, w, n) ==
  /\ Acyclic(w)
  /\ d \in {"sqlserver", "db2"} => Acyclic(n)
  /\ d = "postgresql" => \A e \in n : <<e[2], e[1]>> \in n
  /\ d = "sqlserver" =>   \* a foreign key is of one table and references another
       \A o \in Object : k[o] = "foreign_key" =>
         /\ \E t \in Object : <<o, t>> \in w
         /\ \A t, u \in Object : <<o, t>> \in w /\ <<o, u>> \in w \cup n => t = u

\* What goes when o goes.
Gone(o) ==
  {p \in Object :
     \A S \in SUBSET Object :
       o \in S /\ (\A e \in with : e[2] \in S => e[1] \in S) => p \in S}

Blocked(o) ==
  /\ dialect \in Switches => checks
  /\ \E p \in present \ Gone(o) : <<p, o>> \in needs

-----------------------------------------------------------------------------
Statements == {<<"drop", o>> : o \in Object} \cup {<<"off">>, <<"on">>}

Init ==
  /\ \E d \in Dialects : \E k \in [Object -> KindsOf[d]] :
       \E w \in SUBSET Pairs(d, k, Parts), n \in SUBSET Pairs(d, k, Blocks) :
         /\ LegalSchema(d, k, w, n)
         /\ dialect = d /\ kind = k /\ with = w /\ needs = n
  /\ present = Object
  /\ pc = "idle" /\ dry = FALSE /\ kinds = <<>> /\ list = <<>>
  /\ targets = {} /\ recreated = {}
  /\ checks = TRUE /\ aborted = FALSE /\ onFailed = FALSE
  /\ complete = TRUE /\ errors = FALSE /\ success = FALSE
  /\ failures = 0 /\ creations = 0

Fail == failures < MaxFailures /\ failures' = failures + 1

End(succeeded) ==
  /\ pc' = "done" /\ success' = succeeded
  /\ kinds' = <<>> /\ list' = <<>>
  /\ UNCHANGED <<schemaVars, present, dry, targets, recreated, creations>>

\* Clean is enabled, or a dry run: connect and ask for the first kind.  A
\* client may run the command again on the session it has.
Start(d) ==
  /\ pc \in {"idle", "done"}
  /\ pc' = "listing" /\ dry' = d
  /\ kinds' = CleanOrder[dialect] /\ list' = <<>>
  /\ targets' = present /\ recreated' = {}
  /\ complete' = TRUE /\ errors' = FALSE /\ success' = FALSE
  /\ UNCHANGED <<schemaVars, needs, present, sessionVars, boundVars>>

\* Clean is disabled, or a beforeClean callback fails.
StartFails ==
  /\ pc = "idle"
  /\ Fail /\ End(FALSE)
  /\ UNCHANGED <<needs, sessionVars, complete, errors>>

\* The objects of the next kind, in the order of the query: some have an
\* ORDER BY, SQL Server's have none.
Query ==
  /\ pc = "listing" /\ kinds # <<>> /\ ~aborted
  /\ \E found \in SetToSeqs({o \in present : kind[o] = Head(kinds)}) :
       list' = list \o [i \in DOMAIN found |-> <<"drop", found[i]>>]
  /\ kinds' = Tail(kinds)
  /\ UNCHANGED <<schemaVars, needs, present, pc, dry, targets, recreated, sessionVars,
                 complete, errors, success, boundVars>>

QueryError ==
  \/ aborted /\ UNCHANGED failures
  \/ ~aborted /\ Fail

\* The error is logged at debug level.
QuerySwallowed ==
  /\ pc = "listing" /\ kinds # <<>> /\ Swallowed(dialect, Head(kinds))
  /\ QueryError
  /\ kinds' = Tail(kinds) /\ complete' = FALSE
  /\ aborted' = (dialect = "postgresql")
  /\ UNCHANGED <<schemaVars, needs, present, pc, dry, list, targets, recreated, checks,
                 onFailed, errors, success, creations>>

QueryFails ==
  /\ pc = "listing" /\ kinds # <<>> /\ ~Swallowed(dialect, Head(kinds))
  /\ QueryError
  /\ complete' = FALSE
  /\ End(FALSE)
  /\ UNCHANGED <<needs, sessionVars, errors>>

\* The list is complete; a dry run ends here.
Listed ==
  /\ pc = "listing" /\ kinds = <<>> /\ ~dry
  /\ pc' = "dropping" /\ list' = WithControls(list)
  /\ UNCHANGED <<schemaVars, needs, present, dry, kinds, targets, recreated, sessionVars,
                 complete, errors, success, boundVars>>

Preview ==
  /\ pc = "listing" /\ kinds = <<>> /\ dry
  /\ End(TRUE)
  /\ UNCHANGED <<needs, sessionVars, complete, errors, failures>>

\* SET FOREIGN_KEY_CHECKS or PRAGMA foreign_keys.
Switch ==
  /\ pc = "dropping" /\ list # <<>> /\ Head(list)[1] # "drop"
  /\ checks' = (Head(list)[1] = "on")
  /\ list' = Tail(list) /\ onFailed' = FALSE
  /\ UNCHANGED <<schemaVars, needs, present, pc, dry, kinds, targets, recreated, aborted,
                 complete, errors, success, boundVars>>

\* SQL Server puts ALTER TABLE ... SET (SYSTEM_VERSIONING = OFF) before the
\* DROP of a temporal table, which frees its history even if the DROP fails.
VersioningOff(o) == {e \in needs : ~(e[1] = o /\ dialect = "sqlserver" /\ kind[e[2]] = "table")}

Drop ==
  /\ pc = "dropping" /\ list # <<>> /\ Head(list)[1] = "drop" /\ ~aborted
  /\ LET o == Head(list)[2] IN
       /\ o \in present => ~Blocked(o)
       /\ o \in present \/ IfExists
       /\ present' = IF o \in present THEN present \ Gone(o) ELSE present
       /\ recreated' = IF o \in present THEN recreated \ Gone(o) ELSE recreated
  /\ list' = Tail(list)
  /\ UNCHANGED <<schemaVars, needs, pc, dry, kinds, targets, sessionVars, complete, errors,
                 success, boundVars>>

\* Why the first statement of the list fails: the session is in a failed
\* transaction, the object is needed or missing, or for another reason.
StatementError ==
  LET s == Head(list)
      refused == s[1] = "drop" /\ IF s[2] \in present THEN Blocked(s[2]) ELSE ~IfExists
  IN \/ /\ aborted \/ refused
        /\ needs' = IF s[1] = "drop" /\ s[2] \in present THEN VersioningOff(s[2]) ELSE needs
        /\ UNCHANGED failures
     \/ ~aborted /\ ~refused /\ Fail /\ UNCHANGED needs

\* A warning, and the rest of the list; PostgreSQL now refuses all of it.
FailedWith(rest) ==
  /\ pc = "dropping" /\ list # <<>> /\ StatementError
  /\ list' = rest
  /\ aborted' = (dialect = "postgresql")
  /\ onFailed' = (onFailed \/ Head(list) = <<"on">>)
  /\ UNCHANGED <<schemaVars, present, pc, dry, kinds, targets, recreated, checks, complete,
                 success, creations>>

\* Faulty StatementFails: the error is only logged, as in the providers' clean_schema.
StatementLogged == FailedWith(Tail(list)) /\ UNCHANGED errors

\* Faulty StatementFails: the command gives up at the first error.
StatementStops == FailedWith(<<>>) /\ errors' = TRUE

StatementFails == FailedWith(Tail(list)) /\ errors' = TRUE

Finish ==
  /\ pc = "dropping" /\ list = <<>>
  /\ End(~errors)
  /\ UNCHANGED <<needs, sessionVars, complete, errors, failures>>

\* An afterClean callback fails.
AfterCleanFails ==
  /\ pc = "dropping" /\ list = <<>>
  /\ Fail /\ End(FALSE)
  /\ UNCHANGED <<needs, sessionVars, complete, errors>>

\* A new process, or a client that connects again.
Reconnect ==
  /\ pc = "done"
  /\ pc' = "idle" /\ checks' = TRUE /\ aborted' = FALSE /\ onFailed' = FALSE
  /\ dry' = FALSE /\ targets' = {} /\ recreated' = {}
  /\ complete' = TRUE /\ errors' = FALSE /\ success' = FALSE
  /\ UNCHANGED <<schemaVars, needs, present, kinds, list, boundVars>>

\* Somebody else, for instance a migrate, creates an object again.
Create(o) ==
  /\ o \notin present /\ creations < MaxCreations
  /\ \A e \in with \cup needs : e[1] = o => e[2] \in present
  /\ present' = present \cup {o} /\ recreated' = recreated \cup {o}
  /\ creations' = creations + 1
  /\ UNCHANGED <<schemaVars, needs, pc, dry, kinds, list, targets, sessionVars, complete,
                 errors, success, failures>>

Statement == Query \/ QuerySwallowed \/ QueryFails \/ Listed \/ Preview \/ Switch \/ Drop
               \/ StatementFails \/ Finish \/ AfterCleanFails

Next ==
  \/ \E d \in BOOLEAN : Start(d)
  \/ StartFails \/ Statement \/ Reconnect
  \/ \E o \in Object : Create(o)

Spec == Init /\ [][Next]_vars

\* A command that has started goes on, and whoever wants the schema empty
\* cleans it again, each time from a new session.
FairSpec == Spec /\ WF_vars(Statement) /\ SF_vars(Reconnect) /\ SF_vars(pc = "idle" /\ Start(FALSE))

-----------------------------------------------------------------------------
\* A clean that got all its answers and reports success has dropped whatever
\* was there when it started, except what somebody created again.
SuccessMeansGone ==
  pc = "done" /\ success /\ ~dry /\ complete => present \cap targets \subseteq recreated

\* Whatever fails, a query, the switch off, any of the drops or a callback, in this
\* clean or in an earlier one of the same session: the session checks foreign keys
\* again for the next command of the client.  One failure alone leaves the checks
\* off, that of the statement that was to put them on.
ChecksRestored == pc \in {"idle", "done"} /\ ~checks => onFailed

\* The order need not be right: each run drops something, and cleaning again
\* from a new session empties the schema, unless PostgreSQL's routines share a
\* name, whose drops all fail for ever.
Overloaded == dialect = "postgresql" /\ needs # {}
Converges == Overloaded \/ <>[](present = {})
=============================================================================
