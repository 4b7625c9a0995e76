----------------------------- MODULE SqlScript -----------------------------
(***************************************************************************)
(* The writer of a migration script, who knows SQL: which token may come   *)
(* next, what is open, and where a statement ends.  It is external to the  *)
(* program; StatementSplitter reads what it writes.                        *)
(*                                                                         *)
(* Tokens are abstracted to what a statement parser tells apart.  "semi"   *)
(* is the semicolon, "keyword" is a keyword that no rule is about, as      *)
(* SELECT or AND (it matters to Oracle's parser, which counts them), "x"   *)
(* is all others; PROCEDURE for FUNCTION, TRIGGER and EVENT too, LOOP for  *)
(* MySQL's WHILE, IS for AS, THEN for ELSE, TRAN for TRANSACTION.          *)
(* Comments have gone: every rule skips them.  A program's body is one     *)
(* block or one statement, and no name begins with a keyword and an        *)
(* underscore, which SQLite's parser would read as the keyword.            *)
(***************************************************************************)
EXTENDS Integers, SequencesExt

CONSTANTS
  Dialects,     \* the dialects to look at
  Unused,       \* for each of them, constructs that the scripts do not use
  MaxNest,      \* bound on the nesting of blocks, expressions and parentheses
  MaxKeywordLookback   \* keywords that a loop head may have before it is long: as many
                       \* as Oracle's parser looks back over, which are 15

ASSUME ScriptAssumption ==
  /\ Dialects \subseteq {"postgresql", "mysql", "sqlserver", "oracle", "sqlite"}
  /\ DOMAIN Unused = Dialects /\ MaxNest \in Nat /\ MaxKeywordLookback \in Nat

VARIABLES
  dialect,
  nest,        \* what is open
  at,          \* where in a statement the writer is
  ahead,       \* the token written last, and whether a statement ends there
  delimiter,   \* MySQL's DELIMITER
  headWords    \* the keywords behind the FOR or WHILE of a loop head

writerVars == <<nest, at, ahead, delimiter, headWords>>

NewDelimiter == {"new-semi", "new-$$"}

\* What is open: an expression, declarations, a control statement, a block, the
\* initialization of a package, or a unit, which is what Oracle ends with a slash.
Expressions == {"(", "case", "if-head", "loop-head", "case-head"}
Declarations == {"package", "compound", "type-body", "declarations"}
Control == {"if", "loop", "repeat", "case-statement"}

\* What follows the END of a control statement.
EndOf ==
  [c \in Control |->
     CASE c = "if" -> "IF" [] c = "loop" -> "LOOP" [] c = "repeat" -> "REPEAT"
       [] c = "case-statement" -> "CASE"]
\* What makes the statement of its head.
BodyOf ==
  [h \in {"if-head", "case-head", "loop-head"} |->
     CASE h = "if-head" -> <<"THEN", "if">> [] h = "case-head" -> <<"THEN", "case-statement">>
       [] h = "loop-head" -> <<"LOOP", "loop">>]

WriterInit ==
  /\ dialect \in Dialects
  /\ nest = <<>> /\ at = "start" /\ ahead = [token |-> "none", ends |-> FALSE]
  /\ delimiter = "semi" /\ headWords = 0

-----------------------------------------------------------------------------
Top == IF nest = <<>> THEN "none" ELSE Last(nest)
Inside(frames) == ToSet(nest) \cap frames # {}
Used(construct) == construct \notin Unused[dialect]

IsKeyword(t) == t \notin {"x", "(", ")", "semi", "/"}

\* Where the next statement or declaration starts.
Restart ==
  IF Top \in Declarations THEN "declare" ELSE IF Top = "unit" THEN "unit-end" ELSE "start"

\* Each alternative below writes one token, and sets nest, at, ahead and delimiter.
WriteOn(token, place) == ahead' = [token |-> token, ends |-> FALSE] /\ at' = place
Write(token, place) == WriteOn(token, place) /\ UNCHANGED <<nest, delimiter>>
Open(frames, token, place) ==
  /\ Len(nest) + Len(frames) <= MaxNest /\ nest' = nest \o frames
  /\ WriteOn(token, place) /\ UNCHANGED delimiter
Close(token, place) ==
  nest' = Front(nest) /\ WriteOn(token, place) /\ UNCHANGED delimiter
Turn(frame, token, place) ==
  nest' = Append(Front(nest), frame) /\ WriteOn(token, place) /\ UNCHANGED delimiter
\* A token with which a statement ends, when nothing is open.
End(token) ==
  ahead' = [token |-> token, ends |-> TRUE] /\ at' = "start" /\ UNCHANGED <<nest, delimiter>>

Operand == ahead.token \in {"x", ")", "END"}

WritePlain ==
  \/ at \in {"start", "mid", "closed", "create"} /\ Write("x", "mid")
  \/ /\ at \in {"start", "mid"} /\ dialect = "oracle"
     /\ Inside({"loop-head"}) \/ Used("other-keywords")
     /\ Write("keyword", "mid")
  \/ at = "mid" /\ Open(<<"(">>, "(", "mid")
  \/ at \in {"mid", "closed"} /\ Top = "(" /\ Close(")", "mid")

\* CASE WHEN ... END, in any expression.
WriteCase ==
  \/ /\ at = "mid"
     /\ Inside({"block"}) => Used("case-in-block")
     /\ Inside({"loop-head"}) => Used("case-in-loop-head")
     /\ Open(<<"case">>, "CASE", "mid")
  \/ at \in {"mid", "closed"} /\ Top = "case" /\ Operand /\ Close("END", "closed")

\* CREATE [DEFINER = ...] PROCEDURE x
WriteCreate ==
  \/ at = "start" /\ nest = <<>> /\ Write("CREATE", "create")
  \/ /\ at = "create" /\ dialect = "mysql" /\ (delimiter = "semi" => Used("definer"))
     /\ Write("DEFINER", "definer")
  \/ at = "definer" /\ Write("x", "definer")
  \/ /\ at = "create" \/ (at = "definer" /\ ahead.token = "x")
     /\ dialect # "oracle" /\ Write("PROCEDURE", "header")
  \/ at = "header" /\ Write("x", "header")

\* The body of a program, and blocks in a block.
WriteBlock ==
  \/ /\ at = "header" /\ dialect \in {"mysql", "sqlserver", "sqlite"}
     /\ Open(<<"block">>, "BEGIN", "start")
  \/ at = "header" /\ dialect = "postgresql" /\ Write("BEGIN", "atomic")
  \/ at = "atomic" /\ Open(<<"block">>, "ATOMIC", "start")
  \/ /\ dialect \in {"mysql", "oracle"} /\ at = "start" /\ nest # <<>>
     /\ Open(<<"block">>, "BEGIN", "start")
  \/ /\ dialect = "sqlserver" /\ at \in {"start", "mid", "closed"} /\ Top \notin Expressions
     /\ Open(<<"block">>, "BEGIN", "start")
  \/ /\ Top \in {"block", "initialization"}
     /\ at = "start" \/ (dialect = "sqlserver" /\ at \in {"mid", "closed"})
     /\ Close("END", "closed")

\* BEGIN of a transaction, and END of one.
WriteTransaction ==
  \/ /\ at = "start" /\ nest = <<>> /\ dialect \in {"postgresql", "mysql", "sqlite"}
     /\ Used("transaction") /\ Write("BEGIN", "mid")
  \/ /\ at = "start" /\ nest = <<>> /\ dialect \in {"postgresql", "sqlite"}
     /\ Write("END", "mid")
  \/ at = "start" /\ dialect = "sqlserver" /\ Write("BEGIN", "tran")
  \/ at = "start" /\ dialect = "sqlserver" /\ Used("distributed") /\ Write("BEGIN", "distributed")
  \/ at = "distributed" /\ Write("DISTRIBUTED", "tran")
  \/ at = "tran" /\ Write("TRAN", "mid")

\* The control statements of MySQL and PL/SQL, with their END IF and so on.
WriteControl ==
  \/ /\ at = "start" /\ nest # <<>> /\ dialect \in {"mysql", "oracle"}
     /\ \/ Open(<<"if-head">>, "IF", "mid") \/ Open(<<"case-head">>, "CASE", "mid")
        \/ Open(<<"loop">>, "LOOP", "start")
        \/ dialect = "oracle" /\ \E t \in {"FOR", "WHILE"} : Open(<<"loop-head">>, t, "mid")
        \/ /\ dialect = "mysql" /\ (delimiter = "semi" => Used("repeat"))
           /\ Open(<<"repeat">>, "REPEAT", "start")
  \/ /\ at \in {"mid", "closed"} /\ Top \in DOMAIN BodyOf /\ Operand
     /\ Turn(BodyOf[Top][2], BodyOf[Top][1], "start")
  \/ at = "start" /\ ahead.token = "semi" /\ Top \in Control /\ Close("END", EndOf[Top])
  \/ at \in {"IF", "LOOP", "REPEAT", "CASE"} /\ Write(at, "closed")

\* PL/SQL units: anonymous blocks, CREATE [PACKAGE or TYPE] [BODY], triggers,
\* compound ones too, and ACCESSIBLE BY (PROCEDURE x).
WriteUnit ==
  \/ /\ at = "start" /\ nest = <<>>
     /\ \/ Open(<<"unit", "declarations">>, "DECLARE", "declare")
        \/ Open(<<"unit", "block">>, "BEGIN", "start")
  \/ /\ at = "create"
     /\ \/ Open(<<"unit">>, "PROCEDURE", "header") \/ Open(<<"unit">>, "TYPE", "type")
        \/ Open(<<"unit">>, "PACKAGE", "package")
  \/ /\ at = "header"
     /\ \/ Open(<<"declarations">>, "IS", "declare") \/ Open(<<"declarations">>, "DECLARE", "declare")
        \/ Open(<<"block">>, "BEGIN", "start")
        \/ Write("FOR", "for") \/ Write("(", "accessible")
  \/ at = "accessible" /\ Write("PROCEDURE", "accessible-by")
  \/ at = "accessible-by" /\ Write(")", "header")
  \/ at = "for" /\ (Write("x", "for") \/ Write("EACH", "header") \/ Write("COMPOUND", "compound"))
  \/ at = "compound" /\ Open(<<"compound">>, "PROCEDURE", "declare")
  \/ at \in {"type", "type-body", "package"} /\ Write("x", at)
  \/ at = "type" /\ (Write("IS", "mid") \/ Write("BODY", "type-body"))
  \/ at = "type-body" /\ Open(<<"type-body">>, "IS", "declare")
  \/ at = "package" /\ (Write("BODY", "package") \/ Open(<<"package">>, "IS", "declare"))

\* Variables, cursors, types and subprograms, and the sections of a compound trigger.
WriteDeclaration ==
  \/ /\ at = "declare"
     /\ \/ Write("x", "mid") \/ Write("TYPE", "mid") \/ Write("PROCEDURE", "spec")
        \/ Top = "declarations" /\ Turn("block", "BEGIN", "start")
        \/ Top = "package" /\ Turn("initialization", "BEGIN", "start")
        \/ Top \in {"package", "compound", "type-body"} /\ Close("END", "closed")
  \/ at = "mid" /\ Top \in Declarations /\ ahead.token = "x" /\ Write("IS", "mid")
  \/ at = "mid" /\ Top = "compound" /\ ahead.token = "x" /\ Open(<<"declarations">>, "IS", "declare")
  \/ at = "spec" /\ (Write("x", "spec") \/ Open(<<"declarations">>, "IS", "declare"))
  \/ at = "start" /\ nest # <<>> /\ Open(<<"declarations">>, "DECLARE", "declare")

\* FOR UPDATE, OPEN c FOR, CREATE SYNONYM x FOR; IF EXISTS; GRANT CREATE PROCEDURE.
ForIsRisky ==
  /\ Inside(Control \cup {"block"})
  /\ ~Inside({"(", "package", "compound", "initialization"})
WriteClause ==
  \/ /\ at = "mid" /\ ahead.token = "x" /\ Top \notin {"case", "if-head", "case-head", "loop-head"}
     /\ ForIsRisky => Used("for-in-block")
     /\ Write("FOR", "mid")
  \/ at = "mid" /\ nest = <<>> /\ ahead.token = "x" /\ Used("if-exists") /\ Write("IF", "mid")
  \/ at = "mid" /\ nest = <<>> /\ ahead.token = "x" /\ Used("grant-create") /\ Write("CREATE", "grant")
  \/ at = "grant" /\ Write("PROCEDURE", "mid")

WritePlSql == dialect = "oracle" /\ (WriteUnit \/ WriteDeclaration \/ WriteClause)

\* The end of a statement, of a unit, or of a batch.
WriteEnd ==
  \/ /\ at \in {"mid", "closed", "header", "spec"} /\ Top \notin Expressions
     /\ at = "header" => dialect # "oracle"
     /\ \/ nest = <<>> /\ delimiter = "semi" /\ End("semi")
        \/ nest # <<>> /\ Write("semi", Restart)
        \/ nest = <<>> /\ delimiter = "$$" /\ End("$$")
  \/ /\ at = "unit-end"
     /\ nest' = <<>> /\ ahead' = [token |-> "/", ends |-> TRUE] /\ at' = "start"
     /\ UNCHANGED delimiter
  \/ /\ dialect = "oracle" /\ at \in {"mid", "closed"} /\ nest = <<>> /\ Used("slash-after-SQL")
     /\ End("/")
  \/ /\ dialect = "sqlserver" /\ at \in {"start", "mid", "closed", "header"} /\ nest = <<>>
     /\ End("GO")

WriteDelimiter ==
  /\ dialect = "mysql" /\ at = "start" /\ nest = <<>>
  /\ \E d \in {"semi", "$$"} :
       delimiter' = d /\ WriteOn(IF d = "semi" THEN "new-semi" ELSE "new-$$", "start")
  /\ UNCHANGED nest

\* The last statement may do without its delimiter.
WriteEof ==
  /\ at \in {"start", "mid", "closed"} /\ nest = <<>>
  /\ ahead' = [token |-> "eof", ends |-> at # "start"] /\ at' = "end"
  /\ UNCHANGED <<nest, delimiter>>

\* A head is long with more than MaxKeywordLookback keywords; it has one more then.
CountHeadWords ==
  /\ headWords' = IF "loop-head" \in ToSet(nest) \cap ToSet(nest')
                    THEN headWords + (IF IsKeyword(ahead'.token) THEN 1 ELSE 0) ELSE 0
  /\ headWords' <= MaxKeywordLookback + (IF Used("long-loop-head") THEN 1 ELSE 0)

WriteToken ==
  /\ \/ WritePlain \/ WriteCase \/ WriteCreate \/ WriteBlock \/ WriteTransaction
     \/ WriteControl \/ WritePlSql \/ WriteEnd \/ WriteDelimiter \/ WriteEof
  /\ CountHeadWords
=============================================================================
