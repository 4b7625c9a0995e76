------------------------- MODULE StatementSplitter -------------------------
(***************************************************************************)
(* How a script is cut into statements.  The tokenizer's tokens go one by  *)
(* one through a statement parser, which counts how deep it is in blocks   *)
(* and cuts at a delimiter outside all of them (BaseStatementParser, its   *)
(* subclasses for PostgreSQL, MySQL, SQL Server and Oracle, and SQLite's   *)
(* parser).  The parsers do not know SQL: they go by keywords, the token   *)
(* after, and the ones before.                                             *)
(*                                                                         *)
(* SqlScript runs next to the parser: its nest is what is really open, and *)
(* a token ends a statement when nothing is.  It is one token ahead, for   *)
(* the parser's _peek_next_token.                                          *)
(***************************************************************************)
EXTENDS SqlScript

CONSTANT MaxDepth   \* bound on the depth at which FOR is written

ASSUME SplitterAssumption == MaxDepth \in Nat

VARIABLES
  parens,             \* parens_depth of the ParserContext
  depth, initiator,   \* its block_depth or begin_count, and block_initiator (read by
                      \* PostgreSQL's parser only)
  program,            \* in_atomic_block, in_stored_program, in_trigger, or Oracle's
                      \* delimiter is a slash
  cases,              \* case_depth of SQLite's parser
  oracle,             \* what else Oracle's parser keeps, or looks up in context.tokens
  before,             \* the two tokens before in context.tokens
  open,               \* current_statement_tokens is not empty
  ended, split        \* a statement ends at the token read last; the parser cut there

contextVars == <<parens, depth, initiator, program, cases, oracle, before, open>>
vars == <<dialect, writerVars, contextVars, ended, split>>

\* in_package, in_declaration_section and _seen_create; the keywords since the last
\* FOR or WHILE, as far as a LOOP would look back; the kinds of unit seen.
OutOfReach == MaxKeywordLookback + 1
NewOracle ==
  [package |-> FALSE, declaration |-> FALSE, create |-> FALSE, since |-> OutOfReach, seen |-> {}]

Init ==
  /\ WriterInit
  /\ parens = 0 /\ depth = 0 /\ initiator = "none" /\ program = FALSE /\ before = <<>>
  /\ cases = 0 /\ oracle = NewOracle
  /\ open = FALSE /\ ended = FALSE /\ split = FALSE

-----------------------------------------------------------------------------
\* The parser reads the token ahead; next is the one written in the same step.
token == ahead.token
Previous == IF before = <<>> THEN "none" ELSE Last(before)

Level(change, p) == [depth |-> depth + change, initiator |-> initiator, program |-> p]

\* A block starts at BEGIN ATOMIC; in it CASE ... END counts.
PostgresBlocks(next) ==
  CASE token = "ATOMIC" /\ Previous = "BEGIN" -> [Level(1, TRUE) EXCEPT !.initiator = "ATOMIC"]
    [] token = "CASE" /\ program             -> [Level(1, TRUE) EXCEPT !.initiator = "CASE"]
    [] token = "END" /\ depth > 0 /\ initiator \in {"ATOMIC", "CASE"} ->
         Level(-1, program /\ initiator # "ATOMIC")
    [] OTHER                                 -> Level(0, program)

\* CREATE among the last three tokens makes PROCEDURE the start of a program.
StoredProgram == program \/ (token = "PROCEDURE" /\ "CREATE" \in ToSet(before))

\* Faulty MySqlBlocks: END IF and END LOOP close blocks.
AnyEndCloses(next) ==
  IF parens > 0 THEN Level(0, program)
  ELSE CASE token = "BEGIN" /\ program         -> Level(1, program)
         [] token = "CASE" /\ Previous # "END" -> Level(1, program)
         [] token = "END" /\ depth > 0         -> Level(-1, program)
         [] OTHER                              -> Level(0, StoredProgram)

\* BEGIN counts in a program only, END IF and END LOOP do not count, END CASE
\* does once, and nothing counts inside parentheses.
MySqlBlocks(next) ==
  IF parens > 0 THEN Level(0, program)
  ELSE CASE token = "BEGIN" /\ program         -> Level(1, program)
         [] token = "CASE" /\ Previous # "END" -> Level(1, program)
         [] token = "END" /\ depth > 0 /\ next \notin {"IF", "LOOP"} -> Level(-1, program)
         [] OTHER                              -> Level(0, StoredProgram)

\* BEGIN of a transaction is no block (BEGIN DISTRIBUTED is taken for one).
SqlServerBlocks(next) ==
  CASE token = "BEGIN" /\ next # "TRAN" -> Level(1, program)
    [] token = "END" /\ depth > 0       -> Level(-1, program)
    [] OTHER                            -> Level(0, program)

\* IS or AS behind CREATE PACKAGE, or the TRIGGER of COMPOUND TRIGGER, opens a
\* package; behind CREATE PROCEDURE, or in a package, IS starts declarations.
EntersPackage ==
  /\ ~oracle.package
  /\ \/ token = "PROCEDURE" /\ Previous = "COMPOUND"
     \/ token = "IS" /\ oracle.create /\ "PACKAGE" \in oracle.seen
EntersDeclarations ==
  token = "IS" /\ oracle.create /\ "PROCEDURE" \in oracle.seen /\ ~EntersPackage

\* These make the slash the delimiter.
StartsPlSql ==
  token \in {"DECLARE", "BEGIN"} \/ (oracle.create /\ token \in {"PROCEDURE", "TYPE", "PACKAGE"})

\* Every END counts, and so does each thing it may close: in a block every FOR
\* and WHILE, and a LOOP that has neither in front of it, or too far away for
\* the parser to see.  FOR UPDATE counts like FOR i IN.
OracleBlocks(next) ==
  LET rises == \/ token = "BEGIN" \/ EntersPackage
               \/ token \in {"IF", "CASE"} /\ Previous # "END"
               \/ token = "LOOP" /\ Previous # "END" /\ oracle.since = OutOfReach
               \/ token = "WHILE" /\ depth > 0
               \/ token = "FOR" /\ depth > 0 /\ next # "EACH"
      falls == token = "END" /\ depth > 0
  IN  IF parens > 0 THEN Level(0, program)
      ELSE Level(IF rises THEN 1 ELSE IF falls THEN -1 ELSE 0, program \/ StartsPlSql)

\* What a LOOP looks back over: it stops at END, BEGIN, THEN and ELSE.
LookBack(first) ==
  CASE token \in {"FOR", "WHILE"}        -> first
    [] token \in {"END", "BEGIN", "THEN"} -> OutOfReach
    [] OTHER -> IF IsKeyword(token) /\ oracle.since < OutOfReach
                THEN oracle.since + 1 ELSE oracle.since

\* Faulty SinceLoopHead: the FOR counts as the first of the keywords.
CountingTheHead == LookBack(1)

SinceLoopHead == LookBack(0)

OracleNotes ==
  [package |-> oracle.package \/ (parens = 0 /\ EntersPackage),
   declaration |-> IF parens > 0 THEN oracle.declaration
                   ELSE EntersDeclarations \/ (oracle.declaration /\ token # "BEGIN"),
   create |-> oracle.create \/ (parens = 0 /\ token = "CREATE"),
   since |-> SinceLoopHead,
   seen |-> oracle.seen \cup ({token} \cap {"PACKAGE", "PROCEDURE"})]

\* Every BEGIN counts; a CASE does in a block, where it takes an END.
SqliteBlocks(next) ==
  CASE token = "BEGIN"              -> Level(1, TRUE)
    [] token = "END" /\ cases = 0   -> IF depth > 1 THEN Level(-1, program) ELSE Level(-depth, FALSE)
    [] OTHER                        -> Level(0, program)
SqliteCases ==
  CASE token = "CASE" /\ program   -> cases + 1
    [] token = "END" /\ cases > 0   -> cases - 1
    [] OTHER                        -> cases

Blocks(next) ==
  CASE dialect = "postgresql" -> PostgresBlocks(next)
    [] dialect = "mysql"      -> MySqlBlocks(next)
    [] dialect = "sqlserver"  -> SqlServerBlocks(next)
    [] dialect = "oracle"     -> OracleBlocks(next)
    [] dialect = "sqlite"     -> SqliteBlocks(next)

\* With DELIMITER $$ a ; is but a symbol.  GO ends a batch at any depth.  Oracle
\* ends a package at a slash at any depth: the BEGIN of its initialization has
\* no END of its own.
StatementEnd(newDepth) ==
  IF dialect = "oracle"
  THEN \/ token = "/" /\ oracle.package /\ newDepth > 0
       \/ newDepth = 0 /\ token = (IF program THEN "/" ELSE "semi")
          /\ ~(token = "semi" /\ oracle.declaration)
  ELSE (token = delimiter /\ newDepth = 0) \/ token = "GO"

ParensDepth ==
  CASE token = "(" -> parens + 1
    [] token = ")" -> IF parens = 0 THEN 0 ELSE parens - 1
    [] OTHER       -> parens

Remembered == IF Len(before) < 2 THEN Append(before, token) ELSE <<before[2], token>>

\* The parsers of MySQL and Oracle forget the statement that they have cut off;
\* the others keep their context.
Parse(next) ==
  LET b == Blocks(next)
      cut == StatementEnd(b.depth)
      fresh == cut /\ dialect \in {"mysql", "oracle"}
  IN  /\ split' = cut /\ open' = ~cut
      /\ depth' = IF fresh THEN 0 ELSE b.depth
      /\ initiator' = IF fresh THEN "none" ELSE b.initiator
      /\ program' = (b.program /\ ~fresh)
      /\ before' = IF fresh THEN <<>> ELSE Remembered
      /\ parens' = IF fresh THEN 0 ELSE ParensDepth
      /\ cases' = IF dialect = "sqlite" THEN SqliteCases ELSE cases
      /\ oracle' = IF fresh \/ dialect # "oracle" THEN NewOracle ELSE OracleNotes

\* FOR can raise the depth for good, in a package.
WriteAhead == WriteToken /\ (ahead'.token = "FOR" => depth < MaxDepth)

\* DELIMITER cuts off what has been gathered, and leaves the rest as it is.
ReadDelimiter ==
  /\ token \in NewDelimiter /\ WriteAhead
  /\ ended' = FALSE /\ split' = open /\ open' = FALSE
  /\ UNCHANGED <<dialect, parens, depth, initiator, program, cases, oracle, before>>

Read ==
  /\ token \notin NewDelimiter \cup {"none", "eof"} /\ WriteAhead
  /\ Parse(ahead'.token) /\ ended' = ahead.ends
  /\ UNCHANGED dialect

First ==
  /\ token = "none" /\ WriteAhead
  /\ ended' = FALSE /\ split' = FALSE
  /\ UNCHANGED <<dialect, contextVars>>

\* What is left is the last statement.  The next script has a new parser.
Finish ==
  /\ token = "eof" /\ ended' = ahead.ends /\ split' = open
  /\ at' = "start" /\ ahead' = [token |-> "none", ends |-> FALSE] /\ delimiter' = "semi" /\ headWords' = 0
  /\ parens' = 0 /\ depth' = 0 /\ initiator' = "none" /\ program' = FALSE /\ before' = <<>>
  /\ cases' = 0 /\ oracle' = NewOracle /\ open' = FALSE
  /\ UNCHANGED <<dialect, nest>>

Next == First \/ Read \/ ReadDelimiter \/ Finish

Spec == Init /\ [][Next]_vars

-----------------------------------------------------------------------------
\* In scripts without the constructs of Unused, the parser cuts nowhere but where
\* a statement ends: the body of a program or a package is never torn apart,
\* however it nests the others.  With the constructs of MCUnused it is: SQL
\* Server's parser tears a block with a CASE in it, although it is to "preserve
\* block statements" (sqlserver_regex_parser.py), and MySQL's a body under ; that
\* has a REPEAT, or belongs to a program with a DEFINER.
BlocksStayWhole == split => ended

\* In such scripts every statement is cut off from the next one: no block is left
\* open behind its END, by an END that was read as another's, by the BEGIN of a
\* package that has no END, or by a loop whose head has as many keywords as the
\* parser looks back over.  With one more the FOR and the LOOP both count, and the
\* unit is merged with the next: MCUnused leaves out long loop heads, and what
\* else Oracle's, SQLite's and SQL Server's parsers take for a block that stays open.
StatementsApart == ended => split
=============================================================================
