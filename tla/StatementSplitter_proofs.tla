----------------------- MODULE StatementSplitter_proofs -----------------------
(***************************************************************************)
(* Each of the five parsers cuts a script where its statements end and     *)
(* nowhere else, however deep it nests blocks, expressions and control     *)
(* statements, as long as it does without the constructs that the parser   *)
(* misreads (Misread).  This is no theorem about all scripts: with each of *)
(* these constructs the code tears statements apart or merges them.        *)
(*                                                                         *)
(* The parser is one token behind the writer.  What it has counted agrees  *)
(* with what was open before the writer wrote the token ahead (Agree), and *)
(* the token says what it opened or closed (Wrote).                        *)
(***************************************************************************)
EXTENDS StatementSplitter, SequenceTheorems, FiniteSetTheorems, TLAPS

\* What each parser misreads.  MySQL: DEFINER in a header and REPEAT, both where the
\* semicolon is the delimiter.  SQL Server: a CASE in a block, BEGIN DISTRIBUTED.
\* Oracle: FOR UPDATE and OPEN ... FOR in a block, IF EXISTS, GRANT CREATE
\* PROCEDURE, a slash behind plain SQL, a CASE in a loop head, and loop heads of
\* more than MaxKeywordLookback keywords.  SQLite: BEGIN of a transaction.
Misread ==
  [postgresql |-> {}, mysql |-> {"definer", "repeat"},
   sqlserver |-> {"case-in-block", "distributed"},
   oracle |-> {"for-in-block", "if-exists", "grant-create", "slash-after-SQL",
               "case-in-loop-head", "long-loop-head"},
   sqlite |-> {"transaction"}]

NothingMisread == \A d \in Dialects : Misread[d] \subseteq Unused[d]

-----------------------------------------------------------------------------
(* What can be open. *)

Frames == Expressions \cup Declarations \cup Control \cup {"block", "initialization", "unit"}

FramesOfDialect ==
  CASE dialect = "oracle" -> Frames \ {"repeat"}
    [] dialect = "mysql"  -> {"block", "(", "case", "if-head", "case-head"} \cup Control
    [] OTHER              -> {"block", "(", "case"}

Holds(n, f) == \E i \in DOMAIN n : n[i] = f

\* A frame f may be the i-th one from outside.
Possible(f, i) ==
  /\ f \in FramesOfDialect
  /\ i = 1 => f \in {"(", "case", IF dialect = "oracle" THEN "unit" ELSE "block"}
  /\ f = "unit" => i = 1
  /\ f = "block" /\ dialect \in {"postgresql", "sqlite"} => i = 1
  /\ f = "repeat" => delimiter = "$$"

\* A frame g may be open in a frame f, with others between them.
Nests(f, g) ==
  /\ f \in Expressions => g \in {"(", "case"}
  /\ f = "loop-head" => g = "("
  /\ f = "block" /\ dialect = "sqlserver" => g # "case"

Shape(n) ==
  /\ n \in Seq(Frames)
  /\ \A i \in DOMAIN n : Possible(n[i], i)
  /\ \A i, j \in DOMAIN n : i < j => Nests(n[i], n[j])

Places ==
  {"start", "mid", "closed", "create", "definer", "header", "atomic", "tran",
   "IF", "LOOP", "REPEAT", "CASE", "declare", "spec", "accessible", "accessible-by",
   "for", "compound", "type", "type-body", "package", "unit-end", "end"}
\* Behind the END of a control statement.
AfterEnd == {"IF", "LOOP", "REPEAT", "CASE"}
\* In the head of a PL/SQL unit.
UnitHead ==
  {"accessible", "accessible-by", "for", "compound", "type", "type-body", "package", "unit-end"}

\* Where the writer can be, and after which token.
Placed ==
  /\ at \in Places
  /\ at = "start" /\ nest # <<>> => Top \in Control \cup {"block", "initialization"}
  /\ at \in {"create", "definer", "atomic"} => nest = <<>>
  /\ at = "definer" => dialect = "mysql" /\ delimiter = "$$"
  /\ at = "header" => nest = IF dialect = "oracle" THEN <<"unit">> ELSE <<>>
  /\ at \in UnitHead => dialect = "oracle" /\ nest = <<"unit">>
  /\ at \in {"declare", "spec"} => dialect = "oracle" /\ Top \in Declarations
  /\ at \in AfterEnd => token = "END" /\ dialect \in {"mysql", "oracle"}
  /\ at = "create" => token = "CREATE"
  /\ at = "atomic" => token = "BEGIN" /\ dialect = "postgresql"
  /\ at = "tran" => token = "BEGIN" /\ dialect = "sqlserver"
  /\ at = "compound" => token = "COMPOUND"
  /\ at = "accessible" => token = "("
  /\ at = "end" <=> token = "eof"
  /\ at \in {"start", "mid"} /\ dialect = "mysql" => token # "END"

\* At the beginning of a statement outside all others.
Rested(n, place) == n = <<>> /\ place = "start"

WriterOK ==
  /\ dialect \in Dialects /\ delimiter \in {"semi", "$$"} /\ ahead.ends \in BOOLEAN
  /\ dialect # "mysql" => delimiter = "semi"
  /\ Shape(nest) /\ Placed
  /\ Rested(nest, at) <=> (ahead.ends /\ token # "eof") \/ token \in NewDelimiter \cup {"none"}

-----------------------------------------------------------------------------
(* What the token ahead did to the nest m, written at the place from. *)

Kept(m) == nest = m
Opened(m, f) == nest = Append(m, f)
Closed(m, f) == m = Append(nest, f)
Turned(m, f, g) == \E r \in Seq(Frames) : m = Append(r, f) /\ nest = Append(r, g)

\* Frames that Oracle's parser counts.
OracleFrames ==
  {"block", "if-head", "if", "case-head", "case-statement", "case", "loop-head", "loop"}

InUnit(m) == Holds(m, "unit")

Tokens ==
  {"none", "eof", "x", "keyword", "(", ")", "semi", "$$", "GO", "/", "new-semi", "new-$$",
   "CREATE", "DEFINER", "PROCEDURE", "BEGIN", "ATOMIC", "END", "TRAN", "CASE", "IF", "LOOP", "REPEAT", "THEN",
   "FOR", "WHILE", "EACH", "COMPOUND", "DECLARE", "TYPE", "PACKAGE", "BODY", "IS"}
\* Tokens that never open or close anything.
Neutral ==
  {"none", "eof", "x", "keyword", "semi", "$$", "GO", "new-semi", "new-$$", "CREATE", "DEFINER",
   "TRAN", "EACH", "COMPOUND", "BODY"}

WroteBegin(m, from) ==
  \/ /\ at = "start"
     /\ \/ from = "header" /\ Opened(m, "block") /\ dialect # "postgresql"
        \/ from = "start" /\ m # <<>> /\ Opened(m, "block") /\ dialect \in {"mysql", "oracle"}
        \/ Opened(m, "block") /\ dialect = "sqlserver"
        \/ m = <<>> /\ nest = <<"unit", "block">> /\ dialect = "oracle"
        \/ (Turned(m, "declarations", "block") \/ Turned(m, "package", "initialization"))
           /\ dialect = "oracle"
  \/ Kept(m) /\ from = "header" /\ at = "atomic" /\ dialect = "postgresql"
  \/ Kept(m) /\ Rested(m, from) /\ at = "mid" /\ dialect \in {"postgresql", "mysql"}
  \/ Kept(m) /\ at = "tran" /\ dialect = "sqlserver"

WroteEnd(m) ==
  \/ at = "closed" /\ \E f \in {"case", "block", "initialization"} \cup Declarations : Closed(m, f)
  \/ \E f \in Control : at = EndOf[f] /\ Closed(m, f)
  \/ m = <<>> /\ nest = <<>> /\ at = "mid" /\ dialect \in {"postgresql", "sqlite"}

WroteFor(m, from) ==
  \/ Opened(m, "loop-head")
  \/ Kept(m) /\ from = "header"
  \/ Kept(m) /\ \/ \E f \in {"(", "package", "compound", "initialization"} : Holds(m, f)
                \/ \A f \in OracleFrames : ~Holds(m, f)

WroteUnit(m, from) ==
  /\ token = "DECLARE" =>
       \/ m = <<>> /\ nest = <<"unit", "declarations">>
       \/ InUnit(m) /\ Opened(m, "declarations")
  /\ token = "PROCEDURE" =>
       \/ from = "create" /\ m = <<>> /\ nest = <<"unit">>
       \/ from = "compound" /\ Opened(m, "compound")
       \/ InUnit(m) /\ Kept(m)
  /\ token = "TYPE" =>
       (from = "create" /\ m = <<>> /\ nest = <<"unit">>) \/ (InUnit(m) /\ Kept(m))
  /\ token = "PACKAGE" => from = "create" /\ m = <<>> /\ nest = <<"unit">>
  /\ token = "IS" =>
       /\ InUnit(m)
       /\ \/ from = "package" /\ Opened(m, "package")
          \/ Kept(m) \/ Opened(m, "declarations") \/ Opened(m, "type-body")
  /\ token = "WHILE" => Opened(m, "loop-head")
  /\ token = "FOR" => WroteFor(m, from)
  /\ at = "package" => token = "PACKAGE" \/ from = "package"
  /\ at = "accessible" => token = "(" /\ from = "header"
  /\ at = "accessible-by" <=> from = "accessible"
  /\ at = "accessible-by" => token = "PROCEDURE"
  /\ from = "accessible-by" => token = ")" /\ Kept(m) /\ at = "header"

Changed(m, from) ==
  /\ token \in Neutral => Kept(m)
  /\ token = "(" => Opened(m, "(") \/ (Kept(m) /\ at = "accessible")
  /\ token = ")" => Closed(m, "(") \/ (Kept(m) /\ from = "accessible-by")
  /\ token = "CASE" =>
       \/ from = "CASE" /\ Kept(m)
       \/ from = "mid" /\ Opened(m, "case")
       \/ from = "start" /\ Opened(m, "case-head")
  /\ token = "BEGIN" => WroteBegin(m, from)
  /\ token = "ATOMIC" => dialect = "postgresql" /\ from = "atomic" /\ Opened(m, "block")
  /\ token = "END" => WroteEnd(m)
  /\ token = "IF" => (from = "IF" /\ Kept(m)) \/ (from = "start" /\ Opened(m, "if-head"))
  /\ token = "LOOP" =>
       \/ from = "LOOP" /\ Kept(m)
       \/ from = "start" /\ Opened(m, "loop")
       \/ Turned(m, "loop-head", "loop")
  /\ token = "REPEAT" => Kept(m) \/ Opened(m, "repeat")
  /\ token = "THEN" => Turned(m, "if-head", "if") \/ Turned(m, "case-head", "case-statement")
  /\ from \in AfterEnd => token = from /\ dialect \in {"mysql", "oracle"}
  /\ token = "TRAN" <=> from = "tran"
  /\ token = "/" => dialect = "oracle" /\ m = <<"unit">> /\ nest = <<>>
  /\ token \in {"FOR", "WHILE", "DECLARE", "TYPE", "PACKAGE", "IS", "EACH", "COMPOUND", "BODY"} =>
       dialect = "oracle"
  /\ dialect = "oracle" => WroteUnit(m, from)
  /\ dialect # "oracle" /\ token = "PROCEDURE" => Kept(m) /\ from \in {"create", "definer"}
  /\ dialect # "oracle" /\ at = "header" => token = "PROCEDURE" \/ from = "header"

\* Where statements end.
Ends(m, from) ==
  /\ token \in {"$$", "GO", "/"} => ahead.ends
  /\ token = "$$" => delimiter = "$$"
  /\ token = "GO" => dialect = "sqlserver"
  /\ token = "semi" => IF ahead.ends THEN m = <<>> /\ delimiter = "semi"
                    ELSE m # <<>> /\ Last(m) \notin Expressions
  /\ token = "eof" => m = <<>> /\ (ahead.ends <=> from # "start")
  /\ token \in NewDelimiter \cup {"none"} => Rested(m, from) /\ ~ahead.ends
  /\ ahead.ends => token \in {"semi", "$$", "GO", "/", "eof"} /\ nest = <<>>

Wrote(m, from) ==
  /\ token \in Tokens /\ Shape(m) /\ from \in Places
  /\ Changed(m, from) /\ Ends(m, from)
  /\ from \in {"create", "definer", "atomic"} => m = <<>>
  /\ from = "definer" => delimiter = "$$"
  /\ from = "header" => m = IF dialect = "oracle" THEN <<"unit">> ELSE <<>>
  /\ from \in UnitHead => m = <<"unit">>

-----------------------------------------------------------------------------
(* What the parser has counted, when m is open and the writer is at from. *)

\* The frames of F that are not inside a frame of G.
Counted(n, F, G) ==
  Cardinality({i \in DOMAIN n : n[i] \in F /\ \A j \in 1..i : n[j] \notin G})
Count(n, F) == Counted(n, F, {})
Outside(n, F) == Counted(n, F, {"("})

MySqlFrames == {"block", "case", "case-head", "case-statement"}

Memory(from) ==
  /\ from \in AfterEnd => Previous = "END"
  /\ from = "atomic" => Previous = "BEGIN"
  /\ from = "create" => Previous = "CREATE" /\ "CREATE" \in ToSet(before)
  /\ from = "compound" => Previous = "COMPOUND"
  /\ dialect = "mysql" /\ from \in {"start", "mid"} => Previous # "END"

AgreePostgres(m) ==
  /\ depth = IF program THEN Count(m, {"block", "case"}) ELSE 0
  /\ program => initiator \in {"ATOMIC", "CASE"}
  /\ Holds(m, "block") => program
  /\ Holds(m, "case") /\ program => initiator = "CASE"

AgreeSqlite(m) ==
  /\ program <=> Holds(m, "block")
  /\ depth = IF program THEN 1 ELSE 0
  /\ cases = IF program THEN Count(m, {"case"}) ELSE 0

AgreeSqlServer(m) == depth = Count(m, {"block"})

AgreeMySql(m, from) ==
  /\ parens = Count(m, {"("})
  /\ depth <= Outside(m, MySqlFrames)
  /\ Rested(m, from) => ~program
  /\ delimiter = "semi" =>
       /\ depth = Outside(m, MySqlFrames)
       /\ from = "header" => program
       /\ Holds(m, "block") => program

\* While a loop head is open, the parser has counted no more keywords since its FOR
\* or WHILE than there are, without the token ahead, and no LOOP is out of reach.
Words(t) == IF IsKeyword(t) THEN 1 ELSE 0
LoopHeadSeen(m) ==
  Holds(m, "loop-head") =>
    /\ oracle.since <= MaxKeywordLookback
    /\ Holds(nest, "loop-head") => oracle.since + Words(token) <= headWords

AgreeOracle(m, from) ==
  /\ parens = Count(m, {"("}) + IF from \in {"accessible", "accessible-by"} THEN 1 ELSE 0
  /\ program <=> InUnit(m)
  /\ oracle.package \/ oracle.declaration \/ oracle.seen # {} => program
  /\ oracle.package \/ depth <= Outside(m, OracleFrames)
  /\ from = "create" => oracle.create
  /\ from = "package" => oracle.create /\ "PACKAGE" \in oracle.seen
  /\ \A f \in {"package", "compound", "initialization"} : Holds(m, f) => oracle.package
  /\ LoopHeadSeen(m)

ContextTyped ==
  /\ parens \in Nat /\ depth \in Nat /\ cases \in Nat
  /\ initiator \in {"none", "ATOMIC", "CASE"} /\ program \in BOOLEAN /\ open \in BOOLEAN
  /\ before \in Seq(Tokens) /\ Len(before) <= 2
  /\ oracle \in [package : BOOLEAN, declaration : BOOLEAN, create : BOOLEAN, since : Nat,
                 seen : SUBSET {"PACKAGE", "PROCEDURE"}]

Agree(m, from) ==
  /\ ContextTyped /\ Memory(from)
  /\ open <=> ~Rested(m, from)
  /\ dialect = "postgresql" => AgreePostgres(m)
  /\ dialect = "sqlite" => AgreeSqlite(m)
  /\ dialect = "sqlserver" => AgreeSqlServer(m)
  /\ dialect = "mysql" => AgreeMySql(m, from)
  /\ dialect = "oracle" => AgreeOracle(m, from)

\* No loop head of a script for Oracle is long.
HeadsShort ==
  headWords \in Nat /\ (dialect = "oracle" => headWords <= MaxKeywordLookback)

InStep(m, from) == WriterOK /\ Wrote(m, from) /\ HeadsShort /\ Agree(m, from)

IInv == (split <=> ended) /\ \E m \in Seq(Frames), from \in Places : InStep(m, from)

-----------------------------------------------------------------------------
(* Nests as sequences. *)

\* The frames, one by one.
LEMMA EachFrame ==
  {"(", "case", "if-head", "loop-head", "case-head", "package", "compound", "type-body",
   "declarations", "if", "loop", "repeat", "case-statement", "block", "initialization",
   "unit"} = Frames
BY DEF Frames, Expressions, Declarations, Control

\* What appending a frame gives.
LEMMA Push ==
  ASSUME NEW n \in Seq(Frames), NEW f \in Frames
  PROVE  /\ Append(n, f) \in Seq(Frames) /\ Append(n, f) # <<>>
         /\ Len(n) \in Nat /\ DOMAIN n = 1..Len(n)
         /\ Len(Append(n, f)) = Len(n) + 1 /\ DOMAIN Append(n, f) = 1..(Len(n) + 1)
         /\ \A i \in DOMAIN n : Append(n, f)[i] = n[i]
         /\ Append(n, f)[Len(n) + 1] = f /\ Last(Append(n, f)) = f
         /\ n \o <<f>> = Append(n, f)
<1>1. /\ Append(n, f) \in Seq(Frames) /\ Append(n, f) # <<>>
      /\ Len(Append(n, f)) = Len(n) + 1
      /\ \A i \in 1..Len(n) : Append(n, f)[i] = n[i]
      /\ Append(n, f)[Len(n) + 1] = f
  BY AppendProperties
<1>2. Len(n) \in Nat /\ DOMAIN n = 1..Len(n)
  BY LenProperties
<1>3. DOMAIN Append(n, f) = 1..(Len(n) + 1)
  BY <1>1, LenProperties
<1>4. Append(n, f) = n \o <<f>>
  BY AppendIsConcat
<1> QED
  BY <1>1, <1>2, <1>3, <1>4 DEF Last

\* A nest in which something is open is what is open around its last frame, and that frame.
LEMMA Pop ==
  ASSUME NEW n \in Seq(Frames), n # <<>>
  PROVE  /\ Front(n) \in Seq(Frames) /\ Last(n) \in Frames
         /\ n = Append(Front(n), Last(n))
<1>1. PICK m \in Seq(Frames), f \in Frames : n = Append(m, f)
  BY SequenceEmptyOrAppend
<1>2. /\ Len(m) \in Nat /\ DOMAIN m = 1..Len(m)
      /\ Len(n) = Len(m) + 1 /\ Last(n) = f
      /\ \A i \in DOMAIN m : n[i] = m[i]
  BY <1>1, Push
<1>3. \A i \in 1..Len(m) : n[i] \in Frames
  BY <1>2, ElementOfSeq
<1>4. /\ SubSeq(n, 1, Len(m)) \in Seq(Frames)
      /\ Len(SubSeq(n, 1, Len(m))) = Len(m)
      /\ \A i \in 1..Len(m) : SubSeq(n, 1, Len(m))[i] = n[i]
  BY <1>2, <1>3, SubSeqProperties
<1>5. SubSeq(n, 1, Len(m)) = m
  BY <1>2, <1>4, SeqEqual
<1>6. Front(n) = m
  BY <1>2, <1>5 DEF Front
<1> QED
  BY <1>1, <1>2, <1>6

\* Closing what was opened last leaves the nest as it was.
LEMMA PushPop ==
  ASSUME NEW n \in Seq(Frames), NEW f \in Frames
  PROVE  Front(Append(n, f)) = n
<1>1. /\ Append(n, f) \in Seq(Frames) /\ Append(n, f) # <<>> /\ Last(Append(n, f)) = f
  BY Push
<1>2. /\ Front(Append(n, f)) \in Seq(Frames)
      /\ Append(n, f) = Append(Front(Append(n, f)), f)
  BY <1>1, Pop
<1> QED
  BY <1>2, AppendInjective

\* The nests that are given as they are.
LEMMA Given ==
  /\ <<>> \in Seq(Frames) /\ Len(<<>>) = 0 /\ DOMAIN <<>> = {}
  /\ \A f \in Frames : <<f>> = Append(<<>>, f)
  /\ \A f, g \in Frames : <<f, g>> = Append(Append(<<>>, f), g)
<1>1. <<>> \in Seq(Frames) /\ Len(<<>>) = 0 /\ DOMAIN <<>> = {}
  BY EmptySeq
<1>2. ASSUME NEW f \in Frames PROVE <<f>> = Append(<<>>, f)
  BY <1>1, AppendIsConcat
<1>3. ASSUME NEW f \in Frames, NEW g \in Frames PROVE <<f, g>> = Append(<<f>>, g)
  OBVIOUS
<1> QED
  BY <1>1, <1>2, <1>3

\* What a nest holds with one more frame open.
LEMMA HoldsPush ==
  ASSUME NEW n \in Seq(Frames), NEW f \in Frames, NEW g
  PROVE  Holds(Append(n, f), g) <=> Holds(n, g) \/ g = f
<1> DEFINE a == Append(n, f)
<1>1. /\ Len(n) \in Nat /\ DOMAIN n = 1..Len(n) /\ DOMAIN a = 1..(Len(n) + 1)
      /\ \A i \in DOMAIN n : a[i] = n[i]
      /\ a[Len(n) + 1] = f
  BY Push
<1> HIDE DEF a
<1>2. \A i \in DOMAIN a : i \in DOMAIN n \/ i = Len(n) + 1
  BY <1>1
<1>3. \A i \in DOMAIN n : i \in DOMAIN a
  BY <1>1
<1>4. Len(n) + 1 \in DOMAIN a
  BY <1>1
<1>5. Holds(a, g) <=> Holds(n, g) \/ g = f
  BY <1>1, <1>2, <1>3, <1>4 DEF Holds
<1> QED
  BY <1>5 DEF a

-----------------------------------------------------------------------------
(* Shapes. *)

\* Nothing open is a proper nest.
LEMMA ShapeEmpty == Shape(<<>>)
  BY Given DEF Shape

\* A frame may be opened where it is possible and every frame around it allows it.
LEMMA ShapePush ==
  ASSUME NEW n, Shape(n), NEW f \in Frames, Possible(f, Len(n) + 1),
         \A i \in DOMAIN n : Nests(n[i], f)
  PROVE  Shape(Append(n, f))
<1>1. n \in Seq(Frames)
  BY DEF Shape
<1>2. /\ Append(n, f) \in Seq(Frames)
      /\ Len(n) \in Nat /\ DOMAIN n = 1..Len(n)
      /\ DOMAIN Append(n, f) = 1..(Len(n) + 1)
      /\ \A i \in DOMAIN n : Append(n, f)[i] = n[i]
      /\ Append(n, f)[Len(n) + 1] = f
  BY <1>1, Push
<1>3. \A i \in 1..(Len(n) + 1) : i \in DOMAIN n \/ i = Len(n) + 1
  BY <1>2
<1>4. \A i \in DOMAIN Append(n, f) : Possible(Append(n, f)[i], i)
  BY <1>2, <1>3 DEF Shape
<1>5. ASSUME NEW i \in DOMAIN Append(n, f), NEW j \in DOMAIN Append(n, f), i < j
      PROVE  Nests(Append(n, f)[i], Append(n, f)[j])
  <2>1. i \in DOMAIN n
    BY <1>2, <1>5
  <2>2. CASE j \in DOMAIN n
    BY <1>2, <1>5, <2>1, <2>2 DEF Shape
  <2>3. CASE j = Len(n) + 1
    BY <1>2, <2>1, <2>3
  <2> QED
    BY <1>2, <1>3, <2>2, <2>3
<1> QED
  BY <1>2, <1>4, <1>5 DEF Shape

\* Closing keeps the shape, and tells what the closed frame was allowed in.
LEMMA ShapePop ==
  ASSUME NEW n \in Seq(Frames), NEW f \in Frames, Shape(Append(n, f))
  PROVE  /\ Shape(n) /\ Possible(f, Len(n) + 1)
         /\ \A i \in DOMAIN n : Nests(n[i], f)
<1>1. /\ Len(n) \in Nat /\ DOMAIN n = 1..Len(n)
      /\ DOMAIN Append(n, f) = 1..(Len(n) + 1)
      /\ \A i \in DOMAIN n : Append(n, f)[i] = n[i]
      /\ Append(n, f)[Len(n) + 1] = f
  BY Push
<1>2. \A i \in DOMAIN n : i \in DOMAIN Append(n, f) /\ i < Len(n) + 1
  BY <1>1
<1>3. Len(n) + 1 \in DOMAIN Append(n, f)
  BY <1>1
<1> QED
  BY <1>1, <1>2, <1>3 DEF Shape

\* Under something that is no expression there is no expression.
LEMMA NoExpressions ==
  ASSUME NEW n, Shape(n), n = <<>> \/ Last(n) \notin Expressions
  PROVE  \A i \in DOMAIN n : n[i] \notin Expressions
<1> SUFFICES ASSUME NEW i \in DOMAIN n, n[i] \in Expressions PROVE FALSE
  OBVIOUS
<1>1. n \in Seq(Frames) /\ n # <<>>
  BY Given DEF Shape
<1>2. Len(n) \in Nat \ {0} /\ DOMAIN n = 1..Len(n)
  BY <1>1, LenProperties, EmptySeq
<1>3. Last(n) = n[Len(n)] /\ Len(n) \in DOMAIN n
  BY <1>2 DEF Last
<1>4. i < Len(n)
  BY <1>1, <1>2, <1>3
<1> QED
  BY <1>1, <1>3, <1>4 DEF Shape, Nests, Expressions

-----------------------------------------------------------------------------
(* Counting. *)

\* There are finitely many frames to count.
LEMMA CountedType ==
  ASSUME NEW n \in Seq(Frames), NEW F, NEW G
  PROVE  /\ IsFiniteSet({i \in DOMAIN n : n[i] \in F /\ \A j \in 1..i : n[j] \notin G})
         /\ Counted(n, F, G) \in Nat
<1>1. Len(n) \in Nat /\ DOMAIN n = 1..Len(n)
  BY LenProperties
<1>2. IsFiniteSet(1..Len(n))
  BY <1>1, FS_Interval
<1>3. IsFiniteSet({i \in DOMAIN n : n[i] \in F /\ \A j \in 1..i : n[j] \notin G})
  BY <1>1, <1>2, FS_Subset
<1> QED
  BY <1>3, FS_CardinalityType DEF Counted

\* No frame of the kind: none are counted.
LEMMA CountedNone ==
  ASSUME NEW n \in Seq(Frames), NEW F, NEW G, \A i \in DOMAIN n : n[i] \notin F
  PROVE  Counted(n, F, G) = 0
<1>1. {i \in DOMAIN n : n[i] \in F /\ \A j \in 1..i : n[j] \notin G} = {}
  OBVIOUS
<1> QED
  BY <1>1, FS_EmptySet DEF Counted

\* A frame of the kind outside all of G: it is counted.
LEMMA CountedSome ==
  ASSUME NEW n \in Seq(Frames), NEW F, NEW G, NEW i \in DOMAIN n, n[i] \in F,
         \A j \in 1..i : n[j] \notin G
  PROVE  Counted(n, F, G) > 0
<1> DEFINE C == {k \in DOMAIN n : n[k] \in F /\ \A j \in 1..k : n[j] \notin G}
<1>1. i \in C
  OBVIOUS
<1>2. IsFiniteSet(C) /\ Cardinality(C) \in Nat
  BY CountedType DEF Counted
<1>3. Cardinality(C) # 0
  BY <1>1, <1>2, FS_EmptySet
<1> QED
  BY <1>2, <1>3 DEF Counted

\* Opening a frame counts if it is of the kind and nothing of G is open.
LEMMA CountedPush ==
  ASSUME NEW n \in Seq(Frames), NEW f \in Frames, NEW F, NEW G
  PROVE  Counted(Append(n, f), F, G) =
           IF f \in F \ G /\ \A i \in DOMAIN n : n[i] \notin G
             THEN Counted(n, F, G) + 1 ELSE Counted(n, F, G)
<1> DEFINE a == Append(n, f)
           C == {k \in DOMAIN n : n[k] \in F /\ \A j \in 1..k : n[j] \notin G}
           D == {k \in DOMAIN a : a[k] \in F /\ \A j \in 1..k : a[j] \notin G}
           z == Len(n) + 1
<1>1. /\ Len(n) \in Nat /\ DOMAIN n = 1..Len(n) /\ DOMAIN a = 1..z
      /\ \A i \in DOMAIN n : a[i] = n[i]
      /\ a[z] = f
  BY Push
<1>2. IsFiniteSet(C)
  BY CountedType
<1>3. z \notin C
  BY <1>1
<1> HIDE DEF a
<1>4. ASSUME NEW k \in DOMAIN n PROVE k \in D <=> k \in C
  <2>1. \A j \in 1..k : a[j] = n[j]
    BY <1>1
  <2> QED
    BY <1>1, <2>1
<1>5. z \in D <=> f \in F \ G /\ \A i \in DOMAIN n : n[i] \notin G
  BY <1>1
<1>6. \A k \in 1..z : k \in DOMAIN n \/ k = z
  BY <1>1
<1>7. CASE f \in F \ G /\ \A i \in DOMAIN n : n[i] \notin G
  <2>1. D = C \cup {z}
    BY <1>1, <1>4, <1>5, <1>6, <1>7
  <2> QED
    BY <1>2, <1>3, <1>7, <2>1, FS_AddElement DEF Counted, a
<1>8. CASE ~(f \in F \ G /\ \A i \in DOMAIN n : n[i] \notin G)
  <2>1. D = C
    BY <1>1, <1>4, <1>5, <1>6, <1>8
  <2> QED
    BY <1>8, <2>1 DEF Counted, a
<1> QED
  BY <1>7, <1>8

-----------------------------------------------------------------------------
(* What the parsers have in common. *)

Reads(m, from, n, a) ==
  /\ InStep(m, from) /\ n = nest /\ a = at
  /\ token \notin NewDelimiter \cup {"none", "eof"}
  /\ Parse(token') /\ ended' = ahead.ends /\ dialect' = dialect
  /\ delimiter' = delimiter \/ Rested(n, a)
  /\ WriterOK' /\ Wrote(n, a)' /\ HeadsShort' /\ CountHeadWords

\* Whatever token follows, the block tracking of each parser keeps its fields' types.
LEMMA BlocksTyped ==
  ASSUME ContextTyped, dialect \in Dialects, NEW next
  PROVE  Blocks(next) \in [depth : Nat, initiator : {"none", "ATOMIC", "CASE"}, program : BOOLEAN]
<1> DEFINE T == [depth : Nat, initiator : {"none", "ATOMIC", "CASE"}, program : BOOLEAN]
<1> USE DEF ContextTyped, Level
<1>1. PostgresBlocks(next) \in T
  <2>1. ASSUME NEW i \in {"ATOMIC", "CASE"}
        PROVE  [Level(1, TRUE) EXCEPT !.initiator = i] \in T
    <3>1. Level(1, TRUE) \in T /\ i \in {"none", "ATOMIC", "CASE"}
      OBVIOUS
    <3> QED
      BY <3>1
  <2>2. depth > 0 => Level(-1, program /\ initiator # "ATOMIC") \in T
    OBVIOUS
  <2>3. Level(0, program) \in T
    OBVIOUS
  <2> QED
    BY <2>1, <2>2, <2>3 DEF PostgresBlocks
<1>2. MySqlBlocks(next) \in T
  BY DEF MySqlBlocks, StoredProgram
<1>3. SqlServerBlocks(next) \in T
  BY DEF SqlServerBlocks
<1>4. OracleBlocks(next) \in T
  BY DEF OracleBlocks, StartsPlSql
<1>5. SqliteBlocks(next) \in T
  BY DEF SqliteBlocks
<1> QED
  BY ScriptAssumption, <1>1, <1>2, <1>3, <1>4, <1>5 DEF Blocks

\* The last tokens that MySQL's and Oracle's parsers remember.
LEMMA RememberedTyped ==
  ASSUME before \in Seq(Tokens), Len(before) <= 2, token \in Tokens
  PROVE  /\ Remembered \in Seq(Tokens) /\ Len(Remembered) <= 2 /\ Remembered # <<>>
         /\ Last(Remembered) = token /\ token \in ToSet(Remembered)
<1>1. CASE Len(before) < 2
  <2>1. /\ Append(before, token) \in Seq(Tokens) /\ Append(before, token) # <<>>
        /\ Len(Append(before, token)) = Len(before) + 1
        /\ Append(before, token)[Len(before) + 1] = token
        /\ Len(before) \in Nat
        /\ DOMAIN Append(before, token) = 1..(Len(before) + 1)
    BY AppendProperties, LenProperties
  <2>2. Remembered = Append(before, token)
    BY <1>1 DEF Remembered
  <2>3. Len(before) + 1 \in DOMAIN Append(before, token)
    BY <2>1
  <2> QED
    BY <1>1, <2>1, <2>2, <2>3 DEF Last, ToSet
<1>2. CASE ~(Len(before) < 2)
  <2>1. Len(before) \in Nat
    BY LenProperties
  <2>2. before[2] \in Tokens
    BY <1>2, <2>1, ElementOfSeq
  <2>3. Remembered = <<before[2], token>>
    BY <1>2 DEF Remembered
  <2>4. /\ <<before[2], token>> \in Seq(Tokens) /\ Len(<<before[2], token>>) = 2
        /\ <<before[2], token>> # <<>> /\ <<before[2], token>>[2] = token
        /\ 2 \in DOMAIN <<before[2], token>>
    BY <2>2
  <2> QED
    BY <2>3, <2>4 DEF Last, ToSet
<1> QED
  BY <1>1, <1>2

LEMMA SinceTyped ==
  /\ OutOfReach \in Nat /\ MaxKeywordLookback \in Nat /\ NewOracle.since \in Nat
  /\ oracle.since \in Nat => SinceLoopHead \in Nat
BY ScriptAssumption DEF OutOfReach, NewOracle, SinceLoopHead, LookBack

\* A parser that cuts at the ends only remembers what it needs to remember.
LEMMA Common ==
  ASSUME NEW m, NEW from, NEW n, NEW a, Reads(m, from, n, a), split' <=> ahead.ends
  PROVE  ContextTyped' /\ Memory(a)' /\ (open' <=> ~Rested(n, a))
<1> USE DEF Reads, InStep
<1> DEFINE b == Blocks(token')
           cut == StatementEnd(b.depth)
           fresh == cut /\ dialect \in {"mysql", "oracle"}
<1>1. /\ split' = cut /\ open' = ~cut
      /\ depth' = IF fresh THEN 0 ELSE b.depth
      /\ initiator' = IF fresh THEN "none" ELSE b.initiator
      /\ program' = (b.program /\ ~fresh)
      /\ before' = IF fresh THEN <<>> ELSE Remembered
      /\ parens' = IF fresh THEN 0 ELSE ParensDepth
      /\ cases' = IF dialect = "sqlite" THEN SqliteCases ELSE cases
      /\ oracle' = IF fresh \/ dialect # "oracle" THEN NewOracle ELSE OracleNotes
  BY DEF Parse
<1>2. b \in [depth : Nat, initiator : {"none", "ATOMIC", "CASE"}, program : BOOLEAN]
  BY BlocksTyped DEF Agree, WriterOK
<1>3. cut \in BOOLEAN
  BY DEF StatementEnd
<1> HIDE DEF b, cut
<1>4. /\ Remembered \in Seq(Tokens) /\ Len(Remembered) <= 2 /\ Remembered # <<>>
      /\ Last(Remembered) = token /\ token \in ToSet(Remembered)
  BY RememberedTyped DEF Agree, ContextTyped, Wrote
<1>5. ContextTyped'
  <2>1. parens' \in Nat /\ cases' \in Nat
    BY <1>1 DEF Agree, ContextTyped, ParensDepth, SqliteCases
  <2>2. depth' \in Nat /\ initiator' \in {"none", "ATOMIC", "CASE"} /\ program' \in BOOLEAN
    BY <1>1, <1>2
  <2>3. open' \in BOOLEAN
    BY <1>1, <1>3
  <2>4. before' \in Seq(Tokens) /\ Len(before') <= 2
    BY <1>1, <1>4, EmptySeq
  <2>5. oracle' \in [package : BOOLEAN, declaration : BOOLEAN, create : BOOLEAN, since : Nat,
                     seen : SUBSET {"PACKAGE", "PROCEDURE"}]
    BY <1>1, SinceTyped DEF Agree, ContextTyped, NewOracle, OracleNotes, EntersPackage,
       EntersDeclarations
  <2> QED
    BY <2>1, <2>2, <2>3, <2>4, <2>5 DEF ContextTyped
<1>6. Rested(n, a) <=> ahead.ends
  BY DEF WriterOK
<1>7. cut <=> ahead.ends
  BY <1>1
<1>8. Memory(a)'
  <2>1. Previous' = IF fresh THEN "none" ELSE token
    BY <1>1, <1>4 DEF Previous
  <2>2. fresh => a = "start"
    BY <1>6, <1>7 DEF Rested
  <2>3. /\ a \in AfterEnd => token = "END"
        /\ a = "create" => token = "CREATE"
        /\ a = "atomic" => token = "BEGIN"
        /\ a = "compound" => token = "COMPOUND"
        /\ a \in {"start", "mid"} /\ dialect = "mysql" => token # "END"
    BY DEF WriterOK, Placed
  <2>4. a = "create" => before' = Remembered
    BY <1>1, <2>2
  <2> QED
    BY <1>4, <2>1, <2>2, <2>3, <2>4 DEF Memory, AfterEnd
<1> QED
  BY <1>1, <1>5, <1>6, <1>7, <1>8

\* A control statement, a block or a unit is outermost where a semicolon does
\* not end the statement.
LEMMA Outermost ==
  ASSUME NEW m, Shape(m), m # <<>>, Last(m) \notin Expressions
  PROVE  /\ 1 \in DOMAIN m /\ m[1] = IF dialect = "oracle" THEN "unit" ELSE "block"
         /\ Holds(m, IF dialect = "oracle" THEN "unit" ELSE "block")
         /\ \A i \in DOMAIN m : m[i] \notin Expressions
<1>1. \A i \in DOMAIN m : m[i] \notin Expressions
  BY NoExpressions
<1>2. m \in Seq(Frames)
  BY DEF Shape
<1>3. 1 \in DOMAIN m
  BY <1>2, LenProperties, EmptySeq
<1>4. m[1] = IF dialect = "oracle" THEN "unit" ELSE "block"
  BY <1>1, <1>3 DEF Shape, Possible, Expressions
<1> QED
  BY <1>1, <1>3, <1>4 DEF Holds

-----------------------------------------------------------------------------
(* PostgreSQL, SQLite and SQL Server: blocks, CASEs and parentheses only. *)

Simple == {"postgresql", "sqlite", "sqlserver"}

\* In these dialects only blocks, CASEs and parentheses are open.
LEMMA SimpleFrames ==
  ASSUME NEW r \in Seq(Frames), NEW f \in Frames, dialect \in Simple, Shape(Append(r, f))
  PROVE  f \in {"block", "(", "case"}
<1>1. Possible(f, Len(r) + 1)
  BY ShapePop
<1>2. f \in FramesOfDialect
  BY <1>1 DEF Possible
<1> QED
  BY <1>2 DEF Simple, FramesOfDialect

\* What each token opens or closes in these dialects.
LEMMA SimpleChanges ==
  ASSUME NEW m, NEW from, dialect \in Simple, WriterOK, Wrote(m, from)
  PROVE  /\ token = "(" => Opened(m, "(")
         /\ token = ")" => Closed(m, "(")
         /\ token = "CASE" => Opened(m, "case")
         /\ token = "BEGIN" =>
              \/ dialect = "postgresql" /\ Kept(m)
              \/ dialect = "sqlite" /\ m = <<>> /\ Opened(m, "block")
              \/ dialect = "sqlserver" /\ at # "tran" /\ Opened(m, "block")
              \/ dialect = "sqlserver" /\ at = "tran" /\ Kept(m)
         /\ token = "ATOMIC" => dialect = "postgresql" /\ m = <<>> /\ Opened(m, "block")
         /\ token = "END" =>
              \/ Closed(m, "case") \/ Closed(m, "block")
              \/ m = <<>> /\ nest = <<>> /\ dialect # "sqlserver"
         /\ token \notin {"(", ")", "CASE", "BEGIN", "ATOMIC", "END"} => Kept(m)
<1> USE DEF Simple
<1>1. m \in Seq(Frames) /\ nest \in Seq(Frames) /\ Shape(m) /\ Shape(nest)
  BY DEF WriterOK, Wrote, Shape
<1>2. \A r \in Seq(Frames), f \in Frames : m = Append(r, f) \/ nest = Append(r, f) =>
                                             f \in {"block", "(", "case"}
  BY <1>1, SimpleFrames
<1>4. \A f \in Frames : Opened(m, f) \/ Closed(m, f) => f \in {"block", "(", "case"}
  BY <1>1, <1>2 DEF Opened, Closed
<1>5. at \notin UnitHead /\ from \notin UnitHead \cup AfterEnd
  <2>1. m # <<"unit">>
    <3>1. <<"unit">> = Append(<<>>, "unit") /\ <<>> \in Seq(Frames) /\ "unit" \in Frames
      BY Given DEF Frames
    <3> QED
      BY <1>2, <3>1
  <2> QED
    BY <2>1 DEF WriterOK, Placed, Wrote, Changed
<1>6. Changed(m, from)
  BY DEF Wrote
<1>7. token = "(" => Opened(m, "(")
  BY <1>5, <1>6 DEF Changed, UnitHead
<1>8. token = ")" => Closed(m, "(")
  BY <1>5, <1>6 DEF Changed, UnitHead
<1>9. token = "CASE" => Opened(m, "case")
  <2>1. ~Opened(m, "case-head")
    BY <1>1, <1>2, EachFrame DEF Opened
  <2> QED
    BY <1>5, <1>6, <2>1 DEF Changed, AfterEnd
<1>10. token = "BEGIN" =>
          \/ dialect = "postgresql" /\ Kept(m)
          \/ dialect = "sqlite" /\ m = <<>> /\ Opened(m, "block")
          \/ dialect = "sqlserver" /\ at # "tran" /\ Opened(m, "block")
          \/ dialect = "sqlserver" /\ at = "tran" /\ Kept(m)
  BY <1>6 DEF Changed, WroteBegin, Wrote
<1>11. token = "ATOMIC" => dialect = "postgresql" /\ m = <<>> /\ Opened(m, "block")
  BY <1>6 DEF Changed, Wrote
<1>12. token = "END" =>
          \/ Closed(m, "case") \/ Closed(m, "block")
          \/ m = <<>> /\ nest = <<>> /\ dialect # "sqlserver"
  <2>1. \A f \in Control \cup {"initialization"} \cup Declarations : ~Closed(m, f)
    BY <1>4 DEF Frames, Control, Declarations
  <2> QED
    BY <1>6, <2>1 DEF Changed, WroteEnd
<1>13. token \notin {"(", ")", "CASE", "BEGIN", "ATOMIC", "END"} => Kept(m)
  <2>1. ~Opened(m, "if-head") /\ ~Opened(m, "loop") /\ ~Opened(m, "repeat")
    BY <1>1, <1>2, EachFrame DEF Opened
  <2>2. ~Turned(m, "loop-head", "loop") /\ ~Turned(m, "if-head", "if")
          /\ ~Turned(m, "case-head", "case-statement")
    BY <1>2, EachFrame DEF Turned
  <2>3. token \in Tokens
    BY DEF Wrote
  <2> QED
    BY <1>6, <2>1, <2>2, <2>3 DEF Changed, Tokens, Neutral
<1> QED
  BY <1>7, <1>8, <1>9, <1>10, <1>11, <1>12, <1>13

\* They cut at the semicolons outside what they count, and at GO.
LEMMA SimpleEnds ==
  ASSUME NEW m, NEW from, NEW d, dialect \in Simple, WriterOK, Wrote(m, from),
         token \notin {"none", "eof"},
         token = "semi" => IF m = <<>> THEN d = 0 ELSE Last(m) \notin Expressions => d # 0
  PROVE  StatementEnd(d) <=> ahead.ends
<1>1. delimiter = "semi" /\ Ends(m, from) /\ ahead.ends \in BOOLEAN
  BY DEF WriterOK, Wrote, Simple
<1>2. StatementEnd(d) <=> (token = "semi" /\ d = 0) \/ token = "GO"
  BY <1>1 DEF StatementEnd, Simple
<1>3. CASE token = "semi"
  BY <1>1, <1>2, <1>3 DEF Ends
<1>4. CASE token # "semi"
  <2>1. token = "GO" => ahead.ends
    BY <1>1 DEF Ends
  <2>2. ahead.ends => token = "GO"
    BY <1>1, <1>4 DEF Ends, Wrote, Changed, Simple
  <2> QED
    BY <1>2, <1>4, <2>1, <2>2
<1> QED
  BY <1>3, <1>4

\* Opening a frame counts if it is of the kind.
LEMMA CountPush ==
  ASSUME NEW n \in Seq(Frames), NEW f \in Frames, NEW F
  PROVE  /\ Count(n, F) \in Nat
         /\ Count(Append(n, f), F) = IF f \in F THEN Count(n, F) + 1 ELSE Count(n, F)
<1>1. Counted(n, F, {}) \in Nat
  BY CountedType
<1>2. Counted(Append(n, f), F, {}) = IF f \in F THEN Counted(n, F, {}) + 1 ELSE Counted(n, F, {})
  BY CountedPush
<1> QED
  BY <1>1, <1>2 DEF Count

\* Nothing is counted where nothing is open.
LEMMA CountEmpty == \A F : Count(<<>>, F) = 0
<1> SUFFICES ASSUME NEW F PROVE Count(<<>>, F) = 0
  OBVIOUS
<1>1. <<>> \in Seq(Frames) /\ \A i \in DOMAIN <<>> : <<>>[i] \notin F
  BY Given
<1> QED
  BY <1>1, CountedNone DEF Count

\* A frame of the kind is counted.
LEMMA CountSome ==
  ASSUME NEW n \in Seq(Frames), NEW f, NEW F, f \in F, Holds(n, f)
  PROVE  Count(n, F) # 0
<1>1. PICK i \in DOMAIN n : n[i] = f
  BY DEF Holds
<1>2. Counted(n, F, {}) > 0 /\ Counted(n, F, {}) \in Nat
  BY <1>1, CountedSome, CountedType
<1> QED
  BY <1>2 DEF Count

\* A frame that can only be the first.
LEMMA Bottom ==
  ASSUME NEW n \in Seq(Frames), NEW f \in Frames, Shape(Append(n, f)),
         \/ f = "unit"
         \/ f = "block" /\ dialect \in {"postgresql", "sqlite"}
  PROVE  n = <<>>
<1>1. Len(n) + 1 = 1 /\ Len(n) \in Nat
  BY ShapePop, LenProperties DEF Possible
<1> QED
  BY <1>1, EmptySeq

\* What a parser does that does not forget the statement it has cut off.
LEMMA SimpleParse ==
  ASSUME NEW next, Parse(next), dialect \in Simple, WriterOK, ContextTyped
  PROVE  /\ split' = StatementEnd(Blocks(next).depth) /\ depth' = Blocks(next).depth
         /\ initiator' = Blocks(next).initiator /\ program' = Blocks(next).program
         /\ cases' = IF dialect = "sqlite" THEN SqliteCases ELSE cases
<1> DEFINE b == Blocks(next)
<1>1. b.program \in BOOLEAN
  BY BlocksTyped DEF WriterOK
<1> HIDE DEF b
<1>2. /\ split' = StatementEnd(b.depth) /\ depth' = b.depth
      /\ initiator' = b.initiator /\ program' = b.program
      /\ cases' = IF dialect = "sqlite" THEN SqliteCases ELSE cases
  BY <1>1 DEF Parse, Simple, b
<1> QED
  BY <1>2 DEF b

\* What PostgreSQL's parser does with each token, by its fields.
LEMMA PostgresFields ==
  ASSUME NEW next, ContextTyped, NEW b, b = PostgresBlocks(next)
  PROVE  /\ token = "ATOMIC" /\ Previous = "BEGIN" =>
              b.depth = depth + 1 /\ b.initiator = "ATOMIC" /\ b.program = TRUE
         /\ token = "CASE" /\ program =>
              b.depth = depth + 1 /\ b.initiator = "CASE" /\ b.program = TRUE
         /\ token = "END" /\ depth > 0 /\ initiator \in {"ATOMIC", "CASE"} =>
              /\ b.depth = depth - 1 /\ b.initiator = initiator
              /\ b.program = (program /\ initiator # "ATOMIC")
         /\ (\/ token \notin {"ATOMIC", "CASE", "END"}
             \/ token = "CASE" /\ ~program
             \/ token = "END" /\ depth = 0) =>
              b.depth = depth /\ b.initiator = initiator /\ b.program = program
<1>1. CASE token = "ATOMIC" /\ Previous = "BEGIN"
  <2>1. b = [Level(1, TRUE) EXCEPT !.initiator = "ATOMIC"]
    BY <1>1 DEF PostgresBlocks
  <2> QED
    BY <1>1, <2>1 DEF Level
<1>2. CASE token = "CASE" /\ program
  <2>1. b = [Level(1, TRUE) EXCEPT !.initiator = "CASE"]
    BY <1>2 DEF PostgresBlocks
  <2> QED
    BY <1>2, <2>1 DEF Level
<1>3. CASE token = "END" /\ depth > 0 /\ initiator \in {"ATOMIC", "CASE"}
  <2>1. b = Level(-1, program /\ initiator # "ATOMIC")
    BY <1>3 DEF PostgresBlocks
  <2> QED
    BY <1>3, <2>1 DEF Level, ContextTyped
<1>4. CASE \/ token \notin {"ATOMIC", "CASE", "END"}
           \/ token = "CASE" /\ ~program
           \/ token = "END" /\ depth = 0
  <2>1. /\ ~(token = "ATOMIC" /\ Previous = "BEGIN")
        /\ ~(token = "CASE" /\ program)
        /\ ~(token = "END" /\ depth > 0 /\ initiator \in {"ATOMIC", "CASE"})
    BY <1>4
  <2>2. b = Level(0, program)
    BY <2>1 DEF PostgresBlocks
  <2>3. b.depth = depth + 0 /\ b.initiator = initiator /\ b.program = program
    BY <2>2 DEF Level
  <2> QED
    BY <1>4, <2>3 DEF ContextTyped
<1> QED
  BY <1>1, <1>2, <1>3, <1>4

\* PostgreSQL's parser cuts as the writer ends, and stays in step.
LEMMA PostgresStep ==
  ASSUME NEW m, NEW from, NEW n, NEW a, Reads(m, from, n, a), dialect = "postgresql"
  PROVE  (split' <=> ahead.ends) /\ AgreePostgres(n)'
<1> DEFINE b == PostgresBlocks(token')
           F == {"block", "case"}
<1>1. /\ WriterOK /\ Wrote(m, from) /\ ContextTyped /\ AgreePostgres(m) /\ Memory(from)
      /\ token \notin {"none", "eof"} /\ n = nest /\ dialect \in Simple
  BY DEF Reads, InStep, Agree, Simple
<1>2. /\ split' = StatementEnd(b.depth) /\ depth' = b.depth
      /\ initiator' = b.initiator /\ program' = b.program
  <2>1. Blocks(token') = b
    BY DEF Blocks
  <2> QED
    BY <1>1, <2>1, SimpleParse DEF Reads
<1>3. m \in Seq(Frames) /\ n \in Seq(Frames) /\ Shape(m) /\ Shape(n)
  BY <1>1 DEF WriterOK, Wrote, Shape
<1> HIDE DEF F
<1>4. /\ Count(m, F) \in Nat /\ Count(n, F) \in Nat
      /\ \A f \in Frames :
           /\ Count(Append(m, f), F) = IF f \in F THEN Count(m, F) + 1 ELSE Count(m, F)
           /\ Count(Append(n, f), F) = IF f \in F THEN Count(n, F) + 1 ELSE Count(n, F)
  <2>1. ASSUME NEW r \in Seq(Frames), NEW f \in Frames
        PROVE  /\ Count(r, F) \in Nat
               /\ Count(Append(r, f), F) = IF f \in F THEN Count(r, F) + 1 ELSE Count(r, F)
    BY CountPush
  <2> QED
    BY <1>3, <2>1, EachFrame
<1>5. \A f \in Frames : \A g : /\ Holds(Append(m, f), g) <=> Holds(m, g) \/ g = f
                               /\ Holds(Append(n, f), g) <=> Holds(n, g) \/ g = f
  BY <1>3, HoldsPush
<1>6. /\ ~Holds(<<>>, "block") /\ ~Holds(<<>>, "case") /\ Count(<<>>, F) = 0
  BY Given, CountEmpty DEF Holds
<1>7. /\ token = "(" => n = Append(m, "(")
      /\ token = ")" => m = Append(n, "(")
      /\ token = "CASE" => n = Append(m, "case")
      /\ token = "ATOMIC" => m = <<>> /\ n = Append(m, "block")
      /\ token = "END" => m = Append(n, "case") \/ m = Append(n, "block") \/ (m = <<>> /\ n = <<>>)
      /\ token \notin {"(", ")", "CASE", "ATOMIC", "END"} => n = m
  BY <1>1, SimpleChanges DEF Opened, Closed, Kept
<1>8. token = "ATOMIC" => Previous = "BEGIN"
  BY <1>1 DEF Wrote, Changed, Memory
<1>9. m = Append(n, "block") => n = <<>>
  BY <1>1, <1>3, Bottom, EachFrame
<1>10. {"(", "case", "block"} \subseteq Frames /\ F = {"block", "case"}
  BY EachFrame DEF F
<1>11. /\ token = "ATOMIC" /\ Previous = "BEGIN" =>
            b.depth = depth + 1 /\ b.initiator = "ATOMIC" /\ b.program = TRUE
       /\ token = "CASE" /\ program =>
            b.depth = depth + 1 /\ b.initiator = "CASE" /\ b.program = TRUE
       /\ token = "END" /\ depth > 0 /\ initiator \in {"ATOMIC", "CASE"} =>
            /\ b.depth = depth - 1 /\ b.initiator = initiator
            /\ b.program = (program /\ initiator # "ATOMIC")
       /\ (\/ token \notin {"ATOMIC", "CASE", "END"}
           \/ token = "CASE" /\ ~program
           \/ token = "END" /\ depth = 0) =>
            b.depth = depth /\ b.initiator = initiator /\ b.program = program
  BY <1>1, PostgresFields
<1> HIDE DEF b
<1>14. /\ Count(Append(m, "("), F) = Count(m, F) /\ Count(Append(n, "("), F) = Count(n, F)
       /\ Count(Append(m, "case"), F) = Count(m, F) + 1
       /\ Holds(Append(m, "("), "block") <=> Holds(m, "block")
       /\ Holds(Append(n, "("), "block") <=> Holds(n, "block")
       /\ Holds(Append(m, "("), "case") <=> Holds(m, "case")
       /\ Holds(Append(n, "("), "case") <=> Holds(n, "case")
       /\ Holds(Append(m, "case"), "block") <=> Holds(m, "block")
  <2>1. "(" \notin F /\ "case" \in F
    BY <1>10
  <2>2. "(" \in Frames /\ "case" \in Frames
    BY <1>10
  <2> QED
    BY <1>4, <1>5, <2>1, <2>2
<1>12. AgreePostgres(n)'
  <2> SUFFICES /\ b.depth = IF b.program THEN Count(n, F) ELSE 0
               /\ b.program => b.initiator \in {"ATOMIC", "CASE"}
               /\ Holds(n, "block") => b.program
               /\ Holds(n, "case") /\ b.program => b.initiator = "CASE"
    BY <1>2, <1>10 DEF AgreePostgres
  <2>0. /\ depth = IF program THEN Count(m, F) ELSE 0
        /\ program => initiator \in {"ATOMIC", "CASE"}
        /\ Holds(m, "block") => program
        /\ Holds(m, "case") /\ program => initiator = "CASE"
        /\ program \in BOOLEAN /\ depth \in Nat
    BY <1>1, <1>10 DEF AgreePostgres, ContextTyped
  <2>1. CASE token = "ATOMIC"
    BY <1>4, <1>5, <1>6, <1>7, <1>8, <1>10, <1>11, <2>0, <2>1
  <2>2. CASE token = "CASE"
    <3>1. /\ n = Append(m, "case") /\ Count(n, F) = Count(m, F) + 1
          /\ Holds(n, "block") <=> Holds(m, "block")
      BY <1>7, <1>14, <2>2
    <3>2. CASE program
      BY <1>4, <1>11, <2>0, <2>2, <3>1, <3>2
    <3>3. CASE ~program
      BY <1>11, <2>0, <2>2, <3>1, <3>3
    <3> QED
      BY <3>2, <3>3
  <2>3. CASE token = "END" /\ m = Append(n, "case")
    BY <1>4, <1>5, <1>7, <1>10, <1>11, <2>0, <2>3
  <2>4. CASE token = "END" /\ m = Append(n, "block")
    BY <1>4, <1>5, <1>6, <1>7, <1>9, <1>10, <1>11, <2>0, <2>4
  <2>5. CASE token = "END" /\ m = <<>> /\ n = <<>>
    BY <1>4, <1>6, <1>10, <1>11, <2>0, <2>5
  <2>6. CASE token \notin {"ATOMIC", "CASE", "END"}
    <3>1. /\ Count(n, F) = Count(m, F)
          /\ Holds(n, "block") <=> Holds(m, "block")
          /\ Holds(n, "case") <=> Holds(m, "case")
      BY <1>7, <1>14, <2>6
    <3>2. b.depth = depth /\ b.initiator = initiator /\ b.program = program
      BY <1>11, <2>6
    <3> QED
      BY <2>0, <3>1, <3>2
  <2> QED
    BY <1>7, <2>1, <2>2, <2>3, <2>4, <2>5, <2>6
<1>13. token = "semi" => IF m = <<>> THEN b.depth = 0 ELSE Last(m) \notin Expressions => b.depth # 0
  <2> SUFFICES ASSUME token = "semi"
               PROVE  IF m = <<>> THEN b.depth = 0 ELSE Last(m) \notin Expressions => b.depth # 0
    OBVIOUS
  <2>1. b.depth = depth
    BY <1>11
  <2>2. m = <<>> => depth = 0
    BY <1>1, <1>6, <1>10 DEF AgreePostgres
  <2>3. ASSUME m # <<>>, Last(m) \notin Expressions PROVE depth # 0
    <3>1. Holds(m, "block")
      BY <1>3, <2>3, Outermost
    <3>2. Count(m, F) # 0
      BY <1>3, <1>10, <3>1, CountSome
    <3> QED
      BY <1>1, <1>10, <3>1, <3>2 DEF AgreePostgres
  <2> QED
    BY <2>1, <2>2, <2>3
<1> QED
  BY <1>1, <1>2, <1>12, <1>13, SimpleEnds

\* What SQLite's parser does with each token, by its fields.
LEMMA SqliteFields ==
  ASSUME ContextTyped, NEW next, NEW b, b = SqliteBlocks(next)
  PROVE  /\ token = "BEGIN" => b.depth = depth + 1 /\ b.program = TRUE
         /\ token = "END" /\ cases = 0 /\ depth <= 1 => b.depth = 0 /\ b.program = FALSE
         /\ (token \notin {"BEGIN", "END"} \/ (token = "END" /\ cases # 0)) =>
              b.depth = depth /\ b.program = program
<1>1. CASE token = "BEGIN"
  <2>1. b = Level(1, TRUE)
    BY <1>1 DEF SqliteBlocks
  <2> QED
    BY <1>1, <2>1 DEF Level
<1>2. CASE token = "END" /\ cases = 0
  <2>1. b = IF depth > 1 THEN Level(-1, program) ELSE Level(-depth, FALSE)
    BY <1>2 DEF SqliteBlocks
  <2>2. depth <= 1 => b = Level(-depth, FALSE)
    <3>1. depth <= 1 => ~(depth > 1)
      BY DEF ContextTyped
    <3> QED
      BY <2>1, <3>1
  <2>3. depth <= 1 => b.depth = depth + (-depth) /\ b.program = FALSE
    BY <2>2 DEF Level
  <2> QED
    BY <1>2, <2>3 DEF ContextTyped
<1>3. CASE token \notin {"BEGIN", "END"} \/ (token = "END" /\ cases # 0)
  <2>1. ~(token = "BEGIN") /\ ~(token = "END" /\ cases = 0)
    BY <1>3
  <2>2. b = Level(0, program)
    BY <2>1 DEF SqliteBlocks
  <2>3. b.depth = depth + 0 /\ b.program = program
    BY <2>2 DEF Level
  <2> QED
    BY <2>1, <2>3 DEF ContextTyped
<1> QED
  BY <1>1, <1>2, <1>3

\* SQLite's parser cuts as the writer ends, and stays in step.
LEMMA SqliteStep ==
  ASSUME NEW m, NEW from, NEW n, NEW a, Reads(m, from, n, a), dialect = "sqlite"
  PROVE  (split' <=> ahead.ends) /\ AgreeSqlite(n)'
<1> DEFINE b == SqliteBlocks(token')
           F == {"case"}
<1>1. /\ WriterOK /\ Wrote(m, from) /\ ContextTyped /\ AgreeSqlite(m)
      /\ token \notin {"none", "eof"} /\ n = nest /\ dialect \in Simple
  BY DEF Reads, InStep, Agree, Simple
<1>2. /\ split' = StatementEnd(b.depth) /\ depth' = b.depth
      /\ program' = b.program /\ cases' = SqliteCases
  <2>1. Blocks(token') = b
    BY DEF Blocks
  <2> QED
    BY <1>1, <2>1, SimpleParse DEF Reads
<1>3. m \in Seq(Frames) /\ n \in Seq(Frames) /\ Shape(m) /\ Shape(n)
  BY <1>1 DEF WriterOK, Wrote, Shape
<1> HIDE DEF F
<1>4. {"(", "case", "block"} \subseteq Frames /\ F = {"case"}
  BY EachFrame DEF F
<1>5. /\ Count(m, F) \in Nat /\ Count(n, F) \in Nat
      /\ Count(Append(m, "("), F) = Count(m, F) /\ Count(Append(n, "("), F) = Count(n, F)
      /\ Count(Append(m, "case"), F) = Count(m, F) + 1
      /\ Count(Append(n, "case"), F) = Count(n, F) + 1
      /\ Count(Append(m, "block"), F) = Count(m, F)
      /\ Count(Append(n, "block"), F) = Count(n, F)
  <2>1. ASSUME NEW r \in Seq(Frames), NEW f \in Frames
        PROVE  /\ Count(r, F) \in Nat
               /\ Count(Append(r, f), F) = IF f \in F THEN Count(r, F) + 1 ELSE Count(r, F)
    BY CountPush
  <2>2. "(" \notin F /\ "case" \in F /\ "block" \notin F
    BY <1>4
  <2>3. "(" \in Frames /\ "case" \in Frames /\ "block" \in Frames
    BY <1>4
  <2> QED
    BY <1>3, <2>1, <2>2, <2>3
<1>6. /\ Holds(Append(m, "("), "block") <=> Holds(m, "block")
      /\ Holds(Append(n, "("), "block") <=> Holds(n, "block")
      /\ Holds(Append(m, "case"), "block") <=> Holds(m, "block")
      /\ Holds(Append(n, "case"), "block") <=> Holds(n, "block")
      /\ Holds(Append(m, "block"), "block") /\ Holds(Append(n, "block"), "block")
  <2>1. \A f \in Frames : \A g : /\ Holds(Append(m, f), g) <=> Holds(m, g) \/ g = f
                                 /\ Holds(Append(n, f), g) <=> Holds(n, g) \/ g = f
    BY <1>3, HoldsPush
  <2>2. "(" \in Frames /\ "case" \in Frames /\ "block" \in Frames
    BY <1>4
  <2> QED
    BY <2>1, <2>2
<1>7. ~Holds(<<>>, "block") /\ Count(<<>>, F) = 0
  BY Given, CountEmpty DEF Holds
<1>8. /\ token = "(" => n = Append(m, "(")
      /\ token = ")" => m = Append(n, "(")
      /\ token = "CASE" => n = Append(m, "case")
      /\ token = "BEGIN" => m = <<>> /\ n = Append(m, "block")
      /\ token = "END" => m = Append(n, "case") \/ m = Append(n, "block") \/ (m = <<>> /\ n = <<>>)
      /\ token \notin {"(", ")", "CASE", "BEGIN", "END"} => n = m
  <2>1. token # "ATOMIC"
    BY <1>1, SimpleChanges
  <2> QED
    BY <1>1, <2>1, SimpleChanges DEF Opened, Closed, Kept
<1>9. m = Append(n, "block") => n = <<>>
  BY <1>1, <1>3, Bottom, EachFrame
<1>10. /\ token = "BEGIN" => b.depth = depth + 1 /\ b.program = TRUE
       /\ token = "END" /\ cases = 0 /\ depth <= 1 => b.depth = 0 /\ b.program = FALSE
       /\ (token \notin {"BEGIN", "END"} \/ (token = "END" /\ cases # 0)) =>
            b.depth = depth /\ b.program = program
  BY <1>1, SqliteFields
<1>11. /\ token = "CASE" => SqliteCases = IF program THEN cases + 1 ELSE cases
       /\ token = "END" => SqliteCases = IF cases > 0 THEN cases - 1 ELSE cases
       /\ token \notin {"CASE", "END"} => SqliteCases = cases
  BY DEF SqliteCases
<1>12. /\ program <=> Holds(m, "block")
       /\ depth = IF program THEN 1 ELSE 0
       /\ cases = IF program THEN Count(m, F) ELSE 0
       /\ program \in BOOLEAN /\ depth \in Nat /\ cases \in Nat
  BY <1>1, <1>4 DEF AgreeSqlite, ContextTyped
<1> HIDE DEF b
<1>13. AgreeSqlite(n)'
  <2> SUFFICES /\ b.program <=> Holds(n, "block")
               /\ b.depth = IF b.program THEN 1 ELSE 0
               /\ SqliteCases = IF b.program THEN Count(n, F) ELSE 0
    BY <1>2, <1>4 DEF AgreeSqlite
  <2>1. CASE token = "BEGIN"
    BY <1>5, <1>6, <1>7, <1>8, <1>10, <1>11, <1>12, <2>1
  <2>2. CASE token = "CASE"
    BY <1>5, <1>6, <1>8, <1>10, <1>11, <1>12, <2>2
  <2>3. CASE token = "END" /\ m = Append(n, "case")
    <3>1. /\ Count(m, F) = Count(n, F) + 1
          /\ Holds(m, "block") <=> Holds(n, "block")
      BY <1>5, <1>6, <2>3
    <3>2. CASE program
      <4>1. cases = Count(n, F) + 1 /\ cases # 0 /\ cases > 0
        BY <1>5, <1>12, <3>1, <3>2
      <4>2. b.depth = depth /\ b.program = program /\ SqliteCases = cases - 1
        BY <1>10, <1>11, <2>3, <4>1
      <4> QED
        BY <1>5, <1>12, <3>1, <3>2, <4>1, <4>2
    <3>3. CASE ~program
      BY <1>5, <1>10, <1>11, <1>12, <2>3, <3>1, <3>3
    <3> QED
      BY <3>2, <3>3
  <2>4. CASE token = "END" /\ m = Append(n, "block")
    <3>1. Count(m, F) = 0 /\ ~Holds(n, "block") /\ program
      BY <1>5, <1>6, <1>7, <1>9, <1>12, <2>4
    <3> QED
      BY <1>10, <1>11, <1>12, <2>4, <3>1
  <2>5. CASE token = "END" /\ m = <<>> /\ n = <<>>
    BY <1>7, <1>10, <1>11, <1>12, <2>5
  <2>6. CASE token \notin {"BEGIN", "CASE", "END"}
    <3>1. /\ Count(n, F) = Count(m, F)
          /\ Holds(n, "block") <=> Holds(m, "block")
      BY <1>5, <1>6, <1>8, <2>6
    <3>2. b.depth = depth /\ b.program = program /\ SqliteCases = cases
      BY <1>10, <1>11, <2>6
    <3> QED
      BY <1>12, <3>1, <3>2
  <2> QED
    BY <1>8, <2>1, <2>2, <2>3, <2>4, <2>5, <2>6
<1>14. IF m = <<>> THEN depth = 0 ELSE Last(m) \notin Expressions => depth # 0
  <2>1. m = <<>> => depth = 0
    BY <1>7, <1>12
  <2>2. m # <<>> /\ Last(m) \notin Expressions => Holds(m, "block")
    <3>1. dialect # "oracle"
      BY <1>1
    <3> QED
      BY <1>3, <3>1, Outermost
  <2>3. Holds(m, "block") => depth # 0
    BY <1>12
  <2> QED
    BY <2>1, <2>2, <2>3
<1>15. token = "semi" => b.depth = depth
  BY <1>10
<1> QED
  BY <1>1, <1>2, <1>13, <1>14, <1>15, SimpleEnds

\* What SQL Server's parser does with each token, by its fields.
LEMMA SqlServerFields ==
  ASSUME ContextTyped, NEW next, NEW b, b = SqlServerBlocks(next)
  PROVE  b.depth = IF token = "BEGIN" /\ next # "TRAN" THEN depth + 1
                   ELSE IF token = "END" /\ depth > 0 THEN depth - 1 ELSE depth
<1>1. CASE token = "BEGIN" /\ next # "TRAN"
  <2>1. b = Level(1, program)
    BY <1>1 DEF SqlServerBlocks
  <2> QED
    BY <1>1, <2>1 DEF Level
<1>2. CASE token = "END" /\ depth > 0
  <2>1. b = Level(-1, program)
    BY <1>2 DEF SqlServerBlocks
  <2>2. b.depth = depth + (-1)
    BY <2>1 DEF Level
  <2> QED
    BY <1>2, <2>2 DEF ContextTyped
<1>3. CASE ~(token = "BEGIN" /\ next # "TRAN") /\ ~(token = "END" /\ depth > 0)
  <2>1. b = Level(0, program)
    BY <1>3 DEF SqlServerBlocks
  <2>2. b.depth = depth + 0
    BY <2>1 DEF Level
  <2> QED
    BY <1>3, <2>2 DEF ContextTyped
<1> QED
  BY <1>1, <1>2, <1>3

\* No CASE is in a block: END of a CASE comes when nothing is counted.
LEMMA SqlServerStep ==
  ASSUME NEW m, NEW from, NEW n, NEW a, Reads(m, from, n, a), dialect = "sqlserver"
  PROVE  (split' <=> ahead.ends) /\ AgreeSqlServer(n)'
<1> DEFINE b == SqlServerBlocks(token')
           F == {"block"}
<1>1. /\ WriterOK /\ Wrote(m, from) /\ ContextTyped /\ AgreeSqlServer(m)
      /\ token \notin {"none", "eof"} /\ n = nest /\ a = at /\ dialect \in Simple
      /\ Wrote(n, a)' /\ dialect' = "sqlserver"
  BY DEF Reads, InStep, Agree, Simple
<1>2. split' = StatementEnd(b.depth) /\ depth' = b.depth
  <2>1. Blocks(token') = b
    BY DEF Blocks
  <2> QED
    BY <1>1, <2>1, SimpleParse DEF Reads
<1>3. m \in Seq(Frames) /\ n \in Seq(Frames) /\ Shape(m) /\ Shape(n)
  BY <1>1 DEF WriterOK, Wrote, Shape
<1> HIDE DEF F
<1>4. {"(", "case", "block"} \subseteq Frames /\ F = {"block"}
  BY EachFrame DEF F
<1>5. /\ Count(m, F) \in Nat /\ Count(n, F) \in Nat
      /\ Count(Append(m, "("), F) = Count(m, F) /\ Count(Append(n, "("), F) = Count(n, F)
      /\ Count(Append(m, "case"), F) = Count(m, F)
      /\ Count(Append(n, "case"), F) = Count(n, F)
      /\ Count(Append(m, "block"), F) = Count(m, F) + 1
      /\ Count(Append(n, "block"), F) = Count(n, F) + 1
  <2>1. ASSUME NEW r \in Seq(Frames), NEW f \in Frames
        PROVE  /\ Count(r, F) \in Nat
               /\ Count(Append(r, f), F) = IF f \in F THEN Count(r, F) + 1 ELSE Count(r, F)
    BY CountPush
  <2>2. "(" \notin F /\ "case" \notin F /\ "block" \in F
    BY <1>4
  <2>3. "(" \in Frames /\ "case" \in Frames /\ "block" \in Frames
    BY <1>4
  <2> QED
    BY <1>3, <2>1, <2>2, <2>3
<1>6. m = Append(n, "case") => Count(m, F) = 0
  <2> SUFFICES ASSUME m = Append(n, "case") PROVE Count(n, F) = 0
    BY <1>5
  <2>1. \A i \in DOMAIN n : n[i] \notin F
    BY <1>1, <1>3, <1>4, ShapePop DEF Nests
  <2> QED
    BY <1>3, <2>1, CountedNone DEF Count
<1>7. Count(<<>>, F) = 0
  BY CountEmpty
<1>8. /\ token = "(" => n = Append(m, "(")
      /\ token = ")" => m = Append(n, "(")
      /\ token = "CASE" => n = Append(m, "case")
      /\ token = "BEGIN" => n = IF a = "tran" THEN m ELSE Append(m, "block")
      /\ token = "END" => m = Append(n, "case") \/ m = Append(n, "block")
      /\ token \notin {"(", ")", "CASE", "BEGIN", "END"} => n = m
  <2>1. token # "ATOMIC"
    BY <1>1, SimpleChanges
  <2> QED
    BY <1>1, <2>1, SimpleChanges DEF Opened, Closed, Kept
<1>9. token' = "TRAN" <=> a = "tran"
  BY <1>1 DEF Wrote, Changed
<1>10. b.depth = IF token = "BEGIN" /\ token' # "TRAN" THEN depth + 1
                 ELSE IF token = "END" /\ depth > 0 THEN depth - 1 ELSE depth
  BY <1>1, SqlServerFields
<1>11. depth = Count(m, F)
  BY <1>1, <1>4 DEF AgreeSqlServer
<1> HIDE DEF b
<1>12. b.depth = Count(n, F)
  <2>1. depth \in Nat
    BY <1>1 DEF ContextTyped
  <2>2. CASE token = "BEGIN"
    BY <1>5, <1>8, <1>9, <1>10, <1>11, <2>2
  <2>3. CASE token = "END" /\ m = Append(n, "case")
    BY <1>5, <1>6, <1>10, <1>11, <2>1, <2>3
  <2>4. CASE token = "END" /\ m = Append(n, "block")
    BY <1>5, <1>10, <1>11, <2>1, <2>4
  <2>5. CASE token \notin {"BEGIN", "END"}
    <3>1. Count(n, F) = Count(m, F)
      BY <1>5, <1>8, <2>5
    <3> QED
      BY <1>10, <1>11, <2>5, <3>1
  <2> QED
    BY <1>8, <2>2, <2>3, <2>4, <2>5
<1>13. AgreeSqlServer(n)'
  BY <1>2, <1>4, <1>12 DEF AgreeSqlServer
<1>14. token = "semi" => IF m = <<>> THEN b.depth = 0 ELSE Last(m) \notin Expressions => b.depth # 0
  <2> SUFFICES ASSUME token = "semi"
               PROVE  IF m = <<>> THEN b.depth = 0 ELSE Last(m) \notin Expressions => b.depth # 0
    OBVIOUS
  <2>1. m # <<>> /\ Last(m) \notin Expressions => Count(m, F) # 0
    <3>1. m # <<>> /\ Last(m) \notin Expressions => Holds(m, "block")
      BY <1>1, <1>3, Outermost
    <3> QED
      BY <1>3, <1>4, <3>1, CountSome
  <2> QED
    BY <1>7, <1>10, <1>11, <2>1
<1> QED
  BY <1>1, <1>2, <1>13, <1>14, SimpleEnds

-----------------------------------------------------------------------------
(* MySQL, and what it has in common with Oracle: nothing counts in parentheses. *)

\* Within parentheses no opened frame counts.
LEMMA OutsidePush ==
  ASSUME NEW n \in Seq(Frames), NEW f \in Frames, NEW F, "(" \notin F
  PROVE  /\ Outside(n, F) \in Nat /\ Count(n, {"("}) \in Nat
         /\ Count(Append(n, f), {"("}) = IF f = "(" THEN Count(n, {"("}) + 1 ELSE Count(n, {"("})
         /\ Outside(Append(n, f), F) =
              IF f \in F /\ Count(n, {"("}) = 0 THEN Outside(n, F) + 1 ELSE Outside(n, F)
<1>1. Counted(n, F, {"("}) \in Nat
  BY CountedType
<1>2. /\ Count(n, {"("}) \in Nat
      /\ Count(Append(n, f), {"("}) = IF f \in {"("} THEN Count(n, {"("}) + 1 ELSE Count(n, {"("})
  BY CountPush
<1>3. Counted(Append(n, f), F, {"("}) =
        IF f \in F \ {"("} /\ \A i \in DOMAIN n : n[i] \notin {"("}
          THEN Counted(n, F, {"("}) + 1 ELSE Counted(n, F, {"("})
  BY CountedPush
<1>4. (\A i \in DOMAIN n : n[i] \notin {"("}) <=> Count(n, {"("}) = 0
  <2>1. ASSUME \A i \in DOMAIN n : n[i] \notin {"("} PROVE Count(n, {"("}) = 0
    BY <2>1, CountedNone DEF Count
  <2>2. ASSUME NEW i \in DOMAIN n, n[i] \in {"("} PROVE Count(n, {"("}) # 0
    BY <2>2, CountSome DEF Holds
  <2> QED
    BY <2>1, <2>2
<1> QED
  BY <1>1, <1>2, <1>3, <1>4 DEF Outside

\* Outside parentheses the outermost frame that is no expression counts.
LEMMA OutsideSome ==
  ASSUME NEW n, Shape(n), n # <<>>, Last(n) \notin Expressions, NEW F, "block" \in F,
         dialect = "mysql"
  PROVE  Outside(n, F) # 0
<1>1. /\ 1 \in DOMAIN n /\ n[1] \in F /\ n \in Seq(Frames)
      /\ \A i \in DOMAIN n : n[i] \notin Expressions
  BY Outermost DEF Shape
<1>2. \A j \in 1..1 : n[j] \notin {"("}
  <2>1. \A j \in 1..1 : j = 1
    OBVIOUS
  <2>2. \A i \in DOMAIN n : n[i] \notin {"("}
    BY <1>1 DEF Expressions
  <2> QED
    BY <1>1, <2>1, <2>2
<1>3. Counted(n, F, {"("}) > 0 /\ Counted(n, F, {"("}) \in Nat
  BY <1>1, <1>2, CountedSome, CountedType
<1> QED
  BY <1>3 DEF Outside

\* What an alternative that opens a frame of F, closes one, or does neither
\* does to the two counts.
Pushed(m, n, F) ==
  /\ Count(n, {"("}) = Count(m, {"("})
  /\ Outside(n, F) = IF Count(m, {"("}) = 0 THEN Outside(m, F) + 1 ELSE Outside(m, F)
Popped(m, n, F) == Pushed(n, m, F)
Same(m, n, F) ==
  Count(n, {"("}) = Count(m, {"("}) /\ Outside(n, F) = Outside(m, F)

\* What opening, closing and turning a frame does to the counts.
LEMMA CountsOf ==
  ASSUME NEW m \in Seq(Frames), NEW n \in Seq(Frames), NEW F, "(" \notin F
  PROVE  /\ Outside(m, F) \in Nat /\ Count(m, {"("}) \in Nat
         /\ \A f \in Frames \ {"("} :
              /\ n = Append(m, f) => IF f \in F THEN Pushed(m, n, F) ELSE Same(m, n, F)
              /\ m = Append(n, f) => IF f \in F THEN Popped(m, n, F) ELSE Same(m, n, F)
         /\ n = Append(m, "(") =>
              Count(n, {"("}) = Count(m, {"("}) + 1 /\ Outside(n, F) = Outside(m, F)
         /\ m = Append(n, "(") =>
              Count(m, {"("}) = Count(n, {"("}) + 1 /\ Outside(n, F) = Outside(m, F)
         /\ m = n => Same(m, n, F)
         /\ \A r \in Seq(Frames), f, g \in Frames \ {"("} :
              m = Append(r, f) /\ n = Append(r, g) /\ (f \in F <=> g \in F) => Same(m, n, F)
<1>1. ASSUME NEW r \in Seq(Frames), NEW f \in Frames
      PROVE  /\ Outside(r, F) \in Nat /\ Count(r, {"("}) \in Nat
             /\ Count(Append(r, f), {"("}) =
                  IF f = "(" THEN Count(r, {"("}) + 1 ELSE Count(r, {"("})
             /\ Outside(Append(r, f), F) =
                  IF f \in F /\ Count(r, {"("}) = 0 THEN Outside(r, F) + 1 ELSE Outside(r, F)
  BY OutsidePush
<1>2. "(" \in Frames
  BY EachFrame
<1>3. /\ Outside(m, F) \in Nat /\ Count(m, {"("}) \in Nat /\ Count(n, {"("}) \in Nat
  BY <1>1, <1>2
<1>4. ASSUME NEW f \in Frames \ {"("}
      PROVE  /\ n = Append(m, f) => IF f \in F THEN Pushed(m, n, F) ELSE Same(m, n, F)
             /\ m = Append(n, f) => IF f \in F THEN Popped(m, n, F) ELSE Same(m, n, F)
  BY <1>1 DEF Pushed, Popped, Same
<1>5. ASSUME n = Append(m, "(")
      PROVE  Count(n, {"("}) = Count(m, {"("}) + 1 /\ Outside(n, F) = Outside(m, F)
  BY <1>1, <1>2, <1>5
<1>6. ASSUME m = Append(n, "(")
      PROVE  Count(m, {"("}) = Count(n, {"("}) + 1 /\ Outside(n, F) = Outside(m, F)
  BY <1>1, <1>2, <1>6
<1>7. ASSUME NEW r \in Seq(Frames), NEW f \in Frames \ {"("}, NEW g \in Frames \ {"("},
             m = Append(r, f), n = Append(r, g), f \in F <=> g \in F
      PROVE  Same(m, n, F)
  BY <1>1, <1>7 DEF Same
<1>8. m = n => Same(m, n, F)
  BY DEF Same
<1> QED
  BY <1>3, <1>4, <1>5, <1>6, <1>7, <1>8

\* What can be open in MySQL.
LEMMA MySqlFramesOf ==
  ASSUME NEW r \in Seq(Frames), NEW f \in Frames, dialect = "mysql", Shape(Append(r, f))
  PROVE  /\ f \in {"block", "(", "case", "if-head", "case-head", "if", "loop", "repeat",
                   "case-statement"}
         /\ f = "repeat" => delimiter = "$$"
<1>1. Possible(f, Len(r) + 1)
  BY ShapePop
<1>2. f \in FramesOfDialect /\ (f = "repeat" => delimiter = "$$")
  BY <1>1 DEF Possible
<1> QED
  BY <1>2 DEF FramesOfDialect, Control

\* What each token opens or closes in MySQL.
LEMMA MySqlChanges ==
  ASSUME NEW m, NEW from, NEW n, NEW a, Reads(m, from, n, a), dialect = "mysql"
  PROVE  /\ m \in Seq(Frames) /\ n \in Seq(Frames) /\ Shape(m) /\ Shape(n)
         /\ token = "(" => Opened(m, "(")
         /\ token = ")" => Closed(m, "(")
         /\ token = "CASE" =>
              \/ from = "CASE" /\ Kept(m)
              \/ from \in {"mid", "start"} /\ (Opened(m, "case") \/ Opened(m, "case-head"))
         /\ token = "BEGIN" =>
              \/ Opened(m, "block") /\ (from = "header" \/ m # <<>>)
              \/ Kept(m) /\ Rested(m, from)
         /\ token = "END" =>
              \/ token' \notin {"IF", "LOOP"} /\ \E f \in {"case", "block"} : Closed(m, f)
              \/ token' \notin {"IF", "LOOP"} /\ Closed(m, "case-statement")
              \/ token' \in {"IF", "LOOP"} /\ \E f \in {"if", "loop"} : Closed(m, f)
              \/ delimiter = "$$" /\ Closed(m, "repeat")
         /\ token \notin {"(", ")", "CASE", "BEGIN", "END"} =>
              \/ Kept(m) \/ \E f \in {"if-head", "loop", "repeat"} : Opened(m, f)
              \/ Turned(m, "if-head", "if") \/ Turned(m, "case-head", "case-statement")
<1>0. WriterOK /\ Wrote(m, from) /\ n = nest /\ a = at /\ Wrote(n, a)' /\ dialect' = "mysql"
  BY DEF Reads, InStep
<1>1. m \in Seq(Frames) /\ n \in Seq(Frames) /\ Shape(m) /\ Shape(n)
  BY <1>0 DEF WriterOK, Wrote, Shape
<1>2. ASSUME NEW r \in Seq(Frames), NEW f \in Frames, m = Append(r, f) \/ n = Append(r, f)
      PROVE  /\ f \in {"block", "(", "case", "if-head", "case-head", "if", "loop", "repeat",
                       "case-statement"}
             /\ f = "repeat" => delimiter = "$$"
  BY <1>1, <1>2, MySqlFramesOf
<1>3. at \notin UnitHead /\ from \notin UnitHead
  <2>1. m # <<"unit">>
    <3>1. <<"unit">> = Append(<<>>, "unit") /\ <<>> \in Seq(Frames) /\ "unit" \in Frames
      BY Given DEF Frames
    <3> QED
      BY <1>2, <3>1
  <2> QED
    BY <1>0, <2>1 DEF WriterOK, Placed, Wrote
<1>4. Changed(m, from) /\ token \in Tokens
  BY <1>0 DEF Wrote
<1>5. token = "(" => Opened(m, "(")
  BY <1>3, <1>4 DEF Changed, UnitHead
<1>6. token = ")" => Closed(m, "(")
  BY <1>3, <1>4 DEF Changed, UnitHead
<1>7. token = "CASE" =>
        \/ from = "CASE" /\ Kept(m)
        \/ from \in {"mid", "start"} /\ (Opened(m, "case") \/ Opened(m, "case-head"))
  BY <1>4 DEF Changed
<1>8. token = "BEGIN" =>
        \/ Opened(m, "block") /\ (from = "header" \/ m # <<>>)
        \/ Kept(m) /\ Rested(m, from)
  BY <1>4 DEF Changed, WroteBegin
<1>9. token = "END" =>
        \/ token' \notin {"IF", "LOOP"} /\ \E f \in {"case", "block"} : Closed(m, f)
        \/ token' \notin {"IF", "LOOP"} /\ Closed(m, "case-statement")
        \/ token' \in {"IF", "LOOP"} /\ \E f \in {"if", "loop"} : Closed(m, f)
        \/ delimiter = "$$" /\ Closed(m, "repeat")
  <2> SUFFICES ASSUME token = "END"
               PROVE  \/ token' \notin {"IF", "LOOP"} /\ \E f \in {"case", "block"} : Closed(m, f)
                      \/ token' \notin {"IF", "LOOP"} /\ Closed(m, "case-statement")
                      \/ token' \in {"IF", "LOOP"} /\ \E f \in {"if", "loop"} : Closed(m, f)
                      \/ delimiter = "$$" /\ Closed(m, "repeat")
    OBVIOUS
  <2>1. Changed(n, a)'
    BY <1>0 DEF Wrote
  <2>2. a \in AfterEnd => token' = a
    BY <2>1 DEF Changed
  <2>3. a = "closed" => token' \notin {"IF", "LOOP"}
    <3>1. ~Turned(n, "loop-head", "loop")'
      BY <1>2, EachFrame DEF Turned
    <3> QED
      BY <2>1, <3>1 DEF Changed
  <2>4. \A f \in Frames : Closed(m, f) => f \notin {"initialization"} \cup Declarations
    BY <1>0, <1>1, <1>2 DEF Closed, Declarations
  <2>5. \/ /\ at = "closed"
           /\ \E f \in {"case", "block", "initialization"} \cup Declarations : Closed(m, f)
        \/ \E f \in Control : at = EndOf[f] /\ Closed(m, f)
    BY <1>4 DEF Changed, WroteEnd
  <2>6. CASE /\ at = "closed"
             /\ \E f \in {"case", "block", "initialization"} \cup Declarations : Closed(m, f)
    BY <1>0, <2>3, <2>4, <2>6 DEF Frames, Declarations
  <2>7. CASE \E f \in Control : at = EndOf[f] /\ Closed(m, f)
    <3>1. PICK f \in Control : at = EndOf[f] /\ Closed(m, f)
      BY <2>7
    <3>2. f = "repeat" => delimiter = "$$"
      BY <1>0, <1>1, <1>2, <3>1, EachFrame DEF Closed
    <3>3. \/ f = "if" /\ token' = "IF"
          \/ f = "loop" /\ token' = "LOOP"
          \/ f = "repeat"
          \/ f = "case-statement" /\ token' = "CASE"
      <4>1. EndOf[f] = CASE f = "if" -> "IF" [] f = "loop" -> "LOOP" [] f = "repeat" -> "REPEAT"
                         [] f = "case-statement" -> "CASE"
        BY DEF EndOf
      <4>2. f \in {"if", "loop", "repeat", "case-statement"}
        BY DEF Control
      <4>3. a = EndOf[f]
        BY <1>0, <3>1
      <4> QED
        BY <2>2, <4>1, <4>2, <4>3 DEF AfterEnd
    <3> QED
      BY <3>1, <3>2, <3>3
  <2> QED
    BY <2>5, <2>6, <2>7
<1>10. token \notin {"(", ")", "CASE", "BEGIN", "END"} =>
         \/ Kept(m) \/ \E f \in {"if-head", "loop", "repeat"} : Opened(m, f)
         \/ Turned(m, "if-head", "if") \/ Turned(m, "case-head", "case-statement")
  <2>1. ~Turned(m, "loop-head", "loop")
    BY <1>2, EachFrame DEF Turned
  <2> QED
    BY <1>0, <1>4, <2>1 DEF Changed, Tokens, Neutral
<1> QED
  BY <1>1, <1>5, <1>6, <1>7, <1>8, <1>9, <1>10

\* The same for what counts.
LEMMA MySqlEffect ==
  ASSUME NEW m, NEW from, NEW n, NEW a, Reads(m, from, n, a), dialect = "mysql",
         NEW F, F = MySqlFrames
  PROVE  /\ Outside(m, F) \in Nat /\ Outside(n, F) \in Nat
         /\ Count(m, {"("}) \in Nat /\ Count(n, {"("}) \in Nat
         /\ token = "(" =>
              Count(n, {"("}) = Count(m, {"("}) + 1 /\ Outside(n, F) = Outside(m, F)
         /\ token = ")" =>
              Count(m, {"("}) = Count(n, {"("}) + 1 /\ Outside(n, F) = Outside(m, F)
         /\ token = "CASE" =>
              IF from = "CASE" THEN Same(m, n, F)
              ELSE from \in {"mid", "start"} /\ Pushed(m, n, F)
         /\ token = "BEGIN" =>
              \/ Pushed(m, n, F) /\ (from = "header" \/ Holds(m, "block"))
              \/ Same(m, n, F) /\ Rested(m, from)
         /\ token = "END" =>
              \/ token' \notin {"IF", "LOOP"} /\ Popped(m, n, F)
              \/ token' \in {"IF", "LOOP"} /\ Same(m, n, F)
              \/ delimiter = "$$" /\ Same(m, n, F)
         /\ token \notin {"(", ")", "CASE", "BEGIN", "END"} => Same(m, n, F)
         /\ Holds(n, "block") =>
              Holds(m, "block") \/ (token = "BEGIN" /\ Pushed(m, n, F) /\ from = "header")
<1>0. /\ m \in Seq(Frames) /\ n \in Seq(Frames) /\ Shape(m) /\ Shape(n) /\ n = nest
      /\ WriterOK /\ Wrote(m, from)
  BY MySqlChanges DEF Reads, InStep
<1>1. /\ {"block", "case", "case-head", "case-statement"} \subseteq F \cap Frames
      /\ {"if", "loop", "repeat", "if-head"} \subseteq Frames \ F
      /\ "(" \in Frames \ F
  BY EachFrame, F = MySqlFrames DEF MySqlFrames
<1>2. "(" \notin F /\ {"block", "case", "case-head", "case-statement"} \subseteq Frames \ {"("}
        /\ {"if", "loop", "repeat", "if-head"} \subseteq Frames \ {"("}
  BY <1>1
<1>3. /\ Outside(m, F) \in Nat /\ Count(m, {"("}) \in Nat
      /\ \A f \in {"block", "case", "case-head", "case-statement"} :
           /\ Opened(m, f) => Pushed(m, n, F)
           /\ Closed(m, f) => Popped(m, n, F)
      /\ \A f \in {"if", "loop", "repeat", "if-head"} :
           Opened(m, f) \/ Closed(m, f) => Same(m, n, F)
      /\ Opened(m, "(") => Count(n, {"("}) = Count(m, {"("}) + 1 /\ Outside(n, F) = Outside(m, F)
      /\ Closed(m, "(") => Count(m, {"("}) = Count(n, {"("}) + 1 /\ Outside(n, F) = Outside(m, F)
      /\ Kept(m) => Same(m, n, F)
      /\ Turned(m, "if-head", "if") \/ Turned(m, "case-head", "case-statement") => Same(m, n, F)
  <2>1. /\ Outside(m, F) \in Nat /\ Count(m, {"("}) \in Nat
        /\ \A f \in Frames \ {"("} :
             /\ n = Append(m, f) => IF f \in F THEN Pushed(m, n, F) ELSE Same(m, n, F)
             /\ m = Append(n, f) => IF f \in F THEN Popped(m, n, F) ELSE Same(m, n, F)
        /\ n = Append(m, "(") =>
             Count(n, {"("}) = Count(m, {"("}) + 1 /\ Outside(n, F) = Outside(m, F)
        /\ m = Append(n, "(") =>
             Count(m, {"("}) = Count(n, {"("}) + 1 /\ Outside(n, F) = Outside(m, F)
        /\ m = n => Same(m, n, F)
        /\ \A r \in Seq(Frames), f, g \in Frames \ {"("} :
             m = Append(r, f) /\ n = Append(r, g) /\ (f \in F <=> g \in F) => Same(m, n, F)
    <3>1. m \in Seq(Frames) /\ n \in Seq(Frames) /\ "(" \notin F
      BY <1>0, <1>2
    <3> QED
      BY ONLY <3>1, CountsOf
  <2>2. \A f \in {"block", "case", "case-head", "case-statement"} :
           /\ Opened(m, f) => Pushed(m, n, F)
           /\ Closed(m, f) => Popped(m, n, F)
    BY <1>0, <1>1, <1>2, <2>1 DEF Opened, Closed
  <2>3. \A f \in {"if", "loop", "repeat", "if-head"} :
           Opened(m, f) \/ Closed(m, f) => Same(m, n, F)
    BY <1>0, <1>1, <1>2, <2>1 DEF Opened, Closed
  <2>4. Turned(m, "if-head", "if") => Same(m, n, F)
    BY <1>0, <1>1, <1>2, <2>1 DEF Turned
  <2>5. Turned(m, "case-head", "case-statement") => Same(m, n, F)
    BY <1>0, <1>1, <1>2, <2>1 DEF Turned
  <2> QED
    BY <1>0, <2>1, <2>2, <2>3, <2>4, <2>5 DEF Opened, Closed, Kept
<1>4. Outside(n, F) \in Nat /\ Count(n, {"("}) \in Nat
  BY <1>0, <1>2, CountsOf
<1>5. Opened(m, "block") /\ m # <<>> => Holds(m, "block")
  <2> SUFFICES ASSUME Opened(m, "block"), m # <<>> PROVE Holds(m, "block")
    OBVIOUS
  <2>1. \A i \in DOMAIN m : Nests(m[i], "block")
    BY <1>0, <1>1, ShapePop DEF Opened
  <2>2. Len(m) \in DOMAIN m /\ Last(m) = m[Len(m)]
    BY <1>0, LenProperties, EmptySeq DEF Last
  <2>3. Last(m) \notin Expressions
    BY <2>1, <2>2 DEF Nests
  <2>4. dialect # "oracle"
    OBVIOUS
  <2> QED
    BY <1>0, <2>3, <2>4, Outermost
<1>6. token = "BEGIN" =>
        \/ Opened(m, "block") /\ (from = "header" \/ m # <<>>)
        \/ Kept(m) /\ Rested(m, from)
  BY MySqlChanges
<1>7. Holds(n, "block") =>
        Holds(m, "block") \/ (token = "BEGIN" /\ Opened(m, "block") /\ from = "header")
  <2> SUFFICES ASSUME Holds(n, "block")
               PROVE  Holds(m, "block") \/ (token = "BEGIN" /\ Opened(m, "block") /\ from = "header")
    OBVIOUS
  <2>1. \A f \in Frames : Opened(m, f) => Holds(m, "block") \/ f = "block"
    BY <1>0, HoldsPush DEF Opened
  <2>2. \A f \in Frames : Closed(m, f) => Holds(m, "block")
    BY <1>0, HoldsPush DEF Closed
  <2>3. Kept(m) => Holds(m, "block")
    BY <1>0 DEF Kept
  <2>4. \A f, g \in Frames : Turned(m, f, g) => Holds(m, "block") \/ g = "block"
    BY <1>0, HoldsPush DEF Turned
  <2>5. CASE token = "BEGIN"
    BY <1>5, <1>6, <2>3, <2>5
  <2>6. CASE token = "END"
    <3>1. \E f \in {"case", "block", "case-statement", "if", "loop", "repeat"} : Closed(m, f)
      BY <2>6, MySqlChanges
    <3> QED
      BY <2>2, <3>1, EachFrame
  <2>7. CASE token \in {"(", ")", "CASE"}
    <3>1. \/ Opened(m, "(") \/ Closed(m, "(") \/ Kept(m) \/ Opened(m, "case")
          \/ Opened(m, "case-head")
      BY <2>7, MySqlChanges
    <3> QED
      BY <2>1, <2>2, <2>3, <3>1, EachFrame
  <2>8. CASE token \notin {"(", ")", "CASE", "BEGIN", "END"}
    <3>1. \/ Kept(m) \/ Opened(m, "if-head") \/ Opened(m, "loop") \/ Opened(m, "repeat")
          \/ Turned(m, "if-head", "if") \/ Turned(m, "case-head", "case-statement")
      BY <2>8, MySqlChanges
    <3> QED
      BY <2>1, <2>3, <2>4, <3>1, EachFrame
  <2> QED
    BY <2>5, <2>6, <2>7, <2>8
<1>8. token = "CASE" =>
        IF from = "CASE" THEN Same(m, n, F) ELSE from \in {"mid", "start"} /\ Pushed(m, n, F)
  BY <1>3, MySqlChanges
<1>9. token = "END" =>
        \/ token' \notin {"IF", "LOOP"} /\ Popped(m, n, F)
        \/ token' \in {"IF", "LOOP"} /\ Same(m, n, F)
        \/ delimiter = "$$" /\ Same(m, n, F)
  BY <1>3, MySqlChanges
<1>10. token \notin {"(", ")", "CASE", "BEGIN", "END"} => Same(m, n, F)
  BY <1>3, MySqlChanges
<1>11. /\ token = "(" =>
             Count(n, {"("}) = Count(m, {"("}) + 1 /\ Outside(n, F) = Outside(m, F)
       /\ token = ")" =>
             Count(m, {"("}) = Count(n, {"("}) + 1 /\ Outside(n, F) = Outside(m, F)
  BY <1>3, MySqlChanges
<1> QED
  BY <1>3, <1>4, <1>5, <1>6, <1>7, <1>8, <1>9, <1>10, <1>11

\* What MySQL's parser does with each token, by its fields.
LEMMA MySqlFields ==
  ASSUME ContextTyped, NEW next, NEW b, b = MySqlBlocks(next)
  PROVE  /\ parens > 0 => b.depth = depth /\ b.program = program
         /\ parens = 0 /\ token = "BEGIN" =>
              b.depth = (IF program THEN depth + 1 ELSE depth) /\ b.program = program
         /\ parens = 0 /\ token = "CASE" =>
              b.depth = (IF Previous # "END" THEN depth + 1 ELSE depth) /\ b.program = program
         /\ parens = 0 /\ token = "END" =>
              /\ b.depth = IF depth > 0 /\ next \notin {"IF", "LOOP"} THEN depth - 1 ELSE depth
              /\ b.program = program
         /\ parens = 0 /\ token \notin {"BEGIN", "CASE", "END"} =>
              b.depth = depth /\ b.program = StoredProgram
<1>0. \A p : /\ Level(0, p).depth = depth + 0 /\ Level(0, p).program = p
             /\ Level(1, p).depth = depth + 1 /\ Level(1, p).program = p
             /\ Level(-1, p).depth = depth + (-1) /\ Level(-1, p).program = p
  BY DEF Level
<1>1. /\ depth + 0 = depth /\ depth + (-1) = depth - 1 /\ parens \in Nat
      /\ program \in BOOLEAN /\ StoredProgram \in BOOLEAN
  BY DEF ContextTyped, StoredProgram
<1>2. token # "PROCEDURE" => StoredProgram = program
  BY <1>1 DEF StoredProgram
<1>3. CASE parens > 0
  <2>1. b = Level(0, program)
    BY <1>3 DEF MySqlBlocks
  <2> QED
    BY <1>0, <1>1, <1>3, <2>1
<1>4. CASE parens = 0 /\ token = "BEGIN"
  <2>1. b = IF program THEN Level(1, program) ELSE Level(0, StoredProgram)
    BY <1>4 DEF MySqlBlocks
  <2> QED
    BY <1>0, <1>1, <1>2, <1>4, <2>1
<1>5. CASE parens = 0 /\ token = "CASE"
  <2>1. b = IF Previous # "END" THEN Level(1, program) ELSE Level(0, StoredProgram)
    BY <1>5 DEF MySqlBlocks
  <2> QED
    BY <1>0, <1>1, <1>2, <1>5, <2>1
<1>6. CASE parens = 0 /\ token = "END"
  <2>1. b = IF depth > 0 /\ next \notin {"IF", "LOOP"}
              THEN Level(-1, program) ELSE Level(0, StoredProgram)
    BY <1>6 DEF MySqlBlocks
  <2> QED
    BY <1>0, <1>1, <1>2, <1>6, <2>1
<1>7. CASE parens = 0 /\ token \notin {"BEGIN", "CASE", "END"}
  <2>1. b = Level(0, StoredProgram)
    BY <1>7 DEF MySqlBlocks
  <2> QED
    BY <1>0, <1>1, <1>7, <2>1
<1> QED
  BY <1>1, <1>3, <1>4, <1>5, <1>6, <1>7

\* Nothing open, nothing counted.
LEMMA OutsideEmpty == \A F : Outside(<<>>, F) = 0
<1> SUFFICES ASSUME NEW F PROVE Outside(<<>>, F) = 0
  OBVIOUS
<1>1. <<>> \in Seq(Frames) /\ \A i \in DOMAIN <<>> : <<>>[i] \notin F
  BY Given
<1> QED
  BY <1>1, CountedNone DEF Outside

\* MySQL's parser cuts as the writer ends, and stays in step, under either delimiter.
LEMMA MySqlStep ==
  ASSUME NEW m, NEW from, NEW n, NEW a, Reads(m, from, n, a), dialect = "mysql"
  PROVE  (split' <=> ahead.ends) /\ AgreeMySql(n, a)'
<1> DEFINE b == MySqlBlocks(token')
           F == MySqlFrames
           cut == StatementEnd(b.depth)
<1>1. /\ WriterOK /\ Wrote(m, from) /\ ContextTyped /\ AgreeMySql(m, from) /\ Memory(from)
      /\ token \notin NewDelimiter \cup {"none", "eof"} /\ n = nest /\ a = at
      /\ dialect' = "mysql" /\ Wrote(n, a)' /\ (delimiter' = delimiter \/ Rested(n, a))
  BY DEF Reads, InStep, Agree
<1>2. /\ split' = cut
      /\ depth' = IF cut THEN 0 ELSE b.depth
      /\ program' = (b.program /\ ~cut)
      /\ parens' = IF cut THEN 0 ELSE ParensDepth
  <2>1. Blocks(token') = b
    BY DEF Blocks
  <2> QED
    BY <2>1 DEF Reads, Parse
<1>3. /\ Ends(m, from) /\ Changed(m, from) /\ Shape(m)
      /\ token \in {"semi", "$$"} => m = nest
  BY <1>1 DEF Wrote, Changed, Neutral, Kept
<1>4. Outside(<<>>, F) = 0 /\ Count(<<>>, {"("}) = 0 /\ ~Holds(<<>>, "block")
  BY OutsideEmpty, CountEmpty, Given DEF Holds
<1>5. /\ parens = Count(m, {"("}) /\ depth <= Outside(m, F)
      /\ Rested(m, from) => ~program
      /\ delimiter = "semi" =>
           /\ depth = Outside(m, F)
           /\ from = "header" => program
           /\ Holds(m, "block") => program
      /\ parens \in Nat /\ depth \in Nat /\ program \in BOOLEAN
      /\ delimiter \in {"semi", "$$"}
  BY <1>1 DEF AgreeMySql, ContextTyped, WriterOK
<1>6. /\ parens > 0 => b.depth = depth /\ b.program = program
      /\ parens = 0 /\ token = "BEGIN" =>
           b.depth = (IF program THEN depth + 1 ELSE depth) /\ b.program = program
      /\ parens = 0 /\ token = "CASE" =>
           b.depth = (IF Previous # "END" THEN depth + 1 ELSE depth) /\ b.program = program
      /\ parens = 0 /\ token = "END" =>
           /\ b.depth = IF depth > 0 /\ token' \notin {"IF", "LOOP"} THEN depth - 1 ELSE depth
           /\ b.program = program
      /\ parens = 0 /\ token \notin {"BEGIN", "CASE", "END"} =>
           b.depth = depth /\ b.program = StoredProgram
  BY <1>1, MySqlFields
<1>7. /\ Outside(m, F) \in Nat /\ Outside(n, F) \in Nat
      /\ Count(m, {"("}) \in Nat /\ Count(n, {"("}) \in Nat
      /\ token = "(" =>
           Count(n, {"("}) = Count(m, {"("}) + 1 /\ Outside(n, F) = Outside(m, F)
      /\ token = ")" =>
           Count(m, {"("}) = Count(n, {"("}) + 1 /\ Outside(n, F) = Outside(m, F)
      /\ token = "CASE" =>
           IF from = "CASE" THEN Same(m, n, F)
           ELSE from \in {"mid", "start"} /\ Pushed(m, n, F)
      /\ token = "BEGIN" =>
           \/ Pushed(m, n, F) /\ (from = "header" \/ Holds(m, "block"))
           \/ Same(m, n, F) /\ Rested(m, from)
      /\ token = "END" =>
           \/ token' \notin {"IF", "LOOP"} /\ Popped(m, n, F)
           \/ token' \in {"IF", "LOOP"} /\ Same(m, n, F)
           \/ delimiter = "$$" /\ Same(m, n, F)
      /\ token \notin {"(", ")", "CASE", "BEGIN", "END"} => Same(m, n, F)
      /\ Holds(n, "block") =>
           Holds(m, "block") \/ (token = "BEGIN" /\ Pushed(m, n, F) /\ from = "header")
  BY MySqlEffect
<1> HIDE DEF b, F
<1>8. cut <=> ahead.ends
  <2>1. cut <=> token = delimiter /\ b.depth = 0
    <3>1. token # "GO"
      BY <1>3 DEF Ends
    <3> QED
      BY <3>1 DEF StatementEnd
  <2>2. token \in {"semi", "$$"} => b.depth = depth
    <3>1. parens = 0 \/ parens > 0
      BY <1>5
    <3> QED
      BY <1>6, <3>1
  <2>3. m = <<>> => depth = 0
    BY <1>4, <1>5
  <2>4. CASE token = "semi"
    <3>1. IF ahead.ends THEN m = <<>> /\ delimiter = "semi"
          ELSE m # <<>> /\ Last(m) \notin Expressions
      BY <1>3, <2>4 DEF Ends
    <3>2. ~ahead.ends => Outside(m, F) # 0
      <4>1. "block" \in F
        BY DEF F, MySqlFrames
      <4> QED
        BY <1>3, <3>1, <4>1, OutsideSome
    <3>3. delimiter = "semi" /\ ~ahead.ends => depth # 0
      BY <1>5, <3>2
    <3> QED
      BY <2>1, <2>2, <2>3, <2>4, <3>1, <3>3
  <2>5. CASE token = "$$"
    <3>1. delimiter = "$$" /\ ahead.ends /\ nest = <<>>
      BY <1>3, <2>5 DEF Ends
    <3> QED
      BY <1>3, <2>1, <2>2, <2>3, <2>5, <3>1
  <2>6. CASE token \notin {"semi", "$$"}
    <3>1. token # delimiter
      BY <1>5, <2>6
    <3>2. token # "/"
      BY <1>3 DEF Changed
    <3>3. token # "eof" /\ token # "GO"
      BY <1>1, <1>3 DEF Ends
    <3>4. ~ahead.ends
      BY <1>3, <2>6, <3>2, <3>3 DEF Ends
    <3> QED
      BY <2>1, <3>1, <3>4
  <2> QED
    BY <2>4, <2>5, <2>6
<1>9. Rested(n, a) <=> cut
  BY <1>1, <1>8 DEF WriterOK
<1>10. AgreeMySql(n, a)' <=>
         /\ parens' = Count(n, {"("})
         /\ depth' <= Outside(n, F)
         /\ Rested(n, a) => ~program'
         /\ delimiter' = "semi" =>
              /\ depth' = Outside(n, F)
              /\ a = "header" => program'
              /\ Holds(n, "block") => program'
  BY DEF AgreeMySql, F, Rested, Outside, Count, Counted, Holds
<1> HIDE DEF cut
<1>11. CASE cut
  <2>1. n = <<>> /\ a = "start"
    BY <1>9, <1>11 DEF Rested
  <2>2. depth' = 0 /\ parens' = 0 /\ program' = FALSE
    BY <1>2, <1>11
  <2>3. Count(n, {"("}) = 0 /\ Outside(n, F) = 0 /\ ~Holds(n, "block")
    BY <1>4, <2>1
  <2> QED
    BY <1>2, <1>8, <1>10, <2>1, <2>2, <2>3
<1>12. CASE ~cut
  <2>1. /\ depth' = b.depth /\ program' = b.program /\ parens' = ParensDepth
        /\ delimiter' = delimiter
    <3>1. b.program \in BOOLEAN
      <4>1. parens = 0 \/ parens > 0
        BY <1>5
      <4>2. StoredProgram \in BOOLEAN
        BY <1>5 DEF StoredProgram
      <4> QED
        BY <1>5, <1>6, <4>1, <4>2
    <3> QED
      BY <1>1, <1>2, <1>9, <1>12, <3>1
  <2>2. ParensDepth = Count(n, {"("})
    <3>1. CASE token = "("
      BY <1>5, <1>7, <3>1 DEF ParensDepth
    <3>2. CASE token = ")"
      BY <1>5, <1>7, <3>2 DEF ParensDepth
    <3>3. CASE token \notin {"(", ")"}
      <4>1. Count(n, {"("}) = Count(m, {"("})
        BY <1>7, <3>3 DEF Same, Pushed, Popped
      <4> QED
        BY <1>5, <3>3, <4>1 DEF ParensDepth
    <3> QED
      BY <3>1, <3>2, <3>3
  <2>3. b.depth <= Outside(n, F) /\ (delimiter = "semi" => b.depth = Outside(n, F))
    <3>1. CASE parens > 0
      <4>1. Outside(n, F) = Outside(m, F)
        BY <1>5, <1>7, <3>1 DEF Same, Pushed, Popped
      <4> QED
        BY <1>5, <1>6, <3>1, <4>1
    <3>2. CASE parens = 0 /\ token = "BEGIN"
      <4>1. CASE Pushed(m, n, F) /\ (from = "header" \/ Holds(m, "block"))
        BY <1>5, <1>6, <1>7, <3>2, <4>1 DEF Pushed
      <4>2. CASE Same(m, n, F) /\ Rested(m, from)
        BY <1>5, <1>6, <1>7, <3>2, <4>2 DEF Same
      <4> QED
        BY <1>7, <3>2, <4>1, <4>2
    <3>3. CASE parens = 0 /\ token = "CASE"
      <4>1. IF from = "CASE" THEN Previous = "END" ELSE Previous # "END"
        BY <1>1, <1>7, <3>3 DEF Memory, AfterEnd
      <4> QED
        BY <1>5, <1>6, <1>7, <3>3, <4>1 DEF Same, Pushed
    <3>4. CASE parens = 0 /\ token = "END"
      <4>1. CASE token' \notin {"IF", "LOOP"} /\ Popped(m, n, F)
        <5>1. Outside(m, F) = Outside(n, F) + 1
          BY <1>5, <1>7, <3>4, <4>1 DEF Popped, Pushed
        <5>2. b.depth = IF depth > 0 THEN depth - 1 ELSE depth
          BY <1>6, <3>4, <4>1
        <5> QED
          BY <1>5, <1>7, <5>1, <5>2
      <4>2. CASE token' \in {"IF", "LOOP"} /\ Same(m, n, F)
        BY <1>5, <1>6, <3>4, <4>2 DEF Same
      <4>3. CASE delimiter = "$$" /\ Same(m, n, F)
        <5>1. b.depth = depth \/ b.depth = depth - 1
          BY <1>6, <3>4
        <5> QED
          BY <1>5, <1>7, <4>3, <5>1 DEF Same
      <4> QED
        BY <1>7, <3>4, <4>1, <4>2, <4>3
    <3>5. CASE parens = 0 /\ token \notin {"BEGIN", "CASE", "END"}
      <4>1. Outside(n, F) = Outside(m, F)
        BY <1>7, <3>5 DEF Same
      <4> QED
        BY <1>5, <1>6, <3>5, <4>1
    <3> QED
      BY <1>5, <3>1, <3>2, <3>3, <3>4, <3>5
  <2>4. program => b.program
    <3>1. program => StoredProgram
      BY DEF StoredProgram
    <3>2. parens = 0 \/ parens > 0
      BY <1>5
    <3> QED
      BY <1>6, <3>1, <3>2
  <2>5. delimiter = "semi" /\ a = "header" => b.program
    <3> SUFFICES ASSUME delimiter = "semi", a = "header" PROVE b.program
      OBVIOUS
    <3>1. token = "PROCEDURE" \/ from = "header"
      BY <1>1, <1>3 DEF Changed
    <3>2. ASSUME token = "PROCEDURE" PROVE b.program
      <4>1. from \in {"create", "definer"}
        BY <1>3, <3>2 DEF Changed
      <4>2. from # "definer"
        BY <1>1 DEF Wrote
      <4>3. m = <<>> /\ "CREATE" \in ToSet(before)
        BY <1>1, <4>1, <4>2 DEF Wrote, Memory
      <4>4. parens = 0 /\ StoredProgram
        BY <1>4, <1>5, <3>2, <4>3 DEF StoredProgram
      <4> QED
        BY <1>6, <3>2, <4>4
    <3> QED
      BY <1>5, <2>4, <3>1, <3>2
  <2>6. delimiter = "semi" /\ Holds(n, "block") => b.program
    BY <1>5, <1>7, <2>4
  <2>7. parens' = Count(n, {"("}) /\ depth' <= Outside(n, F)
    BY <2>1, <2>2, <2>3
  <2>8. delimiter' = "semi" => depth' = Outside(n, F)
    BY <2>1, <2>3
  <2>9. delimiter' = "semi" => (a = "header" => program') /\ (Holds(n, "block") => program')
    BY <2>1, <2>5, <2>6
  <2> QED
    BY <1>2, <1>8, <1>9, <1>10, <1>12, <2>7, <2>8, <2>9
<1> QED
  BY <1>2, <1>8, <1>11, <1>12

-----------------------------------------------------------------------------
(* Oracle. *)

\* In a unit is everything but expressions.
LEMMA InUnitUnless ==
  ASSUME NEW r \in Seq(Frames), NEW f \in Frames, dialect = "oracle", Shape(Append(r, f))
  PROVE  /\ f # "repeat" /\ (f = "unit" => r = <<>>)
         /\ f \notin Expressions => InUnit(Append(r, f))
         /\ f \notin Expressions /\ r # <<>> => InUnit(r)
         /\ Holds(r, "loop-head") => f = "("
<1>1. Append(r, f) # <<>> /\ Last(Append(r, f)) = f
  BY Push
<1>2. f \notin Expressions => InUnit(Append(r, f))
  BY <1>1, Outermost DEF InUnit
<1>3. ASSUME f \notin Expressions, r # <<>> PROVE InUnit(r)
  <2>1. Shape(r) /\ \A i \in DOMAIN r : Nests(r[i], f)
    BY ShapePop
  <2>2. Len(r) \in DOMAIN r /\ Last(r) = r[Len(r)]
    BY <1>3, LenProperties, EmptySeq DEF Last
  <2>3. Last(r) \notin Expressions
    BY <1>3, <2>1, <2>2 DEF Nests, Expressions
  <2> QED
    BY <1>3, <2>1, <2>3, Outermost DEF InUnit
<1>4. f # "repeat"
  <2>1. f \in FramesOfDialect
    BY ShapePop DEF Possible
  <2> QED
    BY <2>1 DEF FramesOfDialect
<1>5. f = "unit" => r = <<>>
  BY Bottom
<1>6. Holds(r, "loop-head") => f = "("
  BY ShapePop DEF Holds, Nests
<1> QED
  BY <1>2, <1>3, <1>4, <1>5, <1>6

\* What each token opens or closes in PL/SQL.
LEMMA OracleChanges ==
  ASSUME NEW m, NEW from, dialect = "oracle", WriterOK, Wrote(m, from)
  PROVE  /\ m \in Seq(Frames) /\ nest \in Seq(Frames) /\ Shape(m) /\ Shape(nest)
         /\ token = "(" => Opened(m, "(") \/ (Kept(m) /\ at = "accessible")
         /\ token = ")" => Closed(m, "(") \/ (Kept(m) /\ from = "accessible-by")
         /\ token = "CASE" =>
              \/ from = "CASE" /\ Kept(m)
              \/ Opened(m, "case") \/ Opened(m, "case-head")
         /\ token = "BEGIN" =>
              \/ InUnit(m) /\ Opened(m, "block")
              \/ m = <<>> /\ nest = <<"unit", "block">>
              \/ InUnit(m) /\ Turned(m, "declarations", "block")
              \/ InUnit(m) /\ Turned(m, "package", "initialization")
         /\ token = "END" =>
              \E f \in {"case", "block", "initialization"} \cup Declarations \cup Control :
                Closed(m, f)
         /\ token = "IF" => (from = "IF" /\ Kept(m)) \/ Opened(m, "if-head")
         /\ token = "LOOP" =>
              \/ from = "LOOP" /\ Kept(m)
              \/ Opened(m, "loop") \/ Turned(m, "loop-head", "loop")
         /\ token = "THEN" => Turned(m, "if-head", "if") \/ Turned(m, "case-head", "case-statement")
         /\ token = "/" => m = <<"unit">> /\ nest = <<>>
         /\ WroteUnit(m, from)
         /\ token \notin {"(", ")", "CASE", "BEGIN", "END", "IF", "LOOP", "THEN", "/", "DECLARE",
                          "PROCEDURE", "TYPE", "PACKAGE", "IS", "WHILE", "FOR"} => Kept(m)
<1>1. m \in Seq(Frames) /\ nest \in Seq(Frames) /\ Shape(m) /\ Shape(nest)
  BY DEF WriterOK, Wrote, Shape
<1>2. Changed(m, from) /\ token \in Tokens
  BY DEF Wrote
<1>3. token = "BEGIN" =>
        \/ InUnit(m) /\ Opened(m, "block")
        \/ m = <<>> /\ nest = <<"unit", "block">>
        \/ InUnit(m) /\ Turned(m, "declarations", "block")
        \/ InUnit(m) /\ Turned(m, "package", "initialization")
  <2> SUFFICES ASSUME token = "BEGIN"
               PROVE  \/ InUnit(m) /\ Opened(m, "block")
                      \/ m = <<>> /\ nest = <<"unit", "block">>
                      \/ InUnit(m) /\ Turned(m, "declarations", "block")
                      \/ InUnit(m) /\ Turned(m, "package", "initialization")
    OBVIOUS
  <2>1. /\ {"block", "declarations", "package"} \subseteq Frames \ Expressions
        /\ <<"unit">> # <<>>
    BY EachFrame DEF Expressions
  <2>2. Opened(m, "block") /\ m # <<>> => InUnit(m)
    BY <1>1, <2>1, InUnitUnless DEF Opened
  <2>3. \A g : Turned(m, "declarations", g) \/ Turned(m, "package", g) => InUnit(m)
    BY <1>1, <2>1, InUnitUnless DEF Turned
  <2>4. \/ Opened(m, "block") /\ m # <<>>
        \/ m = <<>> /\ nest = <<"unit", "block">>
        \/ Turned(m, "declarations", "block")
        \/ Turned(m, "package", "initialization")
    <3>1. WroteBegin(m, from)
      BY <1>2 DEF Changed
    <3>2. from = "header" => m # <<>>
      BY <2>1 DEF Wrote
    <3> QED
      BY <3>1, <3>2 DEF WroteBegin
  <2> QED
    BY <2>2, <2>3, <2>4
<1>4. token = "END" =>
        \E f \in {"case", "block", "initialization"} \cup Declarations \cup Control : Closed(m, f)
  BY <1>2 DEF Changed, WroteEnd
<1>5. token = "REPEAT" => Kept(m)
  <2>1. ~Opened(m, "repeat")
    BY <1>1, EachFrame, InUnitUnless DEF Opened
  <2> QED
    BY <1>2, <2>1 DEF Changed
<1>6. token \notin {"(", ")", "CASE", "BEGIN", "END", "IF", "LOOP", "THEN", "/", "DECLARE",
                    "PROCEDURE", "TYPE", "PACKAGE", "IS", "WHILE", "FOR"} => Kept(m)
  <2>1. token # "ATOMIC"
    BY <1>2 DEF Changed
  <2>2. token \notin {"(", ")", "CASE", "BEGIN", "END", "IF", "LOOP", "THEN", "/", "DECLARE",
                      "PROCEDURE", "TYPE", "PACKAGE", "IS", "WHILE", "FOR", "ATOMIC", "REPEAT"}
          => token \in Neutral
    BY <1>2 DEF Tokens, Neutral
  <2>3. token \in Neutral => Kept(m)
    BY <1>2 DEF Changed
  <2> QED
    BY <1>5, <2>1, <2>2, <2>3
<1>7. /\ token = "(" => Opened(m, "(") \/ (Kept(m) /\ at = "accessible")
      /\ token = ")" => Closed(m, "(") \/ (Kept(m) /\ from = "accessible-by")
      /\ token = "CASE" =>
           \/ from = "CASE" /\ Kept(m)
           \/ Opened(m, "case") \/ Opened(m, "case-head")
      /\ token = "IF" => (from = "IF" /\ Kept(m)) \/ Opened(m, "if-head")
      /\ token = "LOOP" =>
           \/ from = "LOOP" /\ Kept(m)
           \/ Opened(m, "loop") \/ Turned(m, "loop-head", "loop")
      /\ token = "THEN" => Turned(m, "if-head", "if") \/ Turned(m, "case-head", "case-statement")
      /\ token = "/" => m = <<"unit">> /\ nest = <<>>
      /\ WroteUnit(m, from)
  BY <1>2 DEF Changed
<1> QED
  BY <1>1, <1>3, <1>4, <1>6, <1>7

\* PL/SQL starts with certain tokens.
LEMMA OracleUnits ==
  ASSUME NEW m, NEW from, dialect = "oracle", WriterOK, Wrote(m, from)
  PROVE  /\ token \in {"DECLARE", "BEGIN", "PROCEDURE", "TYPE", "PACKAGE"} =>
              /\ InUnit(nest)
              /\ \/ InUnit(m)
                 \/ m = <<>> /\ (token \in {"DECLARE", "BEGIN"} \/ from = "create")
         /\ token \notin {"DECLARE", "BEGIN", "PROCEDURE", "TYPE", "PACKAGE", "/"} =>
              (InUnit(nest) <=> InUnit(m))
<1>1. m \in Seq(Frames) /\ nest \in Seq(Frames) /\ Shape(m) /\ Shape(nest) /\ WroteUnit(m, from)
  BY OracleChanges
<1>2. /\ \A f \in Frames : Opened(m, f) => (InUnit(nest) <=> InUnit(m) \/ f = "unit")
      /\ \A f \in Frames \ {"unit"} : Closed(m, f) => (InUnit(nest) <=> InUnit(m))
      /\ \A f, g \in Frames \ {"unit"} : Turned(m, f, g) => (InUnit(nest) <=> InUnit(m))
      /\ Kept(m) => (InUnit(nest) <=> InUnit(m))
  <2>1. \A r \in Seq(Frames), f \in Frames : InUnit(Append(r, f)) <=> InUnit(r) \/ f = "unit"
    BY HoldsPush DEF InUnit
  <2>2. \A f \in Frames : Opened(m, f) => (InUnit(nest) <=> InUnit(m) \/ f = "unit")
    BY <1>1, <2>1 DEF Opened
  <2>3. \A f \in Frames \ {"unit"} : Closed(m, f) => (InUnit(nest) <=> InUnit(m))
    BY <1>1, <2>1 DEF Closed
  <2>4. ASSUME NEW f \in Frames \ {"unit"}, NEW g \in Frames \ {"unit"}, Turned(m, f, g)
        PROVE  InUnit(nest) <=> InUnit(m)
    <3>1. PICK r \in Seq(Frames) : m = Append(r, f) /\ nest = Append(r, g)
      BY <2>4 DEF Turned
    <3>2. (InUnit(m) <=> InUnit(r)) /\ (InUnit(nest) <=> InUnit(r))
      BY <2>1, <3>1
    <3> QED
      BY <3>2
  <2> QED
    BY <2>2, <2>3, <2>4 DEF Kept
<1>3. \A f \in Frames : InUnit(<<"unit", f>>) /\ InUnit(<<"unit">>)
  <2>1. "unit" \in Frames
    BY EachFrame
  <2>2. \A f \in Frames : <<"unit", f>> = Append(Append(<<>>, "unit"), f)
                          /\ <<"unit">> = Append(<<>>, "unit")
    BY <2>1, Given
  <2>3. <<>> \in Seq(Frames) /\ Append(<<>>, "unit") \in Seq(Frames)
    BY <2>1, Given, Push
  <2>4. InUnit(Append(<<>>, "unit"))
    BY <2>1, <2>3, HoldsPush DEF InUnit
  <2>5. ASSUME NEW f \in Frames PROVE InUnit(Append(Append(<<>>, "unit"), f))
    BY <2>3, <2>4, HoldsPush DEF InUnit
  <2> QED
    BY <2>2, <2>4, <2>5
<1>4. /\ {"(", "case", "case-head", "if-head", "loop", "loop-head", "if", "case-statement",
          "block", "declarations", "package", "compound", "type-body",
          "initialization"} \subseteq Frames \ {"unit"}
      /\ {"case", "block", "initialization"} \cup Declarations \cup Control \subseteq Frames \ {"unit"}
      /\ "unit" \in Frames
  BY EachFrame DEF Declarations, Control
<1>5. from = "compound" => InUnit(m)
  BY <1>3, <1>4 DEF Wrote, UnitHead
<1>6. ASSUME token \in {"DECLARE", "BEGIN", "PROCEDURE", "TYPE", "PACKAGE"}
      PROVE  /\ InUnit(nest)
             /\ \/ InUnit(m)
                \/ m = <<>> /\ (token \in {"DECLARE", "BEGIN"} \/ from = "create")
  <2>1. CASE token = "DECLARE"
    BY <1>1, <1>2, <1>3, <1>4, <2>1 DEF WroteUnit
  <2>2. CASE token = "BEGIN"
    BY <1>2, <1>3, <1>4, <2>2, OracleChanges
  <2>3. CASE token = "PROCEDURE"
    BY <1>1, <1>2, <1>3, <1>4, <1>5, <2>3 DEF WroteUnit
  <2>4. CASE token = "TYPE"
    BY <1>1, <1>2, <1>3, <1>4, <2>4 DEF WroteUnit
  <2>5. CASE token = "PACKAGE"
    BY <1>1, <1>3, <1>4, <2>5 DEF WroteUnit
  <2> QED
    BY <1>6, <2>1, <2>2, <2>3, <2>4, <2>5
<1>7. ASSUME token \notin {"DECLARE", "BEGIN", "PROCEDURE", "TYPE", "PACKAGE", "/"}
      PROVE  InUnit(nest) <=> InUnit(m)
  <2>1. CASE token \in {"(", ")", "CASE", "IF", "LOOP", "THEN"}
    <3>1. \/ Kept(m) \/ Closed(m, "(")
          \/ \E f \in {"(", "case", "case-head", "if-head", "loop"} : Opened(m, f)
          \/ Turned(m, "loop-head", "loop") \/ Turned(m, "if-head", "if")
          \/ Turned(m, "case-head", "case-statement")
      BY <2>1, OracleChanges
    <3> QED
      BY <1>2, <1>4, <3>1
  <2>2. CASE token = "END"
    BY <1>2, <1>4, <2>2, OracleChanges
  <2>3. CASE token \in {"IS", "WHILE", "FOR"}
    <3>1. \/ Kept(m)
          \/ \E f \in {"package", "declarations", "type-body", "loop-head"} : Opened(m, f)
      BY <1>1, <2>3 DEF WroteUnit, WroteFor
    <3> QED
      BY <1>2, <1>4, <3>1
  <2>4. CASE token \notin {"(", ")", "CASE", "IF", "LOOP", "THEN", "END", "IS", "WHILE", "FOR"}
    BY <1>2, <1>7, <2>4, OracleChanges
  <2> QED
    BY <2>1, <2>2, <2>3, <2>4
<1> QED
  BY <1>6, <1>7

\* What each token does to the number of frames that Oracle's parser should count.
LEMMA OracleEffect ==
  ASSUME NEW m, NEW from, NEW n, n = nest, dialect = "oracle", WriterOK, Wrote(m, from),
         NEW F, F = OracleFrames
  PROVE  /\ Outside(m, F) \in Nat /\ Outside(n, F) \in Nat
         /\ Count(m, {"("}) \in Nat /\ Count(n, {"("}) \in Nat
         /\ token = "(" =>
              \/ Kept(m) /\ at = "accessible"
              \/ Opened(m, "(") /\ Count(n, {"("}) = Count(m, {"("}) + 1
                   /\ Outside(n, F) = Outside(m, F)
         /\ token = ")" =>
              \/ Kept(m) /\ from = "accessible-by"
              \/ Count(m, {"("}) = Count(n, {"("}) + 1 /\ Outside(n, F) = Outside(m, F)
         /\ token \in {"CASE", "IF"} => (from = token /\ Same(m, n, F)) \/ Pushed(m, n, F)
         /\ token = "LOOP" =>
              \/ from = "LOOP" /\ Same(m, n, F)
              \/ Pushed(m, n, F)
              \/ Same(m, n, F) /\ Holds(m, "loop-head")
         /\ token = "BEGIN" => Pushed(m, n, F) \/ (Same(m, n, F) /\ Holds(m, "package"))
         /\ token = "WHILE" => Pushed(m, n, F)
         /\ token = "FOR" =>
              \/ Pushed(m, n, F)
              \/ /\ Same(m, n, F)
                 /\ \/ Count(m, {"("}) > 0 \/ Outside(m, F) = 0
                    \/ \E f \in {"package", "compound", "initialization"} : Holds(m, f)
         /\ token = "END" => Popped(m, n, F) \/ Same(m, n, F)
         /\ token \notin {"(", ")", "CASE", "IF", "LOOP", "BEGIN", "WHILE", "FOR", "END", "/"} =>
              Same(m, n, F)
<1>1. /\ m \in Seq(Frames) /\ n \in Seq(Frames) /\ Shape(m) /\ Shape(n) /\ WroteUnit(m, from)
  BY n = nest, OracleChanges
<1>2. /\ {"block", "if-head", "if", "case-head", "case-statement", "case", "loop-head",
          "loop"} \subseteq F \cap (Frames \ {"("})
      /\ {"declarations", "package", "compound", "type-body", "initialization",
          "unit"} \subseteq (Frames \ {"("}) \ F
      /\ "(" \in Frames \ F
  BY EachFrame, F = OracleFrames DEF OracleFrames
<1>3. /\ Outside(m, F) \in Nat /\ Count(m, {"("}) \in Nat
      /\ \A f \in Frames \ {"("} :
           /\ n = Append(m, f) => IF f \in F THEN Pushed(m, n, F) ELSE Same(m, n, F)
           /\ m = Append(n, f) => IF f \in F THEN Popped(m, n, F) ELSE Same(m, n, F)
      /\ n = Append(m, "(") =>
           Count(n, {"("}) = Count(m, {"("}) + 1 /\ Outside(n, F) = Outside(m, F)
      /\ m = Append(n, "(") =>
           Count(m, {"("}) = Count(n, {"("}) + 1 /\ Outside(n, F) = Outside(m, F)
      /\ m = n => Same(m, n, F)
      /\ \A r \in Seq(Frames), f, g \in Frames \ {"("} :
           m = Append(r, f) /\ n = Append(r, g) /\ (f \in F <=> g \in F) => Same(m, n, F)
  <2>1. m \in Seq(Frames) /\ n \in Seq(Frames) /\ "(" \notin F
    BY <1>1, <1>2
  <2> QED
    BY ONLY <2>1, CountsOf
<1>4. Outside(n, F) \in Nat /\ Count(n, {"("}) \in Nat
  <2>1. n \in Seq(Frames) /\ "(" \notin F
    BY <1>1, <1>2
  <2> QED
    BY ONLY <2>1, CountsOf
<1>5. /\ \A f \in {"block", "case-head", "case", "if-head", "loop-head", "loop"} :
           Opened(m, f) => Pushed(m, n, F)
      /\ \A f \in {"declarations", "package", "compound", "type-body"} :
           Opened(m, f) => Same(m, n, F)
      /\ \A f \in Frames \ {"("} : Closed(m, f) => Popped(m, n, F) \/ Same(m, n, F)
      /\ Kept(m) => Same(m, n, F)
  BY <1>2, <1>3, n = nest DEF Opened, Closed, Kept
<1>6. /\ Turned(m, "if-head", "if") => Same(m, n, F)
      /\ Turned(m, "case-head", "case-statement") => Same(m, n, F)
      /\ Turned(m, "loop-head", "loop") => Same(m, n, F) /\ Holds(m, "loop-head")
      /\ Turned(m, "package", "initialization") => Same(m, n, F) /\ Holds(m, "package")
  <2>1. Turned(m, "if-head", "if") => Same(m, n, F)
    BY <1>2, <1>3, n = nest DEF Turned
  <2>2. Turned(m, "case-head", "case-statement") => Same(m, n, F)
    BY <1>2, <1>3, n = nest DEF Turned
  <2>3. Turned(m, "loop-head", "loop") => Same(m, n, F)
    BY <1>2, <1>3, n = nest DEF Turned
  <2>4. Turned(m, "package", "initialization") => Same(m, n, F)
    BY <1>2, <1>3, n = nest DEF Turned
  <2>5. \A f \in Frames : \A g : Turned(m, f, g) => Holds(m, f)
    BY HoldsPush DEF Turned
  <2> QED
    BY <1>2, <2>1, <2>2, <2>3, <2>4, <2>5
<1>7. ASSUME NEW r \in Seq(Frames), NEW f \in Frames \ {"("}
      PROVE  /\ Count(Append(r, f), {"("}) = Count(r, {"("})
             /\ Count(r, {"("}) = 0 =>
                  Outside(Append(r, f), F) = IF f \in F THEN Outside(r, F) + 1 ELSE Outside(r, F)
  BY <1>2, OutsidePush
<1>8. Turned(m, "declarations", "block") => Pushed(m, n, F)
  <2> SUFFICES ASSUME NEW r \in Seq(Frames), m = Append(r, "declarations"), n = Append(r, "block")
               PROVE  Pushed(m, n, F)
    BY n = nest DEF Turned
  <2>1. /\ Count(m, {"("}) = Count(r, {"("}) /\ Outside(m, F) = Outside(r, F)
        /\ Count(n, {"("}) = Count(r, {"("})
        /\ Outside(n, F) = IF Count(r, {"("}) = 0 THEN Outside(r, F) + 1 ELSE Outside(r, F)
    <3>1. /\ "declarations" \in Frames /\ "declarations" # "(" /\ "declarations" \notin F
          /\ "block" \in Frames /\ "block" # "(" /\ "block" \in F /\ "(" \notin F
      BY <1>2
    <3> QED
      BY <3>1, OutsidePush
  <2> QED
    BY <2>1 DEF Pushed
<1>9. /\ "unit" \in Frames /\ "unit" # "(" /\ "unit" \notin F
      /\ "block" \in Frames /\ "block" # "(" /\ "block" \in F
      /\ "declarations" \in Frames /\ "declarations" # "(" /\ "declarations" \notin F
  BY <1>2
<1>10. /\ Count(<<>>, {"("}) = 0 /\ Outside(<<>>, F) = 0
       /\ Count(<<"unit">>, {"("}) = 0 /\ Outside(<<"unit">>, F) = 0
       /\ Count(<<"unit", "block">>, {"("}) = 0 /\ Outside(<<"unit", "block">>, F) = 1
       /\ Count(<<"unit", "declarations">>, {"("}) = 0
       /\ Outside(<<"unit", "declarations">>, F) = 0
  <2>1. Count(<<>>, {"("}) = 0 /\ Outside(<<>>, F) = 0
    BY CountEmpty, OutsideEmpty
  <2>2. /\ <<>> \in Seq(Frames) /\ <<"unit">> = Append(<<>>, "unit")
        /\ <<"unit", "block">> = Append(<<"unit">>, "block")
        /\ <<"unit", "declarations">> = Append(<<"unit">>, "declarations")
        /\ <<"unit">> \in Seq(Frames)
    BY <1>9, Given, Push
  <2>3. Count(<<"unit">>, {"("}) = 0 /\ Outside(<<"unit">>, F) = 0
    <3>1. /\ Count(Append(<<>>, "unit"), {"("}) = Count(<<>>, {"("})
          /\ Count(<<>>, {"("}) = 0 => Outside(Append(<<>>, "unit"), F) = Outside(<<>>, F)
      BY <1>7, <1>9, <2>2
    <3> QED
      BY <2>1, <2>2, <3>1
  <2>4. Count(<<"unit", "block">>, {"("}) = 0 /\ Outside(<<"unit", "block">>, F) = 0 + 1
    BY <1>7, <1>9, <2>2, <2>3
  <2>5. /\ Count(<<"unit", "declarations">>, {"("}) = 0
        /\ Outside(<<"unit", "declarations">>, F) = 0
    <3>1. /\ Count(Append(<<"unit">>, "declarations"), {"("}) = Count(<<"unit">>, {"("})
          /\ Count(<<"unit">>, {"("}) = 0 =>
               Outside(Append(<<"unit">>, "declarations"), F) = Outside(<<"unit">>, F)
      BY ONLY <1>7, <1>9, <2>2
    <3> QED
      BY <2>2, <2>3, <3>1
  <2> QED
    BY <2>1, <2>3, <2>4, <2>5
<1>11. /\ m = <<>> /\ n = <<"unit", "block">> => Pushed(m, n, F)
       /\ m = <<>> /\ n = <<"unit", "declarations">> => Same(m, n, F)
       /\ m = <<>> /\ n = <<"unit">> => Same(m, n, F)
  BY <1>10 DEF Pushed, Same
<1>12. token = "(" =>
         \/ Kept(m) /\ at = "accessible"
         \/ Opened(m, "(") /\ Count(n, {"("}) = Count(m, {"("}) + 1 /\ Outside(n, F) = Outside(m, F)
  BY <1>3, n = nest, OracleChanges DEF Opened
<1>13. token = ")" =>
         \/ Kept(m) /\ from = "accessible-by"
         \/ Count(m, {"("}) = Count(n, {"("}) + 1 /\ Outside(n, F) = Outside(m, F)
  BY <1>3, n = nest, OracleChanges DEF Closed
<1>14. /\ token \in {"CASE", "IF"} => (from = token /\ Same(m, n, F)) \/ Pushed(m, n, F)
       /\ token = "LOOP" =>
            \/ from = "LOOP" /\ Same(m, n, F)
            \/ Pushed(m, n, F)
            \/ Same(m, n, F) /\ Holds(m, "loop-head")
       /\ token = "THEN" => Same(m, n, F)
  BY <1>5, <1>6, OracleChanges
<1>15. token = "BEGIN" => Pushed(m, n, F) \/ (Same(m, n, F) /\ Holds(m, "package"))
  BY <1>5, <1>6, <1>8, <1>11, n = nest, OracleChanges
<1>16. token = "END" => Popped(m, n, F) \/ Same(m, n, F)
  <2>1. {"case", "block", "initialization"} \cup Declarations \cup Control \subseteq Frames \ {"("}
    BY DEF Frames, Declarations, Control, Expressions
  <2> QED
    BY <1>5, <2>1, OracleChanges
<1>17. token = "WHILE" => Pushed(m, n, F)
  BY <1>1, <1>5 DEF WroteUnit
<1>18. token = "FOR" =>
         \/ Pushed(m, n, F)
         \/ /\ Same(m, n, F)
            /\ \/ Count(m, {"("}) > 0 \/ Outside(m, F) = 0
               \/ \E f \in {"package", "compound", "initialization"} : Holds(m, f)
  <2> SUFFICES ASSUME Kept(m),
                      \/ from = "header"
                      \/ \E f \in {"(", "package", "compound", "initialization"} : Holds(m, f)
                      \/ \A f \in OracleFrames : ~Holds(m, f)
               PROVE  \/ Count(m, {"("}) > 0 \/ Outside(m, F) = 0
                      \/ \E f \in {"package", "compound", "initialization"} : Holds(m, f)
    BY <1>1, <1>5 DEF WroteUnit, WroteFor
  <2>1. from = "header" => Outside(m, F) = 0
    BY <1>10 DEF Wrote
  <2>2. Holds(m, "(") => Count(m, {"("}) > 0
    <3>1. Holds(m, "(") => Count(m, {"("}) # 0
      BY <1>1, CountSome
    <3> QED
      BY <1>3, <3>1
  <2>3. ASSUME \A f \in OracleFrames : ~Holds(m, f) PROVE Outside(m, F) = 0
    <3>1. \A i \in DOMAIN m : m[i] \notin F
      BY <2>3, F = OracleFrames DEF Holds
    <3> QED
      BY <1>1, <3>1, CountedNone DEF Outside
  <2> QED
    BY <2>1, <2>2, <2>3
<1>19. token \in {"DECLARE", "PROCEDURE", "TYPE", "PACKAGE", "IS"} => Same(m, n, F)
  <2>1. token = "DECLARE" => Same(m, n, F)
    BY <1>1, <1>5, <1>11, n = nest DEF WroteUnit
  <2>2. token = "PROCEDURE" => Same(m, n, F)
    BY <1>1, <1>5, <1>11, n = nest DEF WroteUnit
  <2>3. token = "TYPE" => Same(m, n, F)
    BY <1>1, <1>5, <1>11, n = nest DEF WroteUnit
  <2>4. token = "PACKAGE" => Same(m, n, F)
    BY <1>1, <1>11, n = nest DEF WroteUnit
  <2>5. token = "IS" => Same(m, n, F)
    BY <1>1, <1>5 DEF WroteUnit
  <2> QED
    BY <2>1, <2>2, <2>3, <2>4, <2>5
<1>20. token \notin {"(", ")", "CASE", "IF", "LOOP", "BEGIN", "WHILE", "FOR", "END", "/"} =>
         Same(m, n, F)
  BY <1>5, <1>14, <1>19, OracleChanges
<1> QED
  BY <1>3, <1>4, <1>12, <1>13, <1>14, <1>15, <1>16, <1>17, <1>18, <1>20

\* What the parser's parens_depth is.
ParensOf(m, from) ==
  Count(m, {"("}) + IF from \in {"accessible", "accessible-by"} THEN 1 ELSE 0

\* Oracle's parser knows the open parentheses, those of ACCESSIBLE BY included.
LEMMA OracleParens ==
  ASSUME NEW m, NEW from, NEW n, NEW a, n = nest, a = at, dialect = "oracle", WriterOK,
         Wrote(m, from), token # "/"
  PROVE  /\ ParensOf(m, from) \in Nat /\ ParensOf(n, a) \in Nat
         /\ token = "(" => ParensOf(n, a) = ParensOf(m, from) + 1
         /\ token = ")" => ParensOf(m, from) = ParensOf(n, a) + 1
         /\ token \notin {"(", ")"} => ParensOf(n, a) = ParensOf(m, from)
         /\ ParensOf(m, from) > 0 =>
              Outside(n, OracleFrames) = Outside(m, OracleFrames)
         /\ ParensOf(m, from) = 0 =>
              Count(m, {"("}) = 0 /\ from \notin {"accessible", "accessible-by"}
<1> DEFINE F == OracleFrames
<1> HIDE DEF F
<1>1. /\ Outside(m, F) \in Nat /\ Outside(n, F) \in Nat
      /\ Count(m, {"("}) \in Nat /\ Count(n, {"("}) \in Nat
      /\ token = "(" =>
           \/ Kept(m) /\ at = "accessible"
           \/ Opened(m, "(") /\ Count(n, {"("}) = Count(m, {"("}) + 1
                /\ Outside(n, F) = Outside(m, F)
      /\ token = ")" =>
           \/ Kept(m) /\ from = "accessible-by"
           \/ Count(m, {"("}) = Count(n, {"("}) + 1 /\ Outside(n, F) = Outside(m, F)
      /\ token \in {"CASE", "IF"} => (from = token /\ Same(m, n, F)) \/ Pushed(m, n, F)
      /\ token = "LOOP" =>
           \/ from = "LOOP" /\ Same(m, n, F)
           \/ Pushed(m, n, F)
           \/ Same(m, n, F) /\ Holds(m, "loop-head")
      /\ token = "BEGIN" => Pushed(m, n, F) \/ (Same(m, n, F) /\ Holds(m, "package"))
      /\ token = "WHILE" => Pushed(m, n, F)
      /\ token = "FOR" =>
           \/ Pushed(m, n, F)
           \/ /\ Same(m, n, F)
              /\ \/ Count(m, {"("}) > 0 \/ Outside(m, F) = 0
                 \/ \E f \in {"package", "compound", "initialization"} : Holds(m, f)
      /\ token = "END" => Popped(m, n, F) \/ Same(m, n, F)
      /\ token \notin {"(", ")", "CASE", "IF", "LOOP", "BEGIN", "WHILE", "FOR", "END", "/"} =>
           Same(m, n, F)
  <2>1. F = OracleFrames
    BY DEF F
  <2> QED
    BY ONLY <2>1, n = nest, dialect = "oracle", WriterOK, Wrote(m, from), OracleEffect
<1>2. WroteUnit(m, from) /\ nest \in Seq(Frames)
  BY OracleChanges
<1>3. /\ at = "accessible" => token = "(" /\ from = "header"
      /\ at = "accessible-by" <=> from = "accessible"
      /\ at = "accessible-by" => token = "PROCEDURE"
      /\ from = "accessible-by" => token = ")" /\ Kept(m) /\ at = "header"
  BY <1>2 DEF WroteUnit
<1>4. /\ token \notin {"(", ")", "/"} => Pushed(m, n, F) \/ Popped(m, n, F) \/ Same(m, n, F)
  BY <1>1
<1>5. /\ Pushed(m, n, F) \/ Popped(m, n, F) \/ Same(m, n, F) => Count(n, {"("}) = Count(m, {"("})
      /\ Pushed(m, n, F) \/ Popped(m, n, F) \/ Same(m, n, F) =>
           Count(m, {"("}) = 0 \/ Outside(n, F) = Outside(m, F)
  BY DEF Pushed, Popped, Same
<1>6. Kept(m) => m = n
  BY DEF Kept
<1>7. at = "accessible" => ~Opened(m, "(")
  <2>1. at = "accessible" => nest = <<"unit">>
    BY DEF WriterOK, Placed, UnitHead
  <2>2. Last(<<"unit">>) = "unit"
    BY DEF Last
  <2>3. Opened(m, "(") => Last(nest) = "("
    <3>1. m \in Seq(Frames) /\ "(" \in Frames
      BY EachFrame DEF Wrote, Shape
    <3> QED
      BY <3>1, Push DEF Opened
  <2> QED
    BY <2>1, <2>2, <2>3
<1>8. /\ from \in {"accessible", "accessible-by"} => ParensOf(m, from) = Count(m, {"("}) + 1
      /\ from \notin {"accessible", "accessible-by"} => ParensOf(m, from) = Count(m, {"("})
      /\ a \in {"accessible", "accessible-by"} => ParensOf(n, a) = Count(n, {"("}) + 1
      /\ a \notin {"accessible", "accessible-by"} => ParensOf(n, a) = Count(n, {"("})
  <2>1. Count(m, {"("}) \in Nat /\ Count(n, {"("}) \in Nat
    BY <1>1
  <2>2. Count(m, {"("}) + 0 = Count(m, {"("}) /\ Count(n, {"("}) + 0 = Count(n, {"("})
    BY <2>1
  <2> QED
    BY <2>2 DEF ParensOf
<1>9. ParensOf(m, from) \in Nat /\ ParensOf(n, a) \in Nat
  <2>1. Count(m, {"("}) \in Nat /\ Count(n, {"("}) \in Nat
    BY <1>1
  <2> QED
    BY <1>8, <2>1
<1>10. ParensOf(m, from) = 0 => Count(m, {"("}) = 0 /\ from \notin {"accessible", "accessible-by"}
  <2>1. Count(m, {"("}) \in Nat
    BY <1>1
  <2> QED
    BY <1>8, <2>1
<1>11. token = "(" =>
         ParensOf(n, a) = ParensOf(m, from) + 1 /\ Outside(n, F) = Outside(m, F)
  <2> SUFFICES ASSUME token = "("
               PROVE  ParensOf(n, a) = ParensOf(m, from) + 1 /\ Outside(n, F) = Outside(m, F)
    OBVIOUS
  <2>1. from \notin {"accessible", "accessible-by"} /\ a # "accessible-by"
    BY <1>3
  <2>2. CASE a = "accessible"
    <3>1. m = n
      BY <1>1, <1>6, <1>7, <2>2
    <3> QED
      BY <1>8, <2>1, <2>2, <3>1
  <2>3. CASE a # "accessible"
    BY <1>1, <1>8, <2>1, <2>3
  <2> QED
    BY <2>2, <2>3
<1>12. token = ")" =>
         ParensOf(m, from) = ParensOf(n, a) + 1 /\ Outside(n, F) = Outside(m, F)
  <2> SUFFICES ASSUME token = ")"
               PROVE  ParensOf(m, from) = ParensOf(n, a) + 1 /\ Outside(n, F) = Outside(m, F)
    OBVIOUS
  <2>1. a \notin {"accessible", "accessible-by"} /\ from # "accessible"
    BY <1>3
  <2>2. CASE from = "accessible-by"
    <3>1. m = n
      BY <1>3, <1>6, <2>2
    <3> QED
      BY <1>8, <2>1, <2>2, <3>1
  <2>3. CASE from # "accessible-by"
    BY <1>1, <1>8, <2>1, <2>3
  <2> QED
    BY <2>2, <2>3
<1>13. token \notin {"(", ")"} =>
         /\ ParensOf(n, a) = ParensOf(m, from)
         /\ ParensOf(m, from) > 0 => Outside(n, F) = Outside(m, F)
  <2> SUFFICES ASSUME token \notin {"(", ")"}
               PROVE  /\ ParensOf(n, a) = ParensOf(m, from)
                      /\ ParensOf(m, from) > 0 => Outside(n, F) = Outside(m, F)
    OBVIOUS
  <2>1. Pushed(m, n, F) \/ Popped(m, n, F) \/ Same(m, n, F)
    BY <1>4
  <2>2. Count(n, {"("}) = Count(m, {"("})
    BY <1>5, <2>1
  <2>3. from \in {"accessible", "accessible-by"} <=> a \in {"accessible", "accessible-by"}
    BY <1>3
  <2>4. from \in {"accessible", "accessible-by"} => Outside(n, F) = Outside(m, F)
    BY <1>1, <1>3 DEF Same
  <2>5. ParensOf(n, a) = ParensOf(m, from)
    BY <1>8, <2>2, <2>3
  <2>6. ParensOf(m, from) > 0 =>
          Count(m, {"("}) # 0 \/ from \in {"accessible", "accessible-by"}
    BY <1>8
  <2> QED
    BY <1>5, <2>1, <2>4, <2>5, <2>6
<1> QED
  BY <1>9, <1>10, <1>11, <1>12, <1>13 DEF F

\* What raises the depth.
Rises(next) ==
  \/ token = "BEGIN" \/ EntersPackage
  \/ token \in {"IF", "CASE"} /\ Previous # "END"
  \/ token = "LOOP" /\ Previous # "END" /\ oracle.since = OutOfReach
  \/ token = "WHILE" /\ depth > 0
  \/ token = "FOR" /\ depth > 0 /\ next # "EACH"

\* What Oracle's parser does with each token, by its fields.
LEMMA OracleFields ==
  ASSUME ContextTyped, NEW next, NEW b, b = OracleBlocks(next)
  PROVE  /\ parens > 0 => b.depth = depth /\ b.program = program
         /\ parens = 0 =>
              /\ b.program = (program \/ StartsPlSql)
              /\ b.depth = IF Rises(next) THEN depth + 1
                           ELSE IF token = "END" /\ depth > 0 THEN depth - 1 ELSE depth
<1>0. \A p : /\ Level(0, p).depth = depth + 0 /\ Level(0, p).program = p
             /\ Level(1, p).depth = depth + 1 /\ Level(1, p).program = p
             /\ Level(-1, p).depth = depth + (-1) /\ Level(-1, p).program = p
  BY DEF Level
<1>1. depth + 0 = depth /\ depth + (-1) = depth - 1 /\ parens \in Nat
  BY DEF ContextTyped
<1>2. CASE parens > 0
  <2>1. b = Level(0, program)
    BY <1>2 DEF OracleBlocks
  <2> QED
    BY <1>0, <1>1, <1>2, <2>1
<1>3. CASE parens = 0
  <2>1. b = Level(IF Rises(next) THEN 1 ELSE IF token = "END" /\ depth > 0 THEN -1 ELSE 0,
                  program \/ StartsPlSql)
    BY <1>3 DEF OracleBlocks, Rises
  <2>2. CASE Rises(next)
    BY <1>0, <1>3, <2>1, <2>2
  <2>3. CASE ~Rises(next) /\ token = "END" /\ depth > 0
    BY <1>0, <1>1, <1>3, <2>1, <2>3
  <2>4. CASE ~Rises(next) /\ ~(token = "END" /\ depth > 0)
    BY <1>0, <1>1, <1>3, <2>1, <2>4
  <2> QED
    BY <2>2, <2>3, <2>4
<1> QED
  BY <1>1, <1>2, <1>3

\* Where a package, a compound trigger and an initialization come from.
LEMMA NewFrames ==
  ASSUME NEW m, NEW from, NEW n, n = nest, dialect = "oracle", WriterOK, Wrote(m, from),
         NEW g \in {"package", "compound", "initialization"}, Holds(n, g), ~Holds(m, g)
  PROVE  \/ token = "IS" /\ from = "package"
         \/ token = "PROCEDURE" /\ from = "compound"
         \/ Turned(m, "package", "initialization")
<1>1. /\ m \in Seq(Frames) /\ n \in Seq(Frames) /\ WroteUnit(m, from)
      /\ g \in Frames
  BY OracleChanges, EachFrame
<1>2. /\ \A f \in Frames : Opened(m, f) => f = g
      /\ \A f \in Frames : ~Closed(m, f)
      /\ ~Kept(m)
      /\ \A f, h \in Frames : Turned(m, f, h) => h = g
      /\ ~Holds(<<>>, g)
  <2>1. \A f \in Frames : Opened(m, f) => f = g
    BY <1>1, HoldsPush DEF Opened
  <2>2. ASSUME NEW f \in Frames, Closed(m, f) PROVE FALSE
    <3>1. Holds(Append(n, f), g)
      BY <1>1, HoldsPush
    <3> QED
      BY <2>2, <3>1 DEF Closed
  <2>3. ~Kept(m)
    BY DEF Kept
  <2>4. \A f, h \in Frames : Turned(m, f, h) => h = g
    BY <1>1, HoldsPush DEF Turned
  <2>5. ~Holds(<<>>, g)
    BY Given DEF Holds
  <2> QED
    BY <2>1, <2>2, <2>3, <2>4, <2>5
<1>3. n # <<>> /\ n # <<"unit">> /\ n # <<"unit", "block">> /\ n # <<"unit", "declarations">>
  <2>1. /\ <<>> \in Seq(Frames) /\ {"unit", "block", "declarations"} \subseteq Frames
        /\ <<"unit">> = Append(<<>>, "unit") /\ Append(<<>>, "unit") \in Seq(Frames)
        /\ <<"unit", "block">> = Append(Append(<<>>, "unit"), "block")
        /\ <<"unit", "declarations">> = Append(Append(<<>>, "unit"), "declarations")
    BY EachFrame, Given, Push
  <2>2. ~Holds(Append(<<>>, "unit"), g)
    BY <1>2, <2>1, HoldsPush
  <2>3. ~Holds(Append(Append(<<>>, "unit"), "block"), g)
    BY <2>1, <2>2, HoldsPush
  <2>4. ~Holds(Append(Append(<<>>, "unit"), "declarations"), g)
    BY <2>1, <2>2, HoldsPush
  <2> QED
    BY <1>2, <2>1, <2>2, <2>3, <2>4
<1>4. token \in {"BEGIN", "DECLARE", "PROCEDURE", "TYPE", "PACKAGE", "IS"}
  <2>1. CASE token \in {"(", ")", "CASE", "IF", "LOOP", "THEN", "/"}
    <3>1. \/ Kept(m) \/ Closed(m, "(")
          \/ \E f \in {"(", "case", "case-head", "if-head", "loop"} : Opened(m, f)
          \/ Turned(m, "loop-head", "loop") \/ Turned(m, "if-head", "if")
          \/ Turned(m, "case-head", "case-statement") \/ n = <<>>
      BY <2>1, OracleChanges
    <3> QED
      BY <1>2, <1>3, <3>1, EachFrame
  <2>2. token # "END"
    <3>1. {"case", "block", "initialization"} \cup Declarations \cup Control \subseteq Frames
      BY DEF Frames, Expressions
    <3> QED
      BY <1>2, <3>1, OracleChanges
  <2>3. token \notin {"WHILE", "FOR"}
    <3>1. token \in {"WHILE", "FOR"} => Kept(m) \/ Opened(m, "loop-head")
      BY <1>1 DEF WroteUnit, WroteFor
    <3> QED
      BY <1>2, <3>1, EachFrame
  <2> QED
    BY <1>2, <2>1, <2>2, <2>3, OracleChanges
<1>5. token = "BEGIN" => Turned(m, "package", "initialization")
  <2>1. token = "BEGIN" =>
          \/ Opened(m, "block") \/ n = <<"unit", "block">> \/ Turned(m, "declarations", "block")
          \/ Turned(m, "package", "initialization")
    BY OracleChanges
  <2> QED
    BY <1>2, <1>3, <2>1, EachFrame
<1>6. token = "IS" => from = "package"
  BY <1>1, <1>2, EachFrame DEF WroteUnit
<1>7. token = "PROCEDURE" => from = "compound"
  BY <1>1, <1>2, <1>3 DEF WroteUnit
<1>8. token \notin {"DECLARE", "TYPE", "PACKAGE"}
  BY <1>1, <1>2, <1>3, EachFrame DEF WroteUnit
<1> QED
  BY <1>4, <1>5, <1>6, <1>7, <1>8

\* The head of a loop is open only between FOR or WHILE and LOOP.
LEMMA LoopHeads ==
  ASSUME NEW m, NEW from, NEW n, n = nest, dialect = "oracle", WriterOK, Wrote(m, from),
         Holds(n, "loop-head"), token \notin {"FOR", "WHILE", "/"}
  PROVE  Holds(m, "loop-head") /\ token \notin {"END", "BEGIN", "THEN"}
<1>1. /\ m \in Seq(Frames) /\ n \in Seq(Frames) /\ Shape(m) /\ Shape(n) /\ WroteUnit(m, from)
      /\ "loop-head" \in Frames
  BY OracleChanges, EachFrame
<1>2. /\ \A f \in Frames : Opened(m, f) => f = "loop-head" \/ (Holds(m, "loop-head") /\ f = "(")
      /\ \A f \in Frames : Closed(m, f) => Holds(m, "loop-head") /\ f = "("
      /\ Kept(m) => Holds(m, "loop-head")
      /\ \A f, h \in Frames : Turned(m, f, h) => h = "loop-head" \/ h = "("
      /\ ~Holds(<<>>, "loop-head")
  <2>1. \A r \in Seq(Frames), f \in Frames :
          Shape(Append(r, f)) /\ Holds(r, "loop-head") => f = "("
    BY InUnitUnless
  <2>2. \A r \in Seq(Frames), f \in Frames :
          Holds(Append(r, f), "loop-head") <=> Holds(r, "loop-head") \/ f = "loop-head"
    BY <1>1, HoldsPush
  <2>3. \A f \in Frames : Opened(m, f) => f = "loop-head" \/ (Holds(m, "loop-head") /\ f = "(")
    BY <1>1, <2>1, <2>2 DEF Opened
  <2>4. \A f \in Frames : Closed(m, f) => Holds(m, "loop-head") /\ f = "("
    BY <1>1, <2>1, <2>2 DEF Closed
  <2>5. \A f, h \in Frames : Turned(m, f, h) => h = "loop-head" \/ h = "("
    BY <1>1, <2>1, <2>2 DEF Turned
  <2>6. ~Holds(<<>>, "loop-head")
    BY Given DEF Holds
  <2> QED
    BY <2>3, <2>4, <2>5, <2>6 DEF Kept
<1>3. n # <<>> /\ n # <<"unit">> /\ n # <<"unit", "block">> /\ n # <<"unit", "declarations">>
  <2>1. /\ <<>> \in Seq(Frames) /\ {"unit", "block", "declarations"} \subseteq Frames
        /\ <<"unit">> = Append(<<>>, "unit") /\ Append(<<>>, "unit") \in Seq(Frames)
        /\ <<"unit", "block">> = Append(Append(<<>>, "unit"), "block")
        /\ <<"unit", "declarations">> = Append(Append(<<>>, "unit"), "declarations")
    BY EachFrame, Given, Push
  <2>2. ~Holds(Append(<<>>, "unit"), "loop-head")
    BY <1>2, <2>1, HoldsPush
  <2>3. ~Holds(Append(Append(<<>>, "unit"), "block"), "loop-head")
    BY <2>1, <2>2, HoldsPush
  <2>4. ~Holds(Append(Append(<<>>, "unit"), "declarations"), "loop-head")
    BY <2>1, <2>2, HoldsPush
  <2> QED
    BY <1>2, <2>1, <2>2, <2>3, <2>4
<1>4. token # "END"
  <2>1. {"case", "block", "initialization"} \cup Declarations \cup Control \subseteq Frames \ {"("}
    BY DEF Frames, Declarations, Control, Expressions
  <2> QED
    BY <1>2, <2>1, OracleChanges
<1>5. token # "BEGIN"
  <2>1. token = "BEGIN" =>
          \/ Opened(m, "block") \/ n = <<"unit", "block">> \/ Turned(m, "declarations", "block")
          \/ Turned(m, "package", "initialization")
    BY OracleChanges
  <2> QED
    BY <1>2, <1>3, <2>1, EachFrame
<1>6. token \notin {"THEN", "LOOP"} \/ (token = "LOOP" /\ (Kept(m) \/ Opened(m, "loop")))
  <2>1. ~Turned(m, "if-head", "if") /\ ~Turned(m, "case-head", "case-statement")
          /\ ~Turned(m, "loop-head", "loop")
    BY <1>2, EachFrame
  <2> QED
    BY <2>1, OracleChanges
<1>7. Holds(m, "loop-head")
  <2>1. CASE token \in {"(", ")", "CASE", "IF", "LOOP"}
    <3>1. \/ Kept(m) \/ Closed(m, "(")
          \/ \E f \in {"(", "case", "case-head", "if-head", "loop"} : Opened(m, f)
      BY <1>6, <2>1, OracleChanges
    <3> QED
      BY <1>2, <3>1, EachFrame
  <2>2. CASE token \in {"DECLARE", "PROCEDURE", "TYPE", "PACKAGE", "IS"}
    <3>1. Kept(m) \/ \E f \in {"declarations", "compound", "package", "type-body"} : Opened(m, f)
      BY <1>1, <1>3, <2>2 DEF WroteUnit
    <3> QED
      BY <1>2, <3>1, EachFrame
  <2>3. CASE token \notin {"(", ")", "CASE", "IF", "LOOP", "DECLARE", "PROCEDURE", "TYPE",
                           "PACKAGE", "IS"}
    BY <1>2, <1>4, <1>5, <1>6, <2>3, OracleChanges
  <2> QED
    BY <2>1, <2>2, <2>3
<1> QED
  BY <1>4, <1>5, <1>6, <1>7

\* Oracle's parser cuts as the writer ends, and stays in step.
LEMMA OracleStep ==
  ASSUME NEW m, NEW from, NEW n, NEW a, Reads(m, from, n, a), dialect = "oracle"
  PROVE  (split' <=> ahead.ends) /\ AgreeOracle(n, a)'
<1> DEFINE b == OracleBlocks(token')
           F == OracleFrames
           cut == StatementEnd(b.depth)
<1>1. /\ WriterOK /\ Wrote(m, from) /\ ContextTyped /\ AgreeOracle(m, from) /\ Memory(from)
      /\ token \notin NewDelimiter \cup {"none", "eof"} /\ n = nest /\ a = at
      /\ dialect' = "oracle" /\ Wrote(n, a)'
  BY DEF Reads, InStep, Agree
<1>2. /\ split' = cut
      /\ depth' = IF cut THEN 0 ELSE b.depth
      /\ program' = (b.program /\ ~cut)
      /\ parens' = IF cut THEN 0 ELSE ParensDepth
      /\ oracle' = IF cut THEN NewOracle ELSE OracleNotes
  <2>1. Blocks(token') = b
    BY DEF Blocks
  <2> QED
    BY <2>1 DEF Reads, Parse
<1>3. /\ Ends(m, from) /\ Changed(m, from) /\ WroteUnit(m, from)
      /\ m \in Seq(Frames) /\ n \in Seq(Frames) /\ Shape(m) /\ Shape(n)
  BY <1>1, OracleChanges DEF Wrote
<1>4. /\ parens = ParensOf(m, from) /\ (program <=> InUnit(m))
      /\ oracle.package \/ oracle.declaration \/ oracle.seen # {} => program
      /\ oracle.package \/ depth <= Outside(m, F)
      /\ from = "create" => oracle.create
      /\ from = "package" => oracle.create /\ "PACKAGE" \in oracle.seen
      /\ \A f \in {"package", "compound", "initialization"} : Holds(m, f) => oracle.package
      /\ LoopHeadSeen(m)
  BY <1>1 DEF AgreeOracle, ParensOf
<1>5. /\ parens \in Nat /\ depth \in Nat /\ program \in BOOLEAN
      /\ oracle.package \in BOOLEAN /\ oracle.declaration \in BOOLEAN /\ oracle.create \in BOOLEAN
      /\ oracle.since \in Nat /\ oracle.seen \subseteq {"PACKAGE", "PROCEDURE"}
  BY <1>1 DEF ContextTyped
<1>6. /\ parens > 0 => b.depth = depth /\ b.program = program
      /\ parens = 0 =>
           /\ b.program = (program \/ StartsPlSql)
           /\ b.depth = IF Rises(token') THEN depth + 1
                        ELSE IF token = "END" /\ depth > 0 THEN depth - 1 ELSE depth
  BY <1>1, OracleFields
<1>7. b.program \in BOOLEAN /\ (program => b.program)
  <2>1. parens = 0 \/ parens > 0
    BY <1>5
  <2>2. StartsPlSql \in BOOLEAN
    BY DEF StartsPlSql
  <2> QED
    BY <1>5, <1>6, <2>1, <2>2
<1>8. /\ Outside(<<>>, F) = 0 /\ Count(<<>>, {"("}) = 0 /\ \A f : ~Holds(<<>>, f)
  BY OutsideEmpty, CountEmpty, Given DEF Holds
<1> HIDE DEF b, F
<1>9. m = <<"unit">> => InUnit(m) /\ Count(m, {"("}) = 0 /\ Outside(m, F) = 0
  <2>1. <<>> \in Seq(Frames) /\ "unit" \in Frames /\ <<"unit">> = Append(<<>>, "unit")
    BY EachFrame, Given
  <2>2. "(" \notin F /\ "unit" \notin F
    BY DEF F, OracleFrames
  <2>3. Holds(Append(<<>>, "unit"), "unit")
    BY <2>1, HoldsPush
  <2>4. Count(Append(<<>>, "unit"), {"("}) = 0 /\ Outside(Append(<<>>, "unit"), F) = 0
    <3>1. /\ Count(Append(<<>>, "unit"), {"("}) =
               IF "unit" = "(" THEN Count(<<>>, {"("}) + 1 ELSE Count(<<>>, {"("})
          /\ Outside(Append(<<>>, "unit"), F) =
               IF "unit" \in F /\ Count(<<>>, {"("}) = 0 THEN Outside(<<>>, F) + 1 ELSE Outside(<<>>, F)
      BY <2>1, <2>2, OutsidePush
    <3> QED
      BY <1>8, <2>2, <3>1
  <2> QED
    BY <2>1, <2>3, <2>4 DEF InUnit
<1>10. token \in {"semi", "/"} => b.depth = depth
  <2>1. token \in {"semi", "/"} => ~Rises(token')
    BY DEF Rises, EntersPackage
  <2>2. parens = 0 \/ parens > 0
    BY <1>5
  <2> QED
    BY <1>6, <2>1, <2>2
<1>11. /\ token \in {"semi", "/"} => (b.program <=> program)
  <2>1. token \in {"semi", "/"} => ~StartsPlSql
    BY DEF StartsPlSql
  <2>2. parens = 0 \/ parens > 0
    BY <1>5
  <2> QED
    BY <1>5, <1>6, <2>1, <2>2
<1>12. cut <=> ahead.ends
  <2>1. cut <=> \/ token = "/" /\ oracle.package /\ b.depth > 0
                \/ b.depth = 0 /\ token = (IF program THEN "/" ELSE "semi")
                   /\ ~(token = "semi" /\ oracle.declaration)
    BY DEF StatementEnd
  <2>2. CASE token = "semi"
    <3>1. IF ahead.ends THEN m = <<>> ELSE m # <<>> /\ Last(m) \notin Expressions
      BY <1>3, <2>2 DEF Ends
    <3>2. ASSUME m = <<>> PROVE cut
      <4>1. ~program
        BY <1>4, <1>8, <3>2 DEF InUnit
      <4>2. depth = 0 /\ ~oracle.declaration
        BY <1>4, <1>5, <1>8, <3>2, <4>1
      <4> QED
        BY <1>10, <2>1, <2>2, <4>1, <4>2
    <3>3. ASSUME m # <<>>, Last(m) \notin Expressions PROVE ~cut
      <4>1. Holds(m, "unit")
        BY <1>3, <3>3, Outermost
      <4>2. program
        BY <1>4, <4>1 DEF InUnit
      <4> QED
        BY <2>1, <2>2, <4>2
    <3> QED
      BY <1>1, <3>1, <3>2, <3>3 DEF WriterOK
  <2>3. CASE token = "/"
    <3>1. ahead.ends /\ m = <<"unit">>
      BY <1>3, <2>3 DEF Ends, Changed
    <3>2. program /\ (oracle.package \/ depth = 0)
      BY <1>4, <1>5, <1>9, <3>1
    <3>3. depth = 0 \/ depth > 0
      BY <1>5
    <3> QED
      BY <1>10, <2>1, <2>3, <3>1, <3>2, <3>3
  <2>4. CASE token \notin {"semi", "/"}
    <3>1. token # "$$" /\ token # "GO" /\ token # "eof"
      BY <1>1, <1>3 DEF Ends, WriterOK
    <3>2. ~ahead.ends
      BY <1>3, <2>4, <3>1 DEF Ends
    <3> QED
      BY <2>1, <2>4, <3>2
  <2> QED
    BY <2>2, <2>3, <2>4
<1>13. Rested(n, a) <=> cut
  BY <1>1, <1>12 DEF WriterOK
<1>14. AgreeOracle(n, a)' <=>
         /\ parens' = ParensOf(n, a)
         /\ program' <=> InUnit(n)
         /\ oracle'.package \/ oracle'.declaration \/ oracle'.seen # {} => program'
         /\ oracle'.package \/ depth' <= Outside(n, F)
         /\ a = "create" => oracle'.create
         /\ a = "package" => oracle'.create /\ "PACKAGE" \in oracle'.seen
         /\ \A f \in {"package", "compound", "initialization"} : Holds(n, f) => oracle'.package
         /\ Holds(n, "loop-head") =>
              /\ oracle'.since <= MaxKeywordLookback
              /\ Holds(nest', "loop-head") => oracle'.since + Words(token') <= headWords'
  BY DEF AgreeOracle, LoopHeadSeen, ParensOf, F, InUnit, Outside, Count, Counted, Holds
<1> HIDE DEF cut
<1>15. CASE cut
  <2>1. n = <<>> /\ a = "start"
    BY <1>13, <1>15 DEF Rested
  <2>2. depth' = 0 /\ parens' = 0 /\ program' = FALSE /\ oracle' = NewOracle
    BY <1>2, <1>15
  <2>3. /\ oracle'.package = FALSE /\ oracle'.declaration = FALSE /\ oracle'.seen = {}
    BY <2>2 DEF NewOracle
  <2>4. ParensOf(n, a) = 0 /\ Outside(n, F) = 0 /\ \A f : ~Holds(n, f)
    BY <1>8, <2>1 DEF ParensOf
  <2> QED
    BY <1>2, <1>12, <1>14, <2>1, <2>2, <2>3, <2>4 DEF InUnit
<1>16. CASE ~cut
  <2>1. /\ depth' = b.depth /\ program' = b.program /\ parens' = ParensDepth
        /\ oracle' = OracleNotes /\ token # "/"
    <3>1. token # "/"
      BY <1>3, <1>12, <1>16 DEF Ends
    <3> QED
      BY <1>2, <1>7, <1>16, <3>1
  <2>2. /\ oracle'.package = (oracle.package \/ (parens = 0 /\ EntersPackage))
        /\ oracle'.declaration = IF parens > 0 THEN oracle.declaration
                                 ELSE EntersDeclarations
                                      \/ (oracle.declaration /\ token # "BEGIN")
        /\ oracle'.create = (oracle.create \/ (parens = 0 /\ token = "CREATE"))
        /\ oracle'.since = SinceLoopHead
        /\ oracle'.seen = oracle.seen \cup ({token} \cap {"PACKAGE", "PROCEDURE"})
    BY <2>1 DEF OracleNotes
  <2>3. /\ ParensOf(m, from) \in Nat /\ ParensOf(n, a) \in Nat
        /\ token = "(" => ParensOf(n, a) = ParensOf(m, from) + 1
        /\ token = ")" => ParensOf(m, from) = ParensOf(n, a) + 1
        /\ token \notin {"(", ")"} => ParensOf(n, a) = ParensOf(m, from)
        /\ ParensOf(m, from) > 0 => Outside(n, F) = Outside(m, F)
        /\ ParensOf(m, from) = 0 =>
             Count(m, {"("}) = 0 /\ from \notin {"accessible", "accessible-by"}
    BY <1>1, <2>1, OracleParens DEF F
  <2>4. parens' = ParensOf(n, a)
    BY <1>4, <2>1, <2>3 DEF ParensDepth
  <2>5. m = <<>> \/ m = <<"unit">> => Count(m, {"("}) = 0
    BY <1>8, <1>9
  <2>6. (m = <<>> \/ m = <<"unit">>) /\ from \notin {"accessible", "accessible-by"} => parens = 0
    BY <1>4, <2>5 DEF ParensOf
  <2>7. /\ token \in {"DECLARE", "BEGIN", "PROCEDURE", "TYPE", "PACKAGE"} =>
             /\ InUnit(n)
             /\ \/ InUnit(m)
                \/ m = <<>> /\ (token \in {"DECLARE", "BEGIN"} \/ from = "create")
        /\ token \notin {"DECLARE", "BEGIN", "PROCEDURE", "TYPE", "PACKAGE", "/"} =>
             (InUnit(n) <=> InUnit(m))
    BY <1>1, OracleUnits
  <2>8. program' <=> InUnit(n)
    <3>1. CASE token \in {"DECLARE", "BEGIN", "PROCEDURE", "TYPE", "PACKAGE"}
      <4>1. CASE InUnit(m)
        BY <1>4, <1>7, <2>1, <2>7, <3>1, <4>1
      <4>2. CASE m = <<>> /\ (token \in {"DECLARE", "BEGIN"} \/ from = "create")
        <5>1. from \notin {"accessible", "accessible-by"}
          BY <1>1, <4>2 DEF Wrote, UnitHead
        <5>2. parens = 0
          BY <2>6, <4>2, <5>1
        <5>3. StartsPlSql
          BY <1>4, <3>1, <4>2 DEF StartsPlSql
        <5> QED
          BY <1>6, <2>1, <2>7, <3>1, <5>2, <5>3
      <4> QED
        BY <2>7, <3>1, <4>1, <4>2
    <3>2. CASE token \notin {"DECLARE", "BEGIN", "PROCEDURE", "TYPE", "PACKAGE"}
      <4>1. ~StartsPlSql
        BY <3>2 DEF StartsPlSql
      <4>2. b.program <=> program
        <5>1. parens = 0 \/ parens > 0
          BY <1>5
        <5> QED
          BY <1>5, <1>6, <4>1, <5>1
      <4> QED
        BY <1>4, <2>1, <2>7, <3>2, <4>2
    <3> QED
      BY <3>1, <3>2
  <2>9. oracle'.package \/ oracle'.declaration \/ oracle'.seen # {} => program'
    <3>1. program => program'
      BY <1>7, <2>1
    <3>2. token \in {"PROCEDURE", "PACKAGE"} => program'
      BY <2>7, <2>8
    <3>3. token = "IS" => program
      BY <1>3, <1>4 DEF WroteUnit
    <3>4. EntersPackage \/ EntersDeclarations => token \in {"PROCEDURE", "IS"}
      BY DEF EntersPackage, EntersDeclarations
    <3>5. token \notin {"PACKAGE", "PROCEDURE"} => oracle'.seen = oracle.seen
      BY <2>2
    <3> QED
      BY <1>4, <2>2, <3>1, <3>2, <3>3, <3>4, <3>5
  <2>10. oracle'.package \/ depth' <= Outside(n, F)
    <3> SUFFICES ASSUME ~oracle'.package PROVE b.depth <= Outside(n, F)
      BY <2>1
    <3>1. /\ ~oracle.package /\ ~(parens = 0 /\ EntersPackage)
          /\ \A f \in {"package", "compound", "initialization"} : ~Holds(m, f)
      BY <1>4, <2>2
    <3>2. depth <= Outside(m, F)
      BY <1>4, <3>1
    <3>3. /\ Outside(m, F) \in Nat /\ Outside(n, F) \in Nat
          /\ token = "(" =>
               \/ Kept(m) /\ at = "accessible"
               \/ Opened(m, "(") /\ Count(n, {"("}) = Count(m, {"("}) + 1
                    /\ Outside(n, F) = Outside(m, F)
          /\ token = ")" =>
               \/ Kept(m) /\ from = "accessible-by"
               \/ Count(m, {"("}) = Count(n, {"("}) + 1 /\ Outside(n, F) = Outside(m, F)
          /\ token \in {"CASE", "IF"} => (from = token /\ Same(m, n, F)) \/ Pushed(m, n, F)
          /\ token = "LOOP" =>
               \/ from = "LOOP" /\ Same(m, n, F)
               \/ Pushed(m, n, F)
               \/ Same(m, n, F) /\ Holds(m, "loop-head")
          /\ token = "BEGIN" => Pushed(m, n, F) \/ (Same(m, n, F) /\ Holds(m, "package"))
          /\ token = "WHILE" => Pushed(m, n, F)
          /\ token = "FOR" =>
               \/ Pushed(m, n, F)
               \/ /\ Same(m, n, F)
                  /\ \/ Count(m, {"("}) > 0 \/ Outside(m, F) = 0
                     \/ \E f \in {"package", "compound", "initialization"} : Holds(m, f)
          /\ token = "END" => Popped(m, n, F) \/ Same(m, n, F)
          /\ token \notin {"(", ")", "CASE", "IF", "LOOP", "BEGIN", "WHILE", "FOR", "END", "/"} =>
               Same(m, n, F)
      <4>1. F = OracleFrames
        BY DEF F
      <4> QED
        BY <1>1, <4>1, OracleEffect
    <3>4. CASE parens > 0
      BY <1>4, <1>6, <2>3, <3>2, <3>4
    <3>5. CASE parens = 0
      <4>1. Count(m, {"("}) = 0
        BY <1>4, <2>3, <3>5
      <4>2. /\ Same(m, n, F) => Outside(n, F) = Outside(m, F)
            /\ Pushed(m, n, F) => Outside(n, F) = Outside(m, F) + 1
            /\ Popped(m, n, F) => Outside(m, F) = Outside(n, F) \/ Outside(m, F) = Outside(n, F) + 1
        BY <4>1 DEF Same, Pushed, Popped
      <4>3. b.depth = depth \/ b.depth = depth + 1 \/ (token = "END" /\ depth > 0 /\ b.depth = depth - 1)
        BY <1>6, <3>5
      <4>4. Rises(token') => b.depth = depth + 1
        BY <1>6, <3>5
      <4>5. ~Rises(token') /\ token # "END" => b.depth = depth
        BY <1>6, <3>5
      <4>6. Pushed(m, n, F) => b.depth <= Outside(n, F)
        BY <1>5, <3>2, <3>3, <4>2, <4>3
      <4>7. Same(m, n, F) /\ ~Rises(token') => b.depth <= Outside(n, F)
        BY <1>5, <1>6, <3>2, <3>3, <3>5, <4>2
      <4>8. token \in {"CASE", "IF", "LOOP"} /\ from = token => Previous = "END"
        BY <1>1 DEF Memory, AfterEnd
      <4>9. CASE token \in {"CASE", "IF"}
        BY <3>1, <3>3, <3>5, <4>6, <4>7, <4>8, <4>9 DEF Rises, EntersPackage
      <4>10. CASE token = "LOOP"
        <5>1. CASE Pushed(m, n, F)
          BY <4>6, <5>1
        <5>2. CASE Same(m, n, F) /\ (from = "LOOP" \/ Holds(m, "loop-head"))
          <6>1. ~Rises(token')
            BY <1>4, <4>8, <4>10, <5>2, SinceTyped DEF Rises, EntersPackage, LoopHeadSeen,
               OutOfReach
          <6> QED
            BY <4>7, <5>2, <6>1
        <5> QED
          BY <3>3, <4>10, <5>1, <5>2
      <4>11. CASE token \in {"BEGIN", "WHILE"}
        BY <3>1, <3>3, <4>6, <4>11
      <4>12. CASE token = "FOR"
        <5>1. CASE Pushed(m, n, F)
          BY <4>6, <5>1
        <5>2. CASE Same(m, n, F) /\ Outside(m, F) = 0
          <6>1. depth = 0
            BY <1>5, <3>2, <5>2
          <6>2. ~Rises(token')
            BY <4>12, <6>1 DEF Rises, EntersPackage
          <6> QED
            BY <4>7, <5>2, <6>2
        <5>3. Count(m, {"("}) > 0 => FALSE
          BY <4>1
        <5> QED
          BY <3>1, <3>3, <4>12, <5>1, <5>2, <5>3
      <4>13. CASE token = "END"
        <5>1. ~Rises(token')
          BY <4>13 DEF Rises, EntersPackage
        <5>2. CASE Popped(m, n, F)
          <6>1. Outside(m, F) <= Outside(n, F) + 1
            BY <3>3, <4>2, <5>2
          <6>2. CASE depth > 0
            <7>1. b.depth = depth - 1
              BY <1>6, <3>5, <4>13, <5>1, <6>2
            <7> QED
              BY <1>5, <3>2, <3>3, <6>1, <7>1
          <6>3. CASE depth = 0
            BY <1>6, <3>3, <3>5, <5>1, <6>3
          <6> QED
            BY <1>5, <6>2, <6>3
        <5> QED
          BY <3>3, <4>7, <4>13, <5>1, <5>2
      <4>14. CASE token \notin {"CASE", "IF", "LOOP", "BEGIN", "WHILE", "FOR", "END"}
        <5>1. ~Rises(token')
          BY <3>1, <3>5, <4>14 DEF Rises
        <5>2. Outside(n, F) = Outside(m, F)
          <6>1. Kept(m) => n = m
            BY <1>1 DEF Kept
          <6> QED
            BY <2>1, <3>3, <4>2, <4>14, <6>1
        <5> QED
          BY <1>6, <3>2, <3>5, <4>14, <5>1, <5>2
      <4> QED
        BY <4>9, <4>10, <4>11, <4>12, <4>13, <4>14
    <3> QED
      BY <1>5, <3>4, <3>5
  <2>11. a = "create" => oracle'.create
    <3> SUFFICES ASSUME a = "create" PROVE oracle'.create
      OBVIOUS
    <3>1. token = "CREATE" /\ n = <<>>
      BY <1>1 DEF WriterOK, Placed
    <3>2. m = <<>>
      BY <1>1, <1>3, <3>1 DEF Changed, Neutral, Kept
    <3>3. from \notin {"accessible", "accessible-by"}
      BY <1>1, <3>2 DEF Wrote, UnitHead
    <3> QED
      BY <2>2, <2>6, <3>1, <3>2, <3>3
  <2>12. a = "package" => oracle'.create /\ "PACKAGE" \in oracle'.seen
    <3> SUFFICES ASSUME a = "package" PROVE oracle'.create /\ "PACKAGE" \in oracle'.seen
      OBVIOUS
    <3>1. (token = "PACKAGE" /\ from = "create") \/ from = "package"
      BY <1>1, <1>3 DEF WroteUnit
    <3> QED
      BY <1>4, <2>2, <3>1
  <2>13. \A f \in {"package", "compound", "initialization"} : Holds(n, f) => oracle'.package
    <3> SUFFICES ASSUME NEW g \in {"package", "compound", "initialization"},
                        Holds(n, g), ~Holds(m, g), ~oracle.package
                 PROVE  oracle'.package
      BY <1>4, <2>2
    <3>1. \/ token = "IS" /\ from = "package"
          \/ token = "PROCEDURE" /\ from = "compound"
          \/ Turned(m, "package", "initialization")
      BY <1>1, <1>3, NewFrames
    <3>2. CASE token = "IS" /\ from = "package"
      <4>1. m = <<"unit">>
        BY <1>1, <3>2 DEF Wrote, UnitHead
      <4>2. EntersPackage
        BY <1>4, <3>2 DEF EntersPackage
      <4> QED
        BY <2>2, <2>6, <3>2, <4>1, <4>2
    <3>3. CASE token = "PROCEDURE" /\ from = "compound"
      <4>1. m = <<"unit">> /\ Previous = "COMPOUND"
        BY <1>1, <3>3 DEF Wrote, UnitHead, Memory
      <4>2. EntersPackage
        BY <3>3, <4>1 DEF EntersPackage
      <4> QED
        BY <2>2, <2>6, <3>3, <4>1, <4>2
    <3>4. ~Turned(m, "package", "initialization")
      <4>1. \A r \in Seq(Frames) : m = Append(r, "package") => Holds(m, "package")
        BY EachFrame, HoldsPush
      <4> QED
        BY <1>4, <4>1 DEF Turned
    <3> QED
      BY <3>1, <3>2, <3>3, <3>4
  <2>14. ASSUME Holds(n, "loop-head")
         PROVE  /\ oracle'.since <= MaxKeywordLookback
                /\ Holds(nest', "loop-head") => oracle'.since + Words(token') <= headWords'
    <3>1. headWords \in Nat /\ headWords <= MaxKeywordLookback /\ CountHeadWords
      BY DEF Reads, InStep, HeadsShort
    <3>2. /\ oracle'.since \in Nat /\ MaxKeywordLookback \in Nat
          /\ \A t : Words(t) \in {0, 1}
      BY <1>5, <2>2, SinceTyped DEF Words
    <3>3. oracle'.since <= headWords
      <4>1. CASE token \in {"FOR", "WHILE"}
        BY <2>2, <3>1, <4>1 DEF SinceLoopHead, LookBack
      <4>2. CASE token \notin {"FOR", "WHILE"}
        <5>1. Holds(m, "loop-head") /\ token \notin {"END", "BEGIN", "THEN"}
          BY <1>1, <1>3, <2>1, <2>14, <4>2, LoopHeads
        <5>2. oracle.since <= MaxKeywordLookback /\ oracle.since + Words(token) <= headWords
          BY <1>1, <1>4, <2>14, <5>1 DEF LoopHeadSeen
        <5>3. oracle.since # OutOfReach
          BY <1>5, <3>2, <5>2 DEF OutOfReach
        <5>4. oracle'.since = oracle.since + Words(token)
          BY <1>5, <2>2, <3>2, <4>2, <5>1, <5>2, <5>3 DEF SinceLoopHead, LookBack, Words, OutOfReach
        <5> QED
          BY <5>2, <5>4
      <4> QED
        BY <4>1, <4>2
    <3>4. Holds(nest', "loop-head") => headWords' = headWords + Words(token')
      <4>1. \A r : Holds(r, "loop-head") => "loop-head" \in ToSet(r)
        BY DEF Holds, ToSet
      <4>2. Holds(nest, "loop-head") /\ token' = ahead'.token
        BY <1>1, <2>14 DEF token
      <4> QED
        BY <3>1, <4>1, <4>2 DEF CountHeadWords, Words
    <3> QED
      BY <3>1, <3>2, <3>3, <3>4
  <2> QED
    BY <1>2, <1>12, <1>14, <2>4, <2>8, <2>9, <2>10, <2>11, <2>12, <2>13, <2>14
<1> QED
  BY <1>15, <1>16

-----------------------------------------------------------------------------
(* The writer. *)

\* One token is written, from a nest m at the place from.
WroteOK(m, from) == WriterOK' /\ Wrote(m, from)'

Writing(m, from) ==
  /\ WriterOK /\ NothingMisread /\ m = nest /\ from = at /\ dialect' = dialect

\* The nest, seen by its top.
LEMMA TopOf ==
  ASSUME NEW f, Shape(nest), nest # <<>> /\ Top = f
  PROVE  /\ Front(nest) \in Seq(Frames) /\ f \in Frames
         /\ nest = Append(Front(nest), f)
<1>1. nest \in Seq(Frames)
  BY DEF Shape
<1>2. Top = Last(nest)
  BY DEF Top
<1> QED
  BY <1>1, <1>2, Pop

\* The shape depends on the dialect and the delimiter, of the variables, only.
LEMMA ShapePrime ==
  ASSUME NEW r, Shape(r), dialect' = dialect, delimiter' = delimiter \/ r = <<>>
  PROVE  Shape(r)' /\ (nest' = r => Shape(nest)')
<1>1. r = <<>> => DOMAIN r = {}
  BY Given
<1>2. \A i \in DOMAIN r : Possible(r[i], i)'
  BY <1>1 DEF Shape, Possible, FramesOfDialect
<1>3. \A i, j \in DOMAIN r : i < j => Nests(r[i], r[j])'
  BY DEF Shape, Nests
<1>4. Shape(r)'
  BY <1>2, <1>3 DEF Shape
<1> QED
  BY <1>4 DEF Shape

\* Tokens that end no statement.
Inner ==
  {"x", "keyword", "(", ")", "CREATE", "DEFINER", "PROCEDURE", "BEGIN", "ATOMIC", "END", "TRAN", "CASE",
   "IF", "LOOP", "REPEAT", "THEN", "FOR", "WHILE", "EACH", "COMPOUND", "DECLARE", "TYPE",
   "PACKAGE", "BODY", "IS"}

\* A token inside a statement: the statement has not ended, whatever the token does.
LEMMA Unended ==
  ASSUME NEW m, NEW from, Writing(m, from), NEW n, NEW p \in Places, NEW t,
         nest' = n, WriteOn(t, p), delimiter' = delimiter, Shape(n),
         t \in Inner \/ (t = "semi" /\ m # <<>> /\ Last(m) \notin Expressions),
         n = <<>> => p # "start",
         Placed', Changed(m, from)'
  PROVE  WroteOK(m, from)
<1>1. /\ WriterOK /\ m = nest /\ from = at /\ dialect' = dialect
      /\ at' = p /\ token' = t /\ ahead'.ends = FALSE
  BY DEF Writing, WriteOn, token
<1>2. Shape(m)' /\ Shape(nest)'
  BY <1>1, ShapePrime DEF WriterOK
<1>3. ~Rested(n, p)
  BY DEF Rested
<1>4. WriterOK'
  BY <1>1, <1>2, <1>3 DEF WriterOK, NewDelimiter, Inner
<1>5. Ends(m, from)'
  BY <1>1 DEF Ends, NewDelimiter, Inner
<1>6. /\ from \in Places
      /\ from \in {"create", "definer", "atomic"} => m = <<>>
      /\ from = "definer" => delimiter' = "$$"
      /\ from = "header" => m = IF dialect' = "oracle" THEN <<"unit">> ELSE <<>>
      /\ from \in UnitHead => m = <<"unit">>
  BY <1>1 DEF WriterOK, Placed
<1> QED
  BY <1>1, <1>2, <1>4, <1>5, <1>6 DEF WroteOK, Wrote, Inner, Tokens

\* What is open where the writer is.
LEMMA Here ==
  ASSUME NEW m, NEW from, Writing(m, from)
  PROVE  /\ m = nest /\ from = at /\ dialect' = dialect /\ Shape(m) /\ Placed
         /\ m \in Seq(Frames) /\ Len(m) \in Nat
         /\ m = <<>> => Top = "none"
         /\ m # <<>> => Top = Last(m) /\ Top \in Frames /\ Top \in FramesOfDialect
<1>1. m = nest /\ from = at /\ dialect' = dialect /\ Shape(m) /\ Placed /\ m \in Seq(Frames)
  BY DEF Writing, WriterOK, Shape
<1>2. ASSUME m # <<>> PROVE Last(m) \in Frames /\ Last(m) \in FramesOfDialect
  BY <1>1, <1>2, LenProperties, EmptySeq DEF Shape, Possible, Last
<1> QED
  BY <1>1, <1>2, LenProperties DEF Top

\* Write opens and closes nothing.
LEMMA Stays ==
  ASSUME NEW m, NEW from, Writing(m, from), NEW t, NEW p, Write(t, p)
  PROVE  /\ nest' = m /\ at' = p /\ token' = t /\ WriteOn(t, p) /\ delimiter' = delimiter
         /\ Shape(m) /\ Kept(m)' /\ Top' = Top
  BY DEF Writing, WriterOK, Write, WriteOn, token, Kept, Top

\* Open opens the frame.
LEMMA Opens ==
  ASSUME NEW m, NEW from, Writing(m, from), NEW f \in Frames, NEW t, NEW p, Open(<<f>>, t, p),
         f \in FramesOfDialect, f = "repeat" => delimiter = "$$",
         m = <<>> => f \in {"(", "case", IF dialect = "oracle" THEN "unit" ELSE "block"},
         m # <<>> => f # "unit" /\ (f = "block" => dialect \notin {"postgresql", "sqlite"}),
         \A i \in DOMAIN m : Nests(m[i], f)
  PROVE  /\ nest' = Append(m, f) /\ at' = p /\ token' = t /\ WriteOn(t, p)
         /\ delimiter' = delimiter /\ Shape(Append(m, f)) /\ Append(m, f) # <<>>
         /\ Opened(m, f)' /\ Top' = f
<1>1. m = nest /\ m \in Seq(Frames) /\ Shape(m) /\ Len(m) \in Nat
  BY Here
<1>2. /\ Append(m, f) # <<>> /\ Last(Append(m, f)) = f
      /\ nest' = Append(m, f) /\ at' = p /\ token' = t /\ WriteOn(t, p)
      /\ delimiter' = delimiter
  BY <1>1, Push DEF Open, WriteOn, token
<1>3. m # <<>> => Len(m) + 1 # 1
  BY <1>1, EmptySeq
<1>4. m = <<>> => Len(m) + 1 = 1
  BY EmptySeq
<1>5. Possible(f, Len(m) + 1)
  BY <1>1, <1>3, <1>4 DEF Possible
<1> QED
  BY <1>1, <1>2, <1>5, ShapePush DEF Opened, Top

\* What is no expression opens in what is none.
LEMMA NestsInNone ==
  ASSUME NEW n, Shape(n), NEW f, n = <<>> \/ Last(n) \notin Expressions,
         f = "case" => dialect # "sqlserver"
  PROVE  \A i \in DOMAIN n : Nests(n[i], f)
  BY NoExpressions DEF Nests, Expressions

\* Close closes the frame that was opened last.
LEMMA Closes ==
  ASSUME NEW m, NEW from, Writing(m, from), NEW f \in Frames, Top = f, NEW t, NEW p,
         Close(t, p)
  PROVE  /\ nest' = Front(m) /\ at' = p /\ token' = t /\ WriteOn(t, p)
         /\ delimiter' = delimiter /\ Shape(Front(m)) /\ Closed(m, f)'
         /\ m # <<>> /\ m = Append(Front(m), f)
<1>1. m = nest /\ m \in Seq(Frames) /\ Shape(m)
  BY Here
<1>2. m # <<>>
  BY <1>1, EachFrame DEF Top
<1>3. Front(m) \in Seq(Frames) /\ m = Append(Front(m), f)
  BY <1>1, <1>2, TopOf
<1>4. Shape(Append(Front(m), f))
  BY <1>1, <1>3
<1>5. Shape(Front(m))
  BY <1>3, <1>4, ShapePop
<1>6. nest' = Front(m) /\ at' = p /\ token' = t /\ WriteOn(t, p) /\ delimiter' = delimiter
  BY <1>1 DEF Close, WriteOn, token
<1> QED
  BY <1>2, <1>3, <1>5, <1>6 DEF Closed

\* Turn puts one frame in the place of another.
LEMMA Turns ==
  ASSUME NEW m, NEW from, Writing(m, from), NEW f \in Frames, NEW g \in Frames, Top = f,
         NEW t, NEW p, Turn(g, t, p),
         \A i \in Nat : Possible(f, i) => Possible(g, i),
         \A e \in Frames : Nests(e, f) => Nests(e, g)
  PROVE  /\ nest' = Append(Front(m), g) /\ at' = p /\ token' = t /\ WriteOn(t, p)
         /\ delimiter' = delimiter /\ Shape(Append(Front(m), g))
         /\ Append(Front(m), g) # <<>> /\ Turned(m, f, g)' /\ Top' = g
<1>1. m = nest /\ m \in Seq(Frames) /\ Shape(m)
  BY Here
<1>2. m # <<>>
  BY <1>1, EachFrame DEF Top
<1>3. Front(m) \in Seq(Frames) /\ m = Append(Front(m), f)
  BY <1>1, <1>2, TopOf
<1>4. Shape(Append(Front(m), f))
  BY <1>1, <1>3
<1>5. /\ Shape(Front(m)) /\ Possible(f, Len(Front(m)) + 1)
      /\ \A i \in DOMAIN Front(m) : Nests(Front(m)[i], f)
  BY <1>3, <1>4, ShapePop
<1>6. /\ Len(Front(m)) + 1 \in Nat
      /\ \A i \in DOMAIN Front(m) : Front(m)[i] \in Frames
  BY <1>3, LenProperties, ElementOfSeq
<1>7. Shape(Append(Front(m), g))
  BY <1>5, <1>6, ShapePush
<1>8. Append(Front(m), g) # <<>> /\ Last(Append(Front(m), g)) = g
  BY <1>3, Push
<1>9. /\ nest' = Append(Front(m), g) /\ at' = p /\ token' = t /\ WriteOn(t, p)
      /\ delimiter' = delimiter
  BY <1>1 DEF Turn, WriteOn, token
<1> QED
  BY <1>3, <1>7, <1>8, <1>9 DEF Turned, Top

\* Names, operators and parentheses.
LEMMA PlainWritten ==
  ASSUME NEW m, NEW from, Writing(m, from), WritePlain
  PROVE  WroteOK(m, from)
<1>1. m = nest /\ from = at /\ dialect' = dialect /\ Shape(m) /\ Placed
  BY Here
<1>2. CASE at \in {"start", "mid", "closed", "create"} /\ Write("x", "mid")
  <2>1. /\ nest' = m /\ at' = "mid" /\ token' = "x" /\ WriteOn("x", "mid")
        /\ delimiter' = delimiter /\ Kept(m)'
    BY <1>2, Stays
  <2>2. Placed'
    BY <1>1, <2>1 DEF Placed, Places, AfterEnd, UnitHead
  <2>3. Changed(m, from)'
    BY <1>1, <1>2, <2>1 DEF Changed, WroteUnit, Neutral, AfterEnd
  <2> QED
    BY <1>1, <2>1, <2>2, <2>3, Unended DEF Places, Inner
<1>5. CASE at \in {"start", "mid"} /\ dialect = "oracle" /\ Write("keyword", "mid")
  <2>1. /\ nest' = m /\ at' = "mid" /\ token' = "keyword" /\ WriteOn("keyword", "mid")
        /\ delimiter' = delimiter /\ Kept(m)'
    BY <1>5, Stays
  <2>2. Placed'
    BY <1>1, <1>5, <2>1 DEF Placed, Places, AfterEnd, UnitHead
  <2>3. Changed(m, from)'
    BY <1>1, <1>5, <2>1 DEF Changed, WroteUnit, Neutral, AfterEnd
  <2> QED
    BY <1>1, <2>1, <2>2, <2>3, Unended DEF Places, Inner
<1>3. CASE at = "mid" /\ Open(<<"(">>, "(", "mid")
  <2>1. "(" \in Frames /\ "(" \in FramesOfDialect /\ \A i \in DOMAIN m : Nests(m[i], "(")
    BY EachFrame DEF FramesOfDialect, Nests, Frames
  <2>2. /\ nest' = Append(m, "(") /\ at' = "mid" /\ token' = "(" /\ WriteOn("(", "mid")
        /\ delimiter' = delimiter /\ Shape(Append(m, "(")) /\ Append(m, "(") # <<>>
        /\ Opened(m, "(")'
    BY <1>3, <2>1, Opens
  <2>3. Placed'
    BY <1>1, <2>2 DEF Placed, Places, AfterEnd, UnitHead
  <2>4. Changed(m, from)'
    BY <1>1, <1>3, <2>2 DEF Changed, WroteUnit, Neutral, AfterEnd
  <2> QED
    BY <2>2, <2>3, <2>4, Unended DEF Places, Inner
<1>4. CASE at \in {"mid", "closed"} /\ Top = "(" /\ Close(")", "mid")
  <2>1. /\ nest' = Front(m) /\ at' = "mid" /\ token' = ")" /\ WriteOn(")", "mid")
        /\ delimiter' = delimiter /\ Shape(Front(m)) /\ Closed(m, "(")'
    BY <1>4, EachFrame, Closes
  <2>2. Placed'
    BY <1>1, <2>1 DEF Placed, Places, AfterEnd, UnitHead
  <2>3. Changed(m, from)'
    BY <1>1, <1>4, <2>1 DEF Changed, WroteUnit, Neutral, AfterEnd
  <2> QED
    BY <2>1, <2>2, <2>3, Unended DEF Places, Inner
<1> QED
  BY <1>2, <1>3, <1>4, <1>5 DEF WritePlain

\* A token that neither opens nor closes anything, inside a statement.
LEMMA StayWritten ==
  ASSUME NEW m, NEW from, Writing(m, from), NEW p \in Places, NEW t, Write(t, p),
         t \in Inner \/ (t = "semi" /\ m # <<>> /\ Last(m) \notin Expressions),
         m = <<>> => p # "start",
         Placed' /\ Changed(m, from)'
  PROVE  WroteOK(m, from)
  BY Stays, Unended

\* A construct that is misread is not used.
LEMMA NotUsed ==
  ASSUME NEW m, NEW from, Writing(m, from)
  PROVE  \A c \in Misread[dialect] : ~Used(c)
  BY DEF Writing, WriterOK, NothingMisread, Used

\* What the writer is inside of is what the nest holds.
LEMMA Insides ==
  ASSUME NEW m, NEW from, Writing(m, from)
  PROVE  \A F : Inside(F) <=> \E f \in F : Holds(m, f)
<1>1. m = nest
  BY Here
<1> QED
  BY <1>1 DEF Inside, ToSet, Holds

\* A CASE, in an expression or as a statement.
LEMMA CaseWritten ==
  ASSUME NEW m, NEW from, Writing(m, from), WriteCase
  PROVE  WroteOK(m, from)
<1>1. m = nest /\ from = at /\ dialect' = dialect /\ Shape(m) /\ Placed
  BY Here
<1>2. /\ dialect = "sqlserver" => ~Used("case-in-block")
      /\ Holds(m, "loop-head") => dialect = "oracle" /\ ~Used("case-in-loop-head")
  BY <1>1, NotUsed DEF Misread, Holds, Shape, Possible, FramesOfDialect, Control
<1>3. CASE /\ at = "mid" /\ Open(<<"case">>, "CASE", "mid")
           /\ ~Holds(m, "loop-head") /\ (dialect = "sqlserver" => ~Holds(m, "block"))
  <2>1. /\ "case" \in Frames /\ "case" \in FramesOfDialect
        /\ \A i \in DOMAIN m : Nests(m[i], "case")
    BY <1>1, <1>3, EachFrame DEF FramesOfDialect, Nests, Frames, Expressions, Holds
  <2>2. /\ nest' = Append(m, "case") /\ at' = "mid" /\ token' = "CASE" /\ WriteOn("CASE", "mid")
        /\ delimiter' = delimiter /\ Shape(Append(m, "case")) /\ Append(m, "case") # <<>>
        /\ Opened(m, "case")' /\ Top' = "case"
    BY <1>1, <1>3, <2>1, Opens
  <2>3. Placed' /\ Changed(m, from)'
    BY <1>1, <1>3, <2>2 DEF Placed, Places, AfterEnd, UnitHead, Changed, WroteUnit, Neutral
  <2> QED
    BY <1>1, <1>3, <2>2, <2>3, Unended DEF Places, Inner
<1>4. CASE at \in {"mid", "closed"} /\ Top = "case" /\ Close("END", "closed")
  <2>1. /\ nest' = Front(m) /\ at' = "closed" /\ token' = "END" /\ WriteOn("END", "closed")
        /\ delimiter' = delimiter /\ Shape(Front(m)) /\ Closed(m, "case")'
    BY <1>4, EachFrame, Closes
  <2>2. Placed' /\ Changed(m, from)'
    BY <1>1, <1>4, <2>1 DEF Placed, Places, AfterEnd, UnitHead, Changed, WroteUnit, Neutral,
       WroteEnd
  <2> QED
    BY <1>1, <1>4, <2>1, <2>2, Unended DEF Places, Inner
<1> QED
  BY <1>3, <1>4, <1>2, Insides DEF WriteCase

\* CREATE, and what follows it.
LEMMA CreateWritten ==
  ASSUME NEW m, NEW from, Writing(m, from), WriteCreate
  PROVE  WroteOK(m, from)
<1>1. m = nest /\ from = at /\ dialect' = dialect /\ Shape(m) /\ Placed
  BY Here
<1>2. /\ dialect = "mysql" => ~Used("definer")
      /\ delimiter \in {"semi", "$$"}
  BY NotUsed DEF Misread, Writing, WriterOK
<1>3. CASE at = "start" /\ nest = <<>> /\ Write("CREATE", "create")
  <2>1. /\ nest' = m /\ at' = "create" /\ token' = "CREATE" /\ delimiter' = delimiter
        /\ Kept(m)' /\ Top' = Top
    BY <1>3, Stays
  <2>2. Placed' /\ Changed(m, from)'
    BY <1>1, <1>3, <2>1 DEF Placed, Places, AfterEnd, UnitHead, Changed, WroteUnit, Neutral
  <2> QED
    BY <1>1, <1>3, <2>2, StayWritten DEF Places, Inner
<1>4. CASE /\ at = "create" /\ dialect = "mysql" /\ delimiter # "semi"
           /\ Write("DEFINER", "definer")
  <2>1. /\ nest' = m /\ at' = "definer" /\ token' = "DEFINER" /\ delimiter' = delimiter
        /\ Kept(m)' /\ Top' = Top
    BY <1>4, Stays
  <2>2. Placed' /\ Changed(m, from)'
    BY <1>1, <1>4, <2>1, <1>2 DEF Placed, Places, AfterEnd, UnitHead, Changed, WroteUnit,
       Neutral
  <2> QED
    BY <1>1, <1>4, <2>2, StayWritten DEF Places, Inner
<1>5. CASE at = "definer" /\ Write("x", "definer")
  <2>1. /\ nest' = m /\ at' = "definer" /\ token' = "x" /\ delimiter' = delimiter
        /\ Kept(m)' /\ Top' = Top
    BY <1>5, Stays
  <2>2. Placed' /\ Changed(m, from)'
    BY <1>1, <1>5, <2>1 DEF Placed, Places, AfterEnd, UnitHead, Changed, WroteUnit, Neutral
  <2> QED
    BY <1>1, <1>5, <2>2, StayWritten DEF Places, Inner
<1>6. CASE at \in {"create", "definer"} /\ dialect # "oracle" /\ Write("PROCEDURE", "header")
  <2>1. /\ nest' = m /\ at' = "header" /\ token' = "PROCEDURE" /\ delimiter' = delimiter
        /\ Kept(m)' /\ Top' = Top
    BY <1>6, Stays
  <2>2. Placed' /\ Changed(m, from)'
    BY <1>1, <1>6, <2>1 DEF Placed, Places, AfterEnd, UnitHead, Changed, WroteUnit, Neutral
  <2> QED
    BY <1>1, <1>6, <2>2, StayWritten DEF Places, Inner
<1>7. CASE at = "header" /\ Write("x", "header")
  <2>1. /\ nest' = m /\ at' = "header" /\ token' = "x" /\ delimiter' = delimiter
        /\ Kept(m)' /\ Top' = Top
    BY <1>7, Stays
  <2>2. Placed' /\ Changed(m, from)'
    BY <1>1, <1>7, <2>1 DEF Placed, Places, AfterEnd, UnitHead, Changed, WroteUnit, Neutral
  <2> QED
    BY <1>1, <1>7, <2>2, StayWritten DEF Places, Inner
<1> QED
  BY <1>3, <1>4, <1>5, <1>6, <1>7, <1>2 DEF WriteCreate

\* BEGIN of a transaction, and END of one.
LEMMA TransactionWritten ==
  ASSUME NEW m, NEW from, Writing(m, from), WriteTransaction
  PROVE  WroteOK(m, from)
<1>1. m = nest /\ from = at /\ dialect' = dialect /\ Shape(m) /\ Placed
  BY Here
<1>2. /\ dialect = "sqlite" => ~Used("transaction")
      /\ dialect = "sqlserver" => ~Used("distributed")
      /\ at # "distributed"
  BY <1>1, NotUsed DEF Misread, Placed, Places
<1>3. CASE /\ at = "start" /\ nest = <<>> /\ dialect \in {"postgresql", "mysql"}
           /\ Write("BEGIN", "mid")
  <2>1. /\ nest' = m /\ at' = "mid" /\ token' = "BEGIN" /\ delimiter' = delimiter
        /\ Kept(m)' /\ Top' = Top
    BY <1>3, Stays
  <2>2. Placed' /\ Changed(m, from)'
    BY <1>1, <1>3, <2>1 DEF Placed, Places, AfterEnd, UnitHead, Changed, WroteUnit, Neutral,
       WroteBegin, Rested
  <2> QED
    BY <1>1, <1>3, <2>2, StayWritten DEF Places, Inner
<1>4. CASE /\ at = "start" /\ nest = <<>> /\ dialect \in {"postgresql", "sqlite"}
           /\ Write("END", "mid")
  <2>1. /\ nest' = m /\ at' = "mid" /\ token' = "END" /\ delimiter' = delimiter
        /\ Kept(m)' /\ Top' = Top
    BY <1>4, Stays
  <2>2. Placed' /\ Changed(m, from)'
    BY <1>1, <1>4, <2>1 DEF Placed, Places, AfterEnd, UnitHead, Changed, WroteUnit, Neutral,
       WroteEnd, Kept
  <2> QED
    BY <1>1, <1>4, <2>2, StayWritten DEF Places, Inner
<1>5. CASE at = "start" /\ dialect = "sqlserver" /\ Write("BEGIN", "tran")
  <2>1. /\ nest' = m /\ at' = "tran" /\ token' = "BEGIN" /\ delimiter' = delimiter
        /\ Kept(m)' /\ Top' = Top
    BY <1>5, Stays
  <2>2. Placed' /\ Changed(m, from)'
    BY <1>1, <1>5, <2>1 DEF Placed, Places, AfterEnd, UnitHead, Changed, WroteUnit, Neutral,
       WroteBegin
  <2> QED
    BY <1>1, <1>5, <2>2, StayWritten DEF Places, Inner
<1>6. CASE at = "tran" /\ Write("TRAN", "mid")
  <2>1. /\ nest' = m /\ at' = "mid" /\ token' = "TRAN" /\ delimiter' = delimiter
        /\ Kept(m)' /\ Top' = Top
    BY <1>6, Stays
  <2>2. Placed' /\ Changed(m, from)'
    BY <1>1, <1>6, <2>1 DEF Placed, Places, AfterEnd, UnitHead, Changed, WroteUnit, Neutral
  <2> QED
    BY <1>1, <1>6, <2>2, StayWritten DEF Places, Inner
<1> QED
  BY <1>3, <1>4, <1>5, <1>6, <1>2 DEF WriteTransaction

\* Where something that is no expression may open.
LEMMA NoneOpen ==
  ASSUME NEW m, NEW from, Writing(m, from), Top \notin Expressions
  PROVE  \A f \in Frames \ {"case"} : \A i \in DOMAIN m : Nests(m[i], f)
BY Here, NestsInNone

\* BEGIN of a block.
LEMMA BlockWritten ==
  ASSUME NEW m, NEW from, Writing(m, from), WriteBlock
  PROVE  WroteOK(m, from)
<1>1. m = nest /\ from = at /\ dialect' = dialect /\ Shape(m) /\ Placed
  BY Here
<1>2. /\ nest = <<>> => Top \notin Expressions
      /\ at = "header" /\ dialect # "oracle" => nest = <<>>
      /\ at = "atomic" => nest = <<>> /\ dialect = "postgresql"
  BY <1>1 DEF Top, Expressions, Placed
<1>3. CASE /\ at = "header" /\ dialect \in {"mysql", "sqlserver", "sqlite"}
           /\ Open(<<"block">>, "BEGIN", "start")
  <2>1. /\ "block" \in Frames /\ "block" \in FramesOfDialect
        /\ \A i \in DOMAIN m : Nests(m[i], "block")
    BY <1>1, <1>3, EachFrame, NoneOpen, <1>2, Here DEF FramesOfDialect, Frames, Placed, Expressions,
       Control, Declarations
  <2>2. /\ nest' = Append(m, "block") /\ at' = "start" /\ token' = "BEGIN"
        /\ WriteOn("BEGIN", "start")
        /\ delimiter' = delimiter /\ Shape(Append(m, "block")) /\ Append(m, "block") # <<>>
        /\ Opened(m, "block")' /\ Top' = "block"
    BY <1>1, <1>3, <2>1, Opens, <1>2
  <2>3. Placed' /\ Changed(m, from)'
    BY <1>1, <1>3, <2>2, <1>2 DEF Placed, Places, AfterEnd, UnitHead, Changed, WroteUnit,
       Neutral, WroteBegin
  <2> QED
    BY <1>1, <1>3, <2>2, <2>3, Unended DEF Places, Inner
<1>4. CASE at = "header" /\ dialect = "postgresql" /\ Write("BEGIN", "atomic")
  <2>1. /\ nest' = m /\ at' = "atomic" /\ token' = "BEGIN" /\ delimiter' = delimiter
        /\ Kept(m)' /\ Top' = Top
    BY <1>4, Stays
  <2>2. Placed' /\ Changed(m, from)'
    BY <1>1, <1>4, <2>1 DEF Placed, Places, AfterEnd, UnitHead, Changed, WroteUnit, Neutral,
       WroteBegin
  <2> QED
    BY <1>1, <1>4, <2>2, StayWritten DEF Places, Inner
<1>5. CASE at = "atomic" /\ Open(<<"block">>, "ATOMIC", "start")
  <2>1. /\ "block" \in Frames /\ "block" \in FramesOfDialect
        /\ \A i \in DOMAIN m : Nests(m[i], "block")
    BY <1>1, <1>5, EachFrame, NoneOpen, <1>2, Here DEF FramesOfDialect, Frames, Placed, Expressions,
       Control, Declarations
  <2>2. /\ nest' = Append(m, "block") /\ at' = "start" /\ token' = "ATOMIC"
        /\ WriteOn("ATOMIC", "start")
        /\ delimiter' = delimiter /\ Shape(Append(m, "block")) /\ Append(m, "block") # <<>>
        /\ Opened(m, "block")' /\ Top' = "block"
    BY <1>1, <1>5, <2>1, Opens, <1>2
  <2>3. Placed' /\ Changed(m, from)'
    BY <1>1, <1>5, <2>2, <1>2 DEF Placed, Places, AfterEnd, UnitHead, Changed, WroteUnit,
       Neutral
  <2> QED
    BY <1>1, <1>5, <2>2, <2>3, Unended DEF Places, Inner
<1>6. CASE /\ dialect \in {"mysql", "oracle"} /\ at = "start" /\ nest # <<>>
           /\ Open(<<"block">>, "BEGIN", "start")
  <2>1. /\ "block" \in Frames /\ "block" \in FramesOfDialect
        /\ \A i \in DOMAIN m : Nests(m[i], "block")
    BY <1>1, <1>6, EachFrame, NoneOpen, <1>2 DEF FramesOfDialect, Frames, Placed, Expressions,
       Control, Declarations
  <2>2. /\ nest' = Append(m, "block") /\ at' = "start" /\ token' = "BEGIN"
        /\ WriteOn("BEGIN", "start")
        /\ delimiter' = delimiter /\ Shape(Append(m, "block")) /\ Append(m, "block") # <<>>
        /\ Opened(m, "block")' /\ Top' = "block"
    BY <1>1, <1>6, <2>1, Opens
  <2>3. Placed' /\ Changed(m, from)'
    BY <1>1, <1>6, <2>2 DEF Placed, Places, AfterEnd, UnitHead, Changed, WroteUnit, Neutral,
       WroteBegin
  <2> QED
    BY <1>1, <1>6, <2>2, <2>3, Unended DEF Places, Inner
<1>7. CASE /\ dialect = "sqlserver" /\ at \in {"start", "mid", "closed"}
           /\ Top \notin Expressions /\ Open(<<"block">>, "BEGIN", "start")
  <2>1. /\ "block" \in Frames /\ "block" \in FramesOfDialect
        /\ \A i \in DOMAIN m : Nests(m[i], "block")
    BY <1>1, <1>7, EachFrame, NoneOpen, <1>2 DEF FramesOfDialect, Frames, Placed, Expressions,
       Control, Declarations
  <2>2. /\ nest' = Append(m, "block") /\ at' = "start" /\ token' = "BEGIN"
        /\ WriteOn("BEGIN", "start")
        /\ delimiter' = delimiter /\ Shape(Append(m, "block")) /\ Append(m, "block") # <<>>
        /\ Opened(m, "block")' /\ Top' = "block"
    BY <1>1, <1>7, <2>1, Opens
  <2>3. Placed' /\ Changed(m, from)'
    BY <1>1, <1>7, <2>2 DEF Placed, Places, AfterEnd, UnitHead, Changed, WroteUnit, Neutral,
       WroteBegin
  <2> QED
    BY <1>1, <1>7, <2>2, <2>3, Unended DEF Places, Inner
<1>8. CASE /\ Top = "block" /\ at \in {"start", "mid", "closed"}
           /\ Close("END", "closed")
  <2>1. /\ nest' = Front(m) /\ at' = "closed" /\ token' = "END" /\ WriteOn("END", "closed")
        /\ delimiter' = delimiter /\ Shape(Front(m)) /\ Closed(m, "block")'
    BY <1>8, EachFrame, Closes
  <2>2. Placed' /\ Changed(m, from)'
    BY <1>1, <1>8, <2>1 DEF Placed, Places, AfterEnd, UnitHead, Changed, WroteUnit, Neutral,
       WroteEnd
  <2> QED
    BY <1>1, <1>8, <2>1, <2>2, Unended DEF Places, Inner
<1>9. CASE /\ Top = "initialization" /\ at \in {"start", "mid", "closed"}
           /\ Close("END", "closed")
  <2>1. /\ nest' = Front(m) /\ at' = "closed" /\ token' = "END" /\ WriteOn("END", "closed")
        /\ delimiter' = delimiter /\ Shape(Front(m)) /\ Closed(m, "initialization")'
    BY <1>9, EachFrame, Closes
  <2>2. Placed' /\ Changed(m, from)'
    BY <1>1, <1>9, <2>1 DEF Placed, Places, AfterEnd, UnitHead, Changed, WroteUnit, Neutral,
       WroteEnd
  <2> QED
    BY <1>1, <1>9, <2>1, <2>2, Unended DEF Places, Inner
<1> QED
  BY <1>3, <1>4, <1>5, <1>6, <1>7, <1>8, <1>9 DEF WriteBlock

\* What follows the END of a control statement.
LEMMA EndsWith ==
  /\ EndOf["if"] = "IF" /\ EndOf["loop"] = "LOOP" /\ EndOf["repeat"] = "REPEAT"
  /\ EndOf["case-statement"] = "CASE"
  BY DEF EndOf, Control

\* Control statements: their heads, their bodies and their ENDs.
LEMMA ControlWritten ==
  ASSUME NEW m, NEW from, Writing(m, from), WriteControl
  PROVE  WroteOK(m, from)
<1>1. m = nest /\ from = at /\ dialect' = dialect /\ Shape(m) /\ Placed
  BY Here
<1>2. /\ nest # <<>> /\ at = "start" => Top \notin Expressions /\ Top \notin Declarations
      /\ Top \in Control => dialect \in {"mysql", "oracle"}
      /\ dialect = "mysql" => ~Used("repeat")
      /\ delimiter \in {"semi", "$$"}
  BY <1>1, Here, NotUsed DEF Placed, Expressions, Declarations, Control, FramesOfDialect,
     Misread, Writing, WriterOK
<1>3. CASE /\ at = "start" /\ nest # <<>> /\ dialect \in {"mysql", "oracle"}
           /\ Open(<<"if-head">>, "IF", "mid")
  <2>1. /\ "if-head" \in Frames /\ "if-head" \in FramesOfDialect
        /\ \A i \in DOMAIN m : Nests(m[i], "if-head")
    BY <1>1, <1>2, <1>3, EachFrame, NoneOpen DEF FramesOfDialect, Frames, Placed, Expressions,
       Control, Declarations
  <2>2. /\ nest' = Append(m, "if-head") /\ at' = "mid" /\ token' = "IF" /\ WriteOn("IF", "mid")
        /\ delimiter' = delimiter /\ Shape(Append(m, "if-head")) /\ Append(m, "if-head") # <<>>
        /\ Opened(m, "if-head")' /\ Top' = "if-head"
    BY <1>1, <1>3, <2>1, Opens, <1>2
  <2>3. Placed' /\ Changed(m, from)'
    BY <1>1, <1>3, <2>2, <1>2 DEF Placed, Places, AfterEnd, UnitHead, Changed, WroteUnit,
       Neutral
  <2> QED
    BY <1>1, <1>3, <2>2, <2>3, Unended DEF Places, Inner
<1>4. CASE /\ at = "start" /\ nest # <<>> /\ dialect \in {"mysql", "oracle"}
           /\ Open(<<"case-head">>, "CASE", "mid")
  <2>1. /\ "case-head" \in Frames /\ "case-head" \in FramesOfDialect
        /\ \A i \in DOMAIN m : Nests(m[i], "case-head")
    BY <1>1, <1>2, <1>4, EachFrame, NoneOpen DEF FramesOfDialect, Frames, Placed, Expressions,
       Control, Declarations
  <2>2. /\ nest' = Append(m, "case-head") /\ at' = "mid" /\ token' = "CASE"
        /\ WriteOn("CASE", "mid")
        /\ delimiter' = delimiter /\ Shape(Append(m, "case-head")) /\ Append(m, "case-head") # <<>>
        /\ Opened(m, "case-head")' /\ Top' = "case-head"
    BY <1>1, <1>4, <2>1, Opens, <1>2
  <2>3. Placed' /\ Changed(m, from)'
    BY <1>1, <1>4, <2>2, <1>2 DEF Placed, Places, AfterEnd, UnitHead, Changed, WroteUnit,
       Neutral
  <2> QED
    BY <1>1, <1>4, <2>2, <2>3, Unended DEF Places, Inner
<1>5. CASE /\ at = "start" /\ nest # <<>> /\ dialect \in {"mysql", "oracle"}
           /\ Open(<<"loop">>, "LOOP", "start")
  <2>1. /\ "loop" \in Frames /\ "loop" \in FramesOfDialect
        /\ \A i \in DOMAIN m : Nests(m[i], "loop")
    BY <1>1, <1>2, <1>5, EachFrame, NoneOpen DEF FramesOfDialect, Frames, Placed, Expressions,
       Control, Declarations
  <2>2. /\ nest' = Append(m, "loop") /\ at' = "start" /\ token' = "LOOP" /\ WriteOn("LOOP", "start")
        /\ delimiter' = delimiter /\ Shape(Append(m, "loop")) /\ Append(m, "loop") # <<>>
        /\ Opened(m, "loop")' /\ Top' = "loop"
    BY <1>1, <1>5, <2>1, Opens, <1>2
  <2>3. Placed' /\ Changed(m, from)'
    BY <1>1, <1>5, <2>2, <1>2 DEF Placed, Places, AfterEnd, UnitHead, Changed, WroteUnit,
       Neutral, Control
  <2> QED
    BY <1>1, <1>5, <2>2, <2>3, Unended DEF Places, Inner
<1>6. CASE /\ at = "start" /\ nest # <<>> /\ dialect = "oracle"
           /\ Open(<<"loop-head">>, "FOR", "mid")
  <2>1. /\ "loop-head" \in Frames /\ "loop-head" \in FramesOfDialect
        /\ \A i \in DOMAIN m : Nests(m[i], "loop-head")
    BY <1>1, <1>2, <1>6, EachFrame, NoneOpen DEF FramesOfDialect, Frames, Placed, Expressions,
       Control, Declarations
  <2>2. /\ nest' = Append(m, "loop-head") /\ at' = "mid" /\ token' = "FOR" /\ WriteOn("FOR", "mid")
        /\ delimiter' = delimiter /\ Shape(Append(m, "loop-head")) /\ Append(m, "loop-head") # <<>>
        /\ Opened(m, "loop-head")' /\ Top' = "loop-head"
    BY <1>1, <1>6, <2>1, Opens, <1>2
  <2>3. Placed' /\ Changed(m, from)'
    BY <1>1, <1>6, <2>2, <1>2 DEF Placed, Places, AfterEnd, UnitHead, Changed, WroteUnit,
       Neutral, WroteFor
  <2> QED
    BY <1>1, <1>6, <2>2, <2>3, Unended DEF Places, Inner
<1>7. CASE /\ at = "start" /\ nest # <<>> /\ dialect = "oracle"
           /\ Open(<<"loop-head">>, "WHILE", "mid")
  <2>1. /\ "loop-head" \in Frames /\ "loop-head" \in FramesOfDialect
        /\ \A i \in DOMAIN m : Nests(m[i], "loop-head")
    BY <1>1, <1>2, <1>7, EachFrame, NoneOpen DEF FramesOfDialect, Frames, Placed, Expressions,
       Control, Declarations
  <2>2. /\ nest' = Append(m, "loop-head") /\ at' = "mid" /\ token' = "WHILE"
        /\ WriteOn("WHILE", "mid")
        /\ delimiter' = delimiter /\ Shape(Append(m, "loop-head")) /\ Append(m, "loop-head") # <<>>
        /\ Opened(m, "loop-head")' /\ Top' = "loop-head"
    BY <1>1, <1>7, <2>1, Opens, <1>2
  <2>3. Placed' /\ Changed(m, from)'
    BY <1>1, <1>7, <2>2, <1>2 DEF Placed, Places, AfterEnd, UnitHead, Changed, WroteUnit,
       Neutral
  <2> QED
    BY <1>1, <1>7, <2>2, <2>3, Unended DEF Places, Inner
<1>8. CASE /\ at = "start" /\ nest # <<>> /\ dialect = "mysql"
           /\ delimiter = "$$" /\ Open(<<"repeat">>, "REPEAT", "start")
  <2>1. /\ "repeat" \in Frames /\ "repeat" \in FramesOfDialect
        /\ \A i \in DOMAIN m : Nests(m[i], "repeat")
    BY <1>1, <1>2, <1>8, EachFrame, NoneOpen DEF FramesOfDialect, Frames, Placed, Expressions,
       Control, Declarations
  <2>2. /\ nest' = Append(m, "repeat") /\ at' = "start" /\ token' = "REPEAT"
        /\ WriteOn("REPEAT", "start")
        /\ delimiter' = delimiter /\ Shape(Append(m, "repeat")) /\ Append(m, "repeat") # <<>>
        /\ Opened(m, "repeat")' /\ Top' = "repeat"
    BY <1>1, <1>8, <2>1, Opens, <1>2
  <2>3. Placed' /\ Changed(m, from)'
    BY <1>1, <1>8, <2>2, <1>2 DEF Placed, Places, AfterEnd, UnitHead, Changed, WroteUnit,
       Neutral, Control
  <2> QED
    BY <1>1, <1>8, <2>2, <2>3, Unended DEF Places, Inner
<1>9. CASE at \in {"mid", "closed"} /\ Top = "if-head" /\ Turn("if", "THEN", "start")
  <2>1. /\ "if-head" \in Frames /\ "if" \in Frames
        /\ \A i \in Nat : Possible("if-head", i) => Possible("if", i)
        /\ \A e \in Frames : Nests(e, "if-head") => Nests(e, "if")
    BY <1>1 DEF Possible, Nests, FramesOfDialect, Frames, Expressions, Declarations, Control
  <2>2. /\ nest' = Append(Front(m), "if") /\ at' = "start" /\ token' = "THEN"
        /\ WriteOn("THEN", "start") /\ delimiter' = delimiter /\ Shape(Append(Front(m), "if"))
        /\ Append(Front(m), "if") # <<>> /\ Turned(m, "if-head", "if")' /\ Top' = "if"
    BY <1>1, <1>9, <2>1, Turns
  <2>3. Placed' /\ Changed(m, from)'
    BY <1>1, <1>9, <2>2 DEF Placed, Places, AfterEnd, UnitHead, Changed, WroteUnit, Neutral,
       Control
  <2> QED
    BY <1>1, <1>9, <2>2, <2>3, Unended DEF Places, Inner
<1>10. CASE /\ at \in {"mid", "closed"} /\ Top = "case-head"
            /\ Turn("case-statement", "THEN", "start")
  <2>1. /\ "case-head" \in Frames /\ "case-statement" \in Frames
        /\ \A i \in Nat : Possible("case-head", i) => Possible("case-statement", i)
        /\ \A e \in Frames : Nests(e, "case-head") => Nests(e, "case-statement")
    BY <1>1 DEF Possible, Nests, FramesOfDialect, Frames, Expressions, Declarations, Control
  <2>2. /\ nest' = Append(Front(m), "case-statement") /\ at' = "start" /\ token' = "THEN"
        /\ WriteOn("THEN", "start") /\ delimiter' = delimiter
        /\ Shape(Append(Front(m), "case-statement"))
        /\ Append(Front(m), "case-statement") # <<>>
        /\ Turned(m, "case-head", "case-statement")' /\ Top' = "case-statement"
    BY <1>1, <1>10, <2>1, Turns
  <2>3. Placed' /\ Changed(m, from)'
    BY <1>1, <1>10, <2>2 DEF Placed, Places, AfterEnd, UnitHead, Changed, WroteUnit, Neutral,
       Control
  <2> QED
    BY <1>1, <1>10, <2>2, <2>3, Unended DEF Places, Inner
<1>11. CASE at \in {"mid", "closed"} /\ Top = "loop-head" /\ Turn("loop", "LOOP", "start")
  <2>1. /\ "loop-head" \in Frames /\ "loop" \in Frames
        /\ \A i \in Nat : Possible("loop-head", i) => Possible("loop", i)
        /\ \A e \in Frames : Nests(e, "loop-head") => Nests(e, "loop")
    BY <1>1 DEF Possible, Nests, FramesOfDialect, Frames, Expressions, Declarations, Control
  <2>2. /\ nest' = Append(Front(m), "loop") /\ at' = "start" /\ token' = "LOOP"
        /\ WriteOn("LOOP", "start") /\ delimiter' = delimiter /\ Shape(Append(Front(m), "loop"))
        /\ Append(Front(m), "loop") # <<>> /\ Turned(m, "loop-head", "loop")' /\ Top' = "loop"
    BY <1>1, <1>11, <2>1, Turns
  <2>3. Placed' /\ Changed(m, from)'
    BY <1>1, <1>11, <2>2 DEF Placed, Places, AfterEnd, UnitHead, Changed, WroteUnit, Neutral,
       Control
  <2> QED
    BY <1>1, <1>11, <2>2, <2>3, Unended DEF Places, Inner
<1>12. CASE at = "start" /\ Top = "if" /\ Close("END", "IF")
  <2>1. /\ nest' = Front(m) /\ at' = "IF" /\ token' = "END" /\ WriteOn("END", "IF")
        /\ delimiter' = delimiter /\ Shape(Front(m)) /\ Closed(m, "if")'
    BY <1>12, EachFrame, Closes
  <2>2. Placed' /\ Changed(m, from)'
    BY <1>1, <1>12, <2>1, <1>2, EndsWith DEF Placed, Places, AfterEnd, UnitHead, Changed,
       WroteUnit, Neutral, WroteEnd, Control
  <2> QED
    BY <1>1, <1>12, <2>1, <2>2, Unended DEF Places, Inner
<1>13. CASE at = "start" /\ Top = "loop" /\ Close("END", "LOOP")
  <2>1. /\ nest' = Front(m) /\ at' = "LOOP" /\ token' = "END" /\ WriteOn("END", "LOOP")
        /\ delimiter' = delimiter /\ Shape(Front(m)) /\ Closed(m, "loop")'
    BY <1>13, EachFrame, Closes
  <2>2. Placed' /\ Changed(m, from)'
    BY <1>1, <1>13, <2>1, <1>2, EndsWith DEF Placed, Places, AfterEnd, UnitHead, Changed,
       WroteUnit, Neutral, WroteEnd, Control
  <2> QED
    BY <1>1, <1>13, <2>1, <2>2, Unended DEF Places, Inner
<1>14. CASE at = "start" /\ Top = "repeat" /\ Close("END", "REPEAT")
  <2>1. /\ nest' = Front(m) /\ at' = "REPEAT" /\ token' = "END" /\ WriteOn("END", "REPEAT")
        /\ delimiter' = delimiter /\ Shape(Front(m)) /\ Closed(m, "repeat")'
    BY <1>14, EachFrame, Closes
  <2>2. Placed' /\ Changed(m, from)'
    BY <1>1, <1>14, <2>1, <1>2, EndsWith DEF Placed, Places, AfterEnd, UnitHead, Changed,
       WroteUnit, Neutral, WroteEnd, Control
  <2> QED
    BY <1>1, <1>14, <2>1, <2>2, Unended DEF Places, Inner
<1>15. CASE at = "start" /\ Top = "case-statement" /\ Close("END", "CASE")
  <2>1. /\ nest' = Front(m) /\ at' = "CASE" /\ token' = "END" /\ WriteOn("END", "CASE")
        /\ delimiter' = delimiter /\ Shape(Front(m)) /\ Closed(m, "case-statement")'
    BY <1>15, EachFrame, Closes
  <2>2. Placed' /\ Changed(m, from)'
    BY <1>1, <1>15, <2>1, <1>2, EndsWith DEF Placed, Places, AfterEnd, UnitHead, Changed,
       WroteUnit, Neutral, WroteEnd, Control
  <2> QED
    BY <1>1, <1>15, <2>1, <2>2, Unended DEF Places, Inner
<1>16. CASE at = "IF" /\ Write("IF", "closed")
  <2>1. /\ nest' = m /\ at' = "closed" /\ token' = "IF" /\ delimiter' = delimiter
        /\ Kept(m)' /\ Top' = Top
    BY <1>16, Stays
  <2>2. Placed' /\ Changed(m, from)'
    BY <1>1, <1>16, <2>1 DEF Placed, Places, AfterEnd, UnitHead, Changed, WroteUnit, Neutral
  <2> QED
    BY <1>1, <1>16, <2>2, StayWritten DEF Places, Inner
<1>17. CASE at = "LOOP" /\ Write("LOOP", "closed")
  <2>1. /\ nest' = m /\ at' = "closed" /\ token' = "LOOP" /\ delimiter' = delimiter
        /\ Kept(m)' /\ Top' = Top
    BY <1>17, Stays
  <2>2. Placed' /\ Changed(m, from)'
    BY <1>1, <1>17, <2>1 DEF Placed, Places, AfterEnd, UnitHead, Changed, WroteUnit, Neutral
  <2> QED
    BY <1>1, <1>17, <2>2, StayWritten DEF Places, Inner
<1>18. CASE at = "REPEAT" /\ Write("REPEAT", "closed")
  <2>1. /\ nest' = m /\ at' = "closed" /\ token' = "REPEAT" /\ delimiter' = delimiter
        /\ Kept(m)' /\ Top' = Top
    BY <1>18, Stays
  <2>2. Placed' /\ Changed(m, from)'
    BY <1>1, <1>18, <2>1 DEF Placed, Places, AfterEnd, UnitHead, Changed, WroteUnit, Neutral
  <2> QED
    BY <1>1, <1>18, <2>2, StayWritten DEF Places, Inner
<1>19. CASE at = "CASE" /\ Write("CASE", "closed")
  <2>1. /\ nest' = m /\ at' = "closed" /\ token' = "CASE" /\ delimiter' = delimiter
        /\ Kept(m)' /\ Top' = Top
    BY <1>19, Stays
  <2>2. Placed' /\ Changed(m, from)'
    BY <1>1, <1>19, <2>1 DEF Placed, Places, AfterEnd, UnitHead, Changed, WroteUnit, Neutral
  <2> QED
    BY <1>1, <1>19, <2>2, StayWritten DEF Places, Inner
<1> QED
  BY <1>3, <1>4, <1>5, <1>6, <1>7, <1>8, <1>9, <1>10, <1>11, <1>12, <1>13, <1>14, <1>15, <1>16,
     <1>17, <1>18, <1>19, <1>2, EndsWith DEF WriteControl, BodyOf, Control

\* A unit in which nothing else is open.
LEMMA OnlyUnit ==
  /\ <<"unit">> # <<>> /\ Last(<<"unit">>) = "unit" /\ InUnit(<<"unit">>)
  /\ <<"unit">> = Append(<<>>, "unit")
<1>1. "unit" \in Frames /\ <<>> \in Seq(Frames) /\ <<"unit">> = Append(<<>>, "unit")
  BY EachFrame, Given
<1>2. /\ Append(<<>>, "unit") # <<>> /\ Last(Append(<<>>, "unit")) = "unit"
      /\ Holds(Append(<<>>, "unit"), "unit")
  BY <1>1, Push, HoldsPush
<1> QED
  BY <1>1, <1>2 DEF InUnit

\* An anonymous block opens a unit and its first part at once.
LEMMA OpensUnit ==
  ASSUME NEW m, NEW from, Writing(m, from), dialect = "oracle", m = <<>>,
         NEW g \in {"declarations", "block"}, NEW t, NEW p, Open(<<"unit", g>>, t, p)
  PROVE  /\ nest' = <<"unit", g>> /\ at' = p /\ token' = t /\ WriteOn(t, p)
         /\ delimiter' = delimiter /\ Shape(<<"unit", g>>) /\ <<"unit", g>> # <<>> /\ Top' = g
<1>1. /\ "unit" \in Frames /\ g \in Frames /\ <<>> \in Seq(Frames)
      /\ <<"unit">> \in Seq(Frames) /\ <<"unit", g>> \in Seq(Frames)
  BY EachFrame, Given
<1>2. <<"unit">> = Append(<<>>, "unit") /\ <<"unit", g>> = Append(<<"unit">>, g)
  BY <1>1, Given
<1>3. /\ Len(<<>>) + 1 = 1 /\ Len(<<"unit">>) + 1 = 2
      /\ DOMAIN <<>> = {} /\ DOMAIN <<"unit">> = 1..1 /\ <<"unit">>[1] = "unit"
  BY Given
<1>4. Shape(<<>>) /\ Possible("unit", 1) /\ Possible(g, 2)
  BY <1>1, ShapeEmpty DEF Possible, FramesOfDialect
<1>5. Shape(<<"unit">>)
  BY <1>1, <1>2, <1>3, <1>4, ShapePush
<1>6. \A i \in DOMAIN <<"unit">> : Nests(<<"unit">>[i], g)
  BY <1>3 DEF Nests, Expressions
<1>7. Shape(Append(<<"unit">>, g))
  BY <1>1, <1>3, <1>4, <1>5, <1>6, ShapePush
<1>8. nest = <<>> /\ <<>> \o <<"unit", g>> = <<"unit", g>>
  BY <1>1, Here, ConcatEmptySeq
<1>9. <<"unit", g>> # <<>> /\ Last(<<"unit", g>>) = g
  <2>1. Append(<<"unit">>, g) # <<>> /\ Last(Append(<<"unit">>, g)) = g
    BY <1>1, Push
  <2> QED
    BY <1>2, <2>1
<1>10. /\ nest' = <<"unit", g>> /\ at' = p /\ token' = t /\ WriteOn(t, p)
       /\ delimiter' = delimiter
  BY <1>8 DEF Open, WriteOn, token
<1> QED
  BY <1>2, <1>7, <1>9, <1>10 DEF Top

\* The head of a PL/SQL unit.
LEMMA UnitWritten ==
  ASSUME NEW m, NEW from, Writing(m, from), dialect = "oracle", WriteUnit
  PROVE  WroteOK(m, from)
<1>1. m = nest /\ from = at /\ dialect' = dialect /\ Shape(m) /\ Placed
  BY Here
<1>2. /\ at \in {"header", "accessible", "accessible-by", "for", "compound", "type",
                "type-body", "package"} =>
           m = <<"unit">> /\ m # <<>> /\ Top \notin Expressions /\ InUnit(m)
      /\ at = "create" => m = <<>>
      /\ m = <<>> => Top \notin Expressions /\ Append(m, "unit") = <<"unit">>
  BY <1>1, OnlyUnit DEF Top, Expressions, Placed, UnitHead
<1>3. CASE at = "start" /\ nest = <<>> /\ Open(<<"unit", "declarations">>, "DECLARE", "declare")
  <2>1. /\ nest' = <<"unit", "declarations">> /\ at' = "declare" /\ token' = "DECLARE"
        /\ WriteOn("DECLARE", "declare") /\ delimiter' = delimiter
        /\ Shape(<<"unit", "declarations">>)
        /\ <<"unit", "declarations">> # <<>> /\ Top' = "declarations"
    BY <1>1, <1>3, OpensUnit
  <2>2. Placed' /\ Changed(m, from)'
    BY <1>1, <1>3, <2>1 DEF Placed, Places, AfterEnd, UnitHead, Changed, WroteUnit, Neutral,
       Declarations
  <2> QED
    BY <1>1, <1>3, <2>1, <2>2, Unended DEF Places, Inner
<1>4. CASE at = "start" /\ nest = <<>> /\ Open(<<"unit", "block">>, "BEGIN", "start")
  <2>1. /\ nest' = <<"unit", "block">> /\ at' = "start" /\ token' = "BEGIN"
        /\ WriteOn("BEGIN", "start") /\ delimiter' = delimiter /\ Shape(<<"unit", "block">>)
        /\ <<"unit", "block">> # <<>> /\ Top' = "block"
    BY <1>1, <1>4, OpensUnit
  <2>2. Placed' /\ Changed(m, from)'
    BY <1>1, <1>4, <2>1 DEF Placed, Places, AfterEnd, UnitHead, Changed, WroteUnit, Neutral,
       WroteBegin
  <2> QED
    BY <1>1, <1>4, <2>1, <2>2, Unended DEF Places, Inner
<1>5. CASE at = "create" /\ Open(<<"unit">>, "PROCEDURE", "header")
  <2>1. /\ "unit" \in Frames /\ "unit" \in FramesOfDialect
        /\ \A i \in DOMAIN m : Nests(m[i], "unit")
    BY <1>1, <1>2, <1>5, EachFrame, NoneOpen DEF FramesOfDialect, Frames, Expressions, Control,
       Declarations
  <2>2. /\ nest' = Append(m, "unit") /\ at' = "header" /\ token' = "PROCEDURE"
        /\ WriteOn("PROCEDURE", "header")
        /\ delimiter' = delimiter /\ Shape(Append(m, "unit")) /\ Append(m, "unit") # <<>>
        /\ Opened(m, "unit")' /\ Top' = "unit"
    BY <1>1, <1>5, <2>1, Opens, <1>2
  <2>3. Placed' /\ Changed(m, from)'
    BY <1>1, <1>5, <2>2, <1>2 DEF Placed, Places, AfterEnd, UnitHead, Changed, WroteUnit,
       Neutral
  <2> QED
    BY <1>1, <1>5, <2>2, <2>3, Unended DEF Places, Inner
<1>6. CASE at = "create" /\ Open(<<"unit">>, "TYPE", "type")
  <2>1. /\ "unit" \in Frames /\ "unit" \in FramesOfDialect
        /\ \A i \in DOMAIN m : Nests(m[i], "unit")
    BY <1>1, <1>2, <1>6, EachFrame, NoneOpen DEF FramesOfDialect, Frames, Expressions, Control,
       Declarations
  <2>2. /\ nest' = Append(m, "unit") /\ at' = "type" /\ token' = "TYPE" /\ WriteOn("TYPE", "type")
        /\ delimiter' = delimiter /\ Shape(Append(m, "unit")) /\ Append(m, "unit") # <<>>
        /\ Opened(m, "unit")' /\ Top' = "unit"
    BY <1>1, <1>6, <2>1, Opens, <1>2
  <2>3. Placed' /\ Changed(m, from)'
    BY <1>1, <1>6, <2>2, <1>2 DEF Placed, Places, AfterEnd, UnitHead, Changed, WroteUnit,
       Neutral
  <2> QED
    BY <1>1, <1>6, <2>2, <2>3, Unended DEF Places, Inner
<1>7. CASE at = "create" /\ Open(<<"unit">>, "PACKAGE", "package")
  <2>1. /\ "unit" \in Frames /\ "unit" \in FramesOfDialect
        /\ \A i \in DOMAIN m : Nests(m[i], "unit")
    BY <1>1, <1>2, <1>7, EachFrame, NoneOpen DEF FramesOfDialect, Frames, Expressions, Control,
       Declarations
  <2>2. /\ nest' = Append(m, "unit") /\ at' = "package" /\ token' = "PACKAGE"
        /\ WriteOn("PACKAGE", "package")
        /\ delimiter' = delimiter /\ Shape(Append(m, "unit")) /\ Append(m, "unit") # <<>>
        /\ Opened(m, "unit")' /\ Top' = "unit"
    BY <1>1, <1>7, <2>1, Opens, <1>2
  <2>3. Placed' /\ Changed(m, from)'
    BY <1>1, <1>7, <2>2, <1>2 DEF Placed, Places, AfterEnd, UnitHead, Changed, WroteUnit,
       Neutral
  <2> QED
    BY <1>1, <1>7, <2>2, <2>3, Unended DEF Places, Inner
<1>8. CASE at = "header" /\ Open(<<"declarations">>, "IS", "declare")
  <2>1. /\ "declarations" \in Frames /\ "declarations" \in FramesOfDialect
        /\ \A i \in DOMAIN m : Nests(m[i], "declarations")
    BY <1>1, <1>2, <1>8, EachFrame, NoneOpen DEF FramesOfDialect, Frames, Expressions, Control,
       Declarations
  <2>2. /\ nest' = Append(m, "declarations") /\ at' = "declare" /\ token' = "IS"
        /\ WriteOn("IS", "declare")
        /\ delimiter' = delimiter /\ Shape(Append(m, "declarations"))
        /\ Append(m, "declarations") # <<>>
        /\ Opened(m, "declarations")' /\ Top' = "declarations"
    BY <1>1, <1>8, <2>1, Opens, <1>2
  <2>3. Placed' /\ Changed(m, from)'
    BY <1>1, <1>8, <2>2, <1>2 DEF Placed, Places, AfterEnd, UnitHead, Changed, WroteUnit,
       Neutral, Declarations
  <2> QED
    BY <1>1, <1>8, <2>2, <2>3, Unended DEF Places, Inner
<1>9. CASE at = "header" /\ Open(<<"declarations">>, "DECLARE", "declare")
  <2>1. /\ "declarations" \in Frames /\ "declarations" \in FramesOfDialect
        /\ \A i \in DOMAIN m : Nests(m[i], "declarations")
    BY <1>1, <1>2, <1>9, EachFrame, NoneOpen DEF FramesOfDialect, Frames, Expressions, Control,
       Declarations
  <2>2. /\ nest' = Append(m, "declarations") /\ at' = "declare" /\ token' = "DECLARE"
        /\ WriteOn("DECLARE", "declare")
        /\ delimiter' = delimiter /\ Shape(Append(m, "declarations"))
        /\ Append(m, "declarations") # <<>>
        /\ Opened(m, "declarations")' /\ Top' = "declarations"
    BY <1>1, <1>9, <2>1, Opens, <1>2
  <2>3. Placed' /\ Changed(m, from)'
    BY <1>1, <1>9, <2>2, <1>2 DEF Placed, Places, AfterEnd, UnitHead, Changed, WroteUnit,
       Neutral, Declarations
  <2> QED
    BY <1>1, <1>9, <2>2, <2>3, Unended DEF Places, Inner
<1>10. CASE at = "header" /\ Open(<<"block">>, "BEGIN", "start")
  <2>1. /\ "block" \in Frames /\ "block" \in FramesOfDialect
        /\ \A i \in DOMAIN m : Nests(m[i], "block")
    BY <1>1, <1>2, <1>10, EachFrame, NoneOpen DEF FramesOfDialect, Frames, Expressions, Control,
       Declarations
  <2>2. /\ nest' = Append(m, "block") /\ at' = "start" /\ token' = "BEGIN"
        /\ WriteOn("BEGIN", "start")
        /\ delimiter' = delimiter /\ Shape(Append(m, "block")) /\ Append(m, "block") # <<>>
        /\ Opened(m, "block")' /\ Top' = "block"
    BY <1>1, <1>10, <2>1, Opens, <1>2
  <2>3. Placed' /\ Changed(m, from)'
    BY <1>1, <1>10, <2>2, <1>2 DEF Placed, Places, AfterEnd, UnitHead, Changed, WroteUnit,
       Neutral, WroteBegin
  <2> QED
    BY <1>1, <1>10, <2>2, <2>3, Unended DEF Places, Inner
<1>11. CASE at = "header" /\ Write("FOR", "for")
  <2>1. /\ nest' = m /\ at' = "for" /\ token' = "FOR" /\ delimiter' = delimiter
        /\ Kept(m)' /\ Top' = Top
    BY <1>11, Stays
  <2>2. Placed' /\ Changed(m, from)'
    BY <1>1, <1>11, <2>1, <1>2 DEF Placed, Places, AfterEnd, UnitHead, Changed, WroteUnit,
       Neutral, WroteFor
  <2> QED
    BY <1>1, <1>11, <2>2, StayWritten DEF Places, Inner
<1>12. CASE at = "header" /\ Write("(", "accessible")
  <2>1. /\ nest' = m /\ at' = "accessible" /\ token' = "(" /\ delimiter' = delimiter
        /\ Kept(m)' /\ Top' = Top
    BY <1>12, Stays
  <2>2. Placed' /\ Changed(m, from)'
    BY <1>1, <1>12, <2>1, <1>2 DEF Placed, Places, AfterEnd, UnitHead, Changed, WroteUnit,
       Neutral
  <2> QED
    BY <1>1, <1>12, <2>2, StayWritten DEF Places, Inner
<1>13. CASE at = "accessible" /\ Write("PROCEDURE", "accessible-by")
  <2>1. /\ nest' = m /\ at' = "accessible-by" /\ token' = "PROCEDURE" /\ delimiter' = delimiter
        /\ Kept(m)' /\ Top' = Top
    BY <1>13, Stays
  <2>2. Placed' /\ Changed(m, from)'
    BY <1>1, <1>13, <2>1, <1>2 DEF Placed, Places, AfterEnd, UnitHead, Changed, WroteUnit,
       Neutral
  <2> QED
    BY <1>1, <1>13, <2>2, StayWritten DEF Places, Inner
<1>14. CASE at = "accessible-by" /\ Write(")", "header")
  <2>1. /\ nest' = m /\ at' = "header" /\ token' = ")" /\ delimiter' = delimiter
        /\ Kept(m)' /\ Top' = Top
    BY <1>14, Stays
  <2>2. Placed' /\ Changed(m, from)'
    BY <1>1, <1>14, <2>1, <1>2 DEF Placed, Places, AfterEnd, UnitHead, Changed, WroteUnit,
       Neutral
  <2> QED
    BY <1>1, <1>14, <2>2, StayWritten DEF Places, Inner
<1>15. CASE at = "for" /\ Write("x", "for")
  <2>1. /\ nest' = m /\ at' = "for" /\ token' = "x" /\ delimiter' = delimiter
        /\ Kept(m)' /\ Top' = Top
    BY <1>15, Stays
  <2>2. Placed' /\ Changed(m, from)'
    BY <1>1, <1>15, <2>1, <1>2 DEF Placed, Places, AfterEnd, UnitHead, Changed, WroteUnit,
       Neutral
  <2> QED
    BY <1>1, <1>15, <2>2, StayWritten DEF Places, Inner
<1>16. CASE at = "for" /\ Write("EACH", "header")
  <2>1. /\ nest' = m /\ at' = "header" /\ token' = "EACH" /\ delimiter' = delimiter
        /\ Kept(m)' /\ Top' = Top
    BY <1>16, Stays
  <2>2. Placed' /\ Changed(m, from)'
    BY <1>1, <1>16, <2>1, <1>2 DEF Placed, Places, AfterEnd, UnitHead, Changed, WroteUnit,
       Neutral
  <2> QED
    BY <1>1, <1>16, <2>2, StayWritten DEF Places, Inner
<1>17. CASE at = "for" /\ Write("COMPOUND", "compound")
  <2>1. /\ nest' = m /\ at' = "compound" /\ token' = "COMPOUND" /\ delimiter' = delimiter
        /\ Kept(m)' /\ Top' = Top
    BY <1>17, Stays
  <2>2. Placed' /\ Changed(m, from)'
    BY <1>1, <1>17, <2>1, <1>2 DEF Placed, Places, AfterEnd, UnitHead, Changed, WroteUnit,
       Neutral
  <2> QED
    BY <1>1, <1>17, <2>2, StayWritten DEF Places, Inner
<1>18. CASE at = "compound" /\ Open(<<"compound">>, "PROCEDURE", "declare")
  <2>1. /\ "compound" \in Frames /\ "compound" \in FramesOfDialect
        /\ \A i \in DOMAIN m : Nests(m[i], "compound")
    BY <1>1, <1>2, <1>18, EachFrame, NoneOpen DEF FramesOfDialect, Frames, Expressions, Control,
       Declarations
  <2>2. /\ nest' = Append(m, "compound") /\ at' = "declare" /\ token' = "PROCEDURE"
        /\ WriteOn("PROCEDURE", "declare")
        /\ delimiter' = delimiter /\ Shape(Append(m, "compound")) /\ Append(m, "compound") # <<>>
        /\ Opened(m, "compound")' /\ Top' = "compound"
    BY <1>1, <1>18, <2>1, Opens, <1>2
  <2>3. Placed' /\ Changed(m, from)'
    BY <1>1, <1>18, <2>2, <1>2 DEF Placed, Places, AfterEnd, UnitHead, Changed, WroteUnit,
       Neutral, Declarations
  <2> QED
    BY <1>1, <1>18, <2>2, <2>3, Unended DEF Places, Inner
<1>19. CASE at \in {"type", "type-body", "package"} /\ Write("x", at)
  <2>1. /\ nest' = m /\ at' = at /\ token' = "x" /\ delimiter' = delimiter
        /\ Kept(m)' /\ Top' = Top
    BY <1>19, Stays
  <2>2. Placed' /\ Changed(m, from)'
    BY <1>1, <1>19, <2>1, <1>2 DEF Placed, Places, AfterEnd, UnitHead, Changed, WroteUnit,
       Neutral
  <2> QED
    BY <1>1, <1>19, <2>2, StayWritten DEF Places, Inner
<1>20. CASE at = "type" /\ Write("IS", "mid")
  <2>1. /\ nest' = m /\ at' = "mid" /\ token' = "IS" /\ delimiter' = delimiter
        /\ Kept(m)' /\ Top' = Top
    BY <1>20, Stays
  <2>2. Placed' /\ Changed(m, from)'
    BY <1>1, <1>20, <2>1, <1>2 DEF Placed, Places, AfterEnd, UnitHead, Changed, WroteUnit,
       Neutral
  <2> QED
    BY <1>1, <1>20, <2>2, StayWritten DEF Places, Inner
<1>21. CASE at = "type" /\ Write("BODY", "type-body")
  <2>1. /\ nest' = m /\ at' = "type-body" /\ token' = "BODY" /\ delimiter' = delimiter
        /\ Kept(m)' /\ Top' = Top
    BY <1>21, Stays
  <2>2. Placed' /\ Changed(m, from)'
    BY <1>1, <1>21, <2>1, <1>2 DEF Placed, Places, AfterEnd, UnitHead, Changed, WroteUnit,
       Neutral
  <2> QED
    BY <1>1, <1>21, <2>2, StayWritten DEF Places, Inner
<1>22. CASE at = "type-body" /\ Open(<<"type-body">>, "IS", "declare")
  <2>1. /\ "type-body" \in Frames /\ "type-body" \in FramesOfDialect
        /\ \A i \in DOMAIN m : Nests(m[i], "type-body")
    BY <1>1, <1>2, <1>22, EachFrame, NoneOpen DEF FramesOfDialect, Frames, Expressions, Control,
       Declarations
  <2>2. /\ nest' = Append(m, "type-body") /\ at' = "declare" /\ token' = "IS"
        /\ WriteOn("IS", "declare")
        /\ delimiter' = delimiter /\ Shape(Append(m, "type-body")) /\ Append(m, "type-body") # <<>>
        /\ Opened(m, "type-body")' /\ Top' = "type-body"
    BY <1>1, <1>22, <2>1, Opens, <1>2
  <2>3. Placed' /\ Changed(m, from)'
    BY <1>1, <1>22, <2>2, <1>2 DEF Placed, Places, AfterEnd, UnitHead, Changed, WroteUnit,
       Neutral, Declarations
  <2> QED
    BY <1>1, <1>22, <2>2, <2>3, Unended DEF Places, Inner
<1>23. CASE at = "package" /\ Write("BODY", "package")
  <2>1. /\ nest' = m /\ at' = "package" /\ token' = "BODY" /\ delimiter' = delimiter
        /\ Kept(m)' /\ Top' = Top
    BY <1>23, Stays
  <2>2. Placed' /\ Changed(m, from)'
    BY <1>1, <1>23, <2>1, <1>2 DEF Placed, Places, AfterEnd, UnitHead, Changed, WroteUnit,
       Neutral
  <2> QED
    BY <1>1, <1>23, <2>2, StayWritten DEF Places, Inner
<1>24. CASE at = "package" /\ Open(<<"package">>, "IS", "declare")
  <2>1. /\ "package" \in Frames /\ "package" \in FramesOfDialect
        /\ \A i \in DOMAIN m : Nests(m[i], "package")
    BY <1>1, <1>2, <1>24, EachFrame, NoneOpen DEF FramesOfDialect, Frames, Expressions, Control,
       Declarations
  <2>2. /\ nest' = Append(m, "package") /\ at' = "declare" /\ token' = "IS"
        /\ WriteOn("IS", "declare")
        /\ delimiter' = delimiter /\ Shape(Append(m, "package")) /\ Append(m, "package") # <<>>
        /\ Opened(m, "package")' /\ Top' = "package"
    BY <1>1, <1>24, <2>1, Opens, <1>2
  <2>3. Placed' /\ Changed(m, from)'
    BY <1>1, <1>24, <2>2, <1>2 DEF Placed, Places, AfterEnd, UnitHead, Changed, WroteUnit,
       Neutral, Declarations
  <2> QED
    BY <1>1, <1>24, <2>2, <2>3, Unended DEF Places, Inner
<1> QED
  BY <1>3, <1>4, <1>5, <1>6, <1>7, <1>8, <1>9, <1>10, <1>11, <1>12, <1>13, <1>14, <1>15, <1>16,
     <1>17, <1>18, <1>19, <1>20, <1>21, <1>22, <1>23, <1>24 DEF WriteUnit

\* Declarations, and what ends them.
LEMMA DeclarationWritten ==
  ASSUME NEW m, NEW from, Writing(m, from), dialect = "oracle", WriteDeclaration
  PROVE  WroteOK(m, from)
<1>1. m = nest /\ from = at /\ dialect' = dialect /\ Shape(m) /\ Placed
  BY Here
<1>2. /\ at \in {"declare", "spec"} => Top \in Declarations
      /\ Top = "compound" => Top \in Declarations
      /\ Top \in Declarations \/ (at = "start" /\ nest # <<>>) =>
           m # <<>> /\ Top \notin Expressions /\ InUnit(m)
  <2>1. /\ at \in {"declare", "spec"} => Top \in Declarations
        /\ Top = "compound" => Top \in Declarations
        /\ Top \in Declarations \/ (at = "start" /\ nest # <<>>) =>
             m # <<>> /\ Top \notin Expressions
    BY <1>1 DEF Placed, Top, Expressions, Declarations, Control
  <2>2. m # <<>> => Top = Last(m)
    BY Here
  <2> QED
    BY <1>1, <2>1, <2>2, Outermost DEF InUnit
<1>3. CASE at = "declare" /\ Write("x", "mid")
  <2>1. /\ nest' = m /\ at' = "mid" /\ token' = "x" /\ delimiter' = delimiter
        /\ Kept(m)' /\ Top' = Top
    BY <1>3, Stays
  <2>2. Placed' /\ Changed(m, from)'
    BY <1>1, <1>3, <2>1, <1>2 DEF Placed, Places, AfterEnd, UnitHead, Changed, WroteUnit,
       Neutral
  <2> QED
    BY <1>1, <1>3, <2>2, StayWritten DEF Places, Inner
<1>4. CASE at = "declare" /\ Write("TYPE", "mid")
  <2>1. /\ nest' = m /\ at' = "mid" /\ token' = "TYPE" /\ delimiter' = delimiter
        /\ Kept(m)' /\ Top' = Top
    BY <1>4, Stays
  <2>2. Placed' /\ Changed(m, from)'
    BY <1>1, <1>4, <2>1, <1>2 DEF Placed, Places, AfterEnd, UnitHead, Changed, WroteUnit,
       Neutral
  <2> QED
    BY <1>1, <1>4, <2>2, StayWritten DEF Places, Inner
<1>5. CASE at = "declare" /\ Write("PROCEDURE", "spec")
  <2>1. /\ nest' = m /\ at' = "spec" /\ token' = "PROCEDURE" /\ delimiter' = delimiter
        /\ Kept(m)' /\ Top' = Top
    BY <1>5, Stays
  <2>2. Placed' /\ Changed(m, from)'
    BY <1>1, <1>5, <2>1, <1>2 DEF Placed, Places, AfterEnd, UnitHead, Changed, WroteUnit,
       Neutral
  <2> QED
    BY <1>1, <1>5, <2>2, StayWritten DEF Places, Inner
<1>6. CASE at = "declare" /\ Top = "declarations" /\ Turn("block", "BEGIN", "start")
  <2>1. /\ "declarations" \in Frames /\ "block" \in Frames
        /\ \A i \in Nat : Possible("declarations", i) => Possible("block", i)
        /\ \A e \in Frames : Nests(e, "declarations") => Nests(e, "block")
    BY <1>1 DEF Possible, Nests, FramesOfDialect, Frames, Expressions, Declarations, Control
  <2>2. /\ nest' = Append(Front(m), "block") /\ at' = "start" /\ token' = "BEGIN"
        /\ WriteOn("BEGIN", "start") /\ delimiter' = delimiter /\ Shape(Append(Front(m), "block"))
        /\ Append(Front(m), "block") # <<>> /\ Turned(m, "declarations", "block")' /\ Top' = "block"
    BY <1>1, <1>6, <2>1, Turns
  <2>3. Placed' /\ Changed(m, from)'
    BY <1>1, <1>6, <2>2 DEF Placed, Places, AfterEnd, UnitHead, Changed, WroteUnit, Neutral,
       WroteBegin
  <2> QED
    BY <1>1, <1>6, <2>2, <2>3, Unended DEF Places, Inner
<1>7. CASE /\ at = "declare" /\ Top = "package"
           /\ Turn("initialization", "BEGIN", "start")
  <2>1. /\ "package" \in Frames /\ "initialization" \in Frames
        /\ \A i \in Nat : Possible("package", i) => Possible("initialization", i)
        /\ \A e \in Frames : Nests(e, "package") => Nests(e, "initialization")
    BY <1>1 DEF Possible, Nests, FramesOfDialect, Frames, Expressions, Declarations, Control
  <2>2. /\ nest' = Append(Front(m), "initialization") /\ at' = "start" /\ token' = "BEGIN"
        /\ WriteOn("BEGIN", "start") /\ delimiter' = delimiter
        /\ Shape(Append(Front(m), "initialization"))
        /\ Append(Front(m), "initialization") # <<>> /\ Turned(m, "package", "initialization")'
        /\ Top' = "initialization"
    BY <1>1, <1>7, <2>1, Turns
  <2>3. Placed' /\ Changed(m, from)'
    BY <1>1, <1>7, <2>2 DEF Placed, Places, AfterEnd, UnitHead, Changed, WroteUnit, Neutral,
       WroteBegin
  <2> QED
    BY <1>1, <1>7, <2>2, <2>3, Unended DEF Places, Inner
<1>8. CASE at = "declare" /\ Top = "package" /\ Close("END", "closed")
  <2>1. /\ nest' = Front(m) /\ at' = "closed" /\ token' = "END" /\ WriteOn("END", "closed")
        /\ delimiter' = delimiter /\ Shape(Front(m)) /\ Closed(m, "package")'
    BY <1>8, EachFrame, Closes
  <2>2. Placed' /\ Changed(m, from)'
    BY <1>1, <1>8, <2>1 DEF Placed, Places, AfterEnd, UnitHead, Changed, WroteUnit, Neutral,
       WroteEnd, Declarations
  <2> QED
    BY <1>1, <1>8, <2>1, <2>2, Unended DEF Places, Inner
<1>9. CASE at = "declare" /\ Top = "compound" /\ Close("END", "closed")
  <2>1. /\ nest' = Front(m) /\ at' = "closed" /\ token' = "END" /\ WriteOn("END", "closed")
        /\ delimiter' = delimiter /\ Shape(Front(m)) /\ Closed(m, "compound")'
    BY <1>9, EachFrame, Closes
  <2>2. Placed' /\ Changed(m, from)'
    BY <1>1, <1>9, <2>1 DEF Placed, Places, AfterEnd, UnitHead, Changed, WroteUnit, Neutral,
       WroteEnd, Declarations
  <2> QED
    BY <1>1, <1>9, <2>1, <2>2, Unended DEF Places, Inner
<1>10. CASE at = "declare" /\ Top = "type-body" /\ Close("END", "closed")
  <2>1. /\ nest' = Front(m) /\ at' = "closed" /\ token' = "END" /\ WriteOn("END", "closed")
        /\ delimiter' = delimiter /\ Shape(Front(m)) /\ Closed(m, "type-body")'
    BY <1>10, EachFrame, Closes
  <2>2. Placed' /\ Changed(m, from)'
    BY <1>1, <1>10, <2>1 DEF Placed, Places, AfterEnd, UnitHead, Changed, WroteUnit, Neutral,
       WroteEnd, Declarations
  <2> QED
    BY <1>1, <1>10, <2>1, <2>2, Unended DEF Places, Inner
<1>11. CASE at = "mid" /\ Top \in Declarations /\ Write("IS", "mid")
  <2>1. /\ nest' = m /\ at' = "mid" /\ token' = "IS" /\ delimiter' = delimiter
        /\ Kept(m)' /\ Top' = Top
    BY <1>11, Stays
  <2>2. Placed' /\ Changed(m, from)'
    BY <1>1, <1>11, <2>1, <1>2 DEF Placed, Places, AfterEnd, UnitHead, Changed, WroteUnit,
       Neutral
  <2> QED
    BY <1>1, <1>11, <2>2, StayWritten DEF Places, Inner
<1>12. CASE at = "mid" /\ Top = "compound" /\ Open(<<"declarations">>, "IS", "declare")
  <2>1. /\ "declarations" \in Frames /\ "declarations" \in FramesOfDialect
        /\ \A i \in DOMAIN m : Nests(m[i], "declarations")
    BY <1>1, <1>2, <1>12, EachFrame, NoneOpen DEF FramesOfDialect, Frames, Expressions, Control,
       Declarations
  <2>2. /\ nest' = Append(m, "declarations") /\ at' = "declare" /\ token' = "IS"
        /\ WriteOn("IS", "declare")
        /\ delimiter' = delimiter /\ Shape(Append(m, "declarations"))
        /\ Append(m, "declarations") # <<>>
        /\ Opened(m, "declarations")' /\ Top' = "declarations"
    BY <1>1, <1>12, <2>1, Opens, <1>2
  <2>3. Placed' /\ Changed(m, from)'
    BY <1>1, <1>12, <2>2, <1>2 DEF Placed, Places, AfterEnd, UnitHead, Changed, WroteUnit,
       Neutral, Declarations
  <2> QED
    BY <1>1, <1>12, <2>2, <2>3, Unended DEF Places, Inner
<1>13. CASE at = "spec" /\ Write("x", "spec")
  <2>1. /\ nest' = m /\ at' = "spec" /\ token' = "x" /\ delimiter' = delimiter
        /\ Kept(m)' /\ Top' = Top
    BY <1>13, Stays
  <2>2. Placed' /\ Changed(m, from)'
    BY <1>1, <1>13, <2>1, <1>2 DEF Placed, Places, AfterEnd, UnitHead, Changed, WroteUnit,
       Neutral
  <2> QED
    BY <1>1, <1>13, <2>2, StayWritten DEF Places, Inner
<1>14. CASE at = "spec" /\ Open(<<"declarations">>, "IS", "declare")
  <2>1. /\ "declarations" \in Frames /\ "declarations" \in FramesOfDialect
        /\ \A i \in DOMAIN m : Nests(m[i], "declarations")
    BY <1>1, <1>2, <1>14, EachFrame, NoneOpen DEF FramesOfDialect, Frames, Expressions, Control,
       Declarations
  <2>2. /\ nest' = Append(m, "declarations") /\ at' = "declare" /\ token' = "IS"
        /\ WriteOn("IS", "declare")
        /\ delimiter' = delimiter /\ Shape(Append(m, "declarations"))
        /\ Append(m, "declarations") # <<>>
        /\ Opened(m, "declarations")' /\ Top' = "declarations"
    BY <1>1, <1>14, <2>1, Opens, <1>2
  <2>3. Placed' /\ Changed(m, from)'
    BY <1>1, <1>14, <2>2, <1>2 DEF Placed, Places, AfterEnd, UnitHead, Changed, WroteUnit,
       Neutral, Declarations
  <2> QED
    BY <1>1, <1>14, <2>2, <2>3, Unended DEF Places, Inner
<1>15. CASE /\ at = "start" /\ nest # <<>>
           /\ Open(<<"declarations">>, "DECLARE", "declare")
  <2>1. /\ "declarations" \in Frames /\ "declarations" \in FramesOfDialect
        /\ \A i \in DOMAIN m : Nests(m[i], "declarations")
    BY <1>1, <1>2, <1>15, EachFrame, NoneOpen DEF FramesOfDialect, Frames, Expressions, Control,
       Declarations
  <2>2. /\ nest' = Append(m, "declarations") /\ at' = "declare" /\ token' = "DECLARE"
        /\ WriteOn("DECLARE", "declare")
        /\ delimiter' = delimiter /\ Shape(Append(m, "declarations"))
        /\ Append(m, "declarations") # <<>>
        /\ Opened(m, "declarations")' /\ Top' = "declarations"
    BY <1>1, <1>15, <2>1, Opens, <1>2
  <2>3. Placed' /\ Changed(m, from)'
    BY <1>1, <1>15, <2>2, <1>2 DEF Placed, Places, AfterEnd, UnitHead, Changed, WroteUnit,
       Neutral, Declarations
  <2> QED
    BY <1>1, <1>15, <2>2, <2>3, Unended DEF Places, Inner
<1> QED
  BY <1>3, <1>4, <1>5, <1>6, <1>7, <1>8, <1>9, <1>10, <1>11, <1>12, <1>13, <1>14, <1>15 DEF
     WriteDeclaration

\* FOR UPDATE is written where nothing that the parser counts is open, or where it
\* does not count.
LEMMA SafeFor ==
  ASSUME NEW m, NEW from, Writing(m, from), ~ForIsRisky,
         Top \notin {"case", "if-head", "case-head", "loop-head"}
  PROVE  \/ \E f \in {"(", "package", "compound", "initialization"} : Holds(m, f)
         \/ \A f \in OracleFrames : ~Holds(m, f)
<1>1. /\ m = nest /\ Shape(m) /\ m \in Seq(Frames)
      /\ m # <<>> => Top = Last(m)
      /\ m = <<>> => Top = "none"
  BY Here
<1>2. CASE Inside({"(", "package", "compound", "initialization"})
  BY <1>2, Insides
<1>3. CASE ~Inside(Control \cup {"block"}) /\ Top = "("
  <2>1. m # <<>> /\ Len(m) \in DOMAIN m /\ m[Len(m)] = "("
    BY <1>1, <1>3, LenProperties, EmptySeq DEF Last
  <2> QED
    BY <2>1 DEF Holds
<1>4. CASE ~Inside(Control \cup {"block"}) /\ Top # "("
  <2>1. \A f \in Control \cup {"block"} : ~Holds(m, f)
    BY <1>4, Insides
  <2>2. m = <<>> \/ Last(m) \notin Expressions
    BY <1>1, <1>4 DEF Expressions
  <2>3. \A f \in Expressions : ~Holds(m, f)
    BY <1>1, <2>2, NoExpressions DEF Holds
  <2>4. OracleFrames \subseteq Control \cup {"block"} \cup Expressions
    BY DEF OracleFrames, Control, Expressions
  <2> QED
    BY <2>1, <2>3, <2>4
<1> QED
  BY <1>2, <1>3, <1>4 DEF ForIsRisky

\* IF, FOR and CREATE where they begin nothing.
LEMMA ClauseWritten ==
  ASSUME NEW m, NEW from, Writing(m, from), dialect = "oracle", WriteClause
  PROVE  WroteOK(m, from)
<1>1. m = nest /\ from = at /\ dialect' = dialect /\ Shape(m) /\ Placed
  BY Here
<1>2. ~Used("for-in-block") /\ ~Used("if-exists") /\ ~Used("grant-create") /\ at # "grant"
  BY <1>1, NotUsed DEF Misread, Placed, Places
<1>3. CASE /\ at = "mid" /\ Top \notin {"case", "if-head", "case-head", "loop-head"}
           /\ ~ForIsRisky /\ Write("FOR", "mid")
  <2>1. /\ nest' = m /\ at' = "mid" /\ token' = "FOR" /\ delimiter' = delimiter
        /\ Kept(m)' /\ Top' = Top
    BY <1>3, Stays
  <2>2. Placed' /\ Changed(m, from)'
    BY <1>1, <1>3, <2>1, SafeFor DEF Placed, Places, AfterEnd, UnitHead, Changed, WroteUnit,
       Neutral, WroteFor
  <2> QED
    BY <1>1, <1>3, <2>2, StayWritten DEF Places, Inner
<1> QED
  BY <1>3, <1>2 DEF WriteClause

\* A token with which a statement ends.
LEMMA Ended ==
  ASSUME NEW m, NEW from, Writing(m, from), NEW t,
         nest' = <<>>, ahead' = [token |-> t, ends |-> TRUE], at' = "start",
         delimiter' = delimiter,
         from \in {"start", "mid", "closed", "header", "spec", "unit-end"},
         \/ t = "semi" /\ m = <<>> /\ delimiter = "semi"
         \/ t = "$$" /\ m = <<>> /\ delimiter = "$$"
         \/ t = "GO" /\ m = <<>> /\ dialect = "sqlserver"
         \/ t = "/" /\ m = <<"unit">> /\ dialect = "oracle"
  PROVE  WroteOK(m, from)
<1>1. /\ WriterOK /\ m = nest /\ from = at /\ dialect' = dialect
      /\ token' = t /\ ahead'.ends = TRUE
  BY DEF Writing, token
<1>2. Shape(m)' /\ Shape(nest)'
  BY <1>1, ShapeEmpty, ShapePrime DEF WriterOK
<1>3. Placed'
  BY <1>1 DEF Placed, Places, AfterEnd, UnitHead, WriterOK
<1>4. WriterOK'
  BY <1>1, <1>2, <1>3 DEF WriterOK, Rested
<1>5. Changed(m, from)'
  BY <1>1 DEF Changed, WroteUnit, Kept, Neutral, AfterEnd
<1>6. Ends(m, from)'
  BY <1>1 DEF Ends, NewDelimiter
<1> QED
  BY <1>1, <1>2, <1>4, <1>5, <1>6 DEF WroteOK, Wrote, WriterOK, Placed, Tokens, UnitHead

\* Where the writer goes on behind a semicolon that ends no statement.
LEMMA Restarts ==
  ASSUME NEW m, NEW from, Writing(m, from), m # <<>>, Top \notin Expressions
  PROVE  /\ Restart \in {"start", "declare", "unit-end"}
         /\ Restart = "start" => Top \in Control \cup {"block", "initialization"}
         /\ Restart = "declare" => dialect = "oracle" /\ Top \in Declarations
         /\ Restart = "unit-end" => dialect = "oracle" /\ m = <<"unit">>
<1>1. /\ m = nest /\ Shape(m) /\ m \in Seq(Frames) /\ Top \in Frames
      /\ Top \in FramesOfDialect
  BY Here
<1>2. Top \in Declarations \cup {"unit"} => dialect = "oracle"
  BY <1>1 DEF FramesOfDialect, Declarations, Control
<1>3. ASSUME Top = "unit" PROVE m = <<"unit">>
  <2>1. Front(m) \in Seq(Frames) /\ m = Append(Front(m), "unit")
    BY <1>1, <1>3, TopOf
  <2>2. Shape(Append(Front(m), "unit")) /\ "unit" \in Frames
    BY <1>1, <1>3, <2>1
  <2>3. Front(m) = <<>>
    BY <2>1, <2>2, Bottom
  <2> QED
    BY <2>1, <2>3, OnlyUnit
<1>4. Top \in Frames \ (Expressions \cup Declarations \cup {"unit"}) =>
        Top \in Control \cup {"block", "initialization"}
  BY DEF Frames
<1> QED
  BY <1>1, <1>2, <1>3, <1>4 DEF Restart, Declarations

\* What ends a statement.
LEMMA EndWritten ==
  ASSUME NEW m, NEW from, Writing(m, from), WriteEnd
  PROVE  WroteOK(m, from)
<1>1. m = nest /\ from = at /\ dialect' = dialect /\ Shape(m) /\ Placed
  BY Here
<1>2. CASE /\ at \in {"mid", "closed", "header", "spec"} /\ Top \notin Expressions
           /\ nest # <<>> /\ Write("semi", Restart)
  <2>1. /\ nest' = m /\ at' = Restart /\ token' = "semi" /\ delimiter' = delimiter
        /\ Kept(m)' /\ Top' = Top
    BY <1>2, Stays
  <2>2. /\ Restart \in {"start", "declare", "unit-end"}
        /\ Restart = "start" => Top \in Control \cup {"block", "initialization"}
        /\ Restart = "declare" => dialect = "oracle" /\ Top \in Declarations
        /\ Restart = "unit-end" => dialect = "oracle" /\ m = <<"unit">>
    BY <1>1, <1>2, Restarts
  <2>3. Placed'
    BY <1>1, <1>2, <2>1, <2>2 DEF Placed, Places, AfterEnd, UnitHead
  <2>4. Changed(m, from)'
    BY <1>1, <1>2, <2>1, <2>2 DEF Changed, WroteUnit, Neutral, AfterEnd
  <2>5. Last(m) \notin Expressions
    BY <1>1, <1>2, Here
  <2> QED
    BY <1>1, <1>2, <2>2, <2>3, <2>4, <2>5, StayWritten DEF Places
<1>3. CASE /\ at \in {"mid", "closed", "header", "spec"} /\ nest = <<>>
           /\ (delimiter = "semi" /\ End("semi")) \/ (delimiter = "$$" /\ End("$$"))
  BY <1>1, <1>3, Ended DEF End
<1>4. CASE /\ at = "unit-end" /\ nest' = <<>> /\ ahead' = [token |-> "/", ends |-> TRUE]
           /\ at' = "start" /\ UNCHANGED delimiter
  <2>1. m = <<"unit">> /\ dialect = "oracle"
    BY <1>1, <1>4 DEF Placed, UnitHead
  <2> QED
    BY <1>1, <1>4, <2>1, Ended
<1>5. CASE /\ dialect = "sqlserver" /\ at \in {"start", "mid", "closed", "header"}
           /\ nest = <<>> /\ End("GO")
  BY <1>1, <1>5, Ended DEF End
<1>6. dialect = "oracle" => ~Used("slash-after-SQL")
  BY NotUsed DEF Misread
<1> QED
  BY <1>2, <1>3, <1>4, <1>5, <1>6 DEF WriteEnd

\* The client command DELIMITER.
LEMMA DelimiterWritten ==
  ASSUME NEW m, NEW from, Writing(m, from), WriteDelimiter
  PROVE  WroteOK(m, from)
<1>1. /\ WriterOK /\ m = nest /\ from = at /\ dialect' = dialect /\ dialect = "mysql"
      /\ at = "start" /\ at' = "start" /\ m = <<>> /\ nest' = <<>> /\ ahead'.ends = FALSE
      /\ delimiter' \in {"semi", "$$"} /\ token' \in NewDelimiter
  BY DEF Writing, WriteDelimiter, WriteOn, token, NewDelimiter
<1>2. Shape(m)' /\ Shape(nest)'
  BY <1>1, ShapeEmpty, ShapePrime
<1>3. Placed'
  BY <1>1 DEF Placed, Places, AfterEnd, UnitHead, NewDelimiter
<1>4. WriterOK'
  BY <1>1, <1>2, <1>3 DEF WriterOK, Rested, NewDelimiter
<1>5. Changed(m, from)'
  BY <1>1 DEF Changed, Kept, Neutral, AfterEnd, NewDelimiter
<1>6. Ends(m, from)'
  BY <1>1 DEF Ends, NewDelimiter, Rested
<1> QED
  BY <1>1, <1>2, <1>4, <1>5, <1>6 DEF WroteOK, Wrote, Places, Tokens, NewDelimiter, UnitHead

\* The end of the script.
LEMMA EofWritten ==
  ASSUME NEW m, NEW from, Writing(m, from), WriteEof
  PROVE  WroteOK(m, from)
<1>1. /\ WriterOK /\ m = nest /\ from = at /\ dialect' = dialect
      /\ at \in {"start", "mid", "closed"} /\ at' = "end" /\ m = <<>> /\ nest' = <<>>
      /\ ahead'.ends = (from # "start") /\ delimiter' = delimiter /\ token' = "eof"
  BY DEF Writing, WriteEof, token
<1>2. Shape(m)' /\ Shape(nest)'
  BY <1>1, ShapeEmpty, ShapePrime
<1>3. Placed'
  BY <1>1 DEF Placed, Places, AfterEnd, UnitHead
<1>4. WriterOK'
  BY <1>1, <1>2, <1>3 DEF WriterOK, Rested, NewDelimiter
<1>5. Changed(m, from)'
  BY <1>1 DEF Changed, Kept, WroteUnit, Neutral, AfterEnd
<1>6. Ends(m, from)'
  BY <1>1 DEF Ends, NewDelimiter
<1> QED
  BY <1>1, <1>2, <1>4, <1>5, <1>6 DEF WroteOK, Wrote, Places, Tokens, UnitHead

\* Whatever the writer writes.
LEMMA TokenWritten ==
  ASSUME NEW m, NEW from, Writing(m, from), WriteToken
  PROVE  WroteOK(m, from)
<1>1. CASE WritePlSql
  BY <1>1, UnitWritten, DeclarationWritten, ClauseWritten DEF WritePlSql
<1> QED
  BY <1>1, PlainWritten, CaseWritten, CreateWritten, BlockWritten, TransactionWritten,
     ControlWritten, EndWritten, DelimiterWritten, EofWritten DEF WriteToken

\* No loop head becomes long.
LEMMA HeadsStayShort ==
  ASSUME NEW m, NEW from, Writing(m, from), HeadsShort, WriteToken
  PROVE  HeadsShort' /\ CountHeadWords
<1>1. CountHeadWords /\ dialect' = dialect /\ dialect \in Dialects
  BY DEF WriteToken, Writing, WriterOK
<1>2. MaxKeywordLookback \in Nat
  BY SinceTyped
<1>3. headWords' \in Nat
  BY <1>1 DEF HeadsShort, CountHeadWords
<1>4. dialect = "oracle" => ~Used("long-loop-head")
  BY <1>1, NotUsed DEF Misread
<1> QED
  BY <1>1, <1>2, <1>3, <1>4 DEF HeadsShort, CountHeadWords

-----------------------------------------------------------------------------
(* The specification. *)

\* Only at the beginning of a statement does the delimiter change.
LEMMA DelimiterKept ==
  ASSUME WriteToken
  PROVE  delimiter' = delimiter \/ Rested(nest, at)
BY DEF WriteToken, WritePlain, WriteCase, WriteCreate, WriteBlock, WriteTransaction, WriteControl,
   WritePlSql, WriteUnit, WriteDeclaration, WriteClause, WriteEnd, WriteDelimiter, WriteEof,
   Write, Open, Close, Turn, End, Rested

\* A parser that has read nothing yet.
Fresh ==
  /\ dialect \in Dialects /\ nest = <<>> /\ at = "start"
  /\ ahead = [token |-> "none", ends |-> FALSE] /\ delimiter = "semi" /\ headWords = 0
  /\ parens = 0 /\ depth = 0 /\ initiator = "none" /\ program = FALSE /\ before = <<>>
  /\ cases = 0 /\ oracle = NewOracle /\ open = FALSE

\* A parser that has just been started is in step with a writer who has not begun.
LEMMA FreshInStep == Fresh => InStep(<<>>, "start")
<1> SUFFICES ASSUME Fresh PROVE InStep(<<>>, "start")
  OBVIOUS
<1>1. token = "none" /\ Rested(<<>>, "start") /\ Shape(<<>>)
  BY ShapeEmpty DEF Fresh, token, Rested
<1>2. \A f : ~Holds(<<>>, f)
  BY Given DEF Holds
<1>3. WriterOK
  BY <1>1 DEF Fresh, WriterOK, Placed, Places, AfterEnd, UnitHead, NewDelimiter
<1>4. Changed(<<>>, "start")
  BY <1>1 DEF Fresh, Changed, Kept, WroteUnit, Neutral, AfterEnd
<1>5. Wrote(<<>>, "start")
  BY <1>1, <1>4 DEF Fresh, Wrote, Ends, Tokens, Places, NewDelimiter, UnitHead
<1>6. ContextTyped /\ Memory("start")
  <2>1. before \in Seq(Tokens) /\ Len(before) = 0 /\ Previous = "none"
    BY EmptySeq DEF Fresh, Previous
  <2>2. oracle \in [package : BOOLEAN, declaration : BOOLEAN, create : BOOLEAN, since : Nat,
                    seen : SUBSET {"PACKAGE", "PROCEDURE"}]
    BY SinceTyped DEF Fresh, NewOracle
  <2>3. ContextTyped
    <3>1. parens \in Nat /\ depth \in Nat /\ cases \in Nat /\ Len(before) <= 2
      BY <2>1 DEF Fresh
    <3>2. initiator \in {"none", "ATOMIC", "CASE"} /\ program \in BOOLEAN /\ open \in BOOLEAN
      BY DEF Fresh
    <3> QED
      BY <2>1, <2>2, <3>1, <3>2 DEF ContextTyped
  <2>4. Memory("start")
    BY <2>1 DEF Memory, AfterEnd
  <2> QED
    BY <2>3, <2>4
<1>7. Agree(<<>>, "start")
  BY <1>1, <1>2, <1>6, CountEmpty, OutsideEmpty DEF Fresh, Agree, AgreePostgres, AgreeSqlite,
     AgreeSqlServer, AgreeMySql, AgreeOracle, LoopHeadSeen, InUnit, NewOracle
<1>8. HeadsShort
  BY SinceTyped DEF Fresh, HeadsShort
<1> QED
  BY <1>3, <1>5, <1>7, <1>8 DEF InStep

\* Between two statements the parser does not care for the delimiter.
LEMMA AgreeAtRest ==
  ASSUME NEW m, NEW from, InStep(m, from), Rested(m, from),
         UNCHANGED <<dialect, parens, depth, initiator, program, cases, oracle, before>>,
         open' = FALSE
  PROVE  Agree(m, from)'
<1>1. Agree(m, from) /\ m = <<>> /\ from = "start"
  BY DEF InStep, Rested
<1>2. ContextTyped' /\ Memory(from)'
  BY <1>1 DEF Agree, ContextTyped, Memory, Previous
<1>3. \A f : ~Holds(m, f)
  BY <1>1, Given DEF Holds
<1>4. dialect' = "mysql" => AgreeMySql(m, from)'
  BY <1>1, <1>3, OutsideEmpty DEF Agree, AgreeMySql, ContextTyped, Rested
<1>5. /\ dialect' = "postgresql" => AgreePostgres(m)'
      /\ dialect' = "sqlite" => AgreeSqlite(m)'
      /\ dialect' = "sqlserver" => AgreeSqlServer(m)'
      /\ dialect' = "oracle" => AgreeOracle(m, from)'
  BY <1>1, <1>3 DEF Agree, AgreePostgres, AgreeSqlite, AgreeSqlServer, AgreeOracle, LoopHeadSeen,
     Holds
<1> QED
  BY <1>2, <1>4, <1>5 DEF Agree, Rested

\* The invariant holds in the beginning.
LEMMA Initial == Init => IInv
<1> SUFFICES ASSUME Init PROVE IInv
  OBVIOUS
<1>1. InStep(<<>>, "start")
  BY FreshInStep DEF Init, WriterInit, Fresh
<1>2. <<>> \in Seq(Frames) /\ "start" \in Places
  BY Given DEF Places
<1> QED
  BY <1>1, <1>2 DEF IInv, Init

\* Writer and parser stay in step.
LEMMA Inductive ==
  ASSUME NothingMisread, IInv, [Next]_vars
  PROVE  IInv'
<1>1. PICK m \in Seq(Frames), from \in Places : InStep(m, from)
  BY DEF IInv
<1>2. WriterOK /\ Wrote(m, from) /\ Agree(m, from)
  BY <1>1 DEF InStep
<1>3. PICK n \in Seq(Frames), a \in Places : n = nest /\ a = at
  BY <1>2 DEF WriterOK, Shape, Placed
<1>4. ASSUME WriteAhead, dialect' = dialect
      PROVE  /\ WriterOK' /\ Wrote(n, a)' /\ HeadsShort' /\ CountHeadWords
             /\ delimiter' = delimiter \/ Rested(n, a)
  <2>1. WriteToken /\ Writing(n, a)
    BY <1>2, <1>3, <1>4 DEF WriteAhead, Writing
  <2> QED
    BY <1>1, <1>3, <2>1, TokenWritten, HeadsStayShort, DelimiterKept DEF WroteOK, InStep
<1>5. token \in NewDelimiter \cup {"none"} =>
        /\ Rested(m, from) /\ m = n /\ from = a /\ ~ahead.ends
  BY <1>2, <1>3 DEF Wrote, Ends, WriterOK, Rested
<1>6. CASE First
  <2>1. /\ WriteAhead /\ token = "none" /\ ended' = FALSE /\ split' = FALSE
        /\ UNCHANGED <<dialect, parens, depth, initiator, program, cases, oracle, before>>
        /\ open' = open
    BY <1>6 DEF First, contextVars
  <2>2. open' = FALSE
    BY <1>2, <1>5, <2>1 DEF Agree, ContextTyped
  <2>3. Agree(n, a)'
    BY <1>1, <1>5, <2>1, <2>2, AgreeAtRest
  <2> QED
    BY <1>4, <2>1, <2>3 DEF IInv, InStep
<1>7. CASE ReadDelimiter
  <2>1. /\ WriteAhead /\ token \in NewDelimiter /\ ended' = FALSE /\ split' = open
        /\ UNCHANGED <<dialect, parens, depth, initiator, program, cases, oracle, before>>
        /\ open' = FALSE
    BY <1>7 DEF ReadDelimiter
  <2>2. open = FALSE
    BY <1>2, <1>5, <2>1 DEF Agree, ContextTyped
  <2>3. Agree(n, a)'
    BY <1>1, <1>5, <2>1, AgreeAtRest
  <2> QED
    BY <1>4, <2>1, <2>2, <2>3 DEF IInv, InStep
<1>8. CASE Read
  <2>1. /\ WriteAhead /\ token \notin NewDelimiter \cup {"none", "eof"} /\ Parse(token')
        /\ ended' = ahead.ends /\ dialect' = dialect
    BY <1>8 DEF Read, token
  <2>2. Reads(m, from, n, a)
    BY <1>1, <1>3, <1>4, <2>1 DEF Reads
  <2>3. dialect \in {"postgresql", "mysql", "sqlserver", "oracle", "sqlite"}
    BY <1>2, ScriptAssumption DEF WriterOK
  <2>4. /\ split' <=> ahead.ends
        /\ dialect = "postgresql" => AgreePostgres(n)'
        /\ dialect = "sqlite" => AgreeSqlite(n)'
        /\ dialect = "sqlserver" => AgreeSqlServer(n)'
        /\ dialect = "mysql" => AgreeMySql(n, a)'
        /\ dialect = "oracle" => AgreeOracle(n, a)'
    BY <2>2, <2>3, PostgresStep, SqliteStep, SqlServerStep, MySqlStep, OracleStep
  <2>5. ContextTyped' /\ Memory(a)' /\ (open' <=> ~Rested(n, a))
    BY <2>2, <2>4, Common
  <2>6. Agree(n, a)'
    BY <2>1, <2>4, <2>5 DEF Agree, Rested
  <2> QED
    BY <1>4, <2>1, <2>4, <2>6 DEF IInv, InStep
<1>9. CASE Finish
  <2>1. nest = <<>> /\ (open <=> ahead.ends)
    BY <1>2, <1>9 DEF Finish, Wrote, Ends, Changed, Kept, Neutral, Agree, Rested
  <2>2. Fresh'
    BY <1>2, <1>9, <2>1 DEF Finish, Fresh, WriterOK
  <2>3. InStep(<<>>, "start")'
    BY <2>2, FreshInStep, PTL
  <2>4. <<>> \in Seq(Frames) /\ "start" \in Places
    BY Given DEF Places
  <2> QED
    BY <1>9, <2>1, <2>3, <2>4 DEF IInv, Finish
<1>10. CASE UNCHANGED vars
  <2>1. /\ UNCHANGED <<dialect, nest, at, ahead, delimiter, parens, depth, initiator, program>>
        /\ UNCHANGED <<cases, oracle, before, open, ended, split>>
        /\ token' = token /\ Top' = Top /\ Previous' = Previous
    BY <1>10 DEF vars, writerVars, contextVars, token, Top, Previous
  <2>9. HeadsShort'
    BY <1>1, <1>10 DEF InStep, HeadsShort, vars, writerVars
  <2>2. Shape(m)' /\ Shape(nest)'
    BY <1>2, <2>1, ShapePrime DEF WriterOK, Wrote
  <2>3. WriterOK'
    BY <1>2, <2>1, <2>2 DEF WriterOK, Placed
  <2>4. /\ Kept(m)' <=> Kept(m)
        /\ \A f : (Opened(m, f)' <=> Opened(m, f)) /\ (Closed(m, f)' <=> Closed(m, f))
        /\ \A f, g : Turned(m, f, g)' <=> Turned(m, f, g)
    BY <2>1 DEF Kept, Opened, Closed, Turned
  <2>5. Changed(m, from)'
    <3>1. WroteBegin(m, from)' <=> WroteBegin(m, from)
      BY <2>1, <2>4 DEF WroteBegin
    <3>2. WroteEnd(m)' <=> WroteEnd(m)
      BY <2>1, <2>4 DEF WroteEnd
    <3>3. WroteFor(m, from)' <=> WroteFor(m, from)
      BY <2>4 DEF WroteFor
    <3>4. WroteUnit(m, from)' <=> WroteUnit(m, from)
      BY <2>1, <2>4, <3>3 DEF WroteUnit
    <3> QED
      BY <1>2, <2>1, <2>4, <3>1, <3>2, <3>4 DEF Wrote, Changed
  <2>6. Wrote(m, from)'
    BY <1>2, <2>1, <2>2, <2>5 DEF Wrote, Ends
  <2>7. ContextTyped' /\ Memory(from)'
    BY <1>2, <2>1 DEF Agree, ContextTyped, Memory
  <2>8. Agree(m, from)'
    BY <1>2, <1>10, <2>1, <2>7 DEF Agree, AgreePostgres, AgreeSqlite, AgreeSqlServer, AgreeMySql,
       AgreeOracle, LoopHeadSeen, vars, writerVars
  <2> QED
    BY <2>1, <2>3, <2>6, <2>8, <2>9 DEF IInv, InStep
<1> QED
  BY <1>6, <1>7, <1>8, <1>9, <1>10 DEF Next

\* The writer and each of the five parsers stay in step.
THEOREM Invariant == ASSUME NothingMisread PROVE Spec => []IInv
<1>1. IInv /\ [Next]_vars => IInv'
  BY Inductive
<1> QED
  BY Initial, <1>1, PTL DEF Spec

\* In scripts without the constructs of Misread no parser cuts inside a statement,
\* a program or a package, to whatever depth these nest the other constructs.
THEOREM NothingTorn == ASSUME NothingMisread PROVE Spec => []BlocksStayWhole
<1>1. IInv => BlocksStayWhole
  BY DEF IInv, BlocksStayWhole
<1> QED
  BY <1>1, Invariant, PTL

\* In scripts without the constructs of Misread every statement is cut off from the
\* next one; loop heads of up to MaxKeywordLookback keywords are among them, for
\* any value of that constant.
THEOREM AllApart == ASSUME NothingMisread PROVE Spec => []StatementsApart
<1>1. IInv => StatementsApart
  BY DEF IInv, StatementsApart
<1> QED
  BY <1>1, Invariant, PTL
=============================================================================
