-------------------------- MODULE ScriptRuns_proofs --------------------------
(***************************************************************************)
(* What a client reports of its operations is true, for any scripts and    *)
(* any number of operations.  The telemetry spans tell how the operations  *)
(* and their scripts ended, although the events do not say which span they *)
(* end and some failures are reported twice or not at all: the stack never *)
(* holds more than the operation's span and that of one script.  The       *)
(* journals are closed as the scripts ended, and count each statement of a *)
(* script that succeeded once.                                             *)
(***************************************************************************)
EXTENDS ScriptRuns, SequenceTheorems, FiniteSetTheorems, TLAPS

Results == {"none", "open", "OK", "ERROR"}

Typed ==
  /\ command \in Commands \cup {"none"} /\ stage \in Stages
  /\ queue \in Seq(Script)
  /\ script \in Script \cup {NoScript}
  /\ error \in BOOLEAN
  /\ status \in [SpanOf -> Results]
  /\ outcome \in [Script -> {"none", "committed", "failed", "unclear", "unread"}]
  /\ ops \in Nat

-----------------------------------------------------------------------------
(* Short sequences. *)

LEMMA FirstOfTwo == ASSUME NEW a, NEW b PROVE SubSeq(<<a, b>>, 1, 1) = <<a>>
<1> DEFINE s == <<a, b>>
           t == SubSeq(s, 1, 1)
<1>1. s \in Seq({a, b}) /\ \A i \in 1 .. 1 : s[i] = a /\ s[i] \in {a, b}
  OBVIOUS
<1> HIDE DEF s
<1>2. t \in Seq({a, b}) /\ Len(t) = 1 /\ t[1] = a
  BY <1>1, SubSeqProperties
<1> HIDE DEF t
<1>3. \A u \in Seq({a, b}) : Len(u) = 1 /\ u[1] = a => u = <<a>>
  OBVIOUS
<1> QED
  BY <1>2, <1>3 DEF s, t

LEMMA FirstOfOne == ASSUME NEW a PROVE SubSeq(<<a>>, 1, 1) = <<a>>
<1> DEFINE s == <<a>>
           t == SubSeq(s, 1, 1)
<1>1. s \in Seq({a}) /\ \A i \in 1 .. 1 : s[i] = a /\ s[i] \in {a}
  OBVIOUS
<1> HIDE DEF s
<1>2. t \in Seq({a}) /\ Len(t) = 1 /\ t[1] = a
  BY <1>1, SubSeqProperties
<1> HIDE DEF t
<1>3. \A u \in Seq({a}) : Len(u) = 1 /\ u[1] = a => u = <<a>>
  OBVIOUS
<1> QED
  BY <1>2, <1>3 DEF s, t

LEMMA Pushed == ASSUME NEW a, NEW b PROVE Append(<<a>>, b) = <<a, b>>
<1> DEFINE s == <<a>>
           t == Append(s, b)
<1>1. s \in Seq({a, b}) /\ Len(s) = 1 /\ s[1] = a /\ b \in {a, b}
  OBVIOUS
<1> HIDE DEF s
<1> DEFINE S == {a, b}
<1> HIDE DEF S
<1>2. s \in Seq(S) /\ b \in S
  BY <1>1 DEF S
<1>3. t \in Seq(S) /\ Len(t) = Len(s) + 1 /\ t[Len(s) + 1] = b
      /\ \A i \in 1 .. Len(s) : t[i] = s[i]
  BY <1>2, AppendProperties
<1>4. t \in Seq({a, b}) /\ Len(t) = 2 /\ t[1] = a /\ t[2] = b
  BY <1>1, <1>3 DEF S
<1> HIDE DEF t
<1>5. \A u \in Seq({a, b}) : Len(u) = 2 /\ u[1] = a /\ u[2] = b => u = <<a, b>>
  OBVIOUS
<1> QED
  BY <1>4, <1>5 DEF s, t

LEMMA Fronts ==
  ASSUME NEW a, NEW b
  PROVE  Front(<<a>>) = <<>> /\ Front(<<a, b>>) = <<a>>
<1>1. SubSeq(<<a>>, 1, 0) = <<>>
  BY SubSeqEmpty
<1>2. Len(<<a>>) = 1 /\ Len(<<a, b>>) = 2
  OBVIOUS
<1> QED
  BY <1>1, <1>2, FirstOfTwo DEF Front

-----------------------------------------------------------------------------
(* The stacks that occur. *)

OnlyOperation == spans = <<Operation>>
WithScript == script \in Script /\ spans = <<Operation, script>>

LEMMA DrainedStack ==
  ASSUME spans = <<>> \/ OnlyOperation \/ WithScript
  PROVE  Drained = IF spans = <<>> THEN <<>> ELSE <<Operation>>
<1> DEFINE depths == {n \in 0 .. Len(spans) : n = 0 \/ spans[n] = Operation}
           d == CHOOSE m \in depths : \A k \in depths : k <= m
<1>1. Operation \notin Script
  BY ScriptRunsAssumption
<1>2. CASE spans = <<>>
  <2>1. depths = {0}
    BY <1>2
  <2>2. d = 0
    BY <2>1
  <2> QED
    BY <1>2, <2>2, SubSeqEmpty DEF Drained
<1>3. CASE OnlyOperation
  <2>1. depths = {0, 1}
    BY <1>3 DEF OnlyOperation
  <2>2. d = 1
    BY <2>1
  <2> QED
    BY <1>3, <2>2, FirstOfOne DEF Drained, OnlyOperation
<1>4. CASE WithScript
  <2>1. depths = {0, 1}
    BY <1>1, <1>4 DEF WithScript
  <2>2. d = 1
    BY <2>1
  <2> QED
    BY <1>4, <2>2, FirstOfTwo DEF Drained, WithScript
<1> QED
  BY <1>2, <1>3, <1>4

\* An end event of a script takes the script's span, or, when that has ended
\* already, the operation's.
LEMMA ScriptClosed ==
  ASSUME Typed, NEW s \in Script, NEW r, Closed(s, r)
  PROVE  /\ OnlyOperation => spans' = <<>> /\ status' = [status EXCEPT ![Operation] = r]
         /\ WithScript => spans' = <<Operation>> /\ status' = [status EXCEPT ![script] = r]
<1>1. s # Operation
  BY ScriptRunsAssumption
<1> DEFINE drained == [y \in SpanOf |->
             IF y \in {spans[i] : i \in (Len(spans) + 1) .. Len(spans)} THEN "ERROR" ELSE status[y]]
<1>2. IF spans = <<>> THEN spans' = <<>> /\ status' = drained
      ELSE spans' = Front(spans) /\ status' = [drained EXCEPT ![Last(spans)] = r]
  BY <1>1 DEF Closed
<1>3. OnlyOperation \/ WithScript => drained = status
  <2>1. OnlyOperation \/ WithScript => (Len(spans) + 1) .. Len(spans) = {}
    BY DEF OnlyOperation, WithScript
  <2>2. status = [y \in SpanOf |-> status[y]]
    BY DEF Typed
  <2> QED
    BY <2>1, <2>2
<1> HIDE DEF drained
<1>4. CASE OnlyOperation
  <2>1. spans # <<>> /\ Last(spans) = Operation /\ Front(spans) = <<>>
    BY <1>4, Fronts DEF OnlyOperation, Last
  <2>2. ~WithScript
    BY <1>4 DEF OnlyOperation, WithScript
  <2> QED
    BY <1>2, <1>3, <1>4, <2>1, <2>2
<1>5. CASE WithScript
  <2>1. spans # <<>> /\ Last(spans) = script /\ Front(spans) = <<Operation>>
    BY <1>5, Fronts DEF WithScript, Last
  <2>2. ~OnlyOperation
    BY <1>5 DEF OnlyOperation, WithScript
  <2> QED
    BY <1>2, <1>3, <1>5, <2>1, <2>2
<1> QED
  BY <1>4, <1>5

\* The end event of an operation empties the stack.
LEMMA OperationClosed ==
  ASSUME Typed, NEW r, Closed(Operation, r),
         spans = <<>> \/ OnlyOperation \/ WithScript
  PROVE  /\ spans' = <<>>
         /\ spans = <<>> => status' = status
         /\ OnlyOperation => status' = [status EXCEPT ![Operation] = r]
         /\ WithScript =>
              status' = [[status EXCEPT ![script] = "ERROR"] EXCEPT ![Operation] = r]
<1>0. Operation \notin Script
  BY ScriptRunsAssumption
<1> DEFINE left == IF spans = <<>> THEN <<>> ELSE <<Operation>>
           leaked == {spans[i] : i \in (Len(left) + 1) .. Len(spans)}
           drained == [y \in SpanOf |-> IF y \in leaked THEN "ERROR" ELSE status[y]]
<1>1. Drained = left
  BY DrainedStack
<1>2. IF left = <<>> THEN spans' = <<>> /\ status' = drained
      ELSE spans' = Front(left) /\ status' = [drained EXCEPT ![Last(left)] = r]
  BY <1>1 DEF Closed
<1>3. status = [y \in SpanOf |-> status[y]]
  BY DEF Typed
<1>4. CASE spans = <<>>
  <2>1. leaked = {}
    BY <1>4
  <2> QED
    BY <1>2, <1>3, <1>4, <2>1 DEF OnlyOperation, WithScript
<1>5. CASE OnlyOperation
  <2>1. leaked = {}
    BY <1>5 DEF OnlyOperation
  <2>2. drained = status
    BY <1>3, <2>1
  <2> QED
    BY <1>2, <1>5, <2>2, Fronts DEF OnlyOperation, WithScript, Last
<1>6. CASE WithScript
  <2>1. leaked = {script}
    BY <1>6 DEF WithScript
  <2>2. drained = [status EXCEPT ![script] = "ERROR"]
    BY <1>3, <2>1
  <2> QED
    BY <1>2, <1>6, <2>2, Fronts DEF OnlyOperation, WithScript, Last
<1> QED
  BY <1>4, <1>5, <1>6

-----------------------------------------------------------------------------
(* The invariant. *)

\* Where the operation is and what is on the stack.
Stack ==
  /\ stage = "idle" => spans = <<>> /\ (ops > 0 => status[Operation] = IF error THEN "ERROR" ELSE "OK")
  /\ stage \in {"each", "journal", "over"} => OnlyOperation
  /\ stage = "journal" => queue # <<>>
  /\ stage = "run" => WithScript /\ queue # <<>> /\ status[script] = "open"
  /\ stage = "over" => script \in Script
  /\ stage = "end" => spans = <<>> \/ OnlyOperation \/ (WithScript /\ outcome[script] # "committed")
  /\ stage = "end" /\ spans = <<>> => error /\ status[Operation] = "ERROR"

\* What the spans of the scripts tell, but for the one that is being run.
Told ==
  \A s \in Script :
    status[s] # "none" /\ outcome[s] # "unread" /\ ~(stage = "run" /\ s = script)
      => (status[s] = "OK" <=> outcome[s] = "committed")

IInv == Typed /\ Stack /\ Told

LEMMA InitInv == Init => IInv
<1> SUFFICES ASSUME Init PROVE IInv
  OBVIOUS
<1>1. Typed
  BY EmptySeq DEF Init, Typed, SpanOf, Results, Stages
<1>2. Stack
  BY DEF Init, Stack
<1>3. Told
  BY DEF Init, Told, SpanOf
<1> QED
  BY <1>1, <1>2, <1>3 DEF IInv

\* Steps between the scripts, which touch neither spans nor outcomes.
LEMMA QuietSteps ==
  ASSUME IInv, OperationFails \/ AllDone \/ BeforeEach \/ NoUndoScript \/ StatementDone \/ AfterEach
  PROVE  IInv'
<1> USE DEF IInv, Typed, Stack, Told, Stages, OnlyOperation, WithScript, spanVars, Stop
<1>1. CASE OperationFails \/ NoUndoScript
  <2>1. /\ stage = "each" /\ stage' = "end" /\ error' = TRUE
        /\ UNCHANGED <<command, queue, script, spans, status, outcome, ops>>
    BY <1>1 DEF OperationFails, NoUndoScript
  <2> QED
    BY <2>1
<1>2. CASE AllDone
  BY <1>2 DEF AllDone
<1>3. CASE BeforeEach
  BY <1>3 DEF BeforeEach
<1>4. CASE StatementDone
  BY <1>4 DEF StatementDone
<1>5. CASE AfterEach
  BY <1>5 DEF AfterEach
<1> QED
  BY <1>1, <1>2, <1>3, <1>4, <1>5

LEMMA BeginInv ==
  ASSUME IInv, NEW c \in Commands, NEW todo \in Seq(Script), Begin(c, todo)
  PROVE  IInv'
<1> USE ScriptRunsAssumption DEF IInv, Typed, Begin, Opened, Commands, Stages, SpanOf, Results
<1>1. spans' = <<Operation>>
  BY DEF Stack
<1>2. status' \in [SpanOf -> Results] /\ ops' \in Nat
  OBVIOUS
<1>3. /\ command' \in Commands /\ stage' = "each" /\ queue' \in Seq(Script)
      /\ script' = NoScript /\ error' = FALSE /\ UNCHANGED outcome
  OBVIOUS
<1>4. Typed'
  BY <1>2, <1>3
<1>5. Stack'
  BY <1>1, <1>3 DEF Stack, OnlyOperation
<1>6. Told'
  BY <1>3 DEF Told
<1> QED
  BY <1>4, <1>5, <1>6

LEMMA StartScriptInv == ASSUME IInv, StartScript PROVE IInv'
<1> USE ScriptRunsAssumption DEF IInv, Typed, StartScript, Opened, Stages, SpanOf, Results
<1>1. Head(queue) \in Script /\ spans = <<Operation>> /\ queue # <<>>
  BY HeadTailProperties DEF Stack, OnlyOperation
<1>2. spans' = <<Operation, Head(queue)>>
  BY <1>1, Pushed
<1>3. Typed'
  BY <1>1
<1>4. Stack'
  BY <1>1, <1>2 DEF Stack, WithScript
<1>5. Told'
  BY <1>1 DEF Told
<1> QED
  BY <1>3, <1>4, <1>5

LEMMA BeforeEachFailsInv == ASSUME IInv, BeforeEachFails PROVE IInv'
<1> USE ScriptRunsAssumption DEF IInv, Typed, BeforeEachFails, Stop, Stages, SpanOf, Results
<1>1. Head(queue) \in Script /\ OnlyOperation
  BY HeadTailProperties DEF Stack
<1>2. CASE command = "undo" /\ named
  <2>1. spans' = <<>> /\ status' = [status EXCEPT ![Operation] = "ERROR"]
    BY <1>1, <1>2, ScriptClosed
  <2> QED
    BY <2>1 DEF Stack, Told
<1>3. CASE ~(command = "undo" /\ named)
  <2>1. /\ stage = "each" /\ stage' = "end" /\ error' = TRUE
        /\ UNCHANGED <<command, queue, script, spans, status, outcome, ops>>
    BY <1>3 DEF spanVars
  <2> QED
    BY <1>1, <2>1 DEF Stack, Told, OnlyOperation
<1> QED
  BY <1>2, <1>3

LEMMA ShowSqlFailsInv == ASSUME IInv, ShowSqlFails PROVE IInv'
<1> USE ScriptRunsAssumption DEF IInv, Typed, ShowSqlFails, Stop, Stages, SpanOf, Results
<1>1. Head(queue) \in Script /\ OnlyOperation
  BY HeadTailProperties DEF Stack
<1> QED
  BY <1>1 DEF Stack, Told, OnlyOperation, spanVars

\* The engine is done with a script, and its span ends.
LEMMA EngineInv ==
  ASSUME IInv, NEW r \in {"OK", "ERROR"}, NEW o \in {"committed", "failed", "unclear"},
         stage = "run", Closed(script, r), outcome' = [outcome EXCEPT ![script] = o],
         r = "OK" <=> o = "committed",
         stage' \in {"over", "end"}, error' \in BOOLEAN, queue' \in Seq(Script),
         UNCHANGED <<command, script, ops>>
  PROVE  IInv'
<1> USE ScriptRunsAssumption DEF IInv, Typed, Stages, SpanOf, Results
<1>1. WithScript
  BY DEF Stack
<1>2. script \in Script /\ spans' = <<Operation>> /\ status' = [status EXCEPT ![script] = r]
  BY <1>1, ScriptClosed DEF WithScript
<1>3. Typed'
  BY <1>2
<1>4. Stack'
  BY <1>2 DEF Stack, OnlyOperation
<1>5. Told'
  BY <1>2 DEF Told
<1> QED
  BY <1>3, <1>4, <1>5

LEMMA EngineRaisesInv == ASSUME IInv, EngineRaises PROVE IInv'
<1>1. CASE command = "undo"
  BY <1>1, EngineInv DEF EngineRaises, Stop, IInv, Typed
<1>2. CASE command # "undo"
  <2>1. /\ WithScript /\ status[script] = "open" /\ UNCHANGED <<spans, status, script>>
        /\ stage' = "end" /\ outcome' = [outcome EXCEPT ![script] = "unclear"]
    BY <1>2 DEF EngineRaises, IInv, Stack, spanVars, Stop
  <2> USE DEF IInv, Typed, EngineRaises, Stop, Stages
  <2>2. Typed'
    BY <2>1
  <2>3. Stack'
    BY <2>1 DEF Stack, WithScript
  <2>4. Told'
    <3>1. stage = "run"
      OBVIOUS
    <3>2. ASSUME NEW s \in Script, s # script
          PROVE  outcome'[s] = outcome[s] /\ status'[s] = status[s]
      BY <2>1, <3>2
    <3>3. status'[script] = "open" /\ outcome'[script] = "unclear"
      BY <2>1 DEF WithScript
    <3> QED
      BY <2>1, <3>1, <3>2, <3>3 DEF Told
  <2> QED
    BY <2>2, <2>3, <2>4
<1> QED
  BY <1>1, <1>2

LEMMA AfterEachFailsInv == ASSUME IInv, AfterEachFails PROVE IInv'
<1> USE ScriptRunsAssumption DEF IInv, Typed, AfterEachFails, Stop, Stages, SpanOf, Results
<1>1. script \in Script /\ OnlyOperation
  BY DEF Stack
<1>2. CASE command = "undo"
  <2>1. spans' = <<>> /\ status' = [status EXCEPT ![Operation] = "ERROR"]
    BY <1>1, <1>2, ScriptClosed
  <2> QED
    BY <2>1 DEF Stack, Told
<1>3. CASE command # "undo"
  <2>1. /\ stage = "over" /\ stage' = "end" /\ error' = TRUE
        /\ UNCHANGED <<command, queue, script, spans, status, outcome, ops>>
    BY <1>3 DEF spanVars
  <2> QED
    BY <1>1, <2>1 DEF Stack, Told, OnlyOperation
<1> QED
  BY <1>2, <1>3

LEMMA EndInv == ASSUME IInv, End PROVE IInv'
<1> USE ScriptRunsAssumption DEF IInv, Typed, End, Stages, SpanOf, Results
<1> DEFINE r == IF error THEN "ERROR" ELSE "OK"
<1>1. spans = <<>> \/ OnlyOperation \/ (WithScript /\ outcome[script] # "committed")
  BY DEF Stack
<1>2. /\ spans' = <<>>
      /\ spans = <<>> => status' = status
      /\ OnlyOperation => status' = [status EXCEPT ![Operation] = r]
      /\ WithScript =>
           status' = [[status EXCEPT ![script] = "ERROR"] EXCEPT ![Operation] = r]
  BY <1>1, OperationClosed
<1>3. Typed'
  BY <1>1, <1>2 DEF WithScript
<1>4. Stack'
  BY <1>1, <1>2 DEF Stack
<1>5. Told'
  BY <1>1, <1>2 DEF Told, WithScript
<1> QED
  BY <1>3, <1>4, <1>5

LEMMA StepInv == IInv /\ [Next]_vars => IInv'
<1> SUFFICES ASSUME IInv, [Next]_vars PROVE IInv'
  OBVIOUS
<1>1. ASSUME NEW todo \in Pending \cup ToUndo, Begin("migrate", todo) \/ Begin("undo", todo)
      PROVE  IInv'
  BY <1>1, BeginInv, ScriptRunsAssumption DEF Commands
<1>2. ASSUME NEW type \in {"statement", "refused"}, EngineFails(type) PROVE IInv'
  BY <1>2, EngineInv DEF EngineFails, Stop, IInv, Typed
<1>3. CASE EngineSucceeds
  <2>1. queue \in Seq(Script) /\ queue # <<>>
    BY <1>3 DEF EngineSucceeds, IInv, Typed, Stack
  <2>2. queue' \in Seq(Script)
    BY <1>3, <2>1, HeadTailProperties DEF EngineSucceeds
  <2> QED
    BY <1>3, <2>2, EngineInv DEF EngineSucceeds, IInv, Typed
<1>4. CASE UNCHANGED vars
  BY <1>4 DEF vars, runVars, journalVars, spanVars, IInv, Typed, Stack, Told, OnlyOperation, WithScript
<1> QED
  BY <1>1, <1>2, <1>3, <1>4, QuietSteps, StartScriptInv, BeforeEachFailsInv, ShowSqlFailsInv,
     EngineRaisesInv, AfterEachFailsInv, EndInv DEF Next

\* When an operation is over, no span is left open; the spans of the operation
\* and of each script that was started in it ended as they did, whatever events
\* migrate and undo leave out or emit twice.
THEOREM SpansTruthful == Spec => []SpansTellOutcome
<1>1. IInv => SpansTellOutcome
  BY DEF IInv, Stack, Told, SpansTellOutcome
<1> QED
  BY InitInv, StepInv, <1>1, PTL DEF Spec

-----------------------------------------------------------------------------
(* A subsequence has each of its entries once, and no others. *)

\* A finite set of numbers is listed without repetition, and completely.
LEMMA AscendingEntries ==
  ASSUME NEW K, K \subseteq Nat, IsFiniteSet(K)
  PROVE  LET c == Cardinality(K) IN
         /\ c \in Nat /\ Ascending(K) \in [1 .. c -> K]
         /\ \A m, n \in 1 .. c : Ascending(K)[m] = Ascending(K)[n] => m = n
         /\ \A i \in K : \E n \in 1 .. c : Ascending(K)[n] = i
<1> DEFINE c == Cardinality(K)
           upTo(i) == {j \in K : j <= i}
           rank == [i \in K |-> Cardinality(upTo(i))]
           b == [n \in 1 .. c |-> CHOOSE i \in K : rank[i] = n]
<1>1. \A i \in K : i \in Nat
  OBVIOUS
<1>2. IsFiniteSet(K) /\ c \in Nat
  BY FS_CardinalityType
<1>3. \A i \in K : /\ upTo(i) \subseteq K /\ i \in upTo(i)
                   /\ IsFiniteSet(upTo(i)) /\ Cardinality(upTo(i)) \in 1 .. c
  <2>1. SUFFICES ASSUME NEW i \in K
                 PROVE  /\ upTo(i) \subseteq K /\ i \in upTo(i)
                        /\ IsFiniteSet(upTo(i)) /\ Cardinality(upTo(i)) \in 1 .. c
    OBVIOUS
  <2>2. upTo(i) \subseteq K /\ i \in upTo(i)
    <3>1. i \in Nat /\ i <= i
      BY <1>1
    <3> QED
      BY <3>1
  <2> HIDE DEF upTo
  <2>3. IsFiniteSet(upTo(i)) /\ Cardinality(upTo(i)) <= c /\ Cardinality(upTo(i)) \in Nat
    BY <1>2, <2>2, FS_Subset, FS_CardinalityType
  <2>4. Cardinality(upTo(i)) # 0
    BY <2>2, <2>3, FS_EmptySet
  <2> QED
    BY <1>2, <2>2, <2>3, <2>4
<1>4. rank \in [K -> 1 .. c]
  BY <1>3
<1>5. ASSUME NEW i \in K, NEW j \in K, i < j PROVE rank[i] # rank[j]
  <2>1. upTo(i) \subseteq upTo(j) /\ j \notin upTo(i) /\ j \in upTo(j)
    <3>1. i \in Nat /\ j \in Nat /\ ~(j <= i) /\ j <= j
      BY <1>1, <1>5
    <3>2. \A k \in K : k <= i => k <= j
      BY <1>1, <1>5, <3>1
    <3> QED
      BY <3>1, <3>2
  <2>2. IsFiniteSet(upTo(j))
    BY <1>3
  <2> HIDE DEF upTo
  <2>3. Cardinality(upTo(i)) # Cardinality(upTo(j))
    BY <2>1, <2>2, FS_Subset
  <2> QED
    BY <2>3
<1>6. \A i, j \in K : rank[i] = rank[j] => i = j
  <2>1. SUFFICES ASSUME NEW i \in K, NEW j \in K, rank[i] = rank[j], i # j PROVE FALSE
    OBVIOUS
  <2>2. i < j \/ j < i
    BY <1>1, <2>1
  <2> HIDE DEF rank
  <2> QED
    BY <1>5, <2>1, <2>2
<1> HIDE DEF rank
<1>7. rank \in Injection(K, 1 .. c)
  BY <1>4, <1>6 DEF Injection, IsInjective
<1>8. rank \in Surjection(K, 1 .. c)
  <2>1. IsFiniteSet(1 .. c) /\ Cardinality(1 .. c) = c
    BY <1>2, FS_Interval
  <2> QED
    BY <1>7, <2>1, FS_Injection
<1>9. \A n \in 1 .. c : b[n] \in K /\ rank[b[n]] = n
  <2>1. \A n \in 1 .. c : \E i \in K : rank[i] = n
    BY <1>8 DEF Surjection
  <2> QED
    BY <2>1
<1>10. Ascending(K) = b
  <2>1. ASSUME NEW n \in 1 .. c
        PROVE  b[n] = CHOOSE i \in K : Cardinality({j \in K : j <= i}) = n
    <3>1. \A i \in K : rank[i] = n <=> Cardinality({j \in K : j <= i}) = n
      BY DEF rank
    <3> QED
      BY <3>1
  <2> DEFINE p(n) == CHOOSE i \in K : Cardinality({j \in K : j <= i}) = n
  <2>2. Ascending(K) = [n \in 1 .. c |-> p(n)]
    BY Zenon DEF Ascending
  <2>3. \A n \in 1 .. c : b[n] = p(n)
    BY <2>1
  <2>4. b = [n \in 1 .. c |-> b[n]]
    OBVIOUS
  <2> HIDE DEF b, p
  <2> QED
    BY <2>2, <2>3, <2>4
<1>11. b \in [1 .. c -> K]
  BY <1>9
<1> HIDE DEF b, c
<1>12. \A m, n \in 1 .. c : b[m] = b[n] => m = n
  BY <1>9
<1>13. \A i \in K : \E n \in 1 .. c : b[n] = i
  BY <1>4, <1>6, <1>9
<1> QED
  BY <1>2, <1>10, <1>11, <1>12, <1>13 DEF c

\* A subsequence has each entry at a position of K once, and no others.
LEMMA SubsequenceEntries ==
  ASSUME NEW S, NEW s \in Seq(S), NEW K, K \subseteq DOMAIN s
  PROVE  /\ Subsequence(s, K) \in Seq(S)
         /\ \E b : /\ \A n \in DOMAIN Subsequence(s, K) :
                        b[n] \in K /\ Subsequence(s, K)[n] = s[b[n]]
                   /\ \A m, n \in DOMAIN Subsequence(s, K) : b[m] = b[n] => m = n
                   /\ \A i \in K : \E n \in DOMAIN Subsequence(s, K) : b[n] = i
<1> DEFINE c == Cardinality(K)
           b == Ascending(K)
<1>1. Len(s) \in Nat /\ DOMAIN s = 1 .. Len(s) /\ K \subseteq Nat
  BY LenProperties
<1>2. IsFiniteSet(K)
  <2>1. IsFiniteSet(1 .. Len(s))
    BY <1>1, FS_Interval
  <2> QED
    BY <1>1, <2>1, FS_Subset
<1>3. /\ c \in Nat /\ b \in [1 .. c -> K]
      /\ \A m, n \in 1 .. c : b[m] = b[n] => m = n
      /\ \A i \in K : \E n \in 1 .. c : b[n] = i
  BY <1>1, <1>2, AscendingEntries
<1>4. Subsequence(s, K) = [n \in 1 .. c |-> s[b[n]]]
  BY DEF Subsequence
<1> HIDE DEF b, c
<1>5. Subsequence(s, K) \in Seq(S) /\ DOMAIN Subsequence(s, K) = 1 .. c
  <2>1. \A n \in 1 .. c : s[b[n]] \in S
    BY <1>1, <1>3, ElementOfSeq
  <2>2. [n \in 1 .. c |-> s[b[n]]] \in Seq(S)
    BY <1>3, <2>1, IsASeq
  <2> QED
    BY <1>4, <2>2
<1>6. \A n \in 1 .. c : Subsequence(s, K)[n] = s[b[n]]
  BY <1>4
<1>7. /\ \A n \in DOMAIN Subsequence(s, K) : b[n] \in K /\ Subsequence(s, K)[n] = s[b[n]]
      /\ \A m, n \in DOMAIN Subsequence(s, K) : b[m] = b[n] => m = n
      /\ \A i \in K : \E n \in DOMAIN Subsequence(s, K) : b[n] = i
  BY <1>3, <1>5, <1>6
<1> QED
  BY <1>5, <1>7

-----------------------------------------------------------------------------
(* What an entry does to a journal. *)

\* The statements a journal has as done, and that it has each of them once.
Done(es) == {i \in DOMAIN es : es[i].type = "stmtDone"}
Indices(es) == {es[i].index : i \in Done(es)}
Once(es) == \A i, j \in Done(es) : es[i].index = es[j].index => i = j

LEMMA AppendedEntry ==
  ASSUME NEW es \in Seq(Entry), NEW e \in Entry
  PROVE  LET u == Append(es, e)
         IN /\ u \in Seq(Entry) /\ u # <<>> /\ Last(u) = e
            /\ Indices(u) = Indices(es) \cup (IF e.type = "stmtDone" THEN {e.index} ELSE {})
            /\ Once(es) /\ (e.type = "stmtDone" => e.index \notin Indices(es)) => Once(u)
<1> DEFINE u == Append(es, e)
           n == Len(es) + 1
<1>1. /\ u \in Seq(Entry) /\ Len(u) = n /\ u[n] = e
      /\ \A i \in 1 .. Len(es) : u[i] = es[i]
  BY AppendProperties
<1>2. Len(es) \in Nat /\ DOMAIN es = 1 .. Len(es)
  BY LenProperties
<1> HIDE DEF u
<1>3. DOMAIN u = 1 .. n
  BY <1>1, LenProperties
<1>4. Done(u) = Done(es) \cup (IF e.type = "stmtDone" THEN {n} ELSE {})
  BY <1>1, <1>2, <1>3 DEF Done
<1>5. \A i \in Done(es) : u[i] = es[i] /\ i # n
  BY <1>1, <1>2 DEF Done
<1>6. Indices(u) = Indices(es) \cup (IF e.type = "stmtDone" THEN {e.index} ELSE {})
  BY <1>1, <1>4, <1>5 DEF Indices
<1>7. Once(es) /\ (e.type = "stmtDone" => e.index \notin Indices(es)) => Once(u)
  BY <1>1, <1>4, <1>5 DEF Once, Indices
<1>8. u # <<>> /\ Last(u) = e
  BY <1>1, <1>2, <1>3 DEF Last
<1> QED
  BY <1>1, <1>6, <1>7, <1>8 DEF u

\* Whatever a journal holds, an entry is its last one after it was written, the
\* statements it has as done stay, and none is in it twice.
LEMMA WrittenEntry ==
  ASSUME NEW es \in Seq(Entry), NEW e \in Entry
  PROVE  LET u == Written(es, e)
         IN /\ u \in Seq(Entry) /\ u # <<>> /\ Last(u) = e
            /\ Once(es) =>
                 /\ Once(u)
                 /\ Indices(u) = Indices(es) \cup (IF e.type = "stmtDone" THEN {e.index} ELSE {})
<1> DEFINE replaced(f) ==
             \/ e.type \in EndTypes /\ f.type \in EndTypes
             \/ e.type \in {"stmtStart", "stmtDone"} /\ f = e
           K == {i \in DOMAIN es : ~replaced(es[i])}
           t == Subsequence(es, K)
<1>1. Written(es, e) = Append(t, e)
  BY Zenon DEF Written
<1>2. K \subseteq DOMAIN es
  OBVIOUS
<1>3. \A i \in DOMAIN es : es[i] \in Entry
  BY LenProperties, ElementOfSeq
<1>4. \A i \in Done(es) : i \in K <=> (e.type = "stmtDone" => es[i].index # e.index)
  <2>1. \A f \in Entry : f.type = "stmtDone" =>
          (replaced(f) <=> e.type = "stmtDone" /\ f.index = e.index)
    BY DEF Entry, EndTypes
  <2> HIDE DEF replaced
  <2> QED
    BY <1>3, <2>1 DEF Done
<1> HIDE DEF K
<1>5. /\ t \in Seq(Entry)
      /\ \E b : /\ \A n \in DOMAIN t : b[n] \in K /\ t[n] = es[b[n]]
                /\ \A m, n \in DOMAIN t : b[m] = b[n] => m = n
                /\ \A i \in K : \E n \in DOMAIN t : b[n] = i
  BY <1>2, SubsequenceEntries
<1>6. PICK b : /\ \A n \in DOMAIN t : b[n] \in K /\ t[n] = es[b[n]]
               /\ \A m, n \in DOMAIN t : b[m] = b[n] => m = n
               /\ \A i \in K : \E n \in DOMAIN t : b[n] = i
  BY <1>5
<1> HIDE DEF t
<1>7. \A n \in Done(t) : b[n] \in Done(es) \cap K /\ t[n] = es[b[n]]
  BY <1>2, <1>6 DEF Done
<1>8. Once(es) => Once(t)
  <2>1. SUFFICES ASSUME Once(es), NEW m \in Done(t), NEW n \in Done(t), t[m].index = t[n].index
                 PROVE  m = n
    BY DEF Once
  <2>2. b[m] = b[n]
    BY <1>7, <2>1 DEF Once
  <2> QED
    BY <1>6, <2>2 DEF Done
<1>9. Indices(t) = Indices(es) \ (IF e.type = "stmtDone" THEN {e.index} ELSE {})
  <2>1. ASSUME NEW x \in Indices(t)
        PROVE  x \in Indices(es) /\ (e.type = "stmtDone" => x # e.index)
    BY <1>4, <1>7 DEF Indices
  <2>2. ASSUME NEW x \in Indices(es), e.type = "stmtDone" => x # e.index
        PROVE  x \in Indices(t)
    <3>1. PICK i \in Done(es) : x = es[i].index
      BY DEF Indices
    <3>2. i \in K
      BY <1>4, <2>2, <3>1
    <3>3. PICK n \in DOMAIN t : b[n] = i
      BY <1>6, <3>2
    <3>4. n \in Done(t) /\ t[n].index = x
      BY <1>6, <3>1, <3>3 DEF Done
    <3> QED
      BY <3>4 DEF Indices
  <2> QED
    BY <2>1, <2>2
<1> DEFINE u == Append(t, e)
<1>10. /\ u \in Seq(Entry) /\ u # <<>> /\ Last(u) = e
       /\ Indices(u) = Indices(t) \cup (IF e.type = "stmtDone" THEN {e.index} ELSE {})
       /\ Once(t) /\ (e.type = "stmtDone" => e.index \notin Indices(t)) => Once(u)
  BY <1>5, AppendedEntry
<1>11. Once(es) => Once(u)
  BY <1>8, <1>9, <1>10
<1>12. Indices(u) = Indices(es) \cup (IF e.type = "stmtDone" THEN {e.index} ELSE {})
  BY <1>9, <1>10
<1> QED
  BY <1>1, <1>10, <1>11, <1>12 DEF u

-----------------------------------------------------------------------------
(* The journals. *)

JournalsTyped == journals \in [Script -> Seq(Entry)]

\* The journal of a script that is not being run is closed, and tells how its
\* last run ended.
Closing ==
  /\ current = IF stage = "run" THEN script ELSE NoScript
  /\ \A s \in Script :
       journals[s] # <<>> /\ ~(stage = "run" /\ s = script) =>
         /\ LastEntry(s) \in EndTypes
         /\ LastEntry(s) = "complete" <=> outcome[s] = "committed"

\* A run adds its statements to those that earlier runs got through.
Counting ==
  /\ \A s \in Script : Once(journals[s]) /\ Indices(journals[s]) \subseteq 1 .. Statements[s]
  /\ stage = "run" =>
       stmt \in 0 .. Statements[script] /\ 1 .. stmt \subseteq Indices(journals[script])
  /\ \A s \in Script :
       outcome[s] = "committed" /\ ~(stage = "run" /\ s = script) =>
         Indices(journals[s]) = 1 .. Statements[s]

JInv == JournalsTyped /\ Closing /\ Counting

LEMMA InitJournals == Init => JInv
<1> SUFFICES ASSUME Init PROVE JInv
  OBVIOUS
<1>1. journals = [s \in Script |-> <<>>]
  BY DEF Init
<1>2. Once(<<>>) /\ Indices(<<>>) = {}
  BY DEF Once, Indices, Done
<1>3. JournalsTyped
  BY <1>1, EmptySeq DEF JournalsTyped
<1>4. Closing
  BY <1>1 DEF Init, Closing
<1>5. Counting
  BY <1>1, <1>2 DEF Init, Counting
<1> QED
  BY <1>3, <1>4, <1>5 DEF JInv

\* Steps outside a run write to no journal.
LEMMA JournalsKept ==
  ASSUME JInv, stage # "run", stage' # "run", UNCHANGED <<current, journals, outcome>>
  PROVE  JInv'
<1>1. \A s \in Script : Once(journals[s])' = Once(journals[s])
                        /\ Indices(journals[s])' = Indices(journals[s])
                        /\ LastEntry(s)' = LastEntry(s)
  BY DEF Once, Indices, Done, LastEntry
<1> QED
  BY <1>1 DEF JInv, JournalsTyped, Closing, Counting

\* One script's journal gets entries.
LEMMA JournalReplaced ==
  ASSUME JInv, NEW s \in Script, NEW es \in Seq(Entry),
         journals' = [journals EXCEPT ![s] = es]
  PROVE  /\ JournalsTyped' /\ journals'[s] = es
         /\ \A r \in Script \ {s} : journals'[r] = journals[r]
  BY DEF JInv, JournalsTyped

\* A script is started, or goes on.
LEMMA RunGoesOn ==
  ASSUME JInv, NEW s \in Script, NEW es \in Seq(Entry),
         journals' = [journals EXCEPT ![s] = es],
         Once(es), Indices(es) \subseteq 1 .. Statements[s],
         stage = "run" => script = s, stage' = "run", script' = s, current' = s,
         stmt' \in 0 .. Statements[s], 1 .. stmt' \subseteq Indices(es), UNCHANGED outcome
  PROVE  JInv'
<1>1. JournalsTyped' /\ journals'[s] = es /\ \A r \in Script \ {s} : journals'[r] = journals[r]
  BY JournalReplaced
<1>2. Closing'
  BY <1>1 DEF JInv, Closing, LastEntry
<1>3. Counting'
  BY <1>1 DEF JInv, Counting, Once, Indices, Done
<1> QED
  BY <1>1, <1>2, <1>3 DEF JInv

\* The run of a script is over, and its journal is closed.
LEMMA RunIsOver ==
  ASSUME IInv, JInv, NEW s \in Script, NEW es \in Seq(Entry), NEW o,
         journals' = [journals EXCEPT ![s] = es], es # <<>>,
         Once(es), Indices(es) \subseteq 1 .. Statements[s],
         stage = "run" => script = s, stage' # "run", current' = NoScript,
         outcome' = [outcome EXCEPT ![s] = o],
         Last(es).type \in EndTypes, Last(es).type = "complete" <=> o = "committed",
         o = "committed" => Indices(es) = 1 .. Statements[s]
  PROVE  JInv'
<1>1. JournalsTyped' /\ journals'[s] = es /\ \A r \in Script \ {s} : journals'[r] = journals[r]
  BY JournalReplaced
<1>2. outcome'[s] = o /\ \A r \in Script \ {s} : outcome'[r] = outcome[r]
  BY DEF IInv, Typed
<1>3. Closing'
  BY <1>1, <1>2 DEF JInv, Closing, LastEntry
<1>4. Counting'
  BY <1>1, <1>2 DEF JInv, Counting, Once, Indices, Done
<1> QED
  BY <1>1, <1>3, <1>4 DEF JInv

LEMMA Marks ==
  /\ Mark("start", 0) \in Entry /\ Mark("failed", 0) \in Entry /\ Mark("complete", 0) \in Entry
  /\ Mark("start", 0).type = "start" /\ Mark("failed", 0).type = "failed"
  /\ Mark("complete", 0).type = "complete"
  /\ \A i \in Nat : /\ Mark("stmtStart", i) \in Entry /\ Mark("stmtDone", i) \in Entry
                    /\ Mark("stmtFailed", i) \in Entry
                    /\ Mark("stmtStart", i).type = "stmtStart"
                    /\ Mark("stmtDone", i).type = "stmtDone" /\ Mark("stmtDone", i).index = i
                    /\ Mark("stmtFailed", i).type = "stmtFailed"
  BY DEF Mark, Entry

LEMMA OtherWritten ==
  ASSUME NEW es \in Seq(Entry), Once(es), NEW e \in Entry, e.type # "stmtDone"
  PROVE  /\ Written(es, e) \in Seq(Entry) /\ Written(es, e) # <<>> /\ Last(Written(es, e)) = e
         /\ Once(Written(es, e)) /\ Indices(Written(es, e)) = Indices(es)
  BY WrittenEntry

LEMMA DoneWritten ==
  ASSUME NEW es \in Seq(Entry), Once(es), NEW i \in Nat
  PROVE  /\ Written(es, Mark("stmtDone", i)) \in Seq(Entry)
         /\ Once(Written(es, Mark("stmtDone", i)))
         /\ Indices(Written(es, Mark("stmtDone", i))) = Indices(es) \cup {i}
<1> DEFINE e == Mark("stmtDone", i)
<1>1. e \in Entry /\ e.type = "stmtDone" /\ e.index = i
  BY Marks
<1> HIDE DEF e
<1>2. /\ Written(es, e) \in Seq(Entry) /\ Once(Written(es, e))
      /\ Indices(Written(es, e)) = Indices(es) \cup {i}
  BY <1>1, WrittenEntry
<1> QED
  BY <1>2 DEF e

\* A script that is being run has a journal of its own.
LEMMA Running ==
  ASSUME IInv, JInv, stage = "run"
  PROVE  /\ script \in Script /\ journals[script] \in Seq(Entry)
         /\ Once(journals[script]) /\ Indices(journals[script]) \subseteq 1 .. Statements[script]
         /\ Statements[script] \in Nat /\ stmt \in Nat /\ current = script
  BY ScriptRunsAssumption DEF IInv, Stack, WithScript, JInv, JournalsTyped, Counting, Closing

LEMMA ShowSqlFailsJournal == ASSUME IInv, JInv, ShowSqlFails PROVE JInv'
<1> DEFINE s == Head(queue)
           u == Written(journals[s], Mark("start", 0))
           v == Written(u, Mark("failed", 0))
<1>1. s \in Script
  BY HeadTailProperties DEF ShowSqlFails, IInv, Typed, Stack
<1>2. /\ journals[s] \in Seq(Entry) /\ Once(journals[s])
      /\ Indices(journals[s]) \subseteq 1 .. Statements[s]
  BY <1>1 DEF JInv, JournalsTyped, Counting
<1>3. /\ stage = "journal" /\ journals' = [journals EXCEPT ![s] = v] /\ current' = NoScript
      /\ outcome' = [outcome EXCEPT ![s] = "unread"] /\ stage' = "end"
  BY DEF ShowSqlFails, Stop
<1> HIDE DEF s, u, v
<1>4. u \in Seq(Entry) /\ Once(u) /\ Indices(u) = Indices(journals[s])
  BY <1>2, Marks, OtherWritten DEF u
<1>5. /\ v \in Seq(Entry) /\ v # <<>> /\ Last(v).type = "failed"
      /\ Once(v) /\ Indices(v) = Indices(u)
  BY <1>4, Marks, OtherWritten DEF v
<1> QED
  BY <1>1, <1>2, <1>3, <1>4, <1>5, RunIsOver DEF EndTypes

LEMMA StartScriptJournal == ASSUME IInv, JInv, StartScript PROVE JInv'
<1> DEFINE s == Head(queue)
           u == Written(journals[s], Mark("start", 0))
<1>1. s \in Script
  BY HeadTailProperties DEF StartScript, IInv, Typed, Stack
<1>2. /\ journals[s] \in Seq(Entry) /\ Once(journals[s])
      /\ Indices(journals[s]) \subseteq 1 .. Statements[s] /\ Statements[s] \in Nat
  BY <1>1, ScriptRunsAssumption DEF JInv, JournalsTyped, Counting
<1>3. /\ stage = "journal" /\ journals' = [journals EXCEPT ![s] = u] /\ current' = s
      /\ stage' = "run" /\ script' = s /\ stmt' = 0 /\ UNCHANGED outcome
  BY DEF StartScript, JournalStart
<1> HIDE DEF s, u
<1>4. u \in Seq(Entry) /\ Once(u) /\ Indices(u) = Indices(journals[s])
  BY <1>2, Marks, OtherWritten DEF u
<1>5. stmt' \in 0 .. Statements[s] /\ 1 .. stmt' \subseteq Indices(u)
  BY <1>2, <1>3
<1> QED
  BY <1>1, <1>2, <1>3, <1>4, <1>5, RunGoesOn

LEMMA StatementDoneJournal == ASSUME IInv, JInv, StatementDone PROVE JInv'
<1> DEFINE s == script
           u == Written(journals[s], Mark("stmtStart", stmt + 1))
           v == Written(u, Mark("stmtDone", stmt + 1))
<1>1. /\ s \in Script /\ journals[s] \in Seq(Entry) /\ Once(journals[s])
      /\ Indices(journals[s]) \subseteq 1 .. Statements[s]
      /\ Statements[s] \in Nat /\ stmt \in Nat /\ current = s
  BY Running DEF StatementDone
<1>2. /\ stage = "run" /\ stmt < Statements[s] /\ stmt' = stmt + 1
      /\ journals' = [journals EXCEPT ![s] = v] /\ UNCHANGED <<current, stage, script, outcome>>
  BY DEF StatementDone, JournalStatement
<1>3. 1 .. stmt \subseteq Indices(journals[s])
  BY <1>2 DEF JInv, Counting
<1> HIDE DEF s, u, v
<1>4. u \in Seq(Entry) /\ Once(u) /\ Indices(u) = Indices(journals[s])
  BY <1>1, Marks, OtherWritten DEF u
<1>5. v \in Seq(Entry) /\ Once(v) /\ Indices(v) = Indices(u) \cup {stmt + 1}
  <2>1. stmt + 1 \in Nat
    BY <1>1
  <2> QED
    BY <1>4, <2>1, DoneWritten DEF v
<1>6. stmt' \in 0 .. Statements[s] /\ 1 .. stmt' \subseteq Indices(v)
      /\ Indices(v) \subseteq 1 .. Statements[s]
  BY <1>1, <1>2, <1>3, <1>4, <1>5
<1> QED
  BY <1>1, <1>2, <1>5, <1>6, RunGoesOn DEF s

LEMMA EngineFailsJournal ==
  ASSUME IInv, JInv, NEW type \in {"statement", "refused"}, EngineFails(type)
  PROVE  JInv'
<1> DEFINE s == script
           u == Written(journals[s], Mark("stmtStart", stmt + 1))
           v == Written(u, Mark("stmtFailed", stmt + 1))
           w == IF type = "statement" THEN v ELSE journals[s]
           x == Written(w, Mark("failed", 0))
<1>1. /\ s \in Script /\ journals[s] \in Seq(Entry) /\ Once(journals[s])
      /\ Indices(journals[s]) \subseteq 1 .. Statements[s]
      /\ stmt + 1 \in Nat
  BY Running DEF EngineFails
<1>2. /\ stage' = "end" /\ journals' = [journals EXCEPT ![s] = x] /\ current' = NoScript
      /\ outcome' = [outcome EXCEPT ![s] = "failed"]
  BY DEF EngineFails, Stop
<1> HIDE DEF s, u, v, w, x
<1>3. u \in Seq(Entry) /\ Once(u) /\ Indices(u) = Indices(journals[s])
  BY <1>1, Marks, OtherWritten DEF u
<1>4. v \in Seq(Entry) /\ Once(v) /\ Indices(v) = Indices(u)
  BY <1>1, <1>3, Marks, OtherWritten DEF v
<1>5. w \in Seq(Entry) /\ Once(w) /\ Indices(w) = Indices(journals[s])
  BY <1>1, <1>3, <1>4 DEF w
<1>6. /\ x \in Seq(Entry) /\ x # <<>> /\ Last(x).type = "failed"
      /\ Once(x) /\ Indices(x) = Indices(w)
  BY <1>5, Marks, OtherWritten DEF x
<1> QED
  BY <1>1, <1>2, <1>5, <1>6, RunIsOver DEF EndTypes, s

\* The engine raises, or has executed all statements and recorded the script.
LEMMA EngineReturnsJournal ==
  ASSUME IInv, JInv, EngineRaises \/ EngineSucceeds
  PROVE  JInv'
<1> DEFINE s == script
           type == IF EngineSucceeds THEN "complete" ELSE "failed"
           o == IF EngineSucceeds THEN "committed" ELSE "unclear"
           x == Written(journals[s], Mark(type, 0))
<1>1. /\ stage = "run" /\ stage' \in {"end", "over"} /\ stmt = Statements[s]
      /\ JournalEnd(s, type) /\ outcome' = [outcome EXCEPT ![s] = o]
  BY DEF EngineRaises, EngineSucceeds, Stop
<1>2. /\ s \in Script /\ journals[s] \in Seq(Entry) /\ Once(journals[s])
      /\ Indices(journals[s]) \subseteq 1 .. Statements[s]
      /\ current = s
  BY <1>1, Running
<1>3. journals' = [journals EXCEPT ![s] = x] /\ current' = NoScript
  BY <1>1, <1>2 DEF JournalEnd
<1>4. 1 .. Statements[s] \subseteq Indices(journals[s])
  BY <1>1 DEF JInv, Counting
<1>5. Mark(type, 0) \in Entry /\ Mark(type, 0).type = type /\ type \in {"complete", "failed"}
  BY Marks
<1>6. o \in {"committed", "unclear"} /\ (type = "complete" <=> o = "committed")
  OBVIOUS
<1> HIDE DEF s, type, o, x
<1>7. Mark(type, 0).type # "stmtDone"
  BY <1>5
<1>8. /\ x \in Seq(Entry) /\ x # <<>> /\ Last(x) = Mark(type, 0)
      /\ Once(x) /\ Indices(x) = Indices(journals[s])
  BY <1>2, <1>5, <1>7, OtherWritten DEF x
<1>9. Last(x).type \in EndTypes /\ (Last(x).type = "complete" <=> o = "committed")
  BY <1>5, <1>6, <1>8 DEF EndTypes
<1>10. Indices(x) \subseteq 1 .. Statements[s] /\ (o = "committed" => Indices(x) = 1 .. Statements[s])
  BY <1>2, <1>4, <1>8
<1>11. stage' # "run"
  BY <1>1
<1> QED
  BY <1>1, <1>2, <1>3, <1>8, <1>9, <1>10, <1>11, RunIsOver DEF s

LEMMA StepJournals == IInv /\ JInv /\ [Next]_vars => JInv'
<1> SUFFICES ASSUME IInv, JInv, [Next]_vars PROVE JInv'
  OBVIOUS
<1>1. ASSUME NEW c, NEW todo, Begin(c, todo) PROVE JInv'
  BY <1>1, JournalsKept DEF Begin, journalVars
<1>2. CASE OperationFails \/ AllDone \/ BeforeEach \/ BeforeEachFails \/ NoUndoScript \/ AfterEach \/ End
  BY <1>2, JournalsKept DEF OperationFails, AllDone, BeforeEach, BeforeEachFails, NoUndoScript,
     AfterEach, End, Stop, journalVars
<1>3. CASE AfterEachFails
  <2>1. stage = "over" /\ script \in Script /\ current = NoScript
    BY <1>3 DEF AfterEachFails, IInv, Stack, JInv, Closing
  <2>2. current # script
    BY <2>1, ScriptRunsAssumption
  <2>3. UNCHANGED <<current, journals, outcome>> /\ stage' = "end"
    BY <1>3, <2>2 DEF AfterEachFails, JournalEnd, journalVars, Stop
  <2> QED
    BY <2>1, <2>3, JournalsKept
<1>4. CASE UNCHANGED vars
  <2>1. \A s \in Script : Once(journals[s])' = Once(journals[s])
                          /\ Indices(journals[s])' = Indices(journals[s])
                          /\ LastEntry(s)' = LastEntry(s)
    BY <1>4 DEF vars, journalVars, Once, Indices, Done, LastEntry
  <2> QED
    BY <1>4, <2>1 DEF vars, runVars, journalVars, JInv, JournalsTyped, Closing, Counting
<1> QED
  BY <1>1, <1>2, <1>3, <1>4, ShowSqlFailsJournal, StartScriptJournal, StatementDoneJournal,
     EngineFailsJournal, EngineReturnsJournal DEF Next

LEMMA JournalInvariant == Spec => []JInv
  BY InitInv, StepInv, InitJournals, StepJournals, PTL DEF Spec

\* When an operation is over, the journal of every script that was ever run is
\* closed, as a success exactly if the last run of the script was one.
THEOREM JournalsAreClosed == Spec => []JournalTellsOutcome
<1>1. JInv => JournalTellsOutcome
  BY DEF JInv, Closing, JournalTellsOutcome
<1> QED
  BY JournalInvariant, <1>1, PTL

\* The journal of a script that was run successfully has each of its statements
\* as done, and once, whatever earlier runs left in it.
THEOREM SummariesAreComplete == Spec => []SummaryComplete
<1>1. JInv => SummaryComplete
  BY DEF JInv, Counting, SummaryComplete, Indices, Once, Done
<1> QED
  BY JournalInvariant, <1>1, PTL
=============================================================================
