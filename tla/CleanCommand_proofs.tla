-------------------------- MODULE CleanCommand_proofs --------------------------
(***************************************************************************)
(* Whatever a schema holds, whatever is created meanwhile and whatever     *)
(* fails: a clean that reports success has dropped what was there, and the *)
(* session checks foreign keys again afterwards, unless it was the switch  *)
(* back on that failed.                                                    *)
(***************************************************************************)
EXTENDS CleanCommand, SequenceTheorems, FiniteSetTheorems, TLAPS

\* Every kind of object that a schema holds is among those that its provider
\* asks for.
KindsAreListed == \A d \in Dialects : KindsOf[d] \subseteq Range(CleanOrder[d])

KindNames ==
  {"alias", "body", "database_link", "event", "extension", "foreign_key", "function",
   "global_temporary_table", "materialized_query_table", "materialized_view", "module",
   "procedure", "program", "routine", "sequence", "synonym", "table", "trigger", "type", "view"}

Typed ==
  /\ dialect \in Dialects /\ kind \in [Object -> KindsOf[dialect]]
  /\ present \subseteq Object /\ dry \in BOOLEAN
  /\ kinds \in Seq(KindNames) /\ list \in Seq(Statements)
  /\ checks \in BOOLEAN /\ aborted \in BOOLEAN /\ complete \in BOOLEAN
  /\ onFailed \in BOOLEAN
  /\ errors \in BOOLEAN /\ success \in BOOLEAN /\ failures \in Nat

InList(o) == <<"drop", o>> \in Range(list)

\* What was there and is not yet gone.
Left == (present \cap targets) \ recreated

\* It is still to be asked for, or to be dropped; or an answer was missing, or
\* a statement failed.
Pending ==
  KindsAreListed =>
    /\ pc = "listing" /\ complete =>
         /\ ~errors
         /\ \A o \in Left : kind[o] \in Range(kinds) \/ InList(o)
    /\ pc = "dropping" /\ complete /\ ~errors => \A o \in Left : InList(o)

\* Only PostgreSQL's sessions have failed transactions, and only the others
\* switch the checks: off first, and on last.  As long as the checks are off and
\* to be put on, the list ends with the statement that does it.
Switching ==
  /\ aborted => dialect = "postgresql"
  /\ \A i \in DOMAIN list : list[i][1] # "drop" =>
       /\ pc = "dropping" /\ dialect \in Switches
       /\ list[Len(list)] = <<"on">>
  /\ ~checks /\ ~onFailed => pc = "dropping" /\ list # <<>> /\ list[Len(list)] = <<"on">>

IInv == Typed /\ Pending /\ Switching /\ (KindsAreListed => SuccessMeansGone)

-----------------------------------------------------------------------------
(* Lists of statements. *)

LEMMA Tails ==
  ASSUME NEW S, NEW s \in Seq(S), s # <<>>
  PROVE  /\ Tail(s) \in Seq(S) /\ Len(s) \in Nat \ {0} /\ DOMAIN s = 1..Len(s)
         /\ Head(s) = s[1] /\ Head(s) \in S
         /\ Range(s) = {Head(s)} \cup Range(Tail(s))
         /\ \A i \in DOMAIN Tail(s) : i + 1 \in DOMAIN s /\ Tail(s)[i] = s[i + 1]
         /\ IF Tail(s) = <<>> THEN s[Len(s)] = Head(s)
            ELSE Tail(s)[Len(Tail(s))] = s[Len(s)]
<1>1. /\ Len(s) \in Nat \ {0} /\ DOMAIN s = 1..Len(s)
      /\ Head(s) = s[1] /\ Head(s) \in S
      /\ Tail(s) \in Seq(S) /\ Len(Tail(s)) = Len(s) - 1
      /\ \A i \in 1..Len(Tail(s)) : Tail(s)[i] = s[i + 1]
  BY LenProperties, EmptySeq, HeadTailProperties
<1>2. DOMAIN Tail(s) = 1..(Len(s) - 1)
  BY <1>1, LenProperties
<1>3. \A i \in DOMAIN Tail(s) : i + 1 \in DOMAIN s /\ Tail(s)[i] = s[i + 1]
  BY <1>1, <1>2
<1>4. Range(s) = {Head(s)} \cup Range(Tail(s))
  <2>1. ASSUME NEW i \in DOMAIN s PROVE s[i] \in {Head(s)} \cup Range(Tail(s))
    <3>1. CASE i = 1
      BY <3>1, <1>1
    <3>2. CASE i # 1
      <4>1. i - 1 \in DOMAIN Tail(s) /\ (i - 1) + 1 = i
        BY <3>2, <1>1, <1>2
      <4> QED
        BY <4>1, <1>3 DEF Range
    <3> QED
      BY <3>1, <3>2
  <2>2. ASSUME NEW i \in DOMAIN Tail(s) PROVE Tail(s)[i] \in Range(s)
    BY <1>3 DEF Range
  <2>3. 1 \in DOMAIN s
    BY <1>1
  <2>4. Head(s) \in Range(s)
    BY <1>1, <2>3 DEF Range
  <2>5. Range(s) = {s[i] : i \in DOMAIN s} /\ Range(Tail(s)) = {Tail(s)[i] : i \in DOMAIN Tail(s)}
    BY DEF Range
  <2> QED
    BY <2>1, <2>2, <2>4, <2>5
<1>5. IF Tail(s) = <<>> THEN s[Len(s)] = Head(s) ELSE Tail(s)[Len(Tail(s))] = s[Len(s)]
  <2>1. CASE Tail(s) = <<>>
    <3>1. Len(s) = 1
      <4>1. Len(Tail(s)) = 0
        BY <2>1, EmptySeq
      <4> QED
        BY <4>1, <1>1
    <3> QED
      BY <2>1, <3>1, <1>1
  <2>2. CASE Tail(s) # <<>>
    <3>1. Len(Tail(s)) \in 1..Len(Tail(s)) /\ Len(Tail(s)) + 1 = Len(s)
      BY <2>2, <1>1, EmptySeq
    <3> QED
      BY <2>2, <3>1, <1>1
  <2> QED
    BY <2>1, <2>2
<1> QED
  BY <1>1, <1>3, <1>4, <1>5

LEMMA Joined ==
  ASSUME NEW S, NEW s \in Seq(S), NEW t \in Seq(S)
  PROVE  /\ s \o t \in Seq(S) /\ Range(s \o t) = Range(s) \cup Range(t)
         /\ \A i \in DOMAIN (s \o t) : (s \o t)[i] \in Range(s) \cup Range(t)
         /\ t # <<>> => s \o t # <<>> /\ (s \o t)[Len(s \o t)] = t[Len(t)]
<1>1. /\ Len(s) \in Nat /\ Len(t) \in Nat /\ DOMAIN s = 1..Len(s) /\ DOMAIN t = 1..Len(t)
      /\ s \o t \in Seq(S) /\ Len(s \o t) = Len(s) + Len(t)
      /\ DOMAIN (s \o t) = 1..(Len(s) + Len(t))
      /\ \A i \in 1..(Len(s) + Len(t)) :
           (s \o t)[i] = IF i <= Len(s) THEN s[i] ELSE t[i - Len(s)]
  BY ConcatProperties, LenProperties
<1>2. \A i \in DOMAIN s : i \in DOMAIN (s \o t) /\ (s \o t)[i] = s[i]
  BY <1>1
<1>3. ASSUME NEW i \in DOMAIN t
      PROVE  i + Len(s) \in DOMAIN (s \o t) /\ (s \o t)[i + Len(s)] = t[i]
  <2>1. ~(i + Len(s) <= Len(s)) /\ (i + Len(s)) - Len(s) = i /\ i + Len(s) \in 1..(Len(s) + Len(t))
    BY <1>1
  <2> QED
    BY <2>1, <1>1
<1>4. ASSUME NEW i \in DOMAIN (s \o t)
      PROVE  (s \o t)[i] \in Range(s) \cup Range(t)
  <2>1. CASE i <= Len(s)
    <3>1. i \in DOMAIN s /\ (s \o t)[i] = s[i]
      BY <2>1, <1>1
    <3> QED
      BY <3>1 DEF Range
  <2>2. CASE ~(i <= Len(s))
    <3>1. i - Len(s) \in DOMAIN t /\ (s \o t)[i] = t[i - Len(s)]
      BY <2>2, <1>1
    <3> QED
      BY <3>1 DEF Range
  <2> QED
    BY <2>1, <2>2
<1>5. Range(s \o t) = Range(s) \cup Range(t)
  <2>1. Range(s \o t) = {(s \o t)[i] : i \in DOMAIN (s \o t)}
    BY DEF Range
  <2>2. Range(s) = {s[i] : i \in DOMAIN s} /\ Range(t) = {t[i] : i \in DOMAIN t}
    BY DEF Range
  <2>3. Range(s) \subseteq Range(s \o t)
    BY <2>1, <2>2, <1>2
  <2>4. Range(t) \subseteq Range(s \o t)
    BY <2>1, <2>2, <1>3
  <2> QED
    BY <2>1, <2>3, <2>4, <1>4
<1>6. t # <<>> => s \o t # <<>> /\ (s \o t)[Len(s \o t)] = t[Len(t)]
  <2>1. SUFFICES ASSUME t # <<>> PROVE s \o t # <<>> /\ (s \o t)[Len(s \o t)] = t[Len(t)]
    OBVIOUS
  <2>2. Len(t) \in DOMAIN t /\ Len(t) + Len(s) = Len(s \o t) /\ Len(s \o t) # 0
    BY <2>1, <1>1, EmptySeq
  <2> QED
    BY <2>2, <1>3, EmptySeq
<1> QED
  BY <1>1, <1>4, <1>5, <1>6

\* What a query finds: drops of the objects of its kind, all of them.
Drops(found) == [i \in DOMAIN found |-> <<"drop", found[i]>>]

LEMMA Found ==
  ASSUME Typed, NEW k, NEW found \in SetToSeqs({o \in present : kind[o] = k})
  PROVE  /\ Drops(found) \in Seq(Statements)
         /\ \A s \in Range(Drops(found)) : s[1] = "drop"
         /\ \A o \in present : kind[o] = k => <<"drop", o>> \in Range(Drops(found))
<1> DEFINE K == {o \in present : kind[o] = k}
           c == Cardinality(K)
<1>1. K \subseteq Object /\ IsFiniteSet(K) /\ c \in Nat
  BY CleanAssumption, FS_Subset, FS_CardinalityType DEF Typed
<1>2. \A o \in present : kind[o] = k => o \in K
  OBVIOUS
<1>3. found \in [1 .. c -> K] /\ \A i, j \in 1 .. c : i # j => found[i] # found[j]
  BY DEF SetToSeqs
<1> HIDE DEF K, c
<1>4. \A o \in K : \E n \in 1 .. c : found[n] = o
  <2>1. found \in Injection(1 .. c, K)
    BY <1>3 DEF Injection, IsInjective
  <2>2. IsFiniteSet(1 .. c) /\ Cardinality(1 .. c) = Cardinality(K)
    BY <1>1, FS_Interval DEF c
  <2>3. found \in Surjection(1 .. c, K)
    BY <1>1, <2>1, <2>2, FS_Injection
  <2> QED
    BY <2>3 DEF Surjection
<1>5. Drops(found) = [n \in 1 .. c |-> <<"drop", found[n]>>]
  BY <1>3 DEF Drops
<1>6. Drops(found) \in Seq(Statements)
  <2>1. \A n \in 1 .. c : <<"drop", found[n]>> \in Statements
    BY <1>1, <1>3 DEF Statements
  <2>2. [n \in 1 .. c |-> <<"drop", found[n]>>] \in Seq(Statements)
    BY <1>1, <2>1, IsASeq
  <2> QED
    BY <2>2, <1>5
<1>7. \A s \in Range(Drops(found)) : s[1] = "drop"
  BY <1>5 DEF Range
<1>8. ASSUME NEW o \in present, kind[o] = k PROVE <<"drop", o>> \in Range(Drops(found))
  <2>1. PICK n \in 1 .. c : found[n] = o
    BY <1>2, <1>4, <1>8
  <2>2. n \in DOMAIN Drops(found) /\ Drops(found)[n] = <<"drop", o>>
    BY <2>1, <1>5
  <2> QED
    BY <2>2 DEF Range
<1> QED
  BY <1>6, <1>7, <1>8

\* The statements around the drops.
LEMMA Controls ==
  ASSUME NEW l \in Seq(Statements), \A i \in DOMAIN l : l[i][1] = "drop"
  PROVE  LET w == WithControls(l)
         IN /\ w \in Seq(Statements) /\ Range(l) \subseteq Range(w)
            /\ \A i \in DOMAIN w : w[i][1] # "drop" => dialect \in Switches /\ w[Len(w)] = <<"on">>
<1> DEFINE w == WithControls(l)
           off == <<<<"off">>>>
           on == <<<<"on">>>>
           front == off \o l
<1>1. CASE dialect \in Switches /\ l # <<>>
  <2>1. off \in Seq(Statements) /\ on \in Seq(Statements) /\ on # <<>> /\ on[Len(on)] = <<"on">>
    BY DEF Statements
  <2>2. w = front \o on
    BY <1>1 DEF WithControls
  <2> HIDE DEF w, off, on
  <2>3. front \in Seq(Statements) /\ Range(l) \subseteq Range(front)
    BY <2>1, Joined
  <2> HIDE DEF front
  <2>4. /\ w \in Seq(Statements) /\ Range(front) \subseteq Range(w)
        /\ w[Len(w)] = <<"on">>
    BY <2>1, <2>2, <2>3, Joined
  <2>5. Range(l) \subseteq Range(w)
    BY <2>3, <2>4
  <2> QED
    BY <1>1, <2>4, <2>5 DEF w
<1>2. CASE ~(dialect \in Switches /\ l # <<>>)
  <2>1. w = l
    BY <1>2 DEF WithControls
  <2> QED
    BY <2>1
<1> QED
  BY <1>1, <1>2

LEMMA GoesItself == ASSUME NEW o \in Object PROVE o \in Gone(o)
BY DEF Gone

LEMMA Orders == \A d \in Dialects : CleanOrder[d] \in Seq(KindNames)
<1>1. \A d \in Dialects :
        d \in {"sqlite", "mysql", "postgresql", "sqlserver", "oracle", "db2"}
  BY CleanAssumption
<1>2. SqliteOrder \in Seq(KindNames)
  BY DEF SqliteOrder, KindNames
<1>3. MySqlOrder \in Seq(KindNames)
  BY DEF MySqlOrder, KindNames
<1>4. PostgresOrder \in Seq(KindNames)
  BY DEF PostgresOrder, KindNames
<1>5. SqlServerOrder \in Seq(KindNames)
  BY DEF SqlServerOrder, KindNames
<1>6. OracleOrder \in Seq(KindNames)
  BY DEF OracleOrder, KindNames
<1>7. Db2Order \in Seq(KindNames)
  BY DEF Db2Order, KindNames
<1> QED
  BY <1>1, <1>2, <1>3, <1>4, <1>5, <1>6, <1>7 DEF CleanOrder

-----------------------------------------------------------------------------
LEMMA InitIInv == Init => IInv
<1> SUFFICES ASSUME Init PROVE IInv
  OBVIOUS
<1>1. dialect \in Dialects /\ kind \in [Object -> KindsOf[dialect]]
  BY DEF Init
<1>2. Typed
  BY <1>1, EmptySeq DEF Init, Typed
<1>3. Pending /\ Switching /\ SuccessMeansGone
  BY EmptySeq DEF Init, Pending, Switching, SuccessMeansGone
<1> QED
  BY <1>2, <1>3 DEF IInv

\* Outside the drops, and after the last of them, the checks are on, or the
\* switch on has failed.
LEMMA ChecksOn ==
  ASSUME Switching, pc # "dropping" \/ list = <<>>
  PROVE  ~checks => onFailed
BY DEF Switching

\* The command ends.
LEMMA EndKeeps ==
  ASSUME IInv, pc # "dropping" \/ list = <<>>, NEW succeeded \in BOOLEAN, End(succeeded),
         failures' = failures \/ failures' = failures + 1, UNCHANGED sessionVars,
         complete' \in BOOLEAN, errors' \in BOOLEAN,
         KindsAreListed /\ succeeded /\ ~dry /\ complete' => Left = {}
  PROVE  IInv'
<1>1. Typed'
  BY EmptySeq DEF IInv, Typed, End, schemaVars, sessionVars
<1>2. Pending'
  BY DEF End, Pending
<1>3. Switching'
  <2>1. list' = <<>> /\ DOMAIN list' = {}
    BY EmptySeq DEF End
  <2>2. ~checks => onFailed
    BY ChecksOn DEF IInv
  <2> QED
    BY <2>1, <2>2 DEF IInv, Switching, End, schemaVars, sessionVars
<1>4. KindsAreListed => SuccessMeansGone'
  BY DEF End, SuccessMeansGone, Left
<1> QED
  BY <1>1, <1>2, <1>3, <1>4 DEF IInv

LEMMA StartKeeps ==
  ASSUME IInv, NEW d \in BOOLEAN, Start(d)
  PROVE  IInv'
<1>1. Typed'
  BY Orders, EmptySeq DEF IInv, Typed, Start, schemaVars, sessionVars, boundVars
<1>2. Pending'
  <2>1. ASSUME KindsAreListed, NEW o \in Left'
        PROVE  o \in Object /\ kind[o] \in Range(CleanOrder[dialect])
    <3>1. o \in Object /\ dialect \in Dialects /\ kind[o] \in KindsOf[dialect]
      BY <2>1 DEF IInv, Typed, Start, Left
    <3> QED
      BY <2>1, <3>1 DEF KindsAreListed
  <2> QED
    BY <2>1 DEF Start, Pending, schemaVars
<1>3. Switching'
  <2>1. list' = <<>> /\ DOMAIN list' = {} /\ pc # "dropping"
    BY EmptySeq DEF Start
  <2>2. ~checks => onFailed
    BY <2>1, ChecksOn DEF IInv
  <2> QED
    BY <2>1, <2>2 DEF IInv, Switching, Start, schemaVars, sessionVars, boundVars
<1>4. SuccessMeansGone'
  BY DEF Start, SuccessMeansGone
<1> QED
  BY <1>1, <1>2, <1>3, <1>4 DEF IInv

LEMMA QueryKeeps ==
  ASSUME IInv, Query
  PROVE  IInv'
<1>0. PICK found \in SetToSeqs({o \in present : kind[o] = Head(kinds)}) :
         list' = list \o Drops(found)
  BY DEF Query, Drops
<1>1. /\ Typed /\ pc = "listing" /\ kinds # <<>> /\ kinds' = Tail(kinds)
      /\ list' = list \o Drops(found)
      /\ UNCHANGED <<schemaVars, needs, present, pc, dry, targets, recreated, sessionVars,
                     complete, errors, success, boundVars>>
  BY <1>0 DEF IInv, Query
<1>2. /\ Drops(found) \in Seq(Statements)
      /\ \A s \in Range(Drops(found)) : s[1] = "drop"
      /\ \A o \in present : kind[o] = Head(kinds) => <<"drop", o>> \in Range(Drops(found))
  BY <1>0, <1>1, Found
<1>3. /\ Tail(kinds) \in Seq(KindNames)
      /\ Range(kinds) = {Head(kinds)} \cup Range(Tail(kinds))
  BY <1>1, Tails DEF Typed
<1>4. /\ list' \in Seq(Statements) /\ Range(list') = Range(list) \cup Range(Drops(found))
      /\ \A i \in DOMAIN list' : list'[i] \in Range(list) \cup Range(Drops(found))
  BY <1>1, <1>2, Joined DEF Typed
<1>5. Typed'
  BY <1>1, <1>3, <1>4 DEF Typed, schemaVars, sessionVars, boundVars
<1>6. Pending'
  <2>1. ASSUME KindsAreListed, complete, NEW o \in Left
        PROVE  kind[o] \in Range(kinds') \/ InList(o)'
    <3>1. kind[o] \in Range(kinds) \/ InList(o)
      BY <1>1, <2>1 DEF IInv, Pending
    <3>2. o \in present
      BY DEF Left
    <3> QED
      BY <3>1, <3>2, <1>1, <1>2, <1>3, <1>4 DEF InList
  <2>2. Left' = Left /\ kind' = kind /\ pc' = pc /\ complete' = complete /\ errors' = errors
    BY <1>1 DEF Left, schemaVars
  <2> QED
    BY <1>1, <2>1, <2>2 DEF IInv, Pending
<1>7. Switching'
  <2>1. \A s \in Range(list) : s[1] = "drop"
    BY <1>1 DEF IInv, Switching, Range
  <2>2. \A i \in DOMAIN list' : list'[i][1] = "drop"
    BY <1>2, <1>4, <2>1
  <2> QED
    BY <1>1, <2>2 DEF IInv, Switching, schemaVars, sessionVars, boundVars
<1>8. SuccessMeansGone'
  BY <1>1 DEF SuccessMeansGone
<1> QED
  BY <1>5, <1>6, <1>7, <1>8 DEF IInv

LEMMA QuerySwallowedKeeps ==
  ASSUME IInv, QuerySwallowed
  PROVE  IInv'
<1>1. /\ Typed /\ pc = "listing" /\ kinds # <<>> /\ kinds' = Tail(kinds) /\ ~complete'
      /\ complete' \in BOOLEAN /\ aborted' = (dialect = "postgresql")
      /\ UNCHANGED <<schemaVars, needs, present, pc, dry, list, targets, recreated, checks,
                     onFailed, errors, success, creations>>
      /\ failures' = failures \/ failures' = failures + 1
  BY DEF IInv, QuerySwallowed, QueryError, Fail
<1>2. Tail(kinds) \in Seq(KindNames)
  BY <1>1, Tails DEF Typed
<1>3. ~checks => onFailed
  BY <1>1, ChecksOn DEF IInv
<1>4. Typed'
  BY <1>1, <1>2 DEF Typed, schemaVars
<1>5. Pending' /\ SuccessMeansGone'
  BY <1>1 DEF Pending, SuccessMeansGone
<1>6. Switching'
  BY <1>1, <1>3 DEF IInv, Switching, schemaVars
<1> QED
  BY <1>4, <1>5, <1>6 DEF IInv

LEMMA ListedKeeps ==
  ASSUME IInv, Listed
  PROVE  IInv'
<1>1. /\ Typed /\ pc = "listing" /\ kinds = <<>> /\ pc' = "dropping"
      /\ list' = WithControls(list) /\ \A i \in DOMAIN list : list[i][1] = "drop"
      /\ UNCHANGED <<schemaVars, needs, present, dry, kinds, targets, recreated, sessionVars,
                     complete, errors, success, boundVars>>
  BY DEF IInv, Listed, Switching
<1>2. /\ list' \in Seq(Statements) /\ Range(list) \subseteq Range(list')
      /\ \A i \in DOMAIN list' :
           list'[i][1] # "drop" => dialect \in Switches /\ list'[Len(list')] = <<"on">>
  BY <1>1, Controls DEF Typed
<1>3. Typed'
  BY <1>1, <1>2 DEF Typed, schemaVars, sessionVars, boundVars
<1>4. Pending'
  <2>1. Range(kinds) = {}
    BY <1>1, EmptySeq DEF Range
  <2>2. KindsAreListed /\ complete => \A o \in Left : InList(o)'
    BY <1>1, <1>2, <2>1 DEF IInv, Pending, InList
  <2>3. Left' = Left /\ complete' = complete
    BY <1>1 DEF Left
  <2> QED
    BY <1>1, <2>2, <2>3 DEF Pending
<1>5. Switching'
  <2>1. ~checks => onFailed
    BY <1>1, ChecksOn DEF IInv
  <2> QED
    BY <1>1, <1>2, <2>1 DEF IInv, Switching, schemaVars, sessionVars, boundVars
<1>6. SuccessMeansGone'
  BY <1>1 DEF SuccessMeansGone
<1> QED
  BY <1>3, <1>4, <1>5, <1>6 DEF IInv

\* A statement was executed or has failed.  What the list still has to do is
\* what it had to do, but for its first statement.
LEMMA NextStatement ==
  ASSUME Typed, Switching, pc = "dropping", list # <<>>, list' = Tail(list),
         UNCHANGED <<pc, dialect>>, aborted' => dialect = "postgresql",
         ~checks' /\ ~onFailed' => list' # <<>> /\ list[Len(list)] = <<"on">>
  PROVE  /\ Head(list) \in Statements /\ list' \in Seq(Statements)
         /\ Range(list) = {Head(list)} \cup Range(list')
         /\ Switching'
<1>1. /\ Head(list) \in Statements /\ list' \in Seq(Statements) /\ Head(list) = list[1]
      /\ Range(list) = {Head(list)} \cup Range(list')
      /\ \A i \in DOMAIN list' : i + 1 \in DOMAIN list /\ list'[i] = list[i + 1]
      /\ list' # <<>> => list'[Len(list')] = list[Len(list)]
  BY Tails DEF Typed
<1>2. \A i \in DOMAIN list' : list'[i][1] # "drop" =>
         dialect \in Switches /\ list' # <<>> /\ list'[Len(list')] = <<"on">>
  <2>1. \A i \in DOMAIN list' : list' # <<>>
    BY EmptySeq
  <2> QED
    BY <1>1, <2>1 DEF Switching
<1>3. Switching'
  BY <1>1, <1>2 DEF Switching
<1> QED
  BY <1>1, <1>3

LEMMA SwitchKeeps ==
  ASSUME IInv, Switch
  PROVE  IInv'
<1>1. /\ Typed /\ Switching /\ pc = "dropping" /\ list # <<>> /\ Head(list)[1] # "drop"
      /\ checks' = (Head(list)[1] = "on") /\ list' = Tail(list) /\ onFailed' = FALSE
      /\ UNCHANGED <<schemaVars, needs, present, pc, dry, kinds, targets, recreated, aborted,
                     complete, errors, success, boundVars>>
  BY DEF IInv, Switch
<1>2. /\ Head(list) \in Statements /\ list[Len(list)] = <<"on">>
      /\ list' = <<>> => list[Len(list)] = Head(list)
  <2>1. /\ Head(list) \in Statements /\ Head(list) = list[1] /\ 1 \in DOMAIN list
        /\ list' = <<>> => list[Len(list)] = Head(list)
    BY <1>1, Tails DEF Typed
  <2> QED
    BY <2>1, <1>1 DEF Switching
<1>3. ~checks' => list' # <<>>
  <2>1. ~checks' => Head(list)[1] # "on"
    BY <1>1
  <2>2. <<"on">>[1] = "on"
    OBVIOUS
  <2> QED
    BY <1>2, <2>1, <2>2
<1>4. /\ list' \in Seq(Statements) /\ Range(list) = {Head(list)} \cup Range(list')
      /\ Switching'
  <2>1. aborted' => dialect = "postgresql"
    BY <1>1 DEF Switching
  <2>2. ~checks' /\ ~onFailed' => list' # <<>> /\ list[Len(list)] = <<"on">>
    BY <1>2, <1>3
  <2>3. UNCHANGED <<pc, dialect>>
    BY <1>1 DEF schemaVars
  <2> QED
    BY <1>1, <2>1, <2>2, <2>3, NextStatement
<1>5. Typed'
  BY <1>1, <1>4 DEF Typed, schemaVars, boundVars
<1>6. Pending'
  <2>1. \A o \in Left : InList(o) => InList(o)'
    <3>1. ASSUME NEW o PROVE Head(list) # <<"drop", o>>
      BY <1>1
    <3> QED
      BY <3>1, <1>4 DEF InList
  <2>2. Left' = Left
    BY <1>1 DEF Left
  <2> QED
    BY <1>1, <2>1, <2>2 DEF IInv, Pending
<1>7. SuccessMeansGone'
  BY <1>1 DEF SuccessMeansGone
<1> QED
  BY <1>4, <1>5, <1>6, <1>7 DEF IInv

LEMMA DropKeeps ==
  ASSUME IInv, Drop
  PROVE  IInv'
<1> DEFINE o == Head(list)[2]
<1>1. /\ Typed /\ Switching /\ pc = "dropping" /\ list # <<>> /\ Head(list)[1] = "drop"
      /\ ~aborted /\ list' = Tail(list)
      /\ present' = (IF o \in present THEN present \ Gone(o) ELSE present)
      /\ recreated' = (IF o \in present THEN recreated \ Gone(o) ELSE recreated)
      /\ UNCHANGED <<schemaVars, needs, pc, dry, kinds, targets, sessionVars, complete, errors,
                     success, boundVars>>
  BY DEF IInv, Drop
<1>2. /\ Head(list) \in Statements /\ list' \in Seq(Statements)
      /\ Range(list) = {Head(list)} \cup Range(list') /\ Switching'
  <2>1. ~checks' /\ ~onFailed' => list' # <<>> /\ list[Len(list)] = <<"on">>
    <3>1. list' = <<>> => list[Len(list)] = Head(list)
      BY <1>1, Tails DEF Typed
    <3>2. <<"on">>[1] = "on"
      OBVIOUS
    <3> QED
      BY <1>1, <3>1, <3>2 DEF Switching, sessionVars
  <2>2. UNCHANGED <<pc, dialect>> /\ (aborted' => dialect = "postgresql")
    BY <1>1 DEF schemaVars, sessionVars
  <2> QED
    BY <1>1, <2>1, <2>2, NextStatement
<1>3. o \in Object /\ Head(list) = <<"drop", o>>
  <2>1. <<"off">>[1] # "drop" /\ <<"on">>[1] # "drop"
    OBVIOUS
  <2>2. PICK p \in Object : Head(list) = <<"drop", p>>
    BY <1>1, <1>2, <2>1 DEF Statements
  <2> QED
    BY <2>2
<1> HIDE DEF o
<1>4. Typed'
  BY <1>1, <1>2 DEF Typed, schemaVars, sessionVars, boundVars
<1>5. Pending'
  <2>1. Left' \subseteq Left \ {o}
    <3>1. CASE o \in present
      BY <3>1, <1>1, <1>3, GoesItself DEF Left
    <3>2. CASE o \notin present
      BY <3>2, <1>1 DEF Left
    <3> QED
      BY <3>1, <3>2
  <2>2. \A p : p # o => <<"drop", p>> # Head(list)
    BY <1>3
  <2>3. \A p \in Left' : InList(p) => InList(p)'
    BY <1>2, <2>1, <2>2 DEF InList
  <2> QED
    BY <1>1, <2>1, <2>3 DEF IInv, Pending
<1>6. SuccessMeansGone'
  BY <1>1 DEF SuccessMeansGone
<1> QED
  BY <1>2, <1>4, <1>5, <1>6 DEF IInv

\* While the checks are off, what fails is not the switch back on, or that is
\* noted: so it is still to come.
LEMMA StatementFailsKeeps ==
  ASSUME IInv, StatementFails
  PROVE  IInv'
<1>1. /\ Typed /\ Switching /\ pc = "dropping" /\ list # <<>> /\ list' = Tail(list)
      /\ StatementError /\ errors' = TRUE /\ aborted' = (dialect = "postgresql")
      /\ onFailed' = (onFailed \/ Head(list) = <<"on">>)
      /\ UNCHANGED <<schemaVars, present, pc, dry, kinds, targets, recreated, checks, complete,
                     success, creations>>
  BY DEF IInv, StatementFails, FailedWith
<1>2. failures' \in Nat
  BY <1>1 DEF Typed, StatementError, Fail
<1>3. list' = <<>> => list[Len(list)] = Head(list)
  BY <1>1, Tails DEF Typed
<1>4. list' \in Seq(Statements) /\ Switching'
  <2>1. ASSUME ~checks', ~onFailed'
        PROVE  list' # <<>> /\ list[Len(list)] = <<"on">>
    <3>1. list[Len(list)] = <<"on">> /\ Head(list) # <<"on">>
      BY <1>1, <2>1 DEF Switching
    <3> QED
      BY <1>3, <3>1
  <2>2. UNCHANGED <<pc, dialect>> /\ (aborted' => dialect = "postgresql")
    BY <1>1 DEF schemaVars
  <2> QED
    BY <1>1, <2>1, <2>2, NextStatement
<1>5. Typed'
  BY <1>1, <1>2, <1>4 DEF Typed, schemaVars
<1>6. Pending' /\ SuccessMeansGone'
  BY <1>1 DEF Pending, SuccessMeansGone
<1> QED
  BY <1>4, <1>5, <1>6 DEF IInv

\* All that was there is gone when no statement is left and none has failed.
LEMMA FinishKeeps ==
  ASSUME IInv, Finish
  PROVE  IInv'
<1>1. /\ pc = "dropping" /\ list = <<>> /\ End(~errors)
      /\ UNCHANGED <<sessionVars, complete, errors, failures>>
  BY DEF Finish
<1>2. Range(list) = {}
  BY <1>1, EmptySeq DEF Range
<1>3. KindsAreListed /\ ~errors /\ complete => Left = {}
  BY <1>1, <1>2 DEF IInv, Pending, InList
<1>4. (~errors) \in BOOLEAN /\ complete' \in BOOLEAN /\ errors' \in BOOLEAN
  BY <1>1 DEF IInv, Typed
<1> QED
  BY <1>1, <1>3, <1>4, EndKeeps

\* The ways the command ends without success, and the dry run.
LEMMA EndsKeep ==
  ASSUME IInv, StartFails \/ QueryFails \/ Preview \/ AfterCleanFails
  PROVE  IInv'
<1>1. complete' \in BOOLEAN /\ errors' \in BOOLEAN /\ UNCHANGED sessionVars
  BY DEF IInv, Typed, StartFails, QueryFails, Preview, AfterCleanFails
<1>2. failures' = failures \/ failures' = failures + 1
  BY DEF StartFails, QueryFails, QueryError, Preview, AfterCleanFails, Fail
<1>3. pc # "dropping" \/ list = <<>>
  BY DEF StartFails, QueryFails, Preview, AfterCleanFails
<1>4. CASE End(FALSE)
  BY <1>1, <1>2, <1>3, <1>4, EndKeeps
<1>5. CASE dry /\ End(TRUE)
  BY <1>1, <1>2, <1>3, <1>5, EndKeeps
<1> QED
  BY <1>4, <1>5 DEF StartFails, QueryFails, Preview, AfterCleanFails

LEMMA ReconnectKeeps ==
  ASSUME IInv, Reconnect
  PROVE  IInv'
<1>1. Typed'
  BY DEF IInv, Typed, Reconnect, schemaVars, boundVars
<1>2. Pending' /\ SuccessMeansGone'
  BY DEF Reconnect, Pending, SuccessMeansGone
<1>3. Switching'
  BY DEF IInv, Switching, Reconnect, schemaVars, boundVars
<1> QED
  BY <1>1, <1>2, <1>3 DEF IInv

\* Whatever somebody else creates counts as created again.
LEMMA CreateKeeps ==
  ASSUME IInv, NEW o \in Object, Create(o)
  PROVE  IInv'
<1>1. /\ present' = present \cup {o} /\ recreated' = recreated \cup {o}
      /\ UNCHANGED <<schemaVars, needs, pc, dry, kinds, list, targets, sessionVars, complete,
                     errors, success, failures>>
  BY DEF Create
<1>2. Left' \subseteq Left
  BY <1>1 DEF Left
<1>3. Typed'
  BY <1>1 DEF IInv, Typed, schemaVars, sessionVars
<1>4. Pending'
  BY <1>1, <1>2 DEF IInv, Pending, InList, schemaVars
<1>5. Switching'
  BY <1>1 DEF IInv, Switching, schemaVars, sessionVars
<1>6. KindsAreListed => SuccessMeansGone'
  BY <1>1 DEF IInv, SuccessMeansGone
<1> QED
  BY <1>3, <1>4, <1>5, <1>6 DEF IInv

-----------------------------------------------------------------------------
LEMMA Unchanged == IInv /\ UNCHANGED vars => IInv'
BY DEF IInv, Typed, Pending, Left, InList, Switching, SuccessMeansGone,
       vars, schemaVars, sessionVars, boundVars

LEMMA Step == IInv /\ [Next]_vars => IInv'
<1> SUFFICES ASSUME IInv, [Next]_vars PROVE IInv'
  OBVIOUS
<1>1. CASE UNCHANGED vars
  BY <1>1, Unchanged
<1>2. ASSUME NEW d \in BOOLEAN, Start(d) PROVE IInv'
  BY <1>2, StartKeeps
<1>3. CASE StartFails
  BY <1>3, EndsKeep
<1>4. CASE Statement
  BY <1>4, QueryKeeps, QuerySwallowedKeeps, EndsKeep, ListedKeeps, SwitchKeeps, DropKeeps,
     StatementFailsKeeps, FinishKeeps DEF Statement
<1>5. CASE Reconnect
  BY <1>5, ReconnectKeeps
<1>6. ASSUME NEW o \in Object, Create(o) PROVE IInv'
  BY <1>6, CreateKeeps
<1> QED
  BY <1>1, <1>2, <1>3, <1>4, <1>5, <1>6 DEF Next

\* What a clean in progress still has to do, and what the session is in.
THEOREM Invariant == Spec => []IInv
BY InitIInv, Step, PTL DEF Spec

\* A clean that got all its answers and reports success has dropped whatever
\* was there when it started, except what somebody created again: whatever the
\* schema holds, whatever depends on what, and whatever fails.
THEOREM SuccessIsGone == ASSUME KindsAreListed PROVE Spec => []SuccessMeansGone
<1>1. IInv => SuccessMeansGone
  BY DEF IInv
<1> QED
  BY <1>1, Invariant, PTL

\* However many queries, drops, switches off and callbacks fail, in however many
\* cleans on one session: when no clean is at work the session checks foreign keys,
\* unless the statement that was to put the checks on was executed last, and failed.
THEOREM ChecksComeBack == Spec => []ChecksRestored
<1>1. IInv => ChecksRestored
  BY DEF IInv, Typed, Switching, ChecksRestored
<1> QED
  BY <1>1, Invariant, PTL
=============================================================================
